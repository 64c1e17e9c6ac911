-------------------------------- MODULE MCSync -------------------------------
\* Instances of Sync for TLC.
EXTENDS Sync

MCHash(e, r, m) == (e + r * m + m * m) % 3
==============================================================================
