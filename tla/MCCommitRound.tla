---------------------------- MODULE MCCommitRound ----------------------------
\* Instances of CommitRound for TLC.
EXTENDS CommitRound

\* compute_steward_hash: a fixed permutation per epoch and round
MCHash(epoch, rnd, m) == (m * 3 + epoch + rnd) % 5

\* The stewards are 3 and 2; 1 leaves.
JoinAndLeave == {Add(4), Remove(1)}
==============================================================================
