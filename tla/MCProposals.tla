----------------------------- MODULE MCProposals -----------------------------
\* Instances of Proposals for TLC: leaf 0 is the local member, keys are model
\* values, so that a key equals no leaf.
EXTENDS Proposals

CONSTANTS ka, kb, kc

Pair == [l \in {0, 1} |-> IF l = 0 THEN ka ELSE kb]
SomeRequests == {Invite(kc), RemoveMember(1), Emergency}
==============================================================================
