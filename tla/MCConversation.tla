--------------------------- MODULE MCConversation ----------------------------
(***************************************************************************)
(* Small instances of Conversation: member 1 is the local member, 2 its    *)
(* peer and 3 a joiner.                                                    *)
(***************************************************************************)
EXTENDS Conversation

\* A sort key that hands the first slot to 1 or 2 depending on epoch + round.
MCHash(epoch, round, m) == (epoch + round + m) % 2
\* The same with the slots swapped: 2 is the first steward.
PeerFirstHash(epoch, round, m) == (epoch + round + m + 1) % 2

JoinAndBan == {Add(3), Remove(2), Remove(1)}
JoinAndLeave == {Add(3), Remove(1)}
BanOnly == {Remove(2), Remove(1)}
NoEmergency == {}
ScoreOnly == {[kind |-> "score", target |-> 2]}
DeadlockOnly == {[kind |-> "deadlock"]}
ScoreAndDeadlock == {[kind |-> "score", target |-> 2], [kind |-> "deadlock"]}
EveryEmergency == ScoreAndDeadlock \cup {[kind |-> "violation"]}
FullAndPartial == {[from |-> 2, batch |-> {Add(3)}],
                   [from |-> 2, batch |-> {Add(3), Remove(1)}]}
NoOffers == {}
PeerOffers == {[from |-> 2, batch |-> {Remove(1)}]}
NoForeignPool == {}
SelfOnlyPool == {{1}}
NoSync == {}
PeerSync == {[pool |-> {1, 2}, epoch |-> 1, round |-> 0]}
==============================================================================
