----------------------------- MODULE GroupHistory ----------------------------
(***************************************************************************)
(* What the commit rounds of a group promise, with no phase, timer, buffer *)
(* or message in sight: one history of commits, each carrying changes the  *)
(* group voted for and none of them twice, which every member follows one  *)
(* commit at a time.  A member either takes the next commit of the history *)
(* or, standing at its end, extends it.                                    *)
(***************************************************************************)
EXTENDS Integers, Sequences

CONSTANTS Members,   \* members that follow the history
          Changes    \* membership changes that can be voted

VARIABLES voted,     \* changes the group accepted
          log,       \* the history, a sequence of commits
          view       \* what each member has merged of it

vars == <<voted, log, view>>

\* The changes the commits of a history carry
Carried(h) == UNION {h[i].batch : i \in DOMAIN h}

Init == voted = {} /\ log = <<>> /\ view = [n \in Members |-> <<>>]

Vote(c) ==
  /\ c \notin voted
  /\ voted' = voted \cup {c}
  /\ UNCHANGED <<log, view>>

\* The first member to merge a commit fixes it for everybody.
Extend(n) ==
  /\ view[n] = log
  /\ Len(log') = Len(log) + 1
  /\ SubSeq(log', 1, Len(log)) = log
  /\ LET batch == log'[Len(log')].batch
     IN batch # {} /\ batch \subseteq voted \ Carried(log)
  /\ view' = [view EXCEPT ![n] = log']
  /\ UNCHANGED voted

Follow(n) ==
  /\ Len(view[n]) < Len(log)
  /\ view' = [view EXCEPT ![n] = Append(@, log[Len(@) + 1])]
  /\ UNCHANGED <<voted, log>>

Next ==
  \/ \E c \in Changes : Vote(c)
  \/ \E n \in Members : Extend(n) \/ Follow(n)

Spec == Init /\ [][Next]_vars
==============================================================================
