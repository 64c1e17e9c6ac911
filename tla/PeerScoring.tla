----------------------------- MODULE PeerScoring -----------------------------
(***************************************************************************)
(* The peer score table of one conversation (peer_scoring/).  A table is a *)
(* function from the tracked members to their scores; the storage backend  *)
(* is the integrator's.                                                    *)
(***************************************************************************)
EXTENDS Integers, SequencesExt

CONSTANTS MinScore, MaxScore   \* i64::MIN, i64::MAX

ASSUME ScoreRange == MinScore \in Int /\ MaxScore \in Int /\ MinScore < MaxScore

\* ScoreEvent::default_delta, for what commit selection observes
Delta == [SuccessfulCommit |-> 10, HonestCommitAttempt |-> 5,
          MisbehavingCommit |-> -10, CensorshipInactivity |-> -40]

\* Mutant of SaturatingAdd: a plain addition
PlainAdd(a, b) == a + b

\* i64::saturating_add
SaturatingAdd(a, b) ==
  IF a + b > MaxScore THEN MaxScore ELSE IF a + b < MinScore THEN MinScore ELSE a + b

\* add_member of each of some members, tracked before or not: their scores start
\* afresh
AddMembers(table, new, default) ==
  [x \in (DOMAIN table) \cup new |-> IF x \in new THEN default ELSE table[x]]

\* remove_member of each of some members
RemoveMembers(table, gone) == Restrict(table, (DOMAIN table) \ gone)

\* One op of a batch.  An op for an untracked member is dropped.
ApplyOp(table, op) ==
  IF op.member \in DOMAIN table
  THEN [table EXCEPT ![op.member] = SaturatingAdd(@, Delta[op.event])]
  ELSE table

\* apply_ops: one op after the other
ApplyOps(table, ops) ==
  LET after[i \in 0..Len(ops)] ==
        IF i = 0 THEN table ELSE ApplyOp(after[i - 1], ops[i])
  IN after[Len(ops)]

\* snapshot: only the scores that moved off the default
Snapshot(table, default) == Restrict(table, {m \in DOMAIN table : table[m] # default})

\* apply_snapshot: tracks unknown members too
ApplySnapshot(table, snap) ==
  [m \in (DOMAIN table) \cup DOMAIN snap |-> IF m \in DOMAIN snap THEN snap[m] ELSE table[m]]

\* Mutant of SetDefault: members at the old default stay there
SetDefaultAlone(table, old, new) == table

\* set_default_score: whoever is at the old default moves along
SetDefault(table, old, new) ==
  [m \in DOMAIN table |-> IF table[m] = old THEN new ELSE table[m]]

\* sync_scoring_members over scoring_member_diff
SyncMembers(table, members, default) ==
  [m \in members |-> IF m \in DOMAIN table THEN table[m] ELSE default]
==============================================================================
