--------------------------- MODULE CommitSelection ---------------------------
(***************************************************************************)
(* The approved queue, what one member mints from it and which buffered    *)
(* candidate it applies (conversation/queues.rs, handle.rs                 *)
(* build_local_candidate, commit_round/validate.rs and apply.rs).  Pure    *)
(* operators over one commit round.                                        *)
(*                                                                         *)
(* A membership change is [op, id].  The approved queue, an IndexMap, is   *)
(* [next, entries]: entries holds [at, change] with at the arrival order,  *)
(* so two proposals may carry the same change.  A batch is the set of      *)
(* changes a commit carries.  A candidate is [from, batch, stages]: stages *)
(* abstracts MLS staging, FALSE for a commit made at another epoch, or     *)
(* whose wire sender or bundled proposals do not match its signer.         *)
(***************************************************************************)
EXTENDS Integers, FiniteSets

Add(id) == [op |-> "Add", id |-> id]
Remove(id) == [op |-> "Remove", id |-> id]

EmptyQueue == [next |-> 0, entries |-> {}]

\* The voted-approved set, deduplicated as validate_commit_candidate does.
ChangesOf(queue) == {e.change : e \in queue.entries}

\* approved_proposals_count, and mls_count of RoundContext: only membership
\* changes enter the queue
CountOf(queue) == Cardinality(queue.entries)

\* insert_approved_proposal
Enqueue(queue, c) ==
  [next    |-> queue.next + 1,
   entries |-> queue.entries \cup {[at |-> queue.next, change |-> c]}]

\* drop_approved_removals_for, for every member of ids.  The arrival stamps
\* restart when nothing is left.
DropRemovals(queue, ids) ==
  LET kept == {e \in queue.entries :
                 ~(e.change.op = "Remove" /\ e.change.id \in ids)}
  IN [next |-> IF kept = {} THEN 0 ELSE queue.next, entries |-> kept]

\* has_approved_removal
HasRemoval(queue, id) == Remove(id) \in ChangesOf(queue)

\* An Add of a non-member or a Remove of a member: what MLS can commit.
Actionable(c, members) ==
  IF c.op = "Add" THEN c.id \notin members ELSE c.id \in members

\* approved.iter().take(k_max): the first k entries in arrival order
FirstOf(queue, k) ==
  {e \in queue.entries :
     Cardinality({f \in queue.entries : f.at < e.at}) < k}

\* The batch build_local_candidate commits: of the first batchMax approvals,
\* the ones MLS can commit, and only the urgent target's removal if one is set
MintedBatch(queue, urgent, members, batchMax) ==
  {c \in {e.change : e \in FirstOf(queue, batchMax)} :
     Actionable(c, members) /\ (urgent = 0 \/ c = Remove(urgent))}

------------------------------------------------------------------------------
\* Mutant of CountMatches: subsets pass in every round
CountCovered(cand, voted, allowSubset) == Cardinality(cand.batch) <= voted

\* rank_applicable_candidates: the action-count filter
CountMatches(cand, voted, allowSubset) ==
  LET n == Cardinality(cand.batch)
  IN IF allowSubset THEN n <= voted ELSE n = voted

\* compare_candidate_priority, up to the hash tie-break
Outranks(a, b, epochSteward) ==
  LET na == Cardinality(a.batch)
      nb == Cardinality(b.batch)
      tier(c) == IF c.from = epochSteward THEN 0 ELSE 1
  IN \/ na > nb
     \/ na = nb /\ tier(a) < tier(b)
     \/ na = nb /\ tier(a) = tier(b) /\ a.from < b.from

\* Mutant of RemoteApplies: the actions are not compared with the votes
RemoteAppliesUnvoted(cand, queue, authorised) ==
  cand.stages /\ cand.from \in authorised

\* The validation ladder of apply_incoming_candidate: stage, authorise the
\* sender, compare the actions with the whole voted set.
RemoteApplies(cand, queue, authorised) ==
  /\ cand.stages
  /\ cand.from \in authorised
  /\ cand.batch = ChangesOf(queue)

\* apply_in_priority_order: our own candidate applies when reached, a remote
\* one when the ladder accepts it, and the best-ranked one that applies wins.
Winners(cands, self, queue, authorised, allowSubset, epochSteward) ==
  LET usable == {c \in cands :
                   /\ CountMatches(c, CountOf(queue), allowSubset)
                   /\ c.from = self \/ RemoteApplies(c, queue, authorised)}
  IN {w \in usable : \A c \in usable : ~Outranks(c, w, epochSteward)}

==============================================================================
