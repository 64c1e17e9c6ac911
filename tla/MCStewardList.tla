---------------------------- MODULE MCStewardList ----------------------------
(***************************************************************************)
(* The list algorithms of StewardList against what they promise, over      *)
(* every pool, retry round and eligibility of a small id set, and over the *)
(* epochs before, in and after the span of the list.                       *)
(***************************************************************************)
EXTENDS StewardList

CONSTANTS Ids, Epochs, Rounds

\* Digests are compared like numbers.
ASSUME RangeAssumption ==
  /\ Ids \subseteq Nat \ {0} /\ IsFiniteSet(Ids)
  /\ Epochs \subseteq Nat /\ Rounds \subseteq Nat
  /\ \A e \in Epochs, r \in Rounds, m \in Ids : StewardHash(e, r, m) \in Nat

VARIABLES list, epoch, round, eligible

vars == <<list, epoch, round, eligible>>

\* Few distinct keys, so that ties reach the comparison by member id.
MCHash(e, r, m) == (e + r * m + m * m) % 3

StewardsOf(l) == {Stewards(l)[i] : i \in DOMAIN Stewards(l)}

Init ==
  /\ list \in [pool : (SUBSET Ids) \ {{}}, epoch : Epochs, round : Rounds]
  /\ epoch = 0
  /\ round = 0
  /\ eligible = Ids

\* A member is queued for removal, or leaves the group.
Lose(m) ==
  /\ m \in eligible
  /\ eligible' = eligible \ {m}
  /\ UNCHANGED <<list, epoch, round>>

Advance ==
  /\ epoch + 1 \in Epochs
  /\ epoch' = epoch + 1
  /\ UNCHANGED <<list, round, eligible>>

Retry ==
  /\ round + 1 \in Rounds
  /\ round' = round + 1
  /\ UNCHANGED <<list, epoch, eligible>>

Next == (\E m \in Ids : Lose(m)) \/ Advance \/ Retry

Spec == Init /\ [][Next]_vars

------------------------------------------------------------------------------
\* An accepted election reinstalls its list by generating it again from the
\* elected stewards alone (handle_election_accepted, install_list); members that
\* elected over the pool and members that install over the stewards end up with
\* the same order.
RegenerationReproduces ==
  Generate(list.epoch, list.round, StewardsOf(list), ListLen(list)) = Stewards(list)

\* The list has a size StewardListConfig allows, and it leaves no member of the
\* pool out exactly when no vote is required, so that reconcile_steward_list may
\* install it locally.
LocalInstallCoversPool ==
  LET total == Cardinality(list.pool)
  IN /\ IsValidSize(ListLen(list), total)
     /\ ElectionRequired(total) <=> \E m \in list.pool : ~IsSteward(list, m)

\* Rotation: while nobody is lost, every steward is epoch steward for exactly one
\* epoch of the list's span, and outside the span there is none
\* (epoch_steward, is_exhausted).
EachStewardServesOnce ==
  LET span == {e \in Epochs : EpochSteward(list, e, Ids) # NoMember}
  IN /\ span = Epochs \cap (list.epoch..(list.epoch + ListLen(list) - 1))
     /\ \A d, e \in span :
          EpochSteward(list, d, Ids) = EpochSteward(list, e, Ids) => d = e

\* Whoever is lost, the epoch steward and the backup are two different eligible
\* stewards, and either is missing only when too few are left
\* (epoch_and_backup, steward_from).
BackupIsAnotherSteward ==
  LET es   == EpochSteward(list, epoch, eligible)
      bs   == BackupSteward(list, epoch, eligible)
      live == IF Exhausted(list, epoch) THEN {} ELSE StewardsOf(list) \cap eligible
  IN /\ es # NoMember => es \in live
     /\ bs # NoMember => bs \in live \ {es}
     /\ es = NoMember <=> live = {}
     /\ bs = NoMember <=> Cardinality(live) < 2

\* Retrying hands the election to everyone who may propose it: over as many
\* consecutive rounds as there are eligible members each is responsible exactly
\* once, elected steward or not, whatever round the ladder is at
\* (responsible_proposer).
RetryReachesEveryProposer ==
  LET n     == Cardinality(eligible)
      At(k) == ResponsibleProposer(list, round + k, Ids, eligible)
  IN IF n = 0 THEN At(0) = NoMember ELSE {At(k) : k \in 0..(n - 1)} = eligible
==============================================================================
