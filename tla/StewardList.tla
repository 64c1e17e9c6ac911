----------------------------- MODULE StewardList -----------------------------
(***************************************************************************)
(* The deterministic steward list (steward_list/list.rs, service.rs).      *)
(*                                                                         *)
(* Members are natural numbers, ordered like the byte strings of the code  *)
(* (leaf indices); 0 stands for Option::None.  The SHA-256 sort key of a   *)
(* member is the constant operator StewardHash(epoch, round, member).      *)
(*                                                                         *)
(* A list is kept by what determines it: the pool it was elected from, its *)
(* election epoch and its retry round.  The ordered stewards of the code   *)
(* are Stewards(list).  The code also re-sorts an elected list over its    *)
(* own members (install_list after an accepted election); that this gives  *)
(* back the same list is the property RegenerationReproduces of            *)
(* MCStewardList.                                                          *)
(***************************************************************************)
EXTENDS Integers, Sequences, FiniteSets

CONSTANTS SnMin,                 \* StewardListConfig::sn_min
          SnMax,                 \* StewardListConfig::sn_max
          StewardHash(_, _, _)   \* compute_steward_hash(epoch, round, member)

ASSUME SnAssumption == /\ SnMin \in Nat \ {0}
                       /\ SnMax \in Nat
                       /\ SnMin <= SnMax

\* Option::None for a member
NoMember == 0

\* list: None, as no elected list has an empty pool
NoList == [pool |-> {}, epoch |-> 0, round |-> 0]

------------------------------------------------------------------------------
\* StewardListConfig

\* size_bounds: the exact count below sn_min, else sn_min..min(sn_max, total)
SizeBounds(total) ==
  IF total < SnMin THEN total..total
                   ELSE SnMin..(IF SnMax <= total THEN SnMax ELSE total)

IsValidSize(size, total) == size \in SizeBounds(total)

\* compute_list_size: the largest legal size
ComputeListSize(total) ==
  IF total < SnMin THEN total ELSE IF SnMax <= total THEN SnMax ELSE total

------------------------------------------------------------------------------
\* StewardList

\* The total order of sorted_steward_indices: hash first, then member id.
Before(epoch, round, a, b) ==
  LET ha == StewardHash(epoch, round, a)
      hb == StewardHash(epoch, round, b)
  IN ha < hb \/ (ha = hb /\ a < b)

\* Position of m in the sorted pool, counted from 0.
Rank(epoch, round, pool, m) ==
  Cardinality({x \in pool : Before(epoch, round, x, m)})

\* Mutant of Generate: the list starts at the epoch's slot of the pool
GenerateRotated(epoch, round, pool, sn) ==
  [i \in 1..sn |-> CHOOSE m \in pool :
     Rank(epoch, round, pool, m) = (epoch + i - 1) % Cardinality(pool)]

\* sorted_steward_indices(..).take(sn): the first sn of the sorted pool.
Generate(epoch, round, pool, sn) ==
  [i \in 1..sn |-> CHOOSE m \in pool : Rank(epoch, round, pool, m) = i - 1]

\* The ordered stewards of an installed list.
Stewards(list) ==
  Generate(list.epoch, list.round, list.pool,
           ComputeListSize(Cardinality(list.pool)))

ListLen(list) == ComputeListSize(Cardinality(list.pool))

\* validate: proposed is exactly what generate produces over pool.
Validate(proposed, epoch, round, pool) ==
  LET sn == ComputeListSize(Cardinality(pool))
  IN /\ Len(proposed) = sn
     /\ proposed = Generate(epoch, round, pool, sn)

\* Mutant of Exhausted: one epoch too many
ExhaustedLate(list, epoch) ==
  epoch < list.epoch \/ epoch - list.epoch > ListLen(list)

\* is_exhausted: epoch lies outside [election_epoch, election_epoch + len)
Exhausted(list, epoch) ==
  epoch < list.epoch \/ epoch - list.epoch >= ListLen(list)

\* contains / StewardListService::is_steward (no list: nobody is a steward)
IsSteward(list, m) ==
  /\ m \in list.pool
  /\ Rank(list.epoch, list.round, list.pool, m) < ListLen(list)

\* steward_from: the first eligible member from the epoch's slot plus offset.
StewardFrom(list, epoch, offset, eligible) ==
  LET n      == ListLen(list)
      At(k)  == Stewards(list)[((epoch - list.epoch + offset + k) % n) + 1]
      hits   == {k \in 0..(n - 1) : At(k) \in eligible}
  IN IF list = NoList \/ Exhausted(list, epoch) \/ hits = {}
     THEN NoMember
     ELSE At(CHOOSE k \in hits : \A j \in hits : k <= j)

EpochSteward(list, epoch, eligible) == StewardFrom(list, epoch, 0, eligible)

\* Mutant of BackupSteward: the epoch steward is not skipped
BackupNextSlot(list, epoch, eligible) ==
  IF EpochSteward(list, epoch, eligible) = NoMember THEN NoMember
  ELSE StewardFrom(list, epoch, 1, eligible)

\* epoch_and_backup: the backup walks from the next slot, skipping the steward.
BackupSteward(list, epoch, eligible) ==
  LET es == EpochSteward(list, epoch, eligible)
  IN IF es = NoMember THEN NoMember
     ELSE StewardFrom(list, epoch, 1, eligible \ {es})

------------------------------------------------------------------------------
\* StewardListService

\* is_exhausted: false while no list is installed
ListExhausted(list, epoch) == list # NoList /\ Exhausted(list, epoch)

\* Mutant of ElectionRequired: a pool that just fits is voted on
ElectionRequiredEarly(count) == count >= SnMax

\* election_required: a genuine subset must be voted on
ElectionRequired(count) == count > SnMax

\* The order of the authority sequence: stewards in rotation order, then the
\* others by ascending id
AuthorityBefore(list, a, b) ==
  IF IsSteward(list, a) THEN IsSteward(list, b) => Before(list.epoch, list.round, a, b)
  ELSE ~IsSteward(list, b) /\ a < b

\* The members of may in that order
InAuthorityOrder(list, may) ==
  [i \in 1..Cardinality(may) |->
     CHOOSE m \in may : Cardinality({x \in may : AuthorityBefore(list, x, m)}) = i - 1]

\* Mutant of Authority: only stewards may propose
AuthorityOfStewards(list, pool, eligible) ==
  InAuthorityOrder(list, {m \in list.pool \cap eligible : IsSteward(list, m)})

\* The authority sequence of responsible_proposer: the eligible stewards and the
\* other eligible candidates
Authority(list, pool, eligible) ==
  InAuthorityOrder(list, ({m \in list.pool : IsSteward(list, m)} \cup pool) \cap eligible)

\* responsible_proposer: round % len picks the entry
ResponsibleProposer(list, round, pool, eligible) ==
  LET seq == Authority(list, pool, eligible)
  IN IF seq = <<>> THEN NoMember ELSE seq[(round % Len(seq)) + 1]

==============================================================================
