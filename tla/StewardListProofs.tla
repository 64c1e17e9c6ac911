-------------------------- MODULE StewardListProofs ---------------------------
(***************************************************************************)
(* The promises of MCStewardList for every set of members, every span of   *)
(* epochs and rounds, every configuration and every hash function: the     *)
(* proofs use of the hash only that its values are comparable.             *)
(***************************************************************************)
EXTENDS MCStewardList, StewardListLemmas

\* What the walk over pools, epochs, rounds and losses keeps
Walk ==
  /\ list \in [pool : (SUBSET Ids) \ {{}}, epoch : Epochs, round : Rounds]
  /\ epoch \in Nat
  /\ round \in Nat
  /\ eligible \in SUBSET Ids

LEMMA WalkInvariant == Spec => []Walk
  <1>1. Init => Walk  BY DEF Init, Walk
  <1>2. Walk /\ [Next]_vars => Walk'
    BY RangeAssumption DEF Walk, Next, Lose, Advance, Retry, vars
  <1> QED  BY <1>1, <1>2, PTL DEF Spec

\* Every list of the walk was elected from a pool with comparable sort keys.
LEMMA WalkElected ==
  ASSUME Walk
  PROVE  /\ Elected(list)
         /\ list.pool \in SUBSET Ids
         /\ eligible \in SUBSET Ids /\ IsFiniteSet(eligible)
         /\ epoch \in Nat /\ round \in Nat
  <1>1. /\ list.pool \in SUBSET Ids /\ list.pool # {}
        /\ list.epoch \in Epochs /\ list.round \in Rounds
    BY DEF Walk
  <1>2. IsFiniteSet(list.pool) /\ IsFiniteSet(eligible)
    BY <1>1, RangeAssumption, FS_Subset DEF Walk
  <1>3. Hashed(list.epoch, list.round, list.pool)  BY <1>1, <1>2, RangeAssumption DEF Hashed
  <1> QED  BY <1>1, <1>2, <1>3, RangeAssumption DEF Walk, Elected

LEMMA StewardsOfList ==
  ASSUME Walk
  PROVE  StewardsOf(list) = {m \in list.pool : IsSteward(list, m)}
  <1>1. Elected(list)  BY WalkElected
  <1> QED  BY <1>1, StewardsAt DEF StewardsOf

------------------------------------------------------------------------------
\* Members that elected over the pool and members that install over the elected
\* stewards alone (handle_election_accepted, install_list) hold the same list,
\* whatever the pool, the epoch, the retry round and the hash.
THEOREM RegenerationIsStable == Spec => []RegenerationReproduces
  <1>1. ASSUME Walk  PROVE RegenerationReproduces
    <2> DEFINE n == ListLen(list)
               T == StewardsOf(list)
    <2>1. Elected(list)  BY <1>1, WalkElected
    <2>2. n \in 0..Cardinality(list.pool)
      <3>1. Cardinality(list.pool) \in Nat /\ n \in 1..Cardinality(list.pool)
        BY <2>1, ListLenRange
      <3> QED  BY <3>1
    <2>3. T = {m \in list.pool : Rank(list.epoch, list.round, list.pool, m) < n}
      BY StewardsOfList, <1>1 DEF IsSteward
    <2>4. Hashed(list.epoch, list.round, list.pool)  BY <2>1 DEF Elected
    <2> HIDE DEF n, T
    <2>5. Generate(list.epoch, list.round, T, n)
            = Generate(list.epoch, list.round, list.pool, n)
      BY <2>2, <2>3, <2>4, RegenerateSame
    <2> QED  BY <2>5 DEF RegenerationReproduces, Stewards, ListLen, n, T
  <1> QED  BY <1>1, WalkInvariant, PTL

\* The computed size is one StewardListConfig allows, and a list installed
\* without a vote leaves nobody of the pool out (reconcile_steward_list).
THEOREM LocalInstallIsComplete == Spec => []LocalInstallCoversPool
  <1>1. ASSUME Walk  PROVE LocalInstallCoversPool
    <2> DEFINE S == list.pool
               n == ListLen(list)
               t == Cardinality(S)
               Rk(m) == Rank(list.epoch, list.round, S, m)
    <2>1. Elected(list)  BY <1>1, WalkElected
    <2>2. t \in Nat \ {0} /\ n \in 1..t  BY <2>1, ListLenRange
    <2>3. Hashed(list.epoch, list.round, S)  BY <2>1 DEF Elected
    <2>4. IsValidSize(n, t)
      BY <2>2, SnAssumption DEF IsValidSize, SizeBounds, ListLen, ComputeListSize
    <2>5. ElectionRequired(t) <=> n < t
      BY <2>2, SnAssumption DEF ElectionRequired, ListLen, ComputeListSize
    <2>6. \A m \in S : IsSteward(list, m) <=> Rk(m) < n  BY DEF IsSteward
    <2>7. /\ \A m \in S : Rk(m) \in 0..(t - 1)
          /\ \A i \in 0..(t - 1) : \E m \in S : Rk(m) = i
      BY <2>3, Ranks
    <2> HIDE DEF S, n, t, Rk
    <2>8. ASSUME n < t  PROVE \E m \in S : ~IsSteward(list, m)
      <3>1. n \in 0..(t - 1)  BY <2>2, <2>8
      <3>2. PICK m \in S : Rk(m) = n  BY <3>1, <2>7
      <3>3. ~(Rk(m) < n)  BY <3>2, <2>2
      <3> QED  BY <3>3, <2>6
    <2>9. ASSUME NEW m \in S, ~IsSteward(list, m)  PROVE n < t
      <3>1. Rk(m) \in 0..(t - 1)  BY <2>7
      <3>2. ~(Rk(m) < n)  BY <2>6, <2>9
      <3> QED  BY <3>1, <3>2, <2>2
    <2>10. ElectionRequired(t) <=> \E m \in S : ~IsSteward(list, m)  BY <2>5, <2>8, <2>9
    <2> QED  BY <2>4, <2>10 DEF LocalInstallCoversPool, S, n, t
  <1> QED  BY <1>1, WalkInvariant, PTL

\* The rotation gives every steward exactly one epoch of the list's span and
\* nobody an epoch outside it (epoch_steward, is_exhausted).
THEOREM RotationIsFair == Spec => []EachStewardServesOnce
  <1>1. ASSUME Walk  PROVE EachStewardServesOnce
    <2> DEFINE n     == ListLen(list)
               ES(e) == EpochSteward(list, e, Ids)
               span  == {e \in Epochs : ES(e) # NoMember}
               st    == Stewards(list)
    <2>1. Elected(list) /\ list.pool \subseteq Ids  BY <1>1, WalkElected
    <2>2. n \in Nat \ {0} /\ list.epoch \in Nat  BY <2>1, ListLenRange DEF Elected
    <2>3. \A e \in Epochs : e \in Nat  BY RangeAssumption
    <2>4. \A e \in Epochs : Exhausted(list, e) <=> e \notin list.epoch..(list.epoch + n - 1)
      BY <2>2, <2>3 DEF Exhausted
    <2>5. \A e \in Epochs : Exhausted(list, e) => ES(e) = NoMember
      BY StewardFromExhausted DEF EpochSteward
    <2>6. \A e \in Epochs : ~Exhausted(list, e) =>
             /\ e - list.epoch \in 0..(n - 1)
             /\ ES(e) = st[(e - list.epoch) + 1]
             /\ ES(e) # NoMember
      BY <2>1, <2>3, EpochStewardInRotation
    <2>7. \A i, j \in 1..n : st[i] = st[j] => i = j  BY <2>1, StewardsAt
    <2> HIDE DEF n, ES, st
    <2>8. span = Epochs \cap (list.epoch..(list.epoch + n - 1))  BY <2>4, <2>5, <2>6
    <2>9. ASSUME NEW d \in span, NEW e \in span, ES(d) = ES(e)  PROVE d = e
      <3>1. ~Exhausted(list, d) /\ ~Exhausted(list, e)  BY <2>5
      <3>2. d - list.epoch \in 0..(n - 1) /\ e - list.epoch \in 0..(n - 1)  BY <2>6, <3>1
      <3>3. (d - list.epoch) + 1 \in 1..n /\ (e - list.epoch) + 1 \in 1..n
        BY <2>2, <3>2
      <3>4. st[(d - list.epoch) + 1] = st[(e - list.epoch) + 1]  BY <2>6, <2>9, <3>1
      <3>5. (d - list.epoch) + 1 = (e - list.epoch) + 1  BY <2>7, <3>3, <3>4
      <3> QED  BY <2>2, <2>3, <3>5
    <2> QED  BY <2>8, <2>9 DEF EachStewardServesOnce, n, ES
  <1> QED  BY <1>1, WalkInvariant, PTL

\* Whoever is lost, epoch steward and backup are two different eligible stewards
\* as long as two are left, and the epoch steward one as long as one is
\* (epoch_and_backup, steward_from).
THEOREM BackupIsSound == Spec => []BackupIsAnotherSteward
  <1>1. ASSUME Walk  PROVE BackupIsAnotherSteward
    <2> DEFINE all == {m \in list.pool : IsSteward(list, m)}
               es  == EpochSteward(list, epoch, eligible)
               bs  == BackupSteward(list, epoch, eligible)
               live == IF Exhausted(list, epoch) THEN {} ELSE StewardsOf(list) \cap eligible
    <2>1. Elected(list) /\ epoch \in Nat /\ IsFiniteSet(eligible)  BY <1>1, WalkElected
    <2>2. StewardsOf(list) = all  BY <1>1, StewardsOfList
    <2>3. NoMember \notin all  BY <2>1 DEF NoMember, Elected
    <2>4. IsFiniteSet(live)
      <3>1. live \in SUBSET eligible  OBVIOUS
      <3> QED  BY <3>1, <2>1, FS_Subset
    <2>5. CASE Exhausted(list, epoch)
      <3>1. es = NoMember  BY <2>5, StewardFromExhausted DEF EpochSteward
      <3>2. bs = NoMember  BY <3>1 DEF BackupSteward
      <3>3. live = {} /\ Cardinality(live) = 0  BY <2>5, FS_EmptySet
      <3> QED  BY <3>1, <3>2, <3>3 DEF BackupIsAnotherSteward
    <2>6. CASE ~Exhausted(list, epoch)
      <3>1. live = all \cap eligible  BY <2>2, <2>6
      <3>2. IF live = {} THEN es = NoMember ELSE es \in live
        BY <3>1, <2>1, <2>6, StewardFromFinds DEF EpochSteward
      <3>3. es = NoMember <=> live = {}  BY <3>1, <3>2, <2>3
      <3>4. bs = IF es = NoMember THEN NoMember
                 ELSE StewardFrom(list, epoch, 1, eligible \ {es})
        BY DEF BackupSteward
      <3>5. IF live \ {es} = {} THEN StewardFrom(list, epoch, 1, eligible \ {es}) = NoMember
            ELSE StewardFrom(list, epoch, 1, eligible \ {es}) \in live \ {es}
        <4>1. live \ {es} = all \cap (eligible \ {es})  BY <3>1
        <4> QED  BY <4>1, <2>1, <2>6, StewardFromFinds
      <3>6. CASE live = {}
        <4>1. es = NoMember /\ bs = NoMember  BY <3>3, <3>4, <3>6
        <4>2. Cardinality(live) = 0  BY <3>6, FS_EmptySet
        <4> HIDE DEF es, bs, live
        <4> QED  BY <4>1, <4>2, <3>6 DEF BackupIsAnotherSteward, es, bs, live
      <3>7. CASE live # {}
        <4> HIDE DEF es, bs, live, all
        <4>1. es \in live /\ es # NoMember  BY <3>2, <3>3, <3>7
        <4>2. /\ Cardinality(live \ {es}) = Cardinality(live) - 1
              /\ IsFiniteSet(live \ {es})
          BY <4>1, <2>4, FS_RemoveElement
        <4>3. Cardinality(live \ {es}) \in Nat /\ Cardinality(live) \in Nat
          BY <4>2, <2>4, FS_CardinalityType
        <4>4. Cardinality(live \ {es}) = 0 <=> live \ {es} = {}  BY <4>2, FS_EmptySet
        <4>5. Cardinality(live) < 2 <=> live \ {es} = {}  BY <4>2, <4>3, <4>4
        <4>6. bs # NoMember => bs \in live \ {es}  BY <3>4, <3>5
        <4>7. bs = NoMember <=> live \ {es} = {}
          BY <3>1, <3>4, <3>5, <4>1, <2>3
        <4> QED  BY <4>1, <4>5, <4>6, <4>7, <3>7 DEF BackupIsAnotherSteward, es, bs, live
      <3> QED  BY <3>6, <3>7
    <2> QED  BY <2>5, <2>6
  <1> QED  BY <1>1, WalkInvariant, PTL

\* The retry ladder reaches every eligible member within as many rounds as there
\* are eligible members, from whatever round it is at (responsible_proposer).
THEOREM RetryIsExhaustive == Spec => []RetryReachesEveryProposer
  <1>1. ASSUME Walk  PROVE RetryReachesEveryProposer
    <2> DEFINE n     == Cardinality(eligible)
               seq   == InAuthorityOrder(list, eligible)
               At(k) == ResponsibleProposer(list, round + k, Ids, eligible)
    <2>1. /\ Elected(list) /\ list.pool \in SUBSET Ids /\ round \in Nat
          /\ eligible \in SUBSET Ids /\ IsFiniteSet(eligible)
      BY <1>1, WalkElected
    <2>2. ({m \in list.pool : IsSteward(list, m)} \cup Ids) \cap eligible = eligible
      BY <2>1
    <2>3. Authority(list, Ids, eligible) = seq  BY <2>2 DEF Authority
    <2>4. eligible \in SUBSET Nat  BY <2>1, RangeAssumption
    <2>5. /\ n \in Nat /\ DOMAIN seq = 1..n
          /\ \A i \in 1..n : seq[i] \in eligible
          /\ \A m \in eligible : \E i \in 1..n : seq[i] = m
      BY <2>1, <2>4, AuthorityCovers
    <2>6. seq = [i \in 1..n |-> seq[i]]  BY DEF InAuthorityOrder
    <2> HIDE DEF seq
    <2>7. seq \in Seq(eligible)  BY <2>5, <2>6
    <2>8. Len(seq) = n  BY <2>5, <2>7
    <2>9. \A k : At(k) = IF seq = <<>> THEN NoMember ELSE seq[((round + k) % n) + 1]
      BY <2>3, <2>8 DEF ResponsibleProposer
    <2> HIDE DEF At, n
    <2>10. CASE n = 0
      <3>1. seq = <<>>  BY <2>7, <2>8, <2>10
      <3>2. At(0) = NoMember  BY <3>1, <2>9
      <3> QED  BY <3>2, <2>10 DEF RetryReachesEveryProposer, At, n
    <2>11. CASE n # 0
      <3>1. n \in Nat \ {0} /\ seq # <<>>  BY <2>5, <2>8, <2>11
      <3>2. \A k \in 0..(n - 1) : At(k) = seq[((round + k) % n) + 1]  BY <3>1, <2>9
      <3>3. \A k \in 0..(n - 1) : ((round + k) % n) + 1 \in 1..n  BY <3>1, <2>1
      <3>4. \A k \in 0..(n - 1) : At(k) \in eligible  BY <3>2, <3>3, <2>5
      <3>5. ASSUME NEW m \in eligible  PROVE \E k \in 0..(n - 1) : At(k) = m
        <4>1. PICK i \in 1..n : seq[i] = m  BY <2>5
        <4>2. i - 1 \in 0..(n - 1)  BY <3>1
        <4>3. PICK k \in 0..(n - 1) : (round + k) % n = i - 1
          BY <4>2, <3>1, <2>1, RotationReaches
        <4>4. ((round + k) % n) + 1 = i  BY <4>3, <3>1
        <4>5. At(k) = m  BY <4>1, <4>4, <3>2
        <4> QED  BY <4>5
      <3>6. {At(k) : k \in 0..(n - 1)} = eligible  BY <3>4, <3>5
      <3> QED  BY <3>6, <2>11 DEF RetryReachesEveryProposer, At, n
    <2> QED  BY <2>10, <2>11
  <1> QED  BY <1>1, WalkInvariant, PTL
==============================================================================
