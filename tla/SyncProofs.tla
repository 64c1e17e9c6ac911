----------------------------- MODULE SyncProofs ------------------------------
(***************************************************************************)
(* Theorems about Sync for every set of leaves, every hash function with   *)
(* numeric values, every size of the list and every limit: the types, the  *)
(* scores a joiner reads, and, where elections are prompt and no list is   *)
(* refreshed in an epoch somebody joined in, one steward list for          *)
(* everybody and nobody left behind.                                       *)
(***************************************************************************)
EXTENDS Sync, StewardListLemmas

\* compute_steward_hash yields comparable digests.
HashTyped == \A e, r \in Nat, m \in Leaves : StewardHash(e, r, m) \in Nat

ListType == [pool : SUBSET Leaves, epoch : Nat, round : Nat]

------------------------------------------------------------------------------
\* Lists

\* Every set of leaves can be sorted.
LEMMA LeavesHashed ==
  ASSUME HashTyped, NEW pool \in SUBSET Leaves, NEW e \in Nat, NEW r \in Nat
  PROVE  Hashed(e, r, pool)
  <1>1. IsFiniteSet(pool)  BY SyncAssumption, FS_Subset
  <1> QED  BY <1>1, SyncAssumption DEF Hashed, HashTyped

\* The size of a list fits its pool, and is not 0 unless the pool is empty.
LEMMA SizeFits ==
  ASSUME NEW t \in Nat
  PROVE  /\ ComputeListSize(t) \in 0..t
         /\ t # 0 => ComputeListSize(t) # 0
         /\ ComputeListSize(ComputeListSize(t)) = ComputeListSize(t)
  BY SnAssumption DEF ComputeListSize

\* An installed list is kept by its stewards: the lowest ranks of the pool.
LEMMA InstalledPool ==
  ASSUME HashTyped, NEW pool \in SUBSET Leaves, NEW e \in Nat, NEW r \in Nat
  PROVE  LET sn == ComputeListSize(Cardinality(pool))
             kept == {m \in pool : Rank(e, r, pool, m) < sn}
         IN /\ Installed(pool, e, r) = [pool |-> kept, epoch |-> e, round |-> r]
            /\ IsFiniteSet(kept) /\ Cardinality(kept) = sn
            /\ sn \in 0..Cardinality(pool) /\ Cardinality(pool) \in Nat
  <1> DEFINE n == Cardinality(pool)
             sn == ComputeListSize(n)
             g == Generate(e, r, pool, sn)
             kept == {m \in pool : Rank(e, r, pool, m) < sn}
  <1>1. Hashed(e, r, pool)  BY LeavesHashed
  <1>2. IsFiniteSet(pool)  BY <1>1 DEF Hashed
  <1>3. n \in Nat  BY <1>2, FS_CardinalityType
  <1>4. sn \in 0..n  BY <1>3, SizeFits
  <1> HIDE DEF n, sn
  <1>5. {g[i] : i \in 1..sn} = kept  BY <1>1, <1>4, GenerateCovers DEF n
  <1>6. DOMAIN g = 1..sn  BY DEF Generate
  <1>7. Range(g) = kept  BY <1>5, <1>6 DEF Range
  <1>8. Installed(pool, e, r) = [pool |-> kept, epoch |-> e, round |-> r]
    BY <1>7 DEF Installed, n, sn
  <1>9. IsFiniteSet(kept) /\ Cardinality(kept) = sn
    <2>1. \A m \in pool : Rank(e, r, pool, m) \in 0..(n - 1)  BY <1>1, Ranks DEF n
    <2>2. \A a, b \in pool : Rank(e, r, pool, a) = Rank(e, r, pool, b) => a = b
      BY <1>1, Ranks
    <2>3. \A i \in 1..sn : g[i] \in pool /\ Rank(e, r, pool, g[i]) = i - 1
      BY <1>1, <1>4, GenerateAt DEF n
    <2>4. \A i, j \in 1..sn : g[i] = g[j] => i = j
      <3>1. \A i \in 1..sn : i \in Int  BY <1>3, <1>4
      <3> QED  BY <2>3, <3>1
    <2>5. g \in Bijection(1..sn, kept)
      <3> HIDE DEF kept
      <3>1. g \in [1..sn -> kept]  BY <1>5, <1>6 DEF Generate
      <3> QED  BY <3>1, <2>4, <1>5 DEF Bijection, Injection, Surjection, IsInjective
    <2>6. IsFiniteSet(1..sn) /\ Cardinality(1..sn) = sn
      <3>1. sn \in Nat  BY <1>3, <1>4
      <3>2. Cardinality(1..sn) = IF 1 > sn THEN 0 ELSE sn - 1 + 1  BY <3>1, FS_Interval
      <3> QED  BY <3>1, <3>2, FS_Interval
    <2>7. ExistsBijection(1..sn, kept)  BY <2>5 DEF ExistsBijection
    <2> HIDE DEF kept
    <2> QED  BY <2>6, <2>7, FS_Bijection
  <1> QED  BY <1>3, <1>4, <1>8, <1>9 DEF n, sn

\* What is known of an installed list: it is typed, in force in its own epoch,
\* and installing it again from its own stewards changes nothing.
LEMMA InstalledFacts ==
  ASSUME HashTyped, NEW pool \in SUBSET Leaves, NEW e \in Nat, NEW r \in Nat
  PROVE  LET l == Installed(pool, e, r)
         IN /\ l \in ListType /\ l.epoch = e /\ l.round = r
            /\ l.pool \in SUBSET pool
            /\ pool # {} => l # NoList /\ ~Exhausted(l, e)
            /\ Installed(l.pool, e, r) = l
  <1> DEFINE n == Cardinality(pool)
             sn == ComputeListSize(n)
             kept == {m \in pool : Rank(e, r, pool, m) < sn}
             l == Installed(pool, e, r)
  <1>1. /\ l = [pool |-> kept, epoch |-> e, round |-> r]
        /\ IsFiniteSet(kept) /\ Cardinality(kept) = sn
        /\ sn \in 0..n /\ n \in Nat
    BY InstalledPool
  <1>2. Hashed(e, r, pool)  BY LeavesHashed
  <1>3. kept \in SUBSET pool /\ kept \in SUBSET Leaves  OBVIOUS
  <1>4. l \in ListType /\ l.epoch = e /\ l.round = r /\ l.pool = kept
    BY <1>1, <1>3 DEF ListType
  <1>5. ComputeListSize(sn) = sn /\ (n # 0 => sn # 0)  BY <1>1, SizeFits
  <1>6. Generate(e, r, kept, sn) = Generate(e, r, pool, sn)
    BY <1>1, <1>2, RegenerateSame
  <1>7. Installed(kept, e, r) = l
    BY <1>1, <1>5, <1>6 DEF Installed
  <1>8. ASSUME pool # {}  PROVE l # NoList /\ ~Exhausted(l, e)
    <2>1. IsFiniteSet(pool)  BY <1>2 DEF Hashed
    <2>2. n # 0  BY <2>1, <1>8, FS_EmptySet
    <2>3. sn # 0 /\ sn \in Nat  BY <2>2, <1>1, <1>5
    <2>4. kept # {}  BY <2>3, <1>1, FS_EmptySet
    <2>5. l # NoList  BY <2>4, <1>4 DEF NoList
    <2>6. ListLen(l) = sn  BY <1>1, <1>4, <1>5 DEF ListLen
    <2> HIDE DEF l, sn
    <2> QED  BY <2>3, <2>5, <2>6, <1>4 DEF Exhausted
  <1> QED  BY <1>3, <1>4, <1>7, <1>8

\* A list that passes validate_conversation_sync is taken over as it is.
LEMMA SyncedSame ==
  ASSUME HashTyped, NEW s, s.list \in ListType, NEW mem \in SUBSET Leaves, NEW e,
         Acceptable(s, mem, e)
  PROVE  SyncedList(s) = s.list
  <1>1. s.list.epoch \in Nat /\ s.list.round \in Nat  BY DEF ListType
  <1>2. s.list = Installed(mem \ s.unsettled, s.list.epoch, s.list.round)
    BY DEF Acceptable
  <1>3. mem \ s.unsettled \in SUBSET Leaves  OBVIOUS
  <1> QED  BY <1>1, <1>2, <1>3, InstalledFacts DEF SyncedList

LEMMA NoListFacts ==
  /\ NoList \in ListType
  /\ \A e : ~ListExhausted(NoList, e)
  /\ \A m : ~IsSteward(NoList, m)
  BY DEF NoList, ListType, ListExhausted, IsSteward

------------------------------------------------------------------------------
\* Scores

IsTable(t) == DOMAIN t \subseteq Leaves /\ \A m \in DOMAIN t : t[m] \in MinScore..MaxScore

Events == DOMAIN Delta

\* Every batch of ops has its run: the tables it goes through.
LEMMA RunExists ==
  ASSUME NEW table, NEW ops, Len(ops) \in Nat
  PROVE  \E f : f = [i \in 0..Len(ops) |->
                       IF i = 0 THEN table ELSE ApplyOp(f[i - 1], ops[i])]
  <1> DEFINE Q(f, n) == f = [i \in 0..n |-> IF i = 0 THEN table ELSE ApplyOp(f[i - 1], ops[i])]
             H == {n \in Nat : ~\E f : Q(f, n)}
  <1>1. SUFFICES ASSUME H # {}  PROVE FALSE
    <2>1. Len(ops) \notin H  BY <1>1
    <2>2. \E f : Q(f, Len(ops))  BY <2>1
    <2> QED  BY <2>2
  <1>2. H \subseteq Nat  OBVIOUS
  <1> HIDE DEF H
  <1>3. PICK k \in H : \A j \in H : k <= j  BY <1>1, <1>2, Least
  <1>4. k \in Nat /\ ~\E f : Q(f, k)  BY <1>3 DEF H
  <1>5. CASE k = 0
    <2> DEFINE f == [i \in 0..0 |-> table]
    <2>1. f = [i \in 0..0 |-> IF i = 0 THEN table ELSE ApplyOp(f[i - 1], ops[i])]
      OBVIOUS
    <2> QED  BY <2>1, <1>4, <1>5
  <1>6. CASE k # 0
    <2>1. k - 1 \in Nat /\ k - 1 \notin H  BY <1>3, <1>4, <1>6
    <2>2. PICK f : Q(f, k - 1)  BY <2>1 DEF H
    <2> DEFINE g == [i \in 0..k |-> IF i = k THEN ApplyOp(f[k - 1], ops[k]) ELSE f[i]]
               g2 == [i \in 0..k |-> IF i = 0 THEN table ELSE ApplyOp(g[i - 1], ops[i])]
    <2>3. ASSUME NEW i \in 0..k  PROVE g[i] = g2[i]
      <3>1. CASE i = 0  BY <3>1, <2>2, <1>4, <1>6
      <3>2. CASE i = k  BY <3>2, <2>1, <1>4, <1>6
      <3>3. CASE i # 0 /\ i # k
        <4>1. i \in 0..(k - 1) /\ i - 1 \in 0..k /\ i - 1 # k  BY <3>3, <1>4
        <4>2. g[i] = f[i] /\ g[i - 1] = f[i - 1]  BY <4>1, <3>3
        <4>3. f[i] = ApplyOp(f[i - 1], ops[i])  BY <4>1, <2>2, <3>3
        <4> QED  BY <4>2, <4>3, <3>3
      <3> QED  BY <3>1, <3>2, <3>3
    <2>4. g = g2
      <3>1. \A i \in 0..k : g[i] = g2[i]  BY <2>3
      <3> QED  BY <3>1
    <2>5. Q(g, k)  BY <2>4
    <2> QED  BY <2>5, <1>4
  <1> QED  BY <1>5, <1>6

\* One op moves a score by saturating addition and adds nobody.
LEMMA ApplyOpType ==
  ASSUME NEW t, IsTable(t), NEW op, op.event \in Events
  PROVE  IsTable(ApplyOp(t, op)) /\ DOMAIN ApplyOp(t, op) = DOMAIN t
  <1>1. Delta[op.event] \in Int  BY DEF Events, Delta
  <1>2. \A a \in MinScore..MaxScore : SaturatingAdd(a, Delta[op.event]) \in MinScore..MaxScore
    BY <1>1, ScoreRange DEF SaturatingAdd
  <1> QED  BY <1>2 DEF IsTable, ApplyOp

\* A batch keeps every score in range and tracks nobody new (apply_ops).
LEMMA ApplyOpsType ==
  ASSUME NEW table, IsTable(table), NEW ops, Len(ops) \in Nat,
         \A i \in 1..Len(ops) : ops[i].event \in Events
  PROVE  IsTable(ApplyOps(table, ops)) /\ DOMAIN ApplyOps(table, ops) = DOMAIN table
  <1> DEFINE after == CHOOSE f : f = [i \in 0..Len(ops) |->
                        IF i = 0 THEN table ELSE ApplyOp(f[i - 1], ops[i])]
             Good(i) == IsTable(after[i]) /\ DOMAIN after[i] = DOMAIN table
             H == {i \in 0..Len(ops) : ~Good(i)}
  <1>1. after = [i \in 0..Len(ops) |-> IF i = 0 THEN table ELSE ApplyOp(after[i - 1], ops[i])]
    BY RunExists
  <1>2. ApplyOps(table, ops) = after[Len(ops)]  BY DEF ApplyOps
  <1> HIDE DEF after
  <1>3. H \subseteq Nat  OBVIOUS
  <1>4. H = {}
    <2>1. SUFFICES ASSUME H # {}  PROVE FALSE  OBVIOUS
    <2>2. PICK k \in H : \A j \in H : k <= j
      <3> HIDE DEF H
      <3> QED  BY <2>1, <1>3, Least
    <2>3. k \in 0..Len(ops) /\ ~Good(k)  OBVIOUS
    <2>4. CASE k = 0
      <3>1. after[0] = table  BY <1>1
      <3> QED  BY <3>1, <2>3, <2>4
    <2>5. CASE k # 0
      <3>1. k - 1 \in 0..Len(ops) /\ k \in 1..Len(ops)  BY <2>3, <2>5
      <3>2. Good(k - 1)  BY <3>1, <2>2
      <3>3. after[k] = ApplyOp(after[k - 1], ops[k])  BY <1>1, <2>3, <2>5
      <3>4. ops[k].event \in Events  BY <3>1
      <3>5. Good(k)
        <4>1. IsTable(after[k - 1]) /\ DOMAIN after[k - 1] = DOMAIN table  BY <3>2
        <4>2. IsTable(ApplyOp(after[k - 1], ops[k]))
              /\ DOMAIN ApplyOp(after[k - 1], ops[k]) = DOMAIN after[k - 1]
          BY <4>1, <3>4, ApplyOpType
        <4> QED  BY <4>1, <4>2, <3>3
      <3> QED  BY <3>5, <2>3
    <2> QED  BY <2>4, <2>5
  <1>5. Good(Len(ops))  BY <1>4
  <1> QED  BY <1>2, <1>5

\* The other operations on tables keep the range and stay with the leaves.
LEMMA TableTypes ==
  ASSUME NEW t, IsTable(t), NEW d \in MinScore..MaxScore, NEW old,
         NEW S \in SUBSET Leaves
  PROVE  /\ IsTable(AddMembers(t, S, d))
         /\ IsTable(RemoveMembers(t, S))
         /\ IsTable(SetDefault(t, old, d))
         /\ IsTable(SyncMembers(t, S, d))
         /\ IsTable(Snapshot(t, old))
         /\ \A u : IsTable(u) => IsTable(ApplySnapshot(t, u))
  BY DEF IsTable, AddMembers, RemoveMembers, Restrict, SetDefault, SyncMembers, Snapshot,
         ApplySnapshot

LEMMA NoScoresTable == IsTable(NoScores)
  <1>1. DOMAIN NoScores = {}  BY DEF NoScores
  <1> QED  BY ONLY <1>1 DEF IsTable

\* The ops of a commit are known events.
LEMMA WinnerOpsType ==
  ASSUME NEW n, NEW by, NEW losers, IsFiniteSet(losers), NEW stay
  PROVE  LET ops == WinnerOps(n, by, losers, stay)
         IN Len(ops) \in Nat /\ \A i \in 1..Len(ops) : ops[i].event \in Events
  <1> DEFINE es == EpochSteward(list[n], epoch, stay)
             at(i) == SetToSeq(losers)[i]
             k == Cardinality(losers)
             Who == {by, es} \cup {at(i) : i \in 1..k}
             Op == [member : Who, event : Events]
             a == <<[member |-> by, event |-> "SuccessfulCommit"]>>
             b == IF es \in {NoMember, by, n} THEN <<>>
                  ELSE <<[member |-> es, event |-> "CensorshipInactivity"]>>
             c == [i \in 1..k |-> [member |-> at(i), event |->
                     IF IsSteward(list[n], at(i)) THEN "HonestCommitAttempt"
                     ELSE "MisbehavingCommit"]]
  <1>1. k \in Nat  BY FS_CardinalityType
  <1>2. {"SuccessfulCommit", "CensorshipInactivity", "HonestCommitAttempt",
         "MisbehavingCommit"} \subseteq Events
    BY DEF Events, Delta
  <1>3. WinnerOps(n, by, losers, stay) = a \o b \o c  BY DEF WinnerOps
  <1> HIDE DEF es, at, k
  <1>4. a \in Seq(Op) /\ b \in Seq(Op)
    <2>1. /\ [member |-> by, event |-> "SuccessfulCommit"] \in Op
          /\ [member |-> es, event |-> "CensorshipInactivity"] \in Op
      BY <1>2
    <2> HIDE DEF Op
    <2>2. a \in Seq(Op)  BY <2>1
    <2>3. <<>> \in Seq(Op) /\ <<[member |-> es, event |-> "CensorshipInactivity"]>> \in Seq(Op)
      BY <2>1
    <2>4. b \in Seq(Op)  BY ONLY <2>3 DEF b
    <2> QED  BY <2>2, <2>4
  <1>5. c \in Seq(Op)  BY <1>1, <1>2
  <1> HIDE DEF a, b, c
  <1>6. a \o b \o c \in Seq(Op)  BY <1>4, <1>5
  <1> DEFINE ops == a \o b \o c
  <1>7. Len(ops) \in Nat /\ \A i \in 1..Len(ops) : ops[i] \in Op
    <2> HIDE DEF Op, ops
    <2>1. ops \in Seq(Op)  BY <1>6 DEF ops
    <2> QED  BY <2>1
  <1>8. \A o \in Op : o.event \in Events  OBVIOUS
  <1> HIDE DEF ops, Op
  <1> QED  BY <1>3, <1>7, <1>8 DEF ops


------------------------------------------------------------------------------
\* Types

IsElection(v, mem) ==
  /\ v = [list |-> v.list, result |-> v.result, unheard |-> v.unheard, nr |-> v.nr]
  /\ v.list \in ListType /\ v.result \in {"open", "yes", "no"}
  /\ v.unheard \in SUBSET mem

\* TypeOK by parts: the lists and what is decided about them ...
ListsTyped ==
  /\ epoch \in Nat /\ members \in SUBSET Leaves /\ behind \in SUBSET members
  /\ list \in [Leaves -> ListType]
  /\ joined \in [Leaves -> [Leaves -> Nat]]
  /\ round \in [Leaves -> Nat]
  /\ \A v \in elections : IsElection(v, members)
  /\ asked \in SUBSET members /\ armed \in SUBSET members
  /\ \A d \in syncs : d.to \in members /\ d.sync.list \in ListType

\* ... and the scores, those on the wire included
Score == Nat \cap (MinScore..MaxScore)

ScoresTyped ==
  /\ DOMAIN scores = Leaves /\ \A n \in Leaves : IsTable(scores[n])
  /\ default \in [Leaves -> Score]
  /\ \A d \in syncs : IsTable(d.sync.snap) /\ d.sync.default \in Score

\* The settled members are members.
LEMMA SettledType ==
  ASSUME NEW mem \in SUBSET Leaves, NEW known, NEW e
  PROVE  Settled(mem, known, e) \in SUBSET mem /\ Settled(mem, known, e) \in SUBSET Leaves
  BY DEF Settled

LEMMA ReconciledType ==
  ASSUME HashTyped, NEW l \in ListType, NEW mem \in SUBSET Leaves, NEW known, NEW e \in Nat
  PROVE  Reconciled(l, mem, known, e) \in ListType
  <1>1. Settled(mem, known, e) \in SUBSET Leaves  BY SettledType
  <1>2. Installed(Settled(mem, known, e), e, 0) \in ListType  BY <1>1, InstalledFacts
  <1> QED  BY <1>2 DEF Reconciled

LEMMA SyncedType ==
  ASSUME HashTyped, NEW s, s.list \in ListType
  PROVE  SyncedList(s) \in ListType
  <1>1. s.list.pool \in SUBSET Leaves /\ s.list.epoch \in Nat /\ s.list.round \in Nat
    BY DEF ListType
  <1> QED  BY <1>1, InstalledFacts DEF SyncedList

\* What a sync carries
LEMMA SyncOfFields ==
  ASSUME NEW l, NEW mem, NEW known, NEW t, NEW d
  PROVE  LET s == SyncOf(l, mem, known, t, d)
         IN /\ s.list = l /\ s.snap = Snapshot(t, d) /\ s.default = d /\ s.table = t
  BY DEF SyncOf

\* Whom a broadcast reaches, and with what
LEMMA SharedFields ==
  ASSUME NEW n, NEW l, NEW d \in Shared(n, l)
  PROVE  /\ d.to \in members
         /\ l # NoList /\ d.sync.list = l
         /\ d.sync.snap = Snapshot(scores[n], default[n]) /\ d.sync.default = default[n]
  <1>1. l # NoList  BY DEF Shared
  <1>2. d \in [to : {m \in members \ {n} : Stale(m) \/ m \in armed},
               sync : {SyncOf(l, members, joined[n], scores[n], default[n])}]
    BY <1>1 DEF Shared
  <1>3. d.to \in members /\ d.sync = SyncOf(l, members, joined[n], scores[n], default[n])
    BY <1>2
  <1> QED  BY <1>1, <1>3, SyncOfFields

\* What an election becomes when it is concluded or heard of
LEMMA ElectionFields ==
  ASSUME NEW v, NEW mem, IsElection(v, mem), NEW res, NEW un
  PROVE  /\ LET w == [v EXCEPT !.result = res]
            IN /\ w = [list |-> w.list, result |-> w.result, unheard |-> w.unheard, nr |-> w.nr]
               /\ w.list = v.list /\ w.result = res /\ w.unheard = v.unheard
         /\ LET w == [v EXCEPT !.unheard = un]
            IN /\ w = [list |-> w.list, result |-> w.result, unheard |-> w.unheard, nr |-> w.nr]
               /\ w.list = v.list /\ w.result = v.result /\ w.unheard = un
  <1>1. v = [list |-> v.list, result |-> v.result, unheard |-> v.unheard, nr |-> v.nr]
    BY DEF IsElection
  <1>2. [v EXCEPT !.result = res]
          = [list |-> v.list, result |-> res, unheard |-> v.unheard, nr |-> v.nr]
    BY <1>1
  <1>3. [v EXCEPT !.unheard = un]
          = [list |-> v.list, result |-> v.result, unheard |-> un, nr |-> v.nr]
    BY <1>1
  <1> QED  BY <1>2, <1>3

\* What a commit makes n know of the join epochs
Known(n, gone, new) ==
  [m \in Leaves |-> IF m \in new THEN epoch + 1 ELSE IF m \in gone THEN 0 ELSE joined[n][m]]

\* The list n goes on with after the commit
Renewed(n, gone, new) ==
  Reconciled(list[n], (members \ gone) \cup new, Known(n, gone, new), epoch + 1)

\* Whoever follows the commit
Followers(by, gone) == {n \in members \ gone : n = by \/ Authorises(n, by)}

\* What a commit by one member does to the lists: gone left, new (one at most)
\* joined, and w is the sync of the welcome
CommitFacts(by, gone, new, w) ==
  LET stay == members \ gone
      now == stay \cup new
      on == Followers(by, gone)
  IN /\ new \cap stay = {} /\ \A a, b \in new : a = b
     /\ Calm /\ by \in stay /\ IsSteward(list[by], by)
     /\ epoch' = epoch + 1 /\ members' = now
     /\ behind' = (behind \cap stay) \cup (stay \ on)
     /\ DOMAIN list' = Leaves /\ list' = [n \in Leaves |-> list'[n]]
     /\ w.list = Renewed(by, gone, new)
     /\ \A n \in new : \/ list'[n] = NoList
                       \/ Acceptable(w, now, epoch + 1) /\ list'[n] = SyncedList(w)
     /\ \A n \in stay : list'[n] = IF n \in on THEN Renewed(n, gone, new) ELSE list[n]
     /\ \A n \in Leaves \ now : list'[n] = NoList
     /\ joined' = [n \in Leaves |-> IF n \in on THEN Known(n, gone, new)
                                    ELSE [m \in Leaves |-> 0]]
     /\ round' = [n \in Leaves |-> 0]
     /\ elections' = {[v EXCEPT !.unheard = @ \cap stay] : v \in elections}
     /\ asked' \subseteq stay /\ armed' \subseteq stay /\ syncs' = {}

\* A commit does that.
LEMMA CommitLists ==
  ASSUME ListsTyped, NEW by, NEW gone, NEW joins, NEW boot, Commit(by, gone, joins, boot)
  PROVE  \E new \in SUBSET Leaves : \E w : CommitFacts(by, gone, new, w)
  <1> DEFINE stay == members \ gone
             first == EpochSteward(list[by], epoch, stay) = by
             losers == {n \in stay \ {by} : first /\ IsSteward(list[n], n)}
             free == Leaves \ stay
             new == IF joins THEN {CHOOSE l \in free : \A m \in free : l <= m} ELSE {}
             now == stay \cup new
             e == epoch + 1
             on == Followers(by, gone)
             scored(n) == ApplyOps(scores[n], WinnerOps(n, by, losers, stay))
             w == SyncOf(Renewed(by, gone, new), now, Known(by, gone, new), scored(by), default[by])
             takes == boot /\ Adopts(NoList, w, now, e)
  <1>1. /\ Calm /\ by \in stay /\ IsSteward(list[by], by)
        /\ joins => free # {}
        /\ epoch' = epoch + 1 /\ members' = now
        /\ behind' = (behind \cap stay) \cup (stay \ on)
        /\ list' = [n \in Leaves |->
             CASE n \in new -> IF takes THEN SyncedList(w) ELSE NoList
               [] n \in on \ new -> Renewed(n, gone, new)
               [] n \in stay \ on -> list[n]
               [] OTHER -> NoList]
        /\ joined' = [n \in Leaves |-> IF n \in on \ new THEN Known(n, gone, new)
                                       ELSE [m \in Leaves |-> 0]]
        /\ round' = [n \in Leaves |-> 0]
        /\ elections' = {[v EXCEPT !.unheard = @ \cap stay] : v \in elections}
        /\ asked' = asked \cap (stay \ new) /\ armed' = armed \cap (stay \ new)
        /\ syncs' = {}
    BY DEF Commit, Known, Renewed, Followers
  <1>2. new \in SUBSET Leaves /\ new \cap stay = {} /\ \A a, b \in new : a = b
    <2>1. CASE ~joins  BY <2>1
    <2>2. CASE joins
      <3>1. free # {} /\ free \subseteq Nat  BY <2>2, <1>1, SyncAssumption
      <3> HIDE DEF free
      <3>2. \E l \in free : \A m \in free : l <= m  BY <3>1, Least
      <3>3. (CHOOSE l \in free : \A m \in free : l <= m) \in free  BY <3>2
      <3> QED  BY <3>3, <2>2 DEF free
    <2> QED  BY <2>1, <2>2
  <1>3. w.list = Renewed(by, gone, new)  BY SyncOfFields
  <1>4. takes => Acceptable(w, now, e)  BY DEF Adopts
  <1>5. on \in SUBSET stay /\ stay \in SUBSET Leaves  BY DEF Followers, ListsTyped
  <1> HIDE DEF stay, free, new, now, on, w, takes, scored, losers, first
  <1>6. \A n \in new : \/ list'[n] = NoList
                       \/ Acceptable(w, now, epoch + 1) /\ list'[n] = SyncedList(w)
    BY <1>1, <1>2, <1>4
  <1>7. \A n \in stay : list'[n] = IF n \in on THEN Renewed(n, gone, new) ELSE list[n]
    BY <1>1, <1>2, <1>5
  <1>8. \A n \in Leaves \ now : list'[n] = NoList
    BY <1>1, <1>5 DEF now
  <1>9. on \ new = on  BY <1>2, <1>5
  <1>10. asked' \subseteq stay /\ armed' \subseteq stay  BY <1>1
  <1>11. DOMAIN list' = Leaves /\ list' = [n \in Leaves |-> list'[n]]  BY <1>1
  <1>12. joined' = [n \in Leaves |-> IF n \in on THEN Known(n, gone, new)
                                     ELSE [m \in Leaves |-> 0]]
    BY <1>1, <1>9
  <1> new \in SUBSET Leaves  BY <1>2
  <1> WITNESS new \in SUBSET Leaves
  <1> WITNESS w
  <1> QED  BY <1>1, <1>2, <1>3, <1>6, <1>7, <1>8, <1>10, <1>11, <1>12
           DEF CommitFacts, stay, now, on


\* A broadcast of a typed list is typed.
LEMMA SharedListed ==
  ASSUME ListsTyped, NEW n, NEW l \in ListType
  PROVE  \A d \in syncs \cup Shared(n, l) : d.to \in members /\ d.sync.list \in ListType
  BY SharedFields DEF ListsTyped

LEMMA ListsTypedInit == HashTyped /\ Init => ListsTyped
  <1> SUFFICES ASSUME HashTyped, Init  PROVE ListsTyped  OBVIOUS
  <1>1. Installed(Founders, 1, 0) \in ListType  BY InstalledFacts, SyncAssumption
  <1>2. list \in [Leaves -> ListType]  BY <1>1, NoListFacts DEF Init
  <1> QED  BY <1>2, SyncAssumption DEF Init, ListsTyped

LEMMA ListsTypedCommit ==
  ASSUME HashTyped, ListsTyped, NEW by, NEW gone, NEW joins, NEW boot,
         Commit(by, gone, joins, boot)
  PROVE  ListsTyped'
  <1> DEFINE stay == members \ gone
             on == Followers(by, gone)
  <1>1. PICK new \in SUBSET Leaves : \E w : CommitFacts(by, gone, new, w)  BY CommitLists
  <1>a. PICK w : CommitFacts(by, gone, new, w)  BY <1>1
  <1>2. /\ list' = [n \in Leaves |-> list'[n]]
        /\ w.list = Renewed(by, gone, new)
        /\ \A n \in new : list'[n] = NoList \/ list'[n] = SyncedList(w)
        /\ \A n \in stay : list'[n] = IF n \in on THEN Renewed(n, gone, new) ELSE list[n]
        /\ \A n \in Leaves \ (stay \cup new) : list'[n] = NoList
    BY <1>a DEF CommitFacts
  <1>3. /\ epoch' = epoch + 1 /\ members' = stay \cup new /\ by \in stay
        /\ behind' = (behind \cap stay) \cup (stay \ on)
        /\ joined' = [n \in Leaves |-> IF n \in on THEN Known(n, gone, new)
                                       ELSE [m \in Leaves |-> 0]]
        /\ round' = [n \in Leaves |-> 0]
        /\ elections' = {[v EXCEPT !.unheard = @ \cap stay] : v \in elections}
        /\ asked' \subseteq stay /\ armed' \subseteq stay /\ syncs' = {}
    BY <1>a DEF CommitFacts
  <1>4. /\ epoch \in Nat /\ epoch + 1 \in Nat /\ stay \in SUBSET Leaves
        /\ stay \cup new \in SUBSET Leaves /\ on \in SUBSET stay
        /\ \A n \in Leaves : list[n] \in ListType /\ joined[n] \in [Leaves -> Nat]
    BY DEF ListsTyped, Followers
  <1>5. \A n \in Leaves : Renewed(n, gone, new) \in ListType
    BY <1>4, ReconciledType DEF Renewed
  <1>6. \A n \in Leaves : Known(n, gone, new) \in [Leaves -> Nat]
    BY <1>4 DEF Known
  <1>7. SyncedList(w) \in ListType  BY <1>2, <1>3, <1>4, <1>5, SyncedType
  <1> HIDE DEF stay, on
  <1>8. list' \in [Leaves -> ListType]
    <2>1. \A n \in Leaves : list'[n] \in ListType
      BY <1>2, <1>4, <1>5, <1>7, NoListFacts
    <2> QED  BY <2>1, <1>2
  <1>9. joined' \in [Leaves -> [Leaves -> Nat]]  BY <1>3, <1>6
  <1>10. round' \in [Leaves -> Nat]  BY <1>3
  <1>11. ASSUME NEW u \in elections'  PROVE IsElection(u, stay \cup new)
    <2>1. PICK v \in elections : u = [v EXCEPT !.unheard = v.unheard \cap stay]
      BY <1>3
    <2>2. IsElection(v, members)  BY DEF ListsTyped
    <2> QED  BY <2>1, <2>2, ElectionFields DEF IsElection
  <1> QED  BY <1>3, <1>4, <1>8, <1>9, <1>10, <1>11 DEF ListsTyped

\* Every step keeps the types of lists, join epochs, elections and syncs.
LEMMA ListsTypedStep ==
  ASSUME HashTyped, ListsTyped, [Next]_vars
  PROVE  ListsTyped'
  <1>1. ASSUME NEW by, NEW gone, NEW joins, NEW boot, Commit(by, gone, joins, boot)
        PROVE  ListsTyped'
    BY <1>1, ListsTypedCommit
  <1>2. ASSUME NEW n, NEW refresh, NEW out, Elect(n, refresh, out)
        PROVE  ListsTyped'
    <2> DEFINE pool == Settled(members, joined[n], epoch)
               l == Installed(pool, epoch, round[n])
               v == [list |-> l, result |-> "open", unheard |-> members,
                     nr |-> Cardinality(elections)]
    <2>1. n \in Leaves /\ elections' = elections \cup {v} /\ epoch \in Nat /\ round[n] \in Nat
      BY <1>2 DEF Elect, ListsTyped
    <2>2. UNCHANGED <<tree, views, tables, asked, armed, syncs>>  BY <1>2 DEF Elect
    <2>3. pool \in SUBSET Leaves  BY SettledType DEF ListsTyped
    <2>4. l \in ListType  BY <2>1, <2>3, InstalledFacts
    <2> HIDE DEF l
    <2>5. IsElection(v, members)  BY <2>4 DEF IsElection
    <2> QED  BY <2>1, <2>2, <2>5 DEF ListsTyped, tree, views
  <1>3. ASSUME NEW v \in elections, NEW result \in {"yes", "no"}, Conclude(v, result)
        PROVE  ListsTyped'
    <2>1. IsElection(v, members)  BY DEF ListsTyped
    <2>2. IsElection([v EXCEPT !.result = result], members)
      BY <2>1, ElectionFields DEF IsElection
    <2>3. elections' = (elections \ {v}) \cup {[v EXCEPT !.result = result]}
      BY <1>3 DEF Conclude
    <2>4. UNCHANGED <<tree, views, tables, asked, armed, syncs>>  BY <1>3 DEF Conclude
    <2> QED  BY <2>2, <2>3, <2>4 DEF ListsTyped, tree, views
  <1>4. ASSUME NEW v \in elections, NEW n \in members, HearOutcome(n, v)
        PROVE  ListsTyped'
    <2>1. IsElection(v, members) /\ v.list \in ListType  BY DEF ListsTyped, IsElection
    <2>2. elections' = (elections \ {v}) \cup {[v EXCEPT !.unheard = v.unheard \ {n}]}
      BY <1>4 DEF HearOutcome
    <2>3. IsElection([v EXCEPT !.unheard = v.unheard \ {n}], members)
      BY <2>1, ElectionFields DEF IsElection
    <2>4. \A u \in elections' : IsElection(u, members)
      BY <2>2, <2>3 DEF ListsTyped
    <2>5. list' \in [Leaves -> ListType]
      BY <1>4, <2>1 DEF HearOutcome, ListsTyped
    <2>6. \A d \in syncs' : d.to \in members /\ d.sync.list \in ListType
      <3>1. syncs' = syncs \/ syncs' = syncs \cup Shared(n, v.list)
        BY <1>4 DEF HearOutcome
      <3> QED  BY <3>1, <2>1, SharedListed DEF ListsTyped
    <2>7. round' \in [Leaves -> Nat]  BY <1>4 DEF HearOutcome, ListsTyped
    <2>8. UNCHANGED <<tree, joined, asked, armed>>  BY <1>4 DEF HearOutcome
    <2> QED  BY <2>4, <2>5, <2>6, <2>7, <2>8 DEF ListsTyped, tree
  <1>5. ASSUME SilentRound  PROVE ListsTyped'
    BY <1>5 DEF SilentRound, ListsTyped, tree
  <1>6. ASSUME NEW n, NEW reached, RequestSync(n, reached)  PROVE ListsTyped'
    <2> DEFINE leaders == {m \in reached : Leads(m, list[m])}
    <2>1. /\ n \in members /\ asked' = asked \cup {n} /\ reached \subseteq members
          /\ syncs' = syncs \cup UNION {Shared(m, list[m]) : m \in leaders}
          /\ armed' = (armed \cup reached) \ leaders
          /\ UNCHANGED <<tree, views, elections, tables>>
      BY <1>6 DEF RequestSync, Backers
    <2>2. \A m \in reached : list[m] \in ListType  BY <2>1 DEF ListsTyped
    <2>3. \A d \in syncs' : d.to \in members /\ d.sync.list \in ListType
      <3>1. \A m \in leaders : \A d \in Shared(m, list[m]) :
              d.to \in members /\ d.sync.list \in ListType
        BY <2>2, SharedListed
      <3> QED  BY <3>1, <2>1 DEF ListsTyped
    <2> QED  BY <2>1, <2>3 DEF ListsTyped, tree, views
  <1>7. ASSUME NEW n \in Leaves, WindowOver(n)  PROVE ListsTyped'
    BY <1>7 DEF WindowOver, ListsTyped, tree, views
  <1>8. ASSUME NEW n \in Leaves, ResendSync(n)  PROVE ListsTyped'
    <2>1. syncs' = syncs \/ syncs' = syncs \cup Shared(n, list[n])  BY <1>8 DEF ResendSync
    <2>2. list[n] \in ListType  BY DEF ListsTyped
    <2>3. \A d \in syncs' : d.to \in members /\ d.sync.list \in ListType
      BY <2>1, <2>2, SharedListed DEF ListsTyped
    <2>4. armed' \subseteq armed /\ UNCHANGED <<tree, views, elections, tables, asked>>
      BY <1>8 DEF ResendSync
    <2> QED  BY <2>3, <2>4 DEF ListsTyped, tree, views
  <1>9. ASSUME NEW n \in Leaves, Share(n)  PROVE ListsTyped'
    <2>1. syncs' = syncs \cup Shared(n, list[n])  BY <1>9 DEF Share
    <2>2. list[n] \in ListType  BY DEF ListsTyped
    <2>3. \A d \in syncs' : d.to \in members /\ d.sync.list \in ListType
      BY <2>1, <2>2, SharedListed
    <2>4. UNCHANGED <<tree, views, elections, tables, asked, armed>>
      BY <1>9 DEF Share
    <2> QED  BY <2>3, <2>4 DEF ListsTyped, tree, views
  <1>10. ASSUME NEW d \in syncs, HearSync(d.to, d.sync)  PROVE ListsTyped'
    <2>1. d.sync.list \in ListType /\ d.to \in members  BY DEF ListsTyped
    <2>2. SyncedList(d.sync) \in ListType  BY <2>1, SyncedType
    <2>3. list' \in [Leaves -> ListType]
      BY <1>10, <2>2 DEF HearSync, ListsTyped
    <2>4. /\ syncs' \subseteq syncs /\ armed' \subseteq armed
          /\ UNCHANGED <<tree, joined, round, elections, asked>>
      BY <1>10 DEF HearSync
    <2> QED  BY <2>3, <2>4 DEF ListsTyped, tree
  <1>11. ASSUME UNCHANGED vars  PROVE ListsTyped'
    BY <1>11 DEF ListsTyped, vars, tree, views, tables
  <1> QED  BY <1>1, <1>2, <1>3, <1>4, <1>5, <1>6, <1>7, <1>8, <1>9, <1>10, <1>11
           DEF Next, Commits, Voting, Syncing


\* A broadcast carries a table.
LEMMA SharedScored ==
  ASSUME ScoresTyped, NEW n \in Leaves, NEW l
  PROVE  \A d \in Shared(n, l) : IsTable(d.sync.snap) /\ d.sync.default \in Score
  <1>1. IsTable(scores[n]) /\ default[n] \in Score  BY DEF ScoresTyped
  <1>2. IsTable(Snapshot(scores[n], default[n]))
    <2>1. MinScore \in MinScore..MaxScore  BY ScoreRange
    <2> QED  BY <1>1, <2>1, TableTypes
  <1> QED  BY <1>1, <1>2, SharedFields

\* Rebasing on the sender's default and reading its snapshot yields a table.
LEMMA AdjustedType ==
  ASSUME NEW t, IsTable(t), NEW old, NEW s, IsTable(s.snap), s.default \in Score
  PROVE  IsTable(Adjusted(t, old, s))
  <1>1. s.default \in MinScore..MaxScore  BY DEF Score
  <1>2. IsTable(SetDefault(t, old, s.default))  BY <1>1, TableTypes
  <1> QED  BY <1>1, <1>2, TableTypes DEF Adjusted

LEMMA ScoresTypedInit == Init => ScoresTyped
  <1> SUFFICES ASSUME Init  PROVE ScoresTyped  OBVIOUS
  <1>1. GroupDefault \in Score /\ JoinerDefault \in Score  BY SyncAssumption DEF Score
  <1>2. Founders \in SUBSET Leaves /\ GroupDefault \in MinScore..MaxScore
    BY SyncAssumption
  <1>3. IsTable(SyncMembers(NoScores, Founders, GroupDefault))
    BY <1>2, NoScoresTable, TableTypes
  <1>4. \A n \in Leaves : IsTable(scores[n])
    BY <1>3, NoScoresTable DEF Init
  <1> QED  BY <1>1, <1>4 DEF Init, ScoresTyped

LEMMA ScoresTypedCommit ==
  ASSUME ListsTyped, ScoresTyped, NEW by, NEW gone, NEW joins, NEW boot,
         Commit(by, gone, joins, boot)
  PROVE  ScoresTyped'
  <1> DEFINE stay == members \ gone
             first == EpochSteward(list[by], epoch, stay) = by
             losers == {n \in stay \ {by} : first /\ IsSteward(list[n], n)}
             free == Leaves \ stay
             new == IF joins THEN {CHOOSE l \in free : \A m \in free : l <= m} ELSE {}
             now == stay \cup new
             e == epoch + 1
             on == {n \in stay : n = by \/ Authorises(n, by)}
             scored(n) == ApplyOps(scores[n], WinnerOps(n, by, losers, stay))
             moved(n) == AddMembers(RemoveMembers(scored(n), gone), new, default[n])
             w == SyncOf(Renewed(by, gone, new), now, Known(by, gone, new), scored(by), default[by])
             fresh == SyncMembers(NoScores, now, JoinerDefault)
             takes == boot /\ Adopts(NoList, w, now, e)
  <1>1. /\ by \in stay
        /\ joins => free # {}
        /\ default' = [n \in Leaves |-> IF n \in new /\ takes THEN w.default
                                        ELSE IF n \in stay \ new THEN default[n] ELSE JoinerDefault]
        /\ scores' = [n \in Leaves |->
             CASE n \in new -> IF takes THEN Adjusted(fresh, JoinerDefault, w) ELSE fresh
               [] n \in on \ new -> moved(n)
               [] n \in stay \ on -> scores[n]
               [] OTHER -> NoScores]
        /\ syncs' = {}
    BY DEF Commit, Known, Renewed
  <1>2. stay \in SUBSET Leaves /\ gone \cap Leaves \in SUBSET Leaves /\ on \in SUBSET stay
    BY DEF ListsTyped
  <1>3. new \in SUBSET Leaves
    <2>1. CASE ~joins  BY <2>1
    <2>2. CASE joins
      <3>1. free # {} /\ free \subseteq Nat  BY <2>2, <1>1, SyncAssumption
      <3> HIDE DEF free
      <3>2. \E l \in free : \A m \in free : l <= m  BY <3>1, Least
      <3>3. (CHOOSE l \in free : \A m \in free : l <= m) \in free  BY <3>2
      <3> QED  BY <3>3, <2>2 DEF free
    <2> QED  BY <2>1, <2>2
  <1>4. IsFiniteSet(losers)
    <2>1. losers \in SUBSET Leaves  BY <1>2
    <2> QED  BY <2>1, SyncAssumption, FS_Subset
  <1>5. \A n \in Leaves : IsTable(scores[n]) /\ default[n] \in Score
                          /\ default[n] \in MinScore..MaxScore
    BY DEF ScoresTyped, Score
  <1> HIDE DEF losers
  <1>6. ASSUME NEW n \in Leaves  PROVE IsTable(scored(n))
    <2> DEFINE ops == WinnerOps(n, by, losers, stay)
    <2>1. Len(ops) \in Nat /\ \A i \in 1..Len(ops) : ops[i].event \in Events
      BY <1>4, WinnerOpsType
    <2> HIDE DEF ops
    <2>2. IsTable(ApplyOps(scores[n], ops))  BY <2>1, <1>5, ApplyOpsType
    <2> QED  BY <2>2 DEF ops
  <1>7. JoinerDefault \in Score /\ JoinerDefault \in MinScore..MaxScore
    BY SyncAssumption DEF Score
  <1>8. now \in SUBSET Leaves  BY <1>2, <1>3
  <1>9. w.snap = Snapshot(scored(by), default[by]) /\ w.default = default[by]
    BY SyncOfFields
  <1> HIDE DEF scored, new, stay, free, now, on, takes, w, first
  <1>10. ASSUME NEW n \in Leaves  PROVE IsTable(moved(n))
    <2>1. IsTable(RemoveMembers(scored(n), gone))
      BY <1>6 DEF IsTable, RemoveMembers, Restrict
    <2> QED  BY <2>1, <1>3, <1>5, TableTypes
  <1>11. IsTable(fresh)  BY <1>7, <1>8, NoScoresTable, TableTypes
  <1>12. by \in Leaves  BY <1>1, <1>2
  <1>13. IsTable(w.snap) /\ w.default \in Score
    BY <1>5, <1>6, <1>9, <1>12, TableTypes
  <1> HIDE DEF moved, fresh
  <1>14. IsTable(Adjusted(fresh, JoinerDefault, w))  BY <1>11, <1>13, AdjustedType
  <1>15. \A n \in Leaves : IsTable(scores'[n])
    BY <1>1, <1>5, <1>10, <1>11, <1>14, NoScoresTable
  <1>16. default' \in [Leaves -> Score]  BY <1>1, <1>5, <1>7, <1>13
  <1> QED  BY <1>1, <1>15, <1>16 DEF ScoresTyped

\* Every step keeps the scores in range.
LEMMA ScoresTypedStep ==
  ASSUME ListsTyped, ScoresTyped, [Next]_vars
  PROVE  ScoresTyped'
  <1>a. ASSUME UNCHANGED tables,
               \A d \in syncs' : d \in syncs \/ \E n \in Leaves : \E l : d \in Shared(n, l)
        PROVE  ScoresTyped'
    BY <1>a, SharedScored DEF ScoresTyped, tables
  <1>1. ASSUME NEW by, NEW gone, NEW joins, NEW boot, Commit(by, gone, joins, boot)
        PROVE  ScoresTyped'
    BY <1>1, ScoresTypedCommit
  <1>2. ASSUME NEW n, NEW refresh, NEW out, Elect(n, refresh, out)  PROVE ScoresTyped'
    BY <1>2, <1>a DEF Elect
  <1>3. ASSUME NEW v, NEW result, Conclude(v, result)  PROVE ScoresTyped'
    BY <1>3, <1>a DEF Conclude
  <1>4. ASSUME NEW v \in elections, NEW n \in members, HearOutcome(n, v)  PROVE ScoresTyped'
    <2>1. n \in Leaves  BY DEF ListsTyped
    <2>2. UNCHANGED tables /\ (syncs' = syncs \/ syncs' = syncs \cup Shared(n, v.list))
      BY <1>4 DEF HearOutcome
    <2> QED  BY <2>1, <2>2, <1>a
  <1>5. ASSUME SilentRound  PROVE ScoresTyped'
    BY <1>5, <1>a DEF SilentRound
  <1>6. ASSUME NEW n, NEW reached, RequestSync(n, reached)  PROVE ScoresTyped'
    <2>1. /\ reached \subseteq Leaves /\ UNCHANGED tables
          /\ syncs' = syncs \cup UNION {Shared(m, list[m]) : m \in {k \in reached : Leads(k, list[k])}}
      BY <1>6 DEF RequestSync, Backers, ListsTyped
    <2> QED  BY <2>1, <1>a
  <1>7. ASSUME NEW n \in Leaves, WindowOver(n)  PROVE ScoresTyped'
    BY <1>7, <1>a DEF WindowOver
  <1>8. ASSUME NEW n \in Leaves, ResendSync(n)  PROVE ScoresTyped'
    BY <1>8, <1>a DEF ResendSync
  <1>9. ASSUME NEW n \in Leaves, Share(n)  PROVE ScoresTyped'
    BY <1>9, <1>a DEF Share
  <1>10. ASSUME NEW d \in syncs, HearSync(d.to, d.sync)  PROVE ScoresTyped'
    <2>1. d.to \in Leaves /\ IsTable(d.sync.snap) /\ d.sync.default \in Score
      BY DEF ListsTyped, ScoresTyped
    <2>2. IsTable(Adjusted(scores[d.to], default[d.to], d.sync))
      BY <2>1, AdjustedType DEF ScoresTyped
    <2>3. \/ scores' = [scores EXCEPT ![d.to] = Adjusted(scores[d.to], default[d.to], d.sync)]
             /\ default' = [default EXCEPT ![d.to] = d.sync.default]
          \/ scores' = scores /\ default' = default
      BY <1>10 DEF HearSync, tables
    <2>4. syncs' \subseteq syncs  BY <1>10 DEF HearSync
    <2> QED  BY <2>1, <2>2, <2>3, <2>4 DEF ScoresTyped
  <1>11. ASSUME UNCHANGED vars  PROVE ScoresTyped'
    BY <1>11, <1>a DEF vars
  <1> QED  BY <1>1, <1>2, <1>3, <1>4, <1>5, <1>6, <1>7, <1>8, <1>9, <1>10, <1>11
           DEF Next, Commits, Voting, Syncing

LEMMA TypesInvariant == ASSUME HashTyped  PROVE Spec => [](ListsTyped /\ ScoresTyped)
  <1>1. Init => ListsTyped /\ ScoresTyped
    BY ListsTypedInit, ScoresTypedInit
  <1>2. (ListsTyped /\ ScoresTyped) /\ [Next]_vars => (ListsTyped /\ ScoresTyped)'
    BY ListsTypedStep, ScoresTypedStep
  <1> QED  BY <1>1, <1>2, PTL DEF Spec

\* The types of Sync hold for every group: whatever is computed, elected, read
\* from a welcome or asked for is a list of leaves, and no sequence of commits,
\* joins and syncs takes a score out of the range of an i64
\* (StewardListService, PeerScoringService).
THEOREM SyncTypes == ASSUME HashTyped  PROVE Spec => []TypeOK
  <1>1. ListsTyped /\ ScoresTyped => TypeOK
    BY DEF ListsTyped, ScoresTyped, TypeOK, ListType, IsTable, IsElection, Score
  <1> QED  BY <1>1, TypesInvariant, PTL


------------------------------------------------------------------------------
\* The scores a joiner reads

\* A sync carries the snapshot of its sender's table.
SnapshotsTrue == \A d \in syncs : d.sync.snap = Snapshot(d.sync.table, d.sync.default)

LEMMA SharedTrue ==
  ASSUME NEW n, NEW l
  PROVE  \A d \in Shared(n, l) : d.sync.snap = Snapshot(d.sync.table, d.sync.default)
  <1> SUFFICES ASSUME NEW d \in Shared(n, l)
               PROVE  d.sync.snap = Snapshot(d.sync.table, d.sync.default)
    OBVIOUS
  <1>1. d.sync = SyncOf(l, members, joined[n], scores[n], default[n])
    <2>1. d \in [to : {m \in members \ {n} : Stale(m) \/ m \in armed},
                 sync : {SyncOf(l, members, joined[n], scores[n], default[n])}]
      BY DEF Shared
    <2> QED  BY <2>1
  <1> QED  BY <1>1, SyncOfFields

LEMMA SnapshotsTrueStep ==
  ASSUME SnapshotsTrue, [Next]_vars
  PROVE  SnapshotsTrue'
  <1>1. \A d \in syncs' : d \in syncs \/ \E n, l : d \in Shared(n, l)
    <2>1. ASSUME NEW by, NEW gone, NEW joins, NEW boot, Commit(by, gone, joins, boot)
          PROVE  syncs' = {}
      BY <2>1 DEF Commit
    <2>2. ASSUME Voting  PROVE syncs' = syncs \/ \E n, l : syncs' = syncs \cup Shared(n, l)
      BY <2>2 DEF Voting, Elect, Conclude, HearOutcome, SilentRound
    <2>3. ASSUME NEW n, NEW reached, RequestSync(n, reached)
          PROVE  \A d \in syncs' : d \in syncs \/ \E m, l : d \in Shared(m, l)
      BY <2>3 DEF RequestSync
    <2>4. ASSUME NEW n, WindowOver(n) \/ ResendSync(n) \/ Share(n)
          PROVE  syncs' \subseteq syncs \/ syncs' = syncs \cup Shared(n, list[n])
      BY <2>4 DEF WindowOver, ResendSync, Share
    <2>5. ASSUME NEW d, HearSync(d.to, d.sync)  PROVE syncs' \subseteq syncs
      BY <2>5 DEF HearSync
    <2>6. ASSUME UNCHANGED vars  PROVE syncs' = syncs  BY <2>6 DEF vars
    <2> QED  BY <2>1, <2>2, <2>3, <2>4, <2>5, <2>6 DEF Next, Commits, Syncing
  <1> QED  BY <1>1, SharedTrue DEF SnapshotsTrue

\* Reading a snapshot after rebasing on the sender's default gives the sender's
\* score of everybody the snapshot names and everybody still at the reader's own
\* default.
LEMMA ReadBack ==
  ASSUME NEW t, NEW d, NEW mine, NEW old, NEW s, s.snap = Snapshot(t, d), s.default = d,
         NEW m \in DOMAIN t, t[m] # d \/ (m \in DOMAIN mine /\ mine[m] = old)
  PROVE  Adjusted(mine, old, s)[m] = t[m]
  BY DEF Adjusted, ApplySnapshot, SetDefault, Snapshot, Restrict

\* Whatever default a joiner had assumed and whatever it had scored, the first
\* sync it takes gives it the sender's score of every member, but for those at
\* the sender's default whose score the joiner had moved itself
\* (apply_conversation_sync_to_entry, set_default_score, apply_snapshot).
THEOREM JoinersReadSenders == ASSUME HashTyped  PROVE Spec => JoinerReadsSender
  <1> DEFINE A == \A d \in syncs :
       list[d.to] = NoList /\ HearSync(d.to, d.sync) /\ list'[d.to] # NoList
       =>
         LET table == d.sync.table
             mine == scores[d.to]
         IN \A m \in DOMAIN table :
              \/ table[m] # d.sync.default
              \/ m \in DOMAIN mine /\ mine[m] = default[d.to]
              => scores'[d.to][m] = table[m]
  <1>1. Init => SnapshotsTrue  BY DEF Init, SnapshotsTrue
  <1>2. SnapshotsTrue /\ [Next]_vars => SnapshotsTrue'  BY SnapshotsTrueStep
  <1>3. (ListsTyped /\ ScoresTyped) /\ SnapshotsTrue /\ [Next]_vars => [A]_vars
    <2> SUFFICES ASSUME ListsTyped, ScoresTyped, SnapshotsTrue, NEW d \in syncs,
                        list[d.to] = NoList, HearSync(d.to, d.sync), list'[d.to] # NoList,
                        NEW m \in DOMAIN d.sync.table,
                        \/ d.sync.table[m] # d.sync.default
                        \/ m \in DOMAIN scores[d.to] /\ scores[d.to][m] = default[d.to]
                 PROVE  scores'[d.to][m] = d.sync.table[m]
      BY DEF A
    <2>1. d.to \in Leaves  BY DEF ListsTyped
    <2>2. scores' = [scores EXCEPT ![d.to] = Adjusted(scores[d.to], default[d.to], d.sync)]
      BY DEF HearSync
    <2>3. scores'[d.to] = Adjusted(scores[d.to], default[d.to], d.sync)
      BY <2>1, <2>2 DEF ScoresTyped
    <2>4. d.sync.snap = Snapshot(d.sync.table, d.sync.default)  BY DEF SnapshotsTrue
    <2> QED  BY <2>3, <2>4, ReadBack
  <1>4. JoinerReadsSender <=> [][A]_vars  BY DEF JoinerReadsSender
  <1> HIDE DEF A
  <1> QED  BY <1>1, <1>2, <1>3, <1>4, TypesInvariant, PTL DEF Spec


------------------------------------------------------------------------------
\* One list
\*
\* StewardListsAgree and NobodyBehind are not inductive: which list a step may
\* install depends on what its member knows of the join epochs, on the votes that
\* are open and on the syncs on the wire.  One of three situations holds of some
\* list L, and the invariant says which steps lead from one to another.

\* Those who joined with the last commit; everybody else knows that.
Newcomers == {m \in members : \E n \in members : joined[n][m] = epoch}

Settlers == members \ Newcomers

\* There is at most one newcomer.  The others know when it joined; it takes
\* everybody, itself included, for settled.
Knowledge ==
  /\ \A n, m \in Leaves : joined[n][m] <= epoch
  /\ Settlers # {}
  /\ \A a, b \in Newcomers : a = b
  /\ \A n \in Settlers, m \in Newcomers : joined[n][m] = epoch
  /\ \A n \in Newcomers, m \in Leaves : joined[n][m] < epoch

\* No list in force anywhere, on the wire neither
Idle ==
  /\ \A n \in members : Stale(n)
  /\ \A d \in syncs : Exhausted(d.sync.list, epoch)

\* One election at a time is on the way, and it is of this epoch.  A newcomer
\* agrees with the list of an open vote, or no list is in force.
Ballots ==
  /\ \A v \in elections : v.result = "open" => v.unheard = members
  /\ \A v, w \in elections : v.unheard # {} /\ w.unheard # {} => v = w
  /\ \A v \in elections : v.unheard # {} =>
       /\ v.list.epoch = epoch
       /\ \E pool \in SUBSET members :
            pool # {} /\ v.list = Installed(pool, epoch, v.list.round)
  /\ \A v \in elections : v.result = "open" => (\A n \in Newcomers : Valid(n, v)) \/ Idle

InForce(l) == l # NoList /\ ~Exhausted(l, epoch)

\* n is going to install l once it hears of the election
Awaits(n, l) ==
  \E v \in elections : v.result = "yes" /\ n \in v.unheard /\ Valid(n, v) /\ v.list = l

\* Whatever passed and is not heard by everybody is l.
Passed(l) == \A v \in elections : v.result = "yes" /\ v.unheard # {} => v.list = l

\* Whoever holds a list holds l, in force or not, and only l is on the wire.
Uniform(l) ==
  /\ \A v \in elections : v.result = "yes" => v.unheard = {}
  /\ \A n \in members : list[n] \in {NoList, l}
  /\ \A d \in syncs : d.sync.list = l

\* l is in force and everybody holds it or is going to.
Everywhere(l) ==
  /\ InForce(l) /\ Passed(l)
  /\ \A n \in members : list[n] = l \/ Awaits(n, l)

\* l is in force for everybody but the newcomer, who found it invalid and is
\* left with no list in force.
Lagging(l) ==
  /\ InForce(l) /\ Passed(l)
  /\ \A n \in Settlers : list[n] = l \/ Awaits(n, l)
  /\ \A n \in members : list[n] \in {NoList, l} \/ Exhausted(list[n], epoch)
  /\ \A d \in syncs : d.sync.list = l \/ Exhausted(d.sync.list, epoch)

OneList == \E l \in ListType : Uniform(l) \/ Everywhere(l) \/ Lagging(l)

ListInv == ListsTyped /\ NobodyBehind /\ Knowledge /\ Ballots /\ OneList

\* Whom a member takes for settled
LEMMA KnownPools ==
  ASSUME ListsTyped, Knowledge, NEW n \in members
  PROVE  Settled(members, joined[n], epoch) = IF n \in Newcomers THEN members ELSE Settlers
  <1>1. /\ epoch \in Nat /\ members \in SUBSET Leaves
        /\ \A m \in Leaves : joined[n][m] \in Nat /\ joined[n][m] <= epoch
    BY DEF ListsTyped, Knowledge
  <1>2. CASE n \in Newcomers
    <2>1. \A m \in members : joined[n][m] < epoch  BY <1>1, <1>2 DEF Knowledge
    <2> QED  BY <1>2, <2>1 DEF Settled
  <1>3. CASE n \notin Newcomers
    <2>1. \A m \in Newcomers : ~(joined[n][m] < epoch)
      BY <1>1, <1>3 DEF Knowledge, Settlers
    <2>2. \A m \in Settlers : joined[n][m] < epoch
      BY <1>1 DEF Settlers, Newcomers
    <2> QED  BY <1>3, <2>1, <2>2 DEF Settled, Settlers, Newcomers
  <1> QED  BY <1>2, <1>3

\* Settled members judge a list of this epoch alike.
LEMMA ValidAlike ==
  ASSUME ListsTyped, Knowledge, NEW v, v.list.epoch = epoch,
         NEW n \in Settlers, NEW k \in Settlers, Valid(n, v)
  PROVE  Valid(k, v)
  <1>1. n \in members /\ k \in members /\ n \notin Newcomers /\ k \notin Newcomers
    BY DEF Settlers
  <1>2. Settled(members, joined[n], epoch) = Settlers
        /\ Settled(members, joined[k], epoch) = Settlers
    BY <1>1, KnownPools
  <1> QED  BY <1>2 DEF Valid

\* A list that most members find valid is valid to every settled member: the
\* newcomer alone is no majority.
LEMMA MajoritySettles ==
  ASSUME ListsTyped, Knowledge, NEW v, v.list.epoch = epoch,
         2 * Cardinality({n \in members : Valid(n, v)}) > Cardinality(members)
  PROVE  \A n \in Settlers : Valid(n, v)
  <1> DEFINE S == {n \in members : Valid(n, v)}
  <1>1. SUFFICES ASSUME NEW k \in Settlers, ~Valid(k, v)  PROVE FALSE  OBVIOUS
  <1>2. S \subseteq Newcomers
    <2>1. \A n \in Settlers : ~Valid(n, v)  BY <1>1, ValidAlike
    <2> QED  BY <2>1 DEF Settlers
  <1>3. IsFiniteSet(members) /\ Cardinality(members) \in Nat
    BY SyncAssumption, FS_Subset, FS_CardinalityType DEF ListsTyped
  <1>4. k \in members /\ k \notin S /\ S \in SUBSET members  BY <1>1 DEF Settlers
  <1> HIDE DEF S
  <1>5. CASE S = {}
    <2>1. Cardinality(S) = 0  BY <1>5, FS_EmptySet
    <2> QED  BY <2>1, <1>3 DEF S
  <1>6. CASE S # {}
    <2>1. PICK x \in S : TRUE  BY <1>6
    <2>2. S = {x}  BY <2>1, <1>2 DEF Knowledge
    <2>3. Cardinality(S) = 1  BY <2>2, FS_Singleton
    <2>4. IsFiniteSet({x}) /\ Cardinality({x}) = 1  BY FS_Singleton
    <2>5. Cardinality({x} \cup {k}) = 2
      <3>1. k \notin {x}  BY <2>2, <1>4
      <3> QED  BY <2>4, <3>1, FS_AddElement
    <2>6. {x} \cup {k} \in SUBSET members  BY <2>1, <1>4
    <2>7. 2 <= Cardinality(members)  BY <2>5, <2>6, <1>3, FS_Subset
    <2>8. 2 * Cardinality(S) > Cardinality(members)  BY DEF S
    <2> QED  BY <2>3, <2>7, <2>8, <1>3
  <1> QED  BY <1>5, <1>6

\* While the group and what is known of it stay, so do newcomers and verdicts.
LEMMA SameWorld ==
  ASSUME UNCHANGED <<tree, joined>>
  PROVE  /\ Newcomers' = Newcomers /\ Settlers' = Settlers
         /\ Knowledge' <=> Knowledge
         /\ \A n, v : Valid(n, v)' <=> Valid(n, v)
         /\ \A l : InForce(l)' <=> InForce(l)
  <1>1. epoch' = epoch /\ members' = members /\ joined' = joined  BY DEF tree
  <1>2. Newcomers' = Newcomers  BY <1>1 DEF Newcomers
  <1>3. Settlers' = Settlers  BY <1>1, <1>2 DEF Settlers
  <1>4. Knowledge' <=> Knowledge  BY <1>1, <1>2, <1>3 DEF Knowledge
  <1>5. \A n, v : Valid(n, v)' <=> Valid(n, v)  BY <1>1 DEF Valid, Settled
  <1>6. \A l : InForce(l)' <=> InForce(l)  BY <1>1 DEF InForce
  <1> QED  BY <1>2, <1>3, <1>4, <1>5, <1>6

\* An election on the way carries a list in force.
LEMMA ElectedInForce ==
  ASSUME HashTyped, ListsTyped, Ballots, NEW v \in elections, v.unheard # {}
  PROVE  InForce(v.list) /\ v.list.epoch = epoch /\ v.list \in ListType
  <1>1. PICK pool \in SUBSET members :
          pool # {} /\ v.list = Installed(pool, epoch, v.list.round)
    BY DEF Ballots
  <1>2. v.list \in ListType /\ v.list.round \in Nat /\ epoch \in Nat
        /\ pool \in SUBSET Leaves
    BY DEF ListsTyped, IsElection, ListType
  <1>3. v.list.epoch = epoch  BY DEF Ballots
  <1>4. v.list # NoList /\ ~Exhausted(v.list, epoch)
    BY <1>1, <1>2, InstalledFacts
  <1> QED  BY <1>2, <1>3, <1>4 DEF InForce

\* A stale member's list is none or exhausted.
LEMMA StaleList ==
  ASSUME NEW n
  PROVE  Stale(n) <=> (list[n] = NoList \/ Exhausted(list[n], epoch))
  BY DEF Stale, ListExhausted


\* Steps of the syncs: the wire loses syncs, or gains some with lists of members.
LEMMA WireKeepsList ==
  ASSUME ListInv, UNCHANGED <<tree, list, joined, elections>>,
         \A d \in syncs' : d \in syncs \/ \E m \in members : d \in Shared(m, list[m])
  PROVE  Ballots' /\ OneList'
  <1>1. epoch' = epoch /\ members' = members /\ list' = list /\ elections' = elections
    BY DEF tree
  <1>2. /\ Newcomers' = Newcomers /\ Settlers' = Settlers
        /\ \A n, v : Valid(n, v)' <=> Valid(n, v)
        /\ \A l : InForce(l)' <=> InForce(l)
    BY SameWorld
  <1>3. \A d \in syncs' : \/ d \in syncs
                          \/ \E m \in members : list[m] # NoList /\ d.sync.list = list[m]
    BY SharedFields
  <1>4. Idle => Idle'
    <2>1. \A n : Stale(n)' <=> Stale(n)  BY <1>1 DEF Stale
    <2>2. ASSUME Idle, NEW d \in syncs'  PROVE Exhausted(d.sync.list, epoch)
      BY <2>2, <1>3, StaleList DEF Idle
    <2> QED  BY <2>1, <2>2, <1>1 DEF Idle
  <1>5. Ballots'
    <2>1. Ballots  BY DEF ListInv
    <2> QED  BY <2>1, <1>1, <1>2, <1>4 DEF Ballots
  <1>6. PICK l \in ListType : Uniform(l) \/ Everywhere(l) \/ Lagging(l)
    BY DEF ListInv, OneList
  <1>7. \A n : Awaits(n, l)' <=> Awaits(n, l)  BY <1>1, <1>2 DEF Awaits
  <1>8. Passed(l)' <=> Passed(l)  BY <1>1 DEF Passed
  <1>9. CASE Uniform(l)
    <2>1. \A d \in syncs' : d.sync.list = l  BY <1>3, <1>9 DEF Uniform
    <2>2. Uniform(l)'  BY <2>1, <1>1, <1>9 DEF Uniform
    <2> QED  BY <1>5, <2>2 DEF OneList
  <1>10. CASE Everywhere(l)
    <2>1. Everywhere(l)'  BY <1>1, <1>2, <1>7, <1>8, <1>10 DEF Everywhere
    <2> QED  BY <1>5, <2>1 DEF OneList
  <1>11. CASE Lagging(l)
    <2>1. \A d \in syncs' : d.sync.list = l \/ Exhausted(d.sync.list, epoch)
      BY <1>3, <1>11 DEF Lagging
    <2>2. Lagging(l)'  BY <2>1, <1>1, <1>2, <1>7, <1>8, <1>11 DEF Lagging
    <2> QED  BY <1>5, <2>2 DEF OneList
  <1> QED  BY <1>6, <1>9, <1>10, <1>11

\* A member takes over the list of a sync.
LEMMA HearSyncKeepsList ==
  ASSUME HashTyped, ListInv, NEW d \in syncs, HearSync(d.to, d.sync)
  PROVE  Ballots' /\ OneList'
  <1> DEFINE n == d.to
             s == d.sync
  <1>1. /\ epoch' = epoch /\ members' = members /\ joined' = joined /\ elections' = elections
        /\ syncs' \subseteq syncs /\ UNCHANGED <<tree, joined>>
    BY DEF HearSync, tree
  <1>2. n \in members /\ s.list \in ListType /\ members \in SUBSET Leaves
        /\ list \in [Leaves -> ListType]
    BY DEF ListInv, ListsTyped
  <1>3. \/ list' = list
        \/ /\ list' = [list EXCEPT ![n] = s.list]
           /\ list[n] = NoList \/ Exhausted(list[n], epoch)
    <2>1. CASE Adopts(list[n], s, members, epoch)
      <3>1. list' = [list EXCEPT ![n] = SyncedList(s)]  BY <2>1 DEF HearSync
      <3>2. SyncedList(s) = s.list  BY <2>1, <1>2, SyncedSame DEF Adopts
      <3>3. list[n] = NoList \/ Exhausted(list[n], epoch)
        BY <2>1 DEF Adopts, ListExhausted
      <3> QED  BY <3>1, <3>2, <3>3
    <2>2. CASE ~Adopts(list[n], s, members, epoch)  BY <2>2 DEF HearSync
    <2> QED  BY <2>1, <2>2
  <1>4. /\ Newcomers' = Newcomers /\ Settlers' = Settlers
        /\ \A k, v : Valid(k, v)' <=> Valid(k, v)
        /\ \A l : InForce(l)' <=> InForce(l)
    BY <1>1, SameWorld
  <1>5. s.list = d.sync.list /\ d \in syncs  OBVIOUS
  <1> HIDE DEF n, s
  <1>6. \A k \in members : list'[k] = list[k] \/ (k = n /\ list'[k] = s.list)
    BY <1>2, <1>3
  <1>7. Idle => Idle'
    <2>1. ASSUME Idle, NEW k \in members
          PROVE  list'[k] = NoList \/ Exhausted(list'[k], epoch)
      BY <2>1, <1>5, <1>6, StaleList DEF Idle
    <2>2. \A k \in members : Stale(k)' <=> (list'[k] = NoList \/ Exhausted(list'[k], epoch))
      BY <1>1 DEF Stale, ListExhausted
    <2> QED  BY <2>1, <2>2, <1>1 DEF Idle
  <1>8. Ballots'
    <2>1. Ballots  BY DEF ListInv
    <2> QED  BY <2>1, <1>1, <1>4, <1>7 DEF Ballots
  <1>9. PICK l \in ListType : Uniform(l) \/ Everywhere(l) \/ Lagging(l)
    BY DEF ListInv, OneList
  <1>10. \A k : Awaits(k, l)' <=> Awaits(k, l)  BY <1>1, <1>4 DEF Awaits
  <1>11. Passed(l)' <=> Passed(l)  BY <1>1 DEF Passed
  <1>12. ASSUME InForce(l), NEW k \in members, list[k] = l \/ Awaits(k, l)
         PROVE  list'[k] = l \/ Awaits(k, l)
    <2>1. ASSUME list[k] = l, list' # list, k = n  PROVE FALSE
      BY <2>1, <1>3, <1>12 DEF InForce
    <2> QED  BY <2>1, <1>6, <1>12, <1>2, <1>3
  <1>13. CASE Uniform(l)
    <2>1. \A k \in members : list'[k] \in {NoList, l}  BY <1>5, <1>6, <1>13 DEF Uniform
    <2>2. Uniform(l)'  BY <2>1, <1>1, <1>13 DEF Uniform
    <2> QED  BY <1>8, <2>2 DEF OneList
  <1>14. CASE Everywhere(l)
    <2>1. \A k \in members : list'[k] = l \/ Awaits(k, l)  BY <1>12, <1>14 DEF Everywhere
    <2>2. Everywhere(l)'  BY <2>1, <1>1, <1>4, <1>10, <1>11, <1>14 DEF Everywhere
    <2> QED  BY <1>8, <2>2 DEF OneList
  <1>15. CASE Lagging(l)
    <2>1. \A k \in Settlers : list'[k] = l \/ Awaits(k, l)
      BY <1>12, <1>15 DEF Lagging, Settlers
    <2>2. \A k \in members : list'[k] \in {NoList, l} \/ Exhausted(list'[k], epoch)
      BY <1>5, <1>6, <1>15 DEF Lagging
    <2>3. Lagging(l)'
      BY <2>1, <2>2, <1>1, <1>4, <1>10, <1>11, <1>15 DEF Lagging
    <2> QED  BY <1>8, <2>3 DEF OneList
  <1> QED  BY <1>9, <1>13, <1>14, <1>15


\* A vote opens: by a settled member only if its list, and so every list, is
\* exhausted; by the newcomer with a list it finds valid itself; and as a refresh
\* only if there is no newcomer.
LEMMA ElectKeepsList ==
  ASSUME HashTyped, Prompt, ~RefreshAnyTime, ListInv,
         NEW n, NEW refresh \in BOOLEAN, NEW out, Elect(n, refresh, out)
  PROVE  Ballots' /\ OneList'
  <1> DEFINE pool == Settled(members, joined[n], epoch)
             new == Installed(pool, epoch, round[n])
             v == [list |-> new, result |-> "open", unheard |-> members,
                   nr |-> Cardinality(elections)]
  <1>1. /\ n \in members /\ pool # {}
        /\ \A w \in elections : w.unheard = {}
        /\ IF refresh THEN MayRefresh ELSE ListExhausted(list[n], epoch)
        /\ elections' = elections \cup {v}
        /\ UNCHANGED <<tree, views, tables, asked, armed, syncs>>
    BY DEF Elect
  <1>2. /\ epoch' = epoch /\ members' = members /\ joined' = joined /\ list' = list
        /\ syncs' = syncs /\ UNCHANGED <<tree, joined>>
    BY <1>1 DEF tree, views
  <1>3. /\ Newcomers' = Newcomers /\ Settlers' = Settlers
        /\ \A k, w : Valid(k, w)' <=> Valid(k, w)
        /\ \A l : InForce(l)' <=> InForce(l)
    BY <1>2, SameWorld
  <1>4. /\ ListsTyped /\ Knowledge /\ Ballots /\ members # {}
        /\ n \in Leaves /\ epoch \in Nat /\ round[n] \in Nat
        /\ pool \in SUBSET members /\ pool \in SUBSET Leaves
    BY <1>1, SettledType DEF ListInv, ListsTyped, Knowledge, Settlers
  <1>5. new.epoch = epoch /\ new.round = round[n]
    BY <1>4, InstalledFacts
  <1> HIDE DEF new
  <1>6. v.list = new /\ v.result = "open" /\ v.unheard = members  OBVIOUS
  <1> HIDE DEF v
  <1>7. PICK l \in ListType : Uniform(l) \/ Everywhere(l) \/ Lagging(l)
    BY DEF ListInv, OneList
  <1>8. \A k : ~Awaits(k, l)  BY <1>1 DEF Awaits
  <1>9. (\A k \in Newcomers : Valid(k, v)) \/ Idle
    <2>1. CASE refresh
      <3>1. \A a, b \in members : joined[a][b] < epoch  BY <2>1, <1>1 DEF MayRefresh
      <3>2. \A a, b \in members : joined[a][b] # epoch
        <4>1. \A a, b \in members : joined[a][b] \in Nat  BY <1>4 DEF ListsTyped
        <4> QED  BY <4>1, <3>1, <1>4
      <3>3. Newcomers = {}  BY <3>2 DEF Newcomers
      <3> QED  BY <3>3
    <2>2. CASE ~refresh /\ n \in Newcomers
      <3>1. Newcomers = {n}  BY <2>2, <1>4 DEF Knowledge
      <3>2. Valid(n, v)  BY <1>1, <1>5, <1>6 DEF Valid, new
      <3> QED  BY <3>1, <3>2
    <2>3. CASE ~refresh /\ n \notin Newcomers
      <3>1. list[n] # NoList /\ Exhausted(list[n], epoch) /\ n \in Settlers
        BY <2>3, <1>1 DEF ListExhausted, Settlers
      <3>2. Uniform(l) /\ list[n] = l
        BY <3>1, <1>1, <1>7, <1>8 DEF Uniform, Everywhere, Lagging, InForce
      <3>3. Exhausted(l, epoch)  BY <3>1, <3>2
      <3>4. Idle  BY <3>2, <3>3, StaleList DEF Uniform, Idle
      <3> QED  BY <3>4
    <2> QED  BY <2>1, <2>2, <2>3
  <1>10. Idle' <=> Idle  BY <1>2 DEF Idle, Stale
  <1>11. Ballots'
    <2>1. \A w \in elections' : w = v \/ (w \in elections /\ w.unheard = {})  BY <1>1
    <2>2. \A w \in elections : w.result # "open"  BY <1>1, <1>4 DEF Ballots
    <2>3. v.list.epoch = epoch /\ v.list = Installed(pool, epoch, v.list.round)
      BY <1>5, <1>6 DEF new
    <2>4. \A w \in elections' : w.result = "open" => w.unheard = members
      BY <2>1, <2>2, <1>6
    <2>5. \A w, u \in elections' : w.unheard # {} /\ u.unheard # {} => w = u  BY <2>1
    <2>6. \A w \in elections' : w.unheard # {} =>
            /\ w.list.epoch = epoch
            /\ \E p \in SUBSET members : p # {} /\ w.list = Installed(p, epoch, w.list.round)
      <3> HIDE DEF pool
      <3> QED  BY <2>1, <2>3, <1>1, <1>4
    <2>7. \A w \in elections' : w.result = "open" => (\A k \in Newcomers : Valid(k, w)) \/ Idle
      BY <2>1, <2>2, <1>9
    <2> QED  BY <2>4, <2>5, <2>6, <2>7, <1>2, <1>3, <1>10 DEF Ballots
  <1>12. \A w \in elections' : w.result = "yes" => w \in elections /\ w.unheard = {}
    BY <1>1, <1>6
  <1>13. Passed(l)'  BY <1>12 DEF Passed
  <1>14. CASE Uniform(l)
    <2>1. Uniform(l)'  BY <1>2, <1>12, <1>14 DEF Uniform
    <2> QED  BY <2>1, <1>11 DEF OneList
  <1>15. CASE Everywhere(l)
    <2>1. Everywhere(l)'  BY <1>2, <1>3, <1>8, <1>13, <1>15 DEF Everywhere
    <2> QED  BY <2>1, <1>11 DEF OneList
  <1>16. CASE Lagging(l)
    <2>1. Lagging(l)'  BY <1>2, <1>3, <1>8, <1>13, <1>16 DEF Lagging
    <2> QED  BY <2>1, <1>11 DEF OneList
  <1> QED  BY <1>7, <1>14, <1>15, <1>16

\* A vote ends: what passes is valid to every settled member; what does not
\* changes nothing.
LEMMA ConcludeKeepsList ==
  ASSUME HashTyped, Prompt, ListInv,
         NEW v \in elections, NEW result \in {"yes", "no"}, Conclude(v, result)
  PROVE  Ballots' /\ OneList'
  <1> DEFINE u == [v EXCEPT !.result = result]
  <1>1. /\ v.result = "open"
        /\ result = "yes" =>
             2 * Cardinality({n \in members : Valid(n, v)}) > Cardinality(members)
        /\ elections' = (elections \ {v}) \cup {u}
        /\ UNCHANGED <<tree, views, tables, asked, armed, syncs>>
    BY DEF Conclude
  <1>2. /\ epoch' = epoch /\ members' = members /\ joined' = joined /\ list' = list
        /\ syncs' = syncs /\ UNCHANGED <<tree, joined>>
    BY <1>1 DEF tree, views
  <1>3. /\ Newcomers' = Newcomers /\ Settlers' = Settlers
        /\ \A k, w : Valid(k, w)' <=> Valid(k, w)
        /\ \A l : InForce(l)' <=> InForce(l)
    BY <1>2, SameWorld
  <1>4. /\ ListsTyped /\ Knowledge /\ Ballots /\ members # {}
        /\ IsElection(v, members) /\ v.unheard = members
    BY <1>1 DEF ListInv, ListsTyped, Knowledge, Settlers, Ballots
  <1>5. u.list = v.list /\ u.result = result /\ u.unheard = members
    BY <1>4, ElectionFields
  <1> HIDE DEF u
  <1>6. \A w \in elections : w # v => w.unheard = {} /\ w.result # "open"
    BY <1>4 DEF Ballots
  <1>7. \A w \in elections' : w = u \/ (w \in elections /\ w.unheard = {} /\ w.result # "open")
    BY <1>1, <1>6
  <1>8. InForce(v.list) /\ v.list.epoch = epoch /\ v.list \in ListType
    BY <1>4, ElectedInForce
  <1>9. Ballots'
    <2>1. \A w \in elections' : w.result # "open"  BY <1>5, <1>7
    <2>2. \A w, x \in elections' : w.unheard # {} /\ x.unheard # {} => w = x  BY <1>7
    <2>3. \A w \in elections' : w.unheard # {} =>
            /\ w.list.epoch = epoch
            /\ \E p \in SUBSET members : p # {} /\ w.list = Installed(p, epoch, w.list.round)
      <3>1. \E p \in SUBSET members : p # {} /\ v.list = Installed(p, epoch, v.list.round)
        BY <1>4 DEF Ballots
      <3> QED  BY <3>1, <1>5, <1>7, <1>8
    <2> QED  BY <2>1, <2>2, <2>3, <1>2 DEF Ballots
  <1>10. CASE result = "no"
    <2>1. PICK l \in ListType : Uniform(l) \/ Everywhere(l) \/ Lagging(l)
      BY DEF ListInv, OneList
    <2>2. \A k : ~Awaits(k, l)  BY <1>1, <1>6 DEF Awaits
    <2>3. \A w \in elections' : w.result = "yes" => w.unheard = {}
      BY <1>5, <1>7, <1>10
    <2>4. Passed(l)'  BY <2>3 DEF Passed
    <2>5. CASE Uniform(l)
      <3>1. Uniform(l)'  BY <1>2, <2>3, <2>5 DEF Uniform
      <3> QED  BY <3>1, <1>9 DEF OneList
    <2>6. CASE Everywhere(l)
      <3>1. Everywhere(l)'  BY <1>2, <1>3, <2>2, <2>4, <2>6 DEF Everywhere
      <3> QED  BY <3>1, <1>9 DEF OneList
    <2>7. CASE Lagging(l)
      <3>1. Lagging(l)'  BY <1>2, <1>3, <2>2, <2>4, <2>7 DEF Lagging
      <3> QED  BY <3>1, <1>9 DEF OneList
    <2> QED  BY <2>1, <2>5, <2>6, <2>7
  <1>11. CASE result = "yes"
    <2> DEFINE l == v.list
    <2>1. \A k \in Settlers : Valid(k, v)
      BY <1>1, <1>4, <1>8, <1>11, MajoritySettles
    <2>2. \A k \in members : Valid(k, v) => Awaits(k, l)'
      <3>1. u \in elections' /\ \A k : Valid(k, u) <=> Valid(k, v)
        BY <1>1, <1>5 DEF Valid
      <3> QED  BY <3>1, <1>3, <1>5, <1>11 DEF Awaits
    <2>3. Passed(l)' /\ InForce(l)'
      <3>1. \A w \in elections' : w.unheard # {} => w.list = l  BY <1>5, <1>7
      <3>2. Passed(l)'  BY <3>1 DEF Passed
      <3> QED  BY <3>2, <1>3, <1>8
    <2>4. l \in ListType  BY <1>8
    <2> HIDE DEF l
    <2>5. CASE \A k \in Newcomers : Valid(k, v)
      <3>1. \A k \in members : Valid(k, v)  BY <2>1, <2>5 DEF Settlers
      <3>2. Everywhere(l)'  BY <3>1, <2>2, <2>3, <1>2 DEF Everywhere
      <3> QED  BY <3>2, <2>4, <1>9 DEF OneList
    <2>6. CASE ~\A k \in Newcomers : Valid(k, v)
      <3>1. Idle  BY <2>6, <1>1, <1>4 DEF Ballots
      <3>2. \A k \in Settlers : Awaits(k, l)'  BY <2>1, <2>2 DEF Settlers
      <3>3. \A k \in members : list[k] = NoList \/ Exhausted(list[k], epoch)
        BY <3>1, StaleList DEF Idle
      <3>4. Lagging(l)'
        BY <3>1, <3>2, <3>3, <2>3, <1>2, <1>3 DEF Lagging, Idle
      <3> QED  BY <3>4, <2>4, <1>9 DEF OneList
    <2> QED  BY <2>5, <2>6
  <1> QED  BY <1>10, <1>11

\* A member hears the outcome: it installs the list if it finds it valid, and
\* held it already otherwise, unless it is the newcomer.
LEMMA HearOutcomeKeepsList ==
  ASSUME HashTyped, ListInv, NEW v \in elections, NEW n \in members, HearOutcome(n, v)
  PROVE  Ballots' /\ OneList'
  <1> DEFINE u == [v EXCEPT !.unheard = v.unheard \ {n}]
             goes == v.result = "yes" /\ Valid(n, v)
  <1>1. /\ v.result # "open" /\ n \in v.unheard
        /\ elections' = (elections \ {v}) \cup {u}
        /\ list' = IF goes THEN [list EXCEPT ![n] = v.list] ELSE list
        /\ syncs' = syncs \/ (goes /\ syncs' = syncs \cup Shared(n, v.list))
        /\ UNCHANGED <<tree, joined>>
    BY DEF HearOutcome
  <1>2. epoch' = epoch /\ members' = members /\ joined' = joined  BY <1>1 DEF tree
  <1>3. /\ Newcomers' = Newcomers /\ Settlers' = Settlers
        /\ \A k, w : Valid(k, w)' <=> Valid(k, w)
        /\ \A l : InForce(l)' <=> InForce(l)
    BY <1>1, SameWorld
  <1>4. /\ ListsTyped /\ Ballots /\ IsElection(v, members)
        /\ list \in [Leaves -> ListType] /\ members \in SUBSET Leaves
    BY DEF ListInv, ListsTyped
  <1>5. u.list = v.list /\ u.result = v.result /\ u.unheard = v.unheard \ {n}
    BY <1>4, ElectionFields
  <1> HIDE DEF u
  <1>6. \A w \in elections : w # v => w.unheard = {} /\ w.result # "open"
    <2>1. \A w \in elections : w # v => w.unheard = {}  BY <1>1, <1>4 DEF Ballots
    <2>2. members # {}  OBVIOUS
    <2> QED  BY <2>1, <2>2, <1>4 DEF Ballots
  <1>7. \A w \in elections' : w = u \/ (w \in elections /\ w.unheard = {} /\ w.result # "open")
    BY <1>1, <1>6
  <1>8. InForce(v.list) /\ v.list.epoch = epoch /\ v.list \in ListType
    BY <1>1, <1>4, ElectedInForce
  <1>9. Ballots'
    <2>1. \A w \in elections' : w.result # "open"  BY <1>1, <1>5, <1>7
    <2>2. \A w, x \in elections' : w.unheard # {} /\ x.unheard # {} => w = x  BY <1>7
    <2>3. \A w \in elections' : w.unheard # {} =>
            /\ w.list.epoch = epoch
            /\ \E p \in SUBSET members : p # {} /\ w.list = Installed(p, epoch, w.list.round)
      <3>1. \E p \in SUBSET members : p # {} /\ v.list = Installed(p, epoch, v.list.round)
        BY <1>1, <1>4 DEF Ballots
      <3> QED  BY <3>1, <1>5, <1>7, <1>8
    <2> QED  BY <2>1, <2>2, <2>3, <1>2 DEF Ballots
  <1>10. PICK l \in ListType : Uniform(l) \/ Everywhere(l) \/ Lagging(l)
    BY DEF ListInv, OneList
  <1>11. CASE v.result # "yes"
    <2>1. list' = list /\ syncs' = syncs  BY <1>1, <1>11
    <2>2. \A k : ~Awaits(k, l)  BY <1>6, <1>11 DEF Awaits
    <2>3. \A w \in elections' : w.result = "yes" => w.unheard = {}
      BY <1>5, <1>7, <1>11
    <2>4. Passed(l)'  BY <2>3 DEF Passed
    <2>5. CASE Uniform(l)
      <3>1. Uniform(l)'  BY <1>2, <2>1, <2>3, <2>5 DEF Uniform
      <3> QED  BY <3>1, <1>9 DEF OneList
    <2>6. CASE Everywhere(l)
      <3>1. Everywhere(l)'  BY <1>2, <1>3, <2>1, <2>2, <2>4, <2>6 DEF Everywhere
      <3> QED  BY <3>1, <1>9 DEF OneList
    <2>7. CASE Lagging(l)
      <3>1. Lagging(l)'  BY <1>2, <1>3, <2>1, <2>2, <2>4, <2>7 DEF Lagging
      <3> QED  BY <3>1, <1>9 DEF OneList
    <2> QED  BY <1>10, <2>5, <2>6, <2>7
  <1>12. CASE v.result = "yes"
    <2>1. ~Uniform(l)  BY <1>1, <1>12 DEF Uniform
    <2>2. InForce(l) /\ Passed(l)  BY <2>1, <1>10 DEF Everywhere, Lagging
    <2>3. v.list = l  BY <2>2, <1>1, <1>12 DEF Passed
    <2>4. Passed(l)' /\ InForce(l)'
      <3>1. \A w \in elections' : w.unheard # {} => w.list = l  BY <1>5, <1>7, <2>3
      <3>2. Passed(l)'  BY <3>1 DEF Passed
      <3> QED  BY <3>2, <1>3, <2>2
    <2>5. ASSUME NEW k \in members, list[k] = l \/ Awaits(k, l)
          PROVE  list'[k] = l \/ Awaits(k, l)'
      <3>1. CASE list[k] = l
        BY <3>1, <1>1, <1>4, <2>3
      <3>2. CASE Awaits(k, l)
        <4>1. k \in v.unheard /\ Valid(k, v)  BY <3>2, <1>6 DEF Awaits
        <4>2. CASE k = n
          <5>1. goes  BY <4>1, <4>2, <1>12
          <5> QED  BY <5>1, <4>2, <1>1, <1>4, <2>3
        <4>3. CASE k # n
          <5>1. u \in elections' /\ (Valid(k, u) <=> Valid(k, v))
            BY <1>1, <1>5 DEF Valid
          <5>2. k \in u.unheard /\ u.result = "yes" /\ u.list = l
            BY <4>1, <4>3, <1>5, <1>12, <2>3
          <5> QED  BY <5>1, <5>2, <4>1, <1>3 DEF Awaits
        <4> QED  BY <4>2, <4>3
      <3> QED  BY <2>5, <3>1, <3>2
    <2>6. CASE Everywhere(l)
      <3>1. Everywhere(l)'  BY <2>4, <2>5, <2>6, <1>2 DEF Everywhere
      <3> QED  BY <3>1, <1>9 DEF OneList
    <2>7. CASE Lagging(l)
      <3>1. \A k \in members : list'[k] = list[k] \/ list'[k] = l
        BY <1>1, <1>4, <2>3
      <3>2. \A k \in members : list'[k] \in {NoList, l} \/ Exhausted(list'[k], epoch)
        BY <3>1, <2>7 DEF Lagging
      <3>3. \A d \in syncs' : d.sync.list = l \/ Exhausted(d.sync.list, epoch)
        BY <1>1, <2>3, <2>7, SharedFields DEF Lagging
      <3>4. \A k \in Settlers : list'[k] = l \/ Awaits(k, l)'
        BY <2>5, <2>7 DEF Lagging, Settlers
      <3>5. Lagging(l)'  BY <3>2, <3>3, <3>4, <2>4, <1>2, <1>3 DEF Lagging
      <3> QED  BY <3>5, <1>9 DEF OneList
    <2> QED  BY <2>1, <2>6, <2>7, <1>10
  <1> QED  BY <1>11, <1>12


\* Between elections whoever holds a list holds the same one.
LEMMA CalmIsUniform ==
  ASSUME Prompt, ListInv, Calm
  PROVE  \E l \in ListType : \A n \in members : list[n] \in {NoList, l}
  <1>1. PICK l \in ListType : Uniform(l) \/ Everywhere(l) \/ Lagging(l)
    BY DEF ListInv, OneList
  <1>2. \A v \in elections : v.unheard = {}  BY DEF Calm
  <1>3. \A n : ~Awaits(n, l)  BY <1>2 DEF Awaits
  <1>4. CASE Uniform(l)  BY <1>4 DEF Uniform
  <1>5. CASE Everywhere(l)  BY <1>3, <1>5 DEF Everywhere
  <1>6. CASE Lagging(l)
    <2>1. PICK k \in members : k \in Settlers  BY DEF ListInv, Knowledge, Settlers
    <2>2. ~Stale(k)  BY <2>1, <1>3, <1>6, StaleList DEF Lagging, InForce
    <2>3. \A n \in members : list[n] # NoList => ~Stale(n)
      BY <2>1, <2>2 DEF Calm
    <2>4. \A n \in members : list[n] # NoList => ~Exhausted(list[n], epoch)
      BY <2>3, StaleList
    <2> QED  BY <2>4, <1>6 DEF Lagging
  <1> QED  BY <1>1, <1>4, <1>5, <1>6

\* A commit: the steward is one by everybody's list, nobody is left behind, and
\* everybody renews to the same list, the one the welcome carries.
LEMMA CommitKeepsList ==
  ASSUME HashTyped, Prompt, ListInv, NEW by, NEW gone, NEW joins, NEW boot,
         Commit(by, gone, joins, boot)
  PROVE  NobodyBehind' /\ Knowledge' /\ Ballots' /\ OneList'
  <1> DEFINE stay == members \ gone
             on == Followers(by, gone)
             e == epoch + 1
  <1>1. ListsTyped  BY DEF ListInv
  <1>2. PICK new \in SUBSET Leaves : \E x : CommitFacts(by, gone, new, x)
    BY <1>1, CommitLists
  <1>3. PICK w : CommitFacts(by, gone, new, w)  BY <1>2
  <1>4. /\ new \cap stay = {} /\ \A a, b \in new : a = b
        /\ Calm /\ by \in stay /\ IsSteward(list[by], by)
        /\ epoch' = e /\ members' = stay \cup new
        /\ behind' = (behind \cap stay) \cup (stay \ on)
    BY <1>3 DEF CommitFacts
  <1>5. /\ w.list = Renewed(by, gone, new)
        /\ \A n \in new : \/ list'[n] = NoList
                          \/ Acceptable(w, stay \cup new, e) /\ list'[n] = SyncedList(w)
        /\ \A n \in stay : list'[n] = IF n \in on THEN Renewed(n, gone, new) ELSE list[n]
    BY <1>3 DEF CommitFacts
  <1>6. /\ joined' = [n \in Leaves |-> IF n \in on THEN Known(n, gone, new)
                                       ELSE [m \in Leaves |-> 0]]
        /\ elections' = {[v EXCEPT !.unheard = @ \cap stay] : v \in elections}
        /\ syncs' = {}
    BY <1>3 DEF CommitFacts
  <1>7. PICK l \in ListType : \A n \in members : list[n] \in {NoList, l}
    BY <1>4, CalmIsUniform
  <1>8. list[by] = l /\ l # NoList
    BY <1>4, <1>7, NoListFacts
  <1>9. on = stay
    <2>1. \A n \in stay : Authorises(n, by)  BY <1>4, <1>7, <1>8 DEF Authorises
    <2> QED  BY <2>1 DEF Followers
  <1>10. NobodyBehind'
    <2>1. behind = {}  BY DEF ListInv, NobodyBehind
    <2> QED  BY <2>1, <1>4, <1>9 DEF NobodyBehind
  <1>11. /\ epoch \in Nat /\ e \in Nat /\ stay \in SUBSET Leaves /\ stay \cup new \in SUBSET Leaves
         /\ \A n, m \in Leaves : joined[n][m] \in Nat /\ joined[n][m] <= epoch
    BY <1>1 DEF ListInv, ListsTyped, Knowledge
  <1>12. \A n \in stay, m \in Leaves :
           joined'[n][m] = IF m \in new THEN e ELSE IF m \in gone THEN 0 ELSE joined[n][m]
    BY <1>6, <1>9, <1>11 DEF Known
  <1>13. \A n \in Leaves \ stay, m \in Leaves : joined'[n][m] = 0
    BY <1>6, <1>9
  <1> HIDE DEF stay, on
  <1>14. \A n \in stay, m \in Leaves : m \notin new => joined'[n][m] < e
    BY <1>11, <1>12
  <1>15. Newcomers' = new
    <2>1. \A m \in stay \cup new, n \in stay \cup new : joined'[n][m] = e => m \in new
      BY <1>11, <1>13, <1>14
    <2>2. \A m \in new : joined'[by][m] = e  BY <1>4, <1>12
    <2> QED  BY <2>1, <2>2, <1>4 DEF Newcomers
  <1>16. Settlers' = stay  BY <1>4, <1>15 DEF Settlers
  <1>17. Knowledge'
    <2>1. \A n, m \in Leaves : joined'[n][m] <= e
      BY <1>11, <1>12, <1>13, <1>14
    <2>2. \A n \in stay, m \in new : joined'[n][m] = e  BY <1>12
    <2>3. \A n \in new, m \in Leaves : joined'[n][m] < e
      BY <1>4, <1>11, <1>13
    <2> QED  BY <2>1, <2>2, <2>3, <1>4, <1>15, <1>16 DEF Knowledge
  <1>18. \A v \in elections' : v.unheard = {} /\ v.result # "open"
    <2> SUFFICES ASSUME NEW x \in elections'  PROVE x.unheard = {} /\ x.result # "open"
      OBVIOUS
    <2>1. PICK v \in elections : x = [v EXCEPT !.unheard = v.unheard \cap stay]
      BY <1>6
    <2>2. IsElection(v, members)  BY <1>1 DEF ListsTyped
    <2>3. x.unheard = v.unheard \cap stay /\ x.result = v.result
      BY <2>1, <2>2, ElectionFields
    <2>4. v.unheard = {}  BY <1>4 DEF Calm
    <2>5. v.result # "open"
      BY <2>4 DEF ListInv, Ballots, Knowledge, Settlers
    <2> QED  BY <2>3, <2>4, <2>5
  <1>19. Ballots'  BY <1>18 DEF Ballots
  <1> DEFINE l2 == Reconciled(l, stay \cup new, Known(by, gone, new), e)
  <1>20. ASSUME NEW n \in stay
         PROVE  Renewed(n, gone, new) = IF list[n] = NoList THEN NoList ELSE l2
    <2>1. CASE list[n] = NoList
      <3>1. Renewed(n, gone, new) = NoList
        BY <2>1, NoListFacts DEF Renewed, Reconciled
      <3> QED  BY <2>1, <3>1
    <2>2. CASE list[n] # NoList
      <3>1. list[n] = l  BY <2>2, <1>7 DEF stay
      <3>2. ASSUME NEW k \in stay
            PROVE  Settled(stay \cup new, Known(k, gone, new), e) = stay
        <4>1. \A m \in Leaves : Known(k, gone, new)[m]
                = IF m \in new THEN e ELSE IF m \in gone THEN 0 ELSE joined[k][m]
          BY DEF Known
        <4>2. \A m \in stay : Known(k, gone, new)[m] < e
          BY <4>1, <1>4, <1>11
        <4>3. \A m \in new : ~(Known(k, gone, new)[m] < e)
          BY <4>1, <1>11
        <4> QED  BY <4>2, <4>3, <1>4 DEF Settled
      <3>3. Settled(stay \cup new, Known(n, gone, new), e)
              = Settled(stay \cup new, Known(by, gone, new), e)
        BY <3>2, <1>4
      <3>4. Renewed(n, gone, new) = Reconciled(l, stay \cup new, Known(n, gone, new), e)
        BY <3>1 DEF Renewed, stay
      <3>5. Reconciled(l, stay \cup new, Known(n, gone, new), e) = l2
        BY <3>3 DEF Reconciled
      <3> QED  BY <2>2, <3>4, <3>5
    <2> QED  BY <2>1, <2>2
  <1>21. l2 \in ListType  BY <1>11, ReconciledType
  <1>22. w.list = l2  BY <1>4, <1>5, <1>8, <1>20
  <1> HIDE DEF l2
  <1>23. \A n \in stay : list'[n] \in {NoList, l2}  BY <1>5, <1>9, <1>20
  <1>24. \A n \in new : list'[n] \in {NoList, l2}
    <2>1. Acceptable(w, stay \cup new, e) => SyncedList(w) = l2
      BY <1>11, <1>21, <1>22, SyncedSame
    <2> QED  BY <2>1, <1>5
  <1>25. PICK z \in ListType : z = l2  BY <1>21
  <1>26. Uniform(z)'
    BY <1>4, <1>6, <1>18, <1>23, <1>24, <1>25 DEF Uniform
  <1> QED  BY <1>10, <1>17, <1>19, <1>26 DEF OneList

LEMMA ListInvInit == HashTyped /\ Init => ListInv
  <1> SUFFICES ASSUME HashTyped, Init  PROVE ListInv  OBVIOUS
  <1> DEFINE l == Installed(Founders, 1, 0)
  <1>1. ListsTyped  BY ListsTypedInit
  <1>2. l \in ListType  BY InstalledFacts, SyncAssumption
  <1> HIDE DEF l
  <1>3. /\ members = Founders /\ behind = {} /\ elections = {} /\ syncs = {} /\ epoch = 1
        /\ joined = [n \in Leaves |-> [m \in Leaves |-> 0]]
        /\ \A n \in members : list[n] = l
    BY SyncAssumption DEF Init, l
  <1>4. Newcomers = {}
    <2>1. \A n, m \in Leaves : joined[n][m] = 0  BY <1>3
    <2>2. \A n, m \in members : joined[n][m] # epoch  BY <2>1, <1>3, SyncAssumption
    <2> QED  BY <2>2 DEF Newcomers
  <1>5. Knowledge
    <2>1. \A n, m \in Leaves : joined[n][m] <= epoch  BY <1>3
    <2> QED  BY <2>1, <1>3, <1>4, SyncAssumption DEF Knowledge, Settlers
  <1>6. Ballots  BY <1>3 DEF Ballots
  <1>7. Uniform(l)  BY <1>3 DEF Uniform
  <1> QED  BY <1>1, <1>2, <1>3, <1>5, <1>6, <1>7 DEF ListInv, NobodyBehind, OneList

LEMMA ListInvStep ==
  ASSUME HashTyped, Prompt, ~RefreshAnyTime, ListInv, [Next]_vars
  PROVE  ListInv'
  <1>1. ListsTyped'  BY ListsTypedStep DEF ListInv
  <1>2. ASSUME UNCHANGED <<tree, joined>>, Ballots' /\ OneList'
        PROVE  ListInv'
    <2>1. Knowledge'  BY <1>2, SameWorld DEF ListInv
    <2>2. NobodyBehind'  BY <1>2 DEF ListInv, NobodyBehind, tree
    <2> QED  BY <2>1, <2>2, <1>1, <1>2 DEF ListInv
  <1>3. ASSUME UNCHANGED <<tree, list, joined, elections>>,
               \A d \in syncs' : d \in syncs \/ \E m \in members : d \in Shared(m, list[m])
        PROVE  ListInv'
    <2>1. Ballots' /\ OneList'  BY <1>3, WireKeepsList
    <2> QED  BY <2>1, <1>2, <1>3
  <1>4. ASSUME NEW by, NEW gone, NEW joins, NEW boot, Commit(by, gone, joins, boot)
        PROVE  ListInv'
    BY <1>1, <1>4, CommitKeepsList DEF ListInv
  <1>5. ASSUME NEW n, NEW refresh \in BOOLEAN, NEW out, Elect(n, refresh, out)
        PROVE  ListInv'
    <2>1. UNCHANGED <<tree, joined>>  BY <1>5 DEF Elect, views
    <2> QED  BY <2>1, <1>2, <1>5, ElectKeepsList
  <1>6. ASSUME NEW v \in elections, NEW result \in {"yes", "no"}, Conclude(v, result)
        PROVE  ListInv'
    <2>1. UNCHANGED <<tree, joined>>  BY <1>6 DEF Conclude, views
    <2> QED  BY <2>1, <1>2, <1>6, ConcludeKeepsList
  <1>7. ASSUME NEW v \in elections, NEW n \in members, HearOutcome(n, v)
        PROVE  ListInv'
    <2>1. UNCHANGED <<tree, joined>>  BY <1>7 DEF HearOutcome
    <2> QED  BY <2>1, <1>2, <1>7, HearOutcomeKeepsList
  <1>8. ASSUME SilentRound  PROVE ListInv'
    BY <1>3, <1>8 DEF SilentRound
  <1>9. ASSUME NEW n, NEW reached, RequestSync(n, reached)  PROVE ListInv'
    <2>1. /\ reached \subseteq members /\ UNCHANGED <<tree, list, joined, elections>>
          /\ syncs' = syncs \cup UNION {Shared(m, list[m]) : m \in {k \in reached : Leads(k, list[k])}}
      BY <1>9 DEF RequestSync, Backers, views
    <2> QED  BY <2>1, <1>3
  <1>10. ASSUME NEW n, WindowOver(n)  PROVE ListInv'
    BY <1>3, <1>10 DEF WindowOver, views
  <1>11. ASSUME NEW n, ResendSync(n) \/ Share(n)  PROVE ListInv'
    <2>1. /\ n \in members /\ UNCHANGED <<tree, list, joined, elections>>
          /\ syncs' = syncs \/ syncs' = syncs \cup Shared(n, list[n])
      BY <1>11 DEF ResendSync, Share, views, ListInv, ListsTyped
    <2> QED  BY <2>1, <1>3
  <1>12. ASSUME NEW d \in syncs, HearSync(d.to, d.sync)  PROVE ListInv'
    <2>1. UNCHANGED <<tree, joined>>  BY <1>12 DEF HearSync
    <2> QED  BY <2>1, <1>2, <1>12, HearSyncKeepsList
  <1>13. ASSUME UNCHANGED vars  PROVE ListInv'
    BY <1>3, <1>13 DEF vars, views
  <1> QED  BY <1>4, <1>5, <1>6, <1>7, <1>8, <1>9, <1>10, <1>11, <1>12, <1>13
           DEF Next, Commits, Voting, Syncing

LEMMA ListInvariant ==
  ASSUME HashTyped, Prompt, ~RefreshAnyTime
  PROVE  Spec => []ListInv
  <1>1. Init => ListInv  BY ListInvInit
  <1>2. ListInv /\ [Next]_vars => ListInv'  BY ListInvStep
  <1> QED  BY <1>1, <1>2, PTL DEF Spec

\* One list for everybody, in every group: whoever holds a list in force and
\* waits for no outcome holds the same list as everybody else who does, however
\* many elections, refreshes, joins and syncs there were before
\* (reconcile_steward_list, handle_election_accepted, on_conversation_sync).
THEOREM OneStewardList ==
  ASSUME HashTyped, Prompt, ~RefreshAnyTime
  PROVE  Spec => []StewardListsAgree
  <1>1. ASSUME ListInv  PROVE StewardListsAgree
    <2> SUFFICES ASSUME NEW a \in members, NEW b \in members, ~Settling(a), ~Settling(b)
                 PROVE  list[a] = list[b]
      BY DEF StewardListsAgree
    <2>1. PICK l \in ListType : Uniform(l) \/ Everywhere(l) \/ Lagging(l)
      BY <1>1 DEF ListInv, OneList
    <2>2. ASSUME NEW n \in members, ~Settling(n)  PROVE list[n] = l
      <3>1. list[n] # NoList /\ ~Exhausted(list[n], epoch)
        BY <2>2, StaleList DEF Settling
      <3>2. ~Awaits(n, l)  BY <2>2 DEF Settling, InFlight, Awaits
      <3> QED  BY <3>1, <3>2, <2>1 DEF Uniform, Everywhere, Lagging
    <2> QED  BY <2>2
  <1> QED  BY <1>1, ListInvariant, PTL

\* Every commit is followed by every member: whoever commits as a steward by its
\* own list is one by the list of everybody who has one
\* (check_commit_sender_authorized).
THEOREM NobodyLeftBehind ==
  ASSUME HashTyped, Prompt, ~RefreshAnyTime
  PROVE  Spec => []NobodyBehind
  <1>1. ListInv => NobodyBehind  BY DEF ListInv
  <1> QED  BY <1>1, ListInvariant, PTL


==============================================================================
