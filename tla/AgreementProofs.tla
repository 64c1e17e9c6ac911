--------------------------- MODULE AgreementProofs ---------------------------
(***************************************************************************)
(* The timing of CommitRound: for every group, set of changes that leaves  *)
(* the stewards in place for the term of their list (TermAssumption) and   *)
(* windows above the network bound, the members of a group close a round   *)
(* on the same candidates, so they merge the same commits, miss no round   *)
(* and carry out a vote in bounded time.  Nothing is said of what follows  *)
(* an election.                                                            *)
(*                                                                         *)
(* A round goes through two phases.  While the group gathers, everybody is *)
(* Working and the outcomes of the votes arrive; once somebody freezes all *)
(* of them have arrived and the group is in a round until its last member  *)
(* merged.  In a round every member that may mint does so once, within     *)
(* Delta of the first freeze, and its candidate is everywhere within       *)
(* another Delta, before any window closes.                                *)
(***************************************************************************)
EXTENDS CommitRoundProofs, StewardListLemmas

\* The configuration the timing argument is for: votes end away from freezes,
\* full rounds of one commit each, no repeated copies, and windows that cover the
\* network bound.  That the stewards stay for the term is TermAssumption.
Timely ==
  /\ Quiet /\ ~MayRecover /\ ~MayResend /\ ~AllowSubset
  /\ Delta < CommitBatchWindow /\ 2 * Delta < FreezeDuration
  /\ Cardinality(Changes) <= BatchMax
  /\ Hashed(1, 0, Members)

------------------------------------------------------------------------------
\* The round as the group sees it

\* n has work to commit; n has it and did not freeze for it yet
Open(n)  == n \in Online /\ approved[n].entries # {}
Waits(n) == Open(n) /\ state[n] = "Working"

\* What n is to commit, and the outcomes on their way to it
Due(n)     == ChangesOf(approved[n])
Heading(n) == {o.what : o \in {p \in outcomes : p.to = n}}

\* The candidates n holds or will have received, once nothing is on the wire
Inbox(n) == {x.cand : x \in {y \in wire : y.to = n}}
View(n)  == round[n] \cup Inbox(n)

\* Who mints in n's round, that what they mint can win, and what does
Minters(n)  == {s \in Online : IsSteward(List, s) /\ Remove(s) \notin Due(n)}
Winnable(n) == Cardinality(Due(n)) <= BatchMax /\ Minters(n) # {}
Chosen(n)   == Earliest(Best({Ranked(c) : c \in View(n)}, StewardNow(n)))

\* Somebody froze for the changes of this round and somebody did not merge yet
Started ==
  \/ wire # {}
  \/ \E n \in Online : state[n] # "Working"
  \/ \E m, n \in Online : chain[m] # chain[n]

\* Every decided change is at every member in exactly one place: merged, queued
\* or on its way
WorkOf(n) ==
  /\ decided = CarriedBy(chain[n]) \cup Due(n) \cup Heading(n)
  /\ Due(n) \cap CarriedBy(chain[n]) = {}
  /\ Heading(n) \cap (Due(n) \cup CarriedBy(chain[n])) = {}

\* The entries of a queue are in order of arrival and no change is there twice
InOrder(q) ==
  /\ \A e, f \in q.entries : e.at = f.at \/ e.change = f.change => e = f
  /\ \A e \in q.entries : e.at < q.next

WorkInv ==
  /\ decided \subseteq Changes
  /\ \A o \in outcomes : o.to \in Online
  /\ \A o, p \in outcomes : o.to = p.to /\ o.what = p.what => o = p
  /\ \A n \in Online : WorkOf(n) /\ InOrder(approved[n])

\* A member that is not in a freeze holds nothing, a timer runs exactly when
\* there is work, and nothing is older than the window it waits for
Resting(n) ==
  /\ round[n] = {} /\ pending[n] = {}
  /\ timer[n] = Off <=> approved[n].entries = {}
  /\ timer[n] <= CommitBatchWindow

IdleInv ==
  /\ \A n \in Members : early[n] = {}
  /\ \A n \in left : state[n] = "Working"
  /\ \A n \in Online :
       /\ state[n] = "Working" => Resting(n)
       /\ state[n] # "Working" => approved[n].entries # {}
       /\ state[n] = "Freezing" => timer[n] \in 0..FreezeDuration
  /\ \A x \in wire : x.age <= Delta /\ Open(x.to)
  /\ \A o \in outcomes : o.age <= Delta

\* Gathering: the timers of two members differ by no more than Delta, where a
\* member that does not run one has an outcome coming that is as old, and no
\* timer is close to its window while an outcome is on its way
Near(m, n) ==
  timer[n] # Off =>
    IF timer[m] = Off THEN \E o \in outcomes : o.to = m /\ timer[n] <= o.age
                      ELSE timer[n] <= timer[m] + Delta

GatherInv ==
  /\ \A m, n \in Online : Near(m, n)
  /\ \A o \in outcomes : \A n \in Online : timer[n] + Delta < CommitBatchWindow + o.age

\* In a round: one candidate per minter, for this round, seen by everybody from
\* the moment it is minted
OneEach(n) ==
  /\ \A c \in View(n) : c.from \in Minters(n) /\ c.parent = chain[n] /\ c.batch = Due(n)
  /\ \A m \in Online : Open(m) => \A c \in View(n), d \in View(m) : c.from = d.from => c = d
  /\ \A s \in Minters(n) : Waits(s) <=> \A c \in View(n) : c.from # s
  /\ \A x, y \in wire : x.to = n /\ y.to = n =>
                          x.cand \notin round[n] /\ (x.cand = y.cand => x = y)

\* and the clocks: whoever waits freezes within Delta of the first freeze, and
\* no copy is older than the freeze of its receiver by more than Delta
OnTime(n) ==
  /\ state[n] = "Working" => CommitBatchWindow <= timer[n] + Delta
  /\ state[n] = "Freezing" =>
       /\ \A m \in Online : Waits(m) => timer[n] + CommitBatchWindow <= timer[m] + Delta
       /\ \A x \in wire : x.to = n => timer[n] <= x.age + Delta

Win(n) == state[n] # "Reelection" /\ OneEach(n) /\ OnTime(n)

RoundPhase ==
  /\ outcomes = {}
  /\ \A m, n \in Online : Open(m) /\ Open(n) => chain[m] = chain[n]
  /\ \A n \in Online : Open(n) => Win(n)

\* Every minter minted, so what wins n's round is settled
Decisive(n) == Open(n) /\ \A s \in Minters(n) : ~Waits(s)

\* Everybody is at a point of n's history, or one commit ahead of n, with the
\* commit that n is going to choose
Along(k, n) ==
  \/ IsPrefixOf(chain[k], chain[n])
  \/ /\ Started /\ Decisive(n)
     /\ \E w \in Chosen(n) : chain[k] = Append(chain[n], Commit(w))

ChainInv == \A n \in Online, k \in Members : Along(k, n)

Rounds ==
  /\ Agreement /\ WorkInv /\ IdleInv /\ ChainInv
  /\ ~Started => GatherInv
  /\ Started => RoundPhase

\* What CommitRoundProofs shows of every configuration without recovery, and that
\* there always is a steward to mint all that is due
Basics ==
  /\ TypeOK /\ CandidateInv /\ RemovedLeft /\ StewardsOwn /\ NormalInv
  /\ \A n \in Online : Winnable(n)

------------------------------------------------------------------------------
\* Queues

LEMMA MemberFields ==
  ASSUME TypeOK, NEW n \in Members
  PROVE  /\ state[n] \in {"Working", "Freezing", "Reelection"}
         /\ timer[n] \in Nat \cup {Off} /\ minted[n] \in Nat
         /\ approved[n] \in QueueType /\ chain[n] \in Seq(CommitType)
         /\ round[n] \in SUBSET CandType /\ pending[n] \in SUBSET CandType
  <1>1. MintType /\ PhaseType /\ GroupType  BY TypeParts
  <1> QED  BY <1>1 DEF MintType, PhaseType, GroupType

LEMMA WindowFields ==
  /\ Delta \in Nat /\ CommitBatchWindow \in Nat /\ FreezeDuration \in Nat \ {0}
  /\ BatchMax \in Nat \ {0} /\ Horizon \in Nat
  /\ CommitBatchWindow <= Horizon /\ FreezeDuration <= Horizon
  BY WindowAssumption

\* A queue in order has as many entries as changes.
LEMMA CountIsCardinality ==
  ASSUME NEW q \in QueueType, IsFiniteSet(q.entries), InOrder(q)
  PROVE  /\ IsFiniteSet(ChangesOf(q))
         /\ CountOf(q) = Cardinality(ChangesOf(q))
         /\ Cardinality(ChangesOf(q)) \in Nat
         /\ q.entries = {} <=> ChangesOf(q) = {}
  <1> DEFINE E == q.entries
             C == ChangesOf(q)
             f == [e \in E |-> e.change]
  <1>1. f \in [E -> C] /\ \A e, g \in E : f[e] = f[g] => e = g
    BY DEF ChangesOf, InOrder
  <1>2. \A c \in C : \E e \in E : f[e] = c  BY DEF ChangesOf
  <1>3. E = {} <=> C = {}  BY DEF ChangesOf
  <1> HIDE DEF E, C, f
  <1>4. f \in Bijection(E, C)  BY <1>1, <1>2 DEF Bijection, Injection, Surjection, IsInjective
  <1>5. IsFiniteSet(E)  BY DEF E
  <1>6. IsFiniteSet(C) /\ Cardinality(C) = Cardinality(E)
    BY <1>4, <1>5, FS_Bijection DEF ExistsBijection
  <1> QED  BY <1>3, <1>6, FS_CardinalityType DEF E, C, CountOf

\* A change that was not merged can still be.
LEMMA UncarriedIsActionable ==
  ASSUME NEW h \in Seq(CommitType), NEW c \in Changes, c \notin CarriedBy(h)
  PROVE  Actionable(c, MembersAfter(h))
  <1>1. \A i \in DOMAIN h : h[i].batch \subseteq Changes
    <2>1. \A i \in DOMAIN h : h[i] \in CommitType  OBVIOUS
    <2> QED  BY <2>1 DEF CommitType
  <1>2. CarriedBy(h) \subseteq Changes  BY <1>1 DEF CarriedBy
  <1>3. /\ c \in [op : {"Add", "Remove"}, id : Nat \ {0}]
        /\ c = Add(c.id) \/ c = Remove(c.id)
        /\ Actionable(c, Members)
    BY ChangeFields
  <1>4. MembersAfter(h) = (Members \cup {d.id : d \in {e \in CarriedBy(h) : e.op = "Add"}})
                            \ {d.id : d \in {e \in CarriedBy(h) : e.op = "Remove"}}
    BY DEF MembersAfter, CarriedBy
  <1>5. \A d \in CarriedBy(h) : /\ d.op = "Add" => d = Add(d.id)
                                /\ d.op = "Remove" => d = Remove(d.id)
                                /\ Actionable(d, Members)
    BY <1>2, ChangeFields DEF Add, Remove
  <1>6. CASE c.op = "Add"
    <2>1. c.id \notin Members /\ c = Add(c.id)  BY <1>3, <1>6 DEF Actionable, Add, Remove
    <2>2. \A d \in CarriedBy(h) : d.op = "Add" => d.id # c.id  BY <1>5, <2>1
    <2> QED  BY <1>4, <1>6, <2>1, <2>2 DEF Actionable
  <1>7. CASE c.op = "Remove"
    <2>1. c.id \in Members /\ c = Remove(c.id)  BY <1>3, <1>7 DEF Actionable, Add, Remove
    <2>2. \A d \in CarriedBy(h) : d.op = "Remove" => d.id # c.id  BY <1>5, <2>1
    <2> QED  BY <1>4, <1>7, <2>1, <2>2 DEF Actionable
  <1> QED  BY <1>3, <1>6, <1>7

\* A short queue is taken whole, a long one is not.
LEMMA FirstOfTakes ==
  ASSUME NEW q \in QueueType, IsFiniteSet(q.entries), InOrder(q), NEW k \in Nat \ {0}
  PROVE  /\ Cardinality(q.entries) <= k => FirstOf(q, k) = q.entries
         /\ Cardinality(q.entries) > k => FirstOf(q, k) # q.entries
  <1> DEFINE E == q.entries
             below(e) == {f \in E : f.at < e.at}
  <1>0. /\ Cardinality(E) \in Nat /\ q.next \in Nat
        /\ \A e \in E : e.at \in Nat /\ e.at < q.next
    BY FS_CardinalityType DEF QueueType, EntryType, InOrder
  <1>1. FirstOf(q, k) = {e \in E : Cardinality(below(e)) < k}  BY DEF FirstOf
  <1>2. \A e \in E : below(e) \subseteq E \ {e}  BY <1>0
  <1>3. \A e \in E : IsFiniteSet(E \ {e}) /\ Cardinality(E \ {e}) = Cardinality(E) - 1
    BY FS_RemoveElement
  <1>4. \A e \in E : /\ IsFiniteSet(below(e)) /\ Cardinality(below(e)) \in Nat
                     /\ Cardinality(below(e)) <= Cardinality(E) - 1
    <2> TAKE e \in E
    <2> DEFINE B == below(e)
               R == E \ {e}
    <2>1. B \subseteq R /\ IsFiniteSet(R) /\ Cardinality(R) = Cardinality(E) - 1
      BY <1>2, <1>3
    <2> HIDE DEF B, R
    <2>2. IsFiniteSet(B) /\ Cardinality(B) <= Cardinality(R)  BY <2>1, FS_Subset
    <2> QED  BY <2>1, <2>2, FS_CardinalityType DEF B
  <1>5. CASE Cardinality(E) <= k
    <2>1. \A e \in E : Cardinality(below(e)) < k
      <3> TAKE e \in E
      <3> DEFINE j == Cardinality(below(e))
      <3>1. j \in Nat /\ j <= Cardinality(E) - 1  BY <1>4
      <3> HIDE DEF j
      <3>2. j < k  BY <1>0, <1>5, <3>1
      <3> QED  BY <3>2 DEF j
    <2> QED  BY <1>0, <1>1, <1>5, <2>1
  <1>6. CASE Cardinality(E) > k
    <2> DEFINE H == {q.next - e.at : e \in E}
    <2>1. H \subseteq Nat  BY <1>0
    <2>2. E # {}  BY <1>0, <1>6, FS_EmptySet
    <2>3. H # {}  BY <2>2
    <2>4. PICK j \in H : \A i \in H : j <= i
      <3> HIDE DEF H
      <3> QED  BY <2>1, <2>3, Least
    <2>5. PICK e \in E : j = q.next - e.at  BY <2>4
    <2>6. \A f \in E : q.next - e.at <= q.next - f.at  BY <2>4, <2>5
    <2>7. \A f \in E : f.at <= e.at
      <3> TAKE f \in E
      <3>1. q.next - e.at <= q.next - f.at  BY <2>6
      <3>2. e.at \in Nat /\ f.at \in Nat /\ q.next \in Nat  BY <1>0, <2>5
      <3> QED  BY <3>1, <3>2
    <2>8. \A f \in E : f # e => f.at < e.at
      <3> TAKE f \in E
      <3>1. f.at <= e.at /\ f.at \in Nat /\ e.at \in Nat  BY <1>0, <2>5, <2>7
      <3>2. f.at = e.at => f = e  BY <2>5 DEF InOrder
      <3> QED  BY <3>1, <3>2
    <2>9. below(e) = E \ {e}  BY <1>2, <2>5, <2>8
    <2>10. ~(Cardinality(below(e)) < k)  BY <1>0, <1>3, <1>6, <2>5, <2>9
    <2> QED  BY <1>0, <1>1, <1>6, <2>5, <2>10
  <1> QED  BY <1>0, <1>5, <1>6

\* What a member mints is all that is due, or not, by the size of the queue alone.
LEMMA BatchByCount ==
  ASSUME Basics, WorkInv, NEW n \in Online
  PROVE  /\ IsFiniteSet(Due(n)) /\ Cardinality(Due(n)) \in Nat
         /\ CountOf(approved[n]) = Cardinality(Due(n))
         /\ approved[n].entries = {} <=> Due(n) = {}
         /\ MintedBatch(approved[n], 0, Group(n), BatchMax) = Due(n)
              <=> Cardinality(Due(n)) <= BatchMax
  <1> DEFINE q == approved[n]
             F == FirstOf(q, BatchMax)
             b == MintedBatch(q, 0, Group(n), BatchMax)
  <1>0. n \in Members  BY OnlineMembers
  <1>1. /\ q \in QueueType /\ IsFiniteSet(q.entries) /\ InOrder(q)
        /\ chain[n] \in Seq(CommitType) /\ BatchMax \in Nat \ {0}
    BY <1>0, MemberFields, WindowFields DEF Basics, CandidateInv, QueueInv, WorkInv
  <1>2. /\ IsFiniteSet(Due(n)) /\ Cardinality(Due(n)) \in Nat
        /\ CountOf(q) = Cardinality(Due(n)) /\ Cardinality(q.entries) = Cardinality(Due(n))
        /\ q.entries = {} <=> Due(n) = {}
    BY <1>1, CountIsCardinality DEF Due, CountOf
  <1>3. \A c \in Due(n) : c \in Changes /\ c \notin CarriedBy(chain[n])
    BY DEF WorkInv, WorkOf
  <1>4. \A c \in Due(n) : Actionable(c, Group(n))
    BY <1>1, <1>3, UncarriedIsActionable DEF Group
  <1>5. F \subseteq q.entries  BY DEF FirstOf
  <1>6. b = {e.change : e \in F}
    BY <1>4, <1>5 DEF MintedBatch, Due, ChangesOf
  <1>7. b = Due(n) <=> F = q.entries
    <2>1. F = q.entries => b = Due(n)  BY <1>6 DEF Due, ChangesOf
    <2>2. ASSUME b = Due(n), NEW e \in q.entries  PROVE e \in F
      <3>1. e.change \in b  BY <2>2 DEF Due, ChangesOf
      <3>2. PICK f \in F : f.change = e.change  BY <1>6, <3>1
      <3> QED  BY <1>1, <1>5, <3>2 DEF InOrder
    <2> QED  BY <1>5, <2>1, <2>2
  <1>8. F = q.entries <=> Cardinality(q.entries) <= BatchMax
    BY <1>1, <1>2, FirstOfTakes
  <1> QED  BY <1>2, <1>7, <1>8


------------------------------------------------------------------------------
\* The minters of a round

LEMMA ListElected ==
  ASSUME Timely
  PROVE  /\ Elected(List) /\ List.pool = Members /\ List.epoch = 1
         /\ ListLen(List) \in Nat \ {0}
         /\ IsFiniteSet({m \in Members : IsSteward(List, m)})
         /\ Cardinality({m \in Members : IsSteward(List, m)}) = ListLen(List)
  <1>1. List.pool = Members /\ List.epoch = 1 /\ List.round = 0  BY DEF List
  <1>2. Elected(List)  BY <1>1, MembersAssumption DEF Elected, Timely
  <1>3. ListLen(List) \in Nat \ {0}  BY <1>2, ListLenRange
  <1> DEFINE k == ListLen(List)
             S == {m \in Members : IsSteward(List, m)}
             f == [i \in 1..k |-> Stewards(List)[i]]
  <1>4. /\ \A i \in 1..k : f[i] \in S
        /\ \A m \in S : \E i \in 1..k : f[i] = m
        /\ \A i, j \in 1..k : f[i] = f[j] => i = j
    BY <1>1, <1>2, StewardsAt
  <1>5. f \in [1..k -> S]  BY <1>4
  <1> HIDE DEF f, S
  <1>6. f \in Bijection(1..k, S)  BY <1>4, <1>5 DEF Bijection, Injection, Surjection, IsInjective
  <1>7. k \in Nat /\ 1..k = 1..k  BY <1>3
  <1>8. IsFiniteSet(1..k) /\ Cardinality(1..k) = k
    <2>1. 1 \in Int /\ k \in Int /\ ~(1 > k) /\ k - 1 + 1 = k  BY <1>3
    <2> HIDE DEF k
    <2> QED  BY <2>1, FS_Interval
  <1>9. IsFiniteSet(S) /\ Cardinality(S) = k
    BY <1>6, <1>8, FS_Bijection DEF ExistsBijection
  <1> QED  BY <1>1, <1>2, <1>3, <1>9 DEF S

\* In a round the members that did not merge yet agree on everything but time.
LEMMA SameDue ==
  ASSUME WorkInv, RoundPhase, NEW m \in Online, NEW n \in Online, Open(m), Open(n)
  PROVE  /\ chain[m] = chain[n] /\ Due(m) = Due(n) /\ Due(n) = decided \ CarriedBy(chain[n])
         /\ Minters(m) = Minters(n)
         /\ StewardNow(m) = StewardNow(n)
  <1>1. chain[m] = chain[n] /\ Heading(m) = {} /\ Heading(n) = {}
    BY DEF RoundPhase, Heading
  <1>2. Due(m) = decided \ CarriedBy(chain[m]) /\ Due(n) = decided \ CarriedBy(chain[n])
    BY <1>1 DEF WorkInv, WorkOf
  <1>3. Due(m) = Due(n)  BY <1>1, <1>2
  <1>4. Minters(m) = Minters(n)  BY <1>3 DEF Minters
  <1>5. \A k : HasRemoval(approved[m], k) <=> HasRemoval(approved[n], k)
    BY <1>3 DEF HasRemoval, Due
  <1>6. StewardNow(m) = StewardNow(n)  BY <1>1, <1>5 DEF StewardNow, Epoch, Group
  <1> QED  BY <1>1, <1>2, <1>3, <1>4, <1>6

\* Whoever has nothing to do in a round merged everything.
LEMMA DoneIsAhead ==
  ASSUME WorkInv, RoundPhase, NEW m \in Online, NEW n \in Online, Open(n), ~Open(m)
  PROVE  chain[m] # chain[n]
  <1>1. Heading(m) = {} /\ Heading(n) = {}  BY DEF RoundPhase, Heading
  <1>2. Due(m) = {}  BY DEF Open, Due, ChangesOf
  <1>3. Due(n) # {}  BY DEF Open, Due, ChangesOf
  <1>4. CarriedBy(chain[m]) = decided
    <2>1. decided = CarriedBy(chain[m]) \cup Due(m) \cup Heading(m)  BY DEF WorkInv, WorkOf
    <2> QED  BY <1>1, <1>2, <2>1
  <1>5. Due(n) \subseteq decided /\ Due(n) \cap CarriedBy(chain[n]) = {}  BY DEF WorkInv, WorkOf
  <1> QED  BY <1>3, <1>4, <1>5

\* A history of commits of a finite group leaves a finite group.
LEMMA GroupFinite ==
  ASSUME NEW h \in Seq(CommitType)
  PROVE  IsFiniteSet(MembersAfter(h)) /\ Cardinality(MembersAfter(h)) \in Nat
  <1>1. \A i \in DOMAIN h : h[i].batch \subseteq Changes
    <2>1. \A i \in DOMAIN h : h[i] \in CommitType  OBVIOUS
    <2> QED  BY <2>1 DEF CommitType
  <1> DEFINE I == {c.id : c \in Changes}
             f == [c \in Changes |-> c.id]
             all == UNION {h[i].batch : i \in DOMAIN h}
  <1>a. all \subseteq Changes  BY <1>1
  <1>b. MembersAfter(h) \subseteq Members \cup {c.id : c \in {d \in all : d.op = "Add"}}
    BY DEF MembersAfter
  <1> HIDE DEF all
  <1>2. MembersAfter(h) \subseteq Members \cup I  BY <1>a, <1>b
  <1>3. f \in [Changes -> I] /\ \A i \in I : \E c \in Changes : f[c] = i  OBVIOUS
  <1> HIDE DEF f, I
  <1>4. f \in Surjection(Changes, I)  BY <1>3 DEF Surjection
  <1>5. IsFiniteSet(I)  BY <1>4, FS_Surjection, MembersAssumption
  <1>6. IsFiniteSet(Members \cup I)  BY <1>5, FS_Union, MembersAssumption
  <1> QED  BY <1>2, <1>6, FS_Subset, FS_CardinalityType

\* The minters are members of everybody's group and as many as the list at most.
LEMMA MintersFit ==
  ASSUME Timely, Basics, WorkInv, RoundPhase, NEW n \in Online, Open(n)
  PROVE  /\ IsFiniteSet(Minters(n)) /\ Minters(n) \subseteq Group(n)
         /\ Cardinality(Minters(n)) \in Nat /\ Cardinality(Group(n)) \in Nat
         /\ Cardinality(Minters(n)) <= Cardinality(Group(n))
         /\ Cardinality(Minters(n)) <= ListLen(List)
  <1>0. n \in Members /\ chain[n] \in Seq(CommitType)
    BY OnlineMembers, MemberFields DEF Basics
  <1>1. IsFiniteSet(Group(n)) /\ Cardinality(Group(n)) \in Nat  BY <1>0, GroupFinite DEF Group
  <1>2. ASSUME NEW s \in Minters(n)  PROVE s \in Group(n)
    <2>1. s \in Online /\ s \in Members /\ Remove(s) \notin Due(n)  BY OnlineMembers DEF Minters
    <2>2. s \in Group(s)  BY <2>1 DEF Basics, RemovedLeft, Online
    <2>3. chain[s] \in Seq(CommitType)  BY <2>1, MemberFields DEF Basics
    <2>4. Remove(s) \notin CarriedBy(chain[s])  BY <2>1, <2>2, <2>3, StaysUntilRemoved DEF Group
    <2>5. Remove(s) \notin CarriedBy(chain[n])
      <3> SUFFICES ASSUME Remove(s) \in CarriedBy(chain[n])  PROVE FALSE  OBVIOUS
      <3>1. Remove(s) \in decided  BY DEF WorkInv, WorkOf
      <3>2. Heading(s) = {}  BY DEF RoundPhase, Heading
      <3>3. Remove(s) \in Due(s)  BY <2>1, <2>4, <3>1, <3>2 DEF WorkInv, WorkOf
      <3>4. Open(s)  BY <2>1, <3>3 DEF Open, Due, ChangesOf
      <3> QED  BY <2>1, <3>3, <3>4, SameDue
    <2> QED  BY <1>0, <2>1, <2>5, StaysUntilRemoved DEF Group
  <1> DEFINE S == {m \in Members : IsSteward(List, m)}
             M == Minters(n)
             G == Group(n)
  <1>3. M \subseteq S /\ M \subseteq G  BY <1>2, OnlineMembers DEF Minters
  <1>4. IsFiniteSet(S) /\ Cardinality(S) = ListLen(List)  BY ListElected
  <1>5. IsFiniteSet(G)  BY <1>1
  <1> HIDE DEF S, M, G
  <1>6. IsFiniteSet(M) /\ Cardinality(M) <= Cardinality(S) /\ Cardinality(M) <= Cardinality(G)
    BY <1>3, <1>4, <1>5, FS_Subset
  <1>7. Cardinality(M) \in Nat  BY <1>6, FS_CardinalityType
  <1> QED  BY <1>1, <1>3, <1>4, <1>6, <1>7 DEF M, G

------------------------------------------------------------------------------
\* What a round selects

LEMMA ViewType ==
  ASSUME Basics, NEW n \in Members
  PROVE  View(n) \in SUBSET CandType /\ Inbox(n) \in SUBSET CandType
  <1>1. MintType /\ round[n] \in SUBSET CandType  BY TypeParts, MemberFields DEF Basics
  <1>2. Inbox(n) \in SUBSET CandType
    <2>1. \A x \in wire : x.cand \in CandType  BY <1>1, CopyFields
    <2> HIDE DEF CandType
    <2> QED  BY <2>1 DEF Inbox
  <1> HIDE DEF CandType
  <1> QED  BY <1>1, <1>2 DEF View

\* As one candidate comes from a minter, there are as many as senders.
LEMMA OnePerMinter ==
  ASSUME NEW M, IsFiniteSet(M), NEW V, \A c \in V : c.from \in M,
         \A c, d \in V : c.from = d.from => c = d
  PROVE  /\ IsFiniteSet(V) /\ Cardinality(V) \in Nat /\ Cardinality(V) <= Cardinality(M)
         /\ Cardinality(V) = Cardinality(M) => \A s \in M : \E c \in V : c.from = s
  <1> DEFINE F == {c.from : c \in V}
             g == [s \in F |-> CHOOSE c \in V : c.from = s]
  <1>1. F \subseteq M  OBVIOUS
  <1>2. \A s \in F : g[s] \in V /\ g[s].from = s  OBVIOUS
  <1>3. (\A s \in F : \E c \in V : c.from = s) /\ (\A c \in V : c.from \in F)  OBVIOUS
  <1>4. DOMAIN g = F /\ g = [s \in F |-> g[s]]  OBVIOUS
  <1> HIDE DEF F, g
  <1>5. /\ IsFiniteSet(F) /\ Cardinality(F) <= Cardinality(M)
        /\ Cardinality(F) = Cardinality(M) => F = M
    BY <1>1, FS_Subset
  <1>6. g \in Bijection(F, V)
    <2>1. g \in [F -> V]  BY <1>2, <1>4
    <2>2. \A s, t \in F : g[s] = g[t] => s = t  BY <1>2
    <2>3. \A c \in V : \E s \in F : g[s] = c  BY <1>2, <1>3
    <2> QED  BY <2>1, <2>2, <2>3 DEF Bijection, Injection, Surjection, IsInjective
  <1>7. IsFiniteSet(V) /\ Cardinality(V) = Cardinality(F)
    BY <1>5, <1>6, FS_Bijection DEF ExistsBijection
  <1> QED  BY <1>3, <1>5, <1>7, FS_CardinalityType

\* A full buffer has everything: when n's window closes every minter minted and
\* no copy is on its way to n.
LEMMA ReadyHasAll ==
  ASSUME Timely, Basics, WorkInv, IdleInv, RoundPhase,
         NEW n \in Online, Open(n), RoundReady(n)
  PROVE  /\ Inbox(n) = {} /\ round[n] = View(n)
         /\ \A s \in Minters(n) : ~Waits(s)
  <1>0. /\ n \in Members /\ Win(n) /\ mode[n] = "Normal" /\ state[n] = "Freezing"
        /\ timer[n] \in 0..FreezeDuration
    <2>1. n \in Members /\ Win(n) /\ state[n] = "Freezing"
      BY OnlineMembers DEF RoundPhase, RoundReady
    <2> QED  BY <2>1 DEF Basics, NormalInv, IdleInv
  <1>1. timer[n] >= FreezeDuration \/ Cardinality(round[n]) >= ListLen(List)
    BY <1>0 DEF RoundReady
  <1>2. CASE timer[n] >= FreezeDuration
    <2>1. ASSUME NEW x \in wire, x.to = n  PROVE FALSE
      <3>1. timer[n] <= x.age + Delta /\ x.age <= Delta  BY <1>0, <2>1 DEF Win, OnTime, IdleInv
      <3>2. x.age \in Nat  BY CopyFields, TypeParts DEF Basics
      <3> QED  BY <1>0, <1>2, <3>1, <3>2, WindowFields DEF Timely
    <2>2. Inbox(n) = {}  BY <2>1 DEF Inbox
    <2>3. ASSUME NEW s \in Minters(n), Waits(s)  PROVE FALSE
      <3>1. s \in Online /\ s \in Members /\ state[s] = "Working"
        BY <2>3, OnlineMembers DEF Minters, Waits
      <3>2. timer[n] + CommitBatchWindow <= timer[s] + Delta  BY <1>0, <2>3, <3>1 DEF Win, OnTime
      <3>3. timer[s] <= CommitBatchWindow /\ timer[s] \in Int
        BY <3>1, MemberFields DEF IdleInv, Resting, Basics, Off
      <3> QED  BY <1>0, <1>2, <3>2, <3>3, WindowFields DEF Timely
    <2> QED  BY <2>2, <2>3 DEF View
  <1>3. CASE Cardinality(round[n]) >= ListLen(List)
    <2> DEFINE M == Minters(n)
               V == View(n)
               R == round[n]
    <2>1. IsFiniteSet(M) /\ Cardinality(M) \in Nat /\ Cardinality(M) <= ListLen(List)
      BY MintersFit
    <2>2. /\ \A c \in V : c.from \in M
          /\ \A c, d \in V : c.from = d.from => c = d
          /\ \A s \in M : Waits(s) <=> \A c \in V : c.from # s
          /\ \A x \in wire : x.to = n => x.cand \notin R
      BY <1>0 DEF Win, OneEach
    <2>3. R \subseteq V /\ V = R \cup Inbox(n)  BY DEF View
    <2>4. ListLen(List) \in Nat  BY ListElected
    <2>a. \A c \in Inbox(n) : c \notin R  BY <2>2 DEF Inbox
    <2>b. Cardinality(R) >= ListLen(List)  BY <1>3
    <2> HIDE DEF M, V, R
    <2>5. /\ IsFiniteSet(V) /\ Cardinality(V) \in Nat /\ Cardinality(V) <= Cardinality(M)
          /\ Cardinality(V) = Cardinality(M) => \A s \in M : \E c \in V : c.from = s
      BY <2>1, <2>2, OnePerMinter
    <2>6. /\ IsFiniteSet(R) /\ Cardinality(R) <= Cardinality(V)
          /\ Cardinality(R) = Cardinality(V) => R = V
      BY <2>3, <2>5, FS_Subset
    <2>7. Cardinality(R) \in Nat  BY <2>6, FS_CardinalityType
    <2>8. Cardinality(R) = Cardinality(V) /\ Cardinality(V) = Cardinality(M)
      BY <2>1, <2>4, <2>b, <2>5, <2>6, <2>7
    <2>9. R = V /\ \A s \in M : \E c \in V : c.from = s  BY <2>5, <2>6, <2>8
    <2>10. Inbox(n) = {}  BY <2>3, <2>a, <2>9
    <2> QED  BY <2>2, <2>9, <2>10 DEF M, V, R
  <1> QED  BY <1>1, <1>2, <1>3

\* What n selects is then what its view decides.
LEMMA ReadySelects ==
  ASSUME Timely, Basics, WorkInv, IdleInv, RoundPhase,
         NEW n \in Online, Open(n), RoundReady(n)
  PROVE  /\ Fit(n) = View(n) /\ Selected(n) = Chosen(n)
  <1>1. round[n] = View(n)  BY ReadyHasAll
  <1>2. n \in Members /\ mode[n] = "Normal" /\ OneEach(n)
    BY OnlineMembers DEF Basics, NormalInv, RoundPhase, Win
  <1>3. Minters(n) \subseteq Group(n)  BY MintersFit
  <1>4. CountOf(approved[n]) = Cardinality(Due(n))  BY BatchByCount
  <1>5. ASSUME NEW c \in View(n)
        PROVE  /\ Stages(n, c) /\ IsSteward(List, c.from) /\ c.batch = ChangesOf(approved[n])
               /\ Cardinality(c.batch) = CountOf(approved[n])
    <2>1. c.from \in Minters(n) /\ c.parent = chain[n] /\ c.batch = Due(n)  BY <1>2 DEF OneEach
    <2>2. IsSteward(List, c.from)  BY <2>1 DEF Minters
    <2> QED  BY <1>3, <1>4, <2>1, <2>2 DEF Stages, Due
  <1>6. Fit(n) = View(n)  BY <1>1, <1>5 DEF Fit
  <1>7. Selected(n) = Earliest(Best({Ranked(c) : c \in Fit(n)}, StewardNow(n)))
    BY <1>2, SelectedIsBestFit DEF Basics, Timely
  <1> QED  BY <1>6, <1>7 DEF Chosen

\* Two members that wait for no minter see the same candidates.
LEMMA SameChosen ==
  ASSUME WorkInv, RoundPhase, NEW m \in Online, NEW n \in Online, Open(m), Open(n),
         \A s \in Minters(n) : ~Waits(s)
  PROVE  View(m) = View(n) /\ Chosen(m) = Chosen(n)
  <1>1. /\ Minters(m) = Minters(n) /\ StewardNow(m) = StewardNow(n)
    BY SameDue
  <1>2. OneEach(m) /\ OneEach(n)  BY <1>1 DEF RoundPhase, Win
  <1>3. ASSUME NEW c \in View(n)  PROVE c \in View(m)
    <2>1. c.from \in Minters(m)  BY <1>1, <1>2 DEF OneEach
    <2>2. PICK d \in View(m) : d.from = c.from  BY <1>1, <1>2, <2>1 DEF OneEach
    <2> QED  BY <1>2, <2>2 DEF OneEach
  <1>4. ASSUME NEW c \in View(m)  PROVE c \in View(n)
    <2>1. c.from \in Minters(n)  BY <1>1, <1>2 DEF OneEach
    <2>2. PICK d \in View(n) : d.from = c.from  BY <1>1, <1>2, <2>1 DEF OneEach
    <2> QED  BY <1>2, <2>2 DEF OneEach
  <1>5. View(m) = View(n)  BY <1>3, <1>4
  <1> QED  BY <1>1, <1>5 DEF Chosen

\* When every minter minted, something wins.
LEMMA ChosenExists ==
  ASSUME Basics, WorkInv, RoundPhase, NEW n \in Online, Open(n),
         \A s \in Minters(n) : ~Waits(s)
  PROVE  Chosen(n) # {}
  <1> DEFINE V == View(n)
             es == StewardNow(n)
             S == {Ranked(c) : c \in V}
  <1>0. n \in Members /\ OneEach(n) /\ V \in SUBSET CandType
    BY OnlineMembers, ViewType DEF RoundPhase, Win
  <1>1. /\ \A c, d \in V : c.from = d.from => c = d
        /\ \A c \in V : c.batch = Due(n) /\ c.from \in Minters(n)
    BY <1>0 DEF OneEach
  <1>2. V # {}
    <2>1. PICK s \in Minters(n) : TRUE  BY DEF Basics, Winnable
    <2>2. PICK c \in View(n) : c.from = s  BY <1>0, <2>1 DEF OneEach
    <2> QED  BY <2>2
  <1>3. \A c \in V : /\ c.from \in Nat /\ c.nonce \in Nat
                     /\ Ranked(c).from = c.from /\ Ranked(c).batch = Due(n)
                     /\ Ranked(c).nonce = c.nonce
    <2> TAKE c \in V
    <2>1. c \in CandType  BY <1>0
    <2>2. c.from \in Members /\ c.nonce \in Nat  BY <2>1 DEF CandType
    <2> QED  BY <1>1, <2>2, MembersAssumption DEF Ranked
  <1>a. Cardinality(Due(n)) \in Nat  BY BatchByCount
  <1>4. Chosen(n) = Earliest(Best(S, es))  BY DEF Chosen
  <1> HIDE DEF V, es
  <1>5. \E b \in V : \A c \in V : ~Outranks(Ranked(c), Ranked(b), es)
    <2>1. CASE \E b \in V : b.from = es
      <3>1. PICK b \in V : b.from = es  BY <2>1
      <3>2. \A c \in V : ~Outranks(Ranked(c), Ranked(b), es)
        <4> TAKE c \in V
        <4> DEFINE x == Ranked(c)
                   y == Ranked(b)
        <4>1. /\ x.from = c.from /\ y.from = es /\ x.batch = y.batch
              /\ x.from \in Nat /\ y.from \in Nat
          BY <1>3, <3>1
        <4> HIDE DEF x, y
        <4>2. Cardinality(x.batch) \in Nat  BY <1>3, <1>a DEF x
        <4>3. ~Outranks(x, y, es)  BY <4>1, <4>2 DEF Outranks
        <4> QED  BY <4>3 DEF x, y
      <3> QED  BY <3>1, <3>2
    <2>2. CASE \A b \in V : b.from # es
      <3> DEFINE F == {c.from : c \in V}
      <3>1. F \subseteq Nat /\ F # {}  BY <1>2, <1>3
      <3>2. PICK k \in F : \A j \in F : k <= j
        <4> HIDE DEF F
        <4> QED  BY <3>1, Least
      <3>3. PICK b \in V : b.from = k  BY <3>2
      <3>4. \A c \in V : ~Outranks(Ranked(c), Ranked(b), es)
        <4> TAKE c \in V
        <4> DEFINE x == Ranked(c)
                   y == Ranked(b)
        <4>1. /\ x.from = c.from /\ y.from = b.from /\ x.batch = y.batch
              /\ x.from # es /\ y.from # es
              /\ x.from \in Nat /\ y.from \in Nat
          BY <1>3, <2>2, <3>3
        <4>2. y.from <= x.from  BY <3>2, <3>3, <4>1
        <4> HIDE DEF x, y
        <4>3. Cardinality(x.batch) \in Nat  BY <1>3, <1>a DEF x
        <4>4. ~Outranks(x, y, es)  BY <4>1, <4>2, <4>3 DEF Outranks
        <4> QED  BY <4>4 DEF x, y
      <3> QED  BY <3>3, <3>4
    <2> QED  BY <2>1, <2>2
  <1>6. PICK b \in V : \A c \in V : ~Outranks(Ranked(c), Ranked(b), es)  BY <1>5
  <1>7. Ranked(b) \in Best(S, es)  BY <1>6 DEF Best
  <1>8. ASSUME NEW v \in Best(S, es)  PROVE Ranked(b).nonce <= v.nonce
    <2>1. PICK c \in V : v = Ranked(c)  BY <1>8 DEF Best
    <2>2. ~Outranks(Ranked(b), Ranked(c), es)  BY <1>8, <2>1 DEF Best
    <2>3. ~Outranks(Ranked(c), Ranked(b), es)  BY <1>6
    <2> DEFINE x == Ranked(c)
               y == Ranked(b)
    <2>4. /\ x.from = c.from /\ y.from = b.from /\ x.batch = y.batch
          /\ x.from \in Nat /\ y.from \in Nat /\ x.nonce = c.nonce /\ y.nonce = b.nonce
          /\ c.nonce \in Nat /\ b.nonce \in Nat
      BY <1>3
    <2> HIDE DEF x, y
    <2>5. x.from = y.from  BY <2>2, <2>3, <2>4 DEF Outranks, x, y
    <2>6. c = b  BY <1>1, <2>4, <2>5
    <2> QED  BY <2>1, <2>4, <2>6 DEF x, y
  <1>9. Ranked(b) \in Earliest(Best(S, es))  BY <1>7, <1>8 DEF Earliest
  <1> QED  BY <1>4, <1>9

------------------------------------------------------------------------------
\* Steps

\* The steps of a configuration without recovery and repeated copies
LEMMA StepCases ==
  ASSUME Timely, Basics, IdleInv, [Next]_vars
  PROVE  \/ \E c \in Changes : Decide(c)
         \/ \E o \in outcomes : HearChange(o)
         \/ \E x \in wire : Receive(x)
         \/ \E n \in Online : \/ FreezeOnInactivity(n)
                              \/ \E w \in Selected(n) : Apply(n, w)
                              \/ RoundFails(n)
         \/ Tick
         \/ UNCHANGED vars
  <1>1. ASSUME NEW o \in outcomes, HearDeadlock(o)  PROVE FALSE
    <2>1. o.what \in Changes /\ o.what = Deadlock  BY <1>1 DEF Basics, NormalInv, HearDeadlock
    <2> QED  BY <2>1, ChangeFields
  <1>2. ASSUME NEW x \in wire, Stash(x)  PROVE FALSE
    BY <1>2 DEF Stash, IdleInv, Open
  <1>3. ASSUME NEW n \in Online, AutoCommit(n) \/ ResendCommit(n) \/ CommitInRecovery(n)
        PROVE  FALSE
    <2>1. mode[n] = "Normal"  BY OnlineMembers DEF Basics, NormalInv
    <2> QED  BY <1>3, <2>1 DEF AutoCommit, AutoCommitDue, ResendCommit, CommitInRecovery, Timely
  <1>4. Decisions => \E c \in Changes : Decide(c)  BY DEF Decisions, Timely
  <1> QED  BY <1>1, <1>2, <1>3, <1>4 DEF Next, Outcomes, Candidates, Poll

LEMMA SameQueues ==
  ASSUME UNCHANGED <<approved, chain, left>>
  PROVE  /\ Online' = Online
         /\ \A n : /\ Due(n)' = Due(n) /\ Minters(n)' = Minters(n)
                  
                   /\ StewardNow(n)' = StewardNow(n) /\ Group(n)' = Group(n)
                   /\ (Open(n)' <=> Open(n))
  <1>1. Online' = Online  BY DEF Online
  <1>2. \A n : Due(n)' = Due(n)  BY DEF Due
  <1>3. \A n : Minters(n)' = Minters(n)
    BY <1>1, <1>2 DEF Minters, IsSteward, List
  <1>4. \A n : Group(n)' = Group(n) /\ Epoch(n)' = Epoch(n)
    BY DEF Group, MembersAfter, Epoch, EpochAfter
  <1>5. \A n : StewardNow(n)' = StewardNow(n)
    <2> TAKE n
    <2> DEFINE E == {m \in Group(n) : ~HasRemoval(approved[n], m)}
    <2>1. E' = E  BY <1>4 DEF HasRemoval, ChangesOf
    <2> QED  BY <1>4, <2>1 DEF StewardNow, List
  <1>6. \A n : (Open(n)' <=> Open(n))  BY <1>1 DEF Open
  <1> QED  BY <1>1, <1>2, <1>3, <1>4, <1>5, <1>6

\* The phase and the timer of a member that has work, and of one that has none
LEMMA Timers ==
  ASSUME Basics, IdleInv, NEW n \in Online
  PROVE  /\ timer[n] \in Int /\ timer[n] >= -1 /\ CommitBatchWindow \in Nat
         /\ ~Open(n) => state[n] = "Working" /\ timer[n] = Off /\ round[n] = {}
         /\ Waits(n) => timer[n] \in 0..CommitBatchWindow /\ round[n] = {} /\ pending[n] = {}
         /\ state[n] = "Freezing" => timer[n] \in 0..FreezeDuration /\ Open(n)
         /\ state[n] = "Reelection" => Open(n)
  <1>1. /\ n \in Members /\ timer[n] \in Nat \cup {Off}
        /\ state[n] \in {"Working", "Freezing", "Reelection"}
    BY OnlineMembers, MemberFields DEF Basics
  <1>2. /\ state[n] = "Working" => Resting(n)
        /\ state[n] # "Working" => approved[n].entries # {}
        /\ state[n] = "Freezing" => timer[n] \in 0..FreezeDuration
    BY DEF IdleInv
  <1>3. Open(n) <=> approved[n].entries # {}  BY DEF Open
  <1> QED  BY <1>1, <1>2, <1>3, WindowFields DEF Resting, Waits, Off

LEMMA TickFacts ==
  ASSUME Timely, Basics, IdleInv, Tick
  PROVE  /\ UNCHANGED <<decided, state, mode, approved, round, early, pending, minted, chain, left>>
         /\ wire' = {} <=> wire = {}
         /\ outcomes' = {} <=> outcomes = {}
         /\ \A y \in wire' : \E x \in wire : /\ y = [x EXCEPT !.age = @ + 1]
                                             /\ y.to = x.to /\ y.cand = x.cand
                                             /\ y.age = x.age + 1 /\ x.age \in Nat
                                             /\ x.age < Delta
         /\ \A x \in wire : \E y \in wire' : y.to = x.to /\ y.cand = x.cand
         /\ \A p \in outcomes' : \E o \in outcomes : /\ p = [o EXCEPT !.age = @ + 1]
                                                     /\ p.to = o.to /\ p.what = o.what
                                                     /\ p.age = o.age + 1 /\ o.age \in Nat
                                                     /\ o.age < Delta
         /\ \A o \in outcomes : \E p \in outcomes' : /\ p.to = o.to /\ p.what = o.what
                                                     /\ p.age = o.age + 1
  <1>1. /\ outcomes' = {[o EXCEPT !.age = @ + 1] : o \in outcomes}
        /\ wire' = {[x EXCEPT !.age = @ + 1] : x \in wire}
        /\ (\A o \in outcomes : o.age < Delta) /\ (\A x \in wire : x.age < Delta)
        /\ UNCHANGED <<decided, state, mode, approved, round, early, pending, minted, chain, left>>
    BY DEF Tick, buffers, mls
  <1>2. MintType /\ GroupType  BY TypeParts DEF Basics
  <1>3. \A x \in wire : /\ [x EXCEPT !.age = @ + 1].to = x.to
                        /\ [x EXCEPT !.age = @ + 1].cand = x.cand
                        /\ [x EXCEPT !.age = @ + 1].age = x.age + 1 /\ x.age \in Nat
    <2> TAKE x \in wire
    <2>1. x \in CopyType  BY <1>2 DEF MintType
    <2> HIDE DEF CandType
    <2> QED  BY <2>1 DEF CopyType
  <1>4. \A o \in outcomes : /\ [o EXCEPT !.age = @ + 1].to = o.to
                            /\ [o EXCEPT !.age = @ + 1].what = o.what
                            /\ [o EXCEPT !.age = @ + 1].age = o.age + 1 /\ o.age \in Nat
    BY <1>2 DEF GroupType
  <1> DEFINE up(x) == [x EXCEPT !.age = @ + 1]
  <1>5. /\ \A y : y \in wire' <=> \E x \in wire : y = up(x)
        /\ \A p : p \in outcomes' <=> \E o \in outcomes : p = up(o)
    BY <1>1
  <1>6. /\ \A x \in wire : /\ up(x).to = x.to /\ up(x).cand = x.cand
                           /\ up(x).age = x.age + 1 /\ x.age \in Nat
        /\ \A o \in outcomes : /\ up(o).to = o.to /\ up(o).what = o.what
                               /\ up(o).age = o.age + 1 /\ o.age \in Nat
    BY <1>3, <1>4
  <1>7. (wire' = {} <=> wire = {}) /\ (outcomes' = {} <=> outcomes = {})  BY <1>1
  <1>8. \A x : up(x) = [x EXCEPT !.age = @ + 1]  OBVIOUS
  <1> HIDE DEF up
  <1>9. /\ \A y \in wire' : \E x \in wire : /\ y = up(x) /\ y.to = x.to /\ y.cand = x.cand
                                           /\ y.age = x.age + 1 /\ x.age \in Nat /\ x.age < Delta
        /\ \A x \in wire : \E y \in wire' : y.to = x.to /\ y.cand = x.cand
    BY <1>1, <1>5, <1>6
  <1>10. /\ \A p \in outcomes' : \E o \in outcomes :
              /\ p = up(o) /\ p.to = o.to /\ p.what = o.what
              /\ p.age = o.age + 1 /\ o.age \in Nat /\ o.age < Delta
         /\ \A o \in outcomes : \E p \in outcomes' : /\ p.to = o.to /\ p.what = o.what
                                                     /\ p.age = o.age + 1
    BY <1>1, <1>5, <1>6
  <1> QED  BY <1>1, <1>7, <1>9, <1>10 DEF up

LEMMA TickTimers ==
  ASSUME Timely, Basics, IdleInv, Tick, NEW n \in Online
  PROVE  /\ timer'[n] \in Int /\ timer[n] \in Int /\ timer[n] <= timer'[n]
         /\ ~Open(n) => timer'[n] = Off /\ timer[n] = Off
         /\ Waits(n) => /\ timer[n] \in 0..(CommitBatchWindow - 1)
                        /\ timer'[n] = timer[n] + 1
         /\ state[n] = "Freezing" => /\ timer[n] \in 0..(FreezeDuration - 1)
                                     /\ timer'[n] = timer[n] + 1
  <1>1. /\ n \in Members /\ n \notin left /\ timer[n] \in Nat \cup {Off} /\ mode[n] = "Normal"
    BY MemberFields DEF Basics, Online, NormalInv
  <1>2. /\ timer'[n] = IF timer[n] \in 0..(Horizon - 1) THEN timer[n] + 1 ELSE timer[n]
        /\ ~FreezeDue(n) /\ ~RoundReady(n)
    BY <1>1 DEF Tick
  <1>3. Waits(n) => timer[n] < CommitBatchWindow
    BY <1>2, Timers, WindowFields DEF FreezeDue, Waits, Open
  <1>4. state[n] = "Freezing" => timer[n] < FreezeDuration
    BY <1>1, <1>2, Timers, WindowFields DEF RoundReady
  <1> QED  BY <1>1, <1>2, <1>3, <1>4, Timers, WindowFields DEF Off

LEMMA TickSame ==
  ASSUME Timely, Basics, IdleInv, Tick
  PROVE  /\ Online' = Online /\ (Started' <=> Started)
         /\ \A n : /\ Inbox(n)' = Inbox(n) /\ View(n)' = View(n) /\ Heading(n)' = Heading(n)
                   /\ Chosen(n)' = Chosen(n)
                   /\ (Waits(n)' <=> Waits(n)) /\ (Decisive(n)' <=> Decisive(n))
  <1>1. UNCHANGED <<approved, chain, left, state, round>> /\ (wire' = {} <=> wire = {})
    BY TickFacts
  <1>2. /\ Online' = Online
        /\ \A n : /\ Minters(n)' = Minters(n)
                  /\ StewardNow(n)' = StewardNow(n) /\ (Open(n)' <=> Open(n))
    BY <1>1, SameQueues
  <1>3. Started' <=> Started  BY <1>1, <1>2 DEF Started
  <1>4. \A n : Inbox(n)' = Inbox(n)
    <2> TAKE n
    <2>1. \A c : c \in Inbox(n)' <=> \E y \in wire' : y.to = n /\ c = y.cand  BY DEF Inbox
    <2>2. \A c : c \in Inbox(n) <=> \E x \in wire : x.to = n /\ c = x.cand  BY DEF Inbox
    <2>3. \A c : c \in Inbox(n)' <=> c \in Inbox(n)  BY <2>1, <2>2, TickFacts
    <2> QED  BY <2>3
  <1>5. \A n : Heading(n)' = Heading(n)
    <2> TAKE n
    <2>1. \A c : c \in Heading(n)' <=> \E p \in outcomes' : p.to = n /\ c = p.what  BY DEF Heading
    <2>2. \A c : c \in Heading(n) <=> \E o \in outcomes : o.to = n /\ c = o.what  BY DEF Heading
    <2>3. \A c : c \in Heading(n)' <=> c \in Heading(n)  BY <2>1, <2>2, TickFacts
    <2> QED  BY <2>3
  <1>6. \A n : View(n)' = View(n)  BY <1>1, <1>4 DEF View
  <1>7. \A n : Chosen(n)' = Chosen(n)  BY <1>2, <1>6 DEF Chosen
  <1>8. \A n : (Waits(n)' <=> Waits(n))  BY <1>1, <1>2 DEF Waits
  <1>9. \A n : (Decisive(n)' <=> Decisive(n))  BY <1>2, <1>8 DEF Decisive
  <1> QED  BY <1>2, <1>3, <1>4, <1>5, <1>6, <1>7, <1>8, <1>9

\* While the group gathers everybody is Working on one history.
LEMMA Gathering ==
  ASSUME ~Started
  PROVE  /\ wire = {}
         /\ \A n \in Online : state[n] = "Working"
         /\ \A m, n \in Online : chain[m] = chain[n]
  BY DEF Started

LEMMA TickGather ==
  ASSUME Timely, Basics, IdleInv, GatherInv, ~Started, Tick
  PROVE  GatherInv'
  <1>0. /\ Online' = Online
        /\ \A n \in Online : state[n] = "Working" /\ (Open(n) <=> Waits(n))
    BY TickSame, Gathering DEF Waits
  <1>1. ASSUME NEW n \in Online
        PROVE  /\ timer[n] \in Int /\ timer[n] >= -1
               /\ timer[n] = Off => timer'[n] = Off
               /\ timer[n] # Off => timer'[n] = timer[n] + 1
               /\ timer'[n] = Off => timer[n] = Off
    BY <1>0, Timers, TickTimers DEF Off
  <1>2. ASSUME NEW m \in Online, NEW n \in Online  PROVE Near(m, n)'
    <2>0. Near(m, n)  BY DEF GatherInv
    <2> SUFFICES ASSUME timer'[n] # Off
                 PROVE  IF timer'[m] = Off THEN \E p \in outcomes' : p.to = m /\ timer'[n] <= p.age
                                           ELSE timer'[n] <= timer'[m] + Delta
      BY DEF Near
    <2>1. timer[n] # Off /\ timer'[n] = timer[n] + 1  BY <1>1
    <2>2. CASE timer'[m] = Off
      <3>1. PICK o \in outcomes : o.to = m /\ timer[n] <= o.age  BY <1>1, <2>0, <2>1, <2>2 DEF Near
      <3>2. PICK p \in outcomes' : p.to = o.to /\ p.age = o.age + 1  BY TickFacts
      <3>3. o.age \in Nat  BY TypeParts DEF Basics, GroupType
      <3> QED  BY <1>1, <2>1, <2>2, <3>1, <3>2, <3>3
    <2>3. CASE timer'[m] # Off
      <3>1. timer[m] # Off /\ timer'[m] = timer[m] + 1  BY <1>1, <2>3
      <3>2. timer[n] <= timer[m] + Delta  BY <2>0, <2>1, <3>1 DEF Near
      <3> QED  BY <1>1, <2>1, <2>3, <3>1, <3>2, WindowFields
    <2> QED  BY <2>2, <2>3
  <1>3. ASSUME NEW p \in outcomes', NEW n \in Online
        PROVE  timer'[n] + Delta < CommitBatchWindow + p.age
    <2>1. PICK o \in outcomes : p.age = o.age + 1 /\ o.age \in Nat  BY TickFacts
    <2>2. timer[n] + Delta < CommitBatchWindow + o.age  BY DEF GatherInv
    <2>3. timer'[n] = Off \/ timer'[n] = timer[n] + 1  BY <1>1
    <2> QED  BY <1>1, <2>1, <2>2, <2>3, WindowFields DEF Off, Timely
  <1> QED  BY <1>0, <1>2, <1>3 DEF GatherInv

LEMMA TickRound ==
  ASSUME Timely, Basics, IdleInv, RoundPhase, Tick
  PROVE  RoundPhase'
  <1>0. /\ UNCHANGED <<state, approved, round, chain, left>>
        /\ outcomes' = {}
        /\ Online' = Online
        /\ \A n : /\ View(n)' = View(n) /\ (Waits(n)' <=> Waits(n))
                  /\ Minters(n)' = Minters(n)
                  /\ (Open(n)' <=> Open(n)) /\ Due(n)' = Due(n)
    BY TickFacts, TickSame, SameQueues DEF RoundPhase
  <1>2. ASSUME NEW n \in Online, Open(n), Win(n)  PROVE Win(n)'
    <2>1. OneEach(n)'
      <3>1. /\ \A c \in View(n) : c.from \in Minters(n) /\ c.parent = chain[n] /\ c.batch = Due(n)
            /\ \A m \in Online : Open(m) => \A c \in View(n), d \in View(m) : c.from = d.from => c = d
            /\ \A s \in Minters(n) : Waits(s) <=> \A c \in View(n) : c.from # s
            /\ \A x, y \in wire : x.to = n /\ y.to = n =>
                          x.cand \notin round[n] /\ (x.cand = y.cand => x = y)
        BY <1>2 DEF Win, OneEach
      <3>2. ASSUME NEW x \in wire', NEW y \in wire', x.to = n, y.to = n
            PROVE  x.cand \notin round'[n] /\ (x.cand = y.cand => x = y)
        <4>1. PICK u \in wire : x = [u EXCEPT !.age = @ + 1] /\ x.to = u.to /\ x.cand = u.cand
          BY TickFacts
        <4>2. PICK v \in wire : y = [v EXCEPT !.age = @ + 1] /\ y.to = v.to /\ y.cand = v.cand
          BY TickFacts
        <4>3. u.cand \notin round[n] /\ (u.cand = v.cand => u = v)  BY <3>1, <3>2, <4>1, <4>2
        <4> QED  BY <1>0, <4>1, <4>2, <4>3
      <3> QED  BY <1>0, <3>1, <3>2 DEF OneEach
    <2>2. OnTime(n)'
      <3>0. OnTime(n)  BY <1>2 DEF Win
      <3>1. state[n] = "Working" => CommitBatchWindow <= timer'[n] + Delta
        BY <3>0, TickTimers, WindowFields DEF OnTime
      <3>2. ASSUME state[n] = "Freezing", NEW m \in Online, Waits(m)
            PROVE  timer'[n] + CommitBatchWindow <= timer'[m] + Delta
        <4>1. timer[n] + CommitBatchWindow <= timer[m] + Delta  BY <3>0, <3>2 DEF OnTime
        <4>2. timer'[n] = timer[n] + 1 /\ timer'[m] = timer[m] + 1 /\ timer[n] \in Int /\ timer[m] \in Int
          BY <3>2, TickTimers
        <4> QED  BY <4>1, <4>2, WindowFields
      <3>3. ASSUME state[n] = "Freezing", NEW x \in wire', x.to = n
            PROVE  timer'[n] <= x.age + Delta
        <4>1. PICK u \in wire : x.to = u.to /\ x.age = u.age + 1 /\ u.age \in Nat  BY TickFacts
        <4>2. timer[n] <= u.age + Delta  BY <3>0, <3>3, <4>1 DEF OnTime
        <4>3. timer'[n] = timer[n] + 1 /\ timer[n] \in Int  BY <3>3, TickTimers
        <4> QED  BY <4>1, <4>2, <4>3, WindowFields
      <3> QED  BY <1>0, <3>1, <3>2, <3>3 DEF OnTime
    <2> QED  BY <1>0, <1>2, <2>1, <2>2 DEF Win
  <1>3. \A n \in Online : Open(n) => Win(n)'  BY <1>2 DEF RoundPhase
  <1>4. \A m, n \in Online : Open(m) /\ Open(n) => chain'[m] = chain'[n]
    BY <1>0 DEF RoundPhase
  <1> QED  BY <1>0, <1>3, <1>4 DEF RoundPhase

LEMMA TickStep ==
  ASSUME Timely, Basics, Rounds, Tick
  PROVE  Rounds'
  <1>0. Agreement /\ WorkInv /\ IdleInv /\ ChainInv /\ (~Started => GatherInv) /\ (Started => RoundPhase)
    BY DEF Rounds
  <1>1. /\ UNCHANGED <<decided, state, approved, round, early, pending, chain, left>>
        /\ Online' = Online /\ (Started' <=> Started)
        /\ \A n : /\ Heading(n)' = Heading(n) /\ Due(n)' = Due(n) /\ (Open(n)' <=> Open(n))
                  /\ Chosen(n)' = Chosen(n) /\ (Decisive(n)' <=> Decisive(n))
    BY <1>0, TickFacts, TickSame, SameQueues
  <1>2. Agreement'  BY <1>0, <1>1 DEF Agreement, IsPrefixOf
  <1>3. ChainInv'
    <2>1. \A k, n : Along(k, n)' <=> Along(k, n)  BY <1>1 DEF Along, IsPrefixOf, Commit
    <2> QED  BY <1>0, <1>1, <2>1 DEF ChainInv
  <1>4. WorkInv'
    <2>1. \A n \in Online : WorkOf(n)' /\ InOrder(approved'[n])
      BY <1>0, <1>1 DEF WorkInv, WorkOf, CarriedBy
    <2>2. \A p \in outcomes' : p.to \in Online  BY <1>0, TickFacts DEF WorkInv
    <2>3. ASSUME NEW p \in outcomes', NEW q \in outcomes', p.to = q.to, p.what = q.what  PROVE p = q
      <3>1. PICK o \in outcomes : p = [o EXCEPT !.age = @ + 1] /\ p.to = o.to /\ p.what = o.what
        BY <1>0, TickFacts
      <3>2. PICK u \in outcomes : q = [u EXCEPT !.age = @ + 1] /\ q.to = u.to /\ q.what = u.what
        BY <1>0, TickFacts
      <3>3. o = u  BY <1>0, <2>3, <3>1, <3>2 DEF WorkInv
      <3> QED  BY <3>1, <3>2, <3>3
    <2>4. decided' \subseteq Changes  BY <1>0, <1>1 DEF WorkInv
    <2> QED  BY <1>1, <2>1, <2>2, <2>3, <2>4 DEF WorkInv, InOrder
  <1>5. IdleInv'
    <2>1. \A n \in Members : early'[n] = {}  BY <1>0, <1>1 DEF IdleInv
    <2>2. \A n \in left' : state'[n] = "Working"  BY <1>0, <1>1 DEF IdleInv
    <2>3. ASSUME NEW n \in Online
          PROVE  /\ state[n] = "Working" => Resting(n)'
                 /\ state[n] # "Working" => approved[n].entries # {}
                 /\ state[n] = "Freezing" => timer'[n] \in 0..FreezeDuration
      <3>1. /\ state[n] = "Working" => Resting(n)
            /\ state[n] # "Working" => approved[n].entries # {}
        BY <1>0 DEF IdleInv
      <3>2. state[n] = "Freezing" => timer'[n] \in 0..FreezeDuration
        BY <1>0, TickTimers, WindowFields
      <3>3. ASSUME state[n] = "Working"  PROVE Resting(n)'
        <4>1. Resting(n)  BY <3>1, <3>3
        <4>2. Open(n) <=> approved[n].entries # {}  BY DEF Open
        <4>3. CASE Open(n)
          <5>1. Waits(n)  BY <3>3, <4>3 DEF Waits
          <5>2. timer'[n] # Off /\ timer'[n] <= CommitBatchWindow
            BY <1>0, <5>1, TickTimers, WindowFields DEF Off
          <5> QED  BY <1>1, <4>1, <4>2, <4>3, <5>2 DEF Resting
        <4>4. CASE ~Open(n)
          <5>1. timer'[n] = Off /\ timer'[n] <= CommitBatchWindow
            BY <1>0, <4>4, TickTimers, WindowFields DEF Off
          <5> QED  BY <1>1, <4>1, <4>2, <4>4, <5>1 DEF Resting
        <4> QED  BY <4>3, <4>4
      <3> QED  BY <3>1, <3>2, <3>3
    <2>4. \A x \in wire' : x.age <= Delta /\ Open(x.to)'
      <3> TAKE x \in wire'
      <3>1. PICK u \in wire : x.to = u.to /\ x.age = u.age + 1 /\ u.age \in Nat /\ u.age < Delta
        BY <1>0, TickFacts
      <3>2. Open(u.to)  BY <1>0 DEF IdleInv
      <3> QED  BY <1>1, <3>1, <3>2, WindowFields
    <2>5. \A p \in outcomes' : p.age <= Delta
      <3> TAKE p \in outcomes'
      <3>1. PICK o \in outcomes : p.age = o.age + 1 /\ o.age \in Nat /\ o.age < Delta
        BY <1>0, TickFacts
      <3> QED  BY <3>1, WindowFields
    <2> QED  BY <1>1, <2>1, <2>2, <2>3, <2>4, <2>5 DEF IdleInv
  <1>6. ~Started' => GatherInv'  BY <1>0, <1>1, TickGather
  <1>7. Started' => RoundPhase'  BY <1>0, <1>1, TickRound
  <1> QED  BY <1>2, <1>3, <1>4, <1>5, <1>6, <1>7 DEF Rounds

\* Histories that are prefixes of each other are the same.
LEMMA PrefixBoth ==
  ASSUME NEW h \in Seq(CommitType), NEW k \in Seq(CommitType), IsPrefixOf(h, k), IsPrefixOf(k, h)
  PROVE  h = k
  <1>1. Len(h) \in Nat /\ Len(k) \in Nat /\ Len(h) <= Len(k) /\ Len(k) <= Len(h)
    BY DEF IsPrefixOf
  <1>2. Len(h) = Len(k)  BY <1>1
  <1> QED  BY <1>2, PrefixOfSameLength

\* Votes end between rounds.
LEMMA CalmGathers ==
  ASSUME Timely, Basics, Rounds, Calm
  PROVE  ~Started
  <1> SUFFICES ASSUME Started  PROVE FALSE  OBVIOUS
  <1>0. RoundPhase /\ WorkInv /\ IdleInv /\ ChainInv  BY DEF Rounds
  <1>1. \A n \in Online : ~Open(n)
    <2> SUFFICES ASSUME NEW n \in Online, Open(n)  PROVE FALSE  OBVIOUS
    <2>1. state[n] = "Working" /\ timer[n] + Delta < CommitBatchWindow  BY DEF Calm
    <2>2. timer[n] \in Int  BY <1>0, Timers
    <2>3. CommitBatchWindow <= timer[n] + Delta  BY <1>0, <2>1 DEF RoundPhase, Win, OnTime
    <2> QED  BY <2>1, <2>2, <2>3, WindowFields
  <1>2. \A m, n \in Online : IsPrefixOf(chain[m], chain[n])
    <2> TAKE m, n \in Online
    <2>1. Along(m, n) /\ ~Decisive(n)  BY <1>0, <1>1, OnlineMembers DEF ChainInv, Decisive
    <2> QED  BY <2>1 DEF Along
  <1>3. \A m, n \in Online : chain[m] = chain[n]
    <2> TAKE m, n \in Online
    <2>1. chain[m] \in Seq(CommitType) /\ chain[n] \in Seq(CommitType)
      BY OnlineMembers, MemberFields DEF Basics
    <2> QED  BY <1>2, <2>1, PrefixBoth
  <1> QED  BY <1>3 DEF Started, Calm

\* Between rounds everybody is at a point of the same history.
LEMMA GatheringAlong ==
  ASSUME ~Started, ChainInv
  PROVE  \A n \in Online, k \in Members : IsPrefixOf(chain[k], chain[n])
  BY DEF ChainInv, Along

LEMMA DecideStep ==
  ASSUME Timely, Basics, Rounds, NEW c \in Changes, Decide(c)
  PROVE  Rounds'
  <1>0. /\ Agreement /\ WorkInv /\ IdleInv /\ ChainInv /\ Calm /\ ~Started /\ GatherInv
    <2>1. Calm  BY DEF Decide, Timely
    <2> QED  BY <2>1, CalmGathers DEF Rounds
  <1> DEFINE new == {[to |-> n, what |-> c, age |-> 0] : n \in Online}
  <1>1. /\ c \notin decided /\ decided' = decided \cup {c} /\ outcomes' = outcomes \cup new
        /\ UNCHANGED <<wire, state, mode, timer, approved, round, early, pending, minted, chain, left>>
    BY DEF Decide, phases, buffers, mls
  <1>2. Online' = Online /\ \A n : Due(n)' = Due(n) /\ (Open(n)' <=> Open(n))
    BY <1>1, SameQueues
  <1>3. ~Started'  BY <1>0, <1>1, <1>2 DEF Started
  <1>4. /\ \A o \in new : o.to \in Online /\ o.what = c /\ o.age = 0
        /\ \A n \in Online : \E o \in new : o.to = n /\ o.what = c
        /\ \A o, p \in new : o.to = p.to => o = p
    <2> DEFINE f(n) == [to |-> n, what |-> c, age |-> 0]
    <2>1. \A n : f(n).to = n /\ f(n).what = c /\ f(n).age = 0  OBVIOUS
    <2>2. \A o : o \in new <=> \E n \in Online : o = f(n)  OBVIOUS
    <2> HIDE DEF new, f
    <2> QED  BY <2>1, <2>2
  <1>5. \A o \in outcomes : o.what # c /\ o.age \in Nat
    <2>1. GroupType  BY TypeParts DEF Basics
    <2> QED  BY <1>1, <2>1 DEF Basics, CandidateInv, QueueInv, GroupType
  <1> HIDE DEF new
  <1>6. Agreement'  BY <1>0, <1>1 DEF Agreement, IsPrefixOf
  <1>7. ChainInv'  BY <1>0, <1>1, <1>2, GatheringAlong DEF ChainInv, Along, IsPrefixOf
  <1>8. WorkInv'
    <2>1. \A n \in Online : Heading(n)' = Heading(n) \cup {c}
      <3> TAKE n \in Online
      <3>1. \A d : d \in Heading(n)' <=> \E o \in outcomes' : o.to = n /\ d = o.what  BY DEF Heading
      <3>2. \A d : d \in Heading(n) <=> \E o \in outcomes : o.to = n /\ d = o.what  BY DEF Heading
      <3>3. \A d : d \in Heading(n)' <=> d \in Heading(n) \/ d = c  BY <1>1, <1>4, <3>1, <3>2
      <3> QED  BY <3>3
    <2>2. \A n \in Online : WorkOf(n)'
      <3> TAKE n \in Online
      <3>1. WorkOf(n)  BY <1>0 DEF WorkInv
      <3>2. CarriedBy(chain[n])' = CarriedBy(chain[n])  BY <1>1 DEF CarriedBy
      <3> QED  BY <1>1, <1>2, <2>1, <3>1, <3>2 DEF WorkOf
    <2>3. \A n \in Online : InOrder(approved'[n])  BY <1>0, <1>1 DEF WorkInv
    <2>4. \A o \in outcomes' : o.to \in Online  BY <1>0, <1>1, <1>4 DEF WorkInv
    <2>5. \A o, p \in outcomes' : o.to = p.to /\ o.what = p.what => o = p
      BY <1>0, <1>1, <1>4, <1>5 DEF WorkInv
    <2>6. decided' \subseteq Changes  BY <1>0, <1>1 DEF WorkInv
    <2> QED  BY <1>2, <2>2, <2>3, <2>4, <2>5, <2>6 DEF WorkInv, InOrder
  <1>9. IdleInv'
    <2>1. \A n \in Online : Resting(n)' <=> Resting(n)  BY <1>1 DEF Resting
    <2>2. \A o \in outcomes' : o.age <= Delta  BY <1>0, <1>1, <1>4, WindowFields DEF IdleInv
    <2> QED  BY <1>0, <1>1, <1>2, <2>1, <2>2 DEF IdleInv
  <1>10. GatherInv'
    <2>1. \A m, n \in Online : Near(m, n)'  BY <1>0, <1>1 DEF GatherInv, Near
    <2>2. ASSUME NEW o \in outcomes', NEW n \in Online
          PROVE  timer[n] + Delta < CommitBatchWindow + o.age
      <3>1. CASE o \in outcomes  BY <1>0, <3>1 DEF GatherInv
      <3>2. CASE o \in new
        <4>1. timer[n] + Delta < CommitBatchWindow /\ o.age = 0  BY <1>0, <1>4, <3>2 DEF Calm
        <4> QED  BY <4>1, WindowFields
      <3> QED  BY <1>1, <2>2, <3>1, <3>2
    <2> QED  BY <1>1, <1>2, <2>1, <2>2 DEF GatherInv
  <1> QED  BY <1>3, <1>6, <1>7, <1>8, <1>9, <1>10 DEF Rounds

LEMMA HearStep ==
  ASSUME Timely, Basics, Rounds, NEW o \in outcomes, HearChange(o)
  PROVE  Rounds'
  <1>0. /\ Agreement /\ WorkInv /\ IdleInv /\ ChainInv /\ ~Started /\ GatherInv
    <2>1. ~RoundPhase  BY DEF RoundPhase
    <2> QED  BY <2>1 DEF Rounds
  <1> DEFINE t == o.to
             q == Enqueue(approved[t], o.what)
             e == [at |-> approved[t].next, change |-> o.what]
  <1>1. /\ t \in Online /\ t \in Members /\ o.what \in Changes /\ o.age \in Nat
        /\ state[t] = "Working" /\ EarlyNow(t) = {}
    <2>1. t \in Online  BY <1>0 DEF WorkInv
    <2>2. t \in Members /\ state[t] = "Working"  BY <1>0, <2>1, OnlineMembers, Gathering
    <2>3. o.what \in Changes /\ o.age \in Nat
      BY TypeParts DEF Basics, NormalInv, GroupType
    <2>4. EarlyNow(t) = {}  BY <1>0, <2>2 DEF IdleInv, EarlyNow
    <2> QED  BY <2>1, <2>2, <2>3, <2>4
  <1>2. /\ outcomes' = outcomes \ {o}
        /\ approved' = [approved EXCEPT ![t] = q]
        /\ round' = [round EXCEPT ![t] = @ \cup EarlyNow(t)]
        /\ early' = [early EXCEPT ![t] = {}]
        /\ timer' = [timer EXCEPT ![t] = IF state[t] = "Working" /\ @ = Off THEN 0 ELSE @]
        /\ UNCHANGED <<decided, wire, state, mode, pending, minted, chain, left>>
    BY DEF HearChange, mls
  <1>3. MintType /\ PhaseType /\ GroupType  BY TypeParts DEF Basics
  <1>4. approved[t] \in QueueType  BY <1>1, <1>3 DEF GroupType
  <1>5. q.entries = approved[t].entries \cup {e} /\ q.next = approved[t].next + 1
    BY <1>1, <1>4, EnqueueType DEF Enqueue
  <1> HIDE DEF t, q
  <1>6. /\ \A n \in Members : approved'[n] = IF n = t THEN q ELSE approved[n]
        /\ \A n \in Members : timer'[n] = IF n = t /\ timer[n] = Off THEN 0 ELSE timer[n]
        /\ round' = round
        /\ \A n \in Members : early'[n] = {}
    <2>1. \A n \in Members : early[n] = {}  BY <1>0 DEF IdleInv
    <2>2. round[t] \cup EarlyNow(t) = round[t]  BY <1>1
    <2> QED  BY <1>1, <1>2, <1>3, <2>1, <2>2 DEF MintType, PhaseType, GroupType
  <1>7. Online' = Online  BY <1>2 DEF Online
  <1>8. ~Started'  BY <1>0, <1>2, <1>7 DEF Started
  <1>9. Agreement'  BY <1>0, <1>2 DEF Agreement, IsPrefixOf
  <1>10. ChainInv'  BY <1>0, <1>2, <1>7, GatheringAlong DEF ChainInv, Along, IsPrefixOf
  <1>11. WorkOf(t) /\ InOrder(approved[t]) /\ o.what \in Heading(t)
    BY <1>0, <1>1 DEF WorkInv, Heading, t
  <1>12. /\ \A n \in Online : n # t => Due(n)' = Due(n) /\ Heading(n)' = Heading(n)
         /\ Due(t)' = Due(t) \cup {o.what} /\ Heading(t)' = Heading(t) \ {o.what}
    <2>1. \A n \in Online : n # t => Due(n)' = Due(n)  BY <1>6, OnlineMembers DEF Due
    <2>2. \A n \in Online : n # t => Heading(n)' = Heading(n)
      <3> SUFFICES ASSUME NEW n \in Online, n # t  PROVE Heading(n)' = Heading(n)  OBVIOUS
      <3>1. {p \in outcomes' : p.to = n} = {p \in outcomes : p.to = n}  BY <1>2 DEF t
      <3> QED  BY <3>1 DEF Heading
    <2>3. Due(t)' = Due(t) \cup {o.what}
      <3>1. approved'[t].entries = approved[t].entries \cup {e}  BY <1>1, <1>5, <1>6
      <3>2. e.change = o.what  OBVIOUS
      <3> HIDE DEF e
      <3> QED  BY <3>1, <3>2 DEF Due, ChangesOf
    <2>4. Heading(t)' = Heading(t) \ {o.what}
      <3>1. \A d : d \in Heading(t)' <=> \E p \in outcomes' : p.to = t /\ d = p.what  BY DEF Heading
      <3>2. \A d : d \in Heading(t) <=> \E p \in outcomes : p.to = t /\ d = p.what  BY DEF Heading
      <3>3. \A p \in outcomes : p.to = t /\ p.what = o.what => p = o  BY <1>0 DEF WorkInv, t
      <3>4. \A d : d \in Heading(t)' <=> d \in Heading(t) /\ d # o.what
        BY <1>2, <3>1, <3>2, <3>3
      <3> QED  BY <3>4
    <2> QED  BY <2>1, <2>2, <2>3, <2>4
  <1>13. WorkInv'
    <2>1. \A n : CarriedBy(chain[n])' = CarriedBy(chain[n])  BY <1>2 DEF CarriedBy
    <2>2. ASSUME NEW n \in Online  PROVE WorkOf(n)'
      <3>1. WorkOf(n)  BY <1>0 DEF WorkInv
      <3>2. CASE n # t  BY <1>2, <1>12, <2>1, <3>1, <3>2 DEF WorkOf
      <3>3. CASE n = t  BY <1>2, <1>11, <1>12, <2>1, <3>3 DEF WorkOf
      <3> QED  BY <3>2, <3>3
    <2>3. InOrder(q)
      <3>1. /\ \A f \in approved[t].entries : f.at < approved[t].next /\ f.at \in Nat
            /\ approved[t].next \in Nat
        BY <1>4, <1>11 DEF InOrder, QueueType, EntryType
      <3>2. \A f \in approved[t].entries : f.change # o.what
        BY <1>11 DEF WorkOf, Due, ChangesOf
      <3>3. e.at = approved[t].next /\ e.change = o.what  OBVIOUS
      <3> HIDE DEF e
      <3>4. \A f, g \in q.entries : f.at = g.at \/ f.change = g.change => f = g
        BY <1>5, <1>11, <3>1, <3>2, <3>3 DEF InOrder
      <3>5. \A f \in q.entries : f.at < q.next  BY <1>5, <3>1, <3>3
      <3> QED  BY <3>4, <3>5 DEF InOrder
    <2>4. \A n \in Online : InOrder(approved'[n])
      BY <1>0, <1>6, <2>3, OnlineMembers DEF WorkInv
    <2>5. \A p \in outcomes' : p \in outcomes  BY <1>2
    <2> QED  BY <1>0, <1>2, <1>7, <2>2, <2>4, <2>5 DEF WorkInv, InOrder
  <1>14. /\ \A n \in Online : timer[n] \in Int /\ timer[n] >= -1
         /\ \A n \in Online : /\ timer'[n] = Off <=> timer[n] = Off /\ n # t
                              /\ timer'[n] \in Int
    BY <1>0, <1>6, Timers, OnlineMembers DEF Off
  <1>15. IdleInv'
    <2>1. ASSUME NEW n \in Online  PROVE Resting(n)'
      <3>1. Resting(n) /\ n \in Members  BY <1>0, Gathering, OnlineMembers DEF IdleInv
      <3>2. CASE n # t  BY <1>2, <1>6, <3>1, <3>2 DEF Resting
      <3>3. CASE n = t
        <4>1. approved'[n].entries # {}  BY <1>5, <1>6, <3>1, <3>3
        <4>2. timer'[n] # Off /\ timer'[n] <= CommitBatchWindow
          BY <1>6, <1>14, <3>1, <3>3, WindowFields DEF Resting, Off
        <4> QED  BY <1>2, <1>6, <3>1, <4>1, <4>2 DEF Resting
      <3> QED  BY <3>2, <3>3
    <2>2. wire' = {} /\ \A n \in Online : state'[n] = "Working"  BY <1>0, <1>2, Gathering
    <2>3. \A p \in outcomes' : p.age <= Delta  BY <1>0, <1>2 DEF IdleInv
    <2>4. \A n \in left' : state'[n] = "Working"  BY <1>0, <1>2 DEF IdleInv
    <2> QED  BY <1>6, <1>7, <2>1, <2>2, <2>3, <2>4 DEF IdleInv
  <1>16. GatherInv'
    <2>1. ASSUME NEW m \in Online, NEW n \in Online  PROVE Near(m, n)'
      <3>0. Near(m, n) /\ m \in Members /\ n \in Members  BY <1>0, OnlineMembers DEF GatherInv
      <3> SUFFICES ASSUME timer'[n] # Off
                   PROVE  IF timer'[m] = Off THEN \E p \in outcomes' : p.to = m /\ timer'[n] <= p.age
                                             ELSE timer'[n] <= timer'[m] + Delta
        BY DEF Near
      <3>1. CASE timer'[m] = Off
        <4>1. m # t /\ timer[m] = Off  BY <1>14, <3>1
        <4>2. \E p \in outcomes : p.to = m /\ timer'[n] <= p.age
          <5>1. CASE timer[n] # Off  BY <1>6, <3>0, <4>1, <5>1 DEF Near
          <5>2. CASE timer[n] = Off
            <6>1. timer'[n] = 0  BY <1>6, <3>0, <5>2 DEF Off
            <6>2. Due(m) = {}
              <7>1. Resting(m)  BY <1>0, Gathering DEF IdleInv
              <7> QED  BY <4>1, <7>1 DEF Resting, Due, ChangesOf
            <6>3. o.what \notin CarriedBy(chain[m])
              BY <1>0, <1>1, <1>11, Gathering DEF WorkOf
            <6>4. o.what \in Heading(m)
              <7>1. o.what \in decided  BY <1>11 DEF WorkOf
              <7> QED  BY <1>0, <6>2, <6>3, <7>1 DEF WorkInv, WorkOf
            <6>5. PICK p \in outcomes : p.to = m  BY <6>4 DEF Heading
            <6>6. p.age \in Nat  BY <1>3 DEF GroupType
            <6> QED  BY <6>1, <6>5, <6>6
          <5> QED  BY <5>1, <5>2
        <4> QED  BY <1>2, <3>1, <4>1, <4>2 DEF t
      <3>2. CASE timer'[m] # Off
        <4>1. CASE timer[n] = Off
          BY <1>6, <1>14, <3>0, <3>2, <4>1, WindowFields DEF Off
        <4>2. CASE timer[n] # Off /\ timer[m] # Off
          BY <1>6, <1>14, <3>0, <3>2, <4>2 DEF Near
        <4>3. CASE timer[n] # Off /\ timer[m] = Off
          <5>1. PICK p \in outcomes : timer[n] <= p.age  BY <3>0, <4>3 DEF Near
          <5>2. p.age <= Delta /\ p.age \in Nat  BY <1>0, <1>3 DEF IdleInv, GroupType
          <5>3. timer'[m] = 0 /\ timer'[n] = timer[n]  BY <1>6, <1>14, <3>0, <3>2, <4>3
          <5> QED  BY <1>14, <3>2, <5>1, <5>2, <5>3, WindowFields
        <4> QED  BY <4>1, <4>2, <4>3
      <3> QED  BY <3>1, <3>2
    <2>2. ASSUME NEW p \in outcomes', NEW n \in Online
          PROVE  timer'[n] + Delta < CommitBatchWindow + p.age
      <3>1. p \in outcomes /\ p.age \in Nat  BY <1>2, <1>3 DEF GroupType
      <3>2. timer[n] + Delta < CommitBatchWindow + p.age  BY <1>0, <3>1 DEF GatherInv
      <3>3. timer'[n] = timer[n] \/ timer'[n] = 0  BY <1>6, OnlineMembers
      <3> QED  BY <1>14, <3>1, <3>2, <3>3, WindowFields DEF Timely
    <2> QED  BY <1>7, <2>1, <2>2 DEF GatherInv
  <1> QED  BY <1>8, <1>9, <1>10, <1>13, <1>15, <1>16 DEF Rounds

------------------------------------------------------------------------------
\* Freezing and minting

\* Nobody freezes before everything voted for has arrived everywhere.
LEMMA GatherDone ==
  ASSUME Timely, Basics, IdleInv, GatherInv, ~Started, NEW n \in Online, FreezeDue(n)
  PROVE  RoundPhase
  <1>1. /\ wire = {} /\ (\A m \in Online : state[m] = "Working")
        /\ \A m, k \in Online : chain[m] = chain[k]
    BY Gathering
  <1>2. \A m \in Online : timer[m] \in Int /\ timer[m] >= -1 /\ Resting(m) /\ round[m] = {}
    BY <1>1, Timers DEF IdleInv, Resting
  <1>3. timer[n] >= CommitBatchWindow /\ timer[n] # Off
    BY <1>2, WindowFields DEF FreezeDue, Off
  <1>4. outcomes = {}
    <2> SUFFICES ASSUME NEW o \in outcomes  PROVE FALSE  OBVIOUS
    <2>1. o.age \in Nat /\ o.age <= Delta  BY TypeParts DEF Basics, GroupType, IdleInv
    <2>2. timer[n] + Delta < CommitBatchWindow + o.age  BY DEF GatherInv
    <2> QED  BY <1>2, <1>3, <2>1, <2>2, WindowFields
  <1>5. ASSUME NEW m \in Online
        PROVE  Waits(m) /\ Open(m) /\ CommitBatchWindow <= timer[m] + Delta /\ View(m) = {}
    <2>1. Near(m, n)  BY DEF GatherInv
    <2>2. timer[m] # Off /\ timer[n] <= timer[m] + Delta  BY <1>3, <1>4, <2>1 DEF Near
    <2>3. Open(m)  BY <1>2, <2>2 DEF Resting, Open
    <2>4. View(m) = {}  BY <1>1, <1>2 DEF View, Inbox
    <2> QED  BY <1>1, <1>2, <1>3, <2>2, <2>3, <2>4, WindowFields DEF Waits
  <1>6. ASSUME NEW m \in Online  PROVE Win(m)
    <2>1. OneEach(m)  BY <1>1, <1>5 DEF OneEach, Minters
    <2>2. OnTime(m)  BY <1>1, <1>5 DEF OnTime
    <2> QED  BY <1>1, <1>5, <2>1, <2>2 DEF Win
  <1> QED  BY <1>1, <1>4, <1>6 DEF RoundPhase

\* As long as a minter waits nobody merged.
LEMMA WaitingMinter ==
  ASSUME Basics, WorkInv, ChainInv, RoundPhase, NEW n \in Online, Open(n),
         NEW s \in Minters(n), Waits(s), NEW m \in Online
  PROVE  Open(m)
  <1> SUFFICES ASSUME ~Open(m)  PROVE FALSE  OBVIOUS
  <1>1. m \in Members /\ n \in Members  BY OnlineMembers
  <1>2. ~Decisive(m) /\ ~Decisive(n)  BY DEF Decisive
  <1>3. IsPrefixOf(chain[m], chain[n]) /\ IsPrefixOf(chain[n], chain[m])
    BY <1>1, <1>2 DEF ChainInv, Along
  <1>4. chain[m] \in Seq(CommitType) /\ chain[n] \in Seq(CommitType)
    BY <1>1, MemberFields DEF Basics
  <1>5. chain[m] = chain[n]  BY <1>3, <1>4, PrefixBoth
  <1> QED  BY <1>5, DoneIsAhead

\* What n mints as it freezes: exactly the minters mint, and all that is due.
MintsAll(n, b, held, inflight) ==
  /\ b \in CandType /\ b.from = n /\ b.parent = chain[n] /\ b.batch = Due(n)
  /\ \/ /\ n \in Minters(n)
        /\ round' = [round EXCEPT ![n] = Buffer(n, held, b)]
        /\ wire' = inflight \cup Sent(n, b)
     \/ /\ n \in Minters(n) => pending[n] # {}
        /\ round' = [round EXCEPT ![n] = held]
        /\ wire' = inflight

LEMMA MintsDue ==
  ASSUME Timely, Basics, WorkInv, NEW n \in Online, Open(n), NEW held, NEW inflight,
         Mint(n, IsSteward(List, n), approved[n], held, inflight),
         NEW b, b = Built(n, approved[n])
  PROVE  MintsAll(n, b, held, inflight)
  <1>0. n \in Members /\ approved[n] \in QueueType /\ MintType /\ GroupType
    BY OnlineMembers, MemberFields, TypeParts DEF Basics
  <1>1. /\ b \in CandType /\ b.from = n /\ b.parent = chain[n]
        /\ b.batch = MintedBatch(approved[n], 0, Group(n), BatchMax)
    BY <1>0, BuiltType
  <1>2. b.batch = Due(n)  BY <1>1, BatchByCount DEF Basics, Winnable
  <1>3. n \in Minters(n) <=> IsSteward(List, n) /\ ~HasRemoval(approved[n], n)
    BY DEF Minters, HasRemoval, Due
  <1>4. approved[n].entries # {} /\ Due(n) # {}  BY DEF Open, Due, ChangesOf
  <1> DEFINE builds == /\ IsSteward(List, n) /\ approved[n].entries # {} /\ ~HasRemoval(approved[n], n)
                       /\ pending[n] = {} /\ b.batch # {}
  <1>5. /\ round' = [round EXCEPT ![n] = IF builds THEN Buffer(n, held, b) ELSE held]
        /\ wire' = IF builds THEN inflight \cup Sent(n, b) ELSE inflight
    <2>1. b = [from |-> n, batch |-> MintedBatch(approved[n], 0, Group(n), BatchMax),
               nonce |-> minted[n], parent |-> chain[n]]
      BY DEF Built
    <2> QED  BY <1>1, <2>1 DEF Mint
  <1>6. CASE builds  BY <1>1, <1>2, <1>3, <1>5, <1>6 DEF MintsAll
  <1>7. CASE ~builds
    <2>1. n \in Minters(n) => pending[n] # {}  BY <1>2, <1>3, <1>4, <1>7
    <2> QED  BY <1>1, <1>2, <1>5, <1>7, <2>1 DEF MintsAll
  <1> QED  BY <1>6, <1>7

\* There is room for what a minter adds.
LEMMA RoomToMint ==
  ASSUME Timely, Basics, WorkInv, RoundPhase, NEW n \in Online, Waits(n), n \in Minters(n),
         NEW held \in SUBSET View(n), NEW b
  PROVE  Buffer(n, held, b) = held \cup {b}
  <1> DEFINE V == View(n)
             M == Minters(n)
             R == M \ {n}
  <1>1. Open(n) /\ OneEach(n)  BY DEF Waits, RoundPhase, Win
  <1>2. /\ \A c \in V : c.from \in R
        /\ \A c, d \in V : c.from = d.from => c = d
    BY <1>1 DEF OneEach
  <1>3. /\ IsFiniteSet(M) /\ Cardinality(M) \in Nat /\ Cardinality(Group(n)) \in Nat
        /\ Cardinality(M) <= Cardinality(Group(n))
    BY <1>1, MintersFit
  <1>4. n \in M  OBVIOUS
  <1>5. IsFiniteSet(R) /\ Cardinality(R) = Cardinality(M) - 1
    <2> HIDE DEF M
    <2> QED  BY <1>3, <1>4, FS_RemoveElement
  <1> HIDE DEF V, M, R
  <1>6. IsFiniteSet(V) /\ Cardinality(V) \in Nat /\ Cardinality(V) <= Cardinality(R)
    BY <1>2, <1>5, OnePerMinter
  <1>7. IsFiniteSet(held) /\ Cardinality(held) <= Cardinality(V) /\ Cardinality(held) \in Nat
    BY <1>6, FS_Subset, FS_CardinalityType DEF V
  <1>8. ~(Cardinality(held) >= Cardinality(Group(n)))  BY <1>3, <1>5, <1>6, <1>7
  <1> QED  BY <1>8 DEF Buffer

\* What n freezes with: the copies it did not take yet stay on their way
Freezes(n, held, inflight) ==
  /\ inflight \subseteq wire
  /\ \A x \in wire : x.to # n => x \in inflight
  /\ \A x \in inflight : x.to = n => x.cand \notin held
  /\ \A c : c \in View(n) <=> c \in held \/ \E x \in inflight : x.to = n /\ x.cand = c
  /\ EnterFreezing(n, approved[n], held, inflight)
  /\ UNCHANGED <<outcomes, approved, chain, left>>

\* A freeze adds what n mints, if n is a minter, to every view.
LEMMA FreezeAdds ==
  ASSUME Timely, Basics, WorkInv, IdleInv, ChainInv, RoundPhase,
         NEW n \in Online, Waits(n), NEW held, NEW inflight, Freezes(n, held, inflight)
  PROVE  \E B \in SUBSET CandType :
           /\ B = {} <=> n \notin Minters(n)
           /\ \A c \in B : c.from = n /\ c.parent = chain[n] /\ c.batch = Due(n)
           /\ \A c, d \in B : c = d
           /\ \A m \in Online : View(m)' = View(m) \cup B
           /\ \A m \in Members : round'[m] = IF m = n THEN held \cup B ELSE round[m]
           /\ \A y \in wire' : y \in inflight \/ (y.cand \in B /\ y.to # n /\ y.age = 0 /\ Open(y.to))
           /\ \A x, y \in wire' : x \notin inflight /\ y \notin inflight /\ x.to = y.to => x = y
  <1> DEFINE b == Built(n, approved[n])
             B == IF n \in Minters(n) THEN {b} ELSE {}
             S == IF n \in Minters(n) THEN Sent(n, b) ELSE {}
  <1>0. n \in Members /\ Open(n) /\ pending[n] = {} /\ round[n] = {} /\ round \in [Members -> SUBSET CandType]
    <2>1. MintType  BY TypeParts DEF Basics
    <2> QED  BY <2>1, OnlineMembers, Timers DEF Waits, MintType
  <1>1. /\ inflight \subseteq wire
        /\ \A x \in wire : x.to # n => x \in inflight
        /\ \A c : c \in View(n) <=> c \in held \/ \E x \in inflight : x.to = n /\ x.cand = c
        /\ Mint(n, IsSteward(List, n), approved[n], held, inflight)
    BY DEF Freezes, EnterFreezing
  <1>2. /\ b \in CandType /\ b.from = n /\ b.parent = chain[n] /\ b.batch = Due(n)
        /\ \/ /\ n \in Minters(n)
              /\ round' = [round EXCEPT ![n] = Buffer(n, held, b)]
              /\ wire' = inflight \cup Sent(n, b)
           \/ /\ n \notin Minters(n)
              /\ round' = [round EXCEPT ![n] = held]
              /\ wire' = inflight
    <2>1. Open(n) /\ Mint(n, IsSteward(List, n), approved[n], held, inflight)  BY <1>0, <1>1
    <2>2. b = Built(n, approved[n])  OBVIOUS
    <2> HIDE DEF b
    <2>3. MintsAll(n, b, held, inflight)  BY <2>1, <2>2, MintsDue
    <2> QED  BY <1>0, <2>3 DEF MintsAll
  <1>3. held \in SUBSET View(n)  BY <1>1
  <1> HIDE DEF b
  <1>4. round' = [round EXCEPT ![n] = held \cup B] /\ wire' = inflight \cup S
    BY <1>2, <1>3, RoomToMint
  <1>5. \A m \in Members : round'[m] = IF m = n THEN held \cup B ELSE round[m]
    <2> HIDE DEF B
    <2> QED  BY <1>0, <1>4
  <1>6. /\ \A y \in S : y.cand \in B /\ y.to # n /\ y.to \in Online /\ y.age = 0
        /\ \A m \in Online : m # n => \A c \in B : \E y \in S : y.to = m /\ y.cand = c
        /\ \A x, y \in S : x.to = y.to => x = y
    <2> DEFINE f(m) == [to |-> m, cand |-> b, age |-> 0]
    <2>1. \A m : f(m).to = m /\ f(m).cand = b /\ f(m).age = 0  OBVIOUS
    <2>2. n \in Minters(n) => \A y : y \in S <=> \E m \in Online \ {n} : y = f(m)  BY DEF Sent
    <2>3. n \notin Minters(n) => S = {} /\ B = {}  OBVIOUS
    <2>4. n \in Minters(n) => B = {b}  OBVIOUS
    <2> HIDE DEF f, S, B
    <2> QED  BY <2>1, <2>2, <2>3, <2>4
  <1>7. \A y \in S : Open(y.to)
    <2>1. S # {} => n \in Minters(n)  OBVIOUS
    <2> HIDE DEF S, B
    <2> QED  BY <1>0, <1>6, <2>1, WaitingMinter
  <1>8. ASSUME NEW m \in Online  PROVE View(m)' = View(m) \cup B
    <2>0. m \in Members  BY OnlineMembers
    <2>1. \A c : c \in View(m)' <=> c \in round'[m] \/ \E x \in wire' : x.to = m /\ x.cand = c
      BY DEF View, Inbox
    <2>2. \A c : c \in View(m) <=> c \in round[m] \/ \E x \in wire : x.to = m /\ x.cand = c
      BY DEF View, Inbox
    <2> HIDE DEF S, B
    <2>3. CASE m = n
      <3>1. \A c : c \in View(m)' <=> c \in View(m) \/ c \in B
        BY <1>1, <1>4, <1>5, <1>6, <2>0, <2>1, <2>3
      <3> QED  BY <3>1
    <2>4. CASE m # n
      <3>1. \A x : x \in wire /\ x.to = m <=> x \in inflight /\ x.to = m  BY <1>1, <2>4
      <3>2. \A c : c \in View(m)' <=> c \in View(m) \/ c \in B
        BY <1>4, <1>5, <1>6, <2>0, <2>1, <2>2, <2>4, <3>1
      <3> QED  BY <3>2
    <2> QED  BY <2>3, <2>4
  <1>9. /\ B \in SUBSET CandType /\ (B = {} <=> n \notin Minters(n))
        /\ \A c \in B : c.from = n /\ c.parent = chain[n] /\ c.batch = Due(n)
        /\ \A c, d \in B : c = d
    BY <1>2
  <1> HIDE DEF S, B
  <1>10. /\ \A y \in wire' : y \in inflight \/ (y.cand \in B /\ y.to # n /\ y.age = 0 /\ Open(y.to))
         /\ \A x, y \in wire' : x \notin inflight /\ y \notin inflight /\ x.to = y.to => x = y
    BY <1>4, <1>6, <1>7
  <1> QED  BY <1>5, <1>8, <1>9, <1>10

LEMMA FreezeSame ==
  ASSUME Basics, NEW n \in Online, NEW held, NEW inflight, Freezes(n, held, inflight)
  PROVE  /\ Online' = Online /\ UNCHANGED <<outcomes, approved, chain, left>> /\ Started'
         /\ \A m : /\ Due(m)' = Due(m) /\ Minters(m)' = Minters(m)
                   /\ (Open(m)' <=> Open(m)) /\ StewardNow(m)' = StewardNow(m)
         /\ \A m \in Members : /\ state'[m] = IF m = n THEN "Freezing" ELSE state[m]
                               /\ timer'[m] = IF m = n THEN 0 ELSE timer[m]
         /\ \A m \in Members : Waits(m)' <=> Waits(m) /\ m # n
  <1>0. n \in Members /\ PhaseType  BY OnlineMembers, TypeParts DEF Basics
  <1>1. /\ UNCHANGED <<outcomes, approved, chain, left>>
        /\ state' = [state EXCEPT ![n] = "Freezing"] /\ timer' = [timer EXCEPT ![n] = 0]
    BY DEF Freezes, EnterFreezing
  <1>2. \A m \in Members : /\ state'[m] = IF m = n THEN "Freezing" ELSE state[m]
                           /\ timer'[m] = IF m = n THEN 0 ELSE timer[m]
    BY <1>0, <1>1 DEF PhaseType
  <1>3. /\ Online' = Online
        /\ \A m : /\ Due(m)' = Due(m) /\ Minters(m)' = Minters(m)
                  /\ (Open(m)' <=> Open(m)) /\ StewardNow(m)' = StewardNow(m)
    BY <1>1, SameQueues
  <1>4. Started'  BY <1>0, <1>2, <1>3 DEF Started
  <1>5. \A m \in Members : Waits(m)' <=> Waits(m) /\ m # n  BY <1>2, <1>3 DEF Waits
  <1> QED  BY <1>1, <1>2, <1>3, <1>4, <1>5

LEMMA FreezeWin ==
  ASSUME Timely, Basics, WorkInv, IdleInv, ChainInv, RoundPhase,
         NEW n \in Online, Waits(n), NEW held, NEW inflight, Freezes(n, held, inflight)
  PROVE  RoundPhase'
  <1>0. /\ Online' = Online /\ UNCHANGED <<outcomes, approved, chain, left>>
        /\ \A m : /\ Due(m)' = Due(m) /\ Minters(m)' = Minters(m)
                  /\ (Open(m)' <=> Open(m))
        /\ \A m \in Members : /\ state'[m] = IF m = n THEN "Freezing" ELSE state[m]
                              /\ timer'[m] = IF m = n THEN 0 ELSE timer[m]
        /\ \A m \in Members : Waits(m)' <=> Waits(m) /\ m # n
    BY FreezeSame
  <1>1. PICK B \in SUBSET CandType :
           /\ B = {} <=> n \notin Minters(n)
           /\ \A c \in B : c.from = n /\ c.parent = chain[n] /\ c.batch = Due(n)
           /\ \A c, d \in B : c = d
           /\ \A m \in Online : View(m)' = View(m) \cup B
           /\ \A m \in Members : round'[m] = IF m = n THEN held \cup B ELSE round[m]
           /\ \A y \in wire' : y \in inflight \/ (y.cand \in B /\ y.to # n /\ y.age = 0 /\ Open(y.to))
           /\ \A x, y \in wire' : x \notin inflight /\ y \notin inflight /\ x.to = y.to => x = y
    BY FreezeAdds
  <1>2. Open(n) /\ n \in Members /\ \A m \in Online : m \in Members  BY OnlineMembers DEF Waits
  <1>3. inflight \subseteq wire /\ \A x \in inflight : x.to = n => x.cand \notin held
    BY DEF Freezes
  <1>4. ASSUME NEW m \in Online, Open(m)
        PROVE  /\ Win(m) /\ Minters(m) = Minters(n) /\ Due(m) = Due(n) /\ chain[m] = chain[n]
               /\ n \in Minters(n) => \A c \in View(m) : c.from # n
    <2>1. Minters(m) = Minters(n) /\ Due(m) = Due(n) /\ chain[m] = chain[n]
      BY <1>2, <1>4, SameDue
    <2>2. Win(m)  BY <1>4, <2>1 DEF RoundPhase
    <2>3. n \in Minters(n) => \A c \in View(m) : c.from # n  BY <2>1, <2>2 DEF Win, OneEach
    <2> QED  BY <2>1, <2>2, <2>3
  <1>5. ASSUME NEW m \in Online, Open(m)  PROVE OneEach(m)'
    <2>0. OneEach(m)  BY <1>4, <1>5 DEF Win
    <2>1. \A c \in View(m)' : c.from \in Minters(m) /\ c.parent = chain[m] /\ c.batch = Due(m)
      BY <1>1, <1>4, <1>5, <2>0 DEF OneEach
    <2>2. ASSUME NEW k \in Online, Open(k), NEW c \in View(m)', NEW d \in View(k)', c.from = d.from
          PROVE  c = d
      <3>1. /\ c \in View(m) \/ c \in B
            /\ d \in View(k) \/ d \in B
        BY <1>1, <2>2
      <3>2. CASE c \in View(m) /\ d \in View(k)  BY <2>0, <2>2, <3>2 DEF OneEach
      <3>3. CASE c \in B \/ d \in B
        <4>1. n \in Minters(n) /\ c.from = n  BY <1>1, <2>2, <3>3
        <4>2. c \in B /\ d \in B  BY <1>4, <1>5, <2>2, <3>1, <4>1
        <4> QED  BY <1>1, <4>2
      <3> QED  BY <3>1, <3>2, <3>3
    <2>3. ASSUME NEW s \in Minters(m)  PROVE Waits(s)' <=> \A c \in View(m)' : c.from # s
      <3>1. s \in Members /\ (Waits(s) <=> \A c \in View(m) : c.from # s)
        BY <2>0, OnlineMembers DEF OneEach, Minters
      <3>2. CASE s = n
        <4>1. \E c \in B : c.from = n  BY <1>1, <1>4, <1>5, <2>3, <3>2
        <4> QED  BY <1>0, <1>1, <3>1, <3>2, <4>1
      <3>3. CASE s # n
        <4>1. \A c \in B : c.from # s  BY <1>1, <3>3
        <4> QED  BY <1>0, <1>1, <3>1, <3>3, <4>1
      <3> QED  BY <3>2, <3>3
    <2>4. ASSUME NEW x \in wire', NEW y \in wire', x.to = m, y.to = m
          PROVE  x.cand \notin round'[m] /\ (x.cand = y.cand => x = y)
      <3>1. \A u, v \in wire : u.to = m /\ v.to = m => u.cand \notin round[m] /\ (u.cand = v.cand => u = v)
        BY <2>0 DEF OneEach
      <3>2. \A u \in wire : u.to = m => u.cand \in View(m)  BY DEF View, Inbox
      <3>3. round[m] \subseteq View(m)  BY DEF View
      <3>4. \A c \in B : n \in Minters(n) /\ c.from = n /\ c \notin View(m)  BY <1>1, <1>4, <1>5
      <3>5. x.cand \notin round'[m]
        <4>1. CASE m = n
          <5>1. x \in inflight  BY <1>1, <2>4, <4>1
          <5>2. x.cand \notin held /\ x.cand \notin B  BY <1>3, <2>4, <3>2, <3>4, <4>1, <5>1
          <5> QED  BY <1>1, <1>2, <4>1, <5>2
        <4>2. CASE m # n
          <5>1. round'[m] = round[m]  BY <1>1, <1>2, <4>2
          <5>2. CASE x \in inflight  BY <1>3, <2>4, <3>1, <5>1, <5>2
          <5>3. CASE x.cand \in B  BY <3>3, <3>4, <5>1, <5>3
          <5> QED  BY <1>1, <5>2, <5>3
        <4> QED  BY <4>1, <4>2
      <3>6. ASSUME x.cand = y.cand  PROVE x = y
        <4>1. CASE x \in inflight /\ y \in inflight  BY <1>3, <2>4, <3>1, <3>6, <4>1
        <4>2. CASE x \notin inflight /\ y \notin inflight  BY <1>1, <2>4, <4>2
        <4>3. CASE x \in inflight /\ y \notin inflight
          <5>1. x.cand \in View(m) /\ y.cand \in B  BY <1>1, <1>3, <2>4, <3>2, <4>3
          <5> QED  BY <3>4, <3>6, <5>1
        <4>4. CASE x \notin inflight /\ y \in inflight
          <5>1. y.cand \in View(m) /\ x.cand \in B  BY <1>1, <1>3, <2>4, <3>2, <4>4
          <5> QED  BY <3>4, <3>6, <5>1
        <4> QED  BY <4>1, <4>2, <4>3, <4>4
      <3> QED  BY <3>5, <3>6
    <2> QED  BY <1>0, <2>1, <2>2, <2>3, <2>4 DEF OneEach
  <1>6. ASSUME NEW m \in Online, Open(m)  PROVE OnTime(m)'
    <2>0. OnTime(m) /\ m \in Members /\ timer[m] \in Int /\ timer[n] \in 0..CommitBatchWindow
      BY <1>2, <1>4, <1>6, Timers DEF Win
    <2>1. CASE m # n
      <3>1. ASSUME state[m] = "Freezing", NEW k \in Online, Waits(k)'
            PROVE  timer'[m] + CommitBatchWindow <= timer'[k] + Delta
        BY <1>0, <1>2, <2>0, <2>1, <3>1 DEF OnTime
      <3>2. ASSUME state[m] = "Freezing", NEW x \in wire', x.to = m
            PROVE  timer'[m] <= x.age + Delta
        <4>1. timer'[m] = timer[m]  BY <1>0, <2>0, <2>1
        <4>2. CASE x \in inflight  BY <1>3, <2>0, <3>2, <4>1, <4>2 DEF OnTime
        <4>3. CASE x.age = 0
          <5>1. timer[m] + CommitBatchWindow <= timer[n] + Delta  BY <2>0, <3>2 DEF OnTime
          <5> QED  BY <2>0, <4>1, <4>3, <5>1, WindowFields
        <4> QED  BY <1>1, <4>2, <4>3
      <3> QED  BY <1>0, <2>0, <2>1, <3>1, <3>2 DEF OnTime
    <2>2. CASE m = n
      <3>1. timer'[n] = 0 /\ state'[n] = "Freezing"  BY <1>0, <1>2
      <3>2. ASSUME NEW k \in Online, Waits(k)'
            PROVE  timer'[n] + CommitBatchWindow <= timer'[k] + Delta
        <4>1. Waits(k) /\ Open(k) /\ state[k] = "Working" /\ timer'[k] = timer[k]
          BY <1>0, <1>2, <3>2 DEF Waits
        <4>2. CommitBatchWindow <= timer[k] + Delta  BY <1>4, <4>1 DEF Win, OnTime
        <4> QED  BY <3>1, <4>1, <4>2, WindowFields
      <3>3. ASSUME NEW x \in wire', x.to = n  PROVE timer'[n] <= x.age + Delta
        <4>1. x \in wire  BY <1>1, <1>3, <3>3
        <4>2. x.age \in Nat  BY <4>1, CopyFields, TypeParts DEF Basics
        <4> QED  BY <3>1, <4>2, WindowFields
      <3> QED  BY <1>0, <2>2, <3>1, <3>2, <3>3 DEF OnTime
    <2> QED  BY <2>1, <2>2
  <1>7. ASSUME NEW m \in Online, Open(m)  PROVE Win(m)'
    <2>1. OneEach(m)' /\ OnTime(m)' /\ state'[m] # "Reelection"
      BY <1>0, <1>2, <1>4, <1>5, <1>6, <1>7 DEF Win
    <2> QED  BY <2>1 DEF Win
  <1> QED  BY <1>0, <1>7 DEF RoundPhase

------------------------------------------------------------------------------
\* The steps of a round that merge nothing

\* What such a step leaves alone, once the round itself is seen to go on
LEMMA StillStep ==
  ASSUME Timely, Basics, Rounds, NEW n \in Online, Open(n), RoundPhase', Started',
         UNCHANGED <<decided, outcomes, approved, early, chain, left>>,
         \A m \in Members : m # n => /\ state'[m] = state[m] /\ timer'[m] = timer[m]
                                     /\ round'[m] = round[m] /\ pending'[m] = pending[m],
         state'[n] # "Working", state'[n] = "Freezing" => timer'[n] \in 0..FreezeDuration,
         \A y \in wire' : y.age <= Delta /\ Open(y.to),
         \A m \in Online : Decisive(m) => Decisive(m)' /\ View(m)' = View(m)
  PROVE  Rounds'
  <1>0. Agreement /\ WorkInv /\ IdleInv /\ ChainInv  BY DEF Rounds
  <1>1. /\ Online' = Online
        /\ \A m : Due(m)' = Due(m) /\ (Open(m)' <=> Open(m)) /\ StewardNow(m)' = StewardNow(m)
    BY SameQueues
  <1>2. n \in Members /\ \A m \in Online : m \in Members  BY OnlineMembers
  <1>3. Agreement'  BY <1>0 DEF Agreement, IsPrefixOf
  <1>4. WorkInv'
    <2>1. \A m : Heading(m)' = Heading(m) /\ CarriedBy(chain[m])' = CarriedBy(chain[m])
      BY DEF Heading, CarriedBy
    <2>2. \A m \in Online : WorkOf(m)'  BY <1>0, <1>1, <2>1 DEF WorkInv, WorkOf
    <2> QED  BY <1>0, <1>1, <2>2 DEF WorkInv, InOrder
  <1>5. IdleInv'
    <2>1. \A m \in left : state'[m] = "Working"
      <3>1. \A m \in left : m \in Members /\ m # n
        BY TypeParts DEF Basics, GroupType, Online
      <3> QED  BY <1>0, <3>1 DEF IdleInv
    <2>2. ASSUME NEW m \in Online
          PROVE  /\ state'[m] = "Working" => Resting(m)'
                 /\ state'[m] # "Working" => approved[m].entries # {}
                 /\ state'[m] = "Freezing" => timer'[m] \in 0..FreezeDuration
      <3>1. CASE m = n  BY <3>1 DEF Open
      <3>2. CASE m # n
        <4>1. /\ state'[m] = state[m] /\ timer'[m] = timer[m] /\ round'[m] = round[m]
              /\ pending'[m] = pending[m]
          BY <1>2, <3>2
        <4>2. Resting(m)' <=> Resting(m)  BY <4>1 DEF Resting
        <4> QED  BY <1>0, <4>1, <4>2 DEF IdleInv
      <3> QED  BY <3>1, <3>2
    <2>3. \A m \in Members : early'[m] = {}  BY <1>0 DEF IdleInv
    <2>4. \A o \in outcomes' : o.age <= Delta  BY <1>0 DEF IdleInv
    <2> QED  BY <1>1, <2>1, <2>2, <2>3, <2>4 DEF IdleInv
  <1>6. ChainInv'
    <2>1. ASSUME NEW m \in Online, NEW k \in Members  PROVE Along(k, m)'
      <3>1. Along(k, m)  BY <1>0 DEF ChainInv
      <3>2. CASE IsPrefixOf(chain[k], chain[m])  BY <3>2 DEF Along, IsPrefixOf
      <3>3. CASE Decisive(m) /\ \E w \in Chosen(m) : chain[k] = Append(chain[m], Commit(w))
        <4>1. Decisive(m)' /\ View(m)' = View(m)  BY <3>3
        <4>2. Chosen(m)' = Chosen(m)  BY <1>1, <4>1 DEF Chosen
        <4> QED  BY <3>3, <4>1, <4>2 DEF Along, Commit
      <3> QED  BY <3>1, <3>2, <3>3 DEF Along
    <2> QED  BY <1>1, <2>1 DEF ChainInv
  <1> QED  BY <1>3, <1>4, <1>5, <1>6 DEF Rounds

\* What a mint changes of the members that do not mint: nothing.
LEMMA FreezeOthers ==
  ASSUME Basics, NEW n \in Online, NEW held, NEW inflight,
         EnterFreezing(n, approved[n], held, inflight)
  PROVE  /\ \A m \in Members : m # n => /\ state'[m] = state[m] /\ timer'[m] = timer[m]
                                        /\ round'[m] = round[m] /\ pending'[m] = pending[m]
         /\ state'[n] = "Freezing" /\ timer'[n] = 0
  <1>1. n \in Members /\ PhaseType /\ MintType  BY OnlineMembers, TypeParts DEF Basics
  <1>2. /\ state' = [state EXCEPT ![n] = "Freezing"] /\ timer' = [timer EXCEPT ![n] = 0]
        /\ Mint(n, IsSteward(List, n), approved[n], held, inflight)
    BY DEF EnterFreezing
  <1> DEFINE b == Built(n, approved[n])
             r == Buffer(n, held, b)
  <1>3. /\ round' = [round EXCEPT ![n] = r] \/ round' = [round EXCEPT ![n] = held]
        /\ pending' = [pending EXCEPT ![n] = {b}] \/ pending' = [pending EXCEPT ![n] = @]
    BY <1>1, <1>2, MintAdds
  <1> HIDE DEF b, r
  <1>4. \A m \in Members : m # n => round'[m] = round[m] /\ pending'[m] = pending[m]
    BY <1>3, <1>1 DEF MintType
  <1> QED  BY <1>1, <1>2, <1>4 DEF PhaseType

\* A member that waits freezes, with the candidates held.
LEMMA FreezeStep ==
  ASSUME Timely, Basics, Rounds, RoundPhase, NEW n \in Online, Waits(n),
         NEW held, NEW inflight, Freezes(n, held, inflight), UNCHANGED <<decided, early>>
  PROVE  Rounds'
  <1>0. /\ WorkInv /\ IdleInv /\ ChainInv /\ Open(n) /\ n \in Members
    BY OnlineMembers DEF Rounds, Waits
  <1>1. /\ inflight \in SUBSET wire /\ UNCHANGED <<outcomes, approved, chain, left>>
        /\ EnterFreezing(n, approved[n], held, inflight) /\ held \in SUBSET View(n)
    BY DEF Freezes
  <1>2. /\ \A m \in Members : m # n => /\ state'[m] = state[m] /\ timer'[m] = timer[m]
                                       /\ round'[m] = round[m] /\ pending'[m] = pending[m]
        /\ state'[n] = "Freezing" /\ timer'[n] \in 0..FreezeDuration
    <2>1. 0 \in 0..FreezeDuration  BY WindowFields
    <2> QED  BY <1>1, <2>1, FreezeOthers
  <1>3. RoundPhase'  BY <1>0, FreezeWin
  <1>4. /\ Started' /\ (\A m : Minters(m)' = Minters(m))
        /\ (\A m : (Open(m)' <=> Open(m)))
        /\ \A m \in Members : Waits(m)' <=> Waits(m) /\ m # n
    BY FreezeSame
  <1>5. PICK B \in SUBSET CandType :
          /\ B = {} <=> n \notin Minters(n)
          /\ \A c \in B : c.from = n /\ c.parent = chain[n] /\ c.batch = Due(n)
          /\ \A c, d \in B : c = d
          /\ \A m \in Online : View(m)' = View(m) \cup B
          /\ \A m \in Members : round'[m] = IF m = n THEN held \cup B ELSE round[m]
          /\ \A y \in wire' : y \in inflight \/ (y.cand \in B /\ y.to # n /\ y.age = 0 /\ Open(y.to))
          /\ \A x, y \in wire' : x \notin inflight /\ y \notin inflight /\ x.to = y.to => x = y
    BY <1>0, FreezeAdds
  <1>6. \A y \in wire' : y.age <= Delta /\ Open(y.to)
    BY <1>0, <1>1, <1>5, WindowFields DEF IdleInv
  <1>7. ASSUME NEW m \in Online, Decisive(m)  PROVE Decisive(m)' /\ View(m)' = View(m)
    <2>1. Open(m) /\ (\A s \in Minters(m) : ~Waits(s)) /\ n \notin Minters(m)
      BY <1>7 DEF Decisive
    <2>2. Minters(m) = Minters(n)  BY <1>0, <2>1, SameDue
    <2>3. View(m)' = View(m)  BY <1>5, <2>1, <2>2
    <2>4. \A s \in Minters(m) : ~Waits(s)'
      <3>1. \A s \in Minters(m) : s \in Members  BY OnlineMembers DEF Minters
      <3> QED  BY <1>4, <2>1, <3>1
    <2> QED  BY <1>4, <2>1, <2>3, <2>4 DEF Decisive
  <1> QED  BY <1>0, <1>1, <1>2, <1>3, <1>4, <1>6, <1>7, StillStep

LEMMA InactivityStep ==
  ASSUME Timely, Basics, Rounds, NEW n \in Online, FreezeOnInactivity(n)
  PROVE  Rounds'
  <1>0. FreezeDue(n) /\ WorkInv /\ IdleInv /\ Waits(n)
    BY DEF FreezeOnInactivity, FreezeDue, Rounds, Waits, Open
  <1>1. RoundPhase
    <2>1. CASE Started  BY <2>1 DEF Rounds
    <2>2. CASE ~Started  BY <1>0, <2>2, GatherDone DEF Rounds
    <2> QED  BY <2>1, <2>2
  <1>2. round[n] = {}  BY <1>0, Timers
  <1>3. Freezes(n, round[n], wire) /\ UNCHANGED <<decided, early>>
    <2>1. \A c : c \in View(n) <=> c \in round[n] \/ \E x \in wire : x.to = n /\ x.cand = c
      BY DEF View, Inbox
    <2> QED  BY <1>2, <2>1 DEF Freezes, FreezeOnInactivity
  <1> QED  BY <1>0, <1>1, <1>3, FreezeStep

\* A copy for the group state its receiver is at is not ignored.
LEMMA NotIgnored ==
  ASSUME Basics, NEW n \in Members, NEW c \in CandType, Sound(c), c.parent = chain[n]
  PROVE  ~Ignored(n, c)
  <1>0. ~Overdue(n, c)
    <2>1. chain[n] \in Seq(CommitType)  BY MemberFields DEF Basics
    <2>2. Len(chain[n]) \in Nat  BY <2>1
    <2> QED  BY <2>2 DEF Overdue
  <1> SUFFICES ASSUME NEW i \in DOMAIN chain[n], chain[n][i] = Commit(c)  PROVE FALSE
    BY <1>0 DEF Ignored, Committed
  <1>1. chain[n][i].batch = c.batch  BY DEF Commit
  <1>2. c.batch \subseteq CarriedBy(chain[n])  BY <1>1 DEF CarriedBy
  <1> QED  BY <1>2 DEF Sound

\* In a round every copy is new to its receiver and has room.
LEMMA RoomToReceive ==
  ASSUME Timely, Basics, WorkInv, RoundPhase, NEW x \in wire, x.to \in Online, Open(x.to)
  PROVE  /\ ~Ignored(x.to, x.cand) /\ x.cand \notin round[x.to]
         /\ Buffer(x.to, round[x.to], x.cand) = round[x.to] \cup {x.cand}
  <1> DEFINE n == x.to
             V == View(n)
             R == round[n]
             M == Minters(n)
  <1>0. n \in Members /\ x.cand \in CandType /\ Sound(x.cand) /\ OneEach(n)
    BY OnlineMembers, CopyFields, TypeParts DEF Basics, CandidateInv, WireInv, RoundPhase, Win
  <1>1. x.cand \in V /\ R \subseteq V  BY DEF View, Inbox
  <1>2. x.cand \notin R /\ x.cand.parent = chain[n]  BY <1>0, <1>1 DEF OneEach
  <1>3. ~Ignored(n, x.cand)  BY <1>0, <1>2, NotIgnored
  <1>4. /\ IsFiniteSet(M) /\ Cardinality(M) \in Nat /\ Cardinality(Group(n)) \in Nat
        /\ Cardinality(M) <= Cardinality(Group(n))
    BY MintersFit
  <1>5. /\ \A c \in V : c.from \in M
        /\ \A c, d \in V : c.from = d.from => c = d
    BY <1>0 DEF OneEach
  <1> HIDE DEF V, M, R, n
  <1>6. IsFiniteSet(V) /\ Cardinality(V) \in Nat /\ Cardinality(V) <= Cardinality(M)
    BY <1>4, <1>5, OnePerMinter
  <1>7. /\ IsFiniteSet(R) /\ Cardinality(R) <= Cardinality(V)
        /\ Cardinality(R) = Cardinality(V) => R = V
    BY <1>1, <1>6, FS_Subset
  <1>8. Cardinality(R) \in Nat  BY <1>7, FS_CardinalityType
  <1>9. ~(Cardinality(R) >= Cardinality(Group(n)))  BY <1>1, <1>2, <1>4, <1>6, <1>7, <1>8
  <1> QED  BY <1>2, <1>3, <1>9 DEF Buffer, n, R

\* A member that froze takes a copy: nobody's view changes.
LEMMA ReceiveWin ==
  ASSUME Timely, Basics, WorkInv, RoundPhase, NEW x \in wire, NEW n \in Online, x.to = n,
         Open(n), x.cand \notin round[n],
         round' = [round EXCEPT ![n] = round[n] \cup {x.cand}], wire' = wire \ {x},
         UNCHANGED <<outcomes, approved, chain, left, state, timer>>
  PROVE  RoundPhase' /\ \A m \in Online : View(m)' = View(m) /\ (Waits(m)' <=> Waits(m))
  <1>0. n \in Members /\ MintType /\ \A m \in Online : m \in Members  BY OnlineMembers, TypeParts DEF Basics
  <1>1. /\ Online' = Online
        /\ \A m : /\ Due(m)' = Due(m) /\ Minters(m)' = Minters(m)
                  /\ (Open(m)' <=> Open(m))
    BY SameQueues
  <1>2. \A m \in Members : round'[m] = IF m = n THEN round[n] \cup {x.cand} ELSE round[m]
    BY <1>0 DEF MintType
  <1>3. \A m : Waits(m)' <=> Waits(m)  BY <1>1 DEF Waits
  <1>4. ASSUME NEW m \in Online  PROVE View(m)' = View(m)
    <2>1. \A c : c \in View(m)' <=> c \in round'[m] \/ \E y \in wire' : y.to = m /\ y.cand = c
      BY DEF View, Inbox
    <2>2. \A c : c \in View(m) <=> c \in round[m] \/ \E y \in wire : y.to = m /\ y.cand = c
      BY DEF View, Inbox
    <2>3. \A c : c \in View(m)' <=> c \in View(m)
      <3>1. CASE m = n  BY <1>0, <1>2, <2>1, <2>2, <3>1
      <3>2. CASE m # n  BY <1>0, <1>2, <2>1, <2>2, <3>2
      <3> QED  BY <3>1, <3>2
    <2> QED  BY <2>3
  <1>5. ASSUME NEW m \in Online, Open(m)  PROVE Win(m)'
    <2>2. Win(m)  BY <1>5 DEF RoundPhase
    <2>3. OneEach(m)'
      <3>0. OneEach(m)  BY <2>2 DEF Win
      <3>1. \A c \in View(m)' : c.from \in Minters(m) /\ c.parent = chain[m] /\ c.batch = Due(m)
        BY <1>4, <3>0 DEF OneEach
      <3>2. \A k \in Online : Open(k) => \A c \in View(m)', d \in View(k)' : c.from = d.from => c = d
        BY <1>4, <3>0 DEF OneEach
      <3>3. \A s \in Minters(m) : Waits(s)' <=> \A c \in View(m)' : c.from # s
        BY <1>3, <1>4, <3>0 DEF OneEach
      <3>4. ASSUME NEW y \in wire', NEW z \in wire', y.to = m, z.to = m
            PROVE  y.cand \notin round'[m] /\ (y.cand = z.cand => y = z)
        <4>1. \A u, v \in wire : u.to = m /\ v.to = m => u.cand \notin round[m] /\ (u.cand = v.cand => u = v)
          BY <3>0 DEF OneEach
        <4>2. y \in wire /\ z \in wire /\ y # x  BY <3>4
        <4>3. m = n => y.cand # x.cand  BY <3>4, <4>1, <4>2
        <4> QED  BY <1>0, <1>2, <3>4, <4>1, <4>2, <4>3
      <3> QED  BY <1>1, <3>1, <3>2, <3>3, <3>4 DEF OneEach
    <2>4. OnTime(m)'
      <3>0. OnTime(m)  BY <2>2 DEF Win
      <3>1. \A y \in wire' : y \in wire  OBVIOUS
      <3> QED  BY <1>1, <1>3, <3>0, <3>1 DEF OnTime
    <2>5. state'[m] # "Reelection"  BY <2>2 DEF Win
    <2> QED  BY <2>3, <2>4, <2>5 DEF Win
  <1> QED  BY <1>1, <1>3, <1>4, <1>5 DEF RoundPhase

LEMMA ReceiveStep ==
  ASSUME Timely, Basics, Rounds, NEW x \in wire, Receive(x)
  PROVE  Rounds'
  <1> DEFINE n == x.to
             held == Buffer(n, round[n], x.cand)
             fresh == ~Ignored(n, x.cand) /\ held # round[n]
  <1>0. /\ WorkInv /\ IdleInv /\ ChainInv /\ RoundPhase /\ Started
        /\ n \in Online /\ n \in Members /\ Open(n) /\ MintType /\ PhaseType
        /\ state[n] \in {"Working", "Freezing", "Reelection"}
    <2>1. Started /\ WorkInv /\ IdleInv /\ ChainInv /\ RoundPhase  BY DEF Started, Rounds
    <2>2. Open(n) /\ n \in Online  BY <2>1 DEF IdleInv, Open
    <2> QED  BY <2>1, <2>2, OnlineMembers, TypeParts, MemberFields DEF Basics
  <1>1. /\ UNCHANGED <<decided, outcomes, approved, early, chain, left>>
        /\ IF fresh /\ state[n] \in {"Working", "Reelection"}
           THEN EnterFreezing(n, approved[n], held, wire \ {x})
           ELSE /\ round' = IF fresh THEN [round EXCEPT ![n] = held] ELSE round
                /\ wire' = wire \ {x}
                /\ UNCHANGED <<state, timer, pending, minted>>
    BY DEF Receive
  <1>2. /\ \A m : /\ Minters(m)' = Minters(m) /\ (Open(m)' <=> Open(m))
        /\ Online' = Online
    BY <1>1, SameQueues
  <1>3. \A c : c \in View(n) <=> c \in round[n] \/ \E y \in wire : y.to = n /\ y.cand = c
    BY DEF View, Inbox
  <1>4. held \subseteq round[n] \cup {x.cand} /\ held \subseteq View(n)
    BY <1>3 DEF Buffer
  <1>5. CASE Waits(n)
    <2>1. state[n] = "Working" /\ round[n] = {}  BY <1>0, <1>5, Timers DEF Waits
    <2>2. fresh /\ held = {x.cand}  BY <1>0, <2>1, RoomToReceive
    <2>3. EnterFreezing(n, approved[n], held, wire \ {x})  BY <1>1, <2>1, <2>2
    <2> HIDE DEF fresh, held
    <2>4. OneEach(n)  BY <1>0 DEF RoundPhase, Win
    <2>5. \A y \in wire \ {x} : y.to = n => y.cand # x.cand  BY <2>4 DEF OneEach
    <2>6. Freezes(n, held, wire \ {x})
      <3>1. \A y \in wire : y.to # n => y \in wire \ {x}  OBVIOUS
      <3>2. \A c : c \in View(n) <=> c \in held \/ \E y \in wire \ {x} : y.to = n /\ y.cand = c
        BY <1>3, <2>1, <2>2
      <3> QED  BY <1>1, <2>2, <2>3, <2>5, <3>1, <3>2 DEF Freezes
    <2> QED  BY <1>0, <1>1, <1>5, <2>6, FreezeStep
  <1>6. CASE ~Waits(n)
    <2>1. state[n] = "Freezing"  BY <1>0, <1>6 DEF Waits, RoundPhase, Win
    <2>2. /\ round' = IF fresh THEN [round EXCEPT ![n] = held] ELSE round
          /\ wire' = wire \ {x} /\ UNCHANGED <<state, timer, pending, minted>>
      BY <1>1, <2>1
    <2>3. /\ Started' /\ state'[n] # "Working"
          /\ state'[n] = "Freezing" => timer'[n] \in 0..FreezeDuration
          /\ \A y \in wire' : y.age <= Delta /\ Open(y.to)
      BY <1>0, <1>2, <2>1, <2>2 DEF Started, IdleInv
    <2>4. \A m \in Members : m # n => /\ state'[m] = state[m] /\ timer'[m] = timer[m]
                                      /\ round'[m] = round[m] /\ pending'[m] = pending[m]
      <3> HIDE DEF fresh, held
      <3> QED  BY <1>0, <2>2 DEF MintType
    <2>5. RoundPhase' /\ \A m \in Online : Decisive(m) => Decisive(m)' /\ View(m)' = View(m)
      <3>1. /\ fresh /\ held = round[n] \cup {x.cand} /\ x.cand \notin round[n]
        BY <1>0, RoomToReceive
      <3>2. round' = [round EXCEPT ![n] = round[n] \cup {x.cand}]  BY <2>2, <3>1
      <3>3. RoundPhase' /\ \A m \in Online : View(m)' = View(m) /\ (Waits(m)' <=> Waits(m))
        BY <1>0, <1>1, <2>2, <3>1, <3>2, ReceiveWin
      <3>4. \A m : \A s \in Minters(m) : s \in Online  BY DEF Minters
      <3>5. \A m \in Online : Decisive(m) => Decisive(m)'  BY <1>2, <3>3, <3>4 DEF Decisive
      <3> QED  BY <3>3, <3>5
    <2> HIDE DEF fresh, held
    <2> QED  BY <1>0, <1>1, <2>3, <2>4, <2>5, StillStep
  <1> QED  BY <1>5, <1>6

\* No window closes without a candidate that applies.
LEMMA NobodyFails ==
  ASSUME Timely, Basics, Rounds, NEW n \in Online, RoundFails(n)
  PROVE  FALSE
  <1>1. RoundReady(n) /\ Selected(n) = {} /\ state[n] = "Freezing"  BY DEF RoundFails, RoundReady
  <1>2. Started  BY <1>1 DEF Started
  <1>3. WorkInv /\ IdleInv /\ ChainInv /\ RoundPhase  BY <1>2 DEF Rounds
  <1>4. Open(n)  BY <1>1, <1>3, Timers
  <1>5. Selected(n) = Chosen(n)  BY <1>1, <1>3, <1>4, ReadySelects
  <1>6. \A s \in Minters(n) : ~Waits(s)  BY <1>1, <1>3, <1>4, ReadyHasAll
  <1>7. Chosen(n) # {}  BY <1>3, <1>4, <1>6, ChosenExists
  <1> QED  BY <1>1, <1>5, <1>7

------------------------------------------------------------------------------
\* Merging

LEMMA PrefixSelf ==
  ASSUME NEW h \in Seq(CommitType)
  PROVE  IsPrefixOf(h, h)
  <1>1. h = SubSeq(h, 1, Len(h)) /\ Len(h) \in Nat  OBVIOUS
  <1> QED  BY <1>1 DEF IsPrefixOf

LEMMA PrefixOfAppend ==
  ASSUME NEW h \in Seq(CommitType), NEW k \in Seq(CommitType), NEW c \in CommitType, IsPrefixOf(h, k)
  PROVE  IsPrefixOf(h, Append(k, c))
  <1>1. /\ Len(h) \in Nat /\ Len(k) \in Nat /\ Len(h) <= Len(k) /\ h = SubSeq(k, 1, Len(h))
        /\ Len(Append(k, c)) = Len(k) + 1 /\ Append(k, c) \in Seq(CommitType)
    BY DEF IsPrefixOf
  <1>2. SubSeq(Append(k, c), 1, Len(h)) = SubSeq(k, 1, Len(h))
    <2> DEFINE a == SubSeq(Append(k, c), 1, Len(h))
               b == SubSeq(k, 1, Len(h))
    <2>1. a \in Seq(CommitType) /\ b \in Seq(CommitType) /\ Len(a) = Len(h) /\ Len(b) = Len(h)
      BY <1>1
    <2>2. \A i \in 1..Len(h) : a[i] = k[i] /\ b[i] = k[i]  BY <1>1
    <2> QED  BY <1>1, <2>1, <2>2
  <1> QED  BY <1>1, <1>2 DEF IsPrefixOf

LEMMA AppendDiffers ==
  ASSUME NEW h \in Seq(CommitType), NEW c \in CommitType
  PROVE  Append(h, c) # h
  <1>1. Len(Append(h, c)) = Len(h) + 1 /\ Len(h) \in Nat  OBVIOUS
  <1> QED  BY <1>1

\* What n merges: all that is due, by the one candidate everybody will choose.
LEMMA MergesDue ==
  ASSUME Timely, Basics, Rounds, NEW n \in Online, NEW w \in Selected(n), RoundReady(n)
  PROVE  /\ Started /\ RoundPhase /\ Open(n) /\ state[n] = "Freezing"
         /\ w \in Chosen(n) /\ (\A v \in Chosen(n) : v = w)
         /\ w.batch = Due(n) /\ w.from \in Minters(n)
         /\ Commit(w) \in CommitType /\ Commit(w).batch = Due(n)
         /\ (\A s \in Minters(n) : ~Waits(s)) /\ (\A x \in wire : x.to # n)
         /\ (Ejects(n, w) <=> Remove(n) \in Due(n))
  <1>0. /\ WorkInv /\ IdleInv /\ ChainInv /\ RoundPhase /\ Started
        /\ n \in Members /\ Open(n) /\ MintType /\ GroupType /\ mode[n] = "Normal" /\ state[n] = "Freezing"
    <2>1. state[n] = "Freezing"  BY DEF RoundReady
    <2>2. Started  BY <2>1 DEF Started
    <2>3. WorkInv /\ IdleInv /\ ChainInv /\ RoundPhase  BY <2>2 DEF Rounds
    <2>4. Open(n) /\ n \in Members  BY <2>1, <2>3, Timers, OnlineMembers
    <2> QED  BY <2>1, <2>2, <2>3, <2>4, TypeParts DEF Basics, NormalInv
  <1>1. Selected(n) = Earliest(Best({Ranked(c) : c \in Fit(n)}, StewardNow(n)))
    BY <1>0, SelectedIsBestFit DEF Basics, Timely
  <1>2. Selected(n) = Chosen(n)  BY <1>0, ReadySelects
  <1>3. \A v \in Chosen(n) : v = w  BY <1>0, <1>1, <1>2, OneBestFit
  <1>4. w.batch = Due(n) /\ w.from \in Minters(n)
    <2>1. PICK c \in View(n) : w = Ranked(c)  BY <1>2 DEF Chosen, Earliest, Best
    <2>2. c.batch = Due(n) /\ c.from \in Minters(n)
      BY <1>0 DEF RoundPhase, Win, OneEach
    <2> QED  BY <2>1, <2>2 DEF Ranked
  <1>5. Commit(w) \in CommitType /\ Commit(w).batch = Due(n)  BY <1>0, <1>4, SelectedFrom
  <1>6. (\A s \in Minters(n) : ~Waits(s)) /\ Inbox(n) = {}  BY <1>0, ReadyHasAll
  <1>7. \A x \in wire : x.to # n  BY <1>6 DEF Inbox
  <1>8. KnowsOfRemoval
    <2>1. \A m \in Online : mode[m] # "Recovery"  BY OnlineMembers DEF Basics, NormalInv
    <2> QED  BY <2>1 DEF KnowsOfRemoval, Timely
  <1>9. Ejects(n, w) <=> Remove(n) \in Due(n)
    <2>1. CandidateInv  BY DEF Basics
    <2> QED  BY <1>0, <1>4, <1>8, <2>1, EjectsTheRemoved
  <1> QED  BY <1>0, <1>2, <1>3, <1>4, <1>5, <1>6, <1>7, <1>9

\* What the merge of n leaves of the others' round: everything.
LEMMA MergeSame ==
  ASSUME Timely, Basics, Rounds, NEW n \in Online, NEW w \in Selected(n), Apply(n, w)
  PROVE  /\ UNCHANGED <<decided, outcomes, wire, early>> /\ outcomes = {}
         /\ chain' = [chain EXCEPT ![n] = Append(chain[n], Commit(w))]
         /\ Online' \subseteq Online /\ Online \ {n} \subseteq Online'
         /\ (n \in Online' <=> Remove(n) \notin Due(n))
         /\ approved'[n] = EmptyQueue /\ state'[n] = "Working" /\ timer'[n] = Off
         /\ round'[n] = {} /\ pending'[n] = {}
         /\ \A m \in Members : m # n =>
              /\ state'[m] = state[m] /\ timer'[m] = timer[m] /\ approved'[m] = approved[m]
              /\ round'[m] = round[m] /\ pending'[m] = pending[m] /\ chain'[m] = chain[m]
         /\ \A m \in Members : /\ Open(m)' <=> Open(m) /\ m # n
                               /\ Waits(m)' <=> Waits(m)
  <1>1. /\ RoundReady(n)
        /\ chain' = [chain EXCEPT ![n] = Append(chain[n], Commit(w))]
        /\ pending' = [pending EXCEPT ![n] = {}]
        /\ round' = [round EXCEPT ![n] = {}]
        /\ approved' = [approved EXCEPT ![n] = EmptyQueue]
        /\ state' = [state EXCEPT ![n] = "Working"]
        /\ timer' = [timer EXCEPT ![n] = Off]
        /\ left' = IF Ejects(n, w) THEN left \cup {n} ELSE left
        /\ outcomes' = {o \in outcomes : ~(Ejects(n, w) /\ o.to = n)}
        /\ wire' = {x \in wire : ~(Ejects(n, w) /\ x.to = n)}
        /\ UNCHANGED <<decided, early>>
    BY DEF Apply
  <1>2. /\ outcomes = {} /\ (\A x \in wire : x.to # n) /\ state[n] = "Freezing"
        /\ (Ejects(n, w) <=> Remove(n) \in Due(n))
    BY <1>1, MergesDue DEF RoundPhase
  <1>3. MintType /\ PhaseType /\ GroupType /\ n \in Members  BY TypeParts, OnlineMembers DEF Basics
  <1>4. outcomes' = outcomes /\ wire' = wire  BY <1>1, <1>2
  <1>5. /\ Online' \subseteq Online /\ Online \ {n} \subseteq Online'
        /\ (n \in Online' <=> Remove(n) \notin Due(n))
    BY <1>1, <1>2, <1>3 DEF Online
  <1>6. /\ approved'[n] = EmptyQueue /\ state'[n] = "Working" /\ timer'[n] = Off
        /\ round'[n] = {} /\ pending'[n] = {}
    BY <1>1, <1>3 DEF MintType, PhaseType, GroupType
  <1>7. \A m \in Members : m # n =>
          /\ state'[m] = state[m] /\ timer'[m] = timer[m] /\ approved'[m] = approved[m]
          /\ round'[m] = round[m] /\ pending'[m] = pending[m] /\ chain'[m] = chain[m]
    BY <1>1, <1>3 DEF MintType, PhaseType, GroupType
  <1>8. \A m \in Members : Open(m)' <=> Open(m) /\ m # n
    BY <1>5, <1>6, <1>7 DEF Open, EmptyQueue
  <1>9. \A m \in Members : Waits(m)' <=> Waits(m)  BY <1>2, <1>7, <1>8 DEF Waits
  <1> QED  BY <1>1, <1>2, <1>4, <1>5, <1>6, <1>7, <1>8, <1>9

LEMMA MergeRound ==
  ASSUME Timely, Basics, Rounds, NEW n \in Online, NEW w \in Selected(n), Apply(n, w)
  PROVE  /\ RoundPhase'
         /\ \A m \in Online' : Open(m)' => /\ Started' /\ Decisive(m)' /\ Open(m) /\ m # n
                                           /\ Chosen(m)' = Chosen(n) /\ Chosen(m) = Chosen(n)
                                           /\ chain[m] = chain[n]
  <1>0. /\ WorkInv /\ IdleInv /\ ChainInv /\ RoundPhase /\ Open(n) /\ n \in Members
        /\ (\A s \in Minters(n) : ~Waits(s)) /\ Commit(w) \in CommitType /\ chain[n] \in Seq(CommitType)
    <2>1. RoundReady(n)  BY DEF Apply
    <2>2. WorkInv /\ IdleInv /\ ChainInv  BY DEF Rounds
    <2> QED  BY <2>1, <2>2, MergesDue, OnlineMembers, MemberFields DEF Basics
  <1>1. /\ UNCHANGED <<outcomes, wire>> /\ outcomes = {}
        /\ chain' = [chain EXCEPT ![n] = Append(chain[n], Commit(w))]
        /\ Online' \subseteq Online /\ Online \ {n} \subseteq Online'
        /\ (n \in Online' <=> Remove(n) \notin Due(n))
        /\ \A m \in Members : m # n =>
             /\ state'[m] = state[m] /\ timer'[m] = timer[m] /\ approved'[m] = approved[m]
             /\ round'[m] = round[m] /\ chain'[m] = chain[m]
        /\ \A m \in Members : /\ Open(m)' <=> Open(m) /\ m # n
                              /\ Waits(m)' <=> Waits(m)
    BY MergeSame
  <1>2. \A m \in Online' : m \in Online /\ m \in Members  BY <1>1, OnlineMembers
  <1>3. ASSUME NEW m \in Online', Open(m)'
        PROVE  /\ Open(m) /\ m # n /\ m \in Online /\ m \in Members /\ chain[m] = chain[n] /\ chain'[m] = chain[m]
               /\ Due(m)' = Due(m) /\ Due(m) = Due(n)
               /\ Minters(m)' = Minters(m) /\ Minters(m) = Minters(n)
               /\ View(m)' = View(m)
               /\ Chosen(m)' = Chosen(m) /\ Chosen(m) = Chosen(n)
    <2>1. Open(m) /\ m # n /\ m \in Online /\ m \in Members  BY <1>1, <1>2, <1>3
    <2>2. /\ chain[m] = chain[n] /\ Due(m) = Due(n) /\ Minters(m) = Minters(n)
          /\ chain'[m] = chain[m] /\ approved'[m] = approved[m]
      BY <1>0, <1>1, <2>1, SameDue
    <2>3. Due(m)' = Due(m)  BY <2>2 DEF Due
    <2>4. Minters(m)' = Minters(m)
      BY <1>1, <2>2, <2>3 DEF Minters, IsSteward, List
    <2>5. View(m)' = View(m)  BY <1>1, <2>1 DEF View, Inbox
    <2>6. StewardNow(m)' = StewardNow(m)
      <3>1. Group(m)' = Group(m) /\ Epoch(m)' = Epoch(m)
        BY <2>2 DEF Group, MembersAfter, Epoch, EpochAfter
      <3> DEFINE E == {k \in Group(m) : ~HasRemoval(approved[m], k)}
      <3>2. E' = E  BY <2>2, <3>1 DEF HasRemoval, ChangesOf
      <3> QED  BY <3>1, <3>2 DEF StewardNow, List
    <2>7. Chosen(m)' = Chosen(m)  BY <2>5, <2>6 DEF Chosen
    <2>8. Chosen(m) = Chosen(n)  BY <1>0, <2>1, SameChosen
    <2> QED  BY <2>1, <2>2, <2>3, <2>4, <2>5, <2>7, <2>8
  <1>4. ASSUME NEW m \in Online', Open(m)'  PROVE Win(m)'
    <2>1. Open(m) /\ m \in Online /\ m \in Members /\ m # n  BY <1>3, <1>4
    <2>2. Win(m)  BY <1>0, <2>1 DEF RoundPhase
    <2>3. OneEach(m)'
      <3>0. OneEach(m)  BY <2>2 DEF Win
      <3>1. \A c \in View(m)' : c.from \in Minters(m)' /\ c.parent = chain'[m] /\ c.batch = Due(m)'
        BY <1>3, <1>4, <3>0 DEF OneEach
      <3>2. \A k \in Online' : Open(k)' => \A c \in View(m)', d \in View(k)' : c.from = d.from => c = d
        BY <1>3, <1>4, <3>0 DEF OneEach
      <3>3. \A s \in Minters(m)' : Waits(s)' <=> \A c \in View(m)' : c.from # s
        <4>1. \A s \in Minters(m) : s \in Members  BY OnlineMembers DEF Minters
        <4> QED  BY <1>1, <1>3, <1>4, <3>0, <4>1 DEF OneEach
      <3>4. \A x, y \in wire' : x.to = m /\ y.to = m =>
              x.cand \notin round'[m] /\ (x.cand = y.cand => x = y)
        BY <1>1, <2>1, <3>0 DEF OneEach
      <3> QED  BY <3>1, <3>2, <3>3, <3>4 DEF OneEach
    <2>4. OnTime(m)'
      <3>0. OnTime(m)  BY <2>2 DEF Win
      <3>1. \A k \in Online' : Waits(k)' => k # n /\ k \in Online /\ k \in Members /\ Waits(k)
        BY <1>1, <1>2 DEF Waits
      <3> QED  BY <1>1, <2>1, <3>0, <3>1 DEF OnTime
    <2>5. state'[m] # "Reelection"  BY <1>1, <2>1, <2>2 DEF Win
    <2> QED  BY <2>3, <2>4, <2>5 DEF Win
  <1>5. RoundPhase'
    <2>1. \A k, m \in Online' : Open(k)' /\ Open(m)' => chain'[k] = chain'[m]  BY <1>3
    <2>2. outcomes' = {}  BY <1>1
    <2> QED  BY <1>4, <2>1, <2>2 DEF RoundPhase
  <1>6. ASSUME NEW m \in Online', Open(m)'  PROVE Started' /\ Decisive(m)'
    <2>0. /\ m # n /\ m \in Members /\ m \in Online /\ Open(m) /\ chain'[m] = chain[m] /\ chain[m] = chain[n]
      BY <1>3, <1>6
    <2>1. Decisive(m)'
      <3>1. \A s \in Minters(m)' : s \in Minters(n) /\ s \in Members
        BY <1>3, <1>6, OnlineMembers DEF Minters
      <3>2. \A s \in Minters(m)' : ~Waits(s)'  BY <1>0, <1>1, <3>1
      <3> QED  BY <1>3, <1>6, <3>2 DEF Decisive
    <2>2. CASE n \in Online'
      <3>1. chain'[n] = Append(chain[n], Commit(w))
        <4>1. GroupType  BY TypeParts DEF Basics
        <4> QED  BY <1>0, <1>1, <4>1 DEF GroupType
      <3>2. chain'[n] # chain'[m]  BY <1>0, <2>0, <3>1, AppendDiffers
      <3> QED  BY <2>1, <2>2, <3>2 DEF Started
    <2>3. CASE n \notin Online'
      <3>1. PICK s \in Minters(n) : TRUE  BY DEF Basics, Winnable
      <3>2. s \in Online /\ s # n /\ s \in Members  BY <1>1, <2>3, <3>1, OnlineMembers DEF Minters
      <3>3. s \in Online' /\ state'[s] = state[s] /\ chain'[s] = chain[s]  BY <1>1, <3>2
      <3>4. CASE Open(s)
        <4>1. state[s] # "Working"  BY <1>0, <3>1, <3>4 DEF Waits
        <4> QED  BY <2>1, <3>3, <4>1 DEF Started
      <3>5. CASE ~Open(s)
        <4>1. chain[s] # chain[m]  BY <1>0, <2>0, <3>2, <3>5, DoneIsAhead
        <4> QED  BY <2>0, <2>1, <3>3, <4>1 DEF Started
      <3> QED  BY <3>4, <3>5
    <2> QED  BY <2>2, <2>3
  <1> QED  BY <1>3, <1>5, <1>6

LEMMA ApplyStep ==
  ASSUME Timely, Basics, Rounds, NEW n \in Online, NEW w \in Selected(n), Apply(n, w)
  PROVE  Rounds'
  <1> DEFINE C == Commit(w)
             g == Append(chain[n], C)
  <1>0. /\ Agreement /\ WorkInv /\ IdleInv /\ ChainInv /\ RoundPhase /\ Open(n) /\ n \in Members
        /\ C \in CommitType /\ C.batch = Due(n) /\ (\A v \in Chosen(n) : v = w) /\ w \in Chosen(n)
        /\ GroupType
    <2>1. RoundReady(n)  BY DEF Apply
    <2>2. Agreement /\ WorkInv /\ IdleInv /\ ChainInv  BY DEF Rounds
    <2> QED  BY <2>1, <2>2, MergesDue, OnlineMembers, TypeParts DEF Basics
  <1>1. /\ UNCHANGED <<decided, outcomes, wire, early>> /\ outcomes = {}
        /\ chain' = [chain EXCEPT ![n] = g]
        /\ Online' \subseteq Online /\ Online \ {n} \subseteq Online'
        /\ approved'[n] = EmptyQueue /\ state'[n] = "Working" /\ timer'[n] = Off
        /\ round'[n] = {} /\ pending'[n] = {}
        /\ \A m \in Members : m # n =>
             /\ state'[m] = state[m] /\ timer'[m] = timer[m] /\ approved'[m] = approved[m]
             /\ round'[m] = round[m] /\ pending'[m] = pending[m] /\ chain'[m] = chain[m]
        /\ \A m \in Members : /\ Open(m)' <=> Open(m) /\ m # n
                              /\ Waits(m)' <=> Waits(m)
    BY MergeSame
  <1>2. /\ RoundPhase'
        /\ \A m \in Online' : Open(m)' => /\ Started' /\ Decisive(m)' /\ Open(m) /\ m # n
                                          /\ Chosen(m)' = Chosen(n) /\ Chosen(m) = Chosen(n)
                                          /\ chain[m] = chain[n]
    BY MergeRound
  <1>3. /\ chain'[n] = g /\ g \in Seq(CommitType)
        /\ \A m \in Members : chain[m] \in Seq(CommitType)
    <2>1. chain[n] \in Seq(CommitType)  BY <1>0 DEF GroupType
    <2>2. g \in Seq(CommitType)  BY <1>0, <2>1
    <2> QED  BY <1>0, <1>1, <2>2 DEF GroupType
  <1>4. \A m \in Online' : m \in Online /\ m \in Members  BY <1>1, OnlineMembers
  <1>5. Due(n) = decided \ CarriedBy(chain[n]) /\ CarriedBy(g) = decided
    <2>1. Due(n) = decided \ CarriedBy(chain[n])  BY <1>0, SameDue
    <2>2. CarriedBy(chain[n]) \subseteq decided  BY <1>0 DEF WorkInv, WorkOf
    <2>3. CarriedBy(g) = CarriedBy(chain[n]) \cup Due(n)  BY <1>0, <1>3, CarriedAppend
    <2> QED  BY <2>1, <2>2, <2>3
  <1> HIDE DEF g, C
  <1>6. WorkInv'
    <2>1. \A m : Heading(m)' = {} /\ Heading(m) = {}  BY <1>1 DEF Heading
    <2>2. ASSUME NEW m \in Online'  PROVE WorkOf(m)' /\ InOrder(approved'[m])
      <3>1. CASE m = n
        <4>1. Due(m)' = {} /\ InOrder(approved'[m])
          BY <1>1, <3>1 DEF Due, ChangesOf, EmptyQueue, InOrder
        <4>2. CarriedBy(chain[m])' = decided  BY <1>3, <1>5, <3>1 DEF CarriedBy
        <4> QED  BY <1>1, <2>1, <4>1, <4>2 DEF WorkOf
      <3>2. CASE m # n
        <4>1. WorkOf(m) /\ InOrder(approved[m])  BY <1>0, <1>4 DEF WorkInv
        <4>2. chain'[m] = chain[m] /\ approved'[m] = approved[m]  BY <1>1, <1>4, <3>2
        <4>3. Due(m)' = Due(m) /\ CarriedBy(chain[m])' = CarriedBy(chain[m])
          BY <4>2 DEF Due, CarriedBy
        <4> QED  BY <1>1, <2>1, <4>1, <4>2, <4>3 DEF WorkOf
      <3> QED  BY <3>1, <3>2
    <2> QED  BY <1>0, <1>1, <2>2 DEF WorkInv, InOrder
  <1>7. IdleInv'
    <2>1. \A m \in left' : state'[m] = "Working"
      <3>1. \A m \in left' : m \in Members /\ (m = n \/ m \in left)
        BY <1>0, <1>1, TypeParts DEF Apply, GroupType
      <3> QED  BY <1>0, <1>1, <3>1 DEF IdleInv
    <2>2. ASSUME NEW m \in Online'
          PROVE  /\ state'[m] = "Working" => Resting(m)'
                 /\ state'[m] # "Working" => approved'[m].entries # {}
                 /\ state'[m] = "Freezing" => timer'[m] \in 0..FreezeDuration
      <3>1. CASE m = n
        <4>1. Off <= CommitBatchWindow  BY WindowFields DEF Off
        <4>2. Resting(m)'  BY <1>1, <3>1, <4>1 DEF Resting, EmptyQueue
        <4> QED  BY <1>1, <3>1, <4>2
      <3>2. CASE m # n
        <4>1. /\ state'[m] = state[m] /\ timer'[m] = timer[m] /\ round'[m] = round[m]
              /\ pending'[m] = pending[m] /\ approved'[m] = approved[m]
          BY <1>1, <1>4, <3>2
        <4>2. Resting(m)' <=> Resting(m)  BY <4>1 DEF Resting
        <4> QED  BY <1>0, <1>4, <4>1, <4>2 DEF IdleInv
      <3> QED  BY <3>1, <3>2
    <2>3. \A m \in Members : early'[m] = {}  BY <1>0, <1>1 DEF IdleInv
    <2>4. \A x \in wire' : x.age <= Delta /\ Open(x.to)'
      <3> TAKE x \in wire'
      <3>1. x \in wire /\ x.age <= Delta /\ Open(x.to)  BY <1>0, <1>1 DEF IdleInv
      <3>2. RoundReady(n)  BY DEF Apply
      <3>3. x.to # n  BY <3>1, <3>2, MergesDue
      <3>4. x.to \in Members  BY <3>1, OnlineMembers DEF Open
      <3> QED  BY <1>1, <3>1, <3>3, <3>4
    <2>5. \A o \in outcomes' : o.age <= Delta  BY <1>1
    <2> QED  BY <2>1, <2>2, <2>3, <2>4, <2>5 DEF IdleInv
  <1>8. ASSUME NEW k \in Members, k # n  PROVE IsPrefixOf(chain[k], g)
    <2>1. Along(k, n)  BY <1>0 DEF ChainInv
    <2>2. CASE IsPrefixOf(chain[k], chain[n])
      BY <1>0, <1>3, <2>2, PrefixOfAppend DEF g
    <2>3. CASE \E v \in Chosen(n) : chain[k] = Append(chain[n], Commit(v))
      <3>1. chain[k] = g  BY <1>0, <2>3 DEF g, C
      <3> QED  BY <1>3, <3>1, PrefixSelf
    <2> QED  BY <2>1, <2>2, <2>3 DEF Along
  <1>9. Agreement'
    <2>1. ASSUME NEW k \in Members, NEW m \in Members
          PROVE  IsPrefixOf(chain'[k], chain'[m]) \/ IsPrefixOf(chain'[m], chain'[k])
      <3>1. CASE k = n /\ m = n  BY <1>3, <3>1, PrefixSelf
      <3>2. CASE k = n /\ m # n  BY <1>1, <1>3, <1>8, <3>2
      <3>3. CASE k # n /\ m = n  BY <1>1, <1>3, <1>8, <3>3
      <3>4. CASE k # n /\ m # n  BY <1>0, <1>1, <3>4 DEF Agreement
      <3> QED  BY <3>1, <3>2, <3>3, <3>4
    <2> QED  BY <2>1 DEF Agreement, IsPrefixOf
  <1>10. ChainInv'
    <2>1. ASSUME NEW m \in Online', NEW k \in Members  PROVE Along(k, m)'
      <3>0. m \in Online /\ m \in Members  BY <1>4
      <3>a. IsPrefixOf(chain'[k], chain'[m]) => Along(k, m)'  BY DEF Along, IsPrefixOf
      <3>b. \A v : Commit(v)' = Commit(v)  BY DEF Commit
      <3>1. CASE m = n
        <4>1. IsPrefixOf(chain'[k], chain'[m])
          <5>1. CASE k = n  BY <1>3, <3>1, <5>1, PrefixSelf
          <5>2. CASE k # n  BY <1>1, <1>3, <1>8, <3>1, <5>2
          <5> QED  BY <5>1, <5>2
        <4> QED  BY <3>a, <4>1
      <3>2. CASE m # n /\ k # n
        <4>1. Along(k, m) /\ chain'[k] = chain[k] /\ chain'[m] = chain[m]
          BY <1>0, <1>1, <3>0, <3>2 DEF ChainInv
        <4>2. CASE IsPrefixOf(chain[k], chain[m])  BY <3>a, <4>1, <4>2
        <4>3. CASE Decisive(m) /\ \E v \in Chosen(m) : chain[k] = Append(chain[m], Commit(v))
          <5>1. Open(m)'  BY <1>1, <3>0, <3>2, <4>3 DEF Decisive
          <5>2. Started' /\ Decisive(m)' /\ Chosen(m)' = Chosen(m)  BY <1>2, <5>1
          <5> QED  BY <3>b, <4>1, <4>3, <5>2 DEF Along
        <4> QED  BY <4>1, <4>2, <4>3 DEF Along
      <3>3. CASE m # n /\ k = n /\ Open(m)
        <4>1. Open(m)'  BY <1>1, <3>0, <3>3
        <4>2. Started' /\ Decisive(m)' /\ Chosen(m)' = Chosen(n) /\ chain[m] = chain[n]
          BY <1>2, <4>1
        <4>3. chain'[k] = Append(chain[m], Commit(w)) /\ chain'[m] = chain[m]
          BY <1>1, <1>3, <3>0, <3>3, <4>2 DEF g, C
        <4> QED  BY <1>0, <3>b, <4>2, <4>3 DEF Along
      <3>4. CASE m # n /\ k = n /\ ~Open(m)
        <4>1. chain[m] # chain[n]  BY <1>0, <3>0, <3>4, DoneIsAhead
        <4>2. ~Decisive(m)  BY <3>4 DEF Decisive
        <4>3. Along(m, n) /\ Along(n, m)  BY <1>0, <3>0 DEF ChainInv
        <4>4. IsPrefixOf(chain[n], chain[m])  BY <4>2, <4>3 DEF Along
        <4>5. ~IsPrefixOf(chain[m], chain[n])  BY <1>0, <1>3, <3>0, <4>1, <4>4, PrefixBoth
        <4>6. chain[m] = g  BY <1>0, <4>3, <4>5 DEF Along, g, C
        <4>7. chain'[m] = g /\ chain'[k] = g  BY <1>1, <1>3, <3>0, <3>4, <4>6
        <4>8. IsPrefixOf(chain'[k], chain'[m])  BY <1>3, <4>7, PrefixSelf
        <4> QED  BY <3>a, <4>8
      <3> QED  BY <3>1, <3>2, <3>3, <3>4
    <2> QED  BY <2>1 DEF ChainInv
  <1>11. ASSUME ~Started'  PROVE GatherInv'
    <2>1. \A m \in Online' : timer'[m] = Off
      <3> TAKE m \in Online'
      <3>1. ~Open(m)'  BY <1>2, <1>11
      <3>2. CASE m = n  BY <1>1, <3>2
      <3>3. CASE m # n
        <4>1. ~Open(m)  BY <1>1, <1>4, <3>1, <3>3
        <4>2. timer[m] = Off  BY <1>0, <1>4, <4>1, Timers
        <4> QED  BY <1>1, <1>4, <3>3, <4>2
      <3> QED  BY <3>2, <3>3
    <2> QED  BY <1>1, <2>1 DEF GatherInv, Near
  <1> QED  BY <1>2, <1>6, <1>7, <1>9, <1>10, <1>11 DEF Rounds

------------------------------------------------------------------------------
\* Theorems

LEMMA RoundsInit ==
  ASSUME Init
  PROVE  Rounds
  <1>0. /\ decided = {} /\ outcomes = {} /\ wire = {} /\ left = {} /\ Online = Members
        /\ \A n \in Members : /\ state[n] = "Working" /\ timer[n] = Off /\ approved[n] = EmptyQueue
                              /\ round[n] = {} /\ early[n] = {} /\ pending[n] = {} /\ chain[n] = <<>>
    BY DEF Init, Online
  <1>1. IsPrefixOf(<<>>, <<>>)  BY DEF IsPrefixOf
  <1>2. Agreement /\ ChainInv  BY <1>0, <1>1 DEF Agreement, ChainInv, Along
  <1>3. ~Started  BY <1>0 DEF Started
  <1>4. WorkInv
    <2>1. \A n \in Online : WorkOf(n) /\ InOrder(approved[n])
      <3> TAKE n \in Online
      <3>1. CarriedBy(chain[n]) = {} /\ Due(n) = {} /\ Heading(n) = {}
        BY <1>0 DEF CarriedBy, Due, ChangesOf, EmptyQueue, Heading
      <3> QED  BY <1>0, <3>1 DEF WorkOf, InOrder, EmptyQueue
    <2> QED  BY <1>0, <2>1 DEF WorkInv
  <1>5. IdleInv
    <2>1. Off <= CommitBatchWindow  BY WindowFields DEF Off
    <2>2. \A n \in Online : Resting(n)  BY <1>0, <2>1 DEF Resting, EmptyQueue
    <2> QED  BY <1>0, <2>2 DEF IdleInv
  <1>6. GatherInv  BY <1>0 DEF GatherInv, Near
  <1> QED  BY <1>2, <1>3, <1>4, <1>5, <1>6 DEF Rounds

LEMMA StutterStep ==
  ASSUME Rounds, UNCHANGED vars
  PROVE  Rounds'
  <1>0. UNCHANGED <<decided, outcomes, wire, state, mode, timer, approved, round, early,
                    pending, minted, chain, since, left>>
    BY DEF vars, network, phases, buffers, mls
  <1>1. /\ Online' = Online
        /\ \A n : /\ Due(n)' = Due(n) /\ Minters(n)' = Minters(n)
                  /\ StewardNow(n)' = StewardNow(n) /\ (Open(n)' <=> Open(n))
    BY <1>0, SameQueues
  <1>2. \A n : /\ Waits(n)' <=> Waits(n)
               /\ Heading(n)' = Heading(n) /\ View(n)' = View(n)
    BY <1>0, <1>1 DEF Waits, Heading, View, Inbox
  <1>3. \A n : (Decisive(n)' <=> Decisive(n)) /\ Chosen(n)' = Chosen(n)
    BY <1>1, <1>2 DEF Decisive, Chosen
  <1>4. Started' <=> Started  BY <1>0, <1>1 DEF Started
  <1>5. Agreement'  BY <1>0 DEF Rounds, Agreement, IsPrefixOf
  <1>6. ChainInv'
    <2>1. \A k, n : Along(k, n)' <=> Along(k, n)
      BY <1>0, <1>3, <1>4 DEF Along, IsPrefixOf, Commit
    <2> QED  BY <1>1, <2>1 DEF Rounds, ChainInv
  <1>7. WorkInv'
    <2>1. \A n : WorkOf(n)' <=> WorkOf(n)  BY <1>0, <1>1, <1>2 DEF WorkOf, CarriedBy
    <2> QED  BY <1>0, <1>1, <2>1 DEF Rounds, WorkInv, InOrder
  <1>8. IdleInv'
    <2>1. \A n : Resting(n)' <=> Resting(n)  BY <1>0 DEF Resting
    <2> QED  BY <1>0, <1>1, <2>1 DEF Rounds, IdleInv
  <1>9. GatherInv' <=> GatherInv  BY <1>0, <1>1 DEF GatherInv, Near
  <1>10. RoundPhase' <=> RoundPhase
    <2>1. \A n : (OneEach(n)' <=> OneEach(n)) /\ (OnTime(n)' <=> OnTime(n))
      BY <1>0, <1>1, <1>2 DEF OneEach, OnTime
    <2>2. \A n : Win(n)' <=> Win(n)  BY <1>0, <1>1, <2>1 DEF Win
    <2> QED  BY <1>0, <1>1, <2>2 DEF RoundPhase
  <1> QED  BY <1>4, <1>5, <1>6, <1>7, <1>8, <1>9, <1>10 DEF Rounds

LEMMA RoundsStep ==
  ASSUME Timely, Basics, Rounds, [Next]_vars
  PROVE  Rounds'
  <1>1. IdleInv  BY DEF Rounds
  <1>2. \/ \E c \in Changes : Decide(c)
        \/ \E o \in outcomes : HearChange(o)
        \/ \E x \in wire : Receive(x)
        \/ \E n \in Online : \/ FreezeOnInactivity(n)
                             \/ \E w \in Selected(n) : Apply(n, w)
                             \/ RoundFails(n)
        \/ Tick
        \/ UNCHANGED vars
    BY <1>1, StepCases
  <1> QED
    BY <1>2, DecideStep, HearStep, ReceiveStep, InactivityStep, ApplyStep, NobodyFails, TickStep, StutterStep

\* One commit holds all that is due, and the stewards of the list stay.
LEMMA RoundsWinnable ==
  ASSUME Timely, TypeOK, OnlyEjectedLeave, NEW n \in Online
  PROVE  Winnable(n)
  <1>0. n \in Members  BY OnlineMembers
  <1>1. Due(n) \subseteq Changes
    <2>1. approved[n] \in QueueType  BY <1>0, MemberFields
    <2> QED  BY <2>1 DEF Due, ChangesOf, QueueType, EntryType
  <1>2. /\ Cardinality(Due(n)) <= Cardinality(Changes) /\ Cardinality(Changes) \in Nat
        /\ Cardinality(Due(n)) \in Nat
    BY <1>1, MembersAssumption, FS_Subset, FS_CardinalityType
  <1>3. Cardinality(Due(n)) <= BatchMax  BY <1>2, WindowFields DEF Timely
  <1>4. PICK s \in Members : IsSteward(List, s)
    <2> DEFINE S == {m \in Members : IsSteward(List, m)}
    <2>1. Cardinality(S) # 0  BY ListElected
    <2> HIDE DEF S
    <2>2. S # {}  BY <2>1, FS_EmptySet
    <2> QED  BY <2>2 DEF S
  <1>5. Remove(s) \notin Changes  BY <1>4, TermAssumption
  <1>6. chain[s] \in Seq(CommitType)  BY MemberFields
  <1>7. CarriedBy(chain[s]) \subseteq Changes
    <2>1. \A i \in DOMAIN chain[s] : chain[s][i] \in CommitType  BY <1>6
    <2>2. \A i \in DOMAIN chain[s] : chain[s][i].batch \subseteq Changes  BY <2>1 DEF CommitType
    <2> QED  BY <2>2 DEF CarriedBy
  <1>8. s \in Group(s)  BY <1>5, <1>6, <1>7, StaysUntilRemoved DEF Group
  <1>9. s \in Online  BY <1>8 DEF OnlyEjectedLeave, Online
  <1>10. s \in Minters(n)  BY <1>1, <1>4, <1>5, <1>9 DEF Minters
  <1> QED  BY <1>3, <1>10 DEF Winnable

LEMMA BasicsHold ==
  ASSUME Timely
  PROVE  Spec => []Basics
  <1>1. Init => NormalInv  BY DEF Init, NormalInv
  <1>2. TypeOK /\ NormalInv /\ [Next]_vars => NormalInv'  BY TypeParts, NormalStep DEF Timely
  <1>3. TypeOK /\ CandidateInv /\ RemovedLeft /\ StewardsOwn /\ NormalInv /\ OnlyEjectedLeave => Basics
    BY RoundsWinnable DEF Basics
  <1>4. Spec => []OnlyEjectedLeave  BY NormalRoundsEjectTheRemoved DEF Timely
  <1> QED
    BY <1>1, <1>2, <1>3, <1>4, CandidatesSound, TheRemovedLeave, OwnersAreStewards, PTL DEF Spec

LEMMA RoundsHold ==
  ASSUME Timely
  PROVE  Spec => [](Basics /\ Rounds)
  <1>1. Init => Rounds  BY RoundsInit
  <1>2. Basics /\ Rounds /\ [Next]_vars => Rounds'  BY RoundsStep
  <1> QED  BY <1>1, <1>2, BasicsHold, PTL DEF Spec

\* No fork within a term of the steward list, for every group, set of changes
\* that takes out no steward, and windows above the network bound: although every
\* member freezes, collects and selects on its own clock, two members never
\* merge different commits at one epoch (poll.rs
\* start_freeze_on_inactivity and advance_freezing, validate.rs
\* rank_applicable_candidates).
THEOREM TimelyRoundsAgree ==
  ASSUME Timely
  PROVE  Spec => []Agreement
  <1>1. Rounds => Agreement  BY DEF Rounds
  <1> QED  BY <1>1, RoundsHold, PTL

\* So within a term the group as a whole follows one history of voted commits:
\* the first merge of an epoch fixes its commit for everybody, no change is
\* committed twice and none without a vote (commit_round/, queues.rs).
THEOREM TimelyRoundsAreOneHistory ==
  ASSUME Timely
  PROVE  Spec => ImplementsHistory
  BY TimelyRoundsAgree, NoForkIsOneHistory, PTL

------------------------------------------------------------------------------
\* Rounds that land

LEMMA NobodyReelects ==
  ASSUME Basics, Rounds
  PROVE  RoundsLand
  <1> SUFFICES ASSUME NEW n \in Members, state[n] = "Reelection"  PROVE FALSE
    BY DEF RoundsLand
  <1>0. WorkInv /\ IdleInv  BY DEF Rounds
  <1>1. n \in Online  BY <1>0 DEF IdleInv, Online
  <1>2. Open(n) /\ Started  BY <1>0, <1>1, Timers DEF Started
  <1> QED  BY <1>1, <1>2 DEF Rounds, RoundPhase, Win

\* No round is missed: no member finds its window closed without a candidate
\* that applies, blames the steward and waits in Reelection (poll.rs
\* advance_freezing, NoCandidate; config.rs freeze_duration, commit_batch_window).
\* The windows are sized for the network, one commit holds all the changes, and
\* the stewards stay for the term: the vote that takes one out opens an election
\* whose hold of the freeze (poll.rs start_freeze_on_inactivity) is longer.
THEOREM TimelyRoundsLand ==
  ASSUME Timely
  PROVE  Spec => []RoundsLand
  <1>1. Basics /\ Rounds => RoundsLand  BY NobodyReelects
  <1> QED  BY <1>1, RoundsHold, PTL

------------------------------------------------------------------------------
\* How long a vote takes

\* How old a change that n did not merge yet can be, by where it is: on its way,
\* waiting for the freeze, or in it
Ages(c, n) ==
  /\ \A o \in outcomes : o.to = n /\ o.what = c => since[c] <= o.age
  /\ c \in Due(n) =>
       /\ state[n] = "Working" => since[c] <= timer[n] + Delta
       /\ state[n] = "Freezing" => since[c] <= timer[n] + CommitBatchWindow + Delta

TimeInv ==
  \A c \in Changes :
    /\ c \notin decided => since[c] = 0
    /\ since[c] <= Delta + CommitBatchWindow + FreezeDuration
    /\ \A n \in Online : Ages(c, n)

\* A change that did not land is still coming to somebody, or due there.
LEMMA StillComing ==
  ASSUME WorkInv, NEW c \in decided, ~Landed(c)
  PROVE  \E n \in Online : c \in Due(n) \/ \E o \in outcomes : o.to = n /\ o.what = c
  <1>1. PICK n \in Online : \A i \in DOMAIN chain[n] : c \notin chain[n][i].batch  BY DEF Landed
  <1>2. c \notin CarriedBy(chain[n])  BY <1>1 DEF CarriedBy
  <1>3. c \in Due(n) \/ c \in Heading(n)  BY <1>2 DEF WorkInv, WorkOf
  <1> QED  BY <1>3 DEF Heading

LEMMA TickTime ==
  ASSUME Timely, Basics, Rounds, RoundsLand, TimeInv, Tick
  PROVE  TimeInv'
  <1>0. /\ WorkInv /\ IdleInv /\ since \in [Changes -> Nat]
        /\ outcomes \subseteq [to : Members, what : Changes \cup {Deadlock}, age : Nat]
    BY TypeParts DEF Rounds, Basics, GroupType
  <1>1. /\ UNCHANGED <<decided, state, approved, chain, left>> /\ Online' = Online
        /\ \A n : Due(n)' = Due(n)
    BY <1>0, TickFacts, SameQueues
  <1>2. \A c \in Changes : /\ since'[c] = IF c \in decided /\ ~Landed(c) THEN since[c] + 1 ELSE since[c]
                           /\ since[c] \in Nat /\ since'[c] \in Nat /\ since'[c] <= since[c] + 1
    BY <1>0 DEF Tick
  <1>3. ASSUME NEW c \in Changes, NEW n \in Online
        PROVE  /\ c \in Due(n) => Open(n)
               /\ c \in Due(n) /\ state[n] = "Working" =>
                    timer[n] \in 0..(CommitBatchWindow - 1) /\ timer'[n] = timer[n] + 1
               /\ c \in Due(n) /\ state[n] = "Freezing" =>
                    timer[n] \in 0..(FreezeDuration - 1) /\ timer'[n] = timer[n] + 1
    <2>1. c \in Due(n) => Open(n)  BY DEF Due, ChangesOf, Open
    <2>2. c \in Due(n) /\ state[n] = "Working" => Waits(n)  BY <2>1 DEF Waits
    <2> QED  BY <1>0, <2>1, <2>2, TickTimers
  <1>4. ASSUME NEW c \in Changes  PROVE since'[c] <= Delta + CommitBatchWindow + FreezeDuration
    <2>1. CASE c \in decided /\ ~Landed(c)
      <3>1. PICK n \in Online : c \in Due(n) \/ \E o \in outcomes : o.to = n /\ o.what = c
        BY <1>0, <2>1, StillComing
      <3>2. Ages(c, n)  BY DEF TimeInv
      <3>3. CASE c \in Due(n)
        <4>1. state[n] \in {"Working", "Freezing"}
          BY OnlineMembers, MemberFields DEF Basics, RoundsLand
        <4>2. CASE state[n] = "Working"
          <5>1. since[c] <= timer[n] + Delta  BY <3>2, <3>3, <4>2 DEF Ages
          <5> QED  BY <1>2, <1>3, <3>3, <4>2, <5>1, WindowFields
        <4>3. CASE state[n] = "Freezing"
          <5>1. since[c] <= timer[n] + CommitBatchWindow + Delta  BY <3>2, <3>3, <4>3 DEF Ages
          <5> QED  BY <1>2, <1>3, <3>3, <4>3, <5>1, WindowFields
        <4> QED  BY <4>1, <4>2, <4>3
      <3>4. CASE \E o \in outcomes : o.to = n /\ o.what = c
        <4>1. PICK o \in outcomes : o.to = n /\ o.what = c  BY <3>4
        <4>2. since[c] <= o.age /\ o.age \in Nat /\ o.age < Delta  BY <1>0, <3>2, <4>1 DEF Ages, Tick
        <4> QED  BY <1>2, <4>2, WindowFields
      <3> QED  BY <3>1, <3>3, <3>4
    <2>2. CASE ~(c \in decided /\ ~Landed(c))  BY <1>2, <2>2 DEF TimeInv
    <2> QED  BY <2>1, <2>2
  <1>5. \A c \in Changes : c \notin decided' => since'[c] = 0  BY <1>1, <1>2 DEF TimeInv
  <1>6. ASSUME NEW c \in Changes, NEW n \in Online  PROVE Ages(c, n)'
    <2>0. Ages(c, n)  BY DEF TimeInv
    <2>1. ASSUME NEW p \in outcomes', p.to = n, p.what = c  PROVE since'[c] <= p.age
      <3>1. PICK o \in outcomes : p.to = o.to /\ p.what = o.what /\ p.age = o.age + 1 /\ o.age \in Nat
        BY <1>0, TickFacts
      <3>2. since[c] <= o.age  BY <2>0, <2>1, <3>1 DEF Ages
      <3> QED  BY <1>2, <3>1, <3>2
    <2>2. ASSUME c \in Due(n), state[n] = "Working"  PROVE since'[c] <= timer'[n] + Delta
      <3>1. since[c] <= timer[n] + Delta  BY <2>0, <2>2 DEF Ages
      <3> QED  BY <1>2, <1>3, <2>2, <3>1, WindowFields
    <2>3. ASSUME c \in Due(n), state[n] = "Freezing"
          PROVE  since'[c] <= timer'[n] + CommitBatchWindow + Delta
      <3>1. since[c] <= timer[n] + CommitBatchWindow + Delta  BY <2>0, <2>3 DEF Ages
      <3> QED  BY <1>2, <1>3, <2>3, <3>1, WindowFields
    <2> QED  BY <1>1, <2>1, <2>2, <2>3 DEF Ages
  <1> QED  BY <1>1, <1>4, <1>5, <1>6 DEF TimeInv

\* No window starts again: a member that changes its phase or its timer starts a
\* freeze from a timer that did not pass its window.
LEMMA OtherTime ==
  ASSUME Timely, Basics, Rounds, TimeInv, UNCHANGED <<decided, outcomes, since>>,
         Online' \subseteq Online,
         \A n \in Online' : Due(n)' = {} \/ (Due(n)' = Due(n) /\
              (\/ state'[n] = state[n] /\ timer'[n] = timer[n]
               \/ state'[n] = "Freezing" /\ timer'[n] = 0 /\ state[n] = "Working"
               \/ state'[n] = "Reelection"))
  PROVE  TimeInv'
  <1>0. IdleInv /\ since \in [Changes -> Nat]  BY TypeParts DEF Rounds, Basics, GroupType
  <1>1. ASSUME NEW c \in Changes, NEW n \in Online'  PROVE Ages(c, n)'
    <2>0. Ages(c, n) /\ n \in Online /\ since[c] \in Nat  BY <1>0 DEF TimeInv
    <2>1. \A o \in outcomes' : o.to = n /\ o.what = c => since'[c] <= o.age  BY <2>0 DEF Ages
    <2>2. CASE Due(n)' = {}  BY <2>1, <2>2 DEF Ages
    <2>3. CASE Due(n)' = Due(n) /\ state'[n] = state[n] /\ timer'[n] = timer[n]
      BY <2>0, <2>1, <2>3 DEF Ages
    <2>4. CASE Due(n)' = Due(n) /\ state'[n] = "Freezing" /\ timer'[n] = 0 /\ state[n] = "Working"
      <3>1. timer[n] \in Int /\ timer[n] <= CommitBatchWindow
        BY <1>0, <2>0, <2>4, Timers DEF IdleInv, Resting
      <3>2. c \in Due(n) => since[c] <= timer[n] + Delta  BY <2>0, <2>4 DEF Ages
      <3>3. c \in Due(n) => since'[c] <= timer'[n] + CommitBatchWindow + Delta
        BY <2>0, <2>4, <3>1, <3>2, WindowFields
      <3> QED  BY <2>1, <2>4, <3>3 DEF Ages
    <2>5. CASE Due(n)' = Due(n) /\ state'[n] = "Reelection"  BY <2>1, <2>5 DEF Ages
    <2> QED  BY <2>2, <2>3, <2>4, <2>5
  <1> QED  BY <1>1 DEF TimeInv

LEMMA DecideTime ==
  ASSUME Timely, Basics, Rounds, TimeInv, NEW d \in Changes, Decide(d)
  PROVE  TimeInv'
  <1> DEFINE new == {[to |-> n, what |-> d, age |-> 0] : n \in Online}
  <1>1. /\ d \notin decided /\ decided' = decided \cup {d} /\ outcomes' = outcomes \cup new
        /\ UNCHANGED <<state, timer, approved, chain, since, left>>
    BY DEF Decide, phases, buffers, mls
  <1>2. Online' = Online /\ \A n : Due(n)' = Due(n)  BY <1>1, SameQueues
  <1>3. \A o \in new : o.what = d /\ o.age = 0
    <2> DEFINE f(n) == [to |-> n, what |-> d, age |-> 0]
    <2>1. \A n : f(n).what = d /\ f(n).age = 0  OBVIOUS
    <2>2. \A o : o \in new <=> \E n \in Online : o = f(n)  OBVIOUS
    <2> HIDE DEF new, f
    <2> QED  BY <2>1, <2>2
  <1> HIDE DEF new
  <1>4. since[d] = 0  BY <1>1 DEF TimeInv
  <1>5. ASSUME NEW c \in Changes, NEW n \in Online  PROVE Ages(c, n)'
    <2>0. Ages(c, n)  BY DEF TimeInv
    <2>1. \A o \in outcomes' : o.to = n /\ o.what = c => since'[c] <= o.age
      BY <1>1, <1>3, <1>4, <2>0 DEF Ages
    <2> QED  BY <1>1, <1>2, <2>0, <2>1 DEF Ages
  <1> QED  BY <1>1, <1>2, <1>5 DEF TimeInv

LEMMA HearTime ==
  ASSUME Timely, Basics, Rounds, TimeInv, NEW o \in outcomes, HearChange(o)
  PROVE  TimeInv'
  <1> DEFINE t == o.to
             q == Enqueue(approved[t], o.what)
             e == [at |-> approved[t].next, change |-> o.what]
  <1>0. /\ WorkInv /\ IdleInv /\ PhaseType /\ GroupType /\ since \in [Changes -> Nat]
        /\ t \in Online /\ t \in Members /\ o.what \in Changes /\ o.age \in Nat
    <2>1. WorkInv /\ IdleInv /\ PhaseType /\ GroupType  BY TypeParts DEF Rounds, Basics
    <2>2. t \in Online /\ t \in Members  BY <2>1, OnlineMembers DEF WorkInv
    <2> QED  BY <2>1, <2>2 DEF Basics, NormalInv, GroupType
  <1>1. /\ outcomes' = outcomes \ {o}
        /\ approved' = [approved EXCEPT ![t] = q]
        /\ timer' = [timer EXCEPT ![t] = IF state[t] = "Working" /\ @ = Off THEN 0 ELSE @]
        /\ UNCHANGED <<decided, state, since, left>>
    BY DEF HearChange
  <1>2. q.entries = approved[t].entries \cup {e}
    <2>1. approved[t] \in QueueType  BY <1>0 DEF GroupType
    <2> QED  BY <1>0, <2>1, EnqueueType
  <1>3. state[t] = "Working"
    <2>1. ~RoundPhase  BY DEF RoundPhase
    <2> QED  BY <1>0, <2>1, Gathering DEF Rounds
  <1> HIDE DEF t, q
  <1>4. /\ \A n \in Members : approved'[n] = IF n = t THEN q ELSE approved[n]
        /\ \A n \in Members : timer'[n] = IF n = t /\ timer[n] = Off THEN 0 ELSE timer[n]
    BY <1>0, <1>1, <1>3 DEF PhaseType, GroupType
  <1>5. Online' = Online /\ \A n \in Online : n \in Members  BY <1>1, OnlineMembers DEF Online
  <1>6. ASSUME NEW c \in Changes, NEW n \in Online  PROVE Ages(c, n)'
    <2>0. Ages(c, n) /\ n \in Members /\ since[c] \in Nat  BY <1>0, <1>5 DEF TimeInv
    <2>1. \A p \in outcomes' : p.to = n /\ p.what = c => since'[c] <= p.age
      BY <1>1, <2>0 DEF Ages
    <2>2. CASE n # t
      <3>1. Due(n)' = Due(n) /\ timer'[n] = timer[n]  BY <1>4, <2>0, <2>2 DEF Due
      <3> QED  BY <1>1, <2>0, <2>1, <3>1 DEF Ages
    <2>3. CASE n = t
      <3>1. timer[n] \in Int /\ timer[n] >= -1 /\ timer'[n] \in Int /\ timer'[n] >= 0
            /\ Resting(n)
        BY <1>0, <1>3, <1>4, <2>3, Timers DEF Off, IdleInv
      <3>2. \A d : d \in Due(n)' => d \in Due(n) \/ d = o.what
        <4>1. approved'[n].entries = approved[n].entries \cup {e} /\ e.change = o.what
          BY <1>2, <1>4, <2>0, <2>3
        <4> HIDE DEF e
        <4> QED  BY <4>1 DEF Due, ChangesOf
      <3>3. ASSUME c \in Due(n)'  PROVE since[c] <= timer'[n] + Delta
        <4>1. CASE c \in Due(n)
          <5>1. since[c] <= timer[n] + Delta  BY <1>3, <2>0, <2>3, <4>1 DEF Ages
          <5>2. timer[n] # Off  BY <3>1, <4>1 DEF Resting, Due, ChangesOf
          <5> QED  BY <1>4, <2>0, <5>1, <5>2
        <4>2. CASE c = o.what
          <5>1. since[c] <= o.age /\ o.age <= Delta  BY <1>0, <2>0, <2>3, <4>2 DEF Ages, IdleInv, t
          <5> QED  BY <1>0, <2>0, <3>1, <5>1, WindowFields
        <4> QED  BY <3>2, <3>3, <4>1, <4>2
      <3> QED  BY <1>1, <1>3, <2>1, <2>3, <3>3 DEF Ages
    <2> QED  BY <2>2, <2>3
  <1> QED  BY <1>1, <1>5, <1>6 DEF TimeInv

LEMMA TimeStep ==
  ASSUME Timely, Basics, Rounds, RoundsLand, TimeInv, [Next]_vars
  PROVE  TimeInv'
  <1>0. IdleInv /\ MintType /\ PhaseType /\ GroupType  BY TypeParts DEF Rounds, Basics
  <1>1. ASSUME NEW x \in wire, Receive(x)  PROVE TimeInv'
    <2> DEFINE n == x.to
    <2>1. UNCHANGED <<decided, outcomes, approved, chain, since, left>>  BY <1>1 DEF Receive
    <2>2. Online' = Online /\ \A m : Due(m)' = Due(m)  BY <2>1, SameQueues
    <2>3. n \in Members /\ n \in Online  BY <1>0, CopyFields DEF IdleInv, Open
    <2>4. state[n] \in {"Working", "Freezing"}
      BY <2>3, MemberFields DEF Basics, RoundsLand
    <2>5. \/ UNCHANGED <<state, timer>>
          \/ /\ state[n] = "Working"
             /\ state' = [state EXCEPT ![n] = "Freezing"] /\ timer' = [timer EXCEPT ![n] = 0]
      BY <1>1, <2>4 DEF Receive, EnterFreezing
    <2>6. \A m \in Members : \/ state'[m] = state[m] /\ timer'[m] = timer[m]
                             \/ state'[m] = "Freezing" /\ timer'[m] = 0 /\ state[m] = "Working"
      <3> HIDE DEF n
      <3> QED  BY <1>0, <2>3, <2>5 DEF PhaseType
    <2> QED  BY <2>1, <2>2, <2>6, OnlineMembers, OtherTime
  <1>2. ASSUME NEW n \in Online, FreezeOnInactivity(n)  PROVE TimeInv'
    <2>1. /\ UNCHANGED <<decided, outcomes, approved, chain, since, left>> /\ state[n] = "Working"
          /\ state' = [state EXCEPT ![n] = "Freezing"] /\ timer' = [timer EXCEPT ![n] = 0]
      BY <1>2 DEF FreezeOnInactivity, FreezeDue, EnterFreezing
    <2>2. Online' = Online /\ \A m : Due(m)' = Due(m)  BY <2>1, SameQueues
    <2>3. \A m \in Members : \/ state'[m] = state[m] /\ timer'[m] = timer[m]
                             \/ state'[m] = "Freezing" /\ timer'[m] = 0 /\ state[m] = "Working"
      BY <1>0, <2>1, OnlineMembers DEF PhaseType
    <2> QED  BY <2>1, <2>2, <2>3, OnlineMembers, OtherTime
  <1>3. ASSUME NEW n \in Online, NEW w \in Selected(n), Apply(n, w)  PROVE TimeInv'
    <2>1. /\ UNCHANGED <<decided, outcomes>> /\ Online' \subseteq Online /\ approved'[n] = EmptyQueue
          /\ \A m \in Members : m # n =>
               state'[m] = state[m] /\ timer'[m] = timer[m] /\ approved'[m] = approved[m]
      BY <1>3, MergeSame
    <2>2. since' = since  BY <1>3 DEF Apply
    <2>3. Due(n)' = {}  BY <2>1 DEF Due, ChangesOf, EmptyQueue
    <2>4. \A m \in Members : m # n => Due(m)' = Due(m)  BY <2>1 DEF Due
    <2>5. \A m \in Online' : m \in Members  BY <2>1, OnlineMembers
    <2> QED  BY <2>1, <2>2, <2>3, <2>4, <2>5, OtherTime
  <1>4. ASSUME NEW n \in Online, RoundFails(n)  PROVE TimeInv'
    <2>1. state[n] = "Freezing" /\ approved[n].entries # {} /\ mode[n] = "Normal"
      <3>1. state[n] = "Freezing"  BY <1>4 DEF RoundFails, RoundReady
      <3> QED  BY <1>0, <3>1, OnlineMembers DEF IdleInv, Basics, NormalInv
    <2>2. /\ UNCHANGED <<decided, outcomes, approved, chain, since, left>>
          /\ state' = [state EXCEPT ![n] = "Reelection"] /\ timer' = [timer EXCEPT ![n] = Off]
      BY <1>4, <2>1 DEF RoundFails, network
    <2>3. Online' = Online /\ \A m : Due(m)' = Due(m)  BY <2>2, SameQueues
    <2>4. \A m \in Members : \/ state'[m] = state[m] /\ timer'[m] = timer[m]
                             \/ state'[m] = "Reelection"
      BY <1>0, <2>2, OnlineMembers DEF PhaseType
    <2> QED  BY <2>2, <2>3, <2>4, OnlineMembers, OtherTime
  <1>5. ASSUME UNCHANGED vars  PROVE TimeInv'
    <2>1. UNCHANGED <<decided, outcomes, approved, chain, since, left, state, timer>>
      BY <1>5 DEF vars, network, phases, buffers, mls
    <2>2. Online' = Online /\ \A m : Due(m)' = Due(m)  BY <2>1, SameQueues
    <2> QED  BY <2>1, <2>2, OtherTime
  <1>6. \/ \E c \in Changes : Decide(c)
        \/ \E o \in outcomes : HearChange(o)
        \/ \E x \in wire : Receive(x)
        \/ \E n \in Online : \/ FreezeOnInactivity(n)
                             \/ \E w \in Selected(n) : Apply(n, w)
                             \/ RoundFails(n)
        \/ Tick
        \/ UNCHANGED vars
    BY <1>0, StepCases
  <1> QED  BY <1>1, <1>2, <1>3, <1>4, <1>5, <1>6, DecideTime, HearTime, TickTime

\* A vote is carried out by every member that stays within the time the windows
\* add up to: the outcome arrives within Delta, the freeze opens within
\* commit_batch_window of it and closes within freeze_duration.  No round is
\* repeated and no late or early candidate starts a window again (poll.rs
\* start_freeze_on_inactivity and advance_freezing, handle.rs phase timers).
\* The bound is that of a vote that takes out no steward: TermAssumption.
THEOREM TimelyVotesLand ==
  ASSUME Timely
  PROVE  Spec => []VotesLandInTime
  <1>1. Init => TimeInv
    <2> SUFFICES ASSUME Init, NEW c \in Changes
                 PROVE  /\ since[c] = 0 /\ since[c] <= Delta + CommitBatchWindow + FreezeDuration
                        /\ \A n \in Online : Ages(c, n)
      BY DEF TimeInv
    <2>1. since[c] = 0 /\ outcomes = {} /\ \A n \in Members : approved[n] = EmptyQueue  BY DEF Init
    <2>2. \A n \in Online : Due(n) = {}
      BY <2>1, OnlineMembers DEF Due, ChangesOf, EmptyQueue
    <2> QED  BY <2>1, <2>2, WindowFields DEF Ages
  <1>2. Basics /\ Rounds /\ RoundsLand /\ TimeInv /\ [Next]_vars => TimeInv'  BY TimeStep
  <1>3. TimeInv => VotesLandInTime  BY DEF TimeInv, VotesLandInTime, Timely
  <1> QED  BY <1>1, <1>2, <1>3, RoundsHold, TimelyRoundsLand, PTL DEF Spec

==============================================================================
