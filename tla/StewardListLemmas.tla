-------------------------- MODULE StewardListLemmas ---------------------------
(***************************************************************************)
(* What the operators of StewardList compute, for every pool, every hash   *)
(* function with numeric values and every configuration: sorting by rank,  *)
(* the list as the lowest ranks, and the walk of the rotation.             *)
(***************************************************************************)
EXTENDS StewardList, FiniteSetTheorems, WellFoundedInduction, TLAPS

------------------------------------------------------------------------------
\* Positions in a finite ordered set

\* R orders S strictly and totally.
Orders(R, S) ==
  /\ \A a \in S : <<a, a>> \notin R
  /\ \A a, b, c \in S : <<a, b>> \in R /\ <<b, c>> \in R => <<a, c>> \in R
  /\ \A a, b \in S : a # b => <<a, b>> \in R \/ <<b, a>> \in R

\* How many elements of S come before m
Place(R, S, m) == Cardinality({x \in S : <<x, m>> \in R})

\* Places are natural numbers below the size of the set.
LEMMA PlaceRange ==
  ASSUME NEW S, IsFiniteSet(S), NEW R, Orders(R, S), NEW m \in S
  PROVE  /\ Cardinality(S) \in Nat
         /\ Place(R, S, m) \in 0..(Cardinality(S) - 1)
         /\ IsFiniteSet({x \in S : <<x, m>> \in R})
  <1> DEFINE T == {x \in S : <<x, m>> \in R}
  <1>1. T \in SUBSET S /\ m \notin T  BY DEF Orders
  <1>2. IsFiniteSet(T) /\ Cardinality(T) <= Cardinality(S) /\ Cardinality(S) # Cardinality(T)
    BY <1>1, FS_Subset
  <1>3. Cardinality(T) \in Nat /\ Cardinality(S) \in Nat
    BY <1>2, FS_CardinalityType
  <1> QED  BY <1>2, <1>3 DEF Place

\* What comes earlier has a smaller place.
LEMMA PlaceIncreases ==
  ASSUME NEW S, IsFiniteSet(S), NEW R, Orders(R, S), NEW a \in S, NEW b \in S,
         <<a, b>> \in R
  PROVE  Place(R, S, a) < Place(R, S, b)
  <1> DEFINE A == {x \in S : <<x, a>> \in R}
             B == {x \in S : <<x, b>> \in R}
  <1>1. A \in SUBSET B /\ a \in B /\ a \notin A  BY DEF Orders
  <1>2. IsFiniteSet(A) /\ IsFiniteSet(B)  BY PlaceRange
  <1>3. Cardinality(A) <= Cardinality(B) /\ Cardinality(B) # Cardinality(A)
    BY <1>1, <1>2, FS_Subset
  <1>4. Cardinality(A) \in Nat /\ Cardinality(B) \in Nat
    BY <1>2, FS_CardinalityType
  <1> QED  BY <1>3, <1>4 DEF Place

\* Two elements never share a place.
LEMMA PlaceInjective ==
  ASSUME NEW S, IsFiniteSet(S), NEW R, Orders(R, S), NEW a \in S, NEW b \in S,
         Place(R, S, a) = Place(R, S, b)
  PROVE  a = b
  <1>0. Cardinality(S) \in Nat /\ Place(R, S, a) \in 0..(Cardinality(S) - 1)  BY PlaceRange
  <1>1. Place(R, S, a) \in Nat  BY <1>0
  <1> SUFFICES ASSUME a # b PROVE FALSE  OBVIOUS
  <1>2. <<a, b>> \in R \/ <<b, a>> \in R  BY DEF Orders
  <1> QED  BY <1>1, <1>2, PlaceIncreases

\* Every place below the size of the set is taken.
LEMMA PlaceOnto ==
  ASSUME NEW S, IsFiniteSet(S), NEW R, Orders(R, S), NEW i \in 0..(Cardinality(S) - 1)
  PROVE  \E m \in S : Place(R, S, m) = i
  <1> DEFINE n == Cardinality(S)
             T == 0..(n - 1)
             f == [m \in S |-> Place(R, S, m)]
  <1>1. n \in Nat  BY FS_CardinalityType
  <1>2. f \in [S -> T]  BY PlaceRange
  <1>3. \A a, b \in S : f[a] = f[b] => a = b  BY PlaceInjective
  <1>4. f \in Injection(S, T)  BY <1>2, <1>3 DEF Injection, IsInjective
  <1>5. IsFiniteSet(T) /\ Cardinality(T) = n  BY <1>1, FS_Interval
  <1> HIDE DEF f, T, n
  <1>6. f \in Surjection(S, T)  BY <1>4, <1>5, FS_Injection DEF n
  <1>7. PICK m \in S : f[m] = i  BY <1>6 DEF Surjection, T, n
  <1> QED  BY <1>7 DEF f

\* The elements of S by their places
Sorted(R, S) ==
  [i \in 1..Cardinality(S) |-> CHOOSE m \in S : Place(R, S, m) = i - 1]

\* Sorting lists every element, and only elements.
LEMMA SortedCovers ==
  ASSUME NEW S, IsFiniteSet(S), NEW R, Orders(R, S)
  PROVE  /\ Cardinality(S) \in Nat
         /\ DOMAIN Sorted(R, S) = 1..Cardinality(S)
         /\ \A i \in 1..Cardinality(S) : Sorted(R, S)[i] \in S
         /\ \A m \in S : \E i \in 1..Cardinality(S) : Sorted(R, S)[i] = m
  <1> DEFINE n == Cardinality(S)
  <1>1. n \in Nat  BY FS_CardinalityType
  <1>2. \A j \in 0..(Cardinality(S) - 1) : \E m \in S : Place(R, S, m) = j  BY PlaceOnto
  <1> HIDE DEF n
  <1>3. ASSUME NEW i \in 1..n
        PROVE  Sorted(R, S)[i] \in S /\ Place(R, S, Sorted(R, S)[i]) = i - 1
    <2>1. i - 1 \in 0..(n - 1)  BY <1>1
    <2>2. \E m \in S : Place(R, S, m) = i - 1  BY <1>2, <2>1 DEF n
    <2> QED  BY <2>2 DEF Sorted, n
  <1>4. ASSUME NEW m \in S  PROVE \E i \in 1..n : Sorted(R, S)[i] = m
    <2> DEFINE i == Place(R, S, m) + 1
    <2>1. Place(R, S, m) \in 0..(n - 1)  BY PlaceRange DEF n
    <2>2. i \in 1..n /\ i - 1 = Place(R, S, m)  BY <2>1, <1>1
    <2>3. Sorted(R, S)[i] \in S /\ Place(R, S, Sorted(R, S)[i]) = Place(R, S, m)
      BY <2>2, <1>3
    <2>4. Sorted(R, S)[i] = m  BY <2>3, PlaceInjective
    <2> QED  BY <2>2, <2>4
  <1>5. DOMAIN Sorted(R, S) = 1..n  BY DEF Sorted, n
  <1> QED  BY <1>1, <1>3, <1>4, <1>5 DEF n

------------------------------------------------------------------------------
\* The sorted pool

\* A finite set of members whose sort keys are numbers
Hashed(e, r, S) ==
  /\ S \subseteq Nat /\ IsFiniteSet(S)
  /\ \A m \in S : StewardHash(e, r, m) \in Nat

\* The order of sorted_steward_indices as a set of pairs
SortOrder(e, r, S) == {p \in S \X S : Before(e, r, p[1], p[2])}

\* The sort key with the member id as the tie-break orders every pool totally.
LEMMA SortOrderTotal ==
  ASSUME NEW e, NEW r, NEW S, Hashed(e, r, S)
  PROVE  Orders(SortOrder(e, r, S), S)
  <1>1. \A a, b \in S : <<a, b>> \in SortOrder(e, r, S) <=> Before(e, r, a, b)
    BY DEF SortOrder
  <1>2. \A a \in S : ~Before(e, r, a, a)  BY DEF Before, Hashed
  <1>3. \A a, b, c \in S : Before(e, r, a, b) /\ Before(e, r, b, c) => Before(e, r, a, c)
    BY DEF Before, Hashed
  <1>4. \A a, b \in S : a # b => Before(e, r, a, b) \/ Before(e, r, b, a)
    BY DEF Before, Hashed
  <1> QED  BY <1>1, <1>2, <1>3, <1>4 DEF Orders

\* Rank is the place in that order.
LEMMA RankIsPlace ==
  ASSUME NEW e, NEW r, NEW S, NEW m \in S
  PROVE  Rank(e, r, S, m) = Place(SortOrder(e, r, S), S, m)
  <1>1. {x \in S : Before(e, r, x, m)} = {x \in S : <<x, m>> \in SortOrder(e, r, S)}
    BY DEF SortOrder
  <1> QED  BY <1>1 DEF Rank, Place

\* The ranks of a pool are the numbers below its size, each taken once, and they
\* grow along the order.
LEMMA Ranks ==
  ASSUME NEW e, NEW r, NEW S, Hashed(e, r, S)
  PROVE  /\ Cardinality(S) \in Nat
         /\ \A m \in S : Rank(e, r, S, m) \in 0..(Cardinality(S) - 1)
         /\ \A a, b \in S : Rank(e, r, S, a) = Rank(e, r, S, b) => a = b
         /\ \A a, b \in S : Before(e, r, a, b) => Rank(e, r, S, a) < Rank(e, r, S, b)
         /\ \A i \in 0..(Cardinality(S) - 1) : \E m \in S : Rank(e, r, S, m) = i
  <1> DEFINE R == SortOrder(e, r, S)
  <1>1. Orders(R, S)  BY SortOrderTotal
  <1>2. IsFiniteSet(S)  BY DEF Hashed
  <1>3. Cardinality(S) \in Nat  BY <1>2, FS_CardinalityType
  <1>4. \A m \in S : Rank(e, r, S, m) = Place(R, S, m)  BY RankIsPlace
  <1>5. \A a, b \in S : Before(e, r, a, b) => <<a, b>> \in R  BY DEF SortOrder
  <1> HIDE DEF R
  <1>6. \A m \in S : Place(R, S, m) \in 0..(Cardinality(S) - 1)  BY <1>1, <1>2, PlaceRange
  <1>7. \A a, b \in S : Place(R, S, a) = Place(R, S, b) => a = b
    BY <1>1, <1>2, PlaceInjective
  <1>8. \A a, b \in S : <<a, b>> \in R => Place(R, S, a) < Place(R, S, b)
    BY <1>1, <1>2, PlaceIncreases
  <1>9. \A i \in 0..(Cardinality(S) - 1) : \E m \in S : Place(R, S, m) = i
    BY <1>1, <1>2, PlaceOnto
  <1>10. \A m \in S : Rank(e, r, S, m) \in 0..(Cardinality(S) - 1)  BY <1>4, <1>6
  <1>11. \A a, b \in S : Rank(e, r, S, a) = Rank(e, r, S, b) => a = b  BY <1>4, <1>7
  <1>12. \A a, b \in S : Before(e, r, a, b) => Rank(e, r, S, a) < Rank(e, r, S, b)
    BY <1>4, <1>5, <1>8
  <1>13. \A i \in 0..(Cardinality(S) - 1) : \E m \in S : Rank(e, r, S, m) = i
    <2> TAKE i \in 0..(Cardinality(S) - 1)
    <2>1. PICK m \in S : Place(R, S, m) = i  BY <1>9
    <2> QED  BY <2>1, <1>4
  <1> QED  BY <1>3, <1>10, <1>11, <1>12, <1>13

\* generate puts the member of rank i - 1 at position i.
LEMMA GenerateAt ==
  ASSUME NEW e, NEW r, NEW S, Hashed(e, r, S),
         NEW sn \in 0..Cardinality(S), NEW i \in 1..sn
  PROVE  /\ Generate(e, r, S, sn)[i] \in S
         /\ Rank(e, r, S, Generate(e, r, S, sn)[i]) = i - 1
  <1>1. Cardinality(S) \in Nat /\ i - 1 \in 0..(Cardinality(S) - 1)  BY Ranks
  <1>2. \E m \in S : Rank(e, r, S, m) = i - 1  BY <1>1, Ranks
  <1>3. Generate(e, r, S, sn)[i] = CHOOSE m \in S : Rank(e, r, S, m) = i - 1
    BY DEF Generate
  <1> QED  BY <1>2, <1>3

\* The members of a generated list are those of the lowest ranks.
LEMMA GenerateCovers ==
  ASSUME NEW e, NEW r, NEW S, Hashed(e, r, S), NEW sn \in 0..Cardinality(S)
  PROVE  {Generate(e, r, S, sn)[i] : i \in 1..sn} = {m \in S : Rank(e, r, S, m) < sn}
  <1> DEFINE g == Generate(e, r, S, sn)
  <1>0. Cardinality(S) \in Nat  BY Ranks
  <1>1. \A i \in 1..sn : g[i] \in S /\ Rank(e, r, S, g[i]) = i - 1  BY GenerateAt
  <1>2. ASSUME NEW m \in S, Rank(e, r, S, m) < sn
        PROVE  \E i \in 1..sn : g[i] = m
    <2> DEFINE i == Rank(e, r, S, m) + 1
    <2>1. Rank(e, r, S, m) \in 0..(Cardinality(S) - 1)  BY Ranks
    <2>2. i \in 1..sn /\ i - 1 = Rank(e, r, S, m)  BY <2>1, <1>0, <1>2
    <2>3. g[i] \in S /\ Rank(e, r, S, g[i]) = Rank(e, r, S, m)  BY <2>2, <1>1
    <2>4. g[i] = m  BY <2>3, Ranks
    <2> QED  BY <2>2, <2>4
  <1>3. \A i \in 1..sn : i - 1 < sn  BY <1>0
  <1> QED  BY <1>1, <1>2, <1>3

\* Sorting the chosen members again leaves every one in its place.
LEMMA RegenerateSame ==
  ASSUME NEW e, NEW r, NEW S, Hashed(e, r, S), NEW sn \in 0..Cardinality(S),
         NEW T, T = {m \in S : Rank(e, r, S, m) < sn}
  PROVE  Generate(e, r, T, sn) = Generate(e, r, S, sn)
  <1>0. Cardinality(S) \in Nat  BY Ranks
  <1>1. T \in SUBSET S /\ IsFiniteSet(T) /\ Hashed(e, r, T)
    BY FS_Subset DEF Hashed
  <1>2. ASSUME NEW m \in T  PROVE Rank(e, r, T, m) = Rank(e, r, S, m)
    <2>1. ASSUME NEW x \in S, Before(e, r, x, m)  PROVE x \in T
      <3>1. Rank(e, r, S, x) < Rank(e, r, S, m)  BY <2>1, <1>2, Ranks
      <3>2. Rank(e, r, S, x) \in 0..(Cardinality(S) - 1)
            /\ Rank(e, r, S, m) \in 0..(Cardinality(S) - 1)  BY <1>2, Ranks
      <3>3. Rank(e, r, S, m) < sn  BY <1>2
      <3>4. Rank(e, r, S, x) < sn  BY <3>1, <3>2, <3>3, <1>0
      <3> QED  BY <3>4
    <2>2. {x \in T : Before(e, r, x, m)} = {x \in S : Before(e, r, x, m)}  BY <2>1, <1>1
    <2> QED  BY <2>2 DEF Rank
  <1>3. ASSUME NEW i \in 1..sn
        PROVE  Generate(e, r, T, sn)[i] = Generate(e, r, S, sn)[i]
    <2> DEFINE m == Generate(e, r, S, sn)[i]
    <2>1. m \in S /\ Rank(e, r, S, m) = i - 1  BY GenerateAt
    <2>2. m \in T  BY <2>1, <1>0
    <2>3. Rank(e, r, T, m) = i - 1  BY <2>1, <2>2, <1>2
    <2>4. \A x \in T : Rank(e, r, T, x) = i - 1 => x = m  BY <2>2, <2>3, <1>1, Ranks
    <2>5. Generate(e, r, T, sn)[i] = CHOOSE x \in T : Rank(e, r, T, x) = i - 1
      BY DEF Generate
    <2> HIDE DEF m
    <2>6. (CHOOSE x \in T : Rank(e, r, T, x) = i - 1) = m  BY <2>2, <2>3, <2>4
    <2> QED  BY <2>5, <2>6 DEF m
  <1>4. /\ Generate(e, r, T, sn) = [i \in 1..sn |-> Generate(e, r, T, sn)[i]]
        /\ Generate(e, r, S, sn) = [i \in 1..sn |-> Generate(e, r, S, sn)[i]]
    BY DEF Generate
  <1> HIDE DEF Generate
  <1> QED  BY <1>3, <1>4

------------------------------------------------------------------------------
\* Installed lists

\* A list elected from a pool of members
Elected(list) ==
  /\ list.pool # {} /\ 0 \notin list.pool
  /\ list.epoch \in Nat
  /\ Hashed(list.epoch, list.round, list.pool)

\* The stewards of an elected list are at least one and at most the pool.
LEMMA ListLenRange ==
  ASSUME NEW list, Elected(list)
  PROVE  /\ Cardinality(list.pool) \in Nat \ {0}
         /\ ListLen(list) \in 1..Cardinality(list.pool)
         /\ ListLen(list) \in Nat \ {0}
  <1>1. IsFiniteSet(list.pool)  BY DEF Elected, Hashed
  <1>2. Cardinality(list.pool) \in Nat /\ Cardinality(list.pool) # 0
    BY <1>1, FS_CardinalityType, FS_EmptySet DEF Elected
  <1> QED  BY <1>2, SnAssumption DEF ListLen, ComputeListSize

\* Position i holds the steward of rank i - 1, and every steward has a position.
LEMMA StewardsAt ==
  ASSUME NEW list, Elected(list)
  PROVE  /\ DOMAIN Stewards(list) = 1..ListLen(list)
         /\ \A i \in 1..ListLen(list) :
              /\ Stewards(list)[i] \in list.pool
              /\ Rank(list.epoch, list.round, list.pool, Stewards(list)[i]) = i - 1
              /\ IsSteward(list, Stewards(list)[i])
         /\ {Stewards(list)[i] : i \in 1..ListLen(list)}
              = {m \in list.pool : IsSteward(list, m)}
         /\ \A i, j \in 1..ListLen(list) : Stewards(list)[i] = Stewards(list)[j] => i = j
  <1> DEFINE n == ListLen(list)
             S == list.pool
             e == list.epoch
             r == list.round
  <1>1. Cardinality(S) \in Nat /\ n \in 0..Cardinality(S) /\ n \in Nat  BY ListLenRange
  <1>2. Hashed(e, r, S)  BY DEF Elected
  <1>3. Stewards(list) = Generate(e, r, S, n)  BY DEF Stewards, ListLen
  <1>4. DOMAIN Generate(e, r, S, n) = 1..n  BY DEF Generate
  <1> HIDE DEF n, S, e, r
  <1>5. \A i \in 1..n : /\ Generate(e, r, S, n)[i] \in S
                        /\ Rank(e, r, S, Generate(e, r, S, n)[i]) = i - 1
    BY <1>1, <1>2, GenerateAt
  <1>6. {Generate(e, r, S, n)[i] : i \in 1..n} = {m \in S : Rank(e, r, S, m) < n}
    BY <1>1, <1>2, GenerateCovers
  <1>7. \A i \in 1..n : i - 1 < n  BY <1>1
  <1>8. \A m \in S : IsSteward(list, m) <=> Rank(e, r, S, m) < n
    BY DEF IsSteward, S, e, r, n
  <1>9. \A i \in 1..n : IsSteward(list, Stewards(list)[i])  BY <1>3, <1>5, <1>7, <1>8
  <1>10. \A i, j \in 1..n : Stewards(list)[i] = Stewards(list)[j] => i = j
    <2> TAKE i, j \in 1..n
    <2> HAVE Stewards(list)[i] = Stewards(list)[j]
    <2>1. i - 1 = j - 1  BY <1>3, <1>5
    <2> QED  BY <2>1, <1>1
  <1>11. {m \in S : Rank(e, r, S, m) < n} = {m \in S : IsSteward(list, m)}  BY <1>8
  <1> QED  BY <1>3, <1>4, <1>5, <1>6, <1>9, <1>10, <1>11 DEF n, S, e, r

\* From any slot, the walk of a rotation over n places passes each of them.
LEMMA RotationReaches ==
  ASSUME NEW n \in Nat \ {0}, NEW a \in Nat, NEW j \in 0..(n - 1)
  PROVE  \E k \in 0..(n - 1) : (a + k) % n = j
  <1> DEFINE q == a \div n
             c == a % n
  <1>1. q \in Nat /\ c \in 0..(n - 1) /\ a = (n * q) + c  OBVIOUS
  <1> HIDE DEF q, c
  <1>2. CASE c <= j
    <2> DEFINE k == j - c
    <2>1. k \in 0..(n - 1) /\ a + k = (n * q) + j  BY <1>1, <1>2
    <2>2. ((n * q) + j) % n = j  BY <1>1
    <2>3. (a + k) % n = j  BY <2>1, <2>2
    <2> QED  BY <2>1, <2>3
  <1>3. CASE c > j
    <2> DEFINE k == (n + j) - c
               d == q + 1
    <2>1. d \in Nat /\ k \in 0..(n - 1)  BY <1>1, <1>3
    <2>2. n * d = (n * q) + n  BY <1>1
    <2>3. a + k = (n * d) + j  BY <1>1, <2>1, <2>2
    <2> HIDE DEF d
    <2>4. ((n * d) + j) % n = j  BY <2>1
    <2>5. (a + k) % n = j  BY <2>3, <2>4
    <2> QED  BY <2>1, <2>5
  <1> QED  BY <1>1, <1>2, <1>3

\* A nonempty set of numbers has a least one.
LEMMA Least ==
  ASSUME NEW H, H \subseteq Nat, H # {}
  PROVE  \E k \in H : \A j \in H : k <= j
  <1> DEFINE R == OpToRel(<, Nat)
  <1>1. IsWellFoundedOn(R, Nat)  BY NatLessThanWellFounded
  <1>2. \A j, k \in Nat : j < k => <<j, k>> \in R  BY DEF OpToRel
  <1> HIDE DEF R
  <1>3. PICK k \in H : \A j \in H : ~(<<j, k>> \in R)  BY <1>1, WFMin
  <1>4. \A j \in H : ~(j < k)  BY <1>2, <1>3
  <1>5. \A j \in H : k <= j  BY <1>4
  <1> QED  BY <1>5

\* Outside the span of the list nobody is responsible.
LEMMA StewardFromExhausted ==
  ASSUME NEW list, NEW epoch, NEW offset, NEW eligible, Exhausted(list, epoch)
  PROVE  StewardFrom(list, epoch, offset, eligible) = NoMember
  BY DEF StewardFrom

\* Within the span the walk finds an eligible steward whenever there is one.
LEMMA StewardFromFinds ==
  ASSUME NEW list, Elected(list), NEW epoch \in Nat, NEW offset \in Nat, NEW eligible,
         ~Exhausted(list, epoch)
  PROVE  LET live == {m \in list.pool : IsSteward(list, m)} \cap eligible
         IN IF live = {} THEN StewardFrom(list, epoch, offset, eligible) = NoMember
                         ELSE StewardFrom(list, epoch, offset, eligible) \in live
  <1> DEFINE n     == ListLen(list)
             a     == epoch - list.epoch + offset
             st    == Stewards(list)
             At(k) == st[((a + k) % n) + 1]
             hits  == {k \in 0..(n - 1) : At(k) \in eligible}
             live  == {m \in list.pool : IsSteward(list, m)} \cap eligible
             pick  == CHOOSE k \in hits : \A j \in hits : k <= j
  <1>1. n \in Nat \ {0}  BY ListLenRange
  <1>2. list # NoList  BY DEF NoList, Elected
  <1>3. epoch - list.epoch \in Nat /\ a \in Nat  BY <1>1 DEF Exhausted, Elected
  <1>4. StewardFrom(list, epoch, offset, eligible)
          = IF hits = {} THEN NoMember ELSE At(pick)
    BY <1>2 DEF StewardFrom
  <1>5. \A k \in 0..(n - 1) : ((a + k) % n) + 1 \in 1..n  BY <1>1, <1>3
  <1>6. \A k \in 0..(n - 1) : At(k) \in {m \in list.pool : IsSteward(list, m)}
    BY <1>5, StewardsAt
  <1>7. ASSUME NEW m \in live  PROVE hits # {}
    <2>1. PICK i \in 1..n : st[i] = m  BY <1>7, StewardsAt
    <2>2. i - 1 \in 0..(n - 1)  BY <1>1
    <2> HIDE DEF a, n
    <2>3. PICK k \in 0..(n - 1) : (a + k) % n = i - 1  BY <1>1, <1>3, <2>2, RotationReaches
    <2>4. ((a + k) % n) + 1 = i  BY <2>3, <1>1
    <2>5. At(k) = m  BY <2>1, <2>4
    <2>6. k \in hits  BY <2>5
    <2> QED  BY <2>6
  <1>8. hits \subseteq Nat  BY <1>1
  <1>9. ASSUME hits # {}  PROVE At(pick) \in live
    <2> HIDE DEF hits, At
    <2>1. \E k \in hits : \A j \in hits : k <= j  BY <1>8, <1>9, Least
    <2>2. pick \in hits  BY <2>1
    <2>3. pick \in 0..(n - 1) /\ At(pick) \in eligible  BY <2>2 DEF hits
    <2> QED  BY <2>3, <1>6
  <1> HIDE DEF hits, At, live, pick
  <1>10. CASE live = {}
    <2>1. hits = {}  BY <1>9, <1>10
    <2> QED  BY <2>1, <1>4, <1>10 DEF live
  <1>11. CASE live # {}
    <2>1. hits # {}  BY <1>7, <1>11
    <2> QED  BY <2>1, <1>4, <1>9, <1>11 DEF live
  <1> QED  BY <1>10, <1>11

\* While everybody is eligible the rotation hands epoch e the steward of rank
\* e - list.epoch.
LEMMA EpochStewardInRotation ==
  ASSUME NEW list, Elected(list), NEW epoch \in Nat, NEW eligible,
         list.pool \subseteq eligible, ~Exhausted(list, epoch)
  PROVE  /\ epoch - list.epoch \in 0..(ListLen(list) - 1)
         /\ EpochSteward(list, epoch, eligible) = Stewards(list)[(epoch - list.epoch) + 1]
         /\ EpochSteward(list, epoch, eligible) # NoMember
  <1> DEFINE n     == ListLen(list)
             a     == epoch - list.epoch + 0
             st    == Stewards(list)
             At(k) == st[((a + k) % n) + 1]
             hits  == {k \in 0..(n - 1) : At(k) \in eligible}
             pick  == CHOOSE k \in hits : \A j \in hits : k <= j
  <1>1. n \in Nat \ {0}  BY ListLenRange
  <1>2. list # NoList  BY DEF NoList, Elected
  <1>3. a = epoch - list.epoch /\ a \in 0..(n - 1)  BY <1>1 DEF Exhausted, Elected
  <1>4. EpochSteward(list, epoch, eligible) = IF hits = {} THEN NoMember ELSE At(pick)
    BY <1>2 DEF StewardFrom, EpochSteward
  <1>5. \A k \in 0..(n - 1) : ((a + k) % n) + 1 \in 1..n  BY <1>1, <1>3
  <1>6. hits = 0..(n - 1)  BY <1>5, StewardsAt
  <1>7. pick = 0
    <2>1. 0 \in hits /\ \A j \in hits : 0 <= j  BY <1>1, <1>6
    <2>2. \A k \in hits : (\A j \in hits : k <= j) => k = 0  BY <1>1, <1>6, <2>1
    <2> HIDE DEF hits
    <2>3. pick \in hits /\ \A j \in hits : pick <= j  BY <2>1
    <2> QED  BY <2>2, <2>3
  <1>8. (a + 0) % n = a  BY <1>1, <1>3
  <1>9. At(0) = st[a + 1]  BY <1>8
  <1>10. hits # {}
    <2>1. 0 \in 0..(n - 1)  BY <1>1
    <2> QED  BY <2>1, <1>6
  <1> HIDE DEF pick, At, hits
  <1>11. EpochSteward(list, epoch, eligible) = st[a + 1]  BY <1>4, <1>7, <1>9, <1>10
  <1>12. a + 1 \in 1..n  BY <1>1, <1>3
  <1>13. st[a + 1] \in list.pool  BY <1>12, StewardsAt
  <1> QED  BY <1>3, <1>11, <1>13 DEF NoMember, Elected

------------------------------------------------------------------------------
\* The authority sequence

\* The order of the authority sequence as a set of pairs
AuthorityOrder(list, may) == {p \in may \X may : AuthorityBefore(list, p[1], p[2])}

\* Stewards in rotation order before the others by id: a total order
LEMMA AuthorityOrderTotal ==
  ASSUME NEW list, Elected(list), NEW may \in SUBSET Nat
  PROVE  Orders(AuthorityOrder(list, may), may)
  <1> DEFINE B(a, b) == Before(list.epoch, list.round, a, b)
             I(a)    == IsSteward(list, a)
  <1>1. \A a, b \in may : <<a, b>> \in AuthorityOrder(list, may) <=> AuthorityBefore(list, a, b)
    BY DEF AuthorityOrder
  <1>2. \A a : I(a) => a \in list.pool  BY DEF IsSteward
  <1>3. Hashed(list.epoch, list.round, list.pool)  BY DEF Elected
  <1>4. \A a \in list.pool : ~B(a, a)  BY <1>3 DEF Before, Hashed
  <1>5. \A a, b, c \in list.pool : B(a, b) /\ B(b, c) => B(a, c)  BY <1>3 DEF Before, Hashed
  <1>6. \A a, b \in list.pool : a # b => B(a, b) \/ B(b, a)  BY <1>3 DEF Before, Hashed
  <1>7. \A a, b \in may : AuthorityBefore(list, a, b)
          <=> IF I(a) THEN I(b) => B(a, b) ELSE ~I(b) /\ a < b
    BY DEF AuthorityBefore
  <1>8. /\ \A a \in may : ~(a < a)
        /\ \A a, b, c \in may : a < b /\ b < c => a < c
        /\ \A a, b \in may : a # b => a < b \/ b < a
    OBVIOUS
  <1> HIDE DEF B, I
  <1>9. \A a \in may : ~AuthorityBefore(list, a, a)  BY <1>2, <1>4, <1>7, <1>8
  <1>10. \A a, b, c \in may : AuthorityBefore(list, a, b) /\ AuthorityBefore(list, b, c)
                                => AuthorityBefore(list, a, c)
    BY <1>2, <1>5, <1>7, <1>8
  <1>11. \A a, b \in may : a # b => AuthorityBefore(list, a, b) \/ AuthorityBefore(list, b, a)
    BY <1>2, <1>6, <1>7, <1>8
  <1> QED  BY <1>1, <1>9, <1>10, <1>11 DEF Orders

\* The sequence lists exactly the members it is given.
LEMMA AuthorityCovers ==
  ASSUME NEW list, Elected(list), NEW may \in SUBSET Nat, IsFiniteSet(may)
  PROVE  /\ Cardinality(may) \in Nat
         /\ DOMAIN InAuthorityOrder(list, may) = 1..Cardinality(may)
         /\ \A i \in 1..Cardinality(may) : InAuthorityOrder(list, may)[i] \in may
         /\ \A m \in may : \E i \in 1..Cardinality(may) : InAuthorityOrder(list, may)[i] = m
  <1> DEFINE R    == AuthorityOrder(list, may)
             P(m) == Cardinality({x \in may : AuthorityBefore(list, x, m)})
             seq  == InAuthorityOrder(list, may)
  <1>1. Orders(R, may)  BY AuthorityOrderTotal
  <1>2. ASSUME NEW m \in may  PROVE P(m) = Place(R, may, m)
    <2>1. {x \in may : AuthorityBefore(list, x, m)} = {x \in may : <<x, m>> \in R}
      BY DEF AuthorityOrder
    <2> QED  BY <2>1 DEF Place
  <1>3. seq = [i \in 1..Cardinality(may) |-> CHOOSE m \in may : P(m) = i - 1]
    BY DEF InAuthorityOrder
  <1> HIDE DEF R, P
  <1>4. \A i : (CHOOSE m \in may : P(m) = i - 1)
                 = (CHOOSE m \in may : Place(R, may, m) = i - 1)
    BY <1>2
  <1>5. seq = Sorted(R, may)  BY <1>3, <1>4 DEF Sorted
  <1> HIDE DEF seq
  <1>6. IsFiniteSet(may)  OBVIOUS
  <1> QED  BY ONLY <1>1, <1>5, <1>6, SortedCovers DEF seq
==============================================================================
