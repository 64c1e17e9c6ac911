--------------------------- MODULE ProposalsProofs ----------------------------
(***************************************************************************)
(* Theorems about Proposals for every choice of its constants: any group,  *)
(* any joiners and requests, any delays, limits and bounds.                *)
(***************************************************************************)
EXTENDS Proposals, FiniteSetTheorems, TLAPS

IdType      == [nr : Nat, req : Requests, own : BOOLEAN]
SessionType == [id : IdType, status : {"active", "yes", "no"}, voted : BOOLEAN]
TimerType   == [id : IdType, left : Nat]

------------------------------------------------------------------------------
\* Sequences and finite sets

\* What SetToSeqs returns: the elements of the set, each once
LEMMA SeqsOfSet ==
  ASSUME NEW S, IsFiniteSet(S), NEW f \in SetToSeqs(S)
  PROVE  /\ f \in Seq(S) /\ Len(f) = Cardinality(S) /\ Len(f) \in Nat
         /\ DOMAIN f = 1..Len(f)
         /\ \A i, j \in DOMAIN f : f[i] = f[j] => i = j
         /\ \A x \in S : \E i \in DOMAIN f : f[i] = x
  <1> DEFINE n == Cardinality(S)
             D == 1..n
  <1>1. n \in Nat  BY FS_CardinalityType
  <1>2. f \in [D -> S] /\ \A i, j \in D : i # j => f[i] # f[j]  BY DEF SetToSeqs
  <1>3. IsFiniteSet(D) /\ Cardinality(D) = n  BY <1>1, FS_Interval
  <1>4. f \in Injection(D, S)  BY <1>2 DEF Injection, IsInjective
  <1> HIDE DEF n
  <1>5. f \in Surjection(D, S)
    <2> HIDE DEF D
    <2> QED  BY <1>3, <1>4, FS_Injection DEF n
  <1>6. f \in Seq(S)  BY <1>1, <1>2
  <1>7. Len(f) = n  BY <1>1, <1>2, <1>6
  <1>8. \A x \in S : \E i \in D : f[i] = x  BY <1>5 DEF Surjection
  <1> QED  BY <1>1, <1>2, <1>6, <1>7, <1>8 DEF n

\* The image of a finite set under a field or an index is finite.
LEMMA FiniteImage ==
  ASSUME NEW S, IsFiniteSet(S), NEW f, DOMAIN f = S
  PROVE  IsFiniteSet({f[x] : x \in S})
  <1> DEFINE T == {f[x] : x \in S}
             g == [x \in S |-> f[x]]
  <1>1. g \in Surjection(S, T)  BY DEF Surjection
  <1> HIDE DEF T, g
  <1>2. IsFiniteSet(T)  BY <1>1, FS_Surjection
  <1> QED  BY <1>2 DEF T

\* Adding sessions keeps a suffix of old and new ones, all of them unless the
\* limit is reached.
LEMMA Added ==
  ASSUME NEW S, NEW store \in Seq(S), NEW new \in Seq(S)
  PROVE  LET w == WithSessions(store, new)
             all == store \o new
         IN /\ w \in Seq(S)
            /\ \E k \in Nat : /\ Len(w) + k = Len(store) + Len(new)
                              /\ \A j \in DOMAIN w : /\ j + k \in DOMAIN all
                                                     /\ w[j] = all[j + k]
            /\ Len(w) < MaxSessions => w = all
  <1> DEFINE w    == WithSessions(store, new)
             all  == store \o new
             over == Len(all) - MaxSessions
  <1>1. all \in Seq(S) /\ Len(all) = Len(store) + Len(new) /\ Len(all) \in Nat
        /\ DOMAIN all = 1..Len(all)
    OBVIOUS
  <1>2. MaxSessions \in Nat \ {0}  BY ConfigAssumption
  <1>3. w = IF over > 0 THEN SubSeq(all, over + 1, Len(all)) ELSE all  BY DEF WithSessions
  <1> HIDE DEF w, all
  <1> DEFINE Suffix(k) == /\ Len(w) + k = Len(store) + Len(new)
                          /\ \A j \in DOMAIN w : j + k \in DOMAIN all /\ w[j] = all[j + k]
  <1>4. ASSUME over > 0
        PROVE  w \in Seq(S) /\ over \in Nat /\ Suffix(over) /\ ~(Len(w) < MaxSessions)
    <2>1. w = SubSeq(all, over + 1, Len(all)) /\ over \in Nat  BY <1>1, <1>2, <1>3, <1>4
    <2>2. over + 1 \in 1..Len(all)  BY <1>1, <1>2, <1>4
    <2>3. w \in Seq(S) /\ Len(w) = MaxSessions /\ DOMAIN w = 1..MaxSessions
      BY <1>1, <1>2, <2>1, <2>2
    <2>4. \A j \in 1..MaxSessions : w[j] = all[over + j]  BY <1>1, <1>2, <2>1, <2>2
    <2>5. \A j \in 1..MaxSessions : j + over \in 1..Len(all) /\ over + j = j + over
      BY <1>1, <1>2, <2>1
    <2>6. \A j \in DOMAIN w : j + over \in DOMAIN all /\ w[j] = all[j + over]
      BY <2>3, <2>4, <2>5, <1>1
    <2>7. Len(w) + over = Len(store) + Len(new)  BY <2>3, <1>1, <1>2
    <2>8. ~(Len(w) < MaxSessions)  BY <2>3, <1>2
    <2> HIDE DEF over
    <2> QED  BY <2>1, <2>3, <2>6, <2>7, <2>8
  <1>5. ASSUME ~(over > 0)  PROVE w \in Seq(S) /\ Suffix(0) /\ w = all
    <2>1. w = all  BY <1>3, <1>5
    <2>2. Len(w) + 0 = Len(store) + Len(new)  BY <2>1, <1>1
    <2>3. \A j \in DOMAIN w : j + 0 \in DOMAIN all /\ w[j] = all[j + 0]  BY <2>1, <1>1
    <2> QED  BY <2>1, <2>2, <2>3, <1>1
  <1> HIDE DEF Suffix, over
  <1>6. w \in Seq(S) /\ (Len(w) < MaxSessions => w = all)  BY <1>4, <1>5
  <1>7. \E k \in Nat : Suffix(k)  BY <1>4, <1>5
  <1> QED  BY <1>6, <1>7 DEF Suffix, w, all

\* What is added was there before or is new.
LEMMA AddedFrom ==
  ASSUME NEW S, NEW store \in Seq(S), NEW new \in Seq(S),
         NEW j \in DOMAIN WithSessions(store, new)
  PROVE  \/ \E i \in DOMAIN store : WithSessions(store, new)[j] = store[i]
         \/ \E i \in DOMAIN new : WithSessions(store, new)[j] = new[i]
  <1> DEFINE w    == WithSessions(store, new)
             all  == store \o new
  <1>1. PICK k \in Nat : j + k \in DOMAIN all /\ w[j] = all[j + k]  BY Added
  <1>2. ASSUME NEW m \in DOMAIN all
        PROVE  (\E i \in DOMAIN store : all[m] = store[i]) \/ (\E i \in DOMAIN new : all[m] = new[i])
    <2>1. m \in 1..(Len(store) + Len(new))  OBVIOUS
    <2>2. CASE m <= Len(store)
      BY <2>1, <2>2
    <2>3. CASE m > Len(store)
      <3>1. m - Len(store) \in DOMAIN new /\ all[m] = new[m - Len(store)]  BY <2>1, <2>3
      <3> QED  BY <3>1
    <2> QED  BY <2>1, <2>2, <2>3
  <1> HIDE DEF w, all
  <1> QED  BY <1>1, <1>2 DEF w

\* Dropping a session leaves the others, in their order.
LEMMA Dropped ==
  ASSUME NEW S, NEW store \in Seq(S), NEW id, \E i \in DOMAIN store : store[i].id = id
  PROVE  LET d == Drop(store, id)
         IN /\ d \in Seq(S)
            /\ \E at \in DOMAIN store :
                 /\ store[at].id = id
                 /\ Len(d) = Len(store) - 1
                 /\ \A j \in DOMAIN d : d[j] = IF j < at THEN store[j] ELSE store[j + 1]
  <1> DEFINE at == CHOOSE i \in DOMAIN store : store[i].id = id
             a  == SubSeq(store, 1, at - 1)
             b  == SubSeq(store, at + 1, Len(store))
             d  == Drop(store, id)
  <1>1. at \in DOMAIN store /\ store[at].id = id  OBVIOUS
  <1>2. d = a \o b  BY DEF Drop, RemoveAt
  <1> HIDE DEF at, d
  <1>3. at \in 1..Len(store) /\ Len(store) \in Nat  BY <1>1
  <1>4. a \in Seq(S) /\ Len(a) = at - 1 /\ \A j \in 1..(at - 1) : a[j] = store[j]  BY <1>3
  <1>5. /\ b \in Seq(S) /\ Len(b) = Len(store) - at
        /\ \A j \in 1..(Len(store) - at) : b[j] = store[at + j]
    <2>1. CASE at < Len(store)  BY <1>3, <2>1
    <2>2. CASE at = Len(store)  BY <1>3, <2>2
    <2> QED  BY <1>3, <2>1, <2>2
  <1> HIDE DEF a, b
  <1>6. d \in Seq(S) /\ Len(d) = Len(store) - 1
    <2>0. a \in Seq(S) /\ b \in Seq(S)  BY <1>4, <1>5
    <2>1. d \in Seq(S) /\ Len(d) = Len(a) + Len(b)  BY <2>0, <1>2
    <2>2. Len(a) + Len(b) = Len(store) - 1  BY <1>3, <1>4, <1>5
    <2> QED  BY <2>1, <2>2
  <1>7. ASSUME NEW j \in DOMAIN d
        PROVE  d[j] = IF j < at THEN store[j] ELSE store[j + 1]
    <2>1. j \in 1..(Len(store) - 1)  BY <1>6
    <2>2. CASE j < at
      <3>1. j \in 1..(at - 1) /\ d[j] = a[j]  BY <1>2, <1>3, <1>4, <1>5, <2>1, <2>2
      <3> QED  BY <3>1, <1>4, <2>2
    <2>3. CASE ~(j < at)
      <3>1. /\ j - (at - 1) \in 1..(Len(store) - at) /\ d[j] = b[j - (at - 1)]
            /\ at + (j - (at - 1)) = j + 1
        BY <1>2, <1>3, <1>4, <1>5, <2>1, <2>3
      <3> QED  BY <3>1, <1>5, <2>3
    <2> QED  BY <2>2, <2>3
  <1> QED  BY <1>1, <1>6, <1>7 DEF d

------------------------------------------------------------------------------
\* Types

\* A request that enters the buffer is a membership change, and there is at most
\* one per member; only finitely many wait.
BufferInv ==
  /\ IsFiniteSet(pending)
  /\ \A p \in pending : IsChange(p.req)
  /\ \A p, q \in pending : p.req.target = q.req.target => p = q
  /\ \A p \in pending : p.req.op = "Invite" => p.req.target \notin Range(tree)

\* The ids of the proposals opened now
NewIds(seq) == [i \in DOMAIN seq |-> [nr |-> opened + i, req |-> seq[i], own |-> TRUE]]

\* The part of the state that opening proposals changes
OpeningType ==
  /\ opened \in Nat
  /\ sessions \in Seq(SessionType)
  /\ voting \subseteq IdType /\ emergencies \subseteq IdType
  /\ timeouts \subseteq TimerType /\ autoVotes \subseteq TimerType

LEMMA NewIdsType ==
  ASSUME opened \in Nat, NEW seq \in Seq(Requests)
  PROVE  /\ DOMAIN NewIds(seq) = DOMAIN seq /\ DOMAIN seq = 1..Len(seq) /\ Len(seq) \in Nat
         /\ \A i \in DOMAIN seq : /\ NewIds(seq)[i] \in IdType
                                  /\ NewIds(seq)[i].nr = opened + i
                                  /\ NewIds(seq)[i].req = seq[i]
                                  /\ NewIds(seq)[i].own = TRUE
  BY DEF NewIds, IdType

LEMMA OpeningTyped ==
  ASSUME OpeningType, NEW seq \in Seq(Requests), NEW yes \in BOOLEAN, Initiate(seq, yes)
  PROVE  OpeningType'
  <1> DEFINE ids == NewIds(seq)
             new == [i \in DOMAIN seq |-> NewSession(ids[i], yes)]
  <1>1. /\ DOMAIN ids = DOMAIN seq /\ DOMAIN seq = 1..Len(seq) /\ Len(seq) \in Nat
        /\ \A i \in DOMAIN seq : ids[i] \in IdType
    BY NewIdsType DEF OpeningType
  <1>2. Range(ids) \subseteq IdType  BY <1>1 DEF Range
  <1>3. /\ opened' = opened + Len(seq)
        /\ sessions' = WithSessions(sessions, new)
        /\ voting' = voting \cup Range(ids)
        /\ emergencies' = emergencies \cup {id \in Range(ids) : ~IsChange(id.req)}
        /\ timeouts' = timeouts \cup {[id |-> id, left |-> ConsensusTimeout] : id \in Range(ids)}
        /\ autoVotes' = IF yes THEN autoVotes
                        ELSE autoVotes \cup {[id |-> id, left |-> VotingDelay] : id \in Range(ids)}
    BY DEF Initiate, NewIds
  <1> HIDE DEF ids
  <1>4. new \in Seq(SessionType)
    <2>1. \A i \in 1..Len(seq) : NewSession(ids[i], yes) \in SessionType
      BY <1>1 DEF NewSession, SessionType
    <2>2. new = [i \in 1..Len(seq) |-> NewSession(ids[i], yes)]  BY <1>1
    <2> HIDE DEF new
    <2> QED  BY <1>1, <2>1, <2>2
  <1> HIDE DEF new
  <1>5. sessions' \in Seq(SessionType)  BY <1>3, <1>4, Added DEF OpeningType
  <1>6. opened' \in Nat  BY <1>1, <1>3 DEF OpeningType
  <1>7. voting' \subseteq IdType /\ emergencies' \subseteq IdType  BY <1>2, <1>3 DEF OpeningType
  <1>8. \A id \in Range(ids) : /\ [id |-> id, left |-> ConsensusTimeout] \in TimerType
                               /\ [id |-> id, left |-> VotingDelay] \in TimerType
    BY <1>2, ConfigAssumption DEF TimerType
  <1>9. timeouts' \subseteq TimerType /\ autoVotes' \subseteq TimerType
    BY <1>3, <1>8 DEF OpeningType
  <1> QED  BY <1>5, <1>6, <1>7, <1>9 DEF OpeningType

\* The rest of the state
RestType ==
  /\ working \in BOOLEAN /\ role \in {"epoch", "backup", "plain"}
  /\ stage \in {"idle", "drain", "left"}
  /\ epoch \in Nat /\ DOMAIN tree \subseteq Leaves /\ Range(tree) \subseteq Keys
  /\ bus \in Seq([id : IdType, yes : BOOLEAN])
  /\ approved \subseteq IdType
  /\ resolved \in Seq(IdType)
  /\ pending \subseteq [req : Requests, seen : Nat]
  /\ anchor \in Nat \cup {Off}
  /\ leaving \subseteq Leaves

LEMMA TypeParts == TypeOK <=> OpeningType /\ RestType
  BY DEF TypeOK, OpeningType, RestType, IdType, SessionType, TimerType

\* Requests by kind
LEMMA RequestKinds ==
  /\ \A k \in Keys : Invite(k) \in Requests /\ IsChange(Invite(k))
  /\ \A l \in Leaves : RemoveMember(l) \in Requests /\ IsChange(RemoveMember(l))
  /\ \A r \in Requests : /\ r.op \in {"Invite", "Remove", "Emergency"}
                         /\ r.op = "Invite" => r.target \in Keys
                         /\ r.op = "Remove" => r.target \in Leaves
  /\ \A l \in Leaves : LeaveId(l) \in IdType
  /\ Self \in Leaves
  <1>1. \A k \in Keys : Invite(k) \in Requests /\ IsChange(Invite(k))
    BY DEF Requests, Invite, IsChange
  <1>2. \A l \in Leaves : RemoveMember(l) \in Requests /\ IsChange(RemoveMember(l))
    BY DEF Requests, RemoveMember, IsChange
  <1>3. \A r \in Requests : /\ r.op \in {"Invite", "Remove", "Emergency"}
                            /\ r.op = "Invite" => r.target \in Keys
                            /\ r.op = "Remove" => r.target \in Leaves
    BY DEF Requests, Invite, RemoveMember, Emergency
  <1>4. \A l \in Leaves : LeaveId(l) \in IdType  BY <1>2 DEF LeaveId, IdType
  <1>5. Self \in Leaves  BY IdentityAssumption DEF Leaves
  <1> QED  BY <1>1, <1>2, <1>3, <1>4, <1>5

------------------------------------------------------------------------------
\* The buffer of updates

LEMMA BufferedKeeps ==
  ASSUME RestType, BufferInv, NEW req \in Requests, IsChange(req), Doable(req),
         pending' = Buffered(pending, req), tree' = tree
  PROVE  BufferInv' /\ pending' \subseteq [req : Requests, seen : Nat]
  <1> DEFINE p == [req |-> req, seen |-> epoch]
  <1>1. CASE \E q \in pending : q.req.target = req.target
    <2>1. pending' = pending  BY <1>1 DEF Buffered
    <2> QED  BY <2>1 DEF BufferInv, RestType
  <1>2. CASE ~\E q \in pending : q.req.target = req.target
    <2>1. pending' = pending \cup {p}  BY <1>2 DEF Buffered
    <2>2. IsFiniteSet(pending')  BY <2>1, FS_AddElement DEF BufferInv
    <2>3. p.req = req /\ p \in [req : Requests, seen : Nat]  BY DEF RestType
    <2>4. req.op = "Invite" => req.target \notin Range(tree)  BY DEF Doable, DoableIn
    <2> HIDE DEF p
    <2> QED  BY <2>1, <2>2, <2>3, <2>4, <1>2 DEF BufferInv, RestType
  <1> QED  BY <1>1, <1>2

\* The buffer of fewer updates over the same members
LEMMA BufferShrinks ==
  ASSUME BufferInv, pending' \in SUBSET pending, tree' = tree
  PROVE  BufferInv'
  <1>1. IsFiniteSet(pending')  BY FS_Subset DEF BufferInv
  <1> QED  BY <1>1 DEF BufferInv

\* Who is in the group after a commit
LEMMA TreeAfterCommit ==
  ASSUME RestType, NEW reqs \in SUBSET Requests, NEW t \in TreesAfter(reqs)
  PROVE  /\ DOMAIN t \subseteq Leaves /\ Range(t) \subseteq Keys
         /\ \A k \in Range(t) : k \in Range(tree) \/ \E r \in reqs : r.target = k
  <1> DEFINE gone  == {r.target : r \in {x \in reqs : x.op = "Remove"}}
             keys  == {r.target : r \in {x \in reqs : x.op = "Invite"}}
             stay  == (DOMAIN tree) \ gone
             free  == Leaves \ stay
             seats == {l \in free : Cardinality({m \in free : m < l}) < Cardinality(keys)}
  <1>1. PICK seat \in Bijection(seats, keys) :
          t = [l \in stay \cup seats |-> IF l \in stay THEN tree[l] ELSE seat[l]]
    BY DEF TreesAfter
  <1>2. seat \in [seats -> keys]  BY DEF Bijection, Injection
  <1>3. stay \subseteq Leaves /\ seats \subseteq Leaves /\ stay \subseteq DOMAIN tree
    BY DEF RestType
  <1>4. keys \subseteq Keys /\ \A k \in keys : \E r \in reqs : r.target = k
    BY RequestKinds
  <1> HIDE DEF stay, seats, keys
  <1>5. DOMAIN t = stay \cup seats  BY <1>1
  <1>6. ASSUME NEW l \in DOMAIN t  PROVE t[l] \in Range(tree) \/ t[l] \in keys
    <2>1. CASE l \in stay  BY <2>1, <1>1, <1>3 DEF Range
    <2>2. CASE l \notin stay  BY <2>2, <1>1, <1>2, <1>5
    <2> QED  BY <2>1, <2>2
  <1>7. \A k \in Range(t) : k \in Range(tree) \/ k \in keys  BY <1>6 DEF Range
  <1>8. Range(tree) \subseteq Keys  BY DEF RestType
  <1> QED  BY <1>3, <1>4, <1>5, <1>7, <1>8

LEMMA CommitBuffer ==
  ASSUME RestType, BufferInv, Commit
  PROVE  BufferInv'
  <1> DEFINE reqs == {id.req : id \in approved}
  <1>1. /\ tree' \in TreesAfter(reqs)
        /\ pending' = {p \in pending : /\ p.req.target \notin {r.target : r \in reqs}
                                       /\ p.seen >= epoch + 1 - MaxAge}
    BY DEF Commit, KeptUpdates
  <1>2. reqs \in SUBSET Requests  BY DEF RestType, IdType
  <1> HIDE DEF reqs
  <1>3. \A k \in Range(tree') : k \in Range(tree) \/ \E r \in reqs : r.target = k
    BY <1>1, <1>2, TreeAfterCommit
  <1>4. IsFiniteSet(pending')  BY <1>1, FS_Subset DEF BufferInv
  <1>5. \A p \in pending' : p \in pending /\ \A r \in reqs : p.req.target # r.target
    BY <1>1
  <1>6. \A p \in pending' : p.req.op = "Invite" => p.req.target \notin Range(tree')
    BY <1>3, <1>5 DEF BufferInv
  <1> QED  BY <1>4, <1>5, <1>6 DEF BufferInv

LEMMA BufferStep ==
  ASSUME RestType, BufferInv, [Next]_vars
  PROVE  BufferInv'
  <1>1. ASSUME NEW req \in Wanted, HearUpdate(req)  PROVE BufferInv'
    BY <1>1, BufferedKeeps, WantedAssumption DEF HearUpdate, group
  <1>2. ASSUME NEW req \in Wanted, HearProposal(req)  PROVE BufferInv'
    <2>1. CASE IsChange(req)
      BY <1>2, <2>1, BufferedKeeps, WantedAssumption DEF HearProposal, group
    <2>2. CASE ~IsChange(req)
      BY <1>2, <2>2, BufferShrinks DEF HearProposal, group
    <2> QED  BY <2>1, <2>2
  <1>3. ASSUME NEW k \in Joiners, Sponsor(k)  PROVE BufferInv'
    <2>1. k \in Keys /\ Invite(k) \in Requests /\ IsChange(Invite(k))
      BY RequestKinds DEF Keys
    <2>2. Doable(Invite(k)) /\ tree' = tree  BY <1>3 DEF Sponsor, Doable, DoableIn, Invite, group
    <2>3. CASE role = "epoch"  BY <1>3, <2>2, <2>3, BufferShrinks DEF Sponsor
    <2>4. CASE role # "epoch"  BY <1>3, <2>1, <2>2, <2>4, BufferedKeeps DEF Sponsor
    <2> QED  BY <2>3, <2>4
  <1>4. ASSUME NEW l \in Leaves, HearLeave(l)  PROVE BufferInv'
    <2>1. Doable(RemoveMember(l)) /\ tree' = tree
      BY <1>4 DEF HearLeave, MayLeave, Doable, DoableIn, RemoveMember, group
    <2> QED  BY <1>4, <2>1, RequestKinds, BufferedKeeps DEF HearLeave
  <1>5. ASSUME DrainOutcome  PROVE BufferInv'
    <2>1. tree' = tree /\ pending' \subseteq pending  BY <1>5 DEF DrainOutcome, Outcome, group
    <2> QED  BY <2>1, BufferShrinks
  <1>6. ASSUME \/ \E req \in Wanted : Propose(req)
               \/ SelfLeave
               \/ \E id \in Ids : Vote(id) \/ Republish(id) \/ \E yes \in BOOLEAN : PeersDecide(id, yes)
               \/ TickDeadlines \/ Drive \/ Freeze \/ RoundFails \/ Tick
               \/ UNCHANGED vars
        PROVE  BufferInv'
    <2>1. pending' = pending /\ tree' = tree
      BY <1>6 DEF Propose, SelfLeave, Vote, Republish, PeersDecide, TickDeadlines, Drive, Freeze,
                  RoundFails, Tick, vars, group, queues
    <2> QED  BY <2>1, BufferShrinks
  <1> QED  BY <1>1, <1>2, <1>3, <1>4, <1>5, <1>6, CommitBuffer DEF Next, Inputs, Poll, Rounds

------------------------------------------------------------------------------
\* The kinds of steps, as far as the proposals in flight are concerned

\* This member opens the proposals of seq.
OpensOwn(seq, yes) ==
  /\ Initiate(seq, yes)
  /\ UNCHANGED <<bus, resolved>> /\ approved' \in {approved, {}}
  /\ \A i, j \in DOMAIN seq : seq[i].target = seq[j].target => i = j
  /\ \A i \in DOMAIN seq : IsChange(seq[i]) => seq[i].target \notin Targets(voting \cup approved')
  /\ \A i \in DOMAIN seq : DoableIn(tree', seq[i])

\* Nothing is opened, voted on or resolved.
Rests == UNCHANGED <<Initiated, bus, resolved>> /\ approved' \in {approved, {}}

\* A leave is taken in.
Leaving(l) ==
  /\ OpenLeave(l) /\ MayLeave(l) /\ ~Stored(LeaveId(l))
  /\ UNCHANGED <<opened, autoVotes, timeouts, emergencies, resolved, approved>>

\* Proposing one request
LEMMA OpensOne ==
  ASSUME NEW req \in Requests, NEW yes \in BOOLEAN, Initiate(<<req>>, yes),
         UNCHANGED <<bus, resolved, approved>>, DoableIn(tree', req),
         Admissible(req)
  PROVE  \E seq \in Seq(Requests) : OpensOwn(seq, yes)
  <1> DEFINE seq == <<req>>
  <1>1. seq \in Seq(Requests) /\ DOMAIN seq = {1} /\ seq[1] = req  OBVIOUS
  <1>2. IsChange(req) => req.target \notin Targets(voting \cup approved')
    BY DEF Admissible, ActiveTargets
  <1>3. Initiate(seq, yes)  OBVIOUS
  <1> HIDE DEF seq
  <1>4. OpensOwn(seq, yes)  BY <1>1, <1>2, <1>3 DEF OpensOwn
  <1> QED  BY <1>1, <1>4

\* Draining a buffer of a finite number of updates, one per member
LEMMA OpensBuffer ==
  ASSUME NEW buffer \in SUBSET [req : Requests, seen : Nat], IsFiniteSet(buffer),
         \A p, q \in buffer : p.req.target = q.req.target => p = q,
         \A p \in buffer : p.req.op = "Invite" => p.req.target \notin Range(tree'),
         \A p \in buffer : IsChange(p.req),
         DrainBuffer(ActionableOf(buffer, tree', voting \cup approved')),
         UNCHANGED <<bus, resolved>>, approved' \in {approved, {}}
  PROVE  \E seq \in Seq(Requests) : OpensOwn(seq, FALSE)
  <1> DEFINE all  == ActionableOf(buffer, tree', voting \cup approved')
             reqs == IF emergencies = {} THEN all ELSE {}
  <1>1. PICK seq \in SetToSeqs(reqs) : Initiate(seq, FALSE)  BY DEF DrainBuffer
  <1>2. ASSUME NEW r \in reqs
        PROVE  \E p \in buffer : /\ p.req = r
                                 /\ p.req.target \notin Targets(voting \cup approved')
                                 /\ p.req.op = "Remove" => p.req.target \in DOMAIN tree'
    <2>1. r \in all  OBVIOUS
    <2> QED  BY ONLY <2>1 DEF ActionableOf
  <1> HIDE DEF all, reqs
  <1>3. IsFiniteSet(reqs)
    <2> DEFINE f == [p \in buffer |-> p.req]
               T == {f[p] : p \in buffer}
    <2>0. DOMAIN f = buffer  OBVIOUS
    <2>2. \A r \in reqs : r \in T  BY <1>2
    <2> HIDE DEF f
    <2>1. IsFiniteSet(T)  BY <2>0, FiniteImage
    <2> HIDE DEF T
    <2> QED  BY <2>1, <2>2, FS_Subset
  <1>4. reqs \subseteq Requests
    <2>1. \A p \in buffer : p.req \in Requests  OBVIOUS
    <2> QED  BY <2>1, <1>2
  <1>5. \A r \in reqs : /\ r \in Requests
                        /\ r.target \notin Targets(voting \cup approved')
                        /\ DoableIn(tree', r)
    <2> SUFFICES ASSUME NEW r \in reqs
                 PROVE  r.target \notin Targets(voting \cup approved') /\ DoableIn(tree', r)
      BY <1>4
    <2>1. PICK p \in buffer : /\ p.req = r
                              /\ p.req.target \notin Targets(voting \cup approved')
                              /\ p.req.op = "Remove" => p.req.target \in DOMAIN tree'
      BY <1>2
    <2>2. r.op \in {"Invite", "Remove", "Emergency"}  BY <1>4, RequestKinds
    <2> QED  BY <2>1, <2>2 DEF DoableIn
  <1>6. ASSUME NEW r \in reqs, NEW u \in reqs, r.target = u.target  PROVE r = u
    <2>1. PICK p \in buffer : p.req = r  BY <1>2
    <2>2. PICK q \in buffer : q.req = u  BY <1>2
    <2>3. p.req.target = q.req.target  BY <1>6, <2>1, <2>2
    <2>4. p = q  BY <2>3
    <2> QED  BY <2>1, <2>2, <2>4
  <1>7. /\ seq \in Seq(reqs) /\ Len(seq) \in Nat /\ DOMAIN seq = 1..Len(seq)
        /\ \A i, j \in DOMAIN seq : seq[i] = seq[j] => i = j
    BY <1>3, SeqsOfSet
  <1>8. \A i \in DOMAIN seq : seq[i] \in reqs  BY <1>7
  <1>9. seq \in Seq(Requests)  BY <1>4, <1>7
  <1>10. OpensOwn(seq, FALSE)  BY <1>1, <1>5, <1>6, <1>7, <1>8 DEF OpensOwn
  <1> QED  BY <1>9, <1>10

LEMMA StepKinds ==
  ASSUME RestType, BufferInv, BufferInv', [Next]_vars
  PROVE  \/ \E seq \in Seq(Requests), yes \in BOOLEAN : OpensOwn(seq, yes)
         \/ Rests
         \/ \E req \in Wanted : HearProposal(req)
         \/ \E l \in Leaves : Leaving(l)
         \/ \E id \in Ids : Vote(id)
         \/ \E id \in Ids, yes \in BOOLEAN : PeersDecide(id, yes)
         \/ \E id \in Ids : Republish(id)
         \/ TickDeadlines
         \/ DrainOutcome
         \/ Tick
  <1> DEFINE Opens == \E seq \in Seq(Requests), yes \in BOOLEAN : OpensOwn(seq, yes)
  <1>1. ASSUME NEW req \in Wanted, Propose(req)  PROVE Opens
    <2>1. Initiate(<<req>>, TRUE) /\ Admissible(req) /\ UNCHANGED <<bus, resolved, approved>>
          /\ DoableIn(tree', req)
      BY <1>1 DEF Propose, Doable, group
    <2> QED  BY <2>1, OpensOne, WantedAssumption
  <1>2. ASSUME NEW req \in Wanted, HearUpdate(req)  PROVE Opens \/ Rests
    <2>1. UNCHANGED <<bus, resolved, approved>> /\ DoableIn(tree', req)
      BY <1>2 DEF HearUpdate, Doable, group
    <2>2. CASE role = "epoch" /\ Admissible(req)
      BY <1>2, <2>1, <2>2, OpensOne, WantedAssumption DEF HearUpdate
    <2>3. CASE ~(role = "epoch" /\ Admissible(req))
      BY <1>2, <2>1, <2>3 DEF HearUpdate, Rests
    <2> QED  BY <2>2, <2>3
  <1>3. ASSUME NEW k \in Joiners, Sponsor(k)  PROVE Opens \/ Rests
    <2>1. UNCHANGED <<bus, resolved, approved>>  BY <1>3 DEF Sponsor
    <2>2. CASE role = "epoch"
      <3>1. Invite(k) \in Requests  BY RequestKinds DEF Keys
      <3>2. DoableIn(tree', Invite(k))  BY <1>3 DEF Sponsor, DoableIn, Invite, group
      <3> QED  BY <1>3, <2>1, <2>2, <3>1, <3>2, OpensOne DEF Sponsor
    <2>3. CASE role # "epoch"  BY <1>3, <2>1, <2>3 DEF Sponsor, Rests
    <2> QED  BY <2>2, <2>3
  <1>4. ASSUME NEW l \in Leaves, HearLeave(l)  PROVE Leaving(l)
    BY <1>4 DEF HearLeave, Leaving, timers
  <1>5. ASSUME SelfLeave  PROVE Leaving(Self)
    BY <1>5 DEF SelfLeave, Leaving, timers
  <1>6. ASSUME Drive  PROVE Opens \/ Rests
    <2>1. UNCHANGED <<bus, resolved, approved, pending, tree>>  BY <1>6 DEF Drive, group
    <2>2. UNCHANGED Initiated \/ DrainBuffer(Actionable)  BY <1>6 DEF Drive
    <2>3. CASE UNCHANGED Initiated  BY <2>1, <2>3 DEF Rests
    <2>4. CASE DrainBuffer(Actionable)
      <3>1. DrainBuffer(ActionableOf(pending, tree', voting \cup approved'))
        BY <2>1, <2>4 DEF Actionable
      <3> QED  BY <3>1, <2>1, OpensBuffer DEF BufferInv, RestType
    <2> QED  BY <2>2, <2>3, <2>4
  <1>7. ASSUME Commit  PROVE Opens \/ Rests
    <2>1. UNCHANGED <<bus, resolved>> /\ approved' = {}  BY <1>7 DEF Commit
    <2>2. UNCHANGED Initiated \/ DrainBuffer(ActionableOf(pending', tree', voting))
      BY <1>7 DEF Commit
    <2>3. CASE UNCHANGED Initiated  BY <2>1, <2>3 DEF Rests
    <2>4. CASE DrainBuffer(ActionableOf(pending', tree', voting))
      <3>1. voting \cup approved' = voting  BY <2>1
      <3>2. pending' \in SUBSET [req : Requests, seen : Nat]
        BY <1>7 DEF Commit, KeptUpdates, RestType
      <3> QED  BY <2>1, <2>4, <3>1, <3>2, OpensBuffer DEF BufferInv
    <2> QED  BY <2>2, <2>3, <2>4
  <1>8. ASSUME Freeze \/ RoundFails \/ UNCHANGED vars  PROVE Rests
    BY <1>8 DEF Freeze, RoundFails, Rests, vars, library, timers, queues, Initiated
  <1> QED
    BY <1>1, <1>2, <1>3, <1>4, <1>5, <1>6, <1>7, <1>8, RequestKinds
       DEF Next, Inputs, Poll, Rounds

------------------------------------------------------------------------------
\* The session store

LEMMA StoredSession ==
  ASSUME OpeningType, NEW id, Stored(id)
  PROVE  /\ SessionOf(id) \in SessionType /\ SessionOf(id).id = id
         /\ \E i \in DOMAIN sessions : SessionOf(id) = sessions[i]
         /\ id \in IdType
  <1>1. PICK i \in DOMAIN sessions : sessions[i].id = id  BY DEF Stored
  <1>2. \E x \in Range(sessions) : x.id = id  BY <1>1 DEF Range
  <1>3. SessionOf(id) \in Range(sessions) /\ SessionOf(id).id = id  BY <1>2 DEF SessionOf
  <1>4. PICK j \in DOMAIN sessions : SessionOf(id) = sessions[j]  BY <1>3 DEF Range
  <1>5. sessions[j] \in SessionType  BY DEF OpeningType
  <1> QED  BY <1>3, <1>4, <1>5 DEF SessionType

\* Only the session of id changes.
LEMMA Updated ==
  ASSUME OpeningType, NEW id \in IdType, NEW status \in {"active", "yes", "no"},
         NEW voted \in BOOLEAN
  PROVE  LET u == UpdateSession(id, status, voted)
         IN /\ u \in Seq(SessionType) /\ DOMAIN u = DOMAIN sessions /\ Len(u) = Len(sessions)
            /\ \A i \in DOMAIN sessions : sessions[i].id # id => u[i] = sessions[i]
            /\ \A i \in DOMAIN sessions :
                 sessions[i].id = id => u[i] = [id |-> id, status |-> status, voted |-> voted]
  <1> DEFINE u == UpdateSession(id, status, voted)
             c == [id |-> id, status |-> status, voted |-> voted]
             n == Len(sessions)
  <1>1. sessions \in Seq(SessionType) /\ n \in Nat /\ DOMAIN sessions = 1..n  BY DEF OpeningType
  <1>2. u = [i \in 1..n |-> IF sessions[i].id = id THEN c ELSE sessions[i]]
    BY <1>1 DEF UpdateSession
  <1>3. c \in SessionType  BY DEF SessionType
  <1>4. \A i \in 1..n : sessions[i] \in SessionType  BY <1>1
  <1> HIDE DEF u, c, n
  <1>5. u \in Seq(SessionType) /\ DOMAIN u = 1..n  BY <1>1, <1>2, <1>3, <1>4
  <1>6. Len(u) = n  BY <1>1, <1>5
  <1>7. \A i \in 1..n : /\ sessions[i].id # id => u[i] = sessions[i]
                        /\ sessions[i].id = id => u[i] = c
    BY <1>2
  <1> QED  BY <1>1, <1>5, <1>6, <1>7 DEF u, c, n

\* The sessions that the tick closes
Late == {id \in Due(timeouts) : Active(id)}

\* A tick casts the due votes, closes the late sessions and announces each.
LEMMA Ticked ==
  ASSUME OpeningType, RestType, TickDeadlines
  PROVE  /\ sessions' \in Seq(SessionType) /\ DOMAIN sessions' = DOMAIN sessions
         /\ Len(sessions') = Len(sessions)
         /\ \A i \in DOMAIN sessions :
              /\ sessions'[i].id = sessions[i].id
              /\ sessions[i].id \in Late => sessions'[i].status # "active"
              /\ sessions[i].id \notin Late => sessions'[i].status = sessions[i].status
              /\ sessions[i].voted => sessions'[i].voted
              /\ sessions[i].id \in Due(autoVotes) /\ sessions[i].status = "active"
                   => sessions'[i].voted
         /\ bus' \in Seq([id : IdType, yes : BOOLEAN])
         /\ \A i \in DOMAIN bus' : bus'[i].id \in Late \/ (i \in DOMAIN bus /\ bus'[i] = bus[i])
         /\ \A i \in DOMAIN bus : i \in DOMAIN bus' /\ bus'[i] = bus[i]
         /\ \A id \in Late : \E i \in DOMAIN bus' : bus'[i].id = id
  <1> DEFINE n == Len(sessions)
             after(x, verdict) ==
               [id |-> x.id,
                status |-> IF x.id \in Late THEN Ballot(verdict[x.id]) ELSE x.status,
                voted |-> x.voted \/ (x.id \in Due(autoVotes) /\ x.status = "active")]
             told(order, verdict) ==
               [i \in DOMAIN order |-> [id |-> order[i], yes |-> verdict[order[i]]]]
  <1>1. PICK verdict \in [Late -> BOOLEAN], order \in SetToSeqs(Late) :
          /\ sessions' = [i \in DOMAIN sessions |-> after(sessions[i], verdict)]
          /\ bus' = bus \o told(order, verdict)
    BY DEF TickDeadlines, Late
  <1>2. sessions \in Seq(SessionType) /\ n \in Nat /\ DOMAIN sessions = 1..n  BY DEF OpeningType
  <1>3. \A i \in 1..n : sessions[i] \in SessionType  BY <1>2
  <1>4. \A id \in Late : Ballot(verdict[id]) \in {"yes", "no"} /\ verdict[id] \in BOOLEAN
    BY DEF Ballot
  <1>5. \A i \in 1..n : after(sessions[i], verdict) \in SessionType
    BY <1>3, <1>4 DEF SessionType
  <1>6. \A i \in 1..n :
          /\ sessions'[i].id = sessions[i].id
          /\ sessions[i].id \in Late => sessions'[i].status # "active"
          /\ sessions[i].id \notin Late => sessions'[i].status = sessions[i].status
          /\ sessions[i].voted => sessions'[i].voted
          /\ sessions[i].id \in Due(autoVotes) /\ sessions[i].status = "active"
               => sessions'[i].voted
    BY <1>1, <1>2, <1>4
  <1>7. sessions' = [i \in 1..n |-> after(sessions[i], verdict)]  BY <1>1, <1>2
  <1> HIDE DEF after, n
  <1>8. sessions' \in Seq(SessionType) /\ DOMAIN sessions' = 1..n  BY <1>2, <1>5, <1>7
  <1>9. Len(sessions') = n  BY <1>2, <1>8
  <1>10. Late \subseteq IdType /\ IsFiniteSet(Late)
    <2> DEFINE f == [i \in 1..n |-> sessions[i].id]
               T == {f[i] : i \in 1..n}
    <2>1. \A id \in Late : id \in T  BY <1>2 DEF Late, Active
    <2>2. \A id \in T : id \in IdType  BY <1>3 DEF SessionType
    <2>3. DOMAIN f = 1..n  OBVIOUS
    <2>4. IsFiniteSet(1..n)  BY <1>2, FS_Interval
    <2> HIDE DEF f
    <2>5. IsFiniteSet(T)  BY <2>3, <2>4, FiniteImage
    <2> HIDE DEF T
    <2> QED  BY <2>1, <2>2, <2>5, FS_Subset
  <1>11. /\ order \in Seq(Late) /\ Len(order) \in Nat /\ DOMAIN order = 1..Len(order)
         /\ \A x \in Late : \E i \in DOMAIN order : order[i] = x
    BY <1>10, SeqsOfSet
  <1> DEFINE t == told(order, verdict)
  <1>12. DOMAIN t = 1..Len(order) /\ \A i \in 1..Len(order) : t[i].id = order[i]  BY <1>11
  <1>13. t \in Seq([id : IdType, yes : BOOLEAN]) /\ Len(t) = Len(order)
    <2>1. \A i \in 1..Len(order) : order[i] \in Late  BY <1>11
    <2>2. \A i \in 1..Len(order) :
            [id |-> order[i], yes |-> verdict[order[i]]] \in [id : IdType, yes : BOOLEAN]
      BY <2>1, <1>4, <1>10
    <2>3. t = [i \in 1..Len(order) |-> [id |-> order[i], yes |-> verdict[order[i]]]]
      BY <1>11
    <2> HIDE DEF t
    <2>4. t \in Seq([id : IdType, yes : BOOLEAN])  BY <2>2, <2>3, <1>11
    <2> QED  BY <2>4, <1>12, <1>11
  <1>14. \A i \in 1..Len(order) : t[i].id \in Late  BY <1>11, <1>12
  <1>15. \A id \in Late : \E i \in 1..Len(order) : t[i].id = id  BY <1>11, <1>12
  <1> HIDE DEF t
  <1>16. bus' = bus \o t  BY <1>1 DEF t
  <1>17. bus \in Seq([id : IdType, yes : BOOLEAN]) /\ Len(bus) \in Nat /\ DOMAIN bus = 1..Len(bus)
    BY DEF RestType
  <1>18. /\ bus' \in Seq([id : IdType, yes : BOOLEAN])
         /\ DOMAIN bus' = 1..(Len(bus) + Len(t))
    BY <1>13, <1>16, <1>17
  <1>19. \A i \in 1..Len(bus) : i \in DOMAIN bus' /\ bus'[i] = bus[i]
    BY <1>11, <1>13, <1>16, <1>17, <1>18
  <1>20. ASSUME NEW i \in DOMAIN bus', i > Len(bus)
         PROVE  i - Len(bus) \in 1..Len(order) /\ bus'[i] = t[i - Len(bus)]
    BY <1>20, <1>11, <1>13, <1>16, <1>17, <1>18
  <1>21. \A i \in DOMAIN bus' : bus'[i].id \in Late \/ (i \in DOMAIN bus /\ bus'[i] = bus[i])
    <2> SUFFICES ASSUME NEW i \in DOMAIN bus'
                 PROVE  bus'[i].id \in Late \/ (i \in DOMAIN bus /\ bus'[i] = bus[i])
      OBVIOUS
    <2>1. CASE i > Len(bus)  BY <2>1, <1>14, <1>20
    <2>2. CASE ~(i > Len(bus))
      <3>1. i \in 1..Len(bus)  BY <2>2, <1>17, <1>18
      <3> QED  BY <3>1, <1>17, <1>19
    <2> QED  BY <2>1, <2>2
  <1>22. ASSUME NEW id \in Late  PROVE \E i \in DOMAIN bus' : bus'[i].id = id
    <2>1. PICK k \in 1..Len(order) : t[k].id = id  BY <1>15
    <2>2. /\ Len(bus) + k \in DOMAIN bus' /\ Len(bus) + k > Len(bus)
          /\ (Len(bus) + k) - Len(bus) = k
      BY <1>11, <1>13, <1>17, <1>18
    <2>3. bus'[Len(bus) + k].id = id  BY <2>1, <2>2, <1>20
    <2> QED  BY <2>2, <2>3
  <1> QED  BY <1>2, <1>6, <1>8, <1>9, <1>17, <1>18, <1>19, <1>21, <1>22 DEF n

------------------------------------------------------------------------------
\* Type correctness

\* The id that a peer's proposal gets here
PeerId(req) == [nr |-> opened + 1, req |-> req, own |-> FALSE]

LEMMA PeerProposal ==
  ASSUME OpeningType, NEW req \in Requests, HearProposal(req)
  PROVE  /\ PeerId(req) \in IdType /\ NewSession(PeerId(req), FALSE) \in SessionType
         /\ <<NewSession(PeerId(req), FALSE)>> \in Seq(SessionType)
         /\ opened' = opened + 1 /\ opened' \in Nat
         /\ sessions' = WithSessions(sessions, <<NewSession(PeerId(req), FALSE)>>)
         /\ voting' = voting \cup {PeerId(req)}
         /\ emergencies' = IF IsChange(req) THEN emergencies ELSE emergencies \cup {PeerId(req)}
         /\ autoVotes' = autoVotes \cup {[id |-> PeerId(req), left |-> VotingDelay]}
         /\ timeouts' = timeouts \cup {[id |-> PeerId(req), left |-> ConsensusTimeout]}
         /\ UNCHANGED <<bus, resolved, approved>>
  <1>1. PeerId(req) \in IdType  BY DEF PeerId, IdType, OpeningType
  <1>2. NewSession(PeerId(req), FALSE) \in SessionType  BY <1>1 DEF NewSession, SessionType
  <1>3. <<NewSession(PeerId(req), FALSE)>> \in Seq(SessionType)
    <2> HIDE DEF NewSession, SessionType
    <2> DEFINE x == NewSession(PeerId(req), FALSE)
    <2>1. x \in SessionType  BY <1>2
    <2> HIDE DEF x
    <2>2. <<x>> \in Seq(SessionType)  BY ONLY <2>1
    <2> QED  BY <2>2 DEF x
  <1>4. opened' = opened + 1 /\ opened' \in Nat  BY DEF HearProposal, OpeningType
  <1> QED  BY <1>1, <1>2, <1>3, <1>4 DEF HearProposal, PeerId

LEMMA LeaveSession ==
  ASSUME NEW l \in Leaves
  PROVE  /\ LeaveId(l) \in IdType
         /\ <<[id |-> LeaveId(l), status |-> "yes", voted |-> TRUE]>> \in Seq(SessionType)
  <1>1. LeaveId(l) \in IdType  BY RequestKinds
  <1>2. [id |-> LeaveId(l), status |-> "yes", voted |-> TRUE] \in SessionType
    BY <1>1 DEF SessionType
  <1> QED  BY <1>1, <1>2

\* A vote marks the session of id as voted and changes nothing else of the store.
LEMMA VotedSession ==
  ASSUME OpeningType, NEW id, Active(id), Cast(id)
  PROVE  /\ sessions' \in Seq(SessionType) /\ DOMAIN sessions' = DOMAIN sessions
         /\ Len(sessions') = Len(sessions)
         /\ \A i \in DOMAIN sessions : sessions[i].id # id => sessions'[i] = sessions[i]
         /\ \A i \in DOMAIN sessions : sessions[i].id = id =>
              /\ sessions'[i].id = id /\ sessions'[i].voted = TRUE
              /\ sessions'[i].status = SessionOf(id).status
  <1>1. Stored(id)  BY DEF Active, Stored
  <1>2. id \in IdType /\ SessionOf(id).status \in {"active", "yes", "no"}
    BY <1>1, StoredSession DEF SessionType
  <1> DEFINE st == SessionOf(id).status
             u  == UpdateSession(id, st, TRUE)
  <1>3. sessions' = u  BY DEF Cast
  <1> HIDE DEF st
  <1>4. /\ u \in Seq(SessionType) /\ DOMAIN u = DOMAIN sessions /\ Len(u) = Len(sessions)
        /\ \A i \in DOMAIN sessions : sessions[i].id # id => u[i] = sessions[i]
        /\ \A i \in DOMAIN sessions :
             sessions[i].id = id => u[i] = [id |-> id, status |-> st, voted |-> TRUE]
    <2>1. st \in {"active", "yes", "no"} /\ TRUE \in BOOLEAN  BY <1>2 DEF st
    <2> QED  BY <1>2, <2>1, Updated
  <1> HIDE DEF u
  <1>5. \A i \in DOMAIN sessions : sessions[i].id = id =>
          u[i].id = id /\ u[i].voted = TRUE /\ u[i].status = st
    BY <1>4
  <1> QED  BY <1>3, <1>4, <1>5 DEF st

\* A decision closes the session of id and changes nothing else of the store.
LEMMA ClosedSession ==
  ASSUME OpeningType, NEW id, Active(id), NEW yes \in BOOLEAN, Resolve(id, yes)
  PROVE  /\ id \in IdType
         /\ sessions' \in Seq(SessionType) /\ DOMAIN sessions' = DOMAIN sessions
         /\ Len(sessions') = Len(sessions)
         /\ \A i \in DOMAIN sessions : sessions[i].id # id => sessions'[i] = sessions[i]
         /\ \A i \in DOMAIN sessions : sessions[i].id = id =>
              sessions'[i].id = id /\ sessions'[i].status # "active"
  <1>1. Stored(id)  BY DEF Active, Stored
  <1>2. id \in IdType /\ SessionOf(id).voted \in BOOLEAN
    BY <1>1, StoredSession DEF SessionType
  <1> DEFINE st == Ballot(yes)
             vt == SessionOf(id).voted
             u  == UpdateSession(id, st, vt)
  <1>3. sessions' = u  BY DEF Resolve
  <1>4. st \in {"active", "yes", "no"} /\ st # "active" /\ vt \in BOOLEAN  BY <1>2 DEF Ballot
  <1> HIDE DEF st, vt
  <1>5. /\ u \in Seq(SessionType) /\ DOMAIN u = DOMAIN sessions /\ Len(u) = Len(sessions)
        /\ \A i \in DOMAIN sessions : sessions[i].id # id => u[i] = sessions[i]
        /\ \A i \in DOMAIN sessions :
             sessions[i].id = id => u[i] = [id |-> id, status |-> st, voted |-> vt]
    BY <1>2, <1>4, Updated
  <1> HIDE DEF u
  <1>6. \A i \in DOMAIN sessions : sessions[i].id = id => u[i].id = id /\ u[i].status # "active"
    BY <1>4, <1>5
  <1> QED  BY <1>2, <1>3, <1>5, <1>6

LEMMA OpeningStep ==
  ASSUME OpeningType, RestType, BufferInv, BufferInv', [Next]_vars
  PROVE  OpeningType'
  <1>1. ASSUME NEW seq \in Seq(Requests), NEW yes \in BOOLEAN, OpensOwn(seq, yes)
        PROVE  OpeningType'
    BY <1>1, OpeningTyped DEF OpensOwn
  <1>2. ASSUME Rests  PROVE OpeningType'
    BY <1>2 DEF Rests, Initiated, OpeningType
  <1>3. ASSUME NEW req \in Wanted, HearProposal(req)  PROVE OpeningType'
    <2>0. req \in Requests  BY WantedAssumption
    <2>1. sessions' \in Seq(SessionType)  BY <1>3, <2>0, PeerProposal, Added DEF OpeningType
    <2>2. /\ [id |-> PeerId(req), left |-> VotingDelay] \in TimerType
          /\ [id |-> PeerId(req), left |-> ConsensusTimeout] \in TimerType
      BY <1>3, <2>0, PeerProposal, ConfigAssumption DEF TimerType
    <2> QED  BY <1>3, <2>0, <2>1, <2>2, PeerProposal DEF OpeningType
  <1>4. ASSUME NEW l \in Leaves, Leaving(l)  PROVE OpeningType'
    <2>1. sessions' \in Seq(SessionType)
      BY <1>4, LeaveSession, Added DEF Leaving, OpenLeave, OpeningType
    <2> QED  BY <1>4, <2>1, LeaveSession DEF Leaving, OpenLeave, OpeningType
  <1>5. ASSUME NEW id \in Ids, Vote(id)  PROVE OpeningType'
    <2>1. sessions' \in Seq(SessionType)  BY <1>5, VotedSession DEF Vote
    <2> QED  BY <1>5, <2>1 DEF Vote, WithoutTimer, queues, OpeningType
  <1>6. ASSUME NEW id \in Ids, NEW yes \in BOOLEAN, PeersDecide(id, yes)  PROVE OpeningType'
    <2>1. sessions' \in Seq(SessionType)  BY <1>6, ClosedSession DEF PeersDecide
    <2> QED  BY <1>6, <2>1 DEF PeersDecide, queues, timers, OpeningType
  <1>7. ASSUME NEW id \in Ids, Republish(id)  PROVE OpeningType'
    BY <1>7 DEF Republish, queues, timers, OpeningType
  <1>8. ASSUME TickDeadlines  PROVE OpeningType'
    <2>1. sessions' \in Seq(SessionType)  BY <1>8, Ticked
    <2> QED  BY <1>8, <2>1 DEF TickDeadlines, queues, OpeningType
  <1>9. ASSUME DrainOutcome  PROVE OpeningType'
    <2>1. PICK id, yes, fails : /\ Outcome(id, yes, fails)
                                /\ autoVotes' = WithoutTimer(autoVotes, id)
                                /\ timeouts' = WithoutTimer(timeouts, id)
      BY <1>9 DEF DrainOutcome
    <2>2. autoVotes' \subseteq TimerType /\ timeouts' \subseteq TimerType
      BY <2>1 DEF WithoutTimer, OpeningType
    <2>3. opened' \in Nat /\ voting' \subseteq IdType /\ emergencies' \subseteq IdType
      BY <1>9, <2>1 DEF DrainOutcome, Outcome, OpeningType
    <2>4. sessions' \in Seq(SessionType)
      <3>1. CASE sessions' = sessions  BY <3>1 DEF OpeningType
      <3>2. CASE Stored(id) /\ sessions' = Drop(sessions, id)
        BY <3>2, Dropped DEF Stored, OpeningType
      <3> QED  BY <2>1, <3>1, <3>2 DEF Outcome
    <2> QED  BY <2>2, <2>3, <2>4 DEF OpeningType
  <1>10. ASSUME Tick  PROVE OpeningType'
    <2>1. \A e \in TimerType : [e EXCEPT !.left = Elapse(@)] \in TimerType
      BY DEF TimerType, Elapse
    <2>2. autoVotes' \subseteq TimerType /\ timeouts' \subseteq TimerType
      BY <1>10, <2>1 DEF Tick, OpeningType
    <2> QED  BY <1>10, <2>2 DEF Tick, library, queues, OpeningType
  <1> QED
    BY <1>1, <1>2, <1>3, <1>4, <1>5, <1>6, <1>7, <1>8, <1>9, <1>10, StepKinds

LEMMA BusGrows ==
  ASSUME RestType, NEW id \in IdType, NEW yes \in BOOLEAN, bus' = Append(bus, [id |-> id, yes |-> yes])
  PROVE  bus' \in Seq([id : IdType, yes : BOOLEAN])
  <1> DEFINE o == [id |-> id, yes |-> yes]
  <1>1. o \in [id : IdType, yes : BOOLEAN]  OBVIOUS
  <1> HIDE DEF o
  <1>2. bus' = Append(bus, o)  BY DEF o
  <1> QED  BY <1>1, <1>2 DEF RestType

\* An outcome on the bus: a known id, a verdict
LEMMA HeadOfBus ==
  ASSUME RestType, bus # <<>>
  PROVE  /\ Head(bus) = bus[1] /\ 1 \in DOMAIN bus
         /\ Head(bus).id \in IdType /\ Head(bus).yes \in BOOLEAN
         /\ Tail(bus) \in Seq([id : IdType, yes : BOOLEAN])
         /\ Len(Tail(bus)) = Len(bus) - 1
         /\ \A i \in DOMAIN Tail(bus) : i + 1 \in DOMAIN bus /\ Tail(bus)[i] = bus[i + 1]
         /\ \A i \in DOMAIN bus : i # 1 => i - 1 \in DOMAIN Tail(bus) /\ Tail(bus)[i - 1] = bus[i]
  <1> DEFINE O == [id : IdType, yes : BOOLEAN]
  <1>1. bus \in Seq(O)  BY DEF RestType
  <1> HIDE DEF O
  <1>2. Head(bus) = bus[1] /\ Head(bus) \in O /\ 1 \in DOMAIN bus  BY <1>1
  <1>3. /\ Tail(bus) \in Seq(O) /\ Len(Tail(bus)) = Len(bus) - 1
        /\ \A i \in DOMAIN Tail(bus) : i + 1 \in DOMAIN bus /\ Tail(bus)[i] = bus[i + 1]
    BY <1>1
  <1>4. \A i \in DOMAIN bus : i # 1 => /\ i - 1 \in DOMAIN Tail(bus)
                                       /\ (i - 1) + 1 = i
    BY <1>1, <1>3
  <1> QED  BY <1>2, <1>3, <1>4 DEF O

LEMMA Remembered ==
  ASSUME RestType, NEW id \in IdType
  PROVE  /\ Remember(resolved, id) \in Seq(IdType)
         /\ \A x : Contains(Remember(resolved, id), x) => x = id \/ Contains(resolved, x)
  <1> DEFINE grown == Append(resolved, id)
  <1>1. resolved \in Seq(IdType) /\ Len(resolved) \in Nat  BY DEF RestType
  <1>2. /\ grown \in Seq(IdType) /\ Len(grown) = Len(resolved) + 1 /\ grown # <<>>
        /\ \A i \in 1..Len(grown) : grown[i] = id \/ (i \in 1..Len(resolved) /\ grown[i] = resolved[i])
    BY <1>1
  <1>3. /\ Tail(grown) \in Seq(IdType) /\ Len(Tail(grown)) = Len(resolved)
        /\ \A i \in 1..Len(Tail(grown)) : i + 1 \in 1..Len(grown) /\ Tail(grown)[i] = grown[i + 1]
    <2> HIDE DEF grown
    <2> QED  BY <1>1, <1>2
  <1>4. Remember(resolved, id) \in {resolved, grown, Tail(grown)}  BY DEF Remember
  <1> HIDE DEF grown
  <1>5. \A x : Contains(grown, x) => x = id \/ Contains(resolved, x)  BY <1>2 DEF Contains
  <1>6. \A x : Contains(Tail(grown), x) => Contains(grown, x)  BY <1>3 DEF Contains
  <1>7. Remember(resolved, id) \in Seq(IdType)  BY <1>1, <1>2, <1>3, <1>4
  <1> QED  BY <1>4, <1>5, <1>6, <1>7

LEMMA RestStep ==
  ASSUME OpeningType, RestType, BufferInv, [Next]_vars
  PROVE  RestType'
  <1>1. ASSUME \/ \E req \in Wanted : Propose(req)
               \/ \E id \in Ids : Vote(id)
               \/ Freeze \/ RoundFails
               \/ UNCHANGED vars
        PROVE  RestType'
    BY <1>1 DEF Propose, Vote, Freeze, RoundFails, RestType, duty, group, library, timers, queues, vars
  <1>2. ASSUME NEW req \in Wanted, HearUpdate(req)  PROVE RestType'
    <2>1. pending' \subseteq [req : Requests, seen : Nat]
      BY <1>2, BufferedKeeps, WantedAssumption DEF HearUpdate, group
    <2> QED  BY <1>2, <2>1 DEF HearUpdate, RestType, duty, group
  <1>3. ASSUME NEW req \in Wanted, HearProposal(req)  PROVE RestType'
    <2>1. pending' \subseteq [req : Requests, seen : Nat]
      <3>1. CASE IsChange(req)
        BY <1>3, <3>1, BufferedKeeps, WantedAssumption DEF HearProposal, group
      <3>2. CASE ~IsChange(req)  BY <1>3, <3>2 DEF HearProposal, RestType
      <3> QED  BY <3>1, <3>2
    <2> QED  BY <1>3, <2>1 DEF HearProposal, RestType, duty, group
  <1>4. ASSUME NEW k \in Joiners, Sponsor(k)  PROVE RestType'
    <2>1. Invite(k) \in Requests /\ IsChange(Invite(k))  BY RequestKinds DEF Keys
    <2>2. Doable(Invite(k)) /\ tree' = tree  BY <1>4 DEF Sponsor, Doable, DoableIn, Invite, group
    <2>3. pending' \subseteq [req : Requests, seen : Nat]
      <3>1. CASE role = "epoch"  BY <1>4, <3>1 DEF Sponsor, RestType
      <3>2. CASE role # "epoch"  BY <1>4, <2>1, <2>2, <3>2, BufferedKeeps DEF Sponsor
      <3> QED  BY <3>1, <3>2
    <2> QED  BY <1>4, <2>3 DEF Sponsor, RestType, duty, group
  <1>5. ASSUME NEW l \in Leaves, HearLeave(l)  PROVE RestType'
    <2>1. Doable(RemoveMember(l)) /\ tree' = tree
      BY <1>5 DEF HearLeave, MayLeave, Doable, DoableIn, RemoveMember, group
    <2>2. pending' \subseteq [req : Requests, seen : Nat]
      BY <1>5, <2>1, RequestKinds, BufferedKeeps DEF HearLeave
    <2>3. bus' \in Seq([id : IdType, yes : BOOLEAN])
      BY <1>5, RequestKinds, BusGrows DEF HearLeave, OpenLeave
    <2> QED  BY <1>5, <2>2, <2>3 DEF HearLeave, OpenLeave, RestType, duty, group, timers
  <1>6. ASSUME SelfLeave  PROVE RestType'
    <2>1. bus' \in Seq([id : IdType, yes : BOOLEAN])
      BY <1>6, RequestKinds, BusGrows DEF SelfLeave, OpenLeave
    <2> QED  BY <1>6, <2>1, RequestKinds DEF SelfLeave, OpenLeave, RestType, duty, group, timers
  <1>7. ASSUME NEW id \in Ids, NEW yes \in BOOLEAN, PeersDecide(id, yes)  PROVE RestType'
    <2>1. id \in IdType  BY <1>7, ClosedSession DEF PeersDecide
    <2>2. bus' \in Seq([id : IdType, yes : BOOLEAN])
      BY <1>7, <2>1, BusGrows DEF PeersDecide, Resolve
    <2> QED  BY <1>7, <2>2 DEF PeersDecide, RestType, duty, group, timers, queues
  <1>8. ASSUME NEW id \in Ids, Republish(id)  PROVE RestType'
    <2>1. id \in IdType  BY <1>8, StoredSession DEF Republish
    <2> DEFINE yes == SessionOf(id).status = "yes"
    <2>2. yes \in BOOLEAN  OBVIOUS
    <2>3. bus' = Append(bus, [id |-> id, yes |-> yes])  BY <1>8 DEF Republish
    <2> HIDE DEF yes
    <2>4. bus' \in Seq([id : IdType, yes : BOOLEAN])  BY <2>1, <2>2, <2>3, BusGrows
    <2> QED  BY <1>8, <2>4 DEF Republish, RestType, duty, group, timers, queues
  <1>9. ASSUME TickDeadlines  PROVE RestType'
    <2>1. bus' \in Seq([id : IdType, yes : BOOLEAN])  BY <1>9, Ticked
    <2> QED  BY <1>9, <2>1 DEF TickDeadlines, RestType, group, queues
  <1>10. ASSUME DrainOutcome  PROVE RestType'
    <2> DEFINE o == Head(bus)
    <2>1. bus # <<>>  BY <1>10 DEF DrainOutcome
    <2>2. bus' \in Seq([id : IdType, yes : BOOLEAN])  BY <1>10, <2>1, HeadOfBus DEF DrainOutcome
    <2>3. o.id \in IdType  BY <2>1, HeadOfBus
    <2>4. PICK fails : Outcome(o.id, o.yes, fails)  BY <1>10 DEF DrainOutcome
    <2> HIDE DEF o
    <2>5. approved' \subseteq IdType  BY <2>3, <2>4 DEF Outcome, Approve, RestType
    <2>6. resolved' \in Seq(IdType)
      <3>1. resolved' = resolved \/ resolved' = Remember(resolved, o.id)  BY <2>4 DEF Outcome
      <3> QED  BY <3>1, <2>3, Remembered DEF RestType
    <2>7. pending' \subseteq pending  BY <2>4 DEF Outcome
    <2> QED  BY <1>10, <2>2, <2>5, <2>6, <2>7 DEF DrainOutcome, RestType, duty, group
  <1>11. ASSUME Drive  PROVE RestType'
    <2>1. anchor' \in Nat \cup {Off}  BY <1>11, ConfigAssumption DEF Drive, RestType
    <2> QED  BY <1>11, <2>1 DEF Drive, RestType, group
  <1>12. ASSUME Commit  PROVE RestType'
    <2> DEFINE reqs == {id.req : id \in approved}
    <2>1. tree' \in TreesAfter(reqs)  BY <1>12 DEF Commit
    <2>2. reqs \in SUBSET Requests  BY DEF RestType, IdType
    <2> HIDE DEF reqs
    <2>3. DOMAIN tree' \subseteq Leaves /\ Range(tree') \subseteq Keys
      BY <2>1, <2>2, TreeAfterCommit
    <2>4. pending' \subseteq pending /\ leaving' \subseteq leaving
      BY <1>12 DEF Commit, KeptUpdates
    <2>5. stage' \in {"idle", "drain", "left"} /\ epoch' \in Nat  BY <1>12 DEF Commit, RestType
    <2> QED  BY <1>12, <2>3, <2>4, <2>5 DEF Commit, RestType
  <1>13. ASSUME Tick  PROVE RestType'
    <2>1. anchor' \in Nat \cup {Off}  BY <1>13 DEF Tick, Elapse, Off, RestType
    <2> QED  BY <1>13, <2>1 DEF Tick, RestType, duty, group, library, queues
  <1> QED
    BY <1>1, <1>2, <1>3, <1>4, <1>5, <1>6, <1>7, <1>8, <1>9, <1>10, <1>11, <1>12, <1>13
       DEF Next, Inputs, Poll, Rounds

LEMMA TypesAndBuffer == Spec => [](TypeOK /\ BufferInv)
  <1>1. Init => TypeOK /\ BufferInv
    <2> SUFFICES ASSUME Init  PROVE TypeOK /\ BufferInv  OBVIOUS
    <2>1. BufferInv  BY FS_EmptySet DEF Init, BufferInv
    <2>2. OpeningType  BY DEF Init, OpeningType
    <2>3. RestType
      <3>1. DOMAIN Founders \subseteq Leaves /\ Range(Founders) \subseteq Keys  BY DEF Leaves, Keys
      <3> QED  BY <3>1 DEF Init, RestType
    <2> QED  BY <2>1, <2>2, <2>3, TypeParts
  <1>2. TypeOK /\ BufferInv /\ [Next]_vars => TypeOK' /\ BufferInv'
    <2> SUFFICES ASSUME TypeOK, BufferInv, [Next]_vars  PROVE TypeOK' /\ BufferInv'  OBVIOUS
    <2>1. OpeningType /\ RestType  BY TypeParts
    <2>2. BufferInv'  BY <2>1, BufferStep
    <2>3. OpeningType' /\ RestType'  BY <2>1, <2>2, OpeningStep, RestStep
    <2>4. TypeOK' <=> OpeningType' /\ RestType'
      BY DEF TypeOK, OpeningType, RestType, IdType, SessionType, TimerType
    <2> QED  BY <2>2, <2>3, <2>4
  <1> QED  BY <1>1, <1>2, PTL DEF Spec

\* Every queue, registry and store keeps its type through every interleaving of
\* calls, polls and commits (queues.rs, handle.rs Timing).
THEOREM ProposalTypes == Spec => []TypeOK
  BY TypesAndBuffer, PTL

------------------------------------------------------------------------------
\* Ids are not reused: what is stored, announced or resolved was numbered before,
\* the store holds an id once, and an announced session is closed.

NumberedInv ==
  /\ \A i \in DOMAIN sessions : sessions[i].id.nr <= opened
  /\ \A i \in DOMAIN bus : bus[i].id.nr <= opened
  /\ \A id : Contains(resolved, id) => id.nr <= opened

StoredOnce == \A i, j \in DOMAIN sessions : sessions[i].id = sessions[j].id => i = j

BusClosed ==
  \A i \in DOMAIN bus, j \in DOMAIN sessions :
    sessions[j].id = bus[i].id => sessions[j].status # "active"

IdsInv == NumberedInv /\ StoredOnce /\ BusClosed

\* w is all without its first k elements.
Suffix(w, all, k) ==
  \A j \in DOMAIN w : j \in Nat /\ j + k \in DOMAIN all /\ w[j] = all[j + k]

\* d is store without its element at.
Without(d, store, at) ==
  /\ Len(d) = Len(store) - 1
  /\ \A j \in DOMAIN d : d[j] = IF j < at THEN store[j] ELSE store[j + 1]

LEMMA AddedAt ==
  ASSUME NEW S, NEW store \in Seq(S), NEW new \in Seq(S)
  PROVE  \E k \in Nat : Suffix(WithSessions(store, new), store \o new, k)
  <1> DEFINE w   == WithSessions(store, new)
             all == store \o new
  <1>1. w \in Seq(S)  BY Added
  <1>2. PICK k \in Nat : \A j \in DOMAIN w : j + k \in DOMAIN all /\ w[j] = all[j + k]  BY Added
  <1> HIDE DEF w, all
  <1>3. \A j \in DOMAIN w : j \in Nat  BY <1>1
  <1>4. Suffix(w, all, k)  BY <1>2, <1>3 DEF Suffix
  <1> QED  BY <1>4 DEF w, all

LEMMA DroppedAt ==
  ASSUME NEW S, NEW store \in Seq(S), NEW id, \E i \in DOMAIN store : store[i].id = id
  PROVE  /\ Drop(store, id) \in Seq(S)
         /\ \E at \in DOMAIN store : store[at].id = id /\ Without(Drop(store, id), store, at)
  <1> DEFINE d == Drop(store, id)
  <1>1. d \in Seq(S)  BY Dropped
  <1>2. PICK at \in DOMAIN store :
          /\ store[at].id = id /\ Len(d) = Len(store) - 1
          /\ \A j \in DOMAIN d : d[j] = IF j < at THEN store[j] ELSE store[j + 1]
    BY Dropped
  <1> HIDE DEF d
  <1>3. Without(d, store, at)  BY <1>2 DEF Without
  <1> QED  BY <1>1, <1>2, <1>3 DEF d

\* New sessions with new ids keep the ids apart.
LEMMA AddedOnce ==
  ASSUME NEW S, NEW store \in Seq(S), NEW new \in Seq(S),
         \A i, j \in DOMAIN store : store[i].id = store[j].id => i = j,
         \A i, j \in DOMAIN new : new[i].id = new[j].id => i = j,
         \A i \in DOMAIN store, j \in DOMAIN new : store[i].id # new[j].id
  PROVE  \A i, j \in DOMAIN WithSessions(store, new) :
           WithSessions(store, new)[i].id = WithSessions(store, new)[j].id => i = j
  <1> DEFINE w   == WithSessions(store, new)
             all == store \o new
             n   == Len(store)
  <1>1. PICK k \in Nat : Suffix(w, all, k)  BY AddedAt
  <1>2. n \in Nat /\ DOMAIN store = 1..n /\ DOMAIN new = 1..Len(new) /\ Len(new) \in Nat
        /\ DOMAIN all = 1..(n + Len(new))
    OBVIOUS
  <1>3. \A i \in DOMAIN all : /\ i \in 1..n => all[i] = store[i]
                              /\ i \notin 1..n => i - n \in 1..Len(new) /\ all[i] = new[i - n]
    BY <1>2
  <1>4. ASSUME NEW i \in DOMAIN all, NEW j \in DOMAIN all, all[i].id = all[j].id  PROVE i = j
    <2> HIDE DEF all, n
    <2>1. CASE i \in 1..n /\ j \in 1..n  BY <2>1, <1>2, <1>3, <1>4
    <2>2. CASE i \in 1..n /\ j \notin 1..n  BY <2>2, <1>2, <1>3, <1>4
    <2>3. CASE i \notin 1..n /\ j \in 1..n  BY <2>3, <1>2, <1>3, <1>4
    <2>4. CASE i \notin 1..n /\ j \notin 1..n
      <3>1. i - n \in DOMAIN new /\ j - n \in DOMAIN new /\ new[i - n].id = new[j - n].id
        BY <2>4, <1>2, <1>3, <1>4
      <3>2. i - n = j - n  BY <3>1
      <3> QED  BY <3>2, <1>2
    <2> QED  BY <2>1, <2>2, <2>3, <2>4
  <1> HIDE DEF w, all
  <1>5. ASSUME NEW i \in DOMAIN w, NEW j \in DOMAIN w, w[i].id = w[j].id  PROVE i = j
    <2>1. i + k = j + k  BY <1>1, <1>4, <1>5 DEF Suffix
    <2>2. i \in Nat /\ j \in Nat  BY <1>1 DEF Suffix
    <2> QED  BY <2>1, <2>2
  <1> QED  BY <1>5 DEF w

\* The sessions this member opens
OwnSessions(seq, yes) == [i \in DOMAIN seq |-> NewSession(NewIds(seq)[i], yes)]

LEMMA OwnSessionsType ==
  ASSUME OpeningType, NEW seq \in Seq(Requests), NEW yes \in BOOLEAN
  PROVE  /\ OwnSessions(seq, yes) \in Seq(SessionType)
         /\ DOMAIN OwnSessions(seq, yes) = DOMAIN seq
         /\ \A i \in DOMAIN seq : /\ OwnSessions(seq, yes)[i].id = NewIds(seq)[i]
                                  /\ OwnSessions(seq, yes)[i].status = "active"
                                  /\ OwnSessions(seq, yes)[i].voted = yes
                                  /\ NewIds(seq)[i].nr = opened + i
         /\ Initiate(seq, yes) => sessions' = WithSessions(sessions, OwnSessions(seq, yes))
  <1> DEFINE ids == NewIds(seq)
             new == OwnSessions(seq, yes)
             n   == Len(seq)
  <1>1. /\ n \in Nat /\ DOMAIN seq = 1..n
        /\ \A i \in 1..n : ids[i] \in IdType /\ ids[i].nr = opened + i
    BY NewIdsType DEF OpeningType
  <1>2. Initiate(seq, yes) => sessions' = WithSessions(sessions, new)
    BY DEF Initiate, NewIds, OwnSessions
  <1> HIDE DEF ids, n
  <1>3. new = [i \in 1..n |-> NewSession(ids[i], yes)]  BY <1>1 DEF OwnSessions, ids
  <1>4. \A i \in 1..n : NewSession(ids[i], yes) \in SessionType  BY <1>1 DEF NewSession, SessionType
  <1> HIDE DEF new
  <1>5. new \in Seq(SessionType) /\ DOMAIN new = 1..n  BY <1>1, <1>3, <1>4
  <1>6. \A i \in 1..n : new[i].id = ids[i] /\ new[i].status = "active" /\ new[i].voted = yes
    BY <1>3 DEF NewSession
  <1> QED  BY <1>1, <1>2, <1>5, <1>6 DEF new, ids, n

LEMMA StoredTypes ==
  ASSUME OpeningType
  PROVE  \A i \in DOMAIN sessions : /\ sessions[i].id \in IdType
                                    /\ sessions[i].status \in {"active", "yes", "no"}
                                    /\ sessions[i].voted \in BOOLEAN
  <1>1. \A i \in DOMAIN sessions : sessions[i] \in SessionType  BY DEF OpeningType
  <1> QED  BY <1>1 DEF SessionType

LEMMA BusTypes ==
  ASSUME RestType
  PROVE  \A i \in DOMAIN bus : bus[i].id \in IdType /\ bus[i].yes \in BOOLEAN
  <1> DEFINE O == [id : IdType, yes : BOOLEAN]
  <1>1. bus \in Seq(O)  BY DEF RestType
  <1> HIDE DEF O
  <1>2. \A i \in DOMAIN bus : bus[i] \in O  BY <1>1
  <1> QED  BY <1>2 DEF O

\* Sessions with fresh numbers
LEMMA OpenedIds ==
  ASSUME OpeningType, RestType, IdsInv, opened' \in Nat, opened <= opened',
         UNCHANGED <<bus, resolved>>,
         NEW new \in Seq(SessionType), sessions' = WithSessions(sessions, new),
         \A i \in DOMAIN new : opened < new[i].id.nr /\ new[i].id.nr <= opened',
         \A i, j \in DOMAIN new : new[i].id = new[j].id => i = j
  PROVE  IdsInv'
  <1>1. sessions \in Seq(SessionType) /\ opened \in Nat  BY DEF OpeningType
  <1>2. \A i \in DOMAIN sessions : sessions[i].id.nr \in Nat /\ sessions[i].id.nr <= opened
    BY StoredTypes DEF IdsInv, NumberedInv, IdType
  <1>3. \A i \in DOMAIN new : new[i].id.nr \in Nat
    <2>1. \A i \in DOMAIN new : new[i] \in SessionType  OBVIOUS
    <2> QED  BY ONLY <2>1 DEF SessionType, IdType
  <1>4. \A i \in DOMAIN bus : bus[i].id.nr \in Nat /\ bus[i].id.nr <= opened
    BY BusTypes DEF IdsInv, NumberedInv, IdType
  <1>5. \A i \in DOMAIN sessions' : \/ \E j \in DOMAIN sessions : sessions'[i] = sessions[j]
                                    \/ \E j \in DOMAIN new : sessions'[i] = new[j]
    BY <1>1, AddedFrom
  <1>6. \A i \in DOMAIN sessions, j \in DOMAIN new : sessions[i].id # new[j].id
    BY <1>1, <1>2, <1>3
  <1>7. StoredOnce'
    <2>1. \A i, j \in DOMAIN sessions : sessions[i].id = sessions[j].id => i = j
      BY DEF IdsInv, StoredOnce
    <2>2. \A i, j \in DOMAIN sessions' : sessions'[i].id = sessions'[j].id => i = j
      BY <1>1, <1>6, <2>1, AddedOnce
    <2> QED  BY <2>2 DEF StoredOnce
  <1>8. BusClosed'
    <2>1. \A i \in DOMAIN bus, j \in DOMAIN new : new[j].id # bus[i].id
      BY <1>1, <1>3, <1>4
    <2> QED  BY <1>5, <2>1 DEF IdsInv, BusClosed
  <1>9. NumberedInv'
    <2>1. \A i \in DOMAIN sessions' : sessions'[i].id.nr <= opened'
      BY <1>1, <1>2, <1>3, <1>5
    <2>2. \A i \in DOMAIN bus' : bus'[i].id.nr <= opened'  BY <1>1, <1>4
    <2>3. \A id : Contains(resolved', id) => id.nr <= opened'
      <3> SUFFICES ASSUME NEW id, Contains(resolved, id)  PROVE id.nr <= opened'
        OBVIOUS
      <3>1. id \in IdType /\ id.nr <= opened
        BY DEF Contains, RestType, IdsInv, NumberedInv
      <3> QED  BY <3>1, <1>1 DEF IdType
    <2> QED  BY <2>1, <2>2, <2>3 DEF NumberedInv
  <1> QED  BY <1>7, <1>8, <1>9 DEF IdsInv

\* The store with some statuses and votes changed, and announcements of closed
\* sessions
LEMMA ChangedIds ==
  ASSUME OpeningType, RestType, IdsInv, UNCHANGED <<opened, resolved>>,
         DOMAIN sessions' = DOMAIN sessions,
         \A i \in DOMAIN sessions : /\ sessions'[i].id = sessions[i].id
                                    /\ sessions[i].status # "active" => sessions'[i].status # "active",
         \A i \in DOMAIN bus' :
           \/ \E j \in DOMAIN bus : bus'[i].id = bus[j].id
           \/ \E j \in DOMAIN sessions : sessions'[j].id = bus'[i].id /\ sessions'[j].status # "active"
  PROVE  IdsInv'
  <1>1. StoredOnce'  BY DEF IdsInv, StoredOnce
  <1>2. BusClosed'
    <2> SUFFICES ASSUME NEW i \in DOMAIN bus', NEW j \in DOMAIN sessions, sessions'[j].id = bus'[i].id
                 PROVE  sessions'[j].status # "active"
      BY DEF BusClosed
    <2>1. CASE \E k \in DOMAIN bus : bus'[i].id = bus[k].id
      BY <2>1 DEF IdsInv, BusClosed
    <2>2. CASE \E k \in DOMAIN sessions : sessions'[k].id = bus'[i].id /\ sessions'[k].status # "active"
      BY <2>2 DEF IdsInv, StoredOnce
    <2> QED  BY <2>1, <2>2
  <1>3. NumberedInv'  BY DEF IdsInv, NumberedInv
  <1> QED  BY <1>1, <1>2, <1>3 DEF IdsInv

\* The sessions left after a drop, and those that a drop leaves
LEMMA DroppedFrom ==
  ASSUME OpeningType, NEW id, Stored(id), sessions' = Drop(sessions, id)
  PROVE  /\ \A i \in DOMAIN sessions' : \E j \in DOMAIN sessions : sessions'[i] = sessions[j]
         /\ \A j \in DOMAIN sessions : sessions[j].id # id =>
              \E i \in DOMAIN sessions' : sessions'[i] = sessions[j]
         /\ StoredOnce => \A i \in DOMAIN sessions' : sessions'[i].id # id
  <1>1. sessions' \in Seq(SessionType) /\ sessions \in Seq(SessionType)
    BY DroppedAt DEF Stored, OpeningType
  <1>2. PICK at \in DOMAIN sessions : sessions[at].id = id /\ Without(sessions', sessions, at)
    BY DroppedAt DEF Stored, OpeningType
  <1>3. /\ at \in 1..Len(sessions) /\ Len(sessions) \in Nat /\ DOMAIN sessions = 1..Len(sessions)
        /\ DOMAIN sessions' = 1..(Len(sessions) - 1)
        /\ \A j \in DOMAIN sessions' : sessions'[j] = IF j < at THEN sessions[j] ELSE sessions[j + 1]
    BY <1>1, <1>2 DEF Without
  <1>4. ASSUME NEW i \in DOMAIN sessions'
        PROVE  \E j \in DOMAIN sessions : j # at /\ sessions'[i] = sessions[j]
    <2>1. CASE i < at  BY <1>3, <2>1
    <2>2. CASE ~(i < at)
      <3>1. i + 1 \in DOMAIN sessions /\ i + 1 # at /\ sessions'[i] = sessions[i + 1]
        BY <1>3, <2>2
      <3> QED  BY <3>1
    <2> QED  BY <2>1, <2>2
  <1>5. ASSUME NEW j \in DOMAIN sessions, sessions[j].id # id
        PROVE  \E i \in DOMAIN sessions' : sessions'[i] = sessions[j]
    <2>0. j # at  BY <1>2, <1>5
    <2>1. CASE j < at
      <3>1. j \in DOMAIN sessions' /\ sessions'[j] = sessions[j]  BY <1>3, <2>1
      <3> QED  BY <3>1
    <2>2. CASE ~(j < at)
      <3>1. j - 1 \in DOMAIN sessions' /\ ~(j - 1 < at) /\ (j - 1) + 1 = j
        BY <1>3, <2>0, <2>2
      <3>2. sessions'[j - 1] = sessions[j]  BY <1>3, <3>1
      <3> QED  BY <3>1, <3>2
    <2> QED  BY <2>1, <2>2
  <1>6. StoredOnce => \A i \in DOMAIN sessions' : sessions'[i].id # id
    BY <1>2, <1>4 DEF StoredOnce
  <1> QED  BY <1>4, <1>5, <1>6

\* An outcome applied: the announcement is gone, its session closed or dropped.
LEMMA DrainedIds ==
  ASSUME OpeningType, RestType, IdsInv, DrainOutcome
  PROVE  IdsInv'
  <1> DEFINE o == Head(bus)
  <1>1. bus # <<>> /\ bus' = Tail(bus) /\ opened' = opened  BY DEF DrainOutcome
  <1>2. \A i \in DOMAIN bus' : i + 1 \in DOMAIN bus /\ bus'[i] = bus[i + 1]  BY <1>1, HeadOfBus
  <1>3. o = bus[1] /\ 1 \in DOMAIN bus /\ o.id \in IdType  BY <1>1, HeadOfBus
  <1>4. PICK fails : Outcome(o.id, o.yes, fails)  BY DEF DrainOutcome
  <1> HIDE DEF o
  <1>5. \A id : Contains(resolved', id) => id = o.id \/ Contains(resolved, id)
    <2>1. resolved' = resolved \/ resolved' = Remember(resolved, o.id)  BY <1>4 DEF Outcome
    <2> QED  BY <2>1, <1>3, Remembered
  <1>6. o.id.nr <= opened  BY <1>3 DEF IdsInv, NumberedInv
  <1>7. sessions' = sessions \/ (Stored(o.id) /\ sessions' = Drop(sessions, o.id))
    BY <1>4 DEF Outcome
  <1>8. CASE sessions' = sessions
    BY <1>1, <1>2, <1>5, <1>6, <1>8 DEF IdsInv, NumberedInv, StoredOnce, BusClosed
  <1>9. CASE Stored(o.id) /\ sessions' = Drop(sessions, o.id)
    <2>0. sessions' \in Seq(SessionType)  BY <1>9, DroppedAt DEF Stored, OpeningType
    <2>1. PICK at \in DOMAIN sessions : Without(sessions', sessions, at)
      BY <1>9, DroppedAt DEF Stored, OpeningType
    <2>2. sessions \in Seq(SessionType)  BY DEF OpeningType
    <2> DEFINE from(j) == IF j < at THEN j ELSE j + 1
    <2>3. \A j \in DOMAIN sessions' : from(j) \in DOMAIN sessions /\ sessions'[j] = sessions[from(j)]
      BY <2>0, <2>1, <2>2 DEF Without
    <2>4. \A i, j \in DOMAIN sessions' : from(i) = from(j) => i = j
      BY <2>0, <2>1, <2>2 DEF Without
    <2> HIDE DEF from
    <2>5. StoredOnce'  BY <2>3, <2>4 DEF IdsInv, StoredOnce
    <2>6. BusClosed'  BY <2>3, <1>2 DEF IdsInv, BusClosed
    <2>7. NumberedInv'  BY <2>3, <1>1, <1>2, <1>5, <1>6 DEF IdsInv, NumberedInv
    <2> QED  BY <2>5, <2>6, <2>7 DEF IdsInv
  <1> QED  BY <1>7, <1>8, <1>9

\* An announcement at the end of the bus
LEMMA Announced ==
  ASSUME RestType, NEW o, bus' = Append(bus, o)
  PROVE  /\ \A i \in DOMAIN bus' : bus'[i] = o \/ (i \in DOMAIN bus /\ bus'[i] = bus[i])
         /\ \A i \in DOMAIN bus : i \in DOMAIN bus' /\ bus'[i] = bus[i]
         /\ \E i \in DOMAIN bus' : bus'[i] = o
  <1> DEFINE O == [id : IdType, yes : BOOLEAN]
             n == Len(bus)
  <1>1. bus \in Seq(O)  BY DEF RestType
  <1> HIDE DEF O
  <1>2. n \in Nat /\ DOMAIN bus = 1..n /\ DOMAIN bus' = 1..(n + 1)  BY <1>1
  <1>3. \A i \in 1..n : bus'[i] = bus[i]  BY <1>1, <1>2
  <1>4. bus'[n + 1] = o  BY <1>1, <1>2
  <1> HIDE DEF n
  <1>5. \A i \in 1..(n + 1) : i = n + 1 \/ i \in 1..n  BY <1>2
  <1>6. n + 1 \in 1..(n + 1) /\ \A i \in 1..n : i \in 1..(n + 1)  BY <1>2
  <1> QED  BY <1>2, <1>3, <1>4, <1>5, <1>6

\* A leave's session is closed and announced as it opens, under a number of its
\* own that the store does not hold.
LEMMA LeavingIds ==
  ASSUME OpeningType, RestType, IdsInv, NEW l \in Leaves, Leaving(l)
  PROVE  IdsInv'
  <1> DEFINE id == LeaveId(l)
             x == [id |-> id, status |-> "yes", voted |-> TRUE]
             new == <<x>>
             o == [id |-> id, yes |-> TRUE]
  <1>1. id \in IdType /\ id.nr = 0 /\ new \in Seq(SessionType)
    BY LeaveSession DEF LeaveId
  <1>2. DOMAIN new = {1} /\ new[1] = x  OBVIOUS
  <1>3. x.id = id /\ x.status = "yes" /\ o.id = id  OBVIOUS
  <1>4. /\ sessions' = WithSessions(sessions, new) /\ bus' = Append(bus, o)
        /\ opened' = opened /\ resolved' = resolved
        /\ \A i \in DOMAIN sessions : sessions[i].id # id
    BY DEF Leaving, OpenLeave, Stored
  <1> HIDE DEF id, x, new, o
  <1>5. sessions \in Seq(SessionType) /\ opened \in Nat  BY DEF OpeningType
  <1>6. \A i \in DOMAIN sessions' : \/ \E j \in DOMAIN sessions : sessions'[i] = sessions[j]
                                    \/ sessions'[i] = x
    BY <1>1, <1>2, <1>4, <1>5, AddedFrom
  <1>7. StoredOnce'
    <2>1. \A i, j \in DOMAIN sessions : sessions[i].id = sessions[j].id => i = j
      BY DEF IdsInv, StoredOnce
    <2>2. \A i, j \in DOMAIN new : new[i].id = new[j].id => i = j  BY <1>2
    <2>3. \A i \in DOMAIN sessions, j \in DOMAIN new : sessions[i].id # new[j].id
      BY <1>2, <1>3, <1>4
    <2>4. \A i, j \in DOMAIN sessions' : sessions'[i].id = sessions'[j].id => i = j
      BY <1>1, <1>4, <1>5, <2>1, <2>2, <2>3, AddedOnce
    <2> QED  BY <2>4 DEF StoredOnce
  <1>8. \A i \in DOMAIN bus' : bus'[i] = o \/ (i \in DOMAIN bus /\ bus'[i] = bus[i])
    BY <1>4, Announced
  <1>9. BusClosed'  BY <1>3, <1>4, <1>6, <1>8 DEF IdsInv, BusClosed
  <1>10. NumberedInv'
    BY <1>1, <1>3, <1>4, <1>5, <1>6, <1>8 DEF IdsInv, NumberedInv
  <1> QED  BY <1>7, <1>9, <1>10 DEF IdsInv

\* The sessions of an open proposal of this member, and of a peer's
LEMMA OwnOpening ==
  ASSUME OpeningType, NEW seq \in Seq(Requests), NEW yes \in BOOLEAN, OpensOwn(seq, yes)
  PROVE  \E new \in Seq(SessionType) :
           /\ sessions' = WithSessions(sessions, new)
           /\ \A i \in DOMAIN new : opened < new[i].id.nr /\ new[i].id.nr <= opened'
           /\ \A i, j \in DOMAIN new : new[i].id = new[j].id => i = j
           /\ \A i \in DOMAIN new : /\ new[i].status = "active" /\ new[i].voted = yes
                                    /\ i \in DOMAIN seq /\ new[i].id = NewIds(seq)[i]
  <1> DEFINE new == OwnSessions(seq, yes)
  <1>1. /\ new \in Seq(SessionType) /\ DOMAIN new = DOMAIN seq
        /\ \A i \in DOMAIN seq : /\ new[i].id = NewIds(seq)[i] /\ new[i].status = "active"
                                 /\ new[i].voted = yes
                                 /\ NewIds(seq)[i].nr = opened + i
        /\ sessions' = WithSessions(sessions, new)
    BY OwnSessionsType DEF OpensOwn
  <1>2. opened' = opened + Len(seq) /\ opened \in Nat  BY DEF OpensOwn, Initiate, OpeningType
  <1> HIDE DEF new
  <1>3. \A i \in DOMAIN seq : i \in 1..Len(seq)  OBVIOUS
  <1>4. \A i \in DOMAIN new : /\ new[i].id.nr = opened + i
                              /\ opened < new[i].id.nr /\ new[i].id.nr <= opened'
    BY <1>1, <1>2, <1>3
  <1>5. \A i, j \in DOMAIN new : new[i].id = new[j].id => i = j
    <2> SUFFICES ASSUME NEW i \in DOMAIN new, NEW j \in DOMAIN new, new[i].id = new[j].id
                 PROVE  i = j
      OBVIOUS
    <2>1. opened + i = opened + j  BY <1>4
    <2>2. i \in Nat /\ j \in Nat  BY <1>1, <1>3
    <2> QED  BY <2>1, <2>2, <1>2
  <1>6. \A i \in DOMAIN new : /\ new[i].status = "active" /\ new[i].voted = yes
                              /\ i \in DOMAIN seq /\ new[i].id = NewIds(seq)[i]
    BY <1>1
  <1> QED  BY <1>1, <1>4, <1>5, <1>6

LEMMA PeerOpening ==
  ASSUME OpeningType, NEW req \in Requests, HearProposal(req)
  PROVE  \E new \in Seq(SessionType) :
           /\ sessions' = WithSessions(sessions, new)
           /\ \A i \in DOMAIN new : opened < new[i].id.nr /\ new[i].id.nr <= opened'
           /\ \A i, j \in DOMAIN new : new[i].id = new[j].id => i = j
           /\ \A i \in DOMAIN new : /\ new[i].status = "active" /\ new[i].id = PeerId(req)
           /\ DOMAIN new = {1}
  <1> DEFINE x   == NewSession(PeerId(req), FALSE)
             new == <<x>>
  <1>1. new \in Seq(SessionType) /\ sessions' = WithSessions(sessions, new)
        /\ opened' = opened + 1 /\ opened \in Nat
    BY PeerProposal DEF OpeningType
  <1>2. x.id = PeerId(req) /\ x.status = "active" /\ x.id.nr = opened + 1
    BY DEF NewSession, PeerId
  <1>3. DOMAIN new = {1} /\ new[1] = x  OBVIOUS
  <1> HIDE DEF x, new
  <1>4. \A i \in DOMAIN new : opened < new[i].id.nr /\ new[i].id.nr <= opened'
    BY <1>1, <1>2, <1>3
  <1>5. /\ \A i, j \in DOMAIN new : new[i].id = new[j].id => i = j
        /\ \A i \in DOMAIN new : new[i].status = "active" /\ new[i].id = PeerId(req)
    BY <1>2, <1>3
  <1> QED  BY <1>1, <1>3, <1>4, <1>5

LEMMA IdsStep ==
  ASSUME OpeningType, RestType, BufferInv, BufferInv', OpeningType', IdsInv, [Next]_vars
  PROVE  IdsInv'
  <1>0. opened' \in Nat /\ opened \in Nat  BY DEF OpeningType
  <1>1. ASSUME NEW seq \in Seq(Requests), NEW yes \in BOOLEAN, OpensOwn(seq, yes)
        PROVE  IdsInv'
    <2>1. UNCHANGED <<bus, resolved>> /\ opened <= opened'
      BY <1>0, <1>1 DEF OpensOwn, Initiate
    <2>2. PICK new \in Seq(SessionType) :
           /\ sessions' = WithSessions(sessions, new)
           /\ \A i \in DOMAIN new : opened < new[i].id.nr /\ new[i].id.nr <= opened'
           /\ \A i, j \in DOMAIN new : new[i].id = new[j].id => i = j
      BY <1>1, OwnOpening
    <2> QED  BY <1>0, <2>1, <2>2, OpenedIds
  <1>2. ASSUME NEW req \in Wanted, HearProposal(req)  PROVE IdsInv'
    <2>0. req \in Requests  BY WantedAssumption
    <2>1. UNCHANGED <<bus, resolved>> /\ opened <= opened'
      BY <1>0, <1>2 DEF HearProposal
    <2>2. PICK new \in Seq(SessionType) :
           /\ sessions' = WithSessions(sessions, new)
           /\ \A i \in DOMAIN new : opened < new[i].id.nr /\ new[i].id.nr <= opened'
           /\ \A i, j \in DOMAIN new : new[i].id = new[j].id => i = j
      BY <1>2, <2>0, PeerOpening
    <2> QED  BY <1>0, <2>1, <2>2, OpenedIds
  <1>3. ASSUME NEW id \in Ids, Vote(id)  PROVE IdsInv'
    <2>1. /\ DOMAIN sessions' = DOMAIN sessions
          /\ \A i \in DOMAIN sessions : sessions[i].id # id => sessions'[i] = sessions[i]
          /\ \A i \in DOMAIN sessions : sessions[i].id = id =>
               sessions'[i].id = id /\ sessions'[i].status = SessionOf(id).status
      BY <1>3, VotedSession DEF Vote
    <2>2. PICK k \in DOMAIN sessions : SessionOf(id) = sessions[k] /\ sessions[k].id = id
      <3>1. Stored(id)  BY <1>3 DEF Vote, Active, Stored
      <3> QED  BY <3>1, StoredSession
    <2>3. \A i \in DOMAIN sessions : /\ sessions'[i].id = sessions[i].id
                                     /\ sessions'[i].status = sessions[i].status
      BY <2>1, <2>2 DEF IdsInv, StoredOnce
    <2>4. UNCHANGED <<opened, resolved, bus>>  BY <1>3 DEF Vote, queues
    <2> QED  BY <2>1, <2>3, <2>4, ChangedIds
  <1>4. ASSUME NEW id \in Ids, NEW yes \in BOOLEAN, PeersDecide(id, yes)  PROVE IdsInv'
    <2> DEFINE o == [id |-> id, yes |-> yes]
    <2>0. Active(id) /\ Resolve(id, yes) /\ bus' = Append(bus, o) /\ UNCHANGED <<opened, resolved>>
      BY <1>4 DEF PeersDecide, Resolve, queues
    <2>1. /\ DOMAIN sessions' = DOMAIN sessions
          /\ \A i \in DOMAIN sessions : sessions[i].id # id => sessions'[i] = sessions[i]
          /\ \A i \in DOMAIN sessions : sessions[i].id = id =>
               sessions'[i].id = id /\ sessions'[i].status # "active"
      BY <2>0, ClosedSession
    <2>2. PICK k \in DOMAIN sessions : sessions[k].id = id  BY <2>0 DEF Active
    <2>3. o.id = id  OBVIOUS
    <2> HIDE DEF o
    <2>4. \A i \in DOMAIN bus' : bus'[i] = o \/ (i \in DOMAIN bus /\ bus'[i] = bus[i])
      BY <2>0, Announced
    <2>5. \A i \in DOMAIN bus' :
           \/ \E j \in DOMAIN bus : bus'[i].id = bus[j].id
           \/ \E j \in DOMAIN sessions : sessions'[j].id = bus'[i].id /\ sessions'[j].status # "active"
      BY <2>1, <2>2, <2>3, <2>4
    <2>6. \A i \in DOMAIN sessions : /\ sessions'[i].id = sessions[i].id
                                     /\ sessions[i].status # "active" => sessions'[i].status # "active"
      BY <2>1
    <2> QED  BY <2>0, <2>1, <2>5, <2>6, ChangedIds
  <1>5. ASSUME NEW id \in Ids, Republish(id)  PROVE IdsInv'
    <2> DEFINE o == [id |-> id, yes |-> SessionOf(id).status = "yes"]
    <2>0. bus' = Append(bus, o) /\ UNCHANGED <<opened, resolved, sessions>>
      BY <1>5 DEF Republish, queues
    <2>1. PICK k \in DOMAIN sessions : sessions[k].id = id /\ sessions[k].status # "active"
      BY <1>5 DEF Republish, Active, Stored
    <2>2. o.id = id  OBVIOUS
    <2> HIDE DEF o
    <2>3. \A i \in DOMAIN bus' : bus'[i] = o \/ (i \in DOMAIN bus /\ bus'[i] = bus[i])
      BY <2>0, Announced
    <2>4. \A i \in DOMAIN bus' :
           \/ \E j \in DOMAIN bus : bus'[i].id = bus[j].id
           \/ \E j \in DOMAIN sessions : sessions'[j].id = bus'[i].id /\ sessions'[j].status # "active"
      BY <2>0, <2>1, <2>2, <2>3
    <2> QED  BY <2>0, <2>4, ChangedIds
  <1>6. ASSUME TickDeadlines  PROVE IdsInv'
    <2>1. UNCHANGED <<opened, resolved>>  BY <1>6 DEF TickDeadlines, queues
    <2>2. /\ DOMAIN sessions' = DOMAIN sessions
          /\ \A i \in DOMAIN sessions :
              /\ sessions'[i].id = sessions[i].id
              /\ sessions[i].id \in Late => sessions'[i].status # "active"
              /\ sessions[i].id \notin Late => sessions'[i].status = sessions[i].status
          /\ \A i \in DOMAIN bus' : bus'[i].id \in Late \/ (i \in DOMAIN bus /\ bus'[i] = bus[i])
      BY <1>6, Ticked
    <2>3. \A id \in Late : \E j \in DOMAIN sessions : sessions[j].id = id  BY DEF Late, Active
    <2>4. \A i \in DOMAIN bus' :
           \/ \E j \in DOMAIN bus : bus'[i].id = bus[j].id
           \/ \E j \in DOMAIN sessions : sessions'[j].id = bus'[i].id /\ sessions'[j].status # "active"
      BY <2>2, <2>3
    <2>5. \A i \in DOMAIN sessions : /\ sessions'[i].id = sessions[i].id
                                     /\ sessions[i].status # "active" => sessions'[i].status # "active"
      BY <2>2
    <2> QED  BY <2>1, <2>2, <2>4, <2>5, ChangedIds
  <1>7. ASSUME Rests \/ Tick  PROVE IdsInv'
    <2>1. UNCHANGED <<opened, sessions, bus, resolved>>
      BY <1>7 DEF Rests, Initiated, Tick, library, queues
    <2> QED  BY <2>1 DEF IdsInv, NumberedInv, StoredOnce, BusClosed
  <1> QED
    BY <1>1, <1>2, <1>3, <1>4, <1>5, <1>6, <1>7, LeavingIds, DrainedIds, StepKinds

------------------------------------------------------------------------------
\* The member has its say

Armed(registry, id) == \E e \in registry : e.id = id

\* VoteIsComing, by position in the store
VotesComing ==
  \A i \in DOMAIN sessions : sessions[i].status = "active" =>
    sessions[i].voted \/ Armed(autoVotes, sessions[i].id)

LEMMA ArmedEntry ==
  ASSUME NEW registry, NEW id, NEW left, [id |-> id, left |-> left] \in registry
  PROVE  Armed(registry, id)
  <1> DEFINE e == [id |-> id, left |-> left]
  <1>1. e.id = id /\ e \in registry  OBVIOUS
  <1> HIDE DEF e
  <1> QED  BY <1>1 DEF Armed

\* Time passes for every deadline; none is dropped.
LEMMA TimersTick ==
  ASSUME OpeningType, Tick
  PROVE  \A x : /\ Armed(autoVotes, x) => Armed(autoVotes', x)
                /\ Armed(timeouts, x) => Armed(timeouts', x)
  <1>1. \A e \in TimerType : [e EXCEPT !.left = Elapse(@)].id = e.id  BY DEF TimerType
  <1>2. \A e \in autoVotes : [e EXCEPT !.left = Elapse(@)] \in autoVotes'  BY DEF Tick
  <1>3. \A e \in timeouts : [e EXCEPT !.left = Elapse(@)] \in timeouts'  BY DEF Tick
  <1> QED  BY <1>1, <1>2, <1>3 DEF Armed, OpeningType

\* New sessions come with a vote or an auto-vote.
LEMMA OpenedVotes ==
  ASSUME OpeningType, VotesComing, autoVotes \subseteq autoVotes',
         NEW new \in Seq(SessionType), sessions' = WithSessions(sessions, new),
         \A i \in DOMAIN new : new[i].status = "active" =>
           new[i].voted \/ Armed(autoVotes', new[i].id)
  PROVE  VotesComing'
  <1>1. \A i \in DOMAIN sessions' : \/ \E j \in DOMAIN sessions : sessions'[i] = sessions[j]
                                    \/ \E j \in DOMAIN new : sessions'[i] = new[j]
    BY AddedFrom DEF OpeningType
  <1>2. \A id : Armed(autoVotes, id) => Armed(autoVotes', id)  BY DEF Armed
  <1> QED  BY <1>1, <1>2 DEF VotesComing

LEMMA VotesStep ==
  ASSUME OpeningType, RestType, BufferInv, BufferInv', IdsInv, VotesComing, [Next]_vars
  PROVE  VotesComing'
  <1>1. ASSUME NEW seq \in Seq(Requests), NEW yes \in BOOLEAN, OpensOwn(seq, yes)
        PROVE  VotesComing'
    <2>1. PICK new \in Seq(SessionType) :
           /\ sessions' = WithSessions(sessions, new)
           /\ \A i \in DOMAIN new : /\ new[i].status = "active" /\ new[i].voted = yes
                                    /\ i \in DOMAIN seq /\ new[i].id = NewIds(seq)[i]
      BY <1>1, OwnOpening
    <2>2. autoVotes' = IF yes THEN autoVotes
                       ELSE autoVotes \cup {[id |-> id, left |-> VotingDelay] : id \in Range(NewIds(seq))}
      BY <1>1 DEF OpensOwn, Initiate, NewIds
    <2>3. \A i \in DOMAIN seq : NewIds(seq)[i] \in Range(NewIds(seq))
      BY NewIdsType DEF Range, OpeningType
    <2>4. ~yes => \A id \in Range(NewIds(seq)) : Armed(autoVotes', id)
      <3>1. ~yes => \A id \in Range(NewIds(seq)) : [id |-> id, left |-> VotingDelay] \in autoVotes'
        BY <2>2
      <3> QED  BY <3>1, ArmedEntry
    <2>5. \A i \in DOMAIN new : new[i].voted \/ Armed(autoVotes', new[i].id)
      BY <2>1, <2>3, <2>4
    <2> QED  BY <2>1, <2>2, <2>5, OpenedVotes
  <1>2. ASSUME NEW req \in Wanted, HearProposal(req)  PROVE VotesComing'
    <2>0. req \in Requests  BY WantedAssumption
    <2>1. PICK new \in Seq(SessionType) :
           /\ sessions' = WithSessions(sessions, new)
           /\ \A i \in DOMAIN new : new[i].id = PeerId(req)
      BY <1>2, <2>0, PeerOpening
    <2>2. autoVotes' = autoVotes \cup {[id |-> PeerId(req), left |-> VotingDelay]}
      BY <1>2, <2>0, PeerProposal
    <2>3. Armed(autoVotes', PeerId(req))
      <3>1. [id |-> PeerId(req), left |-> VotingDelay] \in autoVotes'  BY <2>2
      <3> QED  BY <3>1, ArmedEntry
    <2> QED  BY <2>1, <2>2, <2>3, OpenedVotes
  <1>3. ASSUME NEW l \in Leaves, Leaving(l)  PROVE VotesComing'
    <2> DEFINE x == [id |-> LeaveId(l), status |-> "yes", voted |-> TRUE]
               new == <<x>>
    <2>1. new \in Seq(SessionType)  BY LeaveSession
    <2>2. DOMAIN new = {1} /\ new[1].voted = TRUE  OBVIOUS
    <2>3. sessions' = WithSessions(sessions, new) /\ autoVotes' = autoVotes
      BY <1>3 DEF Leaving, OpenLeave
    <2> HIDE DEF x, new
    <2> QED  BY <2>1, <2>2, <2>3, OpenedVotes
  <1>4. ASSUME NEW id \in Ids, Vote(id)  PROVE VotesComing'
    <2>1. /\ DOMAIN sessions' = DOMAIN sessions
          /\ \A i \in DOMAIN sessions : sessions[i].id # id => sessions'[i] = sessions[i]
          /\ \A i \in DOMAIN sessions : sessions[i].id = id => sessions'[i].voted = TRUE
      BY <1>4, VotedSession DEF Vote
    <2>2. \A x : x # id /\ Armed(autoVotes, x) => Armed(autoVotes', x)
      BY <1>4 DEF Vote, WithoutTimer, Armed
    <2> QED  BY <2>1, <2>2 DEF VotesComing
  <1>5. ASSUME NEW id \in Ids, NEW yes \in BOOLEAN, PeersDecide(id, yes)  PROVE VotesComing'
    <2>1. /\ DOMAIN sessions' = DOMAIN sessions
          /\ \A i \in DOMAIN sessions : sessions[i].id # id => sessions'[i] = sessions[i]
          /\ \A i \in DOMAIN sessions : sessions[i].id = id => sessions'[i].status # "active"
      BY <1>5, ClosedSession DEF PeersDecide
    <2>2. autoVotes' = autoVotes  BY <1>5 DEF PeersDecide, timers
    <2> QED  BY <2>1, <2>2 DEF VotesComing
  <1>6. ASSUME TickDeadlines  PROVE VotesComing'
    <2>1. /\ DOMAIN sessions' = DOMAIN sessions
          /\ \A i \in DOMAIN sessions :
              /\ sessions'[i].id = sessions[i].id
              /\ sessions[i].id \in Late => sessions'[i].status # "active"
              /\ sessions[i].id \notin Late => sessions'[i].status = sessions[i].status
              /\ sessions[i].voted => sessions'[i].voted
              /\ sessions[i].id \in Due(autoVotes) /\ sessions[i].status = "active"
                   => sessions'[i].voted
      BY <1>6, Ticked
    <2>2. \A x : Armed(autoVotes, x) => x \in Due(autoVotes) \/ Armed(autoVotes', x)
      BY <1>6 DEF TickDeadlines, Due, Armed
    <2> SUFFICES ASSUME NEW i \in DOMAIN sessions, sessions'[i].status = "active"
                 PROVE  sessions'[i].voted \/ Armed(autoVotes', sessions'[i].id)
      BY <2>1 DEF VotesComing
    <2>3. sessions[i].status = "active"  BY <2>1
    <2> QED  BY <2>1, <2>2, <2>3 DEF VotesComing
  <1>7. ASSUME DrainOutcome  PROVE VotesComing'
    <2> DEFINE o == Head(bus)
    <2>1. bus # <<>> /\ autoVotes' = WithoutTimer(autoVotes, o.id)  BY <1>7 DEF DrainOutcome
    <2>2. o = bus[1] /\ 1 \in DOMAIN bus  BY <2>1, HeadOfBus
    <2>3. PICK fails : Outcome(o.id, o.yes, fails)  BY <1>7 DEF DrainOutcome
    <2> HIDE DEF o
    <2>4. \A i \in DOMAIN sessions : sessions[i].status = "active" => sessions[i].id # o.id
      BY <2>2 DEF IdsInv, BusClosed
    <2>5. \A x : x # o.id /\ Armed(autoVotes, x) => Armed(autoVotes', x)
      BY <2>1 DEF WithoutTimer, Armed
    <2>6. \A i \in DOMAIN sessions' : \E j \in DOMAIN sessions : sessions'[i] = sessions[j]
      <3>1. CASE sessions' = sessions  BY <3>1
      <3>2. CASE Stored(o.id) /\ sessions' = Drop(sessions, o.id)
        BY <3>2, DroppedFrom
      <3> QED  BY <2>3, <3>1, <3>2 DEF Outcome
    <2> QED  BY <2>4, <2>5, <2>6 DEF VotesComing
  <1>8. ASSUME Tick  PROVE VotesComing'
    <2>1. sessions' = sessions  BY <1>8 DEF Tick, library
    <2>2. \A x : Armed(autoVotes, x) => Armed(autoVotes', x)  BY <1>8, TimersTick
    <2> QED  BY <2>1, <2>2 DEF VotesComing
  <1>9. ASSUME Rests \/ \E id \in Ids : Republish(id)  PROVE VotesComing'
    <2>1. UNCHANGED <<sessions, autoVotes>>
      BY <1>9 DEF Rests, Initiated, Republish, timers
    <2> QED  BY <2>1 DEF VotesComing
  <1> QED
    BY <1>1, <1>2, <1>3, <1>4, <1>5, <1>6, <1>7, <1>8, <1>9, StepKinds

------------------------------------------------------------------------------
\* What this member has in flight

\* An own change that is stored is in flight.
StoredOwnVoting ==
  \A i \in DOMAIN sessions :
    sessions[i].id.own /\ IsChange(sessions[i].id.req) => sessions[i].id \in voting

\* OneOwnChangePerMember of the proposals of ids
OneOwnOf(ids) ==
  \A a, b \in ids : /\ a.own /\ IsChange(a.req) /\ b.own /\ IsChange(b.req)
                    /\ a.req.target = b.req.target
                    => a = b

OwnInv == StoredOwnVoting /\ OneOwnOf(voting \cup approved)

\* The ids of the requests of seq
LEMMA NewIdsRange ==
  ASSUME OpeningType, NEW seq \in Seq(Requests), NEW id \in Range(NewIds(seq))
  PROVE  \E i \in DOMAIN seq : id = NewIds(seq)[i] /\ id.req = seq[i] /\ id.own = TRUE
  BY NewIdsType DEF Range, OpeningType

LEMMA OwnStep ==
  ASSUME OpeningType, RestType, BufferInv, BufferInv', IdsInv, OwnInv, [Next]_vars
  PROVE  OwnInv'
  <1>1. ASSUME NEW seq \in Seq(Requests), NEW yes \in BOOLEAN, OpensOwn(seq, yes)
        PROVE  OwnInv'
    <2> DEFINE R == Range(NewIds(seq))
    <2>1. /\ voting' = voting \cup R /\ approved' \subseteq approved
          /\ \A i, j \in DOMAIN seq : seq[i].target = seq[j].target => i = j
          /\ \A i \in DOMAIN seq : IsChange(seq[i]) => seq[i].target \notin Targets(voting \cup approved')
      BY <1>1 DEF OpensOwn, Initiate, NewIds
    <2>2. \A i \in DOMAIN seq : NewIds(seq)[i] \in R  BY NewIdsType DEF Range, OpeningType
    <2>3. \A id \in R : \E i \in DOMAIN seq : id = NewIds(seq)[i] /\ id.req = seq[i]
      BY NewIdsRange
    <2> HIDE DEF R
    <2>4. StoredOwnVoting'
      <3>1. PICK new \in Seq(SessionType) :
             /\ sessions' = WithSessions(sessions, new)
             /\ \A i \in DOMAIN new : i \in DOMAIN seq /\ new[i].id = NewIds(seq)[i]
        BY <1>1, OwnOpening
      <3>2. \A i \in DOMAIN sessions' : \/ \E j \in DOMAIN sessions : sessions'[i] = sessions[j]
                                        \/ \E j \in DOMAIN new : sessions'[i] = new[j]
        BY <3>1, AddedFrom DEF OpeningType
      <3> QED  BY <2>1, <2>2, <3>1, <3>2 DEF OwnInv, StoredOwnVoting
    <2>5. \A a, b \in R : a.req.target = b.req.target => a = b  BY <2>1, <2>3
    <2>6. ASSUME NEW a \in R, NEW b \in voting \cup approved', IsChange(a.req), IsChange(b.req)
          PROVE  a.req.target # b.req.target
      <3>1. b.req.target \in Targets(voting \cup approved')  BY <2>6 DEF Targets
      <3> QED  BY <2>1, <2>3, <2>6, <3>1
    <2>7. OneOwnOf(voting' \cup approved')
      BY <2>1, <2>5, <2>6 DEF OwnInv, OneOwnOf
    <2> QED  BY <2>4, <2>7 DEF OwnInv
  <1>2. ASSUME NEW req \in Wanted, HearProposal(req)  PROVE OwnInv'
    <2>0. req \in Requests  BY WantedAssumption
    <2>1. PICK new \in Seq(SessionType) :
           /\ sessions' = WithSessions(sessions, new)
           /\ \A i \in DOMAIN new : new[i].id = PeerId(req)
      BY <1>2, <2>0, PeerOpening
    <2>2. \A i \in DOMAIN sessions' : \/ \E j \in DOMAIN sessions : sessions'[i] = sessions[j]
                                      \/ \E j \in DOMAIN new : sessions'[i] = new[j]
      BY <2>1, AddedFrom DEF OpeningType
    <2>3. voting' = voting \cup {PeerId(req)} /\ approved' = approved
      BY <1>2, <2>0, PeerProposal
    <2>4. PeerId(req).own = FALSE  BY DEF PeerId
    <2> QED  BY <2>1, <2>2, <2>3, <2>4 DEF OwnInv, StoredOwnVoting, OneOwnOf
  <1>3. ASSUME NEW l \in Leaves, Leaving(l)  PROVE OwnInv'
    <2> DEFINE x == [id |-> LeaveId(l), status |-> "yes", voted |-> TRUE]
               new == <<x>>
    <2>1. new \in Seq(SessionType)  BY LeaveSession
    <2>2. DOMAIN new = {1} /\ new[1].id = LeaveId(l)  OBVIOUS
    <2>3. /\ sessions' = WithSessions(sessions, new)
          /\ voting' = voting \cup {LeaveId(l)} /\ approved' = approved
      BY <1>3 DEF Leaving, OpenLeave
    <2>4. LeaveId(l).own = FALSE  BY DEF LeaveId
    <2> HIDE DEF x, new
    <2>5. \A i \in DOMAIN sessions' : \/ \E j \in DOMAIN sessions : sessions'[i] = sessions[j]
                                      \/ \E j \in DOMAIN new : sessions'[i] = new[j]
      BY <2>1, <2>3, AddedFrom DEF OpeningType
    <2> QED  BY <2>2, <2>3, <2>4, <2>5 DEF OwnInv, StoredOwnVoting, OneOwnOf
  <1>4. ASSUME \/ \E id \in Ids : Vote(id)
               \/ \E id \in Ids, yes \in BOOLEAN : PeersDecide(id, yes)
               \/ TickDeadlines
        PROVE  OwnInv'
    <2>1. UNCHANGED <<voting, approved>>  BY <1>4 DEF Vote, PeersDecide, TickDeadlines, queues
    <2>2. DOMAIN sessions' = DOMAIN sessions
          /\ \A i \in DOMAIN sessions : sessions'[i].id = sessions[i].id
      <3>1. CASE \E id \in Ids : Vote(id)  BY <3>1, VotedSession DEF Vote
      <3>2. CASE \E id \in Ids, yes \in BOOLEAN : PeersDecide(id, yes)
        BY <3>2, ClosedSession DEF PeersDecide
      <3>3. CASE TickDeadlines  BY <3>3, Ticked
      <3> QED  BY <1>4, <3>1, <3>2, <3>3
    <2> QED  BY <2>1, <2>2 DEF OwnInv, StoredOwnVoting
  <1>5. ASSUME DrainOutcome  PROVE OwnInv'
    <2> DEFINE o == Head(bus)
    <2>1. PICK fails \in {FALSE, ScoresMayFail /\ ~IsChange(o.id.req)} : Outcome(o.id, o.yes, fails)
      BY <1>5 DEF DrainOutcome
    <2> HIDE DEF o
    <2>2. CASE Contains(resolved, o.id) \/ ~Stored(o.id)
      <3>1. UNCHANGED <<voting, approved, sessions>>  BY <2>1, <2>2 DEF Outcome
      <3> QED  BY <3>1 DEF OwnInv, StoredOwnVoting
    <2>3. CASE ~(Contains(resolved, o.id) \/ ~Stored(o.id))
      <3>1. /\ voting' = voting \ {o.id} /\ approved' \subseteq approved \cup {o.id}
            /\ ~IsChange(o.id.req) \/ sessions' = Drop(sessions, o.id)
            /\ sessions' = sessions \/ sessions' = Drop(sessions, o.id)
            /\ approved' = approved \/ IsChange(o.id.req)
        BY <2>1, <2>3 DEF Outcome, Approve
      <3>2. PICK k \in DOMAIN sessions : sessions[k].id = o.id  BY <2>3 DEF Stored
      <3>3. o.id.own /\ IsChange(o.id.req) => o.id \in voting
        BY <3>2 DEF OwnInv, StoredOwnVoting
      <3>4. OneOwnOf(voting' \cup approved')  BY <3>1, <3>3 DEF OwnInv, OneOwnOf
      <3>5. StoredOwnVoting'
        <4>1. CASE sessions' = sessions /\ ~IsChange(o.id.req)
          BY <4>1, <3>1 DEF OwnInv, StoredOwnVoting
        <4>2. CASE sessions' = Drop(sessions, o.id)
          <5>1. /\ \A i \in DOMAIN sessions' : \E j \in DOMAIN sessions : sessions'[i] = sessions[j]
                /\ \A i \in DOMAIN sessions' : sessions'[i].id # o.id
            BY <2>3, <4>2, DroppedFrom DEF IdsInv
          <5> QED  BY <5>1, <3>1 DEF OwnInv, StoredOwnVoting
        <4> QED  BY <3>1, <4>1, <4>2
      <3> QED  BY <3>4, <3>5 DEF OwnInv
    <2> QED  BY <2>2, <2>3
  <1>6. ASSUME Rests \/ Tick \/ \E id \in Ids : Republish(id)  PROVE OwnInv'
    <2>1. UNCHANGED <<sessions, voting>> /\ approved' \subseteq approved
      BY <1>6 DEF Rests, Initiated, Tick, Republish, library, queues
    <2> QED  BY <2>1 DEF OwnInv, StoredOwnVoting, OneOwnOf
  <1> QED  BY <1>1, <1>2, <1>3, <1>4, <1>5, <1>6, StepKinds

\* What the member proposes in one step
LEMMA ProposesDoable ==
  ASSUME OpeningType, RestType, BufferInv, BufferInv', [Next]_vars,
         NEW id \in voting' \ voting, id.own
  PROVE  DoableIn(tree', id.req)
  <1>1. ASSUME NEW seq \in Seq(Requests), NEW yes \in BOOLEAN, OpensOwn(seq, yes)
        PROVE  DoableIn(tree', id.req)
    <2>1. voting' = voting \cup Range(NewIds(seq)) /\ \A i \in DOMAIN seq : DoableIn(tree', seq[i])
      BY <1>1 DEF OpensOwn, Initiate, NewIds
    <2>2. \E i \in DOMAIN seq : id.req = seq[i]  BY <2>1, NewIdsRange
    <2> QED  BY <2>1, <2>2
  <1>2. ASSUME NEW req \in Wanted, HearProposal(req)  PROVE FALSE
    <2>1. voting' = voting \cup {PeerId(req)}  BY <1>2, WantedAssumption, PeerProposal
    <2> QED  BY <2>1 DEF PeerId
  <1>3. ASSUME NEW l \in Leaves, Leaving(l)  PROVE FALSE
    BY <1>3 DEF Leaving, OpenLeave, LeaveId
  <1>4. ASSUME \/ \E x \in Ids : Vote(x) \/ Republish(x)
               \/ \E x \in Ids, yes \in BOOLEAN : PeersDecide(x, yes)
               \/ TickDeadlines \/ DrainOutcome \/ Rests \/ Tick
        PROVE  FALSE
    <2>1. voting' \subseteq voting
      BY <1>4 DEF Vote, Republish, PeersDecide, TickDeadlines, DrainOutcome, Outcome, Rests,
                  Initiated, Tick, queues
    <2> QED  BY <2>1
  <1> QED  BY <1>1, <1>2, <1>3, <1>4, StepKinds

ProposalInv == TypeOK /\ BufferInv /\ IdsInv /\ VotesComing /\ OwnInv

LEMMA ProposalInvariant == Spec => []ProposalInv
  <1>1. Init => IdsInv /\ VotesComing /\ OwnInv
    BY DEF Init, IdsInv, NumberedInv, StoredOnce, BusClosed, VotesComing, OwnInv,
           StoredOwnVoting, OneOwnOf, Contains
  <1>2. ASSUME TypeOK, BufferInv, TypeOK', BufferInv', IdsInv, VotesComing, OwnInv, [Next]_vars
        PROVE  IdsInv' /\ VotesComing' /\ OwnInv'
    <2>1. OpeningType /\ RestType  BY <1>2, TypeParts
    <2>2. OpeningType'
      BY <1>2 DEF TypeOK, OpeningType, IdType, SessionType, TimerType
    <2> QED  BY <1>2, <2>1, <2>2, IdsStep, VotesStep, OwnStep
  <1> QED  BY <1>1, <1>2, TypesAndBuffer, PTL DEF Spec, ProposalInv

\* In every open session this member has voted or will vote when its auto-vote
\* is due, whatever freezes, evictions, late and cancelled votes come in between
\* (voting.rs vote, handle.rs register_auto_vote).
THEOREM MemberHasItsSay == Spec => []VoteIsComing
  <1>1. ProposalInv => VoteIsComing
    BY DEF ProposalInv, VotesComing, VoteIsComing, Range, Armed
  <1> QED  BY <1>1, ProposalInvariant, PTL

\* This member never has two changes of one member in flight, by whichever of
\* its five ways to propose (voting.rs initiate_proposal, steward.rs
\* drain_buffered_updates).
THEOREM NoSecondOwnChange == Spec => []OneOwnChangePerMember
  <1>1. ProposalInv => OneOwnChangePerMember
    BY DEF ProposalInv, OwnInv, OneOwnOf, OneOwnChangePerMember
  <1> QED  BY <1>1, ProposalInvariant, PTL

\* This member proposes no change that the group it is in after the step could
\* not carry out (steward.rs drain_buffered_updates, queues.rs
\* apply_membership_delta_bookkeeping).
THEOREM ProposesWhatCanBeDone == Spec => OwnProposalsAreDoable
  <1>1. ProposalInv /\ ProposalInv' /\ [Next]_vars
          => [\A id \in voting' \ voting : id.own => DoableIn(tree', id.req)]_vars
    <2> SUFFICES ASSUME ProposalInv, ProposalInv', [Next]_vars,
                        NEW id \in voting' \ voting, id.own
                 PROVE  DoableIn(tree', id.req)
      OBVIOUS
    <2>1. OpeningType /\ RestType  BY TypeParts DEF ProposalInv
    <2> QED  BY <2>1, ProposesDoable DEF ProposalInv
  <1> QED  BY <1>1, ProposalInvariant, PTL DEF Spec, OwnProposalsAreDoable

------------------------------------------------------------------------------
\* No vote hangs, as long as the session store evicts nothing

\* max_consensus_sessions is never exceeded: only an applied outcome takes a
\* session out of the store, and what is opened is stored.
Keeps == ~DrainOutcome => Ids \cup (voting' \ voting) \subseteq Ids'
NothingEvicted == [][Keeps]_vars

OnBus(id) == \E i \in DOMAIN bus : bus[i].id = id

Driven(id) == (Active(id) /\ Armed(timeouts, id)) \/ (OnBus(id) /\ Stored(id))

\* What is in flight is driven, and an id once applied is stored no more.
DrivenInv ==
  /\ \A id \in voting \cup emergencies : Driven(id)
  /\ \A i \in DOMAIN sessions : ~Contains(resolved, sessions[i].id)

\* A store that keeps its ids when sessions of other ids are added keeps the
\* sessions.
LEMMA AddedKeeps ==
  ASSUME OpeningType, StoredOnce, NEW new \in Seq(SessionType),
         sessions' = WithSessions(sessions, new), Ids \subseteq Ids',
         \A i \in DOMAIN sessions, j \in DOMAIN new : sessions[i].id # new[j].id
  PROVE  \A i \in DOMAIN sessions : \E j \in DOMAIN sessions' : sessions'[j] = sessions[i]
  <1> SUFFICES ASSUME NEW i \in DOMAIN sessions
               PROVE  \E j \in DOMAIN sessions' : sessions'[j] = sessions[i]
    OBVIOUS
  <1>1. sessions[i].id \in Ids  BY DEF Ids, Range
  <1>2. PICK j \in DOMAIN sessions' : sessions'[j].id = sessions[i].id
    <2>1. sessions[i].id \in Ids'  BY <1>1
    <2> QED  BY ONLY <2>1 DEF Ids, Range
  <1>3. \/ \E k \in DOMAIN sessions : sessions'[j] = sessions[k]
        \/ \E k \in DOMAIN new : sessions'[j] = new[k]
    BY AddedFrom DEF OpeningType
  <1>4. PICK k \in DOMAIN sessions : sessions'[j] = sessions[k]  BY <1>2, <1>3
  <1>5. k = i  BY <1>2, <1>4 DEF StoredOnce
  <1> QED  BY <1>4, <1>5

\* New sessions take no drive away from what is in flight.
LEMMA OpenedDrive ==
  ASSUME OpeningType, StoredOnce, NEW new \in Seq(SessionType),
         sessions' = WithSessions(sessions, new), Ids \subseteq Ids',
         \A i \in DOMAIN sessions, j \in DOMAIN new : sessions[i].id # new[j].id,
         timeouts \subseteq timeouts',
         \A i \in DOMAIN bus : i \in DOMAIN bus' /\ bus'[i] = bus[i]
  PROVE  \A id : Driven(id) => Driven(id)'
  <1>1. \A i \in DOMAIN sessions : \E j \in DOMAIN sessions' : sessions'[j] = sessions[i]
    BY AddedKeeps
  <1>2. \A id : Active(id) => Active(id)'  BY <1>1 DEF Active
  <1>3. \A id : Stored(id) => Stored(id)'  BY <1>1 DEF Stored
  <1>4. \A id : OnBus(id) => OnBus(id)'  BY DEF OnBus
  <1>5. \A id : Armed(timeouts, id) => Armed(timeouts', id)  BY DEF Armed
  <1> QED  BY <1>2, <1>3, <1>4, <1>5 DEF Driven

\* Opening fresh, open sessions with a deadline
LEMMA OpenedDriven ==
  ASSUME OpeningType, RestType, IdsInv, DrivenInv,
         Ids \cup (voting' \ voting) \subseteq Ids', emergencies' \subseteq emergencies \cup voting',
         UNCHANGED <<bus, resolved>>, timeouts \subseteq timeouts',
         NEW new \in Seq(SessionType), sessions' = WithSessions(sessions, new),
         \A i \in DOMAIN new : /\ opened < new[i].id.nr /\ new[i].status = "active",
         \A id \in voting' \ voting : Armed(timeouts', id) /\ \E i \in DOMAIN new : new[i].id = id
  PROVE  DrivenInv'
  <1>0. \A i \in DOMAIN new : ~(new[i].id.nr <= opened)
    <2>1. \A i \in DOMAIN new : new[i] \in SessionType  OBVIOUS
    <2>2. \A i \in DOMAIN new : new[i].id.nr \in Nat  BY ONLY <2>1 DEF SessionType, IdType
    <2>3. opened \in Nat  BY DEF OpeningType
    <2>4. \A i \in DOMAIN new : opened < new[i].id.nr  OBVIOUS
    <2> QED  BY ONLY <2>2, <2>3, <2>4
  <1>1. \A i \in DOMAIN sessions, j \in DOMAIN new : sessions[i].id # new[j].id
    <2>1. \A i \in DOMAIN sessions : sessions[i].id.nr <= opened  BY DEF IdsInv, NumberedInv
    <2> QED  BY ONLY <1>0, <2>1
  <1>2. \A id : Driven(id) => Driven(id)'
    <2>1. Ids \subseteq Ids' /\ \A i \in DOMAIN bus : i \in DOMAIN bus' /\ bus'[i] = bus[i]
      OBVIOUS
    <2>2. StoredOnce  BY DEF IdsInv
    <2> QED  BY <1>1, <2>1, <2>2, OpenedDrive
  <1>3. \A i \in DOMAIN sessions' : \/ \E j \in DOMAIN sessions : sessions'[i] = sessions[j]
                                    \/ \E j \in DOMAIN new : sessions'[i] = new[j]
    BY AddedFrom DEF OpeningType
  <1>4. ASSUME NEW id \in voting' \ voting  PROVE Active(id)'
    <2>1. PICK j \in DOMAIN sessions' : sessions'[j].id = id  BY DEF Ids, Range
    <2>2. PICK i \in DOMAIN new : new[i].id = id  OBVIOUS
    <2>3. \E k \in DOMAIN new : sessions'[j] = new[k]  BY <1>1, <1>3, <2>1, <2>2
    <2>4. sessions'[j].status = "active"  BY <2>3
    <2> QED  BY <2>1, <2>4 DEF Active
  <1>5. \A id \in voting' \cup emergencies' : Driven(id)'
    <2> SUFFICES ASSUME NEW id \in voting' \cup emergencies'  PROVE Driven(id)'
      OBVIOUS
    <2>1. CASE id \in voting \cup emergencies  BY <1>2, <2>1 DEF DrivenInv
    <2>2. CASE id \notin voting \cup emergencies
      <3>1. id \in voting' \ voting  BY <2>2
      <3> QED  BY <1>4, <3>1 DEF Driven
    <2> QED  BY <2>1, <2>2
  <1>6. \A i \in DOMAIN new : ~Contains(resolved, new[i].id)
    BY <1>0 DEF IdsInv, NumberedInv
  <1>7. \A i \in DOMAIN sessions' : ~Contains(resolved', sessions'[i].id)
    BY <1>3, <1>6 DEF DrivenInv
  <1> QED  BY <1>5, <1>7 DEF DrivenInv

LEMMA DrivenOpening ==
  ASSUME OpeningType, RestType, IdsInv, DrivenInv, ~LeaveIdsRecur,
         Ids \cup (voting' \ voting) \subseteq Ids'
  PROVE  /\ \A seq \in Seq(Requests), yes \in BOOLEAN : OpensOwn(seq, yes) => DrivenInv'
         /\ \A req \in Wanted : HearProposal(req) => DrivenInv'
         /\ \A l \in Leaves : Leaving(l) => DrivenInv'
  <1>1. ASSUME NEW seq \in Seq(Requests), NEW yes \in BOOLEAN, OpensOwn(seq, yes)
        PROVE  DrivenInv'
    <2> DEFINE R == Range(NewIds(seq))
    <2>1. PICK new \in Seq(SessionType) :
           /\ sessions' = WithSessions(sessions, new)
           /\ \A i \in DOMAIN new : opened < new[i].id.nr
           /\ \A i \in DOMAIN new : new[i].status = "active"
           /\ new = OwnSessions(seq, yes)
      <3> DEFINE own == OwnSessions(seq, yes)
      <3>1. /\ own \in Seq(SessionType) /\ DOMAIN own = DOMAIN seq
            /\ \A i \in DOMAIN seq : /\ own[i].id = NewIds(seq)[i] /\ own[i].status = "active"
                                     /\ NewIds(seq)[i].nr = opened + i
            /\ sessions' = WithSessions(sessions, own)
        BY <1>1, OwnSessionsType DEF OpensOwn
      <3> HIDE DEF own
      <3>2. \A i \in DOMAIN seq : i \in Nat /\ i > 0 /\ opened \in Nat  BY DEF OpeningType
      <3>3. \A i \in DOMAIN own : opened < own[i].id.nr  BY <3>1, <3>2
      <3> QED  BY <3>1, <3>3 DEF own
    <2>2. /\ voting' = voting \cup R
          /\ emergencies' = emergencies \cup {id \in R : ~IsChange(id.req)}
          /\ timeouts' = timeouts \cup {[id |-> id, left |-> ConsensusTimeout] : id \in R}
          /\ UNCHANGED <<bus, resolved>>
      BY <1>1 DEF OpensOwn, Initiate, NewIds
    <2>3. \A id \in R : \E i \in DOMAIN new : new[i].id = id
      <3>1. \A id \in R : \E i \in DOMAIN seq : id = NewIds(seq)[i]  BY NewIdsRange
      <3>2. DOMAIN new = DOMAIN seq /\ \A i \in DOMAIN seq : new[i].id = NewIds(seq)[i]
        BY <2>1, OwnSessionsType
      <3> QED  BY <3>1, <3>2
    <2> HIDE DEF R
    <2>4. \A id \in R : [id |-> id, left |-> ConsensusTimeout] \in timeouts'  BY <2>2
    <2>5. \A id \in R : Armed(timeouts', id)  BY <2>4, ArmedEntry
    <2>6. \A id \in voting' \ voting :
            Armed(timeouts', id) /\ \E i \in DOMAIN new : new[i].id = id
      BY <2>2, <2>3, <2>5
    <2>7. emergencies' \subseteq emergencies \cup voting' /\ timeouts \subseteq timeouts'  BY <2>2
    <2> QED  BY <2>1, <2>2, <2>6, <2>7, OpenedDriven
  <1>2. ASSUME NEW req \in Wanted, HearProposal(req)  PROVE DrivenInv'
    <2>0. req \in Requests  BY WantedAssumption
    <2>1. PICK new \in Seq(SessionType) :
           /\ sessions' = WithSessions(sessions, new)
           /\ \A i \in DOMAIN new : opened < new[i].id.nr
           /\ \A i \in DOMAIN new : new[i].status = "active" /\ new[i].id = PeerId(req)
           /\ DOMAIN new = {1}
      BY <1>2, <2>0, PeerOpening
    <2>2. /\ voting' = voting \cup {PeerId(req)}
          /\ emergencies' = IF IsChange(req) THEN emergencies ELSE emergencies \cup {PeerId(req)}
          /\ timeouts' = timeouts \cup {[id |-> PeerId(req), left |-> ConsensusTimeout]}
          /\ UNCHANGED <<bus, resolved>>
      BY <1>2, <2>0, PeerProposal
    <2>3. [id |-> PeerId(req), left |-> ConsensusTimeout] \in timeouts'  BY <2>2
    <2>4. Armed(timeouts', PeerId(req))  BY <2>3, ArmedEntry
    <2>5. \A id \in voting' \ voting : id = PeerId(req)  BY <2>2
    <2>6. \A id \in voting' \ voting :
            Armed(timeouts', id) /\ \E i \in DOMAIN new : new[i].id = id
      BY <2>1, <2>4, <2>5
    <2>7. emergencies' \subseteq emergencies \cup voting' /\ timeouts \subseteq timeouts'  BY <2>2
    <2> QED  BY <2>1, <2>2, <2>6, <2>7, OpenedDriven
  <1>3. ASSUME NEW l \in Leaves, Leaving(l)  PROVE DrivenInv'
    <2> DEFINE x == [id |-> LeaveId(l), status |-> "yes", voted |-> TRUE]
               new == <<x>>
               o == [id |-> LeaveId(l), yes |-> TRUE]
    <2>1. new \in Seq(SessionType)  BY LeaveSession
    <2>2. DOMAIN new = {1} /\ new[1] = x /\ x.id = LeaveId(l) /\ o.id = LeaveId(l)  OBVIOUS
    <2>3. /\ sessions' = WithSessions(sessions, new) /\ bus' = Append(bus, o)
          /\ voting' = voting \cup {LeaveId(l)}
          /\ UNCHANGED <<emergencies, timeouts, resolved>>
          /\ ~Contains(resolved, LeaveId(l))
      BY <1>3 DEF Leaving, OpenLeave, MayLeave
    <2> HIDE DEF x, new, o
    <2>4. /\ \A i \in DOMAIN bus : i \in DOMAIN bus' /\ bus'[i] = bus[i]
          /\ \E i \in DOMAIN bus' : bus'[i] = o
      BY <2>3, Announced
    <2>5. \A id : Driven(id) => Driven(id)'
      <3>1. \A i \in DOMAIN sessions, j \in DOMAIN new : sessions[i].id # new[j].id
        BY <1>3, <2>2 DEF Leaving, Stored
      <3>2. Ids \subseteq Ids' /\ timeouts \subseteq timeouts' /\ StoredOnce  BY <2>3 DEF IdsInv
      <3> QED  BY <2>1, <2>3, <2>4, <3>1, <3>2, OpenedDrive
    <2>6. LeaveId(l) \notin voting
      <3>1. ~Stored(LeaveId(l)) /\ ~Active(LeaveId(l))  BY <1>3 DEF Leaving, Active, Stored
      <3> QED  BY <3>1 DEF DrivenInv, Driven
    <2>7. Stored(LeaveId(l))'
      <3>1. LeaveId(l) \in Ids'  BY <2>3, <2>6
      <3> QED  BY <3>1 DEF Stored, Ids, Range
    <2>8. OnBus(LeaveId(l))'  BY <2>2, <2>4 DEF OnBus
    <2>9. \A id \in voting' \cup emergencies' : Driven(id)'
      BY <2>3, <2>5, <2>7, <2>8 DEF DrivenInv, Driven
    <2>10. \A i \in DOMAIN sessions' : \/ \E j \in DOMAIN sessions : sessions'[i] = sessions[j]
                                       \/ \E j \in DOMAIN new : sessions'[i] = new[j]
      BY <2>1, <2>3, AddedFrom DEF OpeningType
    <2>11. \A i \in DOMAIN sessions' : ~Contains(resolved', sessions'[i].id)
      BY <2>2, <2>3, <2>10 DEF DrivenInv
    <2> QED  BY <2>9, <2>11 DEF DrivenInv
  <1> QED  BY <1>1, <1>2, <1>3

\* The store with sessions changed in place, no new ids in flight
LEMMA ChangedDriven ==
  ASSUME DrivenInv, UNCHANGED <<voting, emergencies, resolved>>,
         DOMAIN sessions' = DOMAIN sessions,
         \A i \in DOMAIN sessions : sessions'[i].id = sessions[i].id,
         \A i \in DOMAIN bus : i \in DOMAIN bus' /\ bus'[i] = bus[i],
         \A id : Active(id) /\ Armed(timeouts, id)
                   => (Active(id)' /\ Armed(timeouts', id)) \/ OnBus(id)'
  PROVE  DrivenInv'
  <1>1. \A id : Stored(id) => Stored(id)'  BY DEF Stored
  <1>2. \A id : OnBus(id) => OnBus(id)'  BY DEF OnBus
  <1>3. \A id : Active(id) => Stored(id)  BY DEF Active, Stored
  <1>4. \A id : Driven(id) => Driven(id)'
    <2> SUFFICES ASSUME NEW id, Driven(id)  PROVE Driven(id)'  OBVIOUS
    <2>1. CASE Active(id) /\ Armed(timeouts, id)  BY <1>1, <1>3, <2>1 DEF Driven
    <2>2. CASE OnBus(id) /\ Stored(id)  BY <1>1, <1>2, <2>2 DEF Driven
    <2> QED  BY <2>1, <2>2 DEF Driven
  <1>5. \A id \in voting' \cup emergencies' : Driven(id)'  BY <1>4 DEF DrivenInv
  <1>6. \A i \in DOMAIN sessions' : ~Contains(resolved', sessions'[i].id)  BY DEF DrivenInv
  <1> QED  BY <1>5, <1>6 DEF DrivenInv

\* Applying an outcome: what it is about leaves the flight with its session, the
\* others keep their deadline or their announcement.
LEMMA DrainedDriven ==
  ASSUME OpeningType, RestType, IdsInv, DrivenInv, DrainOutcome, ~ScoresMayFail
  PROVE  DrivenInv'
  <1> DEFINE o == Head(bus)
  <1>1. bus # <<>> /\ bus' = Tail(bus) /\ timeouts' = WithoutTimer(timeouts, o.id)
    BY DEF DrainOutcome
  <1>2. /\ o = bus[1] /\ 1 \in DOMAIN bus /\ o.id \in IdType
        /\ \A i \in DOMAIN bus : i # 1 => i - 1 \in DOMAIN bus' /\ bus'[i - 1] = bus[i]
    BY <1>1, HeadOfBus
  <1>3. Outcome(o.id, o.yes, FALSE)  BY DEF DrainOutcome
  <1> HIDE DEF o
  <1>4. \A id : id # o.id /\ OnBus(id) => OnBus(id)'
    <2> SUFFICES ASSUME NEW id, id # o.id, OnBus(id)  PROVE OnBus(id)'  OBVIOUS
    <2>1. PICK i \in DOMAIN bus : bus[i].id = id  BY DEF OnBus
    <2>2. i # 1  BY <1>2, <2>1
    <2> QED  BY <1>2, <2>1, <2>2 DEF OnBus
  <1>5. \A id : id # o.id /\ Armed(timeouts, id) => Armed(timeouts', id)
    BY <1>1 DEF WithoutTimer, Armed
  <1>6. ~Active(o.id)  BY <1>2 DEF IdsInv, BusClosed, Active
  <1>7. CASE Contains(resolved, o.id) \/ ~Stored(o.id)
    <2>1. UNCHANGED <<resolved, voting, emergencies, sessions>>  BY <1>3, <1>7 DEF Outcome
    <2>2. \A id \in voting \cup emergencies : id # o.id
      <3>1. Contains(resolved, o.id) => ~Stored(o.id)  BY DEF DrivenInv, Stored
      <3> QED  BY <3>1, <1>6, <1>7 DEF DrivenInv, Driven
    <2>3. \A id : (Active(id)' <=> Active(id)) /\ (Stored(id)' <=> Stored(id))
      BY <2>1 DEF Active, Stored
    <2>4. \A id \in voting' \cup emergencies' : Driven(id)'
      BY <2>1, <2>2, <2>3, <1>4, <1>5 DEF DrivenInv, Driven
    <2> QED  BY <2>1, <2>4 DEF DrivenInv
  <1>8. CASE ~Contains(resolved, o.id) /\ Stored(o.id)
    <2>1. /\ resolved' = Remember(resolved, o.id)
          /\ voting' = voting \ {o.id} /\ emergencies' = emergencies \ {o.id}
          /\ sessions' = Drop(sessions, o.id)
      BY <1>3, <1>8 DEF Outcome
    <2>2. /\ \A i \in DOMAIN sessions' : \E j \in DOMAIN sessions : sessions'[i] = sessions[j]
          /\ \A j \in DOMAIN sessions : sessions[j].id # o.id =>
               \E i \in DOMAIN sessions' : sessions'[i] = sessions[j]
          /\ \A i \in DOMAIN sessions' : sessions'[i].id # o.id
      BY <2>1, <1>8, DroppedFrom DEF IdsInv
    <2>3. \A id : id # o.id => (Active(id) => Active(id)') /\ (Stored(id) => Stored(id)')
      BY <2>2 DEF Active, Stored
    <2>4. \A id \in voting' \cup emergencies' : Driven(id)'
      BY <2>1, <2>3, <1>4, <1>5 DEF DrivenInv, Driven
    <2>5. \A id : Contains(resolved', id) => id = o.id \/ Contains(resolved, id)
      BY <2>1, <1>2, Remembered
    <2>6. \A i \in DOMAIN sessions' : ~Contains(resolved', sessions'[i].id)
      BY <2>2, <2>5 DEF DrivenInv
    <2> QED  BY <2>4, <2>6 DEF DrivenInv
  <1> QED  BY <1>7, <1>8

LEMMA DrivenStep ==
  ASSUME OpeningType, RestType, BufferInv, BufferInv', IdsInv, DrivenInv, [Keeps]_vars,
         ~ScoresMayFail, ~LeaveIdsRecur, [Next]_vars
  PROVE  DrivenInv'
  <1>1. ASSUME NEW id \in Ids, Vote(id)  PROVE DrivenInv'
    <2>1. /\ DOMAIN sessions' = DOMAIN sessions
          /\ \A i \in DOMAIN sessions : sessions[i].id # id => sessions'[i] = sessions[i]
          /\ \A i \in DOMAIN sessions : sessions[i].id = id =>
               sessions'[i].id = id /\ sessions'[i].status = SessionOf(id).status
      BY <1>1, VotedSession DEF Vote
    <2>2. PICK k \in DOMAIN sessions : SessionOf(id) = sessions[k] /\ sessions[k].id = id
      <3>1. Stored(id)  BY <1>1 DEF Vote, Active, Stored
      <3> QED  BY <3>1, StoredSession
    <2>3. \A i \in DOMAIN sessions : /\ sessions'[i].id = sessions[i].id
                                     /\ sessions'[i].status = sessions[i].status
      BY <2>1, <2>2 DEF IdsInv, StoredOnce
    <2>4. UNCHANGED <<voting, emergencies, resolved, bus, timeouts>>  BY <1>1 DEF Vote, queues
    <2>5. \A x : Active(x) => Active(x)'  BY <2>1, <2>3 DEF Active
    <2> QED  BY <2>1, <2>3, <2>4, <2>5, ChangedDriven
  <1>2. ASSUME NEW id \in Ids, NEW yes \in BOOLEAN, PeersDecide(id, yes)  PROVE DrivenInv'
    <2> DEFINE o == [id |-> id, yes |-> yes]
    <2>0. /\ Active(id) /\ Resolve(id, yes) /\ bus' = Append(bus, o)
          /\ UNCHANGED <<voting, emergencies, resolved, timeouts>>
      BY <1>2 DEF PeersDecide, Resolve, queues, timers
    <2>1. /\ DOMAIN sessions' = DOMAIN sessions
          /\ \A i \in DOMAIN sessions : sessions[i].id # id => sessions'[i] = sessions[i]
          /\ \A i \in DOMAIN sessions : sessions[i].id = id => sessions'[i].id = id
      BY <2>0, ClosedSession
    <2>3. o.id = id  OBVIOUS
    <2> HIDE DEF o
    <2>4. /\ \A i \in DOMAIN bus : i \in DOMAIN bus' /\ bus'[i] = bus[i]
          /\ \E i \in DOMAIN bus' : bus'[i] = o
      BY <2>0, Announced
    <2>5. OnBus(id)'  BY <2>3, <2>4 DEF OnBus
    <2>6. \A x : x # id /\ Active(x) => Active(x)'  BY <2>1 DEF Active
    <2>7. \A i \in DOMAIN sessions : sessions'[i].id = sessions[i].id  BY <2>1
    <2>8. \A x : Active(x) /\ Armed(timeouts, x)
                   => (Active(x)' /\ Armed(timeouts', x)) \/ OnBus(x)'
      BY <2>0, <2>5, <2>6
    <2> QED  BY <2>0, <2>1, <2>4, <2>7, <2>8, ChangedDriven
  <1>3. ASSUME NEW id \in Ids, Republish(id)  PROVE DrivenInv'
    <2> DEFINE o == [id |-> id, yes |-> SessionOf(id).status = "yes"]
    <2>0. /\ bus' = Append(bus, o)
          /\ UNCHANGED <<voting, emergencies, resolved, timeouts, sessions>>
      BY <1>3 DEF Republish, queues, timers
    <2> HIDE DEF o
    <2>1. \A i \in DOMAIN bus : i \in DOMAIN bus' /\ bus'[i] = bus[i]  BY <2>0, Announced
    <2>2. \A x : Active(x) => Active(x)'  BY <2>0 DEF Active
    <2> QED  BY <2>0, <2>1, <2>2, ChangedDriven
  <1>4. ASSUME TickDeadlines  PROVE DrivenInv'
    <2>1. UNCHANGED <<voting, emergencies, resolved>> /\ timeouts' = {e \in timeouts : e.left # 0}
      BY <1>4 DEF TickDeadlines, queues
    <2>2. /\ DOMAIN sessions' = DOMAIN sessions
          /\ \A i \in DOMAIN sessions :
              /\ sessions'[i].id = sessions[i].id
              /\ sessions[i].id \notin Late => sessions'[i].status = sessions[i].status
          /\ \A i \in DOMAIN bus : i \in DOMAIN bus' /\ bus'[i] = bus[i]
          /\ \A id \in Late : \E i \in DOMAIN bus' : bus'[i].id = id
      BY <1>4, Ticked
    <2>3. ASSUME NEW x, Active(x), Armed(timeouts, x), ~OnBus(x)'
          PROVE  Active(x)' /\ Armed(timeouts', x)
      <3>1. x \notin Late  BY <2>2, <2>3 DEF OnBus
      <3>2. x \notin Due(timeouts)  BY <2>3, <3>1 DEF Late
      <3>3. Armed(timeouts', x)  BY <2>1, <2>3, <3>2 DEF Armed, Due
      <3>4. Active(x)'  BY <2>2, <2>3, <3>1 DEF Active
      <3> QED  BY <3>3, <3>4
    <2>4. \A x : Active(x) /\ Armed(timeouts, x)
                   => (Active(x)' /\ Armed(timeouts', x)) \/ OnBus(x)'
      BY <2>3
    <2> QED  BY <2>1, <2>2, <2>4, ChangedDriven
  <1>5. ASSUME Rests \/ Tick  PROVE DrivenInv'
    <2>1. UNCHANGED <<voting, emergencies, resolved, sessions, bus>>
      BY <1>5 DEF Rests, Initiated, Tick, library, queues
    <2>2. \A x : Armed(timeouts, x) => Armed(timeouts', x)
      <3>1. CASE Rests  BY <3>1 DEF Rests, Initiated
      <3>2. CASE Tick  BY <3>2, TimersTick
      <3> QED  BY <1>5, <3>1, <3>2
    <2>3. \A x : Active(x) => Active(x)'  BY <2>1 DEF Active
    <2> QED  BY <2>1, <2>2, <2>3, ChangedDriven
  <1>6. CASE UNCHANGED vars
    <2>1. Rests  BY <1>6 DEF Rests, vars, library, timers, queues, Initiated
    <2> QED  BY <1>5, <2>1
  <1>7. CASE Keeps /\ ~DrainOutcome
    <2>1. Ids \cup (voting' \ voting) \subseteq Ids'  BY <1>7 DEF Keeps
    <2> QED  BY <1>1, <1>2, <1>3, <1>4, <1>5, <1>7, <2>1, DrivenOpening, StepKinds
  <1> QED  BY <1>6, <1>7, DrainedDriven

\* No vote hangs in a group of any size and under any load that the session
\* store takes: while it evicts nothing, score writes succeed and no tenant of a
\* leaf leaves under an id already applied, every id in flight has a deadline
\* that will close it or an outcome that will be applied (voting.rs
\* tick_deadlines, handle_outcome.rs handle_consensus_outcome).  Each of the three
\* conditions is one the code itself needs.
THEOREM NoVoteHangs ==
  ASSUME ~ScoresMayFail, ~LeaveIdsRecur
  PROVE  Spec /\ NothingEvicted => []VotesAreDriven
  <1>1. Init => DrivenInv
    BY DEF Init, DrivenInv
  <1>2. ASSUME ProposalInv, BufferInv', DrivenInv, [Keeps]_vars, [Next]_vars
        PROVE  DrivenInv'
    <2>1. OpeningType /\ RestType  BY <1>2, TypeParts DEF ProposalInv
    <2> QED  BY <1>2, <2>1, DrivenStep DEF ProposalInv
  <1>3. ProposalInv => BufferInv  BY DEF ProposalInv
  <1>4. DrivenInv => VotesAreDriven
    BY DEF DrivenInv, VotesAreDriven, Driven, Armed, OnBus, Stored
  <1> QED  BY <1>1, <1>2, <1>3, <1>4, ProposalInvariant, PTL DEF Spec, NothingEvicted
==============================================================================
