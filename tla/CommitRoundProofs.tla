-------------------------- MODULE CommitRoundProofs ---------------------------
(***************************************************************************)
(* Theorems about CommitRound for every group, every window, every network *)
(* bound and every set of changes that one term of the steward list covers *)
(* (TermAssumption): what holds of the rounds whatever the timing.         *)
(***************************************************************************)
EXTENDS CommitRound, FiniteSetTheorems, TLAPS

CommitType == [from : Members, batch : SUBSET Changes, nonce : Nat]
CandType   == [from : Members, batch : SUBSET Changes, nonce : Nat, parent : Seq(CommitType)]
EntryType  == [at : Nat, change : Changes]
QueueType  == [next : Nat, entries : SUBSET EntryType]
CopyType   == [to : Members, cand : CandType, age : Nat]

\* TypeOK by parts: what a mint changes, what else a member keeps, and the rest
MintType ==
  /\ wire \subseteq CopyType
  /\ round \in [Members -> SUBSET CandType]
  /\ pending \in [Members -> SUBSET CandType]
  /\ minted \in [Members -> Nat]

PhaseType ==
  /\ state \in [Members -> {"Working", "Freezing", "Reelection"}]
  /\ mode \in [Members -> {"Normal", "Recovery"}]
  /\ timer \in [Members -> Nat \cup {Off}]

GroupType ==
  /\ decided \subseteq Changes \cup {Deadlock}
  /\ outcomes \subseteq [to : Members, what : Changes \cup {Deadlock}, age : Nat]
  /\ approved \in [Members -> QueueType]
  /\ early \in [Members -> SUBSET [epoch : Nat, cand : CandType]]
  /\ chain \in [Members -> Seq(CommitType)]
  /\ since \in [Changes -> Nat]
  /\ left \subseteq Members

LEMMA TypeParts == TypeOK <=> MintType /\ PhaseType /\ GroupType
  BY DEF TypeOK, MintType, PhaseType, GroupType, CommitType, CandType, EntryType, QueueType, CopyType

------------------------------------------------------------------------------
\* Queues and candidates

LEMMA MintedTypes ==
  ASSUME NEW queue \in QueueType, NEW urgent, NEW mem, NEW k
  PROVE  /\ MintedBatch(queue, urgent, mem, k) \subseteq Changes
         /\ MintedBatch(queue, urgent, mem, k) \subseteq ChangesOf(queue)
         /\ \A c \in MintedBatch(queue, urgent, mem, k) : Actionable(c, mem)
  BY DEF MintedBatch, FirstOf, ChangesOf, QueueType, EntryType

LEMMA EnqueueType ==
  ASSUME NEW queue \in QueueType, NEW c \in Changes
  PROVE  /\ Enqueue(queue, c) \in QueueType
         /\ Enqueue(queue, c).entries = queue.entries \cup {[at |-> queue.next, change |-> c]}
  <1> DEFINE e == [at |-> queue.next, change |-> c]
  <1>1. queue.next \in Nat /\ queue.entries \subseteq EntryType  BY DEF QueueType
  <1>2. e \in EntryType  BY <1>1 DEF EntryType
  <1>3. Enqueue(queue, c) = [next |-> queue.next + 1, entries |-> queue.entries \cup {e}]
    BY DEF Enqueue
  <1> HIDE DEF e
  <1>4. Enqueue(queue, c) \in QueueType  BY <1>1, <1>2, <1>3 DEF QueueType
  <1>5. Enqueue(queue, c).entries = queue.entries \cup {e}  BY <1>3
  <1> QED  BY <1>4, <1>5 DEF e

LEMMA BufferType ==
  ASSUME NEW n, NEW held \in SUBSET CandType, NEW cand \in CandType
  PROVE  /\ Buffer(n, held, cand) \in SUBSET CandType
         /\ Buffer(n, held, cand) \in {held, held \cup {cand}}
  BY DEF Buffer

\* The candidate n builds from queue
Built(n, queue) ==
  [from |-> n, batch |-> MintedBatch(queue, 0, Group(n), BatchMax), nonce |-> minted[n],
   parent |-> chain[n]]

LEMMA BuiltType ==
  ASSUME MintType, GroupType, NEW n \in Members, NEW queue \in QueueType
  PROVE  /\ Built(n, queue) \in CandType
         /\ Built(n, queue).from = n /\ Built(n, queue).parent = chain[n]
         /\ Built(n, queue).batch = MintedBatch(queue, 0, Group(n), BatchMax)
         /\ Built(n, queue).nonce = minted[n]
  <1> DEFINE b == MintedBatch(queue, 0, Group(n), BatchMax)
  <1>1. b \subseteq Changes  BY MintedTypes
  <1> HIDE DEF b
  <1>2. minted[n] \in Nat /\ chain[n] \in Seq(CommitType)  BY DEF MintType, GroupType
  <1>3. [from |-> n, batch |-> b, nonce |-> minted[n], parent |-> chain[n]] \in CandType
    BY <1>1, <1>2 DEF CandType
  <1> QED  BY <1>3 DEF Built, b

\* A mint by n adds the candidate it builds, if it builds one, to what n holds
\* and its copies to the wire.
LEMMA MintAdds ==
  ASSUME NEW n \in Members, NEW permitted, NEW queue, NEW held, NEW inflight,
         Mint(n, permitted, queue, held, inflight)
  PROVE  \/ /\ ~HasRemoval(queue, n)
            /\ round' = [round EXCEPT ![n] = Buffer(n, held, Built(n, queue))]
            /\ pending' = [pending EXCEPT ![n] = {Built(n, queue)}]
            /\ minted' = [minted EXCEPT ![n] = @ + 1]
            /\ wire' = inflight \cup Sent(n, Built(n, queue))
            /\ permitted
         \/ /\ round' = [round EXCEPT ![n] = held]
            /\ pending' = [pending EXCEPT ![n] = @]
            /\ minted' = [minted EXCEPT ![n] = @]
            /\ wire' = inflight
  BY DEF Mint, Built

LEMMA SentType ==
  ASSUME NEW n, NEW cand \in CandType
  PROVE  /\ Sent(n, cand) \subseteq CopyType
         /\ \A x \in Sent(n, cand) : x.cand = cand /\ x.to # n
  <1>1. \A m \in Online : m \in Members  BY DEF Online
  <1>2. \A m \in Members : [to |-> m, cand |-> cand, age |-> 0] \in CopyType  BY DEF CopyType
  <1> QED  BY <1>1, <1>2 DEF Sent

LEMMA MintTyped ==
  ASSUME MintType, GroupType, NEW n \in Members, NEW permitted, NEW queue \in QueueType,
         NEW held \in SUBSET CandType, NEW inflight \in SUBSET CopyType,
         Mint(n, permitted, queue, held, inflight)
  PROVE  MintType'
  <1> DEFINE b == Built(n, queue)
  <1>1. b \in CandType  BY BuiltType
  <1> HIDE DEF b
  <1>2. CASE /\ round' = [round EXCEPT ![n] = Buffer(n, held, b)]
             /\ pending' = [pending EXCEPT ![n] = {b}]
             /\ minted' = [minted EXCEPT ![n] = @ + 1]
             /\ wire' = inflight \cup Sent(n, b)
    <2>1. Buffer(n, held, b) \in SUBSET CandType /\ Sent(n, b) \subseteq CopyType
      BY <1>1, BufferType, SentType
    <2> QED  BY <1>1, <1>2, <2>1 DEF MintType
  <1>3. CASE /\ round' = [round EXCEPT ![n] = held]
             /\ pending' = [pending EXCEPT ![n] = @]
             /\ minted' = [minted EXCEPT ![n] = @]
             /\ wire' = inflight
    BY <1>3 DEF MintType
  <1> QED  BY <1>2, <1>3, MintAdds DEF b

\* A selected candidate is one of the buffer.
LEMMA SelectedFrom ==
  ASSUME MintType, NEW n \in Members, NEW w \in Selected(n)
  PROVE  /\ \E c \in round[n] : /\ w.from = c.from /\ w.batch = c.batch /\ w.nonce = c.nonce
                                /\ c \in CandType
                                /\ w.from = n \/ Stages(n, c)
         /\ CountMatches(w, CountOf(approved[n]), mode[n] = "Recovery" \/ AllowSubset)
         /\ Commit(w) \in CommitType /\ Commit(w).batch = w.batch
         /\ w.from = n \/ w.batch = ChangesOf(approved[n])
  <1> DEFINE rec(c) == [from |-> c.from, batch |-> c.batch, stages |-> Stages(n, c), nonce |-> c.nonce]
             cands == {rec(c) : c \in round[n]}
             es == EpochSteward(List, Epoch(n), {m \in Group(n) : ~HasRemoval(approved[n], m)})
             ok == mode[n] = "Recovery" \/ AllowSubset
             best == Winners(cands, n, approved[n], Authorised(n), ok, es)
  <1>1. w \in best  BY DEF Selected
  <1> HIDE DEF cands, es, ok
  <1>2. /\ w \in cands /\ CountMatches(w, CountOf(approved[n]), ok)
        /\ w.from = n \/ RemoteApplies(w, approved[n], Authorised(n))
    BY <1>1 DEF Winners
  <1>3. PICK c \in round[n] : w = rec(c)  BY <1>2 DEF cands
  <1>4. w.from = c.from /\ w.batch = c.batch /\ w.nonce = c.nonce /\ w.stages = Stages(n, c)
    BY <1>3
  <1>5. c \in CandType  BY DEF MintType
  <1>6. Commit(w) \in CommitType /\ Commit(w).batch = w.batch
    BY <1>4, <1>5 DEF Commit, CandType, CommitType
  <1>7. w.from = n \/ (Stages(n, c) /\ w.batch = ChangesOf(approved[n]))
    BY <1>2, <1>4 DEF RemoteApplies
  <1> QED  BY <1>2, <1>4, <1>5, <1>6, <1>7 DEF ok

------------------------------------------------------------------------------
\* Type correctness

LEMMA TypeInit == Init => TypeOK
  <1> SUFFICES ASSUME Init  PROVE TypeOK  OBVIOUS
  <1>1. MintType  BY DEF Init, MintType
  <1>2. PhaseType  BY DEF Init, PhaseType
  <1>3. EmptyQueue \in QueueType  BY DEF EmptyQueue, QueueType
  <1>4. GroupType  BY <1>3 DEF Init, GroupType
  <1> QED  BY <1>1, <1>2, <1>4, TypeParts

LEMMA OnlineMembers == \A n \in Online : n \in Members
  BY DEF Online

\* What a member keeps in the buffer for candidates that came early
LEMMA EarlyType ==
  ASSUME GroupType, NEW n \in Members
  PROVE  EarlyNow(n) \in SUBSET CandType
  <1>1. \A e \in early[n] : e \in [epoch : Nat, cand : CandType]  BY DEF GroupType
  <1> HIDE DEF CandType
  <1> QED  BY <1>1 DEF EarlyNow

LEMMA EpochType ==
  ASSUME GroupType, NEW n \in Members
  PROVE  Epoch(n) \in Nat
  <1>1. chain[n] \in Seq(CommitType)  BY DEF GroupType
  <1>2. Len(chain[n]) \in Nat  BY <1>1
  <1> QED  BY <1>2 DEF Epoch, EpochAfter

LEMMA CopyFields ==
  ASSUME MintType, NEW x \in wire
  PROVE  x.to \in Members /\ x.cand \in CandType /\ x.age \in Nat
  BY DEF MintType, CopyType

LEMMA MintStep ==
  ASSUME MintType, GroupType, [Next]_vars
  PROVE  MintType'
  <1>0. \A n \in Members : approved[n] \in QueueType /\ round[n] \in SUBSET CandType
    BY DEF MintType, GroupType
  <1>1. ASSUME NEW o \in outcomes, HearChange(o)  PROVE MintType'
    <2>1. o.to \in Members  BY DEF GroupType
    <2>2. EarlyNow(o.to) \in SUBSET CandType  BY <2>1, EarlyType
    <2>3. round' = [round EXCEPT ![o.to] = @ \cup EarlyNow(o.to)] /\ UNCHANGED <<wire, pending, minted>>
      BY <1>1 DEF HearChange, mls
    <2> QED  BY <2>1, <2>2, <2>3 DEF MintType
  <1>2. ASSUME NEW x \in wire, Stash(x)  PROVE MintType'
    BY <1>2 DEF Stash, mls, MintType
  <1>3. ASSUME NEW x \in wire, Receive(x)  PROVE MintType'
    <2> DEFINE n == x.to
               held == Buffer(n, round[n], x.cand)
    <2>1. n \in Members /\ x.cand \in CandType  BY CopyFields
    <2>2. held \in SUBSET CandType  BY <1>0, <2>1, BufferType
    <2>3. wire \ {x} \in SUBSET CopyType  BY DEF MintType
    <2>4. \/ EnterFreezing(n, approved[n], held, wire \ {x})
          \/ /\ round' \in {round, [round EXCEPT ![n] = held]}
             /\ wire' = wire \ {x} /\ UNCHANGED <<pending, minted>>
      BY <1>3 DEF Receive
    <2> HIDE DEF n, held
    <2>5. CASE EnterFreezing(n, approved[n], held, wire \ {x})
      BY <1>0, <2>1, <2>2, <2>3, <2>5, MintTyped DEF EnterFreezing
    <2>6. CASE /\ round' \in {round, [round EXCEPT ![n] = held]}
               /\ wire' = wire \ {x} /\ UNCHANGED <<pending, minted>>
      BY <2>1, <2>2, <2>6 DEF MintType
    <2> QED  BY <2>4, <2>5, <2>6
  <1>4. ASSUME NEW n \in Online, FreezeOnInactivity(n) \/ AutoCommit(n) \/ CommitInRecovery(n)
        PROVE  MintType'
    <2>1. n \in Members  BY OnlineMembers
    <2>2. \E permitted : Mint(n, permitted, approved[n], round[n], wire)
      BY <1>4 DEF FreezeOnInactivity, AutoCommit, CommitInRecovery, EnterFreezing
    <2>3. wire \in SUBSET CopyType  BY DEF MintType
    <2> QED  BY <1>0, <2>1, <2>2, <2>3, MintTyped
  <1>5. ASSUME NEW n \in Online, NEW w, Apply(n, w) \/ RoundFails(n)  PROVE MintType'
    <2>1. /\ pending' = [pending EXCEPT ![n] = {}] /\ round' = [round EXCEPT ![n] = {}]
          /\ minted' = minted /\ wire' \subseteq wire
      BY <1>5 DEF Apply, RoundFails, network
    <2> QED  BY <2>1 DEF MintType
  <1>6. ASSUME NEW n \in Online, ResendCommit(n)  PROVE MintType'
    <2>1. n \in Members  BY OnlineMembers
    <2>2. PICK c \in OwnCandidates(n) : wire' = wire \cup Sent(n, c)  BY <1>6 DEF ResendCommit
    <2>3. c \in CandType  BY <1>0, <2>1 DEF OwnCandidates
    <2>4. Sent(n, c) \subseteq CopyType  BY <2>3, SentType
    <2>5. UNCHANGED <<round, pending, minted>>  BY <1>6 DEF ResendCommit, buffers, mls
    <2> QED  BY <2>2, <2>4, <2>5 DEF MintType
  <1>7. ASSUME Tick  PROVE MintType'
    <2>1. \A x \in CopyType : [x EXCEPT !.age = @ + 1] \in CopyType  BY DEF CopyType
    <2>2. wire' = {[x EXCEPT !.age = @ + 1] : x \in wire} /\ UNCHANGED <<round, pending, minted>>
      BY <1>7 DEF Tick, buffers, mls
    <2> QED  BY <2>1, <2>2 DEF MintType
  <1>8. ASSUME Decisions \/ (\E o \in outcomes : HearDeadlock(o)) \/ UNCHANGED vars  PROVE MintType'
    BY <1>8 DEF Decisions, Decide, HearDeadlock, vars, network, buffers, mls, MintType
  <1> QED
    BY <1>1, <1>2, <1>3, <1>4, <1>5, <1>6, <1>7, <1>8
       DEF Next, Outcomes, Candidates, Poll

LEMMA PhaseStep ==
  ASSUME MintType, PhaseType, GroupType, [Next]_vars
  PROVE  PhaseType'
  <1>1. ASSUME NEW o \in outcomes, HearChange(o) \/ HearDeadlock(o)  PROVE PhaseType'
    <2>1. o.to \in Members  BY DEF GroupType
    <2>2. timer[o.to] \in Nat \cup {Off}  BY <2>1 DEF PhaseType
    <2>3. CASE HearChange(o)  BY <2>1, <2>2, <2>3 DEF HearChange, PhaseType
    <2>4. CASE HearDeadlock(o)  BY <2>1, <2>2, <2>4 DEF HearDeadlock, PhaseType
    <2> QED  BY <1>1, <2>3, <2>4
  <1>2. ASSUME NEW n \in Members, NEW queue, NEW held, NEW inflight,
               EnterFreezing(n, queue, held, inflight), mode' = mode
        PROVE  PhaseType'
    BY <1>2 DEF EnterFreezing, PhaseType
  <1>3. ASSUME NEW x \in wire, Receive(x)  PROVE PhaseType'
    <2>1. x.to \in Members  BY CopyFields
    <2>2. mode' = mode  BY <1>3 DEF Receive
    <2>3. UNCHANGED <<state, timer>> \/ \E q, h, f : EnterFreezing(x.to, q, h, f)
      BY <1>3 DEF Receive
    <2> QED  BY <1>2, <2>1, <2>2, <2>3 DEF PhaseType
  <1>4. ASSUME NEW n \in Online, FreezeOnInactivity(n)  PROVE PhaseType'
    BY <1>2, <1>4, OnlineMembers DEF FreezeOnInactivity
  <1>5. ASSUME NEW n \in Online, NEW w, Apply(n, w)  PROVE PhaseType'
    BY <1>5 DEF Apply, PhaseType
  <1>6. ASSUME NEW n \in Online, RoundFails(n)  PROVE PhaseType'
    <2>1. PICK next \in {"Working", "Freezing", "Reelection"}, m \in {"Normal", mode[n]} :
            /\ state' = [state EXCEPT ![n] = next]
            /\ timer' = [timer EXCEPT ![n] = IF next = "Freezing" THEN 0 ELSE Off]
            /\ mode' = [mode EXCEPT ![n] = m]
      BY <1>6 DEF RoundFails
    <2>2. n \in Members /\ m \in {"Normal", "Recovery"}  BY OnlineMembers DEF PhaseType
    <2> QED  BY <2>1, <2>2 DEF PhaseType
  <1>7. ASSUME Tick  PROVE PhaseType'
    <2>1. UNCHANGED <<state, mode>>  BY <1>7 DEF Tick
    <2>2. timer' = [n \in Members |-> IF timer[n] \in 0..(Horizon - 1) /\ n \notin left
                                      THEN timer[n] + 1 ELSE timer[n]]
      BY <1>7 DEF Tick
    <2>3. \A n \in Members : timer[n] \in Nat \cup {Off}  BY DEF PhaseType
    <2>4. \A n \in Members : (IF timer[n] \in 0..(Horizon - 1) /\ n \notin left
                              THEN timer[n] + 1 ELSE timer[n]) \in Nat \cup {Off}
      BY <2>3, WindowAssumption
    <2> QED  BY <2>1, <2>2, <2>4 DEF PhaseType
  <1>8. ASSUME \/ Decisions \/ (\E x \in wire : Stash(x))
               \/ \E n \in Online : AutoCommit(n) \/ ResendCommit(n) \/ CommitInRecovery(n)
               \/ UNCHANGED vars
        PROVE  PhaseType'
    BY <1>8 DEF Decisions, Decide, Stash, AutoCommit, ResendCommit, CommitInRecovery, vars, phases,
                PhaseType
  <1> QED
    BY <1>1, <1>3, <1>4, <1>5, <1>6, <1>7, <1>8 DEF Next, Outcomes, Candidates, Poll

LEMMA GroupStep ==
  ASSUME MintType, GroupType, [Next]_vars
  PROVE  GroupType'
  <1> DEFINE OutcomeType == [to : Members, what : Changes \cup {Deadlock}, age : Nat]
             StashType == [epoch : Nat, cand : CandType]
  <1>1. ASSUME NEW what \in Changes \cup {Deadlock}, Decide(what)  PROVE GroupType'
    <2>1. \A n \in Online : [to |-> n, what |-> what, age |-> 0] \in OutcomeType
      BY OnlineMembers
    <2> HIDE DEF OutcomeType
    <2>2. outcomes' \subseteq OutcomeType /\ decided' \subseteq Changes \cup {Deadlock}
      BY <1>1, <2>1 DEF Decide, GroupType, OutcomeType
    <2> QED  BY <1>1, <2>2 DEF Decide, buffers, mls, GroupType, OutcomeType
  <1>2. ASSUME NEW o \in outcomes, HearChange(o)  PROVE GroupType'
    <2>1. o.to \in Members /\ o.what \in Changes  BY <1>2 DEF GroupType, HearChange
    <2>2. Enqueue(approved[o.to], o.what) \in QueueType  BY <2>1, EnqueueType DEF GroupType
    <2>3. /\ approved' = [approved EXCEPT ![o.to] = Enqueue(approved[o.to], o.what)]
          /\ early' = [early EXCEPT ![o.to] = {}] /\ outcomes' \subseteq outcomes
          /\ UNCHANGED <<decided, chain, since, left>>
      BY <1>2 DEF HearChange, mls
    <2> HIDE DEF OutcomeType, StashType
    <2> QED  BY <2>1, <2>2, <2>3 DEF GroupType
  <1>3. ASSUME NEW x \in wire, Stash(x)  PROVE GroupType'
    <2> DEFINE n == x.to
               b == Buffer(n, EarlyNow(n), x.cand)
               t == {[epoch |-> Epoch(n), cand |-> c] : c \in b}
    <2>1. n \in Members /\ x.cand \in CandType  BY CopyFields
    <2>2. b \in SUBSET CandType  BY <2>1, EarlyType, BufferType
    <2>3. Epoch(n) \in Nat  BY <2>1, EpochType
    <2>4. early' \in {early, [early EXCEPT ![n] = t]} /\ UNCHANGED <<decided, outcomes, approved, chain, since, left>>
      BY <1>3 DEF Stash, mls
    <2> HIDE DEF n, b
    <2>5. t \subseteq StashType  BY <2>2, <2>3
    <2> HIDE DEF t, StashType
    <2>6. early' \in [Members -> SUBSET StashType]  BY <2>1, <2>4, <2>5 DEF GroupType, StashType
    <2> QED  BY <2>4, <2>6 DEF GroupType, StashType
  <1>4. ASSUME NEW n \in Online, NEW w \in Selected(n), Apply(n, w)  PROVE GroupType'
    <2>1. n \in Members  BY OnlineMembers
    <2>2. Commit(w) \in CommitType  BY <2>1, SelectedFrom
    <2>3. EmptyQueue \in QueueType  BY DEF EmptyQueue, QueueType
    <2>4. chain[n] \in Seq(CommitType)  BY <2>1 DEF GroupType
    <2>5. Append(chain[n], Commit(w)) \in Seq(CommitType)  BY <2>2, <2>4
    <2>6. /\ chain' = [chain EXCEPT ![n] = Append(chain[n], Commit(w))]
          /\ approved' = [approved EXCEPT ![n] = EmptyQueue]
          /\ left' \subseteq left \cup {n} /\ outcomes' \subseteq outcomes
          /\ UNCHANGED <<decided, early, since>>
      BY <1>4 DEF Apply
    <2> HIDE DEF OutcomeType, StashType
    <2> QED  BY <2>1, <2>3, <2>5, <2>6 DEF GroupType
  <1>5. ASSUME Tick  PROVE GroupType'
    <2>1. \A o \in OutcomeType : [o EXCEPT !.age = @ + 1] \in OutcomeType  OBVIOUS
    <2>2. outcomes' = {[o EXCEPT !.age = @ + 1] : o \in outcomes}
          /\ since' = [c \in Changes |-> IF c \in decided /\ ~Landed(c) THEN since[c] + 1 ELSE since[c]]
          /\ UNCHANGED <<decided, approved, early, chain, left>>
      BY <1>5 DEF Tick, buffers, mls
    <2> HIDE DEF OutcomeType
    <2>3. outcomes' \subseteq OutcomeType  BY <2>1, <2>2 DEF GroupType, OutcomeType
    <2>4. since' \in [Changes -> Nat]  BY <2>2 DEF GroupType
    <2> QED  BY <2>2, <2>3, <2>4 DEF GroupType, OutcomeType
  <1>6. ASSUME \/ \E o \in outcomes : HearDeadlock(o)
               \/ \E x \in wire : Receive(x)
               \/ \E n \in Online : \/ FreezeOnInactivity(n) \/ AutoCommit(n) \/ RoundFails(n)
                                    \/ ResendCommit(n) \/ CommitInRecovery(n)
               \/ UNCHANGED vars
        PROVE  GroupType'
    <2>1. outcomes' \subseteq outcomes /\ UNCHANGED <<decided, approved, early, chain, since, left>>
      BY <1>6 DEF HearDeadlock, Receive, FreezeOnInactivity, AutoCommit, RoundFails, ResendCommit,
                  CommitInRecovery, vars, network, buffers, mls
    <2> QED  BY <2>1 DEF GroupType
  <1> QED
    BY <1>1, <1>2, <1>3, <1>4, <1>5, <1>6 DEF Next, Decisions, Outcomes, Candidates, Poll

\* Every queue, buffer, timer and chain of every member keeps its type, whatever
\* the network does (handle.rs, queues.rs, buffer.rs).
THEOREM CommitRoundTypes == Spec => []TypeOK
  <1>1. TypeOK /\ [Next]_vars => TypeOK'
    <2> SUFFICES ASSUME TypeOK, [Next]_vars  PROVE TypeOK'  OBVIOUS
    <2>1. MintType /\ PhaseType /\ GroupType  BY TypeParts
    <2>2. MintType' /\ PhaseType' /\ GroupType'  BY <2>1, MintStep, PhaseStep, GroupStep
    <2>3. TypeOK' <=> MintType' /\ PhaseType' /\ GroupType'
      BY DEF TypeOK, MintType, PhaseType, GroupType, CommitType, CandType, EntryType, QueueType,
             CopyType
    <2> QED  BY <2>2, <2>3
  <1> QED  BY <1>1, TypeInit, PTL DEF Spec

------------------------------------------------------------------------------
\* What candidates carry

\* The changes the commits of a history carry
CarriedBy(h) == UNION {h[i].batch : i \in DOMAIN h}

\* A candidate carries something, only what was voted, and nothing that the
\* history it is made on carries
Sound(c) ==
  /\ c.batch # {} /\ c.batch \subseteq decided
  /\ c.batch \cap CarriedBy(c.parent) = {}

\* n made c on the history it stands at, from approvals it still holds, and its
\* own removal was not among them
OwnWork(n, c) ==
  /\ c.parent = chain[n] /\ c.batch \subseteq ChangesOf(approved[n])
  /\ Remove(n) \notin c.batch

QueueInv ==
  /\ \A o \in outcomes : o.what \in decided
  /\ \A n \in Members : /\ ChangesOf(approved[n]) \subseteq decided
                        /\ IsFiniteSet(approved[n].entries)

WireInv  == \A x \in wire : Sound(x.cand) /\ x.cand.from # x.to
RoundInv == \A n \in Members : \A c \in round[n] : Sound(c) /\ (c.from = n => OwnWork(n, c))
EarlyInv == \A n \in Members : \A e \in early[n] : Sound(e.cand) /\ e.cand.from # n

CandidateInv == QueueInv /\ WireInv /\ RoundInv /\ EarlyInv

LEMMA ChangeFields ==
  ASSUME NEW c \in Changes
  PROVE  /\ c \in [op : {"Add", "Remove"}, id : Nat \ {0}]
         /\ c = Add(c.id) \/ c = Remove(c.id)
         /\ Actionable(c, Members)
         /\ c # Deadlock
  <1>1. c \in [op : {"Add", "Remove"}, id : Nat \ {0}] /\ Actionable(c, Members)
    BY MembersAssumption
  <1> QED  BY <1>1 DEF Add, Remove, Deadlock

\* A change the history carries cannot be committed on top of it.
LEMMA CarriedIsDone ==
  ASSUME NEW h \in Seq(CommitType), NEW c \in CarriedBy(h)
  PROVE  ~Actionable(c, MembersAfter(h))
  <1>1. PICK i \in DOMAIN h : c \in h[i].batch  BY DEF CarriedBy
  <1>2. \A j \in DOMAIN h : h[j] \in CommitType  OBVIOUS
  <1>3. \A j \in DOMAIN h : h[j].batch \subseteq Changes  BY <1>2 DEF CommitType
  <1>4. \A d \in CarriedBy(h) : d \in Changes  BY <1>3 DEF CarriedBy
  <1>5. MembersAfter(h) = (Members \cup {d.id : d \in {e \in CarriedBy(h) : e.op = "Add"}})
                            \ {d.id : d \in {e \in CarriedBy(h) : e.op = "Remove"}}
    BY DEF MembersAfter, CarriedBy
  <1> HIDE DEF MembersAfter
  <1>6. \A d \in CarriedBy(h) : d.op \in {"Add", "Remove"} /\ Actionable(d, Members)
    BY <1>4, ChangeFields
  <1>7. CASE c.op = "Add"
    <2>1. c.id \notin Members  BY <1>6, <1>7 DEF Actionable
    <2>2. \A d \in CarriedBy(h) : d.op = "Remove" => d.id # c.id  BY <1>6, <2>1 DEF Actionable
    <2>3. c.id \in MembersAfter(h)  BY <1>5, <1>7, <2>2
    <2> QED  BY <1>7, <2>3 DEF Actionable
  <1>8. CASE c.op = "Remove"
    <2>1. c.id \notin MembersAfter(h)  BY <1>5, <1>8
    <2> QED  BY <1>8, <2>1 DEF Actionable
  <1> QED  BY <1>6, <1>7, <1>8

\* A member of the start stays until a commit carries its removal.
LEMMA StaysUntilRemoved ==
  ASSUME NEW h \in Seq(CommitType), NEW n \in Members
  PROVE  n \in MembersAfter(h) <=> Remove(n) \notin CarriedBy(h)
  <1>1. \A j \in DOMAIN h : h[j].batch \subseteq Changes
    <2>1. \A j \in DOMAIN h : h[j] \in CommitType  OBVIOUS
    <2> QED  BY <2>1 DEF CommitType
  <1>2. \A d \in CarriedBy(h) : d \in Changes  BY <1>1 DEF CarriedBy
  <1>3. MembersAfter(h) = (Members \cup {d.id : d \in {e \in CarriedBy(h) : e.op = "Add"}})
                            \ {d.id : d \in {e \in CarriedBy(h) : e.op = "Remove"}}
    BY DEF MembersAfter, CarriedBy
  <1> HIDE DEF MembersAfter
  <1>4. \A d \in CarriedBy(h) : d.op = "Remove" => d = Remove(d.id)
    BY <1>2, ChangeFields DEF Add, Remove
  <1>5. Remove(n).op = "Remove" /\ Remove(n).id = n  BY DEF Remove
  <1> QED  BY <1>3, <1>4, <1>5

LEMMA CarriedAppend ==
  ASSUME NEW h \in Seq(CommitType), NEW c \in CommitType
  PROVE  CarriedBy(Append(h, c)) = CarriedBy(h) \cup c.batch
  <1> DEFINE g == Append(h, c)
  <1>1. /\ DOMAIN h = 1..Len(h) /\ DOMAIN g = 1..(Len(h) + 1) /\ Len(h) \in Nat
        /\ \A i \in 1..Len(h) : g[i] = h[i]
        /\ g[Len(h) + 1] = c
    OBVIOUS
  <1> HIDE DEF g
  <1>2. \A x : (\E i \in DOMAIN g : x \in g[i].batch) <=> ((\E i \in DOMAIN h : x \in h[i].batch) \/ x \in c.batch)
    BY <1>1
  <1> QED  BY <1>2 DEF CarriedBy, g

\* What n builds from its queue is sound and its own work.
LEMMA BuiltIsSound ==
  ASSUME MintType, GroupType, QueueInv, NEW n \in Members,
         Built(n, approved[n]).batch # {}, ~HasRemoval(approved[n], n)
  PROVE  Sound(Built(n, approved[n])) /\ OwnWork(n, Built(n, approved[n]))
  <1> DEFINE c == Built(n, approved[n])
  <1>1. approved[n] \in QueueType /\ chain[n] \in Seq(CommitType)  BY DEF GroupType
  <1>2. /\ c.parent = chain[n]
        /\ c.batch = MintedBatch(approved[n], 0, Group(n), BatchMax)
    BY <1>1, BuiltType
  <1>3. /\ c.batch \subseteq ChangesOf(approved[n])
        /\ \A d \in c.batch : Actionable(d, Group(n))
    BY <1>1, <1>2, MintedTypes
  <1> HIDE DEF c
  <1>4. c.batch \cap CarriedBy(chain[n]) = {}  BY <1>1, <1>3, CarriedIsDone DEF Group
  <1>5. c.batch \subseteq decided  BY <1>3 DEF QueueInv
  <1>6. Remove(n) \notin c.batch  BY <1>3 DEF HasRemoval
  <1> QED  BY <1>2, <1>3, <1>4, <1>5, <1>6 DEF c, Sound, OwnWork

\* What n may hold in its round
Held(n, S) == \A c \in S : Sound(c) /\ (c.from = n => OwnWork(n, c))

LEMMA MintKeepsCandidates ==
  ASSUME MintType, GroupType, CandidateInv, NEW n \in Members, NEW permitted,
         NEW held \in SUBSET CandType, Held(n, held), NEW inflight \in SUBSET wire,
         Mint(n, permitted, approved[n], held, inflight),
         UNCHANGED <<decided, approved, chain>>
  PROVE  WireInv' /\ RoundInv'
  <1> DEFINE b == Built(n, approved[n])
  <1>0. /\ \A c : Sound(c)' <=> Sound(c)
        /\ \A m, c : OwnWork(m, c)' <=> OwnWork(m, c)
    BY DEF Sound, OwnWork
  <1>1. b \in CandType /\ b.from = n
    BY BuiltType DEF GroupType
  <1>2. \/ /\ ~HasRemoval(approved[n], n) /\ b.batch # {}
           /\ round' = [round EXCEPT ![n] = Buffer(n, held, b)]
           /\ wire' = inflight \cup Sent(n, b)
        \/ /\ round' = [round EXCEPT ![n] = held] /\ wire' = inflight
    BY DEF Mint, Built
  <1> HIDE DEF b
  <1>3. round \in [Members -> SUBSET CandType]  BY DEF MintType
  <1>4. ASSUME NEW S, Held(n, S), round' = [round EXCEPT ![n] = S]  PROVE RoundInv'
    BY <1>0, <1>3, <1>4 DEF CandidateInv, RoundInv, Held
  <1>5. CASE /\ ~HasRemoval(approved[n], n) /\ b.batch # {}
             /\ round' = [round EXCEPT ![n] = Buffer(n, held, b)]
             /\ wire' = inflight \cup Sent(n, b)
    <2>1. Sound(b) /\ OwnWork(n, b)  BY <1>5, BuiltIsSound DEF b, CandidateInv
    <2>2. Held(n, Buffer(n, held, b))  BY <1>1, <2>1, BufferType DEF Held
    <2>3. \A x \in Sent(n, b) : x.cand = b /\ x.to # n  BY <1>1, SentType
    <2>4. WireInv'  BY <1>0, <1>1, <1>5, <2>1, <2>3 DEF CandidateInv, WireInv
    <2> QED  BY <1>4, <1>5, <2>2, <2>4
  <1>6. CASE round' = [round EXCEPT ![n] = held] /\ wire' = inflight
    BY <1>0, <1>4, <1>6 DEF CandidateInv, WireInv
  <1> QED  BY <1>2, <1>5, <1>6

LEMMA CandidateInit == Init => CandidateInv
  <1> SUFFICES ASSUME Init  PROVE CandidateInv  OBVIOUS
  <1>1. QueueInv  BY FS_EmptySet DEF Init, QueueInv, EmptyQueue, ChangesOf
  <1> QED  BY <1>1 DEF Init, CandidateInv, WireInv, RoundInv, EarlyInv

LEMMA QueueStep ==
  ASSUME GroupType, QueueInv, [Next]_vars
  PROVE  QueueInv'
  <1>1. ASSUME NEW what, Decide(what)  PROVE QueueInv'
    <2>1. /\ decided' = decided \cup {what} /\ approved' = approved
          /\ outcomes' = outcomes \cup {[to |-> n, what |-> what, age |-> 0] : n \in Online}
      BY <1>1 DEF Decide, buffers
    <2> QED  BY <2>1 DEF QueueInv
  <1>2. ASSUME NEW o \in outcomes, HearChange(o)  PROVE QueueInv'
    <2> DEFINE n == o.to
               q == Enqueue(approved[n], o.what)
    <2>1. n \in Members /\ o.what \in Changes /\ o.what \in decided
      BY <1>2 DEF GroupType, QueueInv, HearChange
    <2>2. /\ outcomes' \subseteq outcomes /\ decided' = decided
          /\ approved' = [approved EXCEPT ![n] = q]
      BY <1>2 DEF HearChange
    <2>3. approved[n] \in QueueType  BY <2>1 DEF GroupType
    <2>4. q.entries = approved[n].entries \cup {[at |-> approved[n].next, change |-> o.what]}
      BY <2>1, <2>3, EnqueueType
    <2> HIDE DEF n, q
    <2>5. ChangesOf(q) \subseteq ChangesOf(approved[n]) \cup {o.what}  BY <2>4 DEF ChangesOf
    <2>6. IsFiniteSet(q.entries)
      <3>1. IsFiniteSet(approved[n].entries)  BY <2>1 DEF QueueInv
      <3> QED  BY ONLY <3>1, <2>4, FS_AddElement
    <2>7. \A m \in Members : approved'[m] = IF m = n THEN q ELSE approved[m]
      BY <2>2 DEF GroupType
    <2>8. \A m \in Members : ChangesOf(approved'[m]) \subseteq decided
      BY <2>1, <2>5, <2>7 DEF QueueInv
    <2>9. \A m \in Members : IsFiniteSet(approved'[m].entries)  BY <2>6, <2>7 DEF QueueInv
    <2> QED  BY <2>2, <2>8, <2>9 DEF QueueInv
  <1>3. ASSUME NEW n \in Online, NEW w, Apply(n, w)  PROVE QueueInv'
    <2>1. /\ outcomes' \subseteq outcomes /\ decided' = decided
          /\ approved' = [approved EXCEPT ![n] = EmptyQueue]
      BY <1>3 DEF Apply
    <2>2. EmptyQueue.entries = {} /\ ChangesOf(EmptyQueue) = {}  BY DEF EmptyQueue, ChangesOf
    <2>3. \A m \in Members : approved'[m] = IF m = n THEN EmptyQueue ELSE approved[m]
      BY <2>1 DEF GroupType
    <2>4. \A m \in Members : ChangesOf(approved'[m]) \subseteq decided
      BY <2>2, <2>3 DEF QueueInv
    <2>5. \A m \in Members : IsFiniteSet(approved'[m].entries)
      BY <2>2, <2>3, FS_EmptySet DEF QueueInv
    <2> QED  BY <2>1, <2>4, <2>5 DEF QueueInv
  <1>4. ASSUME Tick  PROVE QueueInv'
    <2>1. /\ outcomes' = {[o EXCEPT !.age = @ + 1] : o \in outcomes}
          /\ UNCHANGED <<decided, approved>>
      BY <1>4 DEF Tick, buffers
    <2>2. \A o \in outcomes : [o EXCEPT !.age = @ + 1].what = o.what  BY DEF GroupType
    <2> QED  BY <2>1, <2>2 DEF QueueInv
  <1>5. ASSUME outcomes' \subseteq outcomes, UNCHANGED <<decided, approved>>  PROVE QueueInv'
    BY <1>5 DEF QueueInv
  <1>6. ASSUME \/ \E o \in outcomes : HearDeadlock(o)
               \/ \E x \in wire : Stash(x) \/ Receive(x)
               \/ \E n \in Online : \/ FreezeOnInactivity(n) \/ AutoCommit(n) \/ RoundFails(n)
                                    \/ ResendCommit(n) \/ CommitInRecovery(n)
               \/ UNCHANGED vars
        PROVE  QueueInv'
    <2>1. outcomes' \subseteq outcomes /\ UNCHANGED <<decided, approved>>
      BY <1>6 DEF HearDeadlock, Stash, Receive, FreezeOnInactivity, AutoCommit, RoundFails,
                  ResendCommit, CommitInRecovery, vars, network, buffers
    <2> QED  BY <1>5, <2>1
  <1> QED
    BY <1>1, <1>2, <1>3, <1>4, <1>6 DEF Next, Decisions, Outcomes, Candidates, Poll

LEMMA CandidateStep ==
  ASSUME MintType, GroupType, CandidateInv, [Next]_vars
  PROVE  CandidateInv'
  <1> DEFINE Cands == WireInv' /\ RoundInv' /\ EarlyInv'
  <1>0. QueueInv'  BY QueueStep DEF CandidateInv
  <1>a. ASSUME decided \subseteq decided'  PROVE \A c : Sound(c) => Sound(c)'
    BY <1>a DEF Sound
  <1>b. ASSUME UNCHANGED <<approved, chain>>  PROVE \A n, c : OwnWork(n, c) => OwnWork(n, c)'
    BY <1>b DEF OwnWork
  <1>1. ASSUME \/ Decisions \/ UNCHANGED vars
               \/ \E o \in outcomes : HearDeadlock(o)
        PROVE  Cands
    <2>1. decided \subseteq decided' /\ UNCHANGED <<wire, round, early, approved, chain>>
      BY <1>1 DEF Decisions, Decide, HearDeadlock, vars, network, buffers, mls
    <2> QED  BY <1>a, <1>b, <2>1 DEF CandidateInv, WireInv, RoundInv, EarlyInv
  <1>2. ASSUME NEW o \in outcomes, HearChange(o)  PROVE Cands
    <2> DEFINE n == o.to
               q == Enqueue(approved[n], o.what)
    <2>1. n \in Members /\ o.what \in Changes  BY <1>2 DEF GroupType, HearChange
    <2>2. /\ approved' = [approved EXCEPT ![n] = q]
          /\ round' = [round EXCEPT ![n] = @ \cup EarlyNow(n)]
          /\ early' = [early EXCEPT ![n] = {}]
          /\ UNCHANGED <<decided, wire, chain>>
      BY <1>2 DEF HearChange, mls
    <2>3. ChangesOf(approved[n]) \subseteq ChangesOf(q)
      BY <2>1, EnqueueType DEF ChangesOf, GroupType
    <2> HIDE DEF n, q
    <2>4. \A m \in Members : ChangesOf(approved[m]) \subseteq ChangesOf(approved'[m])
      <3>1. \A m \in Members : approved'[m] = IF m = n THEN q ELSE approved[m]
        BY <2>2 DEF GroupType
      <3> QED  BY <2>3, <3>1
    <2>5. \A m \in Members : \A c : OwnWork(m, c) => OwnWork(m, c)'
      BY <2>2, <2>4 DEF OwnWork
    <2>6. \A c \in EarlyNow(n) : Sound(c) /\ c.from # n
      BY <2>1 DEF CandidateInv, EarlyInv, EarlyNow
    <2>7. \A m \in Members : /\ round'[m] = IF m = n THEN round[m] \cup EarlyNow(n) ELSE round[m]
                             /\ early'[m] = IF m = n THEN {} ELSE early[m]
      BY <2>2 DEF MintType, GroupType
    <2>8. RoundInv'  BY <1>a, <2>2, <2>5, <2>6, <2>7 DEF CandidateInv, RoundInv
    <2>9. WireInv' /\ EarlyInv'  BY <1>a, <2>2, <2>7 DEF CandidateInv, WireInv, EarlyInv
    <2> QED  BY <2>8, <2>9
  <1>3. ASSUME NEW x \in wire, Stash(x)  PROVE Cands
    <2> DEFINE n == x.to
               b == Buffer(n, EarlyNow(n), x.cand)
               t == {[epoch |-> Epoch(n), cand |-> c] : c \in b}
    <2>1. n \in Members /\ x.cand \in CandType  BY CopyFields
    <2>2. /\ early' = early \/ early' = [early EXCEPT ![n] = t]
          /\ wire' \subseteq wire /\ UNCHANGED <<decided, round, approved, chain>>
      BY <1>3 DEF Stash, mls
    <2>3. EarlyNow(n) \in SUBSET CandType  BY <2>1, EarlyType
    <2>4. \A c \in EarlyNow(n) : Sound(c) /\ c.from # n
      BY <2>1 DEF CandidateInv, EarlyInv, EarlyNow
    <2>5. Sound(x.cand) /\ x.cand.from # n  BY DEF CandidateInv, WireInv
    <2>6. b \in {EarlyNow(n), EarlyNow(n) \cup {x.cand}}  BY <2>1, <2>3, BufferType
    <2> HIDE DEF n, b
    <2>7. \A e \in t : Sound(e.cand) /\ e.cand.from # n  BY <2>4, <2>5, <2>6
    <2> HIDE DEF t
    <2>8. \A m \in Members : early'[m] = early[m] \/ (m = n /\ early'[m] = t)
      BY <2>2 DEF GroupType
    <2>9. EarlyInv'  BY <1>a, <2>2, <2>7, <2>8 DEF CandidateInv, EarlyInv
    <2> QED  BY <1>a, <1>b, <2>2, <2>9 DEF CandidateInv, WireInv, RoundInv
  <1>4. ASSUME NEW x \in wire, Receive(x)  PROVE Cands
    <2> DEFINE n == x.to
               held == Buffer(n, round[n], x.cand)
    <2>1. n \in Members /\ x.cand \in CandType  BY CopyFields
    <2>2. round[n] \in SUBSET CandType  BY <2>1 DEF MintType
    <2>3. /\ held \in SUBSET CandType /\ held \in {round[n], round[n] \cup {x.cand}}
      BY <2>1, <2>2, BufferType
    <2>4. /\ \/ EnterFreezing(n, approved[n], held, wire \ {x})
             \/ /\ round' = round \/ round' = [round EXCEPT ![n] = held]
                /\ wire' = wire \ {x}
          /\ UNCHANGED <<decided, approved, early, chain>>
      BY <1>4 DEF Receive
    <2>5. Sound(x.cand) /\ x.cand.from # n  BY DEF CandidateInv, WireInv
    <2> HIDE DEF n, held
    <2>6. Held(n, held)  BY <2>1, <2>3, <2>5 DEF CandidateInv, RoundInv, Held
    <2>7. EarlyInv'  BY <1>a, <2>4 DEF CandidateInv, EarlyInv
    <2>8. CASE EnterFreezing(n, approved[n], held, wire \ {x})
      <3>1. Mint(n, IsSteward(List, n), approved[n], held, wire \ {x})
        BY <2>8 DEF EnterFreezing
      <3>2. wire \ {x} \in SUBSET wire  OBVIOUS
      <3> QED  BY <2>1, <2>3, <2>4, <2>6, <2>7, <3>1, <3>2, MintKeepsCandidates
    <2>9. CASE (round' = round \/ round' = [round EXCEPT ![n] = held]) /\ wire' = wire \ {x}
      <3>1. \A m \in Members : round'[m] = round[m] \/ (m = n /\ round'[m] = held)
        BY <2>9 DEF MintType
      <3>2. RoundInv'  BY <1>a, <1>b, <2>4, <2>6, <3>1 DEF CandidateInv, RoundInv, Held
      <3> QED  BY <1>a, <2>4, <2>7, <2>9, <3>2 DEF CandidateInv, WireInv
    <2> QED  BY <2>4, <2>8, <2>9
  <1>5. ASSUME NEW n \in Online, FreezeOnInactivity(n) \/ AutoCommit(n) \/ CommitInRecovery(n)
        PROVE  Cands
    <2>1. n \in Members  BY OnlineMembers
    <2>2. /\ \E permitted : Mint(n, permitted, approved[n], round[n], wire)
          /\ UNCHANGED <<decided, approved, early, chain>>
      BY <1>5 DEF FreezeOnInactivity, AutoCommit, CommitInRecovery, EnterFreezing
    <2>3. round[n] \in SUBSET CandType /\ wire \in SUBSET wire  BY <2>1 DEF MintType
    <2>4. Held(n, round[n])  BY <2>1 DEF CandidateInv, RoundInv, Held
    <2>5. WireInv' /\ RoundInv'  BY <2>1, <2>2, <2>3, <2>4, MintKeepsCandidates
    <2> QED  BY <1>a, <2>2, <2>5 DEF CandidateInv, EarlyInv
  <1>6. ASSUME NEW n \in Online, NEW w, Apply(n, w) \/ RoundFails(n)  PROVE Cands
    <2>1. n \in Members  BY OnlineMembers
    <2>2. /\ round' = [round EXCEPT ![n] = {}] /\ wire' \subseteq wire
          /\ UNCHANGED <<decided, early>>
      BY <1>6 DEF Apply, RoundFails, network
    <2>3. \/ UNCHANGED <<approved, chain>>
          \/ \E q, h : approved' = [approved EXCEPT ![n] = q] /\ chain' = [chain EXCEPT ![n] = h]
      BY <1>6 DEF Apply, RoundFails
    <2>4. \A m \in Members : m # n => approved'[m] = approved[m] /\ chain'[m] = chain[m]
      BY <2>3 DEF GroupType
    <2>5. \A m \in Members : m # n => \A c : OwnWork(m, c) => OwnWork(m, c)'
      BY <2>4 DEF OwnWork
    <2>6. \A m \in Members : round'[m] = IF m = n THEN {} ELSE round[m]
      BY <2>2 DEF MintType
    <2>7. RoundInv'  BY <1>a, <2>2, <2>5, <2>6 DEF CandidateInv, RoundInv
    <2> QED  BY <1>a, <2>2, <2>7 DEF CandidateInv, WireInv, EarlyInv
  <1>7. ASSUME NEW n \in Online, ResendCommit(n)  PROVE Cands
    <2>1. n \in Members  BY OnlineMembers
    <2>2. PICK c \in OwnCandidates(n) : wire' = wire \cup Sent(n, c)  BY <1>7 DEF ResendCommit
    <2>3. UNCHANGED <<decided, round, early, approved, chain>>
      BY <1>7 DEF ResendCommit, buffers, mls
    <2>4. c \in round[n] /\ c.from = n  BY DEF OwnCandidates
    <2>5. c \in CandType /\ Sound(c)  BY <2>1, <2>4 DEF MintType, CandidateInv, RoundInv
    <2>6. \A x \in Sent(n, c) : x.cand = c /\ x.to # n  BY <2>5, SentType
    <2>7. WireInv'  BY <1>a, <2>2, <2>3, <2>4, <2>5, <2>6 DEF CandidateInv, WireInv
    <2> QED  BY <1>a, <1>b, <2>3, <2>7 DEF CandidateInv, RoundInv, EarlyInv
  <1>8. ASSUME Tick  PROVE Cands
    <2>1. /\ wire' = {[x EXCEPT !.age = @ + 1] : x \in wire}
          /\ UNCHANGED <<decided, round, early, approved, chain>>
      BY <1>8 DEF Tick, buffers, mls
    <2>2. \A x \in wire : /\ [x EXCEPT !.age = @ + 1].cand = x.cand
                          /\ [x EXCEPT !.age = @ + 1].to = x.to
      BY DEF MintType, CopyType
    <2>3. ASSUME NEW y \in wire'  PROVE Sound(y.cand)' /\ y.cand.from # y.to
      <3>1. PICK x \in wire : y = [x EXCEPT !.age = @ + 1]  BY <2>1
      <3>2. y.cand = x.cand /\ y.to = x.to  BY <2>2, <3>1
      <3>3. Sound(x.cand) /\ x.cand.from # x.to  BY DEF CandidateInv, WireInv
      <3> QED  BY <1>a, <2>1, <3>2, <3>3
    <2>4. WireInv'  BY <2>3 DEF WireInv
    <2> QED  BY <1>a, <1>b, <2>1, <2>4 DEF CandidateInv, RoundInv, EarlyInv
  <1>9. Cands
    BY <1>1, <1>2, <1>3, <1>4, <1>5, <1>6, <1>7, <1>8 DEF Next, Outcomes, Candidates, Poll
  <1> QED  BY <1>0, <1>9 DEF CandidateInv

\* What n merges is new to it and was voted.
LEMMA AppliedIsSound ==
  ASSUME MintType, GroupType, CandidateInv, NEW n \in Members, NEW w \in Selected(n)
  PROVE  /\ w.batch # {} /\ w.batch \subseteq decided
         /\ w.batch \cap CarriedBy(chain[n]) = {}
         /\ w.from = n => w.batch \subseteq ChangesOf(approved[n]) /\ Remove(n) \notin w.batch
                          /\ OwnCandidates(n) # {}
  <1>1. PICK c \in round[n] : /\ w.from = c.from /\ w.batch = c.batch
                              /\ w.from = n \/ Stages(n, c)
    BY SelectedFrom
  <1>2. Sound(c) /\ (c.from = n => OwnWork(n, c))  BY DEF CandidateInv, RoundInv
  <1>3. c.parent = chain[n]  BY <1>1, <1>2 DEF OwnWork, Stages
  <1>4. w.from = n => c \in OwnCandidates(n)  BY <1>1 DEF OwnCandidates
  <1> QED  BY <1>1, <1>2, <1>3, <1>4 DEF Sound, OwnWork

------------------------------------------------------------------------------
\* Leaving

\* Where a candidate may carry less than the queue, nobody still holds one of
\* its own when its removal is approved.
KnowsOfRemoval ==
  \A n \in Online : mode[n] = "Recovery" \/ AllowSubset =>
                      (HasRemoval(approved[n], n) => OwnCandidates(n) = {})

\* A candidate of n that carries every approval cannot be older than the
\* approval of n's removal: it would be one change short.
LEMMA FullCandidateKnows ==
  ASSUME NEW queue \in QueueType, IsFiniteSet(queue.entries), NEW n, NEW batch,
         batch \subseteq ChangesOf(queue), Remove(n) \notin batch,
         Cardinality(batch) = Cardinality(queue.entries)
  PROVE  ~HasRemoval(queue, n)
  <1> SUFFICES ASSUME HasRemoval(queue, n)  PROVE FALSE  OBVIOUS
  <1>1. PICK e \in queue.entries : e.change = Remove(n)  BY DEF HasRemoval, ChangesOf
  <1> DEFINE rest == queue.entries \ {e}
             covered == {f.change : f \in rest}
  <1>2. IsFiniteSet(rest) /\ Cardinality(rest) = Cardinality(queue.entries) - 1
    BY FS_RemoveElement
  <1>3. IsFiniteSet(covered) /\ Cardinality(covered) <= Cardinality(rest)
    <2> HIDE DEF rest
    <2> DEFINE F == [f \in rest |-> f.change]
    <2>1. F \in [rest -> covered]  OBVIOUS
    <2>2. \A c \in covered : \E f \in rest : F[f] = c  OBVIOUS
    <2>3. F \in Surjection(rest, covered)  BY <2>1, <2>2 DEF Surjection
    <2> HIDE DEF F, covered
    <2> QED  BY <1>2, <2>3, FS_Surjection
  <1>4. batch \subseteq covered  BY <1>1 DEF ChangesOf
  <1> HIDE DEF rest, covered
  <1>5. IsFiniteSet(batch) /\ Cardinality(batch) <= Cardinality(covered)
    BY <1>3, <1>4, FS_Subset
  <1>6. Cardinality(queue.entries) \in Nat /\ Cardinality(batch) \in Nat /\ Cardinality(covered) \in Nat
        /\ Cardinality(rest) \in Nat
    BY <1>2, <1>3, <1>5, FS_CardinalityType
  <1> QED  BY <1>2, <1>3, <1>5, <1>6

\* leave_or_update is right about both kinds of commit.
LEMMA EjectsTheRemoved ==
  ASSUME MintType, GroupType, CandidateInv, KnowsOfRemoval, NEW n \in Online, NEW w \in Selected(n)
  PROVE  Ejects(n, w) <=> Remove(n) \in w.batch
  <1>1. n \in Members  BY OnlineMembers
  <1>2. CASE w.from # n  BY <1>2 DEF Ejects
  <1>3. CASE w.from = n
    <2>1. /\ w.batch \subseteq ChangesOf(approved[n]) /\ Remove(n) \notin w.batch
          /\ OwnCandidates(n) # {}
      BY <1>1, <1>3, AppliedIsSound
    <2>2. ~HasRemoval(approved[n], n)
      <3>1. CASE mode[n] = "Recovery" \/ AllowSubset  BY <2>1, <3>1 DEF KnowsOfRemoval
      <3>2. CASE ~(mode[n] = "Recovery" \/ AllowSubset)
        <4>1. CountMatches(w, CountOf(approved[n]), mode[n] = "Recovery" \/ AllowSubset)
          BY <1>1, SelectedFrom
        <4>2. Cardinality(w.batch) = Cardinality(approved[n].entries)
          BY <3>2, <4>1 DEF CountMatches, CountOf
        <4>3. approved[n] \in QueueType /\ IsFiniteSet(approved[n].entries)
          BY <1>1 DEF GroupType, CandidateInv, QueueInv
        <4> QED  BY <2>1, <4>2, <4>3, FullCandidateKnows
      <3> QED  BY <3>1, <3>2
    <2> QED  BY <1>3, <2>1, <2>2 DEF Ejects
  <1> QED  BY <1>2, <1>3

LEMMA LeaveStep ==
  ASSUME MintType, GroupType, CandidateInv, KnowsOfRemoval, OnlyEjectedLeave, [Next]_vars
  PROVE  OnlyEjectedLeave'
  <1>1. ASSUME NEW n \in Online, NEW w \in Selected(n), Apply(n, w)  PROVE OnlyEjectedLeave'
    <2>1. n \in Members /\ n \notin left  BY DEF Online
    <2>2. chain[n] \in Seq(CommitType) /\ Commit(w) \in CommitType /\ Commit(w).batch = w.batch
      BY <2>1, SelectedFrom DEF GroupType
    <2> DEFINE h == Append(chain[n], Commit(w))
    <2>3. h \in Seq(CommitType) /\ CarriedBy(h) = CarriedBy(chain[n]) \cup w.batch
      BY <2>2, CarriedAppend
    <2>4. chain' = [chain EXCEPT ![n] = h] /\ left' = IF Ejects(n, w) THEN left \cup {n} ELSE left
      BY <1>1 DEF Apply
    <2> HIDE DEF h
    <2>5. \A m \in Members : chain'[m] = IF m = n THEN h ELSE chain[m]
      BY <2>4 DEF GroupType
    <2>6. n \in MembersAfter(chain[n])  BY <2>1 DEF OnlyEjectedLeave, Group
    <2>7. n \in MembersAfter(h) <=> Remove(n) \notin w.batch
      BY <2>1, <2>2, <2>3, <2>6, StaysUntilRemoved
    <2>8. n \in left' <=> n \notin MembersAfter(h)
      BY <2>1, <2>4, <2>7, EjectsTheRemoved
    <2>9. ASSUME NEW m \in Members  PROVE m \in left' <=> m \notin MembersAfter(chain'[m])
      <3>1. CASE m = n  BY <2>5, <2>8, <3>1
      <3>2. CASE m # n
        <4>1. m \in left' <=> m \in left  BY <2>4, <3>2
        <4>2. m \in left <=> m \notin MembersAfter(chain[m])  BY DEF OnlyEjectedLeave, Group
        <4>3. chain'[m] = chain[m]  BY <2>5, <3>2
        <4> QED  BY <4>1, <4>2, <4>3
      <3> QED  BY <3>1, <3>2
    <2> QED  BY <2>9 DEF OnlyEjectedLeave, Group, MembersAfter
  <1>2. ASSUME \/ Decisions \/ Outcomes \/ Candidates \/ Tick
               \/ \E n \in Online : \/ FreezeOnInactivity(n) \/ AutoCommit(n) \/ RoundFails(n)
                                    \/ ResendCommit(n) \/ CommitInRecovery(n)
               \/ UNCHANGED vars
        PROVE  OnlyEjectedLeave'
    <2>1. UNCHANGED <<chain, left>>
      BY <1>2 DEF Decisions, Outcomes, Candidates, Decide, HearChange, HearDeadlock, Stash, Receive,
                  FreezeOnInactivity, AutoCommit, RoundFails, ResendCommit, CommitInRecovery, Tick,
                  vars, mls
    <2> QED  BY <2>1 DEF OnlyEjectedLeave, Group, MembersAfter
  <1> QED  BY <1>1, <1>2 DEF Next, Poll

\* Every candidate, wherever it is, carries only what was voted and nothing the
\* history it was made on already carries.
LEMMA CandidatesSound == Spec => [](TypeOK /\ CandidateInv)
  <1>1. Init => TypeOK /\ CandidateInv  BY TypeInit, CandidateInit
  <1>2. TypeOK /\ CandidateInv /\ [Next]_vars => CandidateInv'
    BY TypeParts, CandidateStep
  <1> QED  BY <1>1, <1>2, CommitRoundTypes, PTL DEF Spec

\* A member tears its conversation down exactly when the commit it merged took
\* it out of the group, for every network and every timing in which no member
\* still holds a subset candidate of its own when its removal is approved
\* (apply.rs leave_or_update, validate.rs action count).
THEOREM LeavingIsRemoval == Spec /\ []KnowsOfRemoval => []OnlyEjectedLeave
  <1>1. Init => OnlyEjectedLeave
    <2> SUFFICES ASSUME Init, NEW n \in Members  PROVE n \in left <=> n \notin Group(n)
      BY DEF OnlyEjectedLeave
    <2>1. chain[n] = <<>> /\ left = {}  BY DEF Init
    <2>2. chain[n] \in Seq(CommitType) /\ CarriedBy(chain[n]) = {}  BY <2>1 DEF CarriedBy
    <2> QED  BY <2>1, <2>2, StaysUntilRemoved DEF Group
  <1>2. TypeOK /\ CandidateInv /\ KnowsOfRemoval /\ OnlyEjectedLeave /\ [Next]_vars => OnlyEjectedLeave'
    BY TypeParts, LeaveStep
  <1> QED  BY <1>1, <1>2, CandidatesSound, PTL DEF Spec

\* Without recovery every member stays in normal mode.
NormalInv ==
  /\ \A n \in Members : mode[n] = "Normal"
  /\ \A o \in outcomes : o.what \in Changes

LEMMA NormalStep ==
  ASSUME ~MayRecover, GroupType, PhaseType, NormalInv, [Next]_vars
  PROVE  NormalInv'
  <1>1. ASSUME NEW what, Decide(what), what \in Changes  PROVE NormalInv'
    <2>1. /\ mode' = mode
          /\ outcomes' = outcomes \cup {[to |-> n, what |-> what, age |-> 0] : n \in Online}
      BY <1>1 DEF Decide, phases
    <2> QED  BY <1>1, <2>1 DEF NormalInv
  <1>2. ASSUME NEW o \in outcomes, HearDeadlock(o)  PROVE FALSE
    <2>1. o.what \in Changes /\ o.what = Deadlock  BY <1>2 DEF NormalInv, HearDeadlock
    <2> QED  BY <2>1, ChangeFields
  <1>3. ASSUME NEW n \in Online, NEW w, Apply(n, w) \/ RoundFails(n)  PROVE NormalInv'
    <2>1. PICK m \in {"Normal", mode[n]} : mode' = [mode EXCEPT ![n] = m] /\ outcomes' \subseteq outcomes
      BY <1>3 DEF Apply, RoundFails, network
    <2>2. m = "Normal"  BY OnlineMembers DEF NormalInv
    <2> QED  BY <2>1, <2>2 DEF NormalInv, PhaseType
  <1>4. ASSUME Tick  PROVE NormalInv'
    <2>1. mode' = mode /\ outcomes' = {[o EXCEPT !.age = @ + 1] : o \in outcomes}
      BY <1>4 DEF Tick
    <2>2. \A o \in outcomes : [o EXCEPT !.age = @ + 1].what = o.what  BY DEF GroupType
    <2> QED  BY <2>1, <2>2 DEF NormalInv
  <1>5. ASSUME \/ \E o \in outcomes : HearChange(o)
               \/ \E x \in wire : Stash(x) \/ Receive(x)
               \/ \E n \in Online : \/ FreezeOnInactivity(n) \/ AutoCommit(n)
                                    \/ ResendCommit(n) \/ CommitInRecovery(n)
               \/ UNCHANGED vars
        PROVE  NormalInv'
    <2>1. mode' = mode /\ outcomes' \subseteq outcomes
      BY <1>5 DEF HearChange, Stash, Receive, FreezeOnInactivity, AutoCommit, ResendCommit,
                  CommitInRecovery, vars, network, phases
    <2> QED  BY <2>1 DEF NormalInv
  <1> QED
    BY <1>1, <1>2, <1>3, <1>4, <1>5 DEF Next, Decisions, Outcomes, Candidates, Poll

------------------------------------------------------------------------------
\* What one member merges is a history of voted commits

\* The history of member m alone, in the terms of GroupHistory
Own(m) == INSTANCE GroupHistory WITH
  Members <- {m}, voted <- decided \ {Deadlock}, log <- chain[m],
  view <- [n \in {m} |-> chain[m]]

\* Whatever the network, the timing and the configuration, what a member merges
\* implements a history of voted commits: it grows one commit at a time, every
\* commit carries something, only what was voted, and nothing the member already
\* merged (queues.rs, commit_round/validate.rs, handle.rs build_local_candidate).
THEOREM EachMemberFollowsVotes ==
  ASSUME NEW m \in Members
  PROVE  Spec => Own(m)!Spec
  <1>1. Init => Own(m)!Init
    BY DEF Init, Own!Init
  <1>2. TypeOK /\ CandidateInv /\ [Next]_vars => [Own(m)!Next]_(Own(m)!vars)
    <2> SUFFICES ASSUME TypeOK, CandidateInv, [Next]_vars
                 PROVE  [Own(m)!Next]_(Own(m)!vars)
      OBVIOUS
    <2>0. MintType /\ GroupType  BY TypeParts
    <2>1. ASSUME NEW what \in Changes, Decide(what)  PROVE Own(m)!Vote(what)
      <3>1. what \notin decided /\ decided' = decided \cup {what} /\ chain' = chain
        BY <2>1 DEF Decide, mls
      <3>2. what # Deadlock  BY ChangeFields
      <3> QED  BY <3>1, <3>2 DEF Own!Vote
    <2>2. ASSUME NEW w \in Selected(m), Apply(m, w)  PROVE Own(m)!Extend(m)
      <3> DEFINE h == Append(chain[m], Commit(w))
      <3>1. chain[m] \in Seq(CommitType) /\ Commit(w) \in CommitType /\ Commit(w).batch = w.batch
        BY <2>0, SelectedFrom DEF GroupType
      <3>2. /\ chain'[m] = h /\ decided' = decided
        BY <2>0, <2>2 DEF Apply, GroupType
      <3>3. /\ Len(h) = Len(chain[m]) + 1 /\ SubSeq(h, 1, Len(chain[m])) = chain[m]
            /\ h[Len(h)] = Commit(w)
        BY <3>1
      <3>4. /\ w.batch # {} /\ w.batch \subseteq decided /\ w.batch \cap CarriedBy(chain[m]) = {}
        BY <2>0, AppliedIsSound
      <3>5. Deadlock \notin w.batch  BY <3>1, ChangeFields DEF CommitType
      <3> HIDE DEF h
      <3>6. h[Len(h)].batch = w.batch  BY <3>1, <3>3
      <3>7. w.batch \subseteq (decided \ {Deadlock}) \ Own(m)!Carried(chain[m])
        BY <3>4, <3>5 DEF Own!Carried, CarriedBy
      <3>8. /\ [n \in {m} |-> chain[m]]' = [[n \in {m} |-> chain[m]] EXCEPT ![m] = chain'[m]]
            /\ [n \in {m} |-> chain[m]][m] = chain[m]
        OBVIOUS
      <3> QED  BY <3>2, <3>3, <3>4, <3>6, <3>7, <3>8 DEF Own!Extend
    <2>3. ASSUME UNCHANGED chain[m], decided' \ {Deadlock} = decided \ {Deadlock}
          PROVE  UNCHANGED Own(m)!vars
      BY <2>3 DEF Own!vars
    <2>4. ASSUME Decide(Deadlock)  PROVE UNCHANGED Own(m)!vars
      <3>1. decided' = decided \cup {Deadlock} /\ chain' = chain  BY <2>4 DEF Decide, mls
      <3> QED  BY <2>3, <3>1
    <2>5. ASSUME NEW n \in Online, n # m, NEW w, Apply(n, w)  PROVE UNCHANGED Own(m)!vars
      <3>1. \E g : chain' = [chain EXCEPT ![n] = g] /\ decided' = decided  BY <2>5 DEF Apply
      <3>2. chain'[m] = chain[m]  BY <2>0, <2>5, <3>1 DEF GroupType
      <3> QED  BY <2>3, <3>1, <3>2
    <2>6. ASSUME \/ Outcomes \/ Candidates \/ Tick
                 \/ \E n \in Online : \/ FreezeOnInactivity(n) \/ AutoCommit(n) \/ RoundFails(n)
                                      \/ ResendCommit(n) \/ CommitInRecovery(n)
                 \/ UNCHANGED vars
          PROVE  UNCHANGED Own(m)!vars
      <3>1. UNCHANGED <<chain, decided>>
        BY <2>6 DEF Outcomes, Candidates, HearChange, HearDeadlock, Stash, Receive,
                    FreezeOnInactivity, AutoCommit, RoundFails, ResendCommit, CommitInRecovery, Tick,
                    vars, network, mls
      <3> QED  BY <2>3, <3>1
    <2>7. \/ \E what \in Changes : Own(m)!Vote(what)
          \/ Own(m)!Extend(m)
          \/ UNCHANGED Own(m)!vars
      BY <2>1, <2>2, <2>4, <2>5, <2>6 DEF Next, Decisions, Poll
    <2> QED  BY <2>7 DEF Own!Next
  <1> QED  BY <1>1, <1>2, CandidatesSound, PTL DEF Spec, Own!Spec

------------------------------------------------------------------------------
\* Selection depends on the view alone

\* Who was taken out of the group left.
RemovedLeft == \A n \in Members : n \notin Group(n) => n \in left

\* Outside recovery only stewards hold a candidate of their own.
StewardsOwn ==
  \A n \in Members : mode[n] = "Normal" /\ OwnCandidates(n) # {} => IsSteward(List, n)

LEMMA RemovedStep ==
  ASSUME MintType, GroupType, CandidateInv, RemovedLeft, [Next]_vars
  PROVE  RemovedLeft'
  <1>1. ASSUME NEW n \in Online, NEW w \in Selected(n), Apply(n, w)  PROVE RemovedLeft'
    <2>1. n \in Members /\ n \notin left  BY DEF Online
    <2>2. chain[n] \in Seq(CommitType) /\ Commit(w) \in CommitType /\ Commit(w).batch = w.batch
      BY <2>1, SelectedFrom DEF GroupType
    <2> DEFINE h == Append(chain[n], Commit(w))
    <2>3. h \in Seq(CommitType) /\ CarriedBy(h) = CarriedBy(chain[n]) \cup w.batch
      BY <2>2, CarriedAppend
    <2>4. chain' = [chain EXCEPT ![n] = h] /\ left' = IF Ejects(n, w) THEN left \cup {n} ELSE left
      BY <1>1 DEF Apply
    <2> HIDE DEF h
    <2>5. \A m \in Members : chain'[m] = IF m = n THEN h ELSE chain[m]
      BY <2>4 DEF GroupType
    <2>6. n \in MembersAfter(chain[n])  BY <2>1 DEF RemovedLeft, Group
    <2>7. n \in MembersAfter(h) <=> Remove(n) \notin w.batch
      BY <2>1, <2>2, <2>3, <2>6, StaysUntilRemoved
    <2>8. Remove(n) \in w.batch => Ejects(n, w)  BY <2>1, AppliedIsSound DEF Ejects
    <2>9. ASSUME NEW m \in Members, m \notin MembersAfter(chain'[m])  PROVE m \in left'
      <3>1. CASE m = n  BY <2>4, <2>5, <2>7, <2>8, <2>9, <3>1
      <3>2. CASE m # n  BY <2>4, <2>5, <2>9, <3>2 DEF RemovedLeft, Group
      <3> QED  BY <3>1, <3>2
    <2> QED  BY <2>9 DEF RemovedLeft, Group, MembersAfter
  <1>2. ASSUME \/ Decisions \/ Outcomes \/ Candidates \/ Tick
               \/ \E n \in Online : \/ FreezeOnInactivity(n) \/ AutoCommit(n) \/ RoundFails(n)
                                    \/ ResendCommit(n) \/ CommitInRecovery(n)
               \/ UNCHANGED vars
        PROVE  RemovedLeft'
    <2>1. UNCHANGED <<chain, left>>
      BY <1>2 DEF Decisions, Outcomes, Candidates, Decide, HearChange, HearDeadlock, Stash, Receive,
                  FreezeOnInactivity, AutoCommit, RoundFails, ResendCommit, CommitInRecovery, Tick,
                  vars, mls
    <2> QED  BY <2>1 DEF RemovedLeft, Group, MembersAfter
  <1> QED  BY <1>1, <1>2 DEF Next, Poll

\* A mint onto what n holds and foreign candidates
LEMMA MintOwns ==
  ASSUME MintType, GroupType, StewardsOwn, NEW n \in Members, NEW permitted,
         NEW held, \A c \in held : c \in round[n] \/ c.from # n,
         NEW inflight, Mint(n, permitted, approved[n], held, inflight), mode' = mode,
         permitted => mode[n] # "Normal" \/ IsSteward(List, n)
  PROVE  StewardsOwn'
  <1> DEFINE b == Built(n, approved[n])
  <1>1. \/ permitted /\ round' = [round EXCEPT ![n] = Buffer(n, held, b)]
        \/ round' = [round EXCEPT ![n] = held]
    BY MintAdds
  <1>2. Buffer(n, held, b) \in {held, held \cup {b}}  BY DEF Buffer
  <1> HIDE DEF b
  <1>3. \A m \in Members : m # n => round'[m] = round[m]  BY <1>1 DEF MintType
  <1>4. \/ round'[n] = held
        \/ permitted
    BY <1>1 DEF MintType
  <1>5. ASSUME NEW m \in Members, mode'[m] = "Normal", OwnCandidates(m)' # {}
        PROVE  IsSteward(List, m)
    <2>1. CASE m # n  BY <1>3, <1>5, <2>1 DEF OwnCandidates, StewardsOwn
    <2>2. CASE m = n /\ permitted  BY <1>5, <2>2
    <2>3. CASE m = n /\ round'[n] = held
      <3>1. PICK c \in held : c.from = n  BY <1>5, <2>3 DEF OwnCandidates
      <3>2. OwnCandidates(n) # {}  BY <3>1 DEF OwnCandidates
      <3> QED  BY <1>5, <2>3, <3>2 DEF StewardsOwn
    <2> QED  BY <1>4, <2>1, <2>2, <2>3
  <1> QED  BY <1>5 DEF StewardsOwn, IsSteward, List

LEMMA StewardsStep ==
  ASSUME MintType, PhaseType, GroupType, CandidateInv, StewardsOwn, [Next]_vars
  PROVE  StewardsOwn'
  <1>0. ASSUME UNCHANGED <<round, mode>>  PROVE StewardsOwn'
    BY <1>0 DEF StewardsOwn, OwnCandidates, IsSteward, List
  <1>1. ASSUME NEW o \in outcomes, HearChange(o)  PROVE StewardsOwn'
    <2> DEFINE n == o.to
    <2>1. n \in Members  BY DEF GroupType
    <2>2. mode' = mode /\ round' = [round EXCEPT ![n] = @ \cup EarlyNow(n)]
      BY <1>1 DEF HearChange
    <2> HIDE DEF n
    <2>3. \A c \in EarlyNow(n) : c.from # n  BY <2>1 DEF CandidateInv, EarlyInv, EarlyNow
    <2>4. \A m \in Members : round'[m] = IF m = n THEN round[m] \cup EarlyNow(n) ELSE round[m]
      BY <2>2 DEF MintType
    <2>5. \A m \in Members : OwnCandidates(m)' = OwnCandidates(m)
      BY <2>3, <2>4 DEF OwnCandidates
    <2> QED  BY <2>2, <2>5 DEF StewardsOwn, IsSteward, List
  <1>2. ASSUME NEW o \in outcomes, HearDeadlock(o)  PROVE StewardsOwn'
    <2>1. round' = round /\ mode' = [mode EXCEPT ![o.to] = "Recovery"]
      BY <1>2 DEF HearDeadlock, buffers
    <2>2. \A m \in Members : mode'[m] = "Normal" => mode[m] = "Normal"  BY <2>1 DEF PhaseType
    <2> QED  BY <2>1, <2>2 DEF StewardsOwn, OwnCandidates, IsSteward, List
  <1>3. ASSUME NEW x \in wire, Receive(x)  PROVE StewardsOwn'
    <2> DEFINE n == x.to
               held == Buffer(n, round[n], x.cand)
    <2>1. n \in Members /\ x.cand.from # n  BY CopyFields DEF CandidateInv, WireInv
    <2>2. \A c \in held : c \in round[n] \/ c.from # n  BY <2>1 DEF Buffer
    <2>3. /\ mode' = mode
          /\ \/ Mint(n, IsSteward(List, n), approved[n], held, wire \ {x})
             \/ round' = round \/ round' = [round EXCEPT ![n] = held]
      BY <1>3 DEF Receive, EnterFreezing
    <2> HIDE DEF n, held
    <2>4. CASE Mint(n, IsSteward(List, n), approved[n], held, wire \ {x})
      BY <2>1, <2>2, <2>3, <2>4, MintOwns
    <2>5. CASE round' = round \/ round' = [round EXCEPT ![n] = held]
      <3>1. \A m \in Members : \A c \in round'[m] : c \in round[m] \/ c.from # m
        BY <2>2, <2>5 DEF MintType
      <3>2. \A m \in Members : OwnCandidates(m)' # {} => OwnCandidates(m) # {}
        BY <3>1 DEF OwnCandidates
      <3> QED  BY <2>3, <3>2 DEF StewardsOwn, IsSteward, List
    <2> QED  BY <2>3, <2>4, <2>5
  <1>4. ASSUME NEW n \in Online, FreezeOnInactivity(n) \/ AutoCommit(n) \/ CommitInRecovery(n)
        PROVE  StewardsOwn'
    <2>1. n \in Members  BY OnlineMembers
    <2>2. \A c \in round[n] : c \in round[n] \/ c.from # n  OBVIOUS
    <2>3. CASE FreezeOnInactivity(n)
      <3>1. Mint(n, IsSteward(List, n), approved[n], round[n], wire) /\ mode' = mode
        BY <2>3 DEF FreezeOnInactivity, EnterFreezing
      <3> QED  BY <2>1, <2>2, <3>1, MintOwns
    <2>4. CASE AutoCommit(n)
      <3>1. /\ Mint(n, TRUE, approved[n], round[n], wire) /\ mode' = mode
            /\ mode[n] # "Normal"
        BY <2>4 DEF AutoCommit, AutoCommitDue, phases
      <3> QED  BY <2>1, <2>2, <3>1, MintOwns
    <2>5. CASE CommitInRecovery(n)
      <3>1. /\ Mint(n, TRUE, approved[n], round[n], wire) /\ mode' = mode
            /\ mode[n] # "Normal"
        BY <2>5 DEF CommitInRecovery, phases
      <3> QED  BY <2>1, <2>2, <3>1, MintOwns
    <2> QED  BY <1>4, <2>3, <2>4, <2>5
  <1>5. ASSUME NEW n \in Online, NEW w, Apply(n, w) \/ RoundFails(n)  PROVE StewardsOwn'
    <2>1. /\ round' = [round EXCEPT ![n] = {}]
          /\ \E md : mode' = [mode EXCEPT ![n] = md]
      BY <1>5 DEF Apply, RoundFails
    <2>2. \A m \in Members : round'[m] = IF m = n THEN {} ELSE round[m]  BY <2>1 DEF MintType
    <2>3. \A m \in Members : m # n => mode'[m] = mode[m]  BY <2>1 DEF PhaseType
    <2>4. \A m \in Members : OwnCandidates(m)' # {} => m # n /\ OwnCandidates(m) # {}
      BY <2>2 DEF OwnCandidates
    <2> QED  BY <2>3, <2>4 DEF StewardsOwn, IsSteward, List
  <1>6. ASSUME \/ Decisions \/ Tick \/ (\E x \in wire : Stash(x))
               \/ (\E n \in Online : ResendCommit(n)) \/ UNCHANGED vars
        PROVE  StewardsOwn'
    <2>1. UNCHANGED <<round, mode>>
      BY <1>6 DEF Decisions, Decide, Tick, Stash, ResendCommit, vars, phases, buffers
    <2> QED  BY <1>0, <2>1
  <1> QED
    BY <1>1, <1>2, <1>3, <1>4, <1>5, <1>6 DEF Next, Outcomes, Candidates, Poll

\* Whatever the network, the timing and the configuration, a member that a
\* commit took out of the group tears its conversation down when it merges that
\* commit (apply.rs leave_or_update).
THEOREM TheRemovedLeave == Spec => []RemovedLeft
  <1>1. Init => RemovedLeft
    <2> SUFFICES ASSUME Init, NEW n \in Members  PROVE n \in Group(n)  BY DEF RemovedLeft
    <2>1. chain[n] = <<>>  BY DEF Init
    <2>2. chain[n] \in Seq(CommitType) /\ CarriedBy(chain[n]) = {}  BY <2>1 DEF CarriedBy
    <2> QED  BY <2>2, StaysUntilRemoved DEF Group
  <1>2. TypeOK /\ CandidateInv /\ RemovedLeft /\ [Next]_vars => RemovedLeft'
    BY TypeParts, RemovedStep
  <1> QED  BY <1>1, <1>2, CandidatesSound, PTL DEF Spec

LEMMA OwnersAreStewards == Spec => []StewardsOwn
  <1>1. Init => StewardsOwn  BY DEF Init, StewardsOwn, OwnCandidates
  <1>2. TypeOK /\ CandidateInv /\ StewardsOwn /\ [Next]_vars => StewardsOwn'
    BY TypeParts, StewardsStep
  <1> QED  BY <1>1, <1>2, CandidatesSound, PTL DEF Spec

\* Without recovery that holds with no condition on the network, the timing or
\* subset candidates: a member can only hold a candidate of its own as a steward,
\* and the stewards stay for the term of their list (steward_list/,
\* handle.rs on_freeze_entered, apply.rs leave_or_update).
THEOREM NormalRoundsEjectTheRemoved ==
  ASSUME ~MayRecover
  PROVE  Spec => []OnlyEjectedLeave
  <1>1. Init => NormalInv  BY DEF Init, NormalInv
  <1>2. TypeOK /\ NormalInv /\ [Next]_vars => NormalInv'  BY TypeParts, NormalStep
  <1>3. TypeOK /\ NormalInv /\ StewardsOwn => KnowsOfRemoval
    <2> SUFFICES ASSUME TypeOK, NormalInv, StewardsOwn,
                        NEW n \in Online, HasRemoval(approved[n], n)
                 PROVE  OwnCandidates(n) = {}
      BY DEF KnowsOfRemoval
    <2>1. n \in Members /\ mode[n] = "Normal"  BY OnlineMembers DEF NormalInv
    <2>2. Remove(n) \in Changes
      <3>1. approved[n] \in QueueType  BY <2>1, TypeParts DEF GroupType
      <3> QED  BY <3>1 DEF HasRemoval, ChangesOf, QueueType, EntryType
    <2>3. ~IsSteward(List, n)  BY <2>1, <2>2, TermAssumption
    <2> QED  BY <2>1, <2>3 DEF StewardsOwn
  <1> QED
    BY <1>1, <1>2, <1>3, CommitRoundTypes, OwnersAreStewards, LeavingIsRemoval, PTL DEF Spec

\* Two members outside recovery at the same point: one history, one round, one
\* voted set
SameView(m, n) ==
  /\ mode[m] = "Normal" /\ mode[n] = "Normal"
  /\ chain[m] = chain[n] /\ round[m] = round[n]
  /\ ChangesOf(approved[m]) = ChangesOf(approved[n])
  /\ CountOf(approved[m]) = CountOf(approved[n])

\* Members with the same view apply the same commit, and a member never has two
\* to choose from
SelectionAgrees ==
  \A m, n \in Online : SameView(m, n) => /\ Selected(m) = Selected(n)
                                         /\ \A v, w \in Selected(n) : v = w

\* The candidates of n's round that a bystander would accept
Fit(n) ==
  {c \in round[n] : /\ Stages(n, c) /\ IsSteward(List, c.from)
                    /\ c.batch = ChangesOf(approved[n])
                    /\ Cardinality(c.batch) = CountOf(approved[n])}

Ranked(c) == [from |-> c.from, batch |-> c.batch, stages |-> TRUE, nonce |-> c.nonce]

StewardNow(n) ==
  EpochSteward(List, Epoch(n), {m \in Group(n) : ~HasRemoval(approved[n], m)})

\* The best ranked of S, under the steward es
Best(S, es) == {w \in S : \A c \in S : ~Outranks(c, w, es)}

Earliest(S) == {w \in S : \A v \in S : w.nonce <= v.nonce}

LEMMA WholeBatch ==
  ASSUME NEW q, IsFiniteSet(q.entries), NEW batch, batch \subseteq ChangesOf(q),
         Cardinality(batch) = Cardinality(q.entries)
  PROVE  batch = ChangesOf(q)
  <1> DEFINE f == [e \in q.entries |-> e.change]
             T == ChangesOf(q)
  <1>1. f \in Surjection(q.entries, T)  BY DEF Surjection, ChangesOf
  <1> HIDE DEF f, T
  <1>2. IsFiniteSet(T) /\ Cardinality(T) <= Cardinality(q.entries)  BY <1>1, FS_Surjection
  <1>3. /\ IsFiniteSet(batch) /\ Cardinality(batch) <= Cardinality(T)
        /\ Cardinality(batch) = Cardinality(T) => batch = T
    BY <1>2, FS_Subset DEF T
  <1>4. /\ Cardinality(batch) \in Nat /\ Cardinality(T) \in Nat
        /\ Cardinality(q.entries) \in Nat
    BY <1>2, <1>3, FS_CardinalityType
  <1> QED  BY <1>2, <1>3, <1>4 DEF T

\* The own candidate, which the code applies unchecked, passes every check that
\* a remote one would.
LEMMA OwnIsFit ==
  ASSUME CandidateInv, RemovedLeft, StewardsOwn, NEW n \in Online, mode[n] = "Normal",
         NEW c \in round[n], c.from = n, Cardinality(c.batch) = CountOf(approved[n])
  PROVE  c \in Fit(n)
  <1>1. n \in Members /\ n \in Group(n)  BY DEF Online, RemovedLeft
  <1>2. OwnWork(n, c) /\ IsFiniteSet(approved[n].entries)
    BY <1>1 DEF CandidateInv, RoundInv, QueueInv
  <1>3. c.batch = ChangesOf(approved[n])  BY <1>2, WholeBatch DEF OwnWork, CountOf
  <1>4. IsSteward(List, n)  BY <1>1 DEF StewardsOwn, OwnCandidates
  <1> QED  BY <1>1, <1>2, <1>3, <1>4 DEF Fit, Stages, OwnWork

LEMMA SelectedIsBestFit ==
  ASSUME ~AllowSubset, CandidateInv, RemovedLeft, StewardsOwn,
         NEW n \in Online, mode[n] = "Normal"
  PROVE  Selected(n) = Earliest(Best({Ranked(c) : c \in Fit(n)}, StewardNow(n)))
  <1> DEFINE rec(c) == [from |-> c.from, batch |-> c.batch, stages |-> Stages(n, c),
                        nonce |-> c.nonce]
             cands == {rec(c) : c \in round[n]}
             ok(r) == /\ CountMatches(r, CountOf(approved[n]), FALSE)
                      /\ r.from = n \/ RemoteApplies(r, approved[n], Authorised(n))
             usable == {r \in cands : ok(r)}
             fit == {Ranked(c) : c \in Fit(n)}
             es == StewardNow(n)
  <1>1. (mode[n] = "Recovery" \/ AllowSubset) = FALSE  OBVIOUS
  <1>2. Selected(n) = Earliest(Best(usable, es))
    BY <1>1 DEF Selected, Winners, Earliest, Best, StewardNow
  <1>3. ASSUME NEW c \in round[n]
        PROVE  /\ ok(rec(c)) <=> c \in Fit(n)
               /\ c \in Fit(n) => rec(c) = Ranked(c)
    <2>1. /\ rec(c).from = c.from /\ rec(c).batch = c.batch /\ rec(c).stages = Stages(n, c)
      OBVIOUS
    <2>2. ok(rec(c)) <=> /\ Cardinality(c.batch) = CountOf(approved[n])
                         /\ \/ c.from = n
                            \/ /\ Stages(n, c) /\ c.from \in Authorised(n)
                               /\ c.batch = ChangesOf(approved[n])
      BY <2>1 DEF CountMatches, RemoteApplies
    <2>3. Stages(n, c) => (c.from \in Authorised(n) <=> IsSteward(List, c.from))
      BY DEF Authorised, Stages
    <2>4. ok(rec(c)) => c \in Fit(n)
      BY <2>2, <2>3, OwnIsFit DEF Fit
    <2>5. c \in Fit(n) => ok(rec(c))  BY <2>2, <2>3 DEF Fit
    <2>6. c \in Fit(n) => Stages(n, c) = TRUE  BY DEF Fit, Stages
    <2> QED  BY <2>4, <2>5, <2>6 DEF Ranked
  <1>4. usable = fit
    <2>1. \A r : r \in usable <=> \E c \in round[n] : r = rec(c) /\ ok(r)  OBVIOUS
    <2>2. \A r : r \in fit <=> \E c \in round[n] : c \in Fit(n) /\ r = Ranked(c)
      BY DEF Fit
    <2> HIDE DEF ok, rec, usable, fit
    <2>3. \A r : r \in usable <=> r \in fit  BY <1>3, <2>1, <2>2
    <2> QED  BY <2>3 DEF usable, fit
  <1> QED  BY <1>2, <1>4

\* The ranking leaves one candidate.
LEMMA OneBestFit ==
  ASSUME MintType, NEW n \in Members, NEW es,
         NEW v \in Earliest(Best({Ranked(c) : c \in Fit(n)}, es)),
         NEW w \in Earliest(Best({Ranked(c) : c \in Fit(n)}, es))
  PROVE  v = w
  <1> DEFINE S == {Ranked(c) : c \in Fit(n)}
  <1>1. /\ v \in S /\ w \in S /\ ~Outranks(v, w, es) /\ ~Outranks(w, v, es)
        /\ v.nonce <= w.nonce /\ w.nonce <= v.nonce
    BY DEF Earliest, Best
  <1>2. PICK c \in Fit(n) : v = Ranked(c)  BY <1>1
  <1>3. PICK d \in Fit(n) : w = Ranked(d)  BY <1>1
  <1>4. c \in CandType /\ d \in CandType /\ c.batch = d.batch  BY DEF Fit, MintType
  <1>5. /\ v.from = c.from /\ v.batch = c.batch /\ v.nonce = c.nonce
        /\ w.from = d.from /\ w.batch = d.batch /\ w.nonce = d.nonce
    BY <1>2, <1>3 DEF Ranked
  <1>6. c.from \in Nat /\ d.from \in Nat /\ c.nonce \in Nat /\ d.nonce \in Nat
    BY <1>4, MembersAssumption DEF CandType
  <1>7. c.from = d.from
    <2>1. (IF v.from = es THEN 0 ELSE 1) \in {0, 1} /\ (IF w.from = es THEN 0 ELSE 1) \in {0, 1}
      OBVIOUS
    <2>2. ~(v.from < w.from /\ (IF v.from = es THEN 0 ELSE 1) = (IF w.from = es THEN 0 ELSE 1))
      BY <1>1, <1>4, <1>5 DEF Outranks
    <2>3. ~(w.from < v.from /\ (IF v.from = es THEN 0 ELSE 1) = (IF w.from = es THEN 0 ELSE 1))
      BY <1>1, <1>4, <1>5 DEF Outranks
    <2>4. (IF v.from = es THEN 0 ELSE 1) = (IF w.from = es THEN 0 ELSE 1)
      BY <1>1, <1>4, <1>5 DEF Outranks
    <2> QED  BY <1>5, <1>6, <2>2, <2>3, <2>4
  <1>8. c.nonce = d.nonce  BY <1>1, <1>5, <1>6
  <1> QED  BY <1>2, <1>3, <1>4, <1>7, <1>8 DEF Ranked

\* Outside recovery, with subsets refused, the commit a member applies is a
\* function of its history, its candidates and its voted set: the own candidate
\* is applied without the ladder a remote one climbs (apply.rs
\* apply_in_priority_order), and that never lets two members with the same view
\* part.  So a fork needs members whose windows close on different views.
THEOREM SameViewSameCommit ==
  ASSUME ~AllowSubset
  PROVE  Spec => []SelectionAgrees
  <1>1. ASSUME TypeOK, CandidateInv, RemovedLeft, StewardsOwn  PROVE SelectionAgrees
    <2> SUFFICES ASSUME NEW m \in Online, NEW n \in Online, SameView(m, n)
                 PROVE  /\ Selected(m) = Selected(n)
                        /\ \A v, w \in Selected(n) : v = w
      BY DEF SelectionAgrees
    <2>1. Group(m) = Group(n) /\ Epoch(m) = Epoch(n)  BY DEF SameView, Group, Epoch
    <2>2. Fit(m) = Fit(n)  BY <2>1 DEF Fit, Stages, SameView
    <2>3. StewardNow(m) = StewardNow(n)  BY <2>1 DEF StewardNow, HasRemoval, SameView
    <2>4. /\ Selected(m) = Earliest(Best({Ranked(c) : c \in Fit(m)}, StewardNow(m)))
          /\ Selected(n) = Earliest(Best({Ranked(c) : c \in Fit(n)}, StewardNow(n)))
      BY <1>1, SelectedIsBestFit DEF SameView
    <2>5. n \in Members /\ MintType  BY <1>1, TypeParts, OnlineMembers
    <2> HIDE DEF Online
    <2>6. \A v, w \in Selected(n) : v = w  BY <2>4, <2>5, OneBestFit
    <2> QED  BY <2>2, <2>3, <2>4, <2>6
  <1> QED  BY <1>1, CandidatesSound, TheRemovedLeave, OwnersAreStewards, PTL

------------------------------------------------------------------------------
\* Without a fork the group follows one history

Chains == [Members -> Seq(CommitType)]

\* Histories that are all prefixes of one another, and one that none is longer than
Aligned(f) == \A m, n \in Members : IsPrefixOf(f[m], f[n]) \/ IsPrefixOf(f[n], f[m])
Tops(f, n) == \A m \in Members : Len(f[m]) <= Len(f[n])

\* Longest, of any assignment of histories
TopOf(f) == CHOOSE h \in {f[n] : n \in Members} : \A n \in Members : Len(f[n]) <= Len(h)

LEMMA PrefixOfSameLength ==
  ASSUME NEW h \in Seq(CommitType), NEW k \in Seq(CommitType), IsPrefixOf(h, k), Len(h) = Len(k)
  PROVE  h = k
  <1> HIDE DEF CommitType
  <1>1. \A g \in Seq(CommitType) : SubSeq(g, 1, Len(g)) = g  OBVIOUS
  <1>2. h = SubSeq(k, 1, Len(h))  BY DEF IsPrefixOf
  <1> QED  BY <1>1, <1>2

\* Of aligned histories there is one longest.
LEMMA TheTop ==
  ASSUME NEW f \in Chains, Aligned(f), NEW n \in Members, Tops(f, n)
  PROVE  TopOf(f) = f[n]
  <1> DEFINE t == TopOf(f)
             P(h) == \A m \in Members : Len(f[m]) <= Len(h)
  <1>1. f[n] \in {f[m] : m \in Members} /\ P(f[n])  BY DEF Tops
  <1>2. t \in {f[m] : m \in Members} /\ P(t)
    <2>1. t = CHOOSE h \in {f[m] : m \in Members} : P(h)  BY DEF TopOf
    <2> HIDE DEF P, t
    <2> QED  BY <1>1, <2>1
  <1>3. PICK m \in Members : t = f[m]  BY <1>2
  <1> HIDE DEF t
  <1>4. /\ f[m] \in Seq(CommitType) /\ f[n] \in Seq(CommitType)
        /\ Len(f[m]) \in Nat /\ Len(f[n]) \in Nat
    BY DEF Chains
  <1>5. Len(f[m]) = Len(f[n])  BY <1>2, <1>3, <1>4 DEF Tops
  <1>6. f[m] = f[n]  BY <1>4, <1>5, PrefixOfSameLength DEF Aligned
  <1> QED  BY <1>3, <1>6 DEF t

\* One more commit on a history that aligns with a longer one is the next of it.
LEMMA NextOfLonger ==
  ASSUME NEW h \in Seq(CommitType), NEW k \in Seq(CommitType), NEW c \in CommitType,
         Len(h) < Len(k),
         IsPrefixOf(Append(h, c), k) \/ IsPrefixOf(k, Append(h, c))
  PROVE  c = k[Len(h) + 1]
  <1> DEFINE g == Append(h, c)
  <1> HIDE DEF CommitType
  <1>1. /\ g \in Seq(CommitType) /\ Len(g) = Len(h) + 1 /\ g[Len(h) + 1] = c
        /\ Len(h) \in Nat /\ Len(k) \in Nat
    OBVIOUS
  <1> HIDE DEF g
  <1>2. CASE IsPrefixOf(g, k)
    <2>1. g = SubSeq(k, 1, Len(h) + 1)  BY <1>1, <1>2 DEF IsPrefixOf
    <2>2. SubSeq(k, 1, Len(h) + 1)[Len(h) + 1] = k[Len(h) + 1]  BY <1>1
    <2> QED  BY <1>1, <2>1, <2>2
  <1>3. CASE IsPrefixOf(k, g)
    <2>1. Len(k) <= Len(g)  BY <1>3 DEF IsPrefixOf
    <2>2. Len(k) = Len(g)
      <3> HIDE DEF IsPrefixOf
      <3> QED  BY <1>1, <2>1
    <2>3. k = g  BY <1>1, <1>3, <2>2, PrefixOfSameLength
    <2> QED  BY <1>1, <2>3
  <1> QED  BY <1>2, <1>3 DEF g

\* Somebody is nowhere behind, also in an infinite group
SomeoneLeads == \E n \in Members : Tops(chain, n)

\* What a step does to the chains
LEMMA ChainStep ==
  ASSUME MintType, GroupType, CandidateInv, [Next]_vars
  PROVE  \/ chain' = chain
         \/ \E n \in Members : \E c \in CommitType :
              /\ chain' = [chain EXCEPT ![n] = Append(chain[n], c)]
              /\ c.batch # {} /\ c.batch \subseteq decided
              /\ c.batch \cap CarriedBy(chain[n]) = {}
              /\ decided' = decided
  <1>1. ASSUME NEW n \in Online, NEW w \in Selected(n), Apply(n, w)
        PROVE  \E c \in CommitType :
                 /\ chain' = [chain EXCEPT ![n] = Append(chain[n], c)]
                 /\ c.batch # {} /\ c.batch \subseteq decided
                 /\ c.batch \cap CarriedBy(chain[n]) = {}
                 /\ decided' = decided
    <2>1. n \in Members  BY OnlineMembers
    <2>2. Commit(w) \in CommitType /\ Commit(w).batch = w.batch  BY <2>1, SelectedFrom
    <2>3. w.batch # {} /\ w.batch \subseteq decided /\ w.batch \cap CarriedBy(chain[n]) = {}
      BY <2>1, AppliedIsSound
    <2>4. chain' = [chain EXCEPT ![n] = Append(chain[n], Commit(w))] /\ decided' = decided
      BY <1>1 DEF Apply
    <2> HIDE DEF Commit, CommitType
    <2> QED  BY <2>2, <2>3, <2>4
  <1>2. ASSUME \/ Decisions \/ Outcomes \/ Candidates \/ Tick
               \/ \E n \in Online : \/ FreezeOnInactivity(n) \/ AutoCommit(n) \/ RoundFails(n)
                                    \/ ResendCommit(n) \/ CommitInRecovery(n)
               \/ UNCHANGED vars
        PROVE  chain' = chain
    BY <1>2 DEF Decisions, Decide, Outcomes, Candidates, HearChange, HearDeadlock, Stash, Receive,
                FreezeOnInactivity, AutoCommit, RoundFails, ResendCommit, CommitInRecovery, Tick,
                vars, mls
  <1> QED  BY <1>1, <1>2, OnlineMembers DEF Next, Poll

LEMMA LeadStep ==
  ASSUME GroupType, SomeoneLeads,
         \/ chain' = chain
         \/ \E n \in Members : \E c \in CommitType :
              chain' = [chain EXCEPT ![n] = Append(chain[n], c)]
  PROVE  SomeoneLeads'
  <1>1. PICK t \in Members : Tops(chain, t)  BY DEF SomeoneLeads
  <1>2. CASE chain' = chain  BY <1>1, <1>2 DEF SomeoneLeads, Tops
  <1>3. ASSUME NEW n \in Members, NEW c \in CommitType,
               chain' = [chain EXCEPT ![n] = Append(chain[n], c)]
        PROVE  SomeoneLeads'
    <2> HIDE DEF CommitType
    <2>1. \A m \in Members : chain[m] \in Seq(CommitType) /\ Len(chain[m]) \in Nat
      BY DEF GroupType
    <2>2. \A m \in Members : chain'[m] = IF m = n THEN Append(chain[n], c) ELSE chain[m]
      BY <1>3 DEF GroupType
    <2>3. Len(chain'[n]) = Len(chain[n]) + 1
      <3>1. \A h \in Seq(CommitType) : Len(Append(h, c)) = Len(h) + 1  BY <1>3
      <3> QED  BY <2>1, <2>2, <3>1
    <2>4. CASE Len(chain[n]) = Len(chain[t])
      <3>1. Tops(chain', n)  BY <1>1, <2>1, <2>2, <2>3, <2>4 DEF Tops
      <3> QED  BY <3>1 DEF SomeoneLeads
    <2>5. CASE Len(chain[n]) # Len(chain[t])
      <3>1. t # n /\ Len(chain[n]) + 1 <= Len(chain[t])  BY <1>1, <2>1, <2>5 DEF Tops
      <3>2. Tops(chain', t)  BY <1>1, <2>1, <2>2, <2>3, <3>1 DEF Tops
      <3> QED  BY <3>2 DEF SomeoneLeads
    <2> QED  BY <2>4, <2>5
  <1> QED  BY <1>2, <1>3

\* A merge extends the history of the group or follows it.
LEMMA MergeIsHistory ==
  ASSUME GroupType, GroupType', Agreement, Agreement', SomeoneLeads,
         NEW n \in Members, NEW c \in CommitType,
         chain' = [chain EXCEPT ![n] = Append(chain[n], c)],
         c.batch # {}, c.batch \subseteq decided, c.batch \cap CarriedBy(chain[n]) = {},
         decided' = decided
  PROVE  History!Extend(n) \/ History!Follow(n)
  <1>1. /\ chain \in Chains /\ chain' \in Chains /\ Aligned(chain) /\ Aligned(chain')
        /\ Longest = TopOf(chain) /\ Longest' = TopOf(chain')
    BY DEF GroupType, Chains, Agreement, Aligned, Longest, TopOf
  <1>2. PICK t \in Members : Tops(chain, t)  BY DEF SomeoneLeads
  <1>3. Longest = chain[t]  BY <1>1, <1>2, TheTop
  <1> DEFINE h == chain[n]
             g == Append(h, c)
  <1>4. \A m \in Members : chain'[m] = IF m = n THEN g ELSE chain[m]  BY DEF GroupType
  <1>5. \A m \in Members : chain[m] \in Seq(CommitType) /\ Len(chain[m]) \in Nat
    BY DEF GroupType
  <1>6. /\ g \in Seq(CommitType) /\ Len(g) = Len(h) + 1 /\ g[Len(g)] = c
        /\ SubSeq(g, 1, Len(h)) = h
    <2> HIDE DEF CommitType
    <2> QED  BY <1>5
  <1>7. Deadlock \notin c.batch  BY ChangeFields DEF CommitType
  <1> HIDE DEF g
  <1>8. CASE Len(h) = Len(chain[t])
    <2>1. h = chain[t]  BY <1>1, <1>5, <1>8, PrefixOfSameLength DEF Aligned
    <2>2. Tops(chain', n)  BY <1>2, <1>4, <1>5, <1>6, <1>8 DEF Tops
    <2>3. Longest' = g  BY <1>1, <1>4, <2>2, TheTop
    <2>4. Longest = h  BY <1>3, <2>1
    <2>5. c.batch \subseteq (decided \ {Deadlock}) \ History!Carried(h)
      BY <1>7 DEF History!Carried, CarriedBy
    <2>6. chain' = [chain EXCEPT ![n] = g]  BY DEF g
    <2>7. History!Extend(n)
      BY <1>6, <2>3, <2>4, <2>5, <2>6 DEF History!Extend
    <2> QED  BY <2>7
  <1>9. CASE Len(h) # Len(chain[t])
    <2>1. t # n /\ Len(h) < Len(chain[t])  BY <1>2, <1>5, <1>9 DEF Tops
    <2>2. Tops(chain', t)  BY <1>2, <1>4, <1>5, <1>6, <2>1 DEF Tops
    <2>3. chain'[t] = chain[t] /\ chain'[n] = g  BY <1>4, <2>1
    <2>4. Longest' = Longest  BY <1>1, <1>3, <2>2, <2>3, TheTop
    <2>5. IsPrefixOf(g, chain[t]) \/ IsPrefixOf(chain[t], g)  BY <1>1, <2>3 DEF Aligned
    <2>6. c = chain[t][Len(h) + 1]  BY <1>5, <2>1, <2>5, NextOfLonger DEF g
    <2>7. chain' = [chain EXCEPT ![n] = Append(chain[n], Longest[Len(chain[n]) + 1])]
      BY <1>3, <2>6
    <2>8. Len(chain[n]) < Len(Longest)  BY <1>3, <2>1
    <2> HIDE DEF h
    <2>9. History!Follow(n)  BY <2>4, <2>7, <2>8 DEF History!Follow
    <2> QED  BY <2>9
  <1> QED  BY <1>8, <1>9

LEMMA StepIsHistory ==
  ASSUME TypeOK, TypeOK', CandidateInv, SomeoneLeads, Agreement, Agreement', [Next]_vars
  PROVE  [History!Next]_(History!vars)
  <1>0. MintType /\ GroupType /\ GroupType'
    <2>1. GroupType'  BY DEF TypeOK, GroupType, CommitType, CandType, EntryType, QueueType
    <2> QED  BY <2>1, TypeParts
  <1>1. CASE \E n \in Members : \E c \in CommitType :
               /\ chain' = [chain EXCEPT ![n] = Append(chain[n], c)]
               /\ c.batch # {} /\ c.batch \subseteq decided
               /\ c.batch \cap CarriedBy(chain[n]) = {}
               /\ decided' = decided
    <2>1. \E n \in Members : History!Extend(n) \/ History!Follow(n)
      BY <1>0, <1>1, MergeIsHistory
    <2> QED  BY <2>1 DEF History!Next
  <1>2. CASE chain' = chain
    <2>1. Longest' = Longest  BY <1>2 DEF Longest
    <2>2. \/ decided' \ {Deadlock} = decided \ {Deadlock}
          \/ \E c \in Changes : /\ c \notin decided /\ c # Deadlock
                                /\ decided' = decided \cup {c}
      <3>1. ASSUME NEW what, Decide(what), what \in Changes \/ what = Deadlock
            PROVE  \/ decided' \ {Deadlock} = decided \ {Deadlock}
                   \/ \E c \in Changes : /\ c \notin decided /\ c # Deadlock
                                         /\ decided' = decided \cup {c}
        <4>1. what \notin decided /\ decided' = decided \cup {what}  BY <3>1 DEF Decide
        <4>2. CASE what = Deadlock  BY <4>1, <4>2
        <4>3. CASE what \in Changes  BY <4>1, <4>3, ChangeFields
        <4> QED  BY <3>1, <4>2, <4>3
      <3>2. ASSUME ~Decisions  PROVE decided' = decided
        BY <3>2 DEF Next, Outcomes, Candidates, Poll, HearChange, HearDeadlock, Stash, Receive,
                    FreezeOnInactivity, AutoCommit, Apply, RoundFails, ResendCommit,
                    CommitInRecovery, Tick, vars, network
      <3> QED  BY <3>1, <3>2 DEF Decisions
    <2>3. CASE decided' \ {Deadlock} = decided \ {Deadlock}
      BY <1>2, <2>1, <2>3 DEF History!vars
    <2>4. ASSUME NEW c \in Changes, c \notin decided, c # Deadlock, decided' = decided \cup {c}
          PROVE  History!Next
      <3>1. History!Vote(c)  BY <1>2, <2>1, <2>4 DEF History!Vote
      <3> QED  BY <3>1 DEF History!Next
    <2> QED  BY <2>2, <2>3, <2>4
  <1> QED  BY <1>0, <1>1, <1>2, ChainStep

\* The whole group implements GroupHistory as long as it does not fork: the
\* absence of a fork is all that the timing is needed for, and everything else
\* of the history (only voted changes, none twice, one commit at a time, the
\* same for everybody) follows from it in every group and configuration
\* (commit_round/, queues.rs).
THEOREM NoForkIsOneHistory == Spec /\ []Agreement => ImplementsHistory
  <1>1. Init => History!Init /\ SomeoneLeads
    <2> SUFFICES ASSUME Init  PROVE History!Init /\ SomeoneLeads  OBVIOUS
    <2>1. chain = [n \in Members |-> <<>>] /\ decided = {}  BY DEF Init
    <2>2. PICK n \in Members : TRUE  BY MembersAssumption
    <2>3. Tops(chain, n)  BY <2>1 DEF Tops
    <2>4. chain \in Chains /\ Aligned(chain)
      <3>1. \A m \in Members : chain[m] = <<>>  BY <2>1
      <3>2. IsPrefixOf(<<>>, <<>>)  BY DEF IsPrefixOf
      <3> QED  BY <2>1, <3>1, <3>2 DEF Chains, Aligned
    <2>5. Longest = <<>>  BY <2>1, <2>3, <2>4, TheTop DEF Longest, TopOf
    <2> QED  BY <2>1, <2>3, <2>5 DEF History!Init, SomeoneLeads
  <1>2. TypeOK /\ CandidateInv /\ SomeoneLeads /\ [Next]_vars => SomeoneLeads'
    BY TypeParts, ChainStep, LeadStep
  <1>3. /\ TypeOK /\ TypeOK' /\ CandidateInv /\ SomeoneLeads /\ Agreement /\ Agreement'
        /\ [Next]_vars
        => [History!Next]_(History!vars)
    BY StepIsHistory
  <1> QED
    BY <1>1, <1>2, <1>3, CandidatesSound, PTL DEF Spec, ImplementsHistory, History!Spec
==============================================================================
