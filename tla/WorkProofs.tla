------------------------------ MODULE WorkProofs ------------------------------
(***************************************************************************)
(* What becomes of approved work in Conversation: it leaves the queue only *)
(* by a commit that carries it, and a recovery round fails only if this    *)
(* member could not mint.                                                  *)
(***************************************************************************)
EXTENDS ConversationProofs, StewardListLemmas

------------------------------------------------------------------------------
\* The ways a step can touch the round, the stash, the queue and the group

\* n may mint from queue q into round r, or leaves it at that
MintOnto(q, r) ==
  \/ \E permitted, t : MintInto(permitted, q, t, r)
  \/ commit_round' = r /\ pending_commit' = pending_commit

Peer(o, stages) == [from |-> o.from, batch |-> o.batch, stages |-> stages]

Approves ==
  \E c \in Changes :
    /\ approved' = Enqueue(approved, c) /\ early' = StashAfter(Enqueue(approved, c))
    /\ group' = group
    /\ MintOnto(Enqueue(approved, c), Replayed(Enqueue(approved, c)))

Mints == UNCHANGED <<early, approved, group>> /\ MintOnto(approved, commit_round)

Receives ==
  \E o \in Offers, stages \in BOOLEAN :
    /\ stages => Sound(o)
    /\ UNCHANGED <<early, approved, group>>
    /\ MintOnto(approved, Buffer(commit_round, Peer(o, stages)))

Stashes ==
  \E o \in Offers, stages \in BOOLEAN :
    /\ stages => Sound(o)
    /\ early' \subseteq early \cup {[epoch |-> group.epoch, cand |-> Peer(o, stages)]}
    /\ UNCHANGED <<commit_round, pending_commit, approved, group>>

Merges == \E w \in RoundWinners : MergeWinner(w) /\ early' = early

Spends ==
  /\ commit_round'.candidates = {} /\ UNCHANGED <<early, approved, group>>
  /\ pending_commit' = {} \/ FinalizeMayFail

RoundMove == Approves \/ Mints \/ Receives \/ Stashes \/ Merges \/ Spends

LEMMA Untouched ==
  ASSUME UNCHANGED <<commit_round, pending_commit, early, approved, group>>
  PROVE  RoundMove
  BY DEF RoundMove, Mints, MintOnto

LEMMA EveryStepMoves ==
  ASSUME TypeOK, RoundInv, [Next]_vars
  PROVE  RoundMove
  <1>0. \A p \in voting : p \in Votes  BY DEF TypeOK, Votes
  <1>1. ASSUME NEW p \in voting, AcceptChange(p)  PROVE RoundMove
    <2>1. p.change \in Changes
      <3>1. p \in ChangeProposals  BY <1>0, <1>1, ProposalKinds DEF AcceptChange
      <3> QED  BY <3>1 DEF ChangeProposals
    <2>2. Approves  BY <1>1, <2>1 DEF AcceptChange, Approves, MintOnto, mls
    <2> QED  BY <2>2 DEF RoundMove
  <1>2. ASSUME NEW p \in voting, AcceptScore(p)  PROVE RoundMove
    <2>1. Remove(p.target) \in Changes  BY <1>0, <1>2, ProposalKinds DEF AcceptScore
    <2>2. Approves  BY <1>2, <2>1 DEF AcceptScore, Approves, MintOnto, EnterFreezing
    <2> QED  BY <2>2 DEF RoundMove
  <1>3. ASSUME NEW p \in voting,
               \/ DropChange(p) \/ AcceptElection(p) \/ RejectElection(p)
               \/ AcceptDeadlock(p) \/ CloseEmergency(p)
        PROVE  RoundMove
    BY <1>3, Untouched
       DEF DropChange, AcceptElection, RejectElection, AcceptDeadlock, CloseEmergency, mls
  <1>4. ASSUME DrainEnd \/ FreezeOnInactivity \/ CommitInRecovery  PROVE RoundMove
    <2>1. Mints
      BY <1>4 DEF DrainEnd, FreezeOnInactivity, CommitInRecovery, EnterFreezing, Mints, MintOnto
    <2> QED  BY <2>1 DEF RoundMove
  <1>5. ASSUME NEW w \in RoundWinners, CommitEjects(w) \/ CommitUpdates(w)  PROVE RoundMove
    <2>1. Merges  BY <1>5 DEF CommitEjects, CommitUpdates, Merges
    <2> QED  BY <2>1 DEF RoundMove
  <1>6. ASSUME NothingToCommit \/ CommitMissed \/ RecoveryRoundFails \/ FinalizeFails
        PROVE  RoundMove
    <2>1. AfterTake.candidates = {} /\ [AfterTake EXCEPT !.candidates = {}].candidates = {}
      <3>1. AfterTake.candidates = {} /\ AfterTake \in RoundType  BY TakeEmpties, TakenType
      <3> QED  BY <3>1 DEF RoundType
    <2>2. Spends
      BY <1>6, <2>1 DEF NothingToCommit, CommitMissed, RecoveryRoundFails, FinalizeFails,
                        RoundFails, Spends, mls
    <2> QED  BY <2>2 DEF RoundMove
  <1>7. ASSUME NEW o \in Offers, NEW stages \in BOOLEAN, StashCandidate(o, stages)
        PROVE  RoundMove
    <2>1. Stashes  BY <1>7 DEF StashCandidate, Stashes, Peer, mls
    <2> QED  BY <2>1 DEF RoundMove
  <1>8. ASSUME NEW o \in Offers, NEW stages \in BOOLEAN, ReceiveCandidate(o, stages)
        PROVE  RoundMove
    <2>1. Receives  BY <1>8 DEF ReceiveCandidate, EnterFreezing, Receives, MintOnto, Peer
    <2> QED  BY <2>1 DEF RoundMove
  <1>9. ASSUME \/ FreezeWaits \/ TailIdle \/ ArmInactivity \/ SilenceWait \/ SilenceElapsed
               \/ Tick \/ TornDown \/ UNCHANGED vars
        PROVE  RoundMove
    BY <1>9, Untouched
       DEF FreezeWaits, TailIdle, ArmInactivity, SilenceWait, SilenceElapsed, Tick, TornDown,
           vars, queues, mls
  <1>10. ASSUME \/ \E c, solo : IncomingChange(c, solo)
                \/ \E round, pool : IncomingElection(round, pool)
                \/ \E p : IncomingEmergency(p) \/ OwnEmergency(p)
                \/ \E s : ReceiveSync(s)
                \/ \E c : OwnChange(c)
                \/ Leave
         PROVE  RoundMove
    BY <1>10, Untouched
       DEF IncomingChange, IncomingElection, IncomingEmergency, OwnEmergency, ReceiveSync,
           OwnChange, Leave, mls, queues
  <1> QED
    BY <1>1, <1>2, <1>3, <1>4, <1>5, <1>6, <1>7, <1>8, <1>9, <1>10
       DEF Next, ResolveChange, ResolveElection, ResolveEmergency, FinalizeRound, PollTail,
           Inbound, Intents

------------------------------------------------------------------------------
\* Approved work leaves by a commit

\* A candidate that stages carries changes MLS can commit, and our own stages
Staged(c) ==
  /\ c.stages => \A d \in c.batch : Actionable(d, group.members)
  /\ c.from = Self => c.stages

\* That the winner's changes are done once it merged needs that it could carry
\* them out, which was decided when it was buffered, stashed or minted.
WorkInv ==
  /\ IsFiniteSet(approved.entries)
  /\ \A c \in commit_round.candidates : Staged(c)
  /\ \A e \in early : Staged(e.cand)

\* A mint onto a staged round leaves a staged round.
LEMMA MintStages ==
  ASSUME NEW q, NEW r, \A c \in r.candidates : Staged(c), MintOnto(q, r), group' = group
  PROVE  \A c \in commit_round'.candidates : Staged(c)'
  <1>0. \A c : Staged(c)' <=> Staged(c)  BY DEF Staged
  <1>1. CASE commit_round' = r  BY <1>0, <1>1
  <1>2. ASSUME NEW permitted, NEW t, MintInto(permitted, q, t, r), commit_round' # r
        PROVE  \A c \in commit_round'.candidates : Staged(c)'
    <2> DEFINE batch == MintedBatch(q, t, group.members, BatchMax)
               own   == [from |-> Self, batch |-> batch, stages |-> TRUE]
    <2>1. commit_round' = Buffer(r, own)  BY <1>2 DEF MintInto
    <2>2. \A d \in batch : Actionable(d, group.members)  BY DEF MintedBatch
    <2> HIDE DEF batch
    <2>3. Staged(own)  BY <2>2 DEF Staged
    <2> HIDE DEF own
    <2>4. \A c \in Buffer(r, own).candidates : c \in r.candidates \/ c = own  BY DEF Buffer
    <2> QED  BY <1>0, <2>1, <2>3, <2>4
  <1> QED  BY <1>1, <1>2 DEF MintOnto

LEMMA PeerStaged ==
  ASSUME NEW o \in Offers, NEW stages \in BOOLEAN, stages => Sound(o)
  PROVE  Staged(Peer(o, stages))
  <1>1. o.from # Self  BY ChangesAssumption
  <1> QED  BY <1>1 DEF Staged, Peer, Sound

LEMMA StepWorkInv ==
  ASSUME TypeOK, RoundInv, LoadInv, WorkInv, [Next]_vars
  PROVE  WorkInv'
  <1>0. ASSUME group' = group  PROVE \A c : Staged(c)' <=> Staged(c)
    BY <1>0 DEF Staged
  <1>1. ASSUME Approves  PROVE WorkInv'
    <2>1. PICK c \in Changes :
            /\ approved' = Enqueue(approved, c) /\ early' = StashAfter(Enqueue(approved, c))
            /\ group' = group
            /\ MintOnto(Enqueue(approved, c), Replayed(Enqueue(approved, c)))
      BY <1>1 DEF Approves
    <2> DEFINE q == Enqueue(approved, c)
    <2>2. q.entries = approved.entries \cup {[at |-> approved.next, change |-> c]}
      BY DEF Enqueue
    <2>3. IsFiniteSet(q.entries)
      <3>1. IsFiniteSet(approved.entries)  BY DEF WorkInv
      <3> QED  BY ONLY <2>2, <3>1, FS_AddElement
    <2>4. early' = {}  BY <2>1, <2>2 DEF StashAfter
    <2>5. Taken = commit_round.candidates  BY TakeEmpties
    <2> HIDE DEF q
    <2>6. \A d \in Replayed(q).candidates : Staged(d)
      BY <2>5 DEF Replayed, WorkInv
    <2>7. \A d \in commit_round'.candidates : Staged(d)'
      BY <2>1, <2>6, MintStages DEF q
    <2> QED  BY <2>1, <2>3, <2>4, <2>7 DEF WorkInv, q
  <1>2. ASSUME Mints  PROVE WorkInv'
    <2>1. \A d \in commit_round'.candidates : Staged(d)'
      BY <1>2, MintStages DEF Mints, WorkInv
    <2> QED  BY <1>0, <1>2, <2>1 DEF Mints, WorkInv
  <1>3. ASSUME Receives  PROVE WorkInv'
    <2>1. PICK o \in Offers, stages \in BOOLEAN :
            /\ stages => Sound(o)
            /\ UNCHANGED <<early, approved, group>>
            /\ MintOnto(approved, Buffer(commit_round, Peer(o, stages)))
      BY <1>3 DEF Receives
    <2> DEFINE r == Buffer(commit_round, Peer(o, stages))
    <2>2. \A d \in r.candidates : d \in commit_round.candidates \/ d = Peer(o, stages)
      BY DEF Buffer
    <2>3. \A d \in r.candidates : Staged(d)
      BY <2>1, <2>2, PeerStaged DEF WorkInv
    <2> HIDE DEF r
    <2>4. \A d \in commit_round'.candidates : Staged(d)'
      BY <2>1, <2>3, MintStages DEF r
    <2> QED  BY <1>0, <2>1, <2>4 DEF WorkInv
  <1>4. ASSUME Stashes  PROVE WorkInv'
    <2>1. PICK o \in Offers, stages \in BOOLEAN :
            /\ stages => Sound(o)
            /\ early' \subseteq early \cup {[epoch |-> group.epoch, cand |-> Peer(o, stages)]}
            /\ UNCHANGED <<commit_round, pending_commit, approved, group>>
      BY <1>4 DEF Stashes
    <2>2. Staged(Peer(o, stages))  BY <2>1, PeerStaged
    <2>3. \A e \in early' : e \in early \/ e.cand = Peer(o, stages)  BY <2>1
    <2> QED  BY <1>0, <2>1, <2>2, <2>3 DEF WorkInv
  <1>5. ASSUME Merges  PROVE WorkInv'
    <2>1. PICK w \in RoundWinners : MergeWinner(w) /\ early' = early  BY <1>5 DEF Merges
    <2>2. w \in commit_round.candidates  BY WinnerType, TakeEmpties
    <2>3. early = {}  BY <2>2 DEF LoadInv
    <2>4. commit_round'.candidates = {}  BY <2>1, TakeEmpties DEF MergeWinner
    <2>5. approved'.entries \subseteq approved.entries
      BY <2>1, QueueAfterSubset DEF MergeWinner, TypeOK, QueueType
    <2>6. IsFiniteSet(approved'.entries)  BY <2>5, FS_Subset DEF WorkInv
    <2> QED  BY <2>1, <2>3, <2>4, <2>6 DEF WorkInv
  <1>6. ASSUME Spends  PROVE WorkInv'
    BY <1>0, <1>6 DEF Spends, WorkInv
  <1> QED  BY <1>1, <1>2, <1>3, <1>4, <1>5, <1>6, EveryStepMoves DEF RoundMove

LEMMA WorkInvariant == Spec => []WorkInv
  <1>1. Init => WorkInv
    BY FS_EmptySet DEF Init, WorkInv, EmptyQueue
  <1>2. TypeOK /\ RoundInv /\ LoadInv /\ WorkInv /\ [Next]_vars => WorkInv'
    BY StepWorkInv
  <1> QED  BY <1>1, <1>2, TypeCorrect, RoundInvariant, LoadInvariant, PTL DEF Spec

\* As many changes as there are entries are all the changes.
LEMMA FullBatch ==
  ASSUME NEW q, IsFiniteSet(q.entries), NEW batch, batch \subseteq ChangesOf(q),
         Cardinality(batch) = Cardinality(q.entries)
  PROVE  batch = ChangesOf(q)
  <1> DEFINE f == [e \in q.entries |-> e.change]
             T == ChangesOf(q)
  <1>1. f \in Surjection(q.entries, T)  BY DEF Surjection, ChangesOf
  <1> HIDE DEF f, T
  <1>2. IsFiniteSet(T) /\ Cardinality(T) <= Cardinality(q.entries)  BY <1>1, FS_Surjection
  <1>3. /\ IsFiniteSet(batch) /\ Cardinality(batch) <= Cardinality(T)
        /\ Cardinality(batch) = Cardinality(T) => batch = T
    BY <1>2, FS_Subset DEF T
  <1>4. /\ Cardinality(batch) \in Nat /\ Cardinality(T) \in Nat
        /\ Cardinality(q.entries) \in Nat
    BY <1>2, <1>3, FS_CardinalityType
  <1> QED  BY <1>2, <1>3, <1>4 DEF T

\* Merging a batch of actionable changes carries all of them out.
LEMMA MergeCarriesOut ==
  ASSUME NEW g, NEW batch \in SUBSET Changes, \A c \in batch : Actionable(c, g.members)
  PROVE  \A c \in batch : ~Actionable(c, Merge(g, batch).members)
  <1> DEFINE added   == {c.id : c \in {d \in batch : d.op = "Add"}}
             removed == {c.id : c \in {d \in batch : d.op = "Remove"}}
             after   == Merge(g, batch).members
  <1>1. after = (g.members \ removed) \cup added  BY DEF Merge
  <1>2. \A c \in batch : c.op \in {"Add", "Remove"}  BY ChangesAssumption
  <1>3. \A i \in added : i \notin g.members  BY DEF Actionable
  <1>4. \A i \in removed : i \in g.members  BY DEF Actionable
  <1>5. ASSUME NEW c \in batch  PROVE ~Actionable(c, after)
    <2>1. CASE c.op = "Add"
      <3>1. c.id \in added  BY <2>1
      <3> HIDE DEF added, removed, after
      <3> QED  BY <1>1, <2>1, <3>1 DEF Actionable
    <2>2. CASE c.op = "Remove"
      <3>1. c.id \in removed  BY <2>2
      <3> HIDE DEF added, removed, after
      <3>2. c.id \notin after  BY <1>1, <1>3, <1>4, <3>1
      <3> QED  BY <2>2, <3>2 DEF Actionable
    <2> QED  BY <1>2, <2>1, <2>2
  <1> QED  BY <1>5

\* Outside recovery and without subset candidates the winner carries exactly
\* what is approved.
LEMMA WinnerTakesAll ==
  ASSUME TypeOK, RoundInv, WorkInv, NEW w \in RoundWinners, mode = "Normal", ~AllowSubset
  PROVE  w.batch = ChangesOf(approved)
  <1>1. CountMatches(w, CountOf(approved), mode = "Recovery" \/ AllowSubset)
    BY DEF RoundWinners, Winners
  <1>2. Cardinality(w.batch) = Cardinality(approved.entries)
    BY <1>1 DEF CountMatches, CountOf
  <1> QED  BY <1>2, WinnerIsVoted, FullBatch DEF WorkInv

\* What a winner carries could be carried out.
LEMMA WinnerIsDoable ==
  ASSUME TypeOK, RoundInv, WorkInv, NEW w \in RoundWinners
  PROVE  \A c \in w.batch : Actionable(c, group.members)
  <1>1. w \in commit_round.candidates  BY WinnerType, TakeEmpties
  <1>2. w.from = Self \/ RemoteApplies(w, approved, Authorised)  BY DEF RoundWinners, Winners
  <1>3. w.stages  BY <1>1, <1>2 DEF WorkInv, Staged, RemoteApplies
  <1> QED  BY <1>1, <1>3 DEF WorkInv, Staged

LEMMA StepKeepsWork ==
  ASSUME TypeOK, RoundInv, WorkInv, [Next]_vars,
         NEW c \in ChangesOf(approved) \ ChangesOf(approved')
  PROVE  /\ group'.epoch = group.epoch + 1
         /\ mode = "Normal" /\ ~AllowSubset => ~Actionable(c, group'.members)
  <1>1. \A d : ChangesOf(approved) \subseteq ChangesOf(Enqueue(approved, d))
    BY DEF ChangesOf, Enqueue
  <1>2. ~Approves  BY <1>1 DEF Approves
  <1>3. ~(Mints \/ Receives \/ Stashes \/ Spends)
    BY DEF Mints, Receives, Stashes, Spends
  <1>4. PICK w \in RoundWinners : MergeWinner(w)
    BY <1>2, <1>3, EveryStepMoves DEF RoundMove, Merges
  <1>5. group' = Merge(group, w.batch)  BY <1>4 DEF MergeWinner
  <1>6. group'.epoch = group.epoch + 1  BY <1>5 DEF Merge
  <1>7. ASSUME mode = "Normal", ~AllowSubset  PROVE ~Actionable(c, group'.members)
    <2>1. c \in w.batch  BY <1>7, WinnerTakesAll
    <2>2. w.batch \in SUBSET Changes  BY WinnerType
    <2> QED  BY <1>5, <2>1, <2>2, WinnerIsDoable, MergeCarriesOut
  <1> QED  BY <1>6, <1>7

\* In every execution of every instance approved work leaves the queue only in a
\* step that advances the epoch and, where the winner must carry the whole
\* queue, only once membership reflects it: no missed commit, election, recovery
\* round or local error drops it (commit_round/apply.rs
\* finalize_committed_batch, poll.rs NoCandidate).
THEOREM ApprovedWorkIsKept == Spec => WorkLeavesByCommit
  <1>1. TypeOK /\ RoundInv /\ WorkInv /\ [Next]_vars
          => [\A c \in ChangesOf(approved) \ ChangesOf(approved') :
                /\ group'.epoch = group.epoch + 1
                /\ mode = "Normal" /\ ~AllowSubset => ~Actionable(c, group'.members)]_vars
    BY StepKeepsWork
  <1> QED  BY <1>1, TypeCorrect, RoundInvariant, WorkInvariant, PTL DEF Spec, WorkLeavesByCommit

------------------------------------------------------------------------------
\* A recovery round lands what this member can commit

HasOwn(r) == \E c \in r.candidates : c.from = Self

Full(r) == Cardinality(r.candidates) >= Cardinality(group.members)

CannotMint ==
  \/ MintedBatch(approved, urgent, group.members, BatchMax) = {}
  \/ HasRemoval(approved, Self)

\* A pending commit has its candidate in the round, unless the round was full.
\* The step that ends the drain of a poll has tried to mint when the grace is
\* over, and its freezing step finds what that left.
MintInv ==
  /\ pending_commit # {} => HasOwn(commit_round) \/ Full(commit_round)
  /\ /\ pc = "freezing" /\ mode = "Recovery"
     /\ AutoCommitDelay # Never /\ phase_timer >= AutoCommitDelay
     => HasOwn(commit_round) \/ CannotMint \/ Full(commit_round)

\* A round that only grows keeps what it has.
LEMMA GrowingRound ==
  ASSUME TypeOK, NEW r, NEW s, r.candidates \subseteq s.candidates, IsFiniteSet(s.candidates),
         HasOwn(r) \/ Full(r)
  PROVE  HasOwn(s) \/ Full(s)
  <1>1. CASE HasOwn(r)  BY <1>1 DEF HasOwn
  <1>2. CASE Full(r)
    <2>1. /\ IsFiniteSet(r.candidates)
          /\ Cardinality(r.candidates) <= Cardinality(s.candidates)
      BY FS_Subset
    <2>2. /\ Cardinality(r.candidates) \in Nat /\ Cardinality(s.candidates) \in Nat
          /\ Cardinality(group.members) \in Nat
      BY <2>1, MembersFinite, FS_CardinalityType
    <2> QED  BY <1>2, <2>1, <2>2 DEF Full
  <1> QED  BY <1>1, <1>2

\* A mint that builds a candidate has it in the round or finds the round full.
LEMMA MintHolds ==
  ASSUME NEW permitted, NEW q, NEW t, NEW r, MintInto(permitted, q, t, r)
  PROVE  \/ HasOwn(commit_round') \/ Full(commit_round')
         \/ /\ commit_round' = r /\ pending_commit' = pending_commit
            /\ \/ ~permitted \/ HasRemoval(q, Self) \/ pending_commit # {}
               \/ MintedBatch(q, t, group.members, BatchMax) = {}
  <1> DEFINE batch == MintedBatch(q, t, group.members, BatchMax)
             own   == [from |-> Self, batch |-> batch, stages |-> TRUE]
  <1>1. q.entries = {} => batch = {}  BY DEF MintedBatch, FirstOf
  <1> HIDE DEF batch
  <1>2. \/ commit_round' = Buffer(r, own)
        \/ /\ commit_round' = r /\ pending_commit' = pending_commit
           /\ ~permitted \/ HasRemoval(q, Self) \/ pending_commit # {} \/ batch = {}
    BY <1>1 DEF MintInto, batch
  <1>3. own.from = Self  OBVIOUS
  <1> HIDE DEF own
  <1>4. own \in Buffer(r, own).candidates \/ Full(Buffer(r, own))  BY DEF Buffer, Full
  <1> QED  BY <1>2, <1>3, <1>4 DEF HasOwn, batch

LEMMA ChangesFinite == IsFiniteSet(Changes)
  <1> DEFINE A == {Add(i) : i \in Ids}
             R == {Remove(i) : i \in Ids}
             fa == [i \in Ids |-> Add(i)]
             fr == [i \in Ids |-> Remove(i)]
  <1>1. fa \in Surjection(Ids, A) /\ fr \in Surjection(Ids, R)  BY DEF Surjection
  <1>2. \A c \in Changes : c \in A \/ c \in R
    BY ChangesAssumption DEF Add, Remove
  <1> HIDE DEF A, R, fa, fr
  <1>3. IsFiniteSet(A) /\ IsFiniteSet(R)  BY <1>1, IdsAssumption, FS_Surjection
  <1>4. IsFiniteSet(A \cup R)  BY <1>3, FS_Union
  <1>5. Changes \in SUBSET (A \cup R)  BY <1>2
  <1> QED  BY <1>4, <1>5, FS_Subset

\* Of candidates that apply one wins: the ranking has no cycles.
LEMMA SomeoneWins ==
  ASSUME NEW cands \in SUBSET Candidates, NEW self, NEW queue, IsFiniteSet(queue.entries),
         NEW authorised, NEW es,
         NEW c \in cands, c.from = self, CountMatches(c, CountOf(queue), TRUE)
  PROVE  Winners(cands, self, queue, authorised, TRUE, es) # {}
  <1> DEFINE usable == {d \in cands : /\ CountMatches(d, CountOf(queue), TRUE)
                                      /\ d.from = self \/ RemoteApplies(d, queue, authorised)}
             voted == CountOf(queue)
             size(d) == Cardinality(d.batch)
             tier(d) == IF d.from = es THEN 0 ELSE 1
             key(d) == voted - size(d)
  <1>1. c \in usable  OBVIOUS
  <1>2. voted \in Nat  BY FS_CardinalityType DEF CountOf
  <1>3. \A d \in usable : size(d) \in Nat /\ size(d) <= voted /\ d.from \in Nat
    <2> SUFFICES ASSUME NEW d \in usable
                 PROVE  size(d) \in Nat /\ size(d) <= voted /\ d.from \in Nat
      OBVIOUS
    <2>1. d \in Candidates /\ CountMatches(d, voted, TRUE)  OBVIOUS
    <2>2. d.batch \in SUBSET Changes /\ d.from \in Ids  BY <2>1 DEF Candidates
    <2>3. size(d) \in Nat  BY <2>2, ChangesFinite, FS_Subset, FS_CardinalityType
    <2> QED  BY <2>1, <2>2, <2>3, IdsAssumption DEF CountMatches
  <1>4. Winners(cands, self, queue, authorised, TRUE, es)
          = {w \in usable : \A d \in usable : ~Outranks(d, w, es)}
    BY DEF Winners
  <1>5. \A a, b : Outranks(a, b, es) <=> \/ size(a) > size(b)
                                         \/ size(a) = size(b) /\ tier(a) < tier(b)
                                         \/ /\ size(a) = size(b) /\ tier(a) = tier(b)
                                            /\ a.from < b.from
    BY DEF Outranks
  <1>6. \A d : tier(d) \in Nat  OBVIOUS
  <1> HIDE DEF usable, voted, size, tier
  <1>7. PICK d1 \in usable : \A d \in usable : size(d) <= size(d1)
    <2> DEFINE H == {key(d) : d \in usable}
    <2>1. H \subseteq Nat /\ H # {}  BY <1>1, <1>2, <1>3
    <2>2. PICK k \in H : \A j \in H : k <= j
      <3> HIDE DEF H
      <3> QED  BY <2>1, Least
    <2>3. PICK d1 \in usable : k = key(d1)  OBVIOUS
    <2>4. \A d \in usable : key(d1) <= key(d)  BY <2>2, <2>3
    <2> QED  BY <1>2, <1>3, <2>4
  <1> DEFINE U2 == {d \in usable : size(d) = size(d1)}
  <1>8. PICK d2 \in U2 : \A d \in U2 : tier(d2) <= tier(d)
    <2> DEFINE H == {tier(d) : d \in U2}
    <2>1. H \subseteq Nat /\ H # {}  BY <1>6, <1>7
    <2>2. PICK k \in H : \A j \in H : k <= j
      <3> HIDE DEF H
      <3> QED  BY <2>1, Least
    <2> QED  BY <2>2
  <1> DEFINE U3 == {d \in U2 : tier(d) = tier(d2)}
  <1>9. PICK w \in U3 : \A d \in U3 : w.from <= d.from
    <2> DEFINE H == {d.from : d \in U3}
    <2>1. H \subseteq Nat /\ H # {}  BY <1>3, <1>8
    <2>2. PICK k \in H : \A j \in H : k <= j
      <3> HIDE DEF H
      <3> QED  BY <2>1, Least
    <2> QED  BY <2>2
  <1>10. ASSUME NEW d \in usable, Outranks(d, w, es)  PROVE FALSE
    <2>1. w \in usable /\ size(w) = size(d1) /\ tier(w) = tier(d2)  OBVIOUS
    <2>2. size(d) <= size(w)  BY <1>7, <2>1
    <2>3. size(d) = size(w) => tier(w) <= tier(d)  BY <1>8, <2>1
    <2>4. size(d) = size(w) /\ tier(d) = tier(w) => w.from <= d.from  BY <1>9, <2>1
    <2> QED  BY <1>3, <1>5, <1>6, <1>10, <2>1, <2>2, <2>3, <2>4
  <1> QED  BY <1>4, <1>10

\* A mint onto a round that only grew keeps the pending commit's candidate.
LEMMA MintKeepsHold ==
  ASSUME TypeOK, LoadInv', group' = group, NEW q, NEW r,
         commit_round.candidates \subseteq r.candidates, MintOnto(q, r),
         pending_commit # {} => HasOwn(commit_round) \/ Full(commit_round),
         pending_commit' # {}
  PROVE  HasOwn(commit_round)' \/ Full(commit_round)'
  <1>1. CASE commit_round' = r /\ pending_commit' = pending_commit
    <2>1. IsFiniteSet(r.candidates)  BY <1>1 DEF LoadInv
    <2>2. HasOwn(r) \/ Full(r)  BY <1>1, <2>1, GrowingRound
    <2> QED  BY <1>1, <2>2 DEF HasOwn, Full
  <1>2. CASE \E permitted, t : MintInto(permitted, q, t, r)
    <2>1. \/ HasOwn(commit_round') \/ Full(commit_round')
          \/ commit_round' = r /\ pending_commit' = pending_commit
      BY <1>2, MintHolds
    <2>2. CASE HasOwn(commit_round') \/ Full(commit_round')  BY <2>2 DEF HasOwn, Full
    <2> QED  BY <1>1, <2>1, <2>2
  <1> QED  BY <1>1, <1>2 DEF MintOnto

LEMMA StepHolds ==
  ASSUME FinalizeMayFail = FALSE, TypeOK, RoundInv, LoadInv, LoadInv', [Next]_vars,
         pending_commit # {} => HasOwn(commit_round) \/ Full(commit_round),
         pending_commit' # {}
  PROVE  HasOwn(commit_round)' \/ Full(commit_round)'
  <1>1. Taken = commit_round.candidates  BY TakeEmpties
  <1>2. ASSUME Approves  PROVE HasOwn(commit_round)' \/ Full(commit_round)'
    <2>1. \A q : commit_round.candidates \subseteq Replayed(q).candidates
      BY <1>1 DEF Replayed
    <2> QED  BY <1>2, <2>1, MintKeepsHold DEF Approves
  <1>3. ASSUME Mints  PROVE HasOwn(commit_round)' \/ Full(commit_round)'
    BY <1>3, MintKeepsHold DEF Mints
  <1>4. ASSUME Receives  PROVE HasOwn(commit_round)' \/ Full(commit_round)'
    <2>1. \A c : commit_round.candidates \subseteq Buffer(commit_round, c).candidates
      BY DEF Buffer, RoundInv
    <2> QED  BY <1>4, <2>1, MintKeepsHold DEF Receives
  <1>5. ASSUME Stashes  PROVE HasOwn(commit_round)' \/ Full(commit_round)'
    BY <1>5 DEF Stashes, HasOwn, Full
  <1>6. ~Merges /\ ~Spends  BY DEF Merges, MergeWinner, Spends
  <1> QED  BY <1>2, <1>3, <1>4, <1>5, <1>6, EveryStepMoves DEF RoundMove

\* The freezing step of a poll follows the end of its drain at once.
LEMMA FreezingAfterDrain ==
  ASSUME [Next]_vars, pc' = "freezing"
  PROVE  DrainEnd \/ UNCHANGED vars
  <1>1. ~(ResolveChange \/ ResolveElection \/ ResolveEmergency)
    BY DEF ResolveChange, ResolveElection, ResolveEmergency, AcceptChange, DropChange,
           AcceptElection, RejectElection, AcceptDeadlock, AcceptScore, CloseEmergency, Drained
  <1>2. ~(FreezeWaits \/ FinalizeRound \/ PollTail)
    BY DEF FreezeWaits, FinalizeRound, CommitEjects, CommitUpdates, NothingToCommit, CommitMissed,
           RecoveryRoundFails, RoundFails, FinalizeFails, PollTail, TailIdle, ArmInactivity,
           FreezeOnInactivity, SilenceWait, SilenceElapsed
  <1>3. ~Inbound
    BY DEF Inbound, StashCandidate, ReceiveCandidate, IncomingChange, IncomingElection,
           IncomingEmergency, ReceiveSync, Idle
  <1>4. ~(Intents \/ Tick)
    BY DEF Intents, OwnChange, Leave, OwnEmergency, CommitInRecovery, Idle, Tick
  <1> QED  BY <1>1, <1>2, <1>3, <1>4 DEF Next, TornDown

LEMMA StepMintInv ==
  ASSUME FinalizeMayFail = FALSE, TypeOK, RoundInv, LoadInv, LoadInv', MintInv, [Next]_vars
  PROVE  MintInv'
  <1>1. pending_commit' # {} => HasOwn(commit_round)' \/ Full(commit_round)'
    BY StepHolds DEF MintInv
  <1>2. ASSUME pc' = "freezing", mode' = "Recovery", AutoCommitDelay # Never,
               phase_timer' >= AutoCommitDelay
        PROVE  HasOwn(commit_round)' \/ CannotMint' \/ Full(commit_round)'
    <2>1. CASE UNCHANGED vars
      BY <1>2, <2>1 DEF MintInv, vars, machine, mls, queues, HasOwn, Full, CannotMint
    <2>2. CASE DrainEnd
      <3>1. /\ state = "Freezing" /\ mode = "Recovery" /\ phase_timer >= AutoCommitDelay
            /\ UNCHANGED <<group, approved, urgent>>
        BY <1>2, <2>2 DEF DrainEnd, machine
      <3>2. CASE AutoCommitDue
        <4>1. MintInto(TRUE, approved, urgent, commit_round)  BY <2>2, <3>2 DEF DrainEnd
        <4>2. \/ HasOwn(commit_round') \/ Full(commit_round')
              \/ /\ commit_round' = commit_round
                 /\ CannotMint \/ pending_commit # {}
          BY <4>1, MintHolds DEF CannotMint
        <4> QED  BY <3>1, <4>2 DEF MintInv, HasOwn, Full, CannotMint
      <3>3. CASE ~AutoCommitDue
        <4>1. commit_round' = commit_round  BY <2>2, <3>3 DEF DrainEnd
        <4>2. HasOwn(commit_round)  BY <1>2, <3>1, <3>3 DEF AutoCommitDue, HasOwn
        <4> QED  BY <4>1, <4>2 DEF HasOwn
      <3> QED  BY <3>2, <3>3
    <2> QED  BY <1>2, <2>1, <2>2, FreezingAfterDrain
  <1> QED  BY <1>1, <1>2 DEF MintInv

\* Only a failed recovery round is counted.
LEMMA CountedRoundFailed ==
  ASSUME FinalizeMayFail = FALSE, TypeOK, [Next]_vars, recovery_rounds' > recovery_rounds
  PROVE  RecoveryRoundFails
  <1>0. recovery_rounds \in Nat  BY DEF TypeOK
  <1>1. recovery_rounds' # recovery_rounds /\ recovery_rounds' # 0  BY <1>0
  <1>2. ~(ResolveChange \/ ResolveElection \/ ResolveEmergency \/ DrainEnd)
    BY <1>1
       DEF ResolveChange, ResolveElection, ResolveEmergency, AcceptChange, DropChange,
           AcceptElection, RejectElection, AcceptDeadlock, AcceptScore, CloseEmergency, DrainEnd,
           machine
  <1>3. ~(FreezeWaits \/ PollTail)
    BY <1>1 DEF FreezeWaits, PollTail, TailIdle, ArmInactivity, FreezeOnInactivity, SilenceWait,
                SilenceElapsed, machine
  <1>4. ~Inbound
    BY <1>1 DEF Inbound, StashCandidate, ReceiveCandidate, IncomingChange, IncomingElection,
                IncomingEmergency, ReceiveSync, machine
  <1>5. ~(Intents \/ Tick \/ TornDown \/ UNCHANGED vars)
    BY <1>1 DEF Intents, OwnChange, Leave, OwnEmergency, CommitInRecovery, Tick, TornDown, vars,
                machine
  <1>6. FinalizeRound  BY <1>2, <1>3, <1>4, <1>5 DEF Next
  <1> QED
    BY <1>1, <1>6 DEF FinalizeRound, CommitEjects, CommitUpdates, NothingToCommit, CommitMissed,
                      FinalizeFails

\* An own candidate always wins or loses to another: recovery counts no more
\* than the queue holds.
LEMMA OwnCandidateSuffices ==
  ASSUME TypeOK, RoundInv, WorkInv, mode = "Recovery", HasOwn(commit_round)
  PROVE  RoundWinners # {}
  <1>1. PICK c \in commit_round.candidates : c.from = Self  BY DEF HasOwn
  <1>2. Taken = commit_round.candidates /\ Taken \in SUBSET Candidates
    BY TakeEmpties, TakenType
  <1>3. c.batch \subseteq ChangesOf(approved) /\ IsFiniteSet(approved.entries)
    BY <1>1 DEF RoundInv, OwnIsVoted, WorkInv
  <1>4. Cardinality(c.batch) <= Cardinality(approved.entries)
    <2> DEFINE f == [e \in approved.entries |-> e.change]
               T == ChangesOf(approved)
    <2>1. f \in Surjection(approved.entries, T)  BY DEF Surjection, ChangesOf
    <2> HIDE DEF f, T
    <2>2. IsFiniteSet(T) /\ Cardinality(T) <= Cardinality(approved.entries)
      BY <1>3, <2>1, FS_Surjection
    <2>3. IsFiniteSet(c.batch) /\ Cardinality(c.batch) <= Cardinality(T)
      BY <1>3, <2>2, FS_Subset DEF T
    <2>4. /\ Cardinality(c.batch) \in Nat /\ Cardinality(T) \in Nat
          /\ Cardinality(approved.entries) \in Nat
      BY <1>3, <2>2, <2>3, FS_CardinalityType
    <2> QED  BY <2>2, <2>3, <2>4
  <1>5. CountMatches(c, CountOf(approved), TRUE)  BY <1>4 DEF CountMatches, CountOf
  <1>6. (mode = "Recovery" \/ AllowSubset) = TRUE  OBVIOUS
  <1>7. RoundWinners = Winners(Taken, Self, approved, Authorised, TRUE,
                               EpochSteward(list, group.epoch, Eligible(group, approved)))
    BY <1>6 DEF RoundWinners
  <1> QED  BY <1>1, <1>2, <1>3, <1>5, <1>7, SomeoneWins

LEMMA StepLandsWork ==
  ASSUME FinalizeMayFail = FALSE, TypeOK, RoundInv, WorkInv, MintInv, [Next]_vars,
         recovery_rounds' > recovery_rounds, AutoCommitDelay # Never
  PROVE  CannotMint \/ Cardinality(Taken) >= Cardinality(group.members)
  <1>1. RecoveryRoundFails  BY CountedRoundFailed
  <1>2. pc = "freezing" /\ mode = "Recovery" /\ RoundReady /\ RoundWinners = {}
    BY <1>1 DEF RecoveryRoundFails, RoundFails
  <1>3. phase_timer >= AutoCommitDelay
    <2>1. phase_timer >= RetryWindow + AutoCommitDelay
      BY <1>2 DEF RoundReady, FreezeWindow
    <2>2. RetryWindow \in Nat /\ AutoCommitDelay \in Nat /\ phase_timer \in Int
      BY TimingAssumption DEF TypeOK, Off, Never
    <2> QED  BY <2>1, <2>2
  <1>4. ~HasOwn(commit_round)  BY <1>2, OwnCandidateSuffices
  <1>5. CannotMint \/ Full(commit_round)  BY <1>2, <1>3, <1>4 DEF MintInv
  <1> QED  BY <1>5, TakeEmpties DEF Full

\* If finalizing never hits a local error, then with the automatic fallback on a
\* recovery round is counted as failed only if this member had nothing to mint,
\* is being removed or found the round full: whatever was approved, replayed or
\* minted before, its own candidate is there to win.  The assumption is needed:
\* the error path takes the round and keeps the commit pending, which blocks the
\* next mint (poll.rs maybe_auto_commit_recovery, retry_or_exhaust_recovery).
THEOREM RecoveryIsNotWasted ==
  ASSUME FinalizeMayFail = FALSE
  PROVE  Spec => RecoveryLandsWork
  <1>1. Init => MintInv  BY DEF Init, MintInv
  <1>2. TypeOK /\ RoundInv /\ LoadInv /\ LoadInv' /\ MintInv /\ [Next]_vars => MintInv'
    BY StepMintInv
  <1>3. TypeOK /\ RoundInv /\ WorkInv /\ MintInv /\ [Next]_vars
          => [recovery_rounds' > recovery_rounds /\ AutoCommitDelay # Never =>
                \/ MintedBatch(approved, urgent, group.members, BatchMax) = {}
                \/ HasRemoval(approved, Self)
                \/ Cardinality(Taken) >= Cardinality(group.members)]_vars
    BY StepLandsWork DEF CannotMint
  <1> QED
    BY <1>1, <1>2, <1>3, TypeCorrect, RoundInvariant, LoadInvariant, WorkInvariant, PTL
       DEF Spec, RecoveryLandsWork
===============================================================================
