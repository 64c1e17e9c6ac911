-------------------------- MODULE ConversationProofs --------------------------
(***************************************************************************)
(* Theorems about Conversation for every choice of its constants: any      *)
(* group, any set of changes, emergencies and peer messages, any windows   *)
(* and any bounds.                                                         *)
(***************************************************************************)
EXTENDS Conversation, FiniteSetTheorems, TLAPS

ListType  == [pool : SUBSET Ids, epoch : Nat, round : Nat]
GroupType == [epoch : Nat, members : SUBSET Ids, join_epoch : [Ids -> Nat]]
QueueType == [next : Nat, entries : SUBSET [at : Nat, change : Changes]]
RoundType == [epoch : Nat, candidates : SUBSET Candidates]
StashType == SUBSET [epoch : Nat, cand : Candidates]
Votes     == ChangeProposals \cup Elections \cup EmergencyProposals

------------------------------------------------------------------------------
\* What the operators of the model return

\* A proposal in flight is what its kind says.
LEMMA ProposalKinds ==
  ASSUME NEW p \in Votes
  PROVE  /\ p.kind = "change" => p \in ChangeProposals
         /\ p.kind = "election" => p \in Elections
         /\ p.kind = "score" => p.target \in Ids /\ Remove(p.target) \in Changes
         /\ p.kind = "deadlock" => p \in EmergencyProposals
         /\ p \in EmergencyProposals <=> p.kind \notin {"change", "election"}
  BY ChangesAssumption
     DEF Votes, ChangeProposals, Elections, EmergencyProposals, Deadlock, Remove

\* A vote on a known change is a vote.
LEMMA ChangeProposalType ==
  ASSUME NEW c \in Changes, NEW solo \in BOOLEAN
  PROVE  ChangeProposal(c, solo) \in ChangeProposals
  BY DEF ChangeProposal, ChangeProposals

\* insert_approved_proposal keeps the queue well formed.
LEMMA EnqueueType ==
  ASSUME NEW q \in QueueType, NEW c \in Changes
  PROVE  Enqueue(q, c) \in QueueType
  BY DEF QueueType, Enqueue

\* Whatever a commit leaves queued is a queue.
LEMMA QueueAfterType ==
  ASSUME NEW q \in QueueType, NEW t, NEW b
  PROVE  QueueAfter(q, t, b) \in QueueType
  BY DEF QueueType, QueueAfter, DropRemovals, EmptyQueue

\* Every queued change is one that can be proposed.
LEMMA ChangesOfType ==
  ASSUME NEW q \in QueueType
  PROVE  ChangesOf(q) \subseteq Changes
  BY DEF QueueType, ChangesOf

\* build_local_candidate commits approved changes only.
LEMMA MintedIsQueued ==
  ASSUME NEW q \in QueueType, NEW t, NEW members, NEW k
  PROVE  MintedBatch(q, t, members, k) \subseteq ChangesOf(q)
  BY DEF MintedBatch, FirstOf, ChangesOf

\* Settled members are members.
LEMMA SettledType ==
  ASSUME NEW g \in GroupType, NEW e
  PROVE  Settled(g, e) \in SUBSET Ids
  BY DEF GroupType, Settled

\* Merging a commit of known changes yields a group.
LEMMA MergeType ==
  ASSUME NEW g \in GroupType, NEW b \in SUBSET Changes
  PROVE  Merge(g, b) \in GroupType
  BY ChangesAssumption DEF GroupType, Merge

\* bump_retry counts in the naturals.
LEMMA BumpType ==
  ASSUME NEW r \in Nat
  PROVE  Bump(r) \in Nat
  BY TimingAssumption DEF Bump

\* reconcile_steward_list leaves a list.
LEMMA ReconciledType ==
  ASSUME NEW l \in ListType, NEW g \in GroupType
  PROVE  Reconciled(l, g) \in ListType
  <1>1. Settled(g, g.epoch) \in SUBSET Ids /\ g.epoch \in Nat
    BY SettledType DEF GroupType
  <1> QED  BY <1>1 DEF ListType, Reconciled

\* initiate_steward_election adds elections and nothing else.
LEMMA InitiateElectionType ==
  ASSUME NEW recovery, NEW votes, NEW allowed, NEW g \in GroupType, NEW q, NEW l,
         NEW r \in Nat
  PROVE  /\ votes \subseteq InitiateElection(recovery, votes, allowed, g, q, l, r)
         /\ \A p \in InitiateElection(recovery, votes, allowed, g, q, l, r) :
              p \in votes \/ p \in Elections
  <1>1. Settled(g, g.epoch) \in SUBSET Ids /\ g.epoch \in Nat
    BY SettledType DEF GroupType
  <1>2. \A p \in OwnElection(recovery, g, q, l, r) : p \in Elections
    BY <1>1 DEF OwnElection, Elections
  <1> QED  BY <1>2 DEF InitiateElection

\* CommitRoundBuffer::add
LEMMA BufferType ==
  ASSUME TypeOK, NEW r \in RoundType, NEW c \in Candidates
  PROVE  Buffer(r, c) \in RoundType
  BY DEF RoundType, TypeOK, Buffer

\* take
LEMMA TakenType ==
  ASSUME TypeOK
  PROVE  Taken \in SUBSET Candidates /\ AfterTake \in RoundType
  BY DEF TypeOK, Taken, AfterTake, RoundType

\* replay_early_candidates
LEMMA ReplayedType ==
  ASSUME TypeOK, NEW q
  PROVE  Replayed(q) \in RoundType /\ StashAfter(q) \in StashType
  <1>1. Taken \in SUBSET Candidates  BY TakenType
  <1>2. \A e \in early : e.cand \in Candidates  BY DEF TypeOK
  <1> QED  BY <1>1, <1>2 DEF TypeOK, Replayed, StashAfter, RoundType, StashType

\* A mint leaves a pending commit of approved changes and a round.
LEMMA MintIntoType ==
  ASSUME TypeOK, NEW permitted, NEW q \in QueueType, NEW t, NEW r \in RoundType,
         MintInto(permitted, q, t, r)
  PROVE  pending_commit' \in SUBSET Changes /\ commit_round' \in RoundType
  <1> DEFINE batch == MintedBatch(q, t, group.members, BatchMax)
             own   == [from |-> Self, batch |-> batch, stages |-> TRUE]
  <1>1. batch \in SUBSET Changes  BY MintedIsQueued, ChangesOfType
  <1>2. own \in Candidates  BY <1>1, IdsAssumption DEF Candidates
  <1>3. Buffer(r, own) \in RoundType  BY <1>2, BufferType
  <1>4. pending_commit \in SUBSET Changes  BY DEF TypeOK
  <1>5. pending_commit' \in {batch, pending_commit} /\ commit_round' \in {Buffer(r, own), r}
    BY DEF MintInto
  <1> QED  BY <1>1, <1>3, <1>4, <1>5

\* start_freezing and on_freeze_entered
LEMMA EnterFreezingType ==
  ASSUME TypeOK, NEW q \in QueueType, NEW t, NEW r \in RoundType,
         EnterFreezing(q, t, r)
  PROVE  /\ state' = "Freezing" /\ phase_timer' = 0
         /\ pending_commit' \in SUBSET Changes /\ commit_round' \in RoundType
  BY MintIntoType DEF EnterFreezing

\* advance_election_retry adds elections and the Deadlock proposal only, and
\* the latter is also an active emergency.
LEMMA AdvanceRetryType ==
  ASSUME TypeOK, NEW votes, AdvanceRetry(votes)
  PROVE  /\ next_round' \in Nat
         /\ \/ /\ emergency' = emergency \cup {Deadlock}
               /\ voting' = votes \cup {Deadlock}
            \/ /\ emergency' = emergency
               /\ votes \subseteq voting'
               /\ \A p \in voting' : p \in votes \/ p \in Elections
  <1> DEFINE round == Bump(next_round)
             more  == InitiateElection(TRUE, votes, ElectionAllowed(state, emergency),
                                       group, approved, list, round)
  <1>1. group \in GroupType /\ next_round \in Nat  BY DEF TypeOK, GroupType
  <1>2. round \in Nat  BY <1>1, BumpType
  <1>3. votes \subseteq more /\ \A p \in more : p \in votes \/ p \in Elections
    BY <1>1, <1>2, InitiateElectionType
  <1>4. \/ /\ emergency' = emergency \cup {Deadlock}
           /\ voting' = votes \cup {Deadlock}
        \/ /\ emergency' = emergency
           /\ voting' \in {votes, more}
    BY DEF AdvanceRetry
  <1> QED  BY <1>2, <1>3, <1>4 DEF AdvanceRetry

\* A candidate the round may apply was buffered for it.
LEMMA WinnerType ==
  ASSUME TypeOK, NEW w \in RoundWinners
  PROVE  w \in Taken /\ w \in Candidates /\ w.batch \in SUBSET Changes
  <1>1. w \in Taken  BY DEF RoundWinners, Winners
  <1> QED  BY <1>1, TakenType DEF Candidates

------------------------------------------------------------------------------
\* Type correctness

LEMMA InitTypeOK == Init => TypeOK
  <1> SUFFICES ASSUME Init PROVE TypeOK  OBVIOUS
  <1>1. list \in ListType
    <2>1. [pool |-> InitMembers, epoch |-> 1, round |-> 0] \in ListType
      BY IdsAssumption DEF ListType
    <2>2. NoList \in ListType
      BY DEF NoList, ListType
    <2>3. list = [pool |-> InitMembers, epoch |-> 1, round |-> 0] \/ list = NoList
      BY Zenon DEF Init
    <2> QED  BY <2>1, <2>2, <2>3
  <1>2. approved \in QueueType
    BY DEF Init, EmptyQueue, QueueType
  <1>3. group \in GroupType
    BY IdsAssumption DEF Init, GroupType
  <1> QED  BY <1>1, <1>2, <1>3 DEF Init, TypeOK, ListType, QueueType, GroupType, Off

LEMMA DrainTypeOK ==
  ASSUME TypeOK, NEW p \in voting
  PROVE  AcceptChange(p) \/ DropChange(p) \/ AcceptElection(p) \/ RejectElection(p)
           \/ AcceptDeadlock(p) \/ AcceptScore(p) \/ CloseEmergency(p) => TypeOK'
  <1>1. /\ approved \in QueueType /\ group \in GroupType /\ next_round \in Nat
        /\ voting \subseteq Votes /\ emergency \subseteq EmergencyProposals /\ p \in Votes
    BY DEF TypeOK, QueueType, GroupType, Votes
  <1>2. ASSUME AcceptChange(p) PROVE TypeOK'
    <2> DEFINE queue == Enqueue(approved, p.change)
               votes == voting \ {p}
               more  == InitiateElection(TRUE, votes, ElectionAllowed(state, emergency),
                                         group, queue, list, next_round)
    <2>1. p.change \in Changes
      BY <1>1, <1>2, ProposalKinds DEF AcceptChange, ChangeProposals
    <2>2. queue \in QueueType  BY <1>1, <2>1, EnqueueType
    <2>3. Replayed(queue) \in RoundType /\ StashAfter(queue) \in StashType
      BY ReplayedType
    <2>4. more \subseteq Votes  BY <1>1, InitiateElectionType DEF Votes
    <2>5. voting' \subseteq Votes
      BY <1>1, <1>2, <2>4 DEF AcceptChange
    <2> QED
      BY <1>2, <2>2, <2>3, <2>5
         DEF AcceptChange, Drained, Draining, TypeOK, machine, timing, service, mls,
             QueueType, RoundType, StashType, Votes
  <1>3. ASSUME DropChange(p) PROVE TypeOK'
    BY <1>3 DEF DropChange, Drained, Draining, TypeOK, machine, timing, service, mls
  <1>4. ASSUME AcceptElection(p) PROVE TypeOK'
    <2>1. p \in Elections
      BY <1>1, <1>4, ProposalKinds DEF AcceptElection
    <2>2. list' \in ListType
      BY <1>4, <2>1 DEF AcceptElection, TypeOK, ListType, Elections
    <2> QED
      BY <1>4, <2>2 DEF AcceptElection, Drained, Draining, TypeOK, mls, ListType
  <1>5. ASSUME RejectElection(p) PROVE TypeOK'
    <2>1. AdvanceRetry(voting \ {p})  BY <1>5 DEF RejectElection
    <2>2. /\ next_round' \in Nat /\ voting' \subseteq Votes
          /\ emergency' \subseteq EmergencyProposals
      BY <1>1, <2>1, AdvanceRetryType DEF Votes, EmergencyProposals
    <2> QED
      BY <1>5, <2>2
         DEF RejectElection, Drained, Draining, TypeOK, machine, timing, mls, Votes
  <1>6. ASSUME AcceptDeadlock(p) PROVE TypeOK'
    BY <1>6 DEF AcceptDeadlock, Drained, Draining, TypeOK, timing, service, mls
  <1>7. ASSUME AcceptScore(p) PROVE TypeOK'
    <2> DEFINE queue == Enqueue(approved, Remove(p.target))
    <2>1. p.target \in Ids /\ Remove(p.target) \in Changes
      BY <1>1, <1>7, ProposalKinds DEF AcceptScore
    <2>2. queue \in QueueType  BY <1>1, <2>1, EnqueueType
    <2>3. Replayed(queue) \in RoundType /\ StashAfter(queue) \in StashType
      BY ReplayedType
    <2>4. CASE state \in {"Working", "Reelection"}
      <3>1. EnterFreezing(queue, p.target, Replayed(queue))
        BY <1>7, <2>4 DEF AcceptScore
      <3>2. /\ state' = "Freezing" /\ phase_timer' = 0
            /\ pending_commit' \in SUBSET Changes /\ commit_round' \in RoundType
        BY <2>2, <2>3, <3>1, EnterFreezingType
      <3> QED
        BY <1>7, <2>1, <2>2, <2>3, <3>2
           DEF AcceptScore, Drained, Draining, TypeOK, timing, service, QueueType,
               RoundType, StashType
    <2>5. CASE state \notin {"Working", "Reelection"}
      BY <1>7, <2>1, <2>2, <2>3, <2>5
         DEF AcceptScore, Drained, Draining, TypeOK, timing, service, QueueType,
             RoundType, StashType
    <2> QED  BY <2>4, <2>5
  <1>8. ASSUME CloseEmergency(p) PROVE TypeOK'
    BY <1>8
       DEF CloseEmergency, EmergencyScored, Drained, Draining, TypeOK, timing, service, mls, Off
  <1> QED  BY <1>2, <1>3, <1>4, <1>5, <1>6, <1>7, <1>8

LEMMA RoundTypeOK ==
  ASSUME TypeOK
  PROVE  DrainEnd \/ FreezeWaits \/ FinalizeRound => TypeOK'
  <1>1. /\ approved \in QueueType /\ group \in GroupType /\ commit_round \in RoundType
        /\ list \in ListType /\ voting \subseteq Votes /\ recovery_rounds \in Nat
    BY DEF TypeOK, QueueType, GroupType, RoundType, ListType, Votes
  <1>2. AfterTake \in RoundType  BY TakenType
  <1>3. ASSUME DrainEnd PROVE TypeOK'
    <2>1. pending_commit' \in SUBSET Changes /\ commit_round' \in RoundType
      <3>1. CASE AutoCommitDue
        BY <1>1, <1>3, <3>1, MintIntoType DEF DrainEnd
      <3>2. CASE ~AutoCommitDue
        BY <1>1, <1>3, <3>2 DEF DrainEnd, TypeOK
      <3> QED  BY <3>1, <3>2
    <2> QED
      BY <1>3, <2>1 DEF DrainEnd, TypeOK, machine, timing, service, RoundType
  <1>4. ASSUME FreezeWaits PROVE TypeOK'
    BY <1>4 DEF FreezeWaits, TypeOK, machine, timing, service, mls, queues
  <1>5. ASSUME NEW w \in RoundWinners, MergeWinner(w)
        PROVE  /\ group' = Merge(group, w.batch) /\ group' \in GroupType
               /\ approved' = QueueAfter(approved, urgent, w.batch) /\ approved' \in QueueType
               /\ urgent' = NoMember /\ pending_commit' = {} /\ mode' = "Normal"
               /\ commit_round' \in RoundType
    <2>1. w.batch \in SUBSET Changes  BY WinnerType
    <2>2. Merge(group, w.batch) \in GroupType  BY <1>1, <2>1, MergeType
    <2>3. QueueAfter(approved, urgent, w.batch) \in QueueType  BY <1>1, QueueAfterType
    <2> QED  BY <1>2, <1>5, <2>2, <2>3 DEF MergeWinner
  <1>6. ASSUME NEW w \in RoundWinners, CommitEjects(w) PROVE TypeOK'
    <2>1. MergeWinner(w)  BY <1>6 DEF CommitEjects
    <2> QED
      BY <1>5, <1>6, <2>1
         DEF CommitEjects, TypeOK, timing, service, GroupType, QueueType, RoundType
  <1>7. ASSUME NEW w \in RoundWinners, CommitUpdates(w) PROVE TypeOK'
    <2> DEFINE g == Merge(group, w.batch)
               queue == QueueAfter(approved, urgent, w.batch)
               more == InitiateElection(FALSE, voting, ElectionAllowed("Working", emergency),
                                        g, queue, list, 0)
    <2>1. MergeWinner(w)  BY <1>7 DEF CommitUpdates
    <2>2. g \in GroupType  BY <1>5, <2>1
    <2>3. Reconciled(list, g) \in ListType  BY <1>1, <2>2, ReconciledType
    <2>4. more \subseteq Votes  BY <1>1, <2>2, InitiateElectionType DEF Votes
    <2>5. list' \in ListType /\ voting' \subseteq Votes
      BY <1>1, <1>7, <2>3, <2>4 DEF CommitUpdates
    <2> QED
      BY <1>5, <1>7, <2>1, <2>5
         DEF CommitUpdates, TypeOK, GroupType, QueueType, RoundType, ListType, Votes
  <1>8. ASSUME NothingToCommit PROVE TypeOK'
    <2>1. [AfterTake EXCEPT !.candidates = {}] \in RoundType  BY <1>2 DEF RoundType
    <2> QED
      BY <1>8, <2>1
         DEF NothingToCommit, RoundFails, TypeOK, timing, service, RoundType
  <1>9. ASSUME CommitMissed PROVE TypeOK'
    <2> DEFINE more == InitiateElection(TRUE, voting,
                         ElectionAllowed("Reelection", emergency), group, approved, list,
                         next_round)
    <2>1. next_round \in Nat  BY DEF TypeOK
    <2>2. more \subseteq Votes  BY <1>1, <2>1, InitiateElectionType DEF Votes
    <2> QED
      BY <1>2, <1>9, <2>2
         DEF CommitMissed, RoundFails, TypeOK, timing, service, RoundType, Votes
  <1>10. ASSUME RetryOrExhaust
         PROVE  /\ recovery_rounds' \in Nat /\ mode' \in {"Normal", mode}
                /\ state' \in {"Working", "Freezing"} /\ phase_timer' \in {Off, 0}
    BY <1>1, <1>10 DEF RetryOrExhaust
  <1>11. ASSUME RecoveryRoundFails PROVE TypeOK'
    <2>1. RetryOrExhaust  BY <1>11 DEF RecoveryRoundFails
    <2> QED
      BY <1>2, <1>10, <1>11, <2>1
         DEF RecoveryRoundFails, RoundFails, TypeOK, timing, service, RoundType, Off
  <1>12. ASSUME FinalizeFails PROVE TypeOK'
    <2>1. /\ recovery_rounds' \in Nat /\ mode' \in {"Normal", mode}
          /\ state' \in {"Working", "Freezing"} /\ phase_timer' \in {Off, 0}
      BY <1>1, <1>10, <1>12 DEF FinalizeFails, RecoverFromFinalizeError
    <2> QED
      BY <1>2, <1>12, <2>1
         DEF FinalizeFails, TypeOK, timing, service, mls, RoundType, Off
  <1> QED
    BY <1>3, <1>4, <1>6, <1>7, <1>8, <1>9, <1>11, <1>12 DEF FinalizeRound

LEMMA TailTypeOK ==
  ASSUME TypeOK
  PROVE  PollTail \/ Tick \/ TornDown => TypeOK'
  <1>1. /\ approved \in QueueType /\ commit_round \in RoundType
        /\ voting \subseteq Votes /\ emergency \subseteq EmergencyProposals
    BY DEF TypeOK, QueueType, RoundType, Votes
  <1>2. ASSUME TailIdle PROVE TypeOK'
    BY <1>2 DEF TailIdle, TypeOK, machine, service, mls, queues
  <1>3. ASSUME ArmInactivity PROVE TypeOK'
    BY <1>3 DEF ArmInactivity, TypeOK, service, mls, queues
  <1>4. ASSUME FreezeOnInactivity PROVE TypeOK'
    <2>1. EnterFreezing(approved, urgent, commit_round)
      BY <1>4 DEF FreezeOnInactivity
    <2>2. /\ state' = "Freezing" /\ phase_timer' = 0
          /\ pending_commit' \in SUBSET Changes /\ commit_round' \in RoundType
      BY <1>1, <2>1, EnterFreezingType
    <2> QED
      BY <1>4, <2>2 DEF FreezeOnInactivity, TypeOK, service, RoundType
  <1>5. ASSUME SilenceWait PROVE TypeOK'
    BY <1>5 DEF SilenceWait, TypeOK, machine, service, mls, queues
  <1>6. ASSUME SilenceElapsed PROVE TypeOK'
    <2>1. AdvanceRetry(voting)  BY <1>6 DEF SilenceElapsed
    <2>2. /\ next_round' \in Nat /\ voting' \subseteq Votes
          /\ emergency' \subseteq EmergencyProposals
      BY <1>1, <2>1, AdvanceRetryType DEF Votes, EmergencyProposals
    <2> QED
      BY <1>6, <2>2 DEF SilenceElapsed, TypeOK, machine, mls, Votes
  <1>7. ASSUME Tick PROVE TypeOK'
    BY <1>7, TimingAssumption DEF Tick, Idle, TypeOK, service, mls, queues, Off
  <1>8. ASSUME TornDown PROVE TypeOK'
    BY <1>8 DEF TornDown, TypeOK, vars, machine, timing, service, mls, queues
  <1> QED
    BY <1>2, <1>3, <1>4, <1>5, <1>6, <1>7, <1>8 DEF PollTail

LEMMA InputTypeOK ==
  ASSUME TypeOK
  PROVE  Inbound \/ Intents => TypeOK'
  <1>1. /\ approved \in QueueType /\ commit_round \in RoundType /\ group \in GroupType
        /\ voting \subseteq Votes
    BY DEF TypeOK, QueueType, RoundType, GroupType, Votes
  <1>2. \A o \in Offers, stages \in BOOLEAN :
          [from |-> o.from, batch |-> o.batch, stages |-> stages] \in Candidates
    BY ChangesAssumption DEF Candidates
  <1>3. ASSUME NEW o \in Offers, NEW stages \in BOOLEAN, StashCandidate(o, stages)
        PROVE  TypeOK'
    <2>1. [epoch |-> group.epoch,
           cand |-> [from |-> o.from, batch |-> o.batch, stages |-> stages]]
             \in [epoch : Nat, cand : Candidates]
      BY <1>1, <1>2 DEF GroupType
    <2>2. early' \subseteq [epoch : Nat, cand : Candidates]
      BY <1>3, <2>1 DEF StashCandidate, TypeOK
    <2> QED
      BY <1>3, <2>2 DEF StashCandidate, TypeOK, machine, timing, service, mls
  <1>4. ASSUME NEW o \in Offers, NEW stages \in BOOLEAN, ReceiveCandidate(o, stages)
        PROVE  TypeOK'
    <2> DEFINE cand == [from |-> o.from, batch |-> o.batch, stages |-> stages]
               r == Buffer(commit_round, cand)
    <2>1. r \in RoundType  BY <1>1, <1>2, BufferType
    <2>2. CASE state \in {"Working", "Reelection"}
      <3>1. EnterFreezing(approved, urgent, r)  BY <1>4, <2>2 DEF ReceiveCandidate
      <3>2. /\ state' = "Freezing" /\ phase_timer' = 0
            /\ pending_commit' \in SUBSET Changes /\ commit_round' \in RoundType
        BY <1>1, <2>1, <3>1, EnterFreezingType
      <3> QED
        BY <1>4, <3>2 DEF ReceiveCandidate, TypeOK, timing, service, RoundType
    <2>3. CASE state \notin {"Working", "Reelection"}
      BY <1>4, <2>1, <2>3 DEF ReceiveCandidate, TypeOK, timing, service, RoundType
    <2> QED  BY <2>2, <2>3
  <1>5. ASSUME NEW c \in Changes, NEW solo \in BOOLEAN, IncomingChange(c, solo)
        PROVE  TypeOK'
    BY <1>5, ChangeProposalType DEF IncomingChange, TypeOK, machine, timing, service, mls
  <1>6. ASSUME NEW round \in ElectionRounds,
               NEW pool \in ForeignPools \cup {Settled(group, group.epoch)},
               IncomingElection(round, pool)
        PROVE  TypeOK'
    <2>1. pool \in SUBSET Ids /\ round \in Nat
      BY <1>1, SettledType, IdsAssumption
    <2>2. [kind |-> "election", epoch |-> group.epoch, round |-> round, pool |-> pool]
            \in Elections
      BY <1>1, <2>1 DEF Elections, GroupType
    <2> QED
      BY <1>6, <2>2 DEF IncomingElection, TypeOK, machine, timing, service, mls
  <1>7. ASSUME NEW p \in Emergencies, IncomingEmergency(p) PROVE TypeOK'
    BY <1>7
       DEF IncomingEmergency, TypeOK, EmergencyProposals, machine, timing, service, mls
  <1>8. ASSUME NEW s \in SyncLists, ReceiveSync(s) PROVE TypeOK'
    BY <1>8, IdsAssumption DEF ReceiveSync, TypeOK, machine, timing, mls, queues
  <1>9. ASSUME NEW c \in Changes, OwnChange(c) PROVE TypeOK'
    <2>1. ChangeProposal(c, FALSE) \in ChangeProposals  BY ChangeProposalType
    <2> QED  BY <1>9, <2>1 DEF OwnChange, TypeOK, machine, timing, service, mls
  <1>10. ASSUME Leave PROVE TypeOK'
    <2>1. Remove(Self) \in Changes  BY ChangesAssumption
    <2>2. ChangeProposal(Remove(Self), TRUE) \in ChangeProposals
      BY <2>1, ChangeProposalType
    <2> QED  BY <1>10, <2>2 DEF Leave, TypeOK, machine, timing, service, mls
  <1>11. ASSUME NEW p \in Emergencies, OwnEmergency(p) PROVE TypeOK'
    BY <1>11
       DEF OwnEmergency, TypeOK, EmergencyProposals, machine, timing, service, mls
  <1>12. ASSUME CommitInRecovery PROVE TypeOK'
    <2>1. pending_commit' \in SUBSET Changes /\ commit_round' \in RoundType
      BY <1>1, <1>12, MintIntoType DEF CommitInRecovery
    <2> QED
      BY <1>12, <2>1 DEF CommitInRecovery, TypeOK, machine, timing, service, RoundType
  <1> QED
    BY <1>3, <1>4, <1>5, <1>6, <1>7, <1>8, <1>9, <1>10, <1>11, <1>12 DEF Inbound, Intents

LEMMA StepTypeOK == TypeOK /\ [Next]_vars => TypeOK'
  <1> SUFFICES ASSUME TypeOK, [Next]_vars PROVE TypeOK'  OBVIOUS
  <1>1. CASE UNCHANGED vars
    BY <1>1 DEF TypeOK, vars, machine, timing, service, mls, queues
  <1>2. CASE Next
    <2>1. ResolveChange \/ ResolveElection \/ ResolveEmergency => TypeOK'
      BY DrainTypeOK DEF ResolveChange, ResolveElection, ResolveEmergency
    <2> QED
      BY <1>2, <2>1, RoundTypeOK, TailTypeOK, InputTypeOK DEF Next
  <1> QED  BY <1>1, <1>2

\* Every variable keeps its type in every execution: queues only ever hold
\* changes, votes and candidates that were proposed, and timers and counters
\* stay in range.
THEOREM TypeCorrect == Spec => []TypeOK
  BY InitTypeOK, StepTypeOK, PTL DEF Spec

------------------------------------------------------------------------------
\* The phase machine

\* The phase invariants are inductive together with two facts about poll():
\* Selection is only ever seen by a member that was ejected, and the freezing
\* step of a poll still finds the phase it was entered for.
PhaseInv ==
  /\ RecoveryOnlyInFreezing
  /\ TimerMatchesPhase
  /\ ReelectionHoldsWork
  /\ RecoveryBelowStopLine
  /\ state = "Selection" => left
  /\ pc = "freezing" => state = "Freezing"

LEMMA InitPhaseInv == Init => PhaseInv
  BY DEF Init, PhaseInv, RecoveryOnlyInFreezing, TimerMatchesPhase, ReelectionHoldsWork,
         RecoveryBelowStopLine

LEMMA DrainPhaseInv ==
  ASSUME TypeOK, PhaseInv, NEW p \in voting
  PROVE  AcceptChange(p) \/ DropChange(p) \/ AcceptElection(p) \/ RejectElection(p)
           \/ AcceptDeadlock(p) \/ AcceptScore(p) \/ CloseEmergency(p) => PhaseInv'
  <1> USE DEF PhaseInv, RecoveryOnlyInFreezing, TimerMatchesPhase, ReelectionHoldsWork,
              RecoveryBelowStopLine, Drained, Draining
  <1>1. state \in {"Working", "Freezing", "Selection", "Reelection"}  BY DEF TypeOK
  <1>2. ASSUME AcceptChange(p) PROVE PhaseInv'
    <2>1. approved'.entries # {}  BY <1>2 DEF AcceptChange, Enqueue
    <2> QED  BY <1>2, <2>1 DEF AcceptChange, machine
  <1>3. ASSUME DropChange(p) PROVE PhaseInv'
    BY <1>3 DEF DropChange, machine
  <1>4. ASSUME AcceptElection(p) PROVE PhaseInv'
    BY <1>1, <1>4 DEF AcceptElection
  <1>5. ASSUME RejectElection(p) PROVE PhaseInv'
    BY <1>5 DEF RejectElection, machine
  <1>6. ASSUME AcceptDeadlock(p) PROVE PhaseInv'
    BY <1>1, <1>6, TimingAssumption DEF AcceptDeadlock, Off
  <1>7. ASSUME AcceptScore(p) PROVE PhaseInv'
    <2>1. approved'.entries # {}  BY <1>7 DEF AcceptScore, Enqueue
    <2>2. CASE state \in {"Working", "Reelection"}
      BY <1>7, <2>1, <2>2 DEF AcceptScore, EnterFreezing, Off
    <2>3. CASE state \notin {"Working", "Reelection"}
      BY <1>7, <2>1, <2>3 DEF AcceptScore
    <2> QED  BY <2>2, <2>3
  <1>8. ASSUME CloseEmergency(p) PROVE PhaseInv'
    BY <1>1, <1>8 DEF CloseEmergency, EmergencyScored
  <1> QED  BY <1>2, <1>3, <1>4, <1>5, <1>6, <1>7, <1>8

LEMMA RoundPhaseInv ==
  ASSUME TypeOK, PhaseInv
  PROVE  DrainEnd \/ FreezeWaits \/ FinalizeRound => PhaseInv'
  <1> USE DEF PhaseInv, RecoveryOnlyInFreezing, TimerMatchesPhase, ReelectionHoldsWork,
              RecoveryBelowStopLine
  <1>1. recovery_rounds \in Nat /\ MaxRounds \in Nat  BY TimingAssumption DEF TypeOK
  <1>2. ASSUME DrainEnd PROVE PhaseInv'
    BY <1>2 DEF DrainEnd, machine
  <1>3. ASSUME FreezeWaits PROVE PhaseInv'
    BY <1>3 DEF FreezeWaits, machine, queues
  <1>4. ASSUME NEW w \in RoundWinners, CommitEjects(w) PROVE PhaseInv'
    BY <1>4 DEF CommitEjects, MergeWinner
  <1>5. ASSUME NEW w \in RoundWinners, CommitUpdates(w) PROVE PhaseInv'
    BY <1>5 DEF CommitUpdates, MergeWinner
  <1>6. ASSUME NothingToCommit PROVE PhaseInv'
    BY <1>6 DEF NothingToCommit, RoundFails
  <1>7. ASSUME CommitMissed PROVE PhaseInv'
    BY <1>7 DEF CommitMissed, RoundFails, HasProposals
  <1>8. ASSUME RetryOrExhaust, pc' = "tail"
        PROVE  PhaseInv'
    BY <1>1, <1>8 DEF RetryOrExhaust, Off
  <1>9. ASSUME RecoveryRoundFails PROVE PhaseInv'
    BY <1>8, <1>9 DEF RecoveryRoundFails, RoundFails
  <1>10. ASSUME FinalizeFails PROVE PhaseInv'
    <2>1. CASE mode = "Recovery"
      BY <1>8, <1>10, <2>1 DEF FinalizeFails, RecoverFromFinalizeError
    <2>2. CASE mode # "Recovery"
      BY <1>10, <2>2 DEF FinalizeFails, RecoverFromFinalizeError
    <2> QED  BY <2>1, <2>2
  <1> QED
    BY <1>2, <1>3, <1>4, <1>5, <1>6, <1>7, <1>9, <1>10 DEF FinalizeRound

LEMMA TailPhaseInv ==
  ASSUME TypeOK, PhaseInv
  PROVE  PollTail \/ Tick \/ TornDown => PhaseInv'
  <1> USE DEF PhaseInv, RecoveryOnlyInFreezing, TimerMatchesPhase, ReelectionHoldsWork,
              RecoveryBelowStopLine
  <1>1. ASSUME TailIdle PROVE PhaseInv'
    BY <1>1 DEF TailIdle, machine, queues
  <1>2. ASSUME ArmInactivity PROVE PhaseInv'
    BY <1>2 DEF ArmInactivity, WorkWaits, queues
  <1>3. ASSUME FreezeOnInactivity PROVE PhaseInv'
    BY <1>3 DEF FreezeOnInactivity, WorkWaits, EnterFreezing, Off
  <1>4. ASSUME SilenceWait PROVE PhaseInv'
    BY <1>4 DEF SilenceWait, machine, queues
  <1>5. ASSUME SilenceElapsed PROVE PhaseInv'
    BY <1>5 DEF SilenceElapsed, machine
  <1>6. ASSUME Tick PROVE PhaseInv'
    <2>1. phase_timer' = Off <=> phase_timer = Off
      BY <1>6, TimingAssumption DEF Tick, TypeOK, Off
    <2> QED  BY <1>6, <2>1 DEF Tick, Idle, queues
  <1>7. ASSUME TornDown PROVE PhaseInv'
    BY <1>7 DEF TornDown, vars, machine, queues
  <1> QED  BY <1>1, <1>2, <1>3, <1>4, <1>5, <1>6, <1>7 DEF PollTail

LEMMA InputPhaseInv ==
  ASSUME TypeOK, PhaseInv
  PROVE  Inbound \/ Intents => PhaseInv'
  <1> USE DEF PhaseInv, RecoveryOnlyInFreezing, TimerMatchesPhase, ReelectionHoldsWork,
              RecoveryBelowStopLine
  <1>1. ASSUME NEW o \in Offers, NEW stages \in BOOLEAN, StashCandidate(o, stages)
        PROVE  PhaseInv'
    BY <1>1 DEF StashCandidate, machine
  <1>2. ASSUME NEW o \in Offers, NEW stages \in BOOLEAN, ReceiveCandidate(o, stages)
        PROVE  PhaseInv'
    <2>1. CASE state \in {"Working", "Reelection"}
      BY <1>2, <2>1 DEF ReceiveCandidate, EnterFreezing, Off
    <2>2. CASE state \notin {"Working", "Reelection"}
      BY <1>2, <2>2 DEF ReceiveCandidate
    <2> QED  BY <2>1, <2>2
  <1>3. ASSUME NEW c \in Changes, NEW solo \in BOOLEAN, IncomingChange(c, solo)
        PROVE  PhaseInv'
    BY <1>3 DEF IncomingChange, machine
  <1>4. ASSUME NEW round, NEW pool, IncomingElection(round, pool) PROVE PhaseInv'
    BY <1>4 DEF IncomingElection, machine
  <1>5. ASSUME NEW p, IncomingEmergency(p) PROVE PhaseInv'
    BY <1>5 DEF IncomingEmergency, machine
  <1>6. ASSUME NEW s, ReceiveSync(s) PROVE PhaseInv'
    BY <1>6 DEF ReceiveSync, machine, queues
  <1>7. ASSUME NEW c, OwnChange(c) PROVE PhaseInv'
    BY <1>7 DEF OwnChange, machine
  <1>8. ASSUME Leave PROVE PhaseInv'
    BY <1>8 DEF Leave, machine
  <1>9. ASSUME NEW p, OwnEmergency(p) PROVE PhaseInv'
    BY <1>9 DEF OwnEmergency, machine
  <1>10. ASSUME CommitInRecovery PROVE PhaseInv'
    BY <1>10 DEF CommitInRecovery, machine
  <1> QED
    BY <1>1, <1>2, <1>3, <1>4, <1>5, <1>6, <1>7, <1>8, <1>9, <1>10 DEF Inbound, Intents

LEMMA StepPhaseInv == TypeOK /\ PhaseInv /\ [Next]_vars => PhaseInv'
  <1> SUFFICES ASSUME TypeOK, PhaseInv, [Next]_vars PROVE PhaseInv'  OBVIOUS
  <1>1. CASE UNCHANGED vars
    BY <1>1 DEF PhaseInv, RecoveryOnlyInFreezing, TimerMatchesPhase, ReelectionHoldsWork,
                RecoveryBelowStopLine, vars, machine, queues
  <1>2. CASE Next
    <2>1. ResolveChange \/ ResolveElection \/ ResolveEmergency => PhaseInv'
      BY DrainPhaseInv DEF ResolveChange, ResolveElection, ResolveEmergency
    <2> QED
      BY <1>2, <2>1, RoundPhaseInv, TailPhaseInv, InputPhaseInv DEF Next
  <1> QED  BY <1>1, <1>2

LEMMA PhaseInvariant == Spec => []PhaseInv
  BY InitPhaseInv, StepPhaseInv, TypeCorrect, PTL DEF Spec

\* In every execution Recovery, which lets any member commit, is on only inside
\* an open collection window.
THEOREM RecoveryIsConfined == Spec => []RecoveryOnlyInFreezing
  <1>1. PhaseInv => RecoveryOnlyInFreezing  BY DEF PhaseInv
  <1> QED  BY <1>1, PhaseInvariant, PTL

\* In every execution each phase has the timer that ends it, and no timer of
\* another phase.
THEOREM PhasesAreTimed == Spec => []TimerMatchesPhase
  <1>1. PhaseInv => TimerMatchesPhase  BY DEF PhaseInv
  <1> QED  BY <1>1, PhaseInvariant, PTL

\* In every execution Reelection still holds the approved work it was entered
\* for.
THEOREM ReelectionKeepsWork == Spec => []ReelectionHoldsWork
  <1>1. PhaseInv => ReelectionHoldsWork  BY DEF PhaseInv
  <1> QED  BY <1>1, PhaseInvariant, PTL

\* In every execution an open recovery window is below the stop-line.
THEOREM StopLineHolds == Spec => []RecoveryBelowStopLine
  <1>1. PhaseInv => RecoveryBelowStopLine  BY DEF PhaseInv
  <1> QED  BY <1>1, PhaseInvariant, PTL

------------------------------------------------------------------------------
\* The queues

QueueInv ==
  /\ PartialFreezeMatchesVotes
  /\ QueuedOnce
  /\ UrgentTargetQueued

\* The emergencies among a set of votes
EmergenciesOf(votes) == {p \in votes : p.kind \notin {"change", "election"}}

\* Elections are no emergencies.
LEMMA ElectionsAreNoEmergencies ==
  ASSUME NEW votes, NEW more, votes \subseteq more,
         \A p \in more : p \in votes \/ p \in Elections
  PROVE  EmergenciesOf(more) = EmergenciesOf(votes)
  BY DEF EmergenciesOf, Elections

\* advance_election_retry tracks the Deadlock it files as a vote and as an
\* emergency.
LEMMA AdvanceRetryEmergencies ==
  ASSUME TypeOK, NEW votes, AdvanceRetry(votes), emergency = EmergenciesOf(votes)
  PROVE  emergency' = EmergenciesOf(voting')
  <1>1. CASE emergency' = emergency \cup {Deadlock} /\ voting' = votes \cup {Deadlock}
    BY <1>1 DEF EmergenciesOf, Deadlock
  <1>2. CASE /\ emergency' = emergency /\ votes \subseteq voting'
             /\ \A p \in voting' : p \in votes \/ p \in Elections
    BY <1>2, ElectionsAreNoEmergencies
  <1> QED  BY <1>1, <1>2, AdvanceRetryType

\* A change that is not queued may be queued.
LEMMA EnqueueOnce ==
  ASSUME NEW q \in QueueType, NEW c, c \notin ChangesOf(q),
         \A e, f \in q.entries : e.change = f.change => e = f
  PROVE  /\ \A e, f \in Enqueue(q, c).entries : e.change = f.change => e = f
         /\ ChangesOf(Enqueue(q, c)) = ChangesOf(q) \cup {c}
  <1> DEFINE new == [at |-> q.next, change |-> c]
  <1>1. Enqueue(q, c).entries = q.entries \cup {new} /\ new.change = c
    BY DEF Enqueue
  <1>2. \A e \in q.entries : e.change # c  BY DEF ChangesOf
  <1>3. ChangesOf(Enqueue(q, c)) = ChangesOf(q) \cup {c}
    BY <1>1 DEF ChangesOf
  <1> QED  BY <1>1, <1>2, <1>3

\* A commit only takes entries off the queue.
LEMMA QueueAfterSubset ==
  ASSUME NEW q \in QueueType, NEW t, NEW b
  PROVE  QueueAfter(q, t, b).entries \subseteq q.entries
  BY DEF QueueAfter, DropRemovals, EmptyQueue, QueueType

LEMMA InitQueueInv == Init => QueueInv
  BY DEF Init, QueueInv, PartialFreezeMatchesVotes, QueuedOnce, UrgentTargetQueued, EmptyQueue

LEMMA DrainQueueInv ==
  ASSUME TypeOK, QueueInv, NEW p \in voting
  PROVE  AcceptChange(p) \/ DropChange(p) \/ AcceptElection(p) \/ RejectElection(p)
           \/ AcceptDeadlock(p) \/ AcceptScore(p) \/ CloseEmergency(p) => QueueInv'
  <1> USE DEF QueueInv, PartialFreezeMatchesVotes, UrgentTargetQueued
  <1>1. /\ approved \in QueueType /\ group \in GroupType /\ next_round \in Nat
        /\ p \in Votes /\ emergency = EmergenciesOf(voting)
        /\ \A e, f \in approved.entries : e.change = f.change => e = f
    BY DEF TypeOK, QueueType, GroupType, Votes, EmergenciesOf, QueuedOnce
  <1>2. p.kind \in {"change", "election"} =>
          EmergenciesOf(voting \ {p}) = EmergenciesOf(voting)
    BY DEF EmergenciesOf
  <1>3. EmergenciesOf(voting \ {p}) = EmergenciesOf(voting) \ {p}
    BY DEF EmergenciesOf
  <1>4. ASSUME AcceptChange(p) PROVE QueueInv'
    <2> DEFINE queue == Enqueue(approved, p.change)
               votes == voting \ {p}
               more  == InitiateElection(TRUE, votes, ElectionAllowed(state, emergency),
                                         group, queue, list, next_round)
    <2>1. EmergenciesOf(more) = EmergenciesOf(votes)
      <3> HIDE DEF QueueInv
      <3>0. group \in GroupType /\ next_round \in Nat  BY <1>1
      <3>1. votes \subseteq more /\ \A x \in more : x \in votes \/ x \in Elections
        BY <3>0, InitiateElectionType
      <3> HIDE DEF more
      <3> QED  BY <3>1, ElectionsAreNoEmergencies
    <2>2. voting' \in {more, votes} /\ emergency' = emergency
      BY <1>4 DEF AcceptChange
    <2>3. emergency' = EmergenciesOf(voting')
      BY <1>1, <1>2, <1>4, <2>1, <2>2 DEF AcceptChange
    <2>4. approved' = queue /\ urgent' = urgent /\ p.change \notin ChangesOf(approved)
      BY <1>4 DEF AcceptChange, Duplicate
    <2>5. QueuedOnce' /\ ChangesOf(approved') = ChangesOf(approved) \cup {p.change}
      BY <1>1, <2>4, EnqueueOnce DEF QueuedOnce
    <2> QED  BY <2>3, <2>4, <2>5 DEF EmergenciesOf, HasRemoval
  <1>5. ASSUME DropChange(p) PROVE QueueInv'
    BY <1>1, <1>2, <1>5 DEF DropChange, EmergenciesOf, QueuedOnce
  <1>6. ASSUME AcceptElection(p) PROVE QueueInv'
    BY <1>1, <1>2, <1>6 DEF AcceptElection, EmergenciesOf, QueuedOnce
  <1>7. ASSUME RejectElection(p) PROVE QueueInv'
    <2>1. emergency = EmergenciesOf(voting \ {p})
      BY <1>1, <1>2, <1>7 DEF RejectElection
    <2>2. emergency' = EmergenciesOf(voting')
      BY <1>7, <2>1, AdvanceRetryEmergencies DEF RejectElection
    <2> QED  BY <1>7, <2>2 DEF RejectElection, EmergenciesOf, QueuedOnce
  <1>8. ASSUME AcceptDeadlock(p) PROVE QueueInv'
    BY <1>1, <1>3, <1>8 DEF AcceptDeadlock, EmergenciesOf, QueuedOnce
  <1>9. ASSUME AcceptScore(p) PROVE QueueInv'
    <2> DEFINE queue == Enqueue(approved, Remove(p.target))
    <2>1. emergency' = EmergenciesOf(voting')
      BY <1>1, <1>3, <1>9 DEF AcceptScore
    <2>2. /\ approved' = queue /\ urgent' = p.target
          /\ Remove(p.target) \notin ChangesOf(approved)
      BY <1>9 DEF AcceptScore, HasRemoval
    <2>3. QueuedOnce' /\ ChangesOf(approved') = ChangesOf(approved) \cup {Remove(p.target)}
      BY <1>1, <2>2, EnqueueOnce DEF QueuedOnce
    <2> QED  BY <2>1, <2>2, <2>3 DEF EmergenciesOf, HasRemoval
  <1>10. ASSUME CloseEmergency(p) PROVE QueueInv'
    BY <1>1, <1>3, <1>10 DEF CloseEmergency, EmergencyScored, EmergenciesOf, QueuedOnce
  <1> QED  BY <1>4, <1>5, <1>6, <1>7, <1>8, <1>9, <1>10

LEMMA RoundQueueInv ==
  ASSUME TypeOK, QueueInv
  PROVE  DrainEnd \/ FreezeWaits \/ FinalizeRound => QueueInv'
  <1> USE DEF QueueInv, PartialFreezeMatchesVotes, UrgentTargetQueued, QueuedOnce
  <1>1. /\ approved \in QueueType /\ group \in GroupType /\ next_round \in Nat
        /\ emergency = EmergenciesOf(voting)
    BY DEF TypeOK, QueueType, GroupType, EmergenciesOf
  <1>2. ASSUME DrainEnd PROVE QueueInv'
    BY <1>2 DEF DrainEnd
  <1>3. ASSUME FreezeWaits PROVE QueueInv'
    BY <1>3 DEF FreezeWaits, queues
  <1>4. ASSUME NEW w \in RoundWinners, MergeWinner(w)
        PROVE  QueuedOnce' /\ UrgentTargetQueued'
    BY <1>1, <1>4, QueueAfterSubset DEF MergeWinner
  <1>5. ASSUME NEW w \in RoundWinners, CommitEjects(w) PROVE QueueInv'
    BY <1>4, <1>5 DEF CommitEjects
  <1>6. ASSUME NEW w \in RoundWinners, CommitUpdates(w) PROVE QueueInv'
    <2> DEFINE g == Merge(group, w.batch)
               queue == QueueAfter(approved, urgent, w.batch)
               more == InitiateElection(FALSE, voting, ElectionAllowed("Working", emergency),
                                        g, queue, list, 0)
    <2>1. g \in GroupType  BY <1>1, WinnerType, MergeType
    <2>2. EmergenciesOf(more) = EmergenciesOf(voting)
      <3> HIDE DEF QueueInv, g
      <3>1. voting \subseteq more /\ \A x \in more : x \in voting \/ x \in Elections
        BY <2>1, InitiateElectionType
      <3> HIDE DEF more
      <3> QED  BY <3>1, ElectionsAreNoEmergencies
    <2>3. voting' \in {more, voting} /\ emergency' = emergency
      BY <1>6 DEF CommitUpdates
    <2>4. emergency' = EmergenciesOf(voting')  BY <1>1, <2>2, <2>3
    <2> QED  BY <1>4, <1>6, <2>4 DEF CommitUpdates, EmergenciesOf
  <1>7. ASSUME NothingToCommit PROVE QueueInv'
    BY <1>7 DEF NothingToCommit
  <1>8. ASSUME CommitMissed PROVE QueueInv'
    <2> DEFINE more == InitiateElection(TRUE, voting,
                         ElectionAllowed("Reelection", emergency), group, approved, list,
                         next_round)
    <2>1. EmergenciesOf(more) = EmergenciesOf(voting)
      <3> HIDE DEF QueueInv
      <3>0. group \in GroupType /\ next_round \in Nat  BY <1>1
      <3>1. voting \subseteq more /\ \A x \in more : x \in voting \/ x \in Elections
        BY <3>0, InitiateElectionType
      <3> HIDE DEF more
      <3> QED  BY <3>1, ElectionsAreNoEmergencies
    <2> QED  BY <1>1, <1>8, <2>1 DEF CommitMissed, EmergenciesOf
  <1>9. ASSUME RecoveryRoundFails PROVE QueueInv'
    BY <1>9 DEF RecoveryRoundFails
  <1>10. ASSUME FinalizeFails PROVE QueueInv'
    BY <1>10 DEF FinalizeFails
  <1> QED
    BY <1>2, <1>3, <1>5, <1>6, <1>7, <1>8, <1>9, <1>10 DEF FinalizeRound

LEMMA TailQueueInv ==
  ASSUME TypeOK, QueueInv
  PROVE  PollTail \/ Tick \/ TornDown => QueueInv'
  <1> USE DEF QueueInv, PartialFreezeMatchesVotes, UrgentTargetQueued, QueuedOnce
  <1>1. ASSUME TailIdle \/ ArmInactivity \/ SilenceWait \/ Tick \/ TornDown
        PROVE  QueueInv'
    BY <1>1 DEF TailIdle, ArmInactivity, SilenceWait, Tick, TornDown, vars, queues
  <1>2. ASSUME FreezeOnInactivity PROVE QueueInv'
    BY <1>2 DEF FreezeOnInactivity
  <1>3. ASSUME SilenceElapsed PROVE QueueInv'
    <2>1. emergency = EmergenciesOf(voting)  BY DEF EmergenciesOf
    <2>2. emergency' = EmergenciesOf(voting')
      BY <1>3, <2>1, AdvanceRetryEmergencies DEF SilenceElapsed
    <2> QED  BY <1>3, <2>2 DEF SilenceElapsed, EmergenciesOf
  <1> QED  BY <1>1, <1>2, <1>3 DEF PollTail

LEMMA InputQueueInv ==
  ASSUME TypeOK, QueueInv
  PROVE  Inbound \/ Intents => QueueInv'
  <1> USE DEF QueueInv, PartialFreezeMatchesVotes, UrgentTargetQueued, QueuedOnce
  <1>1. \A p \in Emergencies : p.kind \notin {"change", "election"}
    BY ChangesAssumption
  <1>2. ASSUME NEW o, NEW stages, StashCandidate(o, stages) PROVE QueueInv'
    BY <1>2 DEF StashCandidate
  <1>3. ASSUME NEW o, NEW stages, ReceiveCandidate(o, stages) PROVE QueueInv'
    BY <1>3 DEF ReceiveCandidate
  <1>4. ASSUME NEW c, NEW solo, IncomingChange(c, solo) PROVE QueueInv'
    BY <1>4 DEF IncomingChange, ChangeProposal
  <1>5. ASSUME NEW round, NEW pool, IncomingElection(round, pool) PROVE QueueInv'
    BY <1>5 DEF IncomingElection
  <1>6. ASSUME NEW p \in Emergencies, IncomingEmergency(p) PROVE QueueInv'
    BY <1>1, <1>6 DEF IncomingEmergency
  <1>7. ASSUME NEW s, ReceiveSync(s) PROVE QueueInv'
    BY <1>7 DEF ReceiveSync, queues
  <1>8. ASSUME NEW c, OwnChange(c) PROVE QueueInv'
    BY <1>8 DEF OwnChange, ChangeProposal
  <1>9. ASSUME Leave PROVE QueueInv'
    BY <1>9 DEF Leave, ChangeProposal
  <1>10. ASSUME NEW p \in Emergencies, OwnEmergency(p) PROVE QueueInv'
    BY <1>1, <1>10 DEF OwnEmergency
  <1>11. ASSUME CommitInRecovery PROVE QueueInv'
    BY <1>11 DEF CommitInRecovery
  <1> QED
    BY <1>2, <1>3, <1>4, <1>5, <1>6, <1>7, <1>8, <1>9, <1>10, <1>11 DEF Inbound, Intents

LEMMA StepQueueInv == TypeOK /\ QueueInv /\ [Next]_vars => QueueInv'
  <1> SUFFICES ASSUME TypeOK, QueueInv, [Next]_vars PROVE QueueInv'  OBVIOUS
  <1>1. CASE UNCHANGED vars
    BY <1>1 DEF QueueInv, PartialFreezeMatchesVotes, UrgentTargetQueued, QueuedOnce, vars, queues
  <1>2. CASE Next
    <2>1. ResolveChange \/ ResolveElection \/ ResolveEmergency => QueueInv'
      BY DrainQueueInv DEF ResolveChange, ResolveElection, ResolveEmergency
    <2> QED
      BY <1>2, <2>1, RoundQueueInv, TailQueueInv, InputQueueInv DEF Next
  <1> QED  BY <1>1, <1>2

LEMMA QueueInvariant == Spec => []QueueInv
  BY InitQueueInv, StepQueueInv, TypeCorrect, PTL DEF Spec

\* In every execution the partial freeze is on exactly while an emergency is
\* voted on.
THEOREM PartialFreezeIsExact == Spec => []PartialFreezeMatchesVotes
  <1>1. QueueInv => PartialFreezeMatchesVotes  BY DEF QueueInv
  <1> QED  BY <1>1, QueueInvariant, PTL

\* In every execution no change is queued twice.
THEOREM NoDuplicateApproval == Spec => []QueuedOnce
  <1>1. QueueInv => QueuedOnce  BY DEF QueueInv
  <1> QED  BY <1>1, QueueInvariant, PTL

\* In every execution an urgent commit has its removal to commit.
THEOREM UrgencyHasTarget == Spec => []UrgentTargetQueued
  <1>1. QueueInv => UrgentTargetQueued  BY DEF QueueInv
  <1> QED  BY <1>1, QueueInvariant, PTL

------------------------------------------------------------------------------
\* The commit round

\* In round r our own candidate, if any, is the pending commit pend, is not
\* empty and commits changes of the queue q only.
OwnIsVoted(r, pend, q) ==
  \A c \in r.candidates :
    c.from = Self => c.batch = pend /\ c.batch # {} /\ c.batch \subseteq ChangesOf(q)

\* OwnCandidateIsPending is not inductive alone: that a new mint never meets an
\* older candidate of ours needs minted batches to be non-empty, that a taken
\* round is empty needs its epoch to be the current one, and that replaying adds
\* no candidate of ours needs the stash to be the peers' only.
RoundInv ==
  /\ OwnIsVoted(commit_round, pending_commit, approved)
  /\ commit_round.candidates # {} => commit_round.epoch = group.epoch
  /\ \A e \in early : e.cand.from # Self

\* Taking the round leaves no candidate behind.
LEMMA TakeEmpties ==
  ASSUME TypeOK, RoundInv
  PROVE  AfterTake.candidates = {} /\ Taken = commit_round.candidates
  BY DEF TypeOK, RoundInv, AfterTake, Taken

\* A mint into a round of this epoch keeps the round.
LEMMA MintKeepsRound ==
  ASSUME TypeOK, NEW permitted, NEW q \in QueueType, NEW t, NEW r \in RoundType,
         OwnIsVoted(r, pending_commit, q),
         r.candidates # {} => r.epoch = group.epoch,
         MintInto(permitted, q, t, r)
  PROVE  /\ OwnIsVoted(commit_round', pending_commit', q)
         /\ commit_round'.candidates # {} => commit_round'.epoch = group.epoch
  <1> DEFINE batch == MintedBatch(q, t, group.members, BatchMax)
             own   == [from |-> Self, batch |-> batch, stages |-> TRUE]
  <1>1. batch \subseteq ChangesOf(q)  BY MintedIsQueued
  <1>2. \/ /\ pending_commit = {} /\ batch # {}
           /\ pending_commit' = batch /\ commit_round' = Buffer(r, own)
        \/ pending_commit' = pending_commit /\ commit_round' = r
    BY DEF MintInto
  <1>3. CASE pending_commit' = pending_commit /\ commit_round' = r
    BY <1>3
  <1>4. CASE /\ pending_commit = {} /\ batch # {}
             /\ pending_commit' = batch /\ commit_round' = Buffer(r, own)
    <2>1. /\ Buffer(r, own).epoch = group.epoch
          /\ Buffer(r, own).candidates \subseteq r.candidates \cup {own}
      BY DEF Buffer
    <2>2. \A c \in r.candidates : c.from # Self  BY <1>4 DEF OwnIsVoted
    <2>3. own.batch = batch  OBVIOUS
    <2> HIDE DEF batch, own
    <2> QED  BY <1>1, <1>4, <2>1, <2>2, <2>3 DEF OwnIsVoted
  <1> QED  BY <1>2, <1>3, <1>4

\* Replaying the stash into a growing queue keeps the round.
LEMMA ReplayKeepsRound ==
  ASSUME TypeOK, RoundInv, NEW q, ChangesOf(approved) \subseteq ChangesOf(q)
  PROVE  /\ OwnIsVoted(Replayed(q), pending_commit, q)
         /\ Replayed(q).candidates # {} => Replayed(q).epoch = group.epoch
         /\ \A e \in StashAfter(q) : e.cand.from # Self
  <1>1. Taken = commit_round.candidates  BY TakeEmpties
  <1>2. OwnIsVoted(commit_round, pending_commit, q)  BY DEF RoundInv, OwnIsVoted
  <1>3. CASE early = {} \/ q.entries = {}
    BY <1>2, <1>3 DEF RoundInv, Replayed, StashAfter
  <1>4. CASE ~(early = {} \/ q.entries = {})
    <2>1. /\ Replayed(q).epoch = group.epoch
          /\ Replayed(q).candidates
               = Taken \cup {e.cand : e \in {x \in early : x.epoch = group.epoch}}
      BY <1>4 DEF Replayed
    <2>2. \A c \in Replayed(q).candidates : c \in commit_round.candidates \/ c.from # Self
      BY <1>1, <2>1 DEF RoundInv
    <2> QED  BY <1>2, <2>1, <2>2 DEF OwnIsVoted, RoundInv, StashAfter
  <1> QED  BY <1>3, <1>4

LEMMA InitRoundInv == Init => RoundInv
  BY DEF Init, RoundInv, OwnIsVoted

LEMMA DrainRoundInv ==
  ASSUME TypeOK, RoundInv, NEW p \in voting
  PROVE  AcceptChange(p) \/ DropChange(p) \/ AcceptElection(p) \/ RejectElection(p)
           \/ AcceptDeadlock(p) \/ AcceptScore(p) \/ CloseEmergency(p) => RoundInv'
  <1>1. approved \in QueueType /\ p \in Votes  BY DEF TypeOK, QueueType, Votes
  <1>2. \A c : ChangesOf(approved) \subseteq ChangesOf(Enqueue(approved, c))
    BY DEF ChangesOf, Enqueue
  <1>3. ASSUME AcceptChange(p) PROVE RoundInv'
    <2> DEFINE queue == Enqueue(approved, p.change)
    <2>1. /\ OwnIsVoted(Replayed(queue), pending_commit, queue)
          /\ Replayed(queue).candidates # {} => Replayed(queue).epoch = group.epoch
          /\ \A e \in StashAfter(queue) : e.cand.from # Self
      BY <1>2, ReplayKeepsRound
    <2> QED  BY <1>3, <2>1 DEF AcceptChange, RoundInv, mls
  <1>4. ASSUME DropChange(p) PROVE RoundInv'
    BY <1>4 DEF DropChange, RoundInv, mls
  <1>5. ASSUME AcceptElection(p) PROVE RoundInv'
    BY <1>5 DEF AcceptElection, RoundInv, mls
  <1>6. ASSUME RejectElection(p) PROVE RoundInv'
    BY <1>6 DEF RejectElection, RoundInv, mls
  <1>7. ASSUME AcceptDeadlock(p) PROVE RoundInv'
    BY <1>7 DEF AcceptDeadlock, RoundInv, mls
  <1>8. ASSUME AcceptScore(p) PROVE RoundInv'
    <2> DEFINE queue == Enqueue(approved, Remove(p.target))
    <2>1. /\ OwnIsVoted(Replayed(queue), pending_commit, queue)
          /\ Replayed(queue).candidates # {} => Replayed(queue).epoch = group.epoch
          /\ \A e \in StashAfter(queue) : e.cand.from # Self
      BY <1>2, ReplayKeepsRound
    <2>2. CASE state \in {"Working", "Reelection"}
      <3>1. Remove(p.target) \in Changes
        BY <1>1, <1>8, ProposalKinds DEF AcceptScore
      <3>2. queue \in QueueType /\ Replayed(queue) \in RoundType
        BY <1>1, <3>1, EnqueueType, ReplayedType
      <3>3. MintInto(IsSteward(list, Self), queue, p.target, Replayed(queue))
        BY <1>8, <2>2 DEF AcceptScore, EnterFreezing
      <3>4. /\ OwnIsVoted(commit_round', pending_commit', queue)
            /\ commit_round'.candidates # {} => commit_round'.epoch = group.epoch
        BY <2>1, <3>2, <3>3, MintKeepsRound
      <3> QED  BY <1>8, <2>1, <3>4 DEF AcceptScore, RoundInv
    <2>3. CASE state \notin {"Working", "Reelection"}
      BY <1>8, <2>1, <2>3 DEF AcceptScore, RoundInv
    <2> QED  BY <2>2, <2>3
  <1>9. ASSUME CloseEmergency(p) PROVE RoundInv'
    BY <1>9 DEF CloseEmergency, RoundInv, mls
  <1> QED  BY <1>3, <1>4, <1>5, <1>6, <1>7, <1>8, <1>9

LEMMA RoundRoundInv ==
  ASSUME TypeOK, RoundInv
  PROVE  DrainEnd \/ FreezeWaits \/ FinalizeRound => RoundInv'
  <1>1. approved \in QueueType /\ commit_round \in RoundType
    BY DEF TypeOK, QueueType, RoundType
  <1>2. ASSUME DrainEnd PROVE RoundInv'
    <2>1. CASE AutoCommitDue
      <3>1. MintInto(TRUE, approved, urgent, commit_round)
        BY <1>2, <2>1 DEF DrainEnd
      <3>2. /\ OwnIsVoted(commit_round', pending_commit', approved)
            /\ commit_round'.candidates # {} => commit_round'.epoch = group.epoch
        BY <1>1, <3>1, MintKeepsRound DEF RoundInv
      <3> QED  BY <1>2, <3>2 DEF DrainEnd, RoundInv
    <2>2. CASE ~AutoCommitDue
      BY <1>2, <2>2 DEF DrainEnd, RoundInv
    <2> QED  BY <2>1, <2>2
  <1>3. ASSUME FreezeWaits PROVE RoundInv'
    BY <1>3 DEF FreezeWaits, RoundInv, mls, queues
  <1>4. ASSUME commit_round'.candidates = {}, early' = early PROVE RoundInv'
    BY <1>4 DEF RoundInv, OwnIsVoted
  <1>5. AfterTake.candidates = {} /\ [AfterTake EXCEPT !.candidates = {}].candidates = {}
    <2>1. AfterTake.candidates = {}  BY TakeEmpties
    <2>2. AfterTake \in RoundType  BY TakenType
    <2> QED  BY <2>1, <2>2 DEF RoundType
  <1>6. ASSUME NEW w, CommitEjects(w) PROVE RoundInv'
    BY <1>4, <1>5, <1>6 DEF CommitEjects, MergeWinner
  <1>7. ASSUME NEW w, CommitUpdates(w) PROVE RoundInv'
    BY <1>4, <1>5, <1>7 DEF CommitUpdates, MergeWinner
  <1>8. ASSUME NothingToCommit PROVE RoundInv'
    BY <1>4, <1>5, <1>8 DEF NothingToCommit
  <1>9. ASSUME CommitMissed PROVE RoundInv'
    BY <1>4, <1>5, <1>9 DEF CommitMissed
  <1>10. ASSUME RecoveryRoundFails PROVE RoundInv'
    BY <1>4, <1>5, <1>10 DEF RecoveryRoundFails
  <1>11. ASSUME FinalizeFails PROVE RoundInv'
    BY <1>4, <1>5, <1>11 DEF FinalizeFails
  <1> QED
    BY <1>2, <1>3, <1>6, <1>7, <1>8, <1>9, <1>10, <1>11 DEF FinalizeRound

LEMMA TailRoundInv ==
  ASSUME TypeOK, RoundInv
  PROVE  PollTail \/ Tick \/ TornDown => RoundInv'
  <1>1. ASSUME TailIdle \/ ArmInactivity \/ SilenceWait \/ Tick \/ TornDown
        PROVE  RoundInv'
    BY <1>1
       DEF TailIdle, ArmInactivity, SilenceWait, Tick, TornDown, vars, queues, mls, RoundInv
  <1>2. ASSUME FreezeOnInactivity PROVE RoundInv'
    <2>1. approved \in QueueType /\ commit_round \in RoundType
      BY DEF TypeOK, QueueType, RoundType
    <2>2. MintInto(IsSteward(list, Self), approved, urgent, commit_round)
      BY <1>2 DEF FreezeOnInactivity, EnterFreezing
    <2>3. /\ OwnIsVoted(commit_round', pending_commit', approved)
          /\ commit_round'.candidates # {} => commit_round'.epoch = group.epoch
      BY <2>1, <2>2, MintKeepsRound DEF RoundInv
    <2> QED  BY <1>2, <2>3 DEF FreezeOnInactivity, RoundInv
  <1>3. ASSUME SilenceElapsed PROVE RoundInv'
    BY <1>3 DEF SilenceElapsed, RoundInv, mls
  <1> QED  BY <1>1, <1>2, <1>3 DEF PollTail

LEMMA InputRoundInv ==
  ASSUME TypeOK, RoundInv
  PROVE  Inbound \/ Intents => RoundInv'
  <1>1. approved \in QueueType /\ commit_round \in RoundType
    BY DEF TypeOK, QueueType, RoundType
  <1>2. \A o \in Offers : o.from # Self  BY ChangesAssumption
  <1>3. ASSUME NEW o \in Offers, NEW stages \in BOOLEAN, StashCandidate(o, stages)
        PROVE  RoundInv'
    <2>1. \A e \in early' : e \in early \/ e.cand.from = o.from
      BY <1>3 DEF StashCandidate
    <2> QED  BY <1>2, <1>3, <2>1 DEF StashCandidate, RoundInv, mls
  <1>4. ASSUME NEW o \in Offers, NEW stages \in BOOLEAN, ReceiveCandidate(o, stages)
        PROVE  RoundInv'
    <2> DEFINE cand == [from |-> o.from, batch |-> o.batch, stages |-> stages]
               r == Buffer(commit_round, cand)
    <2>1. cand \in Candidates  BY ChangesAssumption DEF Candidates
    <2>2. r \in RoundType  BY <1>1, <2>1, BufferType
    <2>3. /\ r.epoch = group.epoch
          /\ \A c \in r.candidates : c \in commit_round.candidates \/ c.from = o.from
      BY DEF Buffer
    <2>4. OwnIsVoted(r, pending_commit, approved)
      BY <1>2, <2>3 DEF RoundInv, OwnIsVoted
    <2>5. CASE state \in {"Working", "Reelection"}
      <3>1. MintInto(IsSteward(list, Self), approved, urgent, r)
        BY <1>4, <2>5 DEF ReceiveCandidate, EnterFreezing
      <3>2. /\ OwnIsVoted(commit_round', pending_commit', approved)
            /\ commit_round'.candidates # {} => commit_round'.epoch = group.epoch
        <4> HIDE DEF r
        <4> QED  BY <1>1, <2>2, <2>3, <2>4, <3>1, MintKeepsRound
      <3> QED  BY <1>4, <3>2 DEF ReceiveCandidate, RoundInv
    <2>6. CASE state \notin {"Working", "Reelection"}
      <3>1. commit_round' = r /\ pending_commit' = pending_commit
        BY <1>4, <2>6 DEF ReceiveCandidate
      <3>2. approved' = approved /\ early' = early /\ group' = group
        BY <1>4 DEF ReceiveCandidate
      <3> HIDE DEF r
      <3> QED  BY <2>3, <2>4, <3>1, <3>2 DEF RoundInv
    <2> QED  BY <2>5, <2>6
  <1>5. ASSUME NEW c, NEW solo, IncomingChange(c, solo) PROVE RoundInv'
    BY <1>5 DEF IncomingChange, RoundInv, mls
  <1>6. ASSUME NEW round, NEW pool, IncomingElection(round, pool) PROVE RoundInv'
    BY <1>6 DEF IncomingElection, RoundInv, mls
  <1>7. ASSUME NEW p, IncomingEmergency(p) PROVE RoundInv'
    BY <1>7 DEF IncomingEmergency, RoundInv, mls
  <1>8. ASSUME NEW s, ReceiveSync(s) PROVE RoundInv'
    BY <1>8 DEF ReceiveSync, RoundInv, mls, queues
  <1>9. ASSUME NEW c, OwnChange(c) PROVE RoundInv'
    BY <1>9 DEF OwnChange, RoundInv, mls
  <1>10. ASSUME Leave PROVE RoundInv'
    BY <1>10 DEF Leave, RoundInv, mls
  <1>11. ASSUME NEW p, OwnEmergency(p) PROVE RoundInv'
    BY <1>11 DEF OwnEmergency, RoundInv, mls
  <1>12. ASSUME CommitInRecovery PROVE RoundInv'
    <2>1. /\ OwnIsVoted(commit_round', pending_commit', approved)
          /\ commit_round'.candidates # {} => commit_round'.epoch = group.epoch
      BY <1>1, <1>12, MintKeepsRound DEF CommitInRecovery, RoundInv
    <2> QED  BY <1>12, <2>1 DEF CommitInRecovery, RoundInv
  <1> QED
    BY <1>3, <1>4, <1>5, <1>6, <1>7, <1>8, <1>9, <1>10, <1>11, <1>12 DEF Inbound, Intents

LEMMA StepRoundInv == TypeOK /\ RoundInv /\ [Next]_vars => RoundInv'
  <1> SUFFICES ASSUME TypeOK, RoundInv, [Next]_vars PROVE RoundInv'  OBVIOUS
  <1>1. CASE UNCHANGED vars
    BY <1>1 DEF RoundInv, vars, queues, mls
  <1>2. CASE Next
    <2>1. ResolveChange \/ ResolveElection \/ ResolveEmergency => RoundInv'
      BY DrainRoundInv DEF ResolveChange, ResolveElection, ResolveEmergency
    <2> QED
      BY <1>2, <2>1, RoundRoundInv, TailRoundInv, InputRoundInv DEF Next
  <1> QED  BY <1>1, <1>2

LEMMA RoundInvariant == Spec => []RoundInv
  BY InitRoundInv, StepRoundInv, TypeCorrect, PTL DEF Spec

\* In every execution the candidate a round would merge as ours is the commit
\* MLS holds pending.
THEOREM OwnCandidateIsThePendingCommit == Spec => []OwnCandidateIsPending
  <1>1. RoundInv => OwnCandidateIsPending
    BY DEF RoundInv, OwnIsVoted, OwnCandidateIsPending
  <1> QED  BY <1>1, RoundInvariant, PTL

------------------------------------------------------------------------------
\* Membership

\* Only the winner of a commit round moves the group.
LEMMA OnlyCommitsMoveTheGroup ==
  ASSUME [Next]_vars, group' # group
  PROVE  \E w \in RoundWinners : MergeWinner(w)
  <1>1. ~UNCHANGED vars  BY DEF vars, mls
  <1>2. ~(ResolveChange \/ ResolveElection \/ ResolveEmergency)
    BY DEF ResolveChange, ResolveElection, ResolveEmergency, AcceptChange, DropChange,
           AcceptElection, RejectElection, AcceptDeadlock, AcceptScore, CloseEmergency, mls
  <1>3. ~(DrainEnd \/ FreezeWaits \/ Tick \/ TornDown)
    BY DEF DrainEnd, FreezeWaits, Tick, TornDown, vars, mls
  <1>4. ~PollTail
    BY DEF PollTail, TailIdle, ArmInactivity, FreezeOnInactivity, SilenceWait,
           SilenceElapsed, mls
  <1>5. ~Inbound
    BY DEF Inbound, StashCandidate, ReceiveCandidate, IncomingChange, IncomingElection,
           IncomingEmergency, ReceiveSync, mls
  <1>6. ~Intents
    BY DEF Intents, OwnChange, Leave, OwnEmergency, CommitInRecovery, mls
  <1>7. ~(NothingToCommit \/ CommitMissed \/ RecoveryRoundFails \/ FinalizeFails)
    BY DEF NothingToCommit, CommitMissed, RecoveryRoundFails, FinalizeFails, mls
  <1>8. FinalizeRound  BY <1>1, <1>2, <1>3, <1>4, <1>5, <1>6 DEF Next
  <1> QED  BY <1>7, <1>8 DEF FinalizeRound, CommitEjects, CommitUpdates

\* A winning candidate commits approved changes only: a peer's was compared with
\* the whole approved set, ours was minted from it.
LEMMA WinnerIsVoted ==
  ASSUME TypeOK, RoundInv, NEW w \in RoundWinners
  PROVE  w.batch \subseteq ChangesOf(approved)
  <1>1. w \in commit_round.candidates  BY WinnerType, TakeEmpties
  <1>2. w.from = Self \/ RemoteApplies(w, approved, Authorised)
    BY DEF RoundWinners, Winners
  <1>3. CASE w.from = Self
    BY <1>1, <1>3 DEF RoundInv, OwnIsVoted
  <1>4. CASE RemoteApplies(w, approved, Authorised)
    BY <1>4 DEF RemoteApplies
  <1> QED  BY <1>2, <1>3, <1>4

LEMMA StepIsVoted == TypeOK /\ PhaseInv /\ RoundInv /\ [Next]_vars => [VotedStep]_vars
  <1> SUFFICES ASSUME TypeOK, PhaseInv, RoundInv, [Next]_vars, group' # group
               PROVE  /\ state = "Freezing"
                      /\ group'.epoch = group.epoch + 1
                      /\ \A m \in group'.members \ group.members : Add(m) \in ChangesOf(approved)
                      /\ \A m \in group.members \ group'.members :
                           Remove(m) \in ChangesOf(approved)
    BY DEF VotedStep
  <1>1. PICK w \in RoundWinners : MergeWinner(w)  BY OnlyCommitsMoveTheGroup
  <1>2. state = "Freezing"  BY <1>1 DEF MergeWinner, PhaseInv
  <1>3. w.batch \subseteq ChangesOf(approved) /\ w.batch \subseteq Changes
    BY WinnerIsVoted, WinnerType
  <1>4. \A c \in w.batch : /\ c.op = "Add" => c = Add(c.id)
                           /\ c.op = "Remove" => c = Remove(c.id)
    BY <1>3, ChangesAssumption DEF Add, Remove
  <1>5. group' = Merge(group, w.batch)  BY <1>1 DEF MergeWinner
  <1>6. /\ group'.epoch = group.epoch + 1
        /\ \A m \in group'.members : m \in group.members \/ Add(m) \in w.batch
        /\ \A m \in group.members : m \in group'.members \/ Remove(m) \in w.batch
    BY <1>4, <1>5 DEF Merge
  <1> QED  BY <1>2, <1>3, <1>6

\* In every execution of every instance the membership changes only by what this
\* member saw approved, one epoch at a time, out of a freeze: whichever
\* candidate wins, in recovery and with subset candidates too.
THEOREM MembershipFollowsVotes == Spec => MembershipIsVoted
  BY StepIsVoted, TypeCorrect, PhaseInvariant, RoundInvariant, PTL
     DEF Spec, MembershipIsVoted

------------------------------------------------------------------------------
\* The pending commit

LEMMA StepPending ==
  ASSUME FinalizeMayFail = FALSE, TypeOK, PhaseInv, PendingCommitOnlyWhileFreezing,
         [Next]_vars
  PROVE  PendingCommitOnlyWhileFreezing'
  <1> USE DEF PendingCommitOnlyWhileFreezing
  <1>1. CASE UNCHANGED vars  BY <1>1 DEF vars, machine, mls
  <1>2. ASSUME ResolveChange \/ ResolveElection \/ ResolveEmergency
        PROVE  PendingCommitOnlyWhileFreezing'
    BY <1>2
       DEF ResolveChange, ResolveElection, ResolveEmergency, AcceptChange, DropChange,
           AcceptElection, RejectElection, AcceptDeadlock, AcceptScore, CloseEmergency,
           EmergencyScored, EnterFreezing, machine, mls
  <1>3. ASSUME DrainEnd \/ FreezeWaits \/ Tick \/ TornDown
        PROVE  PendingCommitOnlyWhileFreezing'
    BY <1>3 DEF DrainEnd, AutoCommitDue, FreezeWaits, Tick, TornDown, vars, machine, mls
  <1>4. ASSUME FinalizeRound PROVE PendingCommitOnlyWhileFreezing'
    BY <1>4
       DEF FinalizeRound, CommitEjects, CommitUpdates, MergeWinner, NothingToCommit,
           CommitMissed, RecoveryRoundFails, RoundFails, FinalizeFails
  <1>5. ASSUME PollTail PROVE PendingCommitOnlyWhileFreezing'
    BY <1>5
       DEF PollTail, TailIdle, ArmInactivity, FreezeOnInactivity, SilenceWait,
           SilenceElapsed, EnterFreezing, machine, mls
  <1>6. ASSUME Inbound PROVE PendingCommitOnlyWhileFreezing'
    BY <1>6
       DEF Inbound, StashCandidate, ReceiveCandidate, IncomingChange, IncomingElection,
           IncomingEmergency, ReceiveSync, EnterFreezing, machine, mls
  <1>7. ASSUME Intents PROVE PendingCommitOnlyWhileFreezing'
    BY <1>7
       DEF Intents, OwnChange, Leave, OwnEmergency, CommitInRecovery, PhaseInv,
           RecoveryOnlyInFreezing, machine, mls
  <1> QED  BY <1>1, <1>2, <1>3, <1>4, <1>5, <1>6, <1>7 DEF Next

\* If finalizing never hits a local error, our own MLS commit is pending only
\* inside a freeze, which merges or discards it.  The assumption is needed: the
\* error path keeps the commit pending.
THEOREM PendingCommitIsResolved ==
  ASSUME FinalizeMayFail = FALSE
  PROVE  Spec => []PendingCommitOnlyWhileFreezing
  <1>1. Init => PendingCommitOnlyWhileFreezing
    BY DEF Init, PendingCommitOnlyWhileFreezing
  <1>2. TypeOK /\ PhaseInv /\ PendingCommitOnlyWhileFreezing /\ [Next]_vars
          => PendingCommitOnlyWhileFreezing'
    BY StepPending
  <1> QED  BY <1>1, <1>2, TypeCorrect, PhaseInvariant, PTL DEF Spec
------------------------------------------------------------------------------
\* The load of the round and of the stash

\* RoundIsCurrent and StashWaitsForApproval need each other: replaying the stash
\* stays below the cap only because no round is buffered then, and no round is
\* buffered because it waits for approved work, which an occupied stash excludes.
LoadInv ==
  /\ IsFiniteSet(commit_round.candidates) /\ IsFiniteSet(early)
  /\ Cardinality(commit_round.candidates) <= Cardinality(group.members)
  /\ commit_round.candidates # {} => approved.entries # {}
  /\ early # {} => approved.entries = {}
  /\ Cardinality(early) <= Cardinality(group.members)
  /\ \A e \in early : e.epoch = group.epoch

\* Members can be counted.
LEMMA MembersFinite ==
  ASSUME TypeOK
  PROVE  /\ IsFiniteSet(group.members)
         /\ Cardinality(group.members) \in Nat
  <1>1. group.members \in SUBSET Ids  BY DEF TypeOK
  <1> QED  BY <1>1, IdsAssumption, FS_Subset, FS_CardinalityType

\* Nothing can exceed the cap of a group.
LEMMA EmptyFits ==
  ASSUME NEW S, S = {}, NEW n \in Nat
  PROVE  IsFiniteSet(S) /\ Cardinality(S) <= n
  BY FS_EmptySet

\* CommitRoundBuffer::add keeps the cap.
LEMMA BufferFits ==
  ASSUME TypeOK, NEW r \in RoundType, NEW c, IsFiniteSet(r.candidates),
         Cardinality(r.candidates) <= Cardinality(group.members)
  PROVE  /\ IsFiniteSet(Buffer(r, c).candidates)
         /\ Cardinality(Buffer(r, c).candidates) <= Cardinality(group.members)
  <1> DEFINE held == IF r.epoch = group.epoch THEN r.candidates ELSE {}
  <1>1. Cardinality(group.members) \in Nat  BY MembersFinite
  <1>2. IsFiniteSet(held) /\ Cardinality(held) <= Cardinality(group.members)
    BY <1>1, EmptyFits
  <1>3. Cardinality(held) \in Nat  BY <1>2, FS_CardinalityType
  <1>4. Buffer(r, c).candidates = IF Cardinality(held) >= Cardinality(group.members)
                                  THEN held ELSE held \cup {c}
    BY DEF Buffer
  <1>5. CASE Cardinality(held) >= Cardinality(group.members)
    BY <1>2, <1>4, <1>5
  <1>6. CASE ~(Cardinality(held) >= Cardinality(group.members))
    <2>1. /\ IsFiniteSet(held \cup {c})
          /\ Cardinality(held \cup {c}) \in {Cardinality(held), Cardinality(held) + 1}
      BY <1>2, FS_AddElement
    <2> HIDE DEF held
    <2> QED  BY <1>1, <1>3, <1>4, <1>6, <2>1
  <1> QED  BY <1>5, <1>6

\* A mint keeps the cap, and a round it opens has work to commit.
LEMMA MintFits ==
  ASSUME TypeOK, NEW permitted, NEW q, NEW t, NEW r \in RoundType,
         IsFiniteSet(r.candidates),
         Cardinality(r.candidates) <= Cardinality(group.members),
         r.candidates # {} => q.entries # {},
         MintInto(permitted, q, t, r)
  PROVE  /\ IsFiniteSet(commit_round'.candidates)
         /\ Cardinality(commit_round'.candidates) <= Cardinality(group.members)
         /\ commit_round'.candidates # {} => q.entries # {}
  <1> DEFINE own == [from |-> Self, batch |-> MintedBatch(q, t, group.members, BatchMax),
                     stages |-> TRUE]
  <1>1. \/ q.entries # {} /\ commit_round' = Buffer(r, own)
        \/ commit_round' = r
    BY DEF MintInto
  <1>2. /\ IsFiniteSet(Buffer(r, own).candidates)
        /\ Cardinality(Buffer(r, own).candidates) <= Cardinality(group.members)
    BY BufferFits
  <1> QED  BY <1>1, <1>2

\* The candidates of a stash are no more than its entries.
LEMMA StashImage ==
  ASSUME NEW S, IsFiniteSet(S)
  PROVE  /\ IsFiniteSet({e.cand : e \in S})
         /\ Cardinality({e.cand : e \in S}) <= Cardinality(S)
  <1> DEFINE T == {e.cand : e \in S}
             f == [e \in S |-> e.cand]
  <1>1. f \in Surjection(S, T)  BY DEF Surjection
  <1> HIDE DEF f, T
  <1>2. IsFiniteSet(T) /\ Cardinality(T) <= Cardinality(S)  BY <1>1, FS_Surjection
  <1> QED  BY <1>2 DEF T

\* Replaying the stash keeps the cap and empties the stash.
LEMMA ReplayFits ==
  ASSUME TypeOK, RoundInv, LoadInv, NEW q, q.entries # {}
  PROVE  /\ IsFiniteSet(Replayed(q).candidates)
         /\ Cardinality(Replayed(q).candidates) <= Cardinality(group.members)
         /\ StashAfter(q) = {}
  <1>1. StashAfter(q) = {}  BY DEF StashAfter
  <1>2. CASE early = {}
    BY <1>1, <1>2 DEF Replayed, LoadInv
  <1>3. CASE early # {}
    <2> DEFINE now == {x \in early : x.epoch = group.epoch}
    <2>1. Taken = {}  BY <1>3, TakeEmpties DEF LoadInv
    <2>2. now = early  BY DEF LoadInv
    <2>3. Replayed(q).candidates = {e.cand : e \in early}
      BY <1>3, <2>1, <2>2 DEF Replayed
    <2>4. /\ IsFiniteSet({e.cand : e \in early})
          /\ Cardinality({e.cand : e \in early}) <= Cardinality(early)
      BY StashImage DEF LoadInv
    <2>5. /\ Cardinality({e.cand : e \in early}) \in Nat
          /\ Cardinality(early) \in Nat /\ Cardinality(group.members) \in Nat
      BY <2>4, MembersFinite, FS_CardinalityType DEF LoadInv
    <2> QED  BY <1>1, <2>3, <2>4, <2>5 DEF LoadInv
  <1> QED  BY <1>2, <1>3

LEMMA InitLoadInv == Init => LoadInv
  <1> SUFFICES ASSUME Init PROVE LoadInv  OBVIOUS
  <1>1. group.members = InitMembers  BY DEF Init
  <1>2. IsFiniteSet(InitMembers) /\ Cardinality(InitMembers) \in Nat
    BY IdsAssumption, FS_Subset, FS_CardinalityType
  <1>3. commit_round.candidates = {} /\ early = {}  BY DEF Init
  <1> QED  BY <1>1, <1>2, <1>3, EmptyFits DEF LoadInv

\* Steps that leave the round, the stash, the queue and the group alone
LEMMA UntouchedLoad ==
  ASSUME LoadInv, UNCHANGED <<commit_round, early, approved, group>>
  PROVE  LoadInv'
  BY DEF LoadInv

\* A mint into the own round
LEMMA MintLoad ==
  ASSUME TypeOK, LoadInv, NEW permitted, MintInto(permitted, approved, urgent, commit_round),
         UNCHANGED <<early, approved, group>>
  PROVE  LoadInv'
  <1>1. commit_round \in RoundType  BY DEF TypeOK, RoundType
  <1>2. /\ IsFiniteSet(commit_round'.candidates)
        /\ Cardinality(commit_round'.candidates) <= Cardinality(group.members)
        /\ commit_round'.candidates # {} => approved.entries # {}
    BY <1>1, MintFits DEF LoadInv
  <1> QED  BY <1>2 DEF LoadInv

LEMMA DrainLoadInv ==
  ASSUME TypeOK, RoundInv, LoadInv, NEW p \in voting
  PROVE  AcceptChange(p) \/ DropChange(p) \/ AcceptElection(p) \/ RejectElection(p)
           \/ AcceptDeadlock(p) \/ AcceptScore(p) \/ CloseEmergency(p) => LoadInv'
  <1>1. \A c : Enqueue(approved, c).entries # {}  BY DEF Enqueue
  <1>2. Cardinality(group.members) \in Nat  BY MembersFinite
  <1>3. ASSUME AcceptChange(p) PROVE LoadInv'
    <2> DEFINE queue == Enqueue(approved, p.change)
    <2>1. /\ IsFiniteSet(Replayed(queue).candidates)
          /\ Cardinality(Replayed(queue).candidates) <= Cardinality(group.members)
          /\ StashAfter(queue) = {}
      BY <1>1, ReplayFits
    <2>2. IsFiniteSet({}) /\ Cardinality({}) <= Cardinality(group.members)
      BY <1>2, EmptyFits
    <2>3. /\ commit_round' = Replayed(queue) /\ early' = {} /\ approved' = queue
          /\ group' = group
      BY <1>3, <2>1 DEF AcceptChange, mls
    <2> QED  BY <1>1, <2>1, <2>2, <2>3 DEF LoadInv
  <1>4. ASSUME AcceptScore(p) PROVE LoadInv'
    <2> DEFINE queue == Enqueue(approved, Remove(p.target))
    <2>1. /\ IsFiniteSet(Replayed(queue).candidates)
          /\ Cardinality(Replayed(queue).candidates) <= Cardinality(group.members)
          /\ StashAfter(queue) = {}
      BY <1>1, ReplayFits
    <2>2. IsFiniteSet({}) /\ Cardinality({}) <= Cardinality(group.members)
      BY <1>2, EmptyFits
    <2>3. early' = {} /\ approved' = queue /\ group' = group
      BY <1>4, <2>1 DEF AcceptScore
    <2>4. /\ IsFiniteSet(commit_round'.candidates)
          /\ Cardinality(commit_round'.candidates) <= Cardinality(group.members)
      <3>1. CASE state \in {"Working", "Reelection"}
        <4>1. MintInto(IsSteward(list, Self), queue, p.target, Replayed(queue))
          BY <1>4, <3>1 DEF AcceptScore, EnterFreezing
        <4>2. Replayed(queue) \in RoundType /\ queue.entries # {}
          BY <1>1, ReplayedType
        <4> HIDE DEF queue
        <4> QED  BY <2>1, <4>1, <4>2, MintFits
      <3>2. CASE state \notin {"Working", "Reelection"}
        <4>1. commit_round' = Replayed(queue)  BY <1>4, <3>2 DEF AcceptScore
        <4> QED  BY <2>1, <4>1
      <3> QED  BY <3>1, <3>2
    <2> QED  BY <1>1, <2>2, <2>3, <2>4 DEF LoadInv
  <1>5. ASSUME DropChange(p) \/ AcceptElection(p) \/ RejectElection(p)
                 \/ AcceptDeadlock(p) \/ CloseEmergency(p)
        PROVE  LoadInv'
    BY <1>5, UntouchedLoad
       DEF DropChange, AcceptElection, RejectElection, AcceptDeadlock, CloseEmergency, mls
  <1> QED  BY <1>3, <1>4, <1>5

LEMMA RoundLoadInv ==
  ASSUME TypeOK, TypeOK', RoundInv, LoadInv
  PROVE  DrainEnd \/ FreezeWaits \/ FinalizeRound => LoadInv'
  <1>1. AfterTake.candidates = {} /\ [AfterTake EXCEPT !.candidates = {}].candidates = {}
    <2>1. AfterTake.candidates = {}  BY TakeEmpties
    <2>2. AfterTake \in RoundType  BY TakenType
    <2> QED  BY <2>1, <2>2 DEF RoundType
  <1>2. Cardinality(group.members) \in Nat  BY MembersFinite
  <1>3. ASSUME DrainEnd PROVE LoadInv'
    <2>1. CASE AutoCommitDue
      BY <1>3, <2>1, MintLoad DEF DrainEnd
    <2>2. CASE ~AutoCommitDue
      BY <1>3, <2>2, UntouchedLoad DEF DrainEnd
    <2> QED  BY <2>1, <2>2
  <1>4. ASSUME FreezeWaits PROVE LoadInv'
    BY <1>4, UntouchedLoad DEF FreezeWaits, mls, queues
  <1>5. ASSUME NEW w \in RoundWinners, MergeWinner(w), early' = early PROVE LoadInv'
    <2>1. w \in commit_round.candidates  BY WinnerType, TakeEmpties
    <2>2. early = {}  BY <2>1 DEF LoadInv
    <2>3. commit_round'.candidates = {}  BY <1>1, <1>5 DEF MergeWinner
    <2>4. Cardinality(group'.members) \in Nat
      <3>1. group'.members \in SUBSET Ids  BY DEF TypeOK
      <3> QED  BY <3>1, IdsAssumption, FS_Subset, FS_CardinalityType
    <2>5. /\ IsFiniteSet(commit_round'.candidates) /\ IsFiniteSet(early')
          /\ Cardinality(commit_round'.candidates) <= Cardinality(group'.members)
          /\ Cardinality(early') <= Cardinality(group'.members)
      BY <1>5, <2>2, <2>3, <2>4, EmptyFits
    <2> QED  BY <1>5, <2>2, <2>3, <2>5 DEF LoadInv
  <1>6. ASSUME commit_round'.candidates = {}, UNCHANGED <<early, approved, group>>
        PROVE  LoadInv'
    <2>1. /\ IsFiniteSet(commit_round'.candidates)
          /\ Cardinality(commit_round'.candidates) <= Cardinality(group.members)
      BY <1>2, <1>6, EmptyFits
    <2> QED  BY <1>6, <2>1 DEF LoadInv
  <1>7. ASSUME NothingToCommit \/ CommitMissed \/ RecoveryRoundFails \/ FinalizeFails
        PROVE  LoadInv'
    BY <1>1, <1>6, <1>7 DEF NothingToCommit, CommitMissed, RecoveryRoundFails, FinalizeFails, mls
  <1>8. ASSUME NEW w \in RoundWinners, CommitEjects(w) \/ CommitUpdates(w) PROVE LoadInv'
    BY <1>5, <1>8 DEF CommitEjects, CommitUpdates
  <1> QED  BY <1>3, <1>4, <1>7, <1>8 DEF FinalizeRound

LEMMA TailLoadInv ==
  ASSUME TypeOK, LoadInv
  PROVE  PollTail \/ Tick \/ TornDown => LoadInv'
  <1>1. ASSUME FreezeOnInactivity PROVE LoadInv'
    BY <1>1, MintLoad DEF FreezeOnInactivity, EnterFreezing
  <1>2. ASSUME TailIdle \/ ArmInactivity \/ SilenceWait \/ SilenceElapsed \/ Tick \/ TornDown
        PROVE  LoadInv'
    BY <1>2, UntouchedLoad
       DEF TailIdle, ArmInactivity, SilenceWait, SilenceElapsed, Tick, TornDown, vars,
           queues, mls
  <1> QED  BY <1>1, <1>2 DEF PollTail

LEMMA InputLoadInv ==
  ASSUME TypeOK, RoundInv, LoadInv
  PROVE  Inbound \/ Intents => LoadInv'
  <1>1. Cardinality(group.members) \in Nat  BY MembersFinite
  <1>2. ASSUME NEW o \in Offers, NEW stages \in BOOLEAN, StashCandidate(o, stages)
        PROVE  LoadInv'
    <2> DEFINE held == {e \in early : e.epoch = group.epoch}
               entry == [epoch |-> group.epoch,
                         cand |-> [from |-> o.from, batch |-> o.batch, stages |-> stages]]
    <2>1. held = early /\ IsFiniteSet(early)  BY DEF LoadInv
    <2>2. Cardinality(early) \in Nat  BY <2>1, FS_CardinalityType
    <2>3. /\ IsFiniteSet(early \cup {entry})
          /\ Cardinality(early \cup {entry}) \in {Cardinality(early), Cardinality(early) + 1}
      BY <2>1, FS_AddElement
    <2>4. early' = IF Cardinality(early) >= Cardinality(group.members) THEN early
                   ELSE early \cup {entry}
      BY <1>2, <2>1 DEF StashCandidate
    <2>5. IsFiniteSet(early') /\ Cardinality(early') <= Cardinality(group.members)
      <3> HIDE DEF entry
      <3> QED  BY <1>1, <2>1, <2>2, <2>3, <2>4 DEF LoadInv
    <2>6. \A e \in early' : e.epoch = group.epoch  BY <2>4 DEF LoadInv
    <2>7. approved.entries = {} /\ UNCHANGED <<commit_round, approved, group>>
      BY <1>2 DEF StashCandidate, mls
    <2> QED  BY <2>5, <2>6, <2>7 DEF LoadInv
  <1>3. ASSUME NEW o \in Offers, NEW stages \in BOOLEAN, ReceiveCandidate(o, stages)
        PROVE  LoadInv'
    <2> DEFINE cand == [from |-> o.from, batch |-> o.batch, stages |-> stages]
               r == Buffer(commit_round, cand)
    <2>1. commit_round \in RoundType /\ cand \in Candidates
      BY ChangesAssumption DEF TypeOK, RoundType, Candidates
    <2>2. r \in RoundType  BY <2>1, BufferType
    <2>3. IsFiniteSet(r.candidates) /\ Cardinality(r.candidates) <= Cardinality(group.members)
      BY <2>1, BufferFits DEF LoadInv
    <2>4. approved.entries # {} /\ UNCHANGED <<early, approved, group>>
      BY <1>3 DEF ReceiveCandidate
    <2>5. \/ MintInto(IsSteward(list, Self), approved, urgent, r)
          \/ commit_round' = r
      BY <1>3 DEF ReceiveCandidate, EnterFreezing
    <2> HIDE DEF r
    <2>6. /\ IsFiniteSet(commit_round'.candidates)
          /\ Cardinality(commit_round'.candidates) <= Cardinality(group.members)
      BY <2>2, <2>3, <2>4, <2>5, MintFits
    <2> QED  BY <2>4, <2>6 DEF LoadInv
  <1>4. ASSUME CommitInRecovery PROVE LoadInv'
    BY <1>4, MintLoad DEF CommitInRecovery
  <1>5. ASSUME \/ \E c, solo : IncomingChange(c, solo)
               \/ \E round, pool : IncomingElection(round, pool)
               \/ \E p : IncomingEmergency(p) \/ OwnEmergency(p)
               \/ \E s : ReceiveSync(s)
               \/ \E c : OwnChange(c)
               \/ Leave
        PROVE  LoadInv'
    BY <1>5, UntouchedLoad
       DEF IncomingChange, IncomingElection, IncomingEmergency, OwnEmergency, ReceiveSync,
           OwnChange, Leave, mls, queues
  <1> QED  BY <1>2, <1>3, <1>4, <1>5 DEF Inbound, Intents

LEMMA StepLoadInv ==
  TypeOK /\ TypeOK' /\ RoundInv /\ LoadInv /\ [Next]_vars => LoadInv'
  <1> SUFFICES ASSUME TypeOK, TypeOK', RoundInv, LoadInv, [Next]_vars PROVE LoadInv'
    OBVIOUS
  <1>1. CASE UNCHANGED vars
    BY <1>1, UntouchedLoad DEF vars, queues, mls
  <1>2. CASE Next
    <2>1. ResolveChange \/ ResolveElection \/ ResolveEmergency => LoadInv'
      BY DrainLoadInv DEF ResolveChange, ResolveElection, ResolveEmergency
    <2> QED
      BY <1>2, <2>1, RoundLoadInv, TailLoadInv, InputLoadInv DEF Next
  <1> QED  BY <1>1, <1>2

LEMMA LoadInvariant == Spec => []LoadInv
  BY InitLoadInv, StepLoadInv, TypeCorrect, RoundInvariant, PTL DEF Spec

\* In every execution a buffered round is of the current epoch, holds at most one
\* candidate per member and waits for approved work, whatever the peers send and
\* in whatever order it comes.
THEOREM RoundStaysCurrent == Spec => []RoundIsCurrent
  <1>1. RoundInv /\ LoadInv => RoundIsCurrent
    BY DEF RoundInv, LoadInv, RoundIsCurrent
  <1> QED  BY <1>1, RoundInvariant, LoadInvariant, PTL

\* In every execution the stash holds candidates of this epoch only, no more than
\* the round can take, and only while nothing is approved and no round is
\* buffered: replaying it loses no candidate and mixes no epochs.
THEOREM StashNeverCompetes == Spec => []StashWaitsForApproval
  <1>1. TypeOK /\ RoundInv /\ LoadInv => StashWaitsForApproval
    BY DEF LoadInv, StashWaitsForApproval, Taken
  <1> QED  BY <1>1, TypeCorrect, RoundInvariant, LoadInvariant, PTL
==============================================================================
