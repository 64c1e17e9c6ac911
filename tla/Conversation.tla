---------------------------- MODULE Conversation -----------------------------
(***************************************************************************)
(* One member's conversation: the phase machine Working / Freezing /       *)
(* Selection / Reelection, the recovery mode, the proposal queues, the     *)
(* commit round and the steward list, driven by poll() and by inbound      *)
(* messages (conversation/, consensus/, commit_round/, steward_list/).     *)
(*                                                                         *)
(* A Conversation is used through &mut self, so handlers never overlap;    *)
(* what interleaves is their order, the clock, the outcomes of votes and   *)
(* the messages of peers.  poll() is split at the points where its steps   *)
(* read state again: pc names the next step, and every other handler runs  *)
(* at pc = "idle".                                                         *)
(*                                                                         *)
(* Left out here: events and broadcasts, peer scores, the buffer of        *)
(* pending updates (its drain is OwnChange), vote counting (a proposal in  *)
(* flight resolves YES or NO at a poll) and the sync request timers.       *)
(***************************************************************************)
EXTENDS StewardList, CommitSelection

CONSTANTS
  Self,               \* the local member
  Ids,                \* every member id that can ever appear
  InitMembers,        \* members of the group at the start
  Changes,            \* membership changes that can be proposed
  Emergencies,        \* emergency proposals that can be raised
  ForeignPools,       \* pools a diverging peer may elect from
  ElectionRounds,     \* retry rounds of elections proposed by peers
  Offers,             \* [from, batch] of the candidates peers can send
  SyncLists,          \* lists a ConversationSync can carry
  JoinWithoutList,    \* whether the member may start without a steward list
  FinalizeMayFail,    \* whether finalize_commit_round may hit a local error
  FreezeDuration, CommitBatchWindow, RetryWindow,   \* config.rs, in ticks
  AutoCommitDelay,    \* recovery_auto_commit_delay; Never for None
  MaxRounds,          \* recovery_max_rounds; 0 retries forever
  MaxRetries,         \* max_reelection_attempts
  BatchMax,           \* commit_batch_max
  AllowSubset,        \* allow_subset_candidates
  Horizon,            \* bound: a timer older than every window stops ageing
  VoteLimit,          \* bound: inbound proposals stop at this many in flight
  RetryCycle          \* bound: retry rounds above MaxRetries repeat after it

Off == -1     \* a timer that is not running
Never == -1   \* recovery_auto_commit_delay = None

ASSUME IdsAssumption ==
  /\ Ids \subseteq Nat \ {0} /\ IsFiniteSet(Ids)
  /\ Self \in InitMembers
  /\ InitMembers \subseteq Ids
  /\ ForeignPools \subseteq SUBSET Ids
  /\ ElectionRounds \subseteq Nat
  /\ SyncLists \subseteq [pool : SUBSET Ids, epoch : Nat, round : Nat]

ASSUME ChangesAssumption ==
  /\ Changes \subseteq [op : {"Add", "Remove"}, id : Ids]
  /\ Offers \subseteq [from : Ids \ {Self}, batch : SUBSET Changes]
  /\ Emergencies \subseteq
       [kind : {"deadlock", "violation"}] \cup [kind : {"score"}, target : Ids]
  /\ \A p \in Emergencies : p.kind = "score" => Remove(p.target) \in Changes
  /\ Remove(Self) \in Changes

ASSUME TimingAssumption ==
  /\ FreezeDuration \in Nat /\ CommitBatchWindow \in Nat /\ RetryWindow \in Nat
  /\ AutoCommitDelay \in Nat \cup {Never}
  /\ MaxRounds \in Nat /\ MaxRetries \in Nat
  /\ BatchMax \in Nat \ {0}
  /\ RetryCycle \in Nat \ {0}
  /\ \A n \in 1..Cardinality(Ids) : RetryCycle % n = 0   \* keeps round % len
  /\ Horizon \in Nat /\ VoteLimit \in Nat
  /\ {JoinWithoutList, FinalizeMayFail, AllowSubset} \subseteq BOOLEAN

VARIABLES
  pc,               \* next step of poll(), "idle" outside poll
  state,            \* ConversationStateMachine::state
  mode,             \* operating_mode
  recovery_rounds,  \* commit-less recovery rounds, counted up to MaxRounds
  phase_timer,      \* ticks since the phase anchor, or Off
  silence,          \* ticks since reelection_silence_anchor, or Off
  recovered,        \* timing.reelection_recovered
  list,             \* the installed steward list
  next_round,       \* next_election_round
  group,            \* MLS group: epoch, members; and member_join_epoch
  pending_commit,   \* batch of our own pending MLS commit, {} for none
  approved,         \* approved_proposals
  urgent,           \* urgent_commit_target
  voting,           \* voting_proposals
  emergency,        \* active_emergency_ids
  commit_round,     \* CommitRoundBuffer: epoch and candidates
  early,            \* early_candidates, tagged with their epoch
  left              \* the conversation was torn down after LeaveRequested

machine == <<state, mode, recovery_rounds, phase_timer>>
timing  == <<silence, recovered>>
service == <<list, next_round>>
mls     == <<group, pending_commit>>
queues  == <<approved, urgent, voting, emergency, commit_round, early>>
vars    == <<pc, machine, timing, service, mls, queues, left>>

------------------------------------------------------------------------------
\* Proposals

ChangeProposal(c, solo) == [kind |-> "change", change |-> c, solo |-> solo]

Deadlock == [kind |-> "deadlock"]

Elections == [kind : {"election"}, epoch : Nat, round : Nat, pool : SUBSET Ids]

ChangeProposals == [kind : {"change"}, change : Changes, solo : BOOLEAN]

EmergencyProposals == Emergencies \cup {Deadlock}

\* has_election_in_flight
ElectionInFlight(votes) == \E p \in votes : p.kind = "election"

\* active_proposal_targets: members a voting or approved proposal targets
ActiveTargets ==
  {p.change.id : p \in {v \in voting : v.kind = "change"}}
    \cup {p.target : p \in {v \in voting : v.kind = "score"}}
    \cup {c.id : c \in ChangesOf(approved)}

\* check_proposal_allowed for a steward election; partial_freeze_blocks
ElectionAllowed(st, active) == st \notin {"Freezing", "Selection"} /\ active = {}

------------------------------------------------------------------------------
\* Group and steward list

\* is_settled / settled_members: a member is settled after its join epoch
Settled(g, epoch) ==
  {m \in g.members : g.join_epoch[m] = 0 \/ g.join_epoch[m] < epoch}

\* steward_eligibility: members without a queued removal
Eligible(g, queue) == {m \in g.members : ~HasRemoval(queue, m)}

\* merge_*_commit and apply_membership_delta_bookkeeping
Merge(g, batch) ==
  LET added   == {c.id : c \in {d \in batch : d.op = "Add"}}
      removed == {c.id : c \in {d \in batch : d.op = "Remove"}}
  IN [epoch      |-> g.epoch + 1,
      members    |-> (g.members \ removed) \cup added,
      join_epoch |-> [m \in Ids |-> IF m \in added THEN g.epoch + 1
                                    ELSE IF m \in removed THEN 0
                                    ELSE g.join_epoch[m]]]

\* finalize_committed_batch: what stays queued once a batch merged
QueueAfter(queue, target, batch) ==
  LET removed == {c.id : c \in {d \in batch : d.op = "Remove"}}
  IN IF target = NoMember THEN EmptyQueue
     ELSE DropRemovals(queue, removed \cup {target})

\* reconcile_steward_list: an exhausted list is regenerated without a vote
\* while every settled member fits
NeedsElection(l, g) ==
  ListExhausted(l, g.epoch) /\ ElectionRequired(Cardinality(Settled(g, g.epoch)))

Reconciled(l, g) ==
  IF ListExhausted(l, g.epoch) /\ ~NeedsElection(l, g)
  THEN [pool |-> Settled(g, g.epoch), epoch |-> g.epoch, round |-> 0]
  ELSE l

\* Mutants of Bump: the counter runs down; it sticks once retries are exhausted
BumpDown(round) == round - 1
BumpSticks(round) == IF round > MaxRetries THEN round ELSE round + 1

\* bump_retry; the u32 counter is folded to a cycle above MaxRetries
Bump(round) ==
  IF round >= MaxRetries + RetryCycle THEN MaxRetries + 1 ELSE round + 1

\* propose_election: the election this member submits, if any
OwnElection(recovery, g, queue, l, round) ==
  LET pool == Settled(g, g.epoch)
      can  == {m \in Ids : ~(recovery /\ HasRemoval(queue, m))}
  IN IF /\ recovery \/ ListExhausted(l, g.epoch)
        /\ pool # {}
        /\ ResponsibleProposer(l, round, pool, can) = Self
     THEN {[kind |-> "election", epoch |-> g.epoch, round |-> round, pool |-> pool]}
     ELSE {}

\* initiate_steward_election on the voting queue votes
InitiateElection(recovery, votes, allowed, g, queue, l, round) ==
  IF ElectionInFlight(votes) \/ ~allowed THEN votes
  ELSE votes \cup OwnElection(recovery, g, queue, l, round)

\* is_deadlock_proposer
IsDeadlockProposer(round) ==
  ResponsibleProposer(list, round, group.members, Eligible(group, approved)) = Self

\* validate_election_list
ElectionValid(p) ==
  LET pool == Settled(group, p.epoch)
  IN Validate(Stewards([pool |-> p.pool, epoch |-> p.epoch, round |-> p.round]),
              p.epoch, p.round, pool)

------------------------------------------------------------------------------
\* Commit round

\* Mutant of Buffer: no cap
BufferUncapped(r, c) ==
  [epoch      |-> group.epoch,
   candidates |-> {c} \cup (IF r.epoch = group.epoch THEN r.candidates ELSE {})]

\* CommitRoundBuffer::add, capped at one candidate per member
Buffer(r, c) ==
  LET held == IF r.epoch = group.epoch THEN r.candidates ELSE {}
  IN [epoch      |-> group.epoch,
      candidates |-> IF Cardinality(held) >= Cardinality(group.members)
                     THEN held ELSE held \cup {c}]

\* take: this epoch's candidates leave the buffer, a stale round stays
Taken == IF commit_round.epoch = group.epoch THEN commit_round.candidates ELSE {}

\* Mutant of AfterTake: the candidates are read, not taken
AfterPeek == commit_round

AfterTake ==
  IF commit_round.epoch = group.epoch
  THEN [commit_round EXCEPT !.candidates = {}] ELSE commit_round

\* replay_early_candidates once queue holds approved work; the stash is no
\* larger than the cap and the round is empty then (StashWaitsForApproval)
Replayed(queue) ==
  IF early = {} \/ queue.entries = {} THEN commit_round
  ELSE [epoch      |-> group.epoch,
        candidates |-> Taken \cup {e.cand : e \in {x \in early : x.epoch = group.epoch}}]

\* Mutant of StashAfter: replaying keeps the stash
StashKept(queue) == early

StashAfter(queue) == IF queue.entries = {} THEN early ELSE {}

\* build_local_candidate and mint_and_broadcast_candidate into round r.
\* A pending commit makes create_commit_candidate fail.
MintInto(permitted, queue, target, r) ==
  LET batch == MintedBatch(queue, target, group.members, BatchMax)
      minted == /\ permitted
                /\ queue.entries # {}
                /\ ~HasRemoval(queue, Self)
                /\ pending_commit = {}
                /\ batch # {}
      own == [from |-> Self, batch |-> batch, stages |-> TRUE]
  IN /\ pending_commit' = IF minted THEN batch ELSE pending_commit
     /\ commit_round' = IF minted THEN Buffer(r, own) ELSE r

\* Mutant of EnterFreezing: the phase timer is not anchored
EnterFreezingUntimed(queue, target, r) ==
  /\ state' = "Freezing"
  /\ UNCHANGED phase_timer
  /\ MintInto(IsSteward(list, Self), queue, target, r)

\* start_freezing followed by on_freeze_entered: stewards mint at once
EnterFreezing(queue, target, r) ==
  /\ state' = "Freezing"
  /\ phase_timer' = 0
  /\ MintInto(IsSteward(list, Self), queue, target, r)

------------------------------------------------------------------------------
\* poll(): tick_deadlines drains the outcomes of votes

\* The drain is the first step of a poll; pc = "deadlines" once it handled an
\* outcome, so that no other handler comes before the rest of the poll.
Draining == pc \in {"idle", "deadlines"} /\ ~left

Drained == Draining /\ pc' = "deadlines"

\* has_approved_removal, has_approved_invite: the change is queued already.
\* Mutant: removals are not deduplicated.
DuplicateInvite(c) == c.op = "Add" /\ c \in ChangesOf(approved)
Duplicate(c) == c \in ChangesOf(approved)

\* An accepted membership change that is not a duplicate is queued; removing
\* a steward refreshes the list (refresh_stewards_after_removal).
AcceptChange(p) ==
  LET queue == Enqueue(approved, p.change)
      votes == voting \ {p}
  IN /\ Drained /\ p.kind = "change"
     /\ ~Duplicate(p.change)
     /\ approved' = queue
     /\ commit_round' = Replayed(queue)
     /\ early' = StashAfter(queue)
     /\ voting' = IF p.change.op = "Remove" /\ IsSteward(list, p.change.id)
                  THEN InitiateElection(TRUE, votes, ElectionAllowed(state, emergency),
                                        group, queue, list, next_round)
                  ELSE votes
     /\ UNCHANGED <<machine, timing, service, mls, urgent, emergency, left>>

\* A rejected change, or an accepted one already queued, only leaves the vote.
DropChange(p) ==
  /\ Drained /\ p.kind = "change"
  /\ ~p.solo \/ Duplicate(p.change)
  /\ voting' = voting \ {p}
  /\ UNCHANGED <<machine, timing, service, mls, approved, urgent, emergency,
                 commit_round, early, left>>

\* handle_election_accepted; an invalid list is ignored
AcceptElection(p) ==
  /\ Drained /\ p.kind = "election"
  /\ voting' = voting \ {p}
  /\ IF ElectionValid(p)
     THEN /\ list' = [pool |-> p.pool, epoch |-> p.epoch, round |-> p.round]
          /\ mode' = "Normal"
          /\ IF state = "Reelection"
             THEN recovered' = TRUE /\ state' = "Working" /\ phase_timer' = Off
             ELSE UNCHANGED <<recovered, state, phase_timer>>
     ELSE UNCHANGED <<list, mode, recovered, state, phase_timer>>
  /\ UNCHANGED <<recovery_rounds, silence, next_round, mls, approved, urgent,
                 emergency, commit_round, early, left>>

\* advance_election_retry: bump the round and re-run the election, or file the
\* Deadlock emergency once retries are exhausted
AdvanceRetry(votes) ==
  LET round == Bump(next_round)
      files == /\ round > MaxRetries
               /\ IsDeadlockProposer(round)
               /\ mode # "Recovery"
               /\ state \in {"Working", "Reelection"}
  IN /\ next_round' = round
     /\ emergency' = IF files THEN emergency \cup {Deadlock} ELSE emergency
     /\ voting' = IF files THEN votes \cup {Deadlock}
                  ELSE IF round > MaxRetries THEN votes
                  ELSE InitiateElection(TRUE, votes, ElectionAllowed(state, emergency),
                                        group, approved, list, round)

RejectElection(p) ==
  /\ Drained /\ p.kind = "election"
  /\ AdvanceRetry(voting \ {p})
  /\ UNCHANGED <<machine, timing, list, mls, approved, urgent, commit_round,
                 early, left>>

\* Mutant of EmergencyScored: only Reelection closes the partial freeze
EmergencyScoredLate(p, st) ==
  /\ emergency' = IF st = "Reelection" THEN emergency \ {p} ELSE emergency
  /\ state' = IF st = "Reelection" THEN "Working" ELSE st
  /\ phase_timer' = IF st = "Reelection" THEN Off ELSE phase_timer

\* handle_emergency_scored: the partial freeze ends and Reelection resumes
EmergencyScored(p, st) ==
  /\ emergency' = emergency \ {p}
  /\ state' = IF st = "Reelection" THEN "Working" ELSE st
  /\ phase_timer' = IF st = "Reelection" THEN Off ELSE phase_timer

\* An accepted Deadlock opens recovery and its collection window.
AcceptDeadlock(p) ==
  /\ Drained /\ p.kind = "deadlock"
  /\ voting' = voting \ {p}
  /\ emergency' = emergency \ {p}
  /\ mode' = "Recovery" /\ recovery_rounds' = 0
  /\ IF state \in {"Working", "Reelection"}
     THEN state' = "Freezing" /\ phase_timer' = 0
     ELSE UNCHANGED <<state, phase_timer>>
  /\ UNCHANGED <<timing, service, mls, approved, urgent, commit_round, early, left>>

\* An accepted below-threshold proposal becomes an urgent removal: freeze now
\* and mint.  The steward refresh that follows is refused, since the round is
\* freezing and the emergency is still active.
AcceptScore(p) ==
  LET queue == Enqueue(approved, Remove(p.target))
  IN /\ Drained /\ p.kind = "score"
     /\ ~HasRemoval(approved, p.target)
     /\ voting' = voting \ {p}
     /\ emergency' = emergency \ {p}
     /\ approved' = queue
     /\ urgent' = p.target
     /\ early' = StashAfter(queue)
     /\ IF state \in {"Working", "Reelection"}
        THEN EnterFreezing(queue, p.target, Replayed(queue))
        ELSE /\ commit_round' = Replayed(queue)
             /\ UNCHANGED <<state, phase_timer, pending_commit>>
     /\ UNCHANGED <<mode, recovery_rounds, timing, service, group, left>>

\* Every other emergency outcome: rejected, a violation verdict, or a removal
\* already queued.
CloseEmergency(p) ==
  /\ Drained /\ p \in EmergencyProposals
  /\ voting' = voting \ {p}
  /\ EmergencyScored(p, state)
  /\ UNCHANGED <<mode, recovery_rounds, timing, service, mls, approved, urgent,
                 commit_round, early, left>>

------------------------------------------------------------------------------
\* poll(): advance_freezing

\* Mutant of AutoCommitDue: any buffered candidate holds the mint back
AutoCommitYields ==
  /\ state = "Freezing" /\ mode = "Recovery"
  /\ AutoCommitDelay # Never /\ phase_timer >= AutoCommitDelay
  /\ commit_round.candidates = {}

\* maybe_auto_commit_recovery mints once the grace passed and we hold no
\* candidate
AutoCommitDue ==
  /\ state = "Freezing" /\ mode = "Recovery"
  /\ AutoCommitDelay # Never /\ phase_timer >= AutoCommitDelay
  /\ \A c \in commit_round.candidates : c.from # Self

DrainEnd ==
  /\ Draining
  /\ pc' = IF state = "Freezing" THEN "freezing" ELSE "tail"
  /\ IF AutoCommitDue
     THEN MintInto(TRUE, approved, urgent, commit_round)
     ELSE UNCHANGED <<pending_commit, commit_round>>
  /\ UNCHANGED <<machine, timing, service, group, approved, urgent, voting,
                 emergency, early, left>>

\* The collection window: recovery waits the manual grace and one settle
FreezeWindow ==
  IF mode # "Recovery" THEN FreezeDuration
  ELSE RetryWindow + (IF AutoCommitDelay = Never THEN 0 ELSE AutoCommitDelay)

\* all_candidates_in or window_elapsed
RoundReady ==
  \/ phase_timer >= FreezeWindow
  \/ /\ mode # "Recovery" /\ list # NoList
     /\ Cardinality(commit_round.candidates) >= ListLen(list)

FreezeWaits ==
  /\ pc = "freezing" /\ ~RoundReady
  /\ pc' = "tail"
  /\ UNCHANGED <<machine, timing, service, mls, queues, left>>

\* check_commit_sender_authorized
Authorised ==
  {m \in Ids : mode = "Recovery" \/ list = NoList \/ IsSteward(list, m)}

\* The candidates finalize_commit_round may apply
RoundWinners ==
  Winners(Taken, Self, approved, Authorised, mode = "Recovery" \/ AllowSubset,
          EpochSteward(list, group.epoch, Eligible(group, approved)))

\* leave_or_update: the local apply reads the approved queue, a remote one
\* what the staged commit removes
Ejects(w) ==
  IF w.from = Self THEN HasRemoval(approved, Self) ELSE Remove(Self) \in w.batch

\* Mutant of MergeWinner: the urgent target is read, not taken
MergeWinnerStaysUrgent(w) ==
  /\ pc = "freezing" /\ RoundReady
  /\ group' = Merge(group, w.batch)
  /\ approved' = QueueAfter(approved, urgent, w.batch)
  /\ urgent' = urgent
  /\ pending_commit' = {}
  /\ commit_round' = AfterTake
  /\ mode' = "Normal"

\* CommitRoundOutcome::Applied up to its dispatch
MergeWinner(w) ==
  /\ pc = "freezing" /\ RoundReady
  /\ group' = Merge(group, w.batch)
  /\ approved' = QueueAfter(approved, urgent, w.batch)
  /\ urgent' = NoMember
  /\ pending_commit' = {}
  /\ commit_round' = AfterTake
  /\ mode' = "Normal"

\* LeaveConversation: prepare_self_leave deletes the MLS state, the phase
\* stays Selection and poll() returns leave_requested
CommitEjects(w) ==
  /\ MergeWinner(w) /\ Ejects(w)
  /\ state' = "Selection" /\ left' = TRUE /\ pc' = "idle"
  /\ UNCHANGED <<recovery_rounds, phase_timer, timing, service, voting, emergency, early>>

\* on_conversation_updated: back to Working, then steward_list_housekeeping
CommitUpdates(w) ==
  LET g == Merge(group, w.batch)
      queue == QueueAfter(approved, urgent, w.batch)
  IN /\ MergeWinner(w) /\ ~Ejects(w)
     /\ state' = "Working" /\ phase_timer' = Off
     /\ next_round' = 0 /\ recovered' = FALSE
     /\ list' = Reconciled(list, g)
     /\ voting' = IF NeedsElection(list, g)
                  THEN InitiateElection(FALSE, voting, ElectionAllowed("Working", emergency),
                                        g, queue, list, 0)
                  ELSE voting
     /\ pc' = "tail"
     /\ UNCHANGED <<recovery_rounds, silence, emergency, early, left>>

\* has_proposals.  Mutant: the round always counts as missed.
AlwaysProposals == TRUE
HasProposals == approved.entries # {}

\* Mutant of RoundFails: our own pending commit is kept
RoundFailsPending ==
  /\ pc = "freezing" /\ RoundReady /\ RoundWinners = {}
  /\ UNCHANGED pending_commit
  /\ pc' = "tail"

\* CommitRoundOutcome::NoCandidate: the round is spent and our own pending
\* commit is discarded (discard_and_finish)
RoundFails ==
  /\ pc = "freezing" /\ RoundReady /\ RoundWinners = {}
  /\ pending_commit' = {}
  /\ pc' = "tail"

\* No approved work: the round is cleared, recovery ends, Working resumes.
NothingToCommit ==
  /\ RoundFails /\ ~HasProposals
  /\ commit_round' = [AfterTake EXCEPT !.candidates = {}]
  /\ mode' = "Normal" /\ state' = "Working" /\ phase_timer' = Off
  /\ UNCHANGED <<recovery_rounds, timing, service, group, approved, urgent, voting,
                 emergency, early, left>>

\* A missed commit: Reelection, and a recovery election if we are in charge
CommitMissed ==
  /\ RoundFails /\ HasProposals /\ mode = "Normal"
  /\ commit_round' = AfterTake
  /\ state' = "Reelection" /\ phase_timer' = Off
  /\ voting' = InitiateElection(TRUE, voting, ElectionAllowed("Reelection", emergency),
                                group, approved, list, next_round)
  /\ UNCHANGED <<mode, recovery_rounds, timing, service, group, approved, urgent,
                 emergency, early, left>>

\* Mutants of RetryOrExhaust: the stop-line is one late; the round is not counted
RetryOrExhaustLate ==
  LET exhausted == MaxRounds # 0 /\ recovery_rounds >= MaxRounds
  IN /\ recovery_rounds' = IF MaxRounds = 0 THEN 0 ELSE recovery_rounds + 1
     /\ mode' = IF exhausted THEN "Normal" ELSE mode
     /\ state' = IF exhausted THEN "Working" ELSE "Freezing"
     /\ phase_timer' = IF exhausted THEN Off ELSE 0
RetryUncounted ==
  state' = "Freezing" /\ phase_timer' = 0 /\ UNCHANGED <<mode, recovery_rounds>>

\* retry_or_exhaust_recovery
RetryOrExhaust ==
  LET rounds == recovery_rounds + 1
      exhausted == MaxRounds # 0 /\ rounds >= MaxRounds
  IN /\ recovery_rounds' = IF MaxRounds = 0 THEN 0 ELSE rounds
     /\ mode' = IF exhausted THEN "Normal" ELSE mode
     /\ state' = IF exhausted THEN "Working" ELSE "Freezing"
     /\ phase_timer' = IF exhausted THEN Off ELSE 0

RecoveryRoundFails ==
  /\ RoundFails /\ HasProposals /\ mode = "Recovery"
  /\ commit_round' = AfterTake
  /\ RetryOrExhaust
  /\ UNCHANGED <<timing, service, group, approved, urgent, voting, emergency, early, left>>

\* recover_from_finalize_error.  Mutant: recovery resumes Working as well.
FinalizeErrorResumes ==
  state' = "Working" /\ phase_timer' = Off /\ UNCHANGED <<mode, recovery_rounds>>

RecoverFromFinalizeError ==
  IF mode = "Recovery" THEN RetryOrExhaust
  ELSE state' = "Working" /\ phase_timer' = Off /\ UNCHANGED <<mode, recovery_rounds>>

\* Mutant of FinalizeFails: the approved queue is discarded with the round
FinalizeFailsRejecting ==
  /\ FinalizeMayFail
  /\ pc = "freezing" /\ RoundReady
  /\ pc' = "tail"
  /\ commit_round' = AfterTake
  /\ RecoverFromFinalizeError
  /\ approved' = EmptyQueue
  /\ UNCHANGED <<timing, service, mls, urgent, voting, emergency, early, left>>

\* finalize_commit_round returned an error.  The round was taken; a pending
\* commit of ours is not discarded.
FinalizeFails ==
  /\ FinalizeMayFail
  /\ pc = "freezing" /\ RoundReady
  /\ pc' = "tail"
  /\ commit_round' = AfterTake
  /\ RecoverFromFinalizeError
  /\ UNCHANGED <<timing, service, mls, approved, urgent, voting, emergency, early, left>>

------------------------------------------------------------------------------
\* poll(): start_freeze_on_inactivity and drive_reelection_retry

\* The inactivity window of start_freeze_on_inactivity
InactivityWindow ==
  IF mode = "Recovery" \/ next_round > 0 \/ recovered
  THEN RetryWindow ELSE CommitBatchWindow

\* check_steward_inactivity has approved work to time
WorkWaits ==
  state = "Working" /\ approved.entries # {} /\ ~ElectionInFlight(voting)

\* Nothing to freeze over; outside Reelection the silence watchdog is off.
TailIdle ==
  /\ pc = "tail" /\ state # "Reelection"
  /\ WorkWaits => phase_timer \in 0..(InactivityWindow - 1)
  /\ silence' = Off
  /\ pc' = "idle"
  /\ UNCHANGED <<machine, recovered, service, mls, queues, left>>

ArmInactivity ==
  /\ pc = "tail" /\ WorkWaits /\ phase_timer = Off
  /\ phase_timer' = 0
  /\ silence' = Off
  /\ pc' = "idle"
  /\ UNCHANGED <<state, mode, recovery_rounds, recovered, service, mls, queues, left>>

FreezeOnInactivity ==
  /\ pc = "tail" /\ WorkWaits
  /\ phase_timer # Off /\ phase_timer >= InactivityWindow
  /\ EnterFreezing(approved, urgent, commit_round)
  /\ silence' = Off
  /\ pc' = "idle"
  /\ UNCHANGED <<mode, recovery_rounds, recovered, service, group, approved, urgent,
                 voting, emergency, early, left>>

\* The watchdog waits while an election is in flight, arms on the first silent
\* poll, and keeps waiting until the window passed.
SilenceWait ==
  /\ pc = "tail" /\ state = "Reelection"
  /\ silence' = IF ElectionInFlight(voting) THEN Off
                ELSE IF silence = Off THEN 0 ELSE silence
  /\ ElectionInFlight(voting) \/ silence < RetryWindow
  /\ pc' = "idle"
  /\ UNCHANGED <<machine, recovered, service, mls, queues, left>>

\* A silent window counts as a rejected round.
SilenceElapsed ==
  /\ pc = "tail" /\ state = "Reelection"
  /\ ~ElectionInFlight(voting) /\ silence # Off /\ silence >= RetryWindow
  /\ silence' = Off
  /\ AdvanceRetry(voting)
  /\ pc' = "idle"
  /\ UNCHANGED <<machine, recovered, list, mls, approved, urgent, commit_round, early, left>>

------------------------------------------------------------------------------
\* Inbound messages and user intents, between polls

Idle == pc = "idle" /\ ~left

VoteOpen == Cardinality(voting) < VoteLimit

\* A candidate as it stages here: a sound commit needs a sender in the group
\* that does not remove itself, and changes MLS can apply.
Sound(o) ==
  /\ o.from \in group.members
  /\ Remove(o.from) \notin o.batch
  /\ \A c \in o.batch : Actionable(c, group.members)

\* receive_commit_candidate before the local approval: stash_early_candidate
StashCandidate(o, stages) ==
  LET held == {e \in early : e.epoch = group.epoch}
      entry == [epoch |-> group.epoch,
                cand |-> [from |-> o.from, batch |-> o.batch, stages |-> stages]]
  IN /\ Idle /\ approved.entries = {} /\ (stages => Sound(o))
     /\ early' = IF Cardinality(held) >= Cardinality(group.members) THEN held
                 ELSE held \cup {entry}
     /\ UNCHANGED <<pc, machine, timing, service, mls, approved, urgent, voting,
                    emergency, commit_round, left>>

\* receive_commit_candidate and on_commit_candidate_received: a buffered
\* candidate opens the freeze; a duplicate or a refused one does nothing
ReceiveCandidate(o, stages) ==
  LET cand == [from |-> o.from, batch |-> o.batch, stages |-> stages]
      r == Buffer(commit_round, cand)
  IN /\ Idle /\ approved.entries # {} /\ (stages => Sound(o))
     /\ cand \notin Taken /\ cand \in r.candidates
     /\ IF state \in {"Working", "Reelection"}
        THEN EnterFreezing(approved, urgent, r)
        ELSE /\ commit_round' = r
             /\ UNCHANGED <<state, phase_timer, pending_commit>>
     /\ UNCHANGED <<pc, mode, recovery_rounds, timing, service, group, approved, urgent,
                    voting, emergency, early, left>>

\* on_incoming_proposal: an active emergency drops everything of lower
\* priority; the phase is not checked
IncomingChange(c, solo) ==
  /\ Idle /\ VoteOpen /\ emergency = {} /\ Actionable(c, group.members)
  /\ solo => c.op = "Remove" /\ c.id # Self   \* a peer's self-leave
  /\ voting' = voting \cup {ChangeProposal(c, solo)}
  /\ UNCHANGED <<pc, machine, timing, service, mls, approved, urgent, emergency,
                 commit_round, early, left>>

IncomingElection(round, pool) ==
  /\ Idle /\ VoteOpen /\ emergency = {} /\ pool # {}
  /\ voting' = voting \cup
       {[kind |-> "election", epoch |-> group.epoch, round |-> round, pool |-> pool]}
  /\ UNCHANGED <<pc, machine, timing, service, mls, approved, urgent, emergency,
                 commit_round, early, left>>

IncomingEmergency(p) ==
  /\ Idle /\ VoteOpen
  /\ p.kind = "score" => p.target \in group.members
  /\ voting' = voting \cup {p}
  /\ emergency' = emergency \cup {p}
  /\ UNCHANGED <<pc, machine, timing, service, mls, approved, urgent, commit_round,
                 early, left>>

\* add_member, remove_member and the drain of buffered updates
OwnChange(c) ==
  /\ Idle /\ VoteOpen /\ state = "Working" /\ emergency = {}
  /\ Actionable(c, group.members) /\ c.id \notin ActiveTargets
  /\ voting' = voting \cup {ChangeProposal(c, FALSE)}
  /\ UNCHANGED <<pc, machine, timing, service, mls, approved, urgent, emergency,
                 commit_round, early, left>>

\* leave: a one-voter proposal, whatever the phase
Leave ==
  /\ Idle /\ VoteOpen /\ ~HasRemoval(approved, Self)
  /\ voting' = voting \cup {ChangeProposal(Remove(Self), TRUE)}
  /\ UNCHANGED <<pc, machine, timing, service, mls, approved, urgent, emergency,
                 commit_round, early, left>>

\* request_recovery, and propose_score_removal for a target nothing targets yet
OwnEmergency(p) ==
  /\ Idle /\ VoteOpen /\ state \in {"Working", "Reelection"}
  /\ p.kind = "deadlock" => mode # "Recovery"
  /\ p.kind = "score" => p.target \in group.members \ ActiveTargets
  /\ p.kind # "violation"
  /\ voting' = voting \cup {p}
  /\ emergency' = emergency \cup {p}
  /\ UNCHANGED <<pc, machine, timing, service, mls, approved, urgent, commit_round,
                 early, left>>

\* commit_in_recovery: any member mints
CommitInRecovery ==
  /\ Idle /\ mode = "Recovery"
  /\ MintInto(TRUE, approved, urgent, commit_round)
  /\ UNCHANGED <<pc, machine, timing, service, group, approved, urgent, voting,
                 emergency, early, left>>

\* on_conversation_sync: a first list, or a newer one for an exhausted list;
\* validate_conversation_sync re-derives it over the carried pool's members
ReceiveSync(s) ==
  /\ Idle
  /\ list = NoList \/ (Exhausted(list, group.epoch) /\ s.epoch > list.epoch)
  /\ s.epoch <= group.epoch
  /\ s.pool \cap group.members # {}
  /\ Validate(Stewards(s), s.epoch, s.round, s.pool \cap group.members)
  /\ list' = s
  /\ UNCHANGED <<pc, machine, timing, next_round, mls, queues, left>>

\* The clock, between handlers
Tick ==
  /\ Idle
  /\ phase_timer \in 0..(Horizon - 1) \/ silence \in 0..(RetryWindow - 1)
  /\ phase_timer' = IF phase_timer \in 0..(Horizon - 1) THEN phase_timer + 1
                    ELSE phase_timer
  /\ silence' = IF silence \in 0..(RetryWindow - 1) THEN silence + 1 ELSE silence
  /\ UNCHANGED <<pc, state, mode, recovery_rounds, recovered, service, mls, queues, left>>

\* The integrator dropped the conversation.
TornDown == left /\ UNCHANGED vars

------------------------------------------------------------------------------
Init ==
  /\ pc = "idle"
  /\ state = "Working" /\ mode = "Normal" /\ recovery_rounds = 0
  /\ phase_timer = Off /\ silence = Off /\ recovered = FALSE
  /\ \/ list = [pool |-> InitMembers, epoch |-> 1, round |-> 0]
     \/ JoinWithoutList /\ list = NoList
  /\ next_round = 0
  /\ group = [epoch |-> 1, members |-> InitMembers, join_epoch |-> [m \in Ids |-> 0]]
  /\ pending_commit = {}
  /\ approved = EmptyQueue /\ urgent = NoMember
  /\ voting = {} /\ emergency = {}
  /\ commit_round = [epoch |-> 0, candidates |-> {}] /\ early = {}
  /\ left = FALSE

ResolveChange == \E p \in voting : AcceptChange(p) \/ DropChange(p)

ResolveElection == \E p \in voting : AcceptElection(p) \/ RejectElection(p)

ResolveEmergency ==
  \E p \in voting : AcceptDeadlock(p) \/ AcceptScore(p) \/ CloseEmergency(p)

FinalizeRound ==
  \/ \E w \in RoundWinners : CommitEjects(w) \/ CommitUpdates(w)
  \/ NothingToCommit
  \/ CommitMissed
  \/ RecoveryRoundFails
  \/ FinalizeFails

PollTail ==
  \/ TailIdle \/ ArmInactivity \/ FreezeOnInactivity \/ SilenceWait \/ SilenceElapsed

Inbound ==
  \/ \E o \in Offers, stages \in BOOLEAN :
       StashCandidate(o, stages) \/ ReceiveCandidate(o, stages)
  \/ \E c \in Changes, solo \in BOOLEAN : IncomingChange(c, solo)
  \/ \E round \in ElectionRounds, pool \in ForeignPools \cup {Settled(group, group.epoch)} :
       IncomingElection(round, pool)
  \/ \E p \in Emergencies : IncomingEmergency(p)
  \/ \E s \in SyncLists : ReceiveSync(s)

Intents ==
  \/ \E c \in Changes : OwnChange(c)
  \/ Leave
  \/ \E p \in Emergencies : OwnEmergency(p)
  \/ CommitInRecovery

Next ==
  \/ ResolveChange \/ ResolveElection \/ ResolveEmergency \/ DrainEnd
  \/ FreezeWaits \/ FinalizeRound \/ PollTail
  \/ Inbound \/ Intents
  \/ Tick \/ TornDown

Spec == Init /\ [][Next]_vars

\* The integrator keeps polling and the clock keeps running; a vote in flight
\* resolves at some poll, at the latest by its consensus timeout (voting.rs
\* tick_deadlines, register_consensus_timeout).  Nothing is assumed of peers or
\* of the way a vote goes.
Fairness ==
  /\ WF_vars(DrainEnd)
  /\ WF_vars(FreezeWaits \/ FinalizeRound)
  /\ WF_vars(PollTail)
  /\ SF_vars(Tick)
  /\ SF_vars(ResolveChange)
  /\ SF_vars(ResolveElection)
  /\ SF_vars(ResolveEmergency)

FairSpec == Spec /\ Fairness

------------------------------------------------------------------------------
\* Properties

Candidates == [from : Ids, batch : SUBSET Changes, stages : BOOLEAN]

\* The type of every variable of a Conversation (conversation/handle.rs,
\* queues.rs, steward_list/service.rs).
TypeOK ==
  /\ pc \in {"idle", "deadlines", "freezing", "tail"}
  /\ state \in {"Working", "Freezing", "Selection", "Reelection"}
  /\ mode \in {"Normal", "Recovery"}
  /\ recovery_rounds \in Nat
  /\ phase_timer \in Nat \cup {Off}
  /\ silence \in Nat \cup {Off}
  /\ recovered \in BOOLEAN
  /\ list \in [pool : SUBSET Ids, epoch : Nat, round : Nat]
  /\ next_round \in Nat
  /\ group \in [epoch : Nat, members : SUBSET Ids, join_epoch : [Ids -> Nat]]
  /\ pending_commit \subseteq Changes
  /\ approved \in [next : Nat, entries : SUBSET [at : Nat, change : Changes]]
  /\ urgent \in Ids \cup {NoMember}
  /\ voting \subseteq ChangeProposals \cup Elections \cup EmergencyProposals
  /\ emergency \subseteq EmergencyProposals
  /\ commit_round \in [epoch : Nat, candidates : SUBSET Candidates]
  /\ early \subseteq [epoch : Nat, cand : Candidates]
  /\ left \in BOOLEAN

\* Recovery relaxes the steward gate only while its collection window is open:
\* every way out of Freezing (applied, exhausted, nothing to commit, finalize
\* error, elected list) also leaves Recovery, so Working and Reelection never
\* run with the gate open (poll.rs advance_freezing).
RecoveryOnlyInFreezing == mode = "Recovery" => state = "Freezing"

\* A freeze always has an anchor to time it out, Reelection is timed by its own
\* watchdog, and Working is timed only while approved work waits (handle.rs
\* start_working / start_freezing / start_reelection): no phase can hang on a
\* missing timer or fire on one left over from another phase.
TimerMatchesPhase ==
  /\ state = "Freezing" => phase_timer # Off
  /\ state = "Reelection" => phase_timer = Off
  /\ state = "Working" /\ phase_timer # Off => approved.entries # {}

\* An open recovery window has rounds left before the stop-line
\* recovery_max_rounds (poll.rs retry_or_exhaust_recovery).
RecoveryBelowStopLine ==
  mode = "Recovery" /\ MaxRounds # 0 => recovery_rounds < MaxRounds

\* Our own MLS commit is pending only while a round is open that will merge or
\* discard it; outside Freezing it would block the next commit and message
\* (mls_crypto/service.rs create_commit_candidate).
PendingCommitOnlyWhileFreezing == pending_commit # {} => state = "Freezing"

\* The partial freeze lasts exactly as long as some emergency is being voted
\* on, whichever way it resolves (handle_emergency_scored).
PartialFreezeMatchesVotes ==
  emergency = {p \in voting : p.kind \notin {"change", "election"}}

\* The candidate the round would merge as ours is the commit MLS holds pending
\* (apply_local_candidate merges the pending commit, not the buffered bytes).
OwnCandidateIsPending ==
  \A c \in commit_round.candidates : c.from = Self => c.batch = pending_commit

\* A buffered round belongs to the current epoch, holds at most one candidate
\* per member, and waits for approved work (CommitRoundBuffer).
RoundIsCurrent ==
  commit_round.candidates # {} =>
    /\ commit_round.epoch = group.epoch
    /\ Cardinality(commit_round.candidates) <= Cardinality(group.members)
    /\ approved.entries # {}

\* Candidates stashed before their approval are from this epoch, wait for the
\* first approval only, and never compete with a buffered round, so replaying
\* them cannot overflow or mix epochs (stash_early_candidate, take_early_candidates).
StashWaitsForApproval ==
  early # {} => /\ approved.entries = {}
                /\ Taken = {}
                /\ Cardinality(early) <= Cardinality(group.members)
                /\ \A e \in early : e.epoch = group.epoch

\* Whatever paths approve the same change (ban, self-leave, below-threshold,
\* two invitations), it is queued once: the round counts approvals, so a
\* duplicate would refuse every honest candidate (apply_consensus_result).
QueuedOnce ==
  \A e, f \in approved.entries : e.change = f.change => e = f

\* While a commit is urgent the removal it is for is still queued
\* (finalize_committed_batch takes the target only with the entry).
UrgentTargetQueued == urgent # NoMember => HasRemoval(approved, urgent)

\* Reelection is entered and kept only for approved work: the batch survives
\* until an elected steward commits it (poll.rs, NoCandidate).
ReelectionHoldsWork == state = "Reelection" => approved.entries # {}

\* A step of the group by approved changes out of a freeze
VotedStep ==
  group' # group =>
    /\ state = "Freezing"
    /\ group'.epoch = group.epoch + 1
    /\ \A m \in group'.members \ group.members : Add(m) \in ChangesOf(approved)
    /\ \A m \in group.members \ group'.members : Remove(m) \in ChangesOf(approved)

\* Membership changes only by what this member saw approved, one epoch at a
\* time, in no phase but a ready freeze (commit_round/apply.rs).
MembershipIsVoted == [][VotedStep]_vars

\* Approved work leaves the queue only in a step that advances the epoch, and
\* only once membership reflects it: no missed commit, election, recovery or
\* failure drops it, and no smaller commit takes the rest of the queue along.
\* Where subset candidates are accepted only the first half is promised
\* (commit_round/apply.rs finalize_committed_batch, poll.rs NoCandidate).
WorkLeavesByCommit ==
  [][\A c \in ChangesOf(approved) \ ChangesOf(approved') :
       /\ group'.epoch = group.epoch + 1
       /\ mode = "Normal" /\ ~AllowSubset => ~Actionable(c, group'.members)]_vars

\* With the automatic fallback on, a recovery round is counted as failed only if
\* this member could not mint: nothing committable is queued, it is being removed
\* itself, or the round was full without it (poll.rs maybe_auto_commit_recovery,
\* retry_or_exhaust_recovery).  Whatever was approved, replayed or minted
\* before, its own candidate is there to win.
RecoveryLandsWork ==
  [][recovery_rounds' > recovery_rounds /\ AutoCommitDelay # Never =>
       \/ MintedBatch(approved, urgent, group.members, BatchMax) = {}
       \/ HasRemoval(approved, Self)
       \/ Cardinality(Taken) >= Cardinality(group.members)]_vars

\* A freeze ends: normally by its window or a full set of candidates, in
\* recovery by a commit or the stop-line recovery_max_rounds.  Every accepted
\* Deadlock restarts the recovery budget, so emergencies must cease
\* (poll.rs advance_freezing, handle.rs enter_recovery_mode).
FreezeEnds ==
  <>[](emergency = {}) => (state = "Freezing" ~> state # "Freezing")

\* A member that is not itself being removed never parks in Reelection: however
\* votes go and however silent the other proposers are, the retry ladder hands
\* it the election or the Deadlock escalation (poll.rs drive_reelection_retry,
\* steward.rs advance_election_retry).
ReelectionEnds ==
  (state = "Reelection" /\ ~HasRemoval(approved, Self))
    ~> (state # "Reelection" \/ HasRemoval(approved, Self))

------------------------------------------------------------------------------
\* What comments of the code say and the code does not do

\* "the next freeze cycle commits only the RemoveMember(target) entry; other
\* approvals wait" (queues.rs urgent_commit_target): with an authorised candidate
\* for exactly that removal in hand, an urgent round does not end in Reelection.
UrgentCommitsAlone ==
  [][urgent # NoMember /\ state = "Freezing" /\ state' = "Reelection" =>
       ~\E c \in Taken : /\ c.stages /\ c.from \in Authorised
                         /\ c.batch = {Remove(urgent)}]_vars

\* "A cross-node duplicate ... is caught later at approval" (voting.rs
\* initiate_proposal): nothing is queued that membership already reflects, which
\* no commit could ever carry.
ApprovedIsCommittable == \A c \in ChangesOf(approved) : Actionable(c, group.members)

\* "`batch` holds the proposals that landed ... the membership now reflects
\* them" (events.rs CommitApplied): whatever a commit takes off the queue
\* happened.
CommitAppliedIsReflected ==
  [][\A c \in ChangesOf(approved) \ ChangesOf(approved') :
       ~Actionable(c, group'.members)]_vars
==============================================================================
