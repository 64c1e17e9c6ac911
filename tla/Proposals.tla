------------------------------ MODULE Proposals ------------------------------
(***************************************************************************)
(* How one member (leaf Self) opens, votes on, times out and resolves      *)
(* proposals: the in-flight index, the emergencies, the auto-vote and      *)
(* timeout registries, the outcome bus, the cache of resolved ids and the  *)
(* buffer of updates that later stewards retry (consensus/voting.rs,       *)
(* consensus/handle_outcome.rs, conversation/queues.rs, steward.rs).       *)
(*                                                                         *)
(* Members are named by their leaf, joiners by their signature key; MLS    *)
(* puts a joiner on the leftmost free leaf.  The session store belongs to  *)
(* the consensus library and is modelled from its use.  A poll ticks *)
(* the deadlines, drains the outcomes and drives the buffer; nothing else  *)
(* runs in between (stage).                                                *)
(***************************************************************************)
EXTENDS Integers, FiniteSets, SequencesExt

CONSTANTS
  Self,               \* own leaf
  Founders,           \* [leaf -> signature key] of the members at the start
  Joiners,            \* signature keys that may join
  VotingDelay, ConsensusTimeout, TakeoverWindow,   \* config.rs, in ticks
  MaxAge,             \* pending_update_max_epochs
  MaxSessions,        \* max_consensus_sessions
  ResolvedCapacity,   \* RESOLVED_PROPOSAL_CACHE_CAPACITY
  ScoresMayFail,      \* whether the score storage may report an error
  LeaveIdsRecur,      \* whether a leave may come with an id resolved before
  Wanted,             \* bound: requests that users and peers come up with
  OpenLimit,          \* bound: proposals opened
  BusLimit,           \* bound: outcomes waiting for a poll
  EpochLimit          \* bound: epochs

Off == -1
Leaves == (DOMAIN Founders) \cup 0..(Cardinality(DOMAIN Founders) + Cardinality(Joiners))
Keys == Range(Founders) \cup Joiners

ASSUME IdentityAssumption ==
  /\ Self \in DOMAIN Founders /\ DOMAIN Founders \subseteq Nat
  /\ IsFiniteSet(Joiners) /\ Keys \cap Nat = {}

ASSUME ConfigAssumption ==
  /\ VotingDelay \in Nat /\ ConsensusTimeout \in Nat
  /\ VotingDelay < ConsensusTimeout      \* ConversationConfig::validate
  /\ TakeoverWindow \in Nat /\ MaxAge \in Nat
  /\ MaxSessions \in Nat \ {0} /\ ResolvedCapacity \in Nat \ {0}
  /\ {ScoresMayFail, LeaveIdsRecur} \subseteq BOOLEAN
  /\ OpenLimit \in Nat /\ BusLimit \in Nat /\ EpochLimit \in Nat

Invite(k) == [op |-> "Invite", target |-> k]
RemoveMember(l) == [op |-> "Remove", target |-> l]
Emergency == [op |-> "Emergency", target |-> Off]
Requests == {Invite(k) : k \in Keys} \cup {RemoveMember(l) : l \in Leaves} \cup {Emergency}

ASSUME WantedAssumption == Wanted \subseteq Requests

VARIABLES
  working,      \* Working, or else Freezing
  role,         \* "epoch", "backup" or "plain": this member's duty this epoch
  stage,        \* a poll under way, or the group left
  epoch, tree,  \* MLS epoch and [leaf -> signature key]
  opened,       \* proposals opened so far
  sessions,     \* session store, oldest first: [id, status, voted]
  bus,          \* OutcomeBus: [id, yes]
  voting,       \* voting_proposals
  emergencies,  \* active_emergency_ids
  autoVotes,    \* pending_auto_votes: [id, left]
  timeouts,     \* pending_consensus_timeouts: [id, left]
  resolved,     \* resolved_proposals, oldest first
  approved,     \* approved_proposals
  pending,      \* pending_updates: [req, seen]
  anchor,       \* ticks left of the backup takeover window, or Off
  leaving       \* leaves whose leave this member took in

duty    == <<working, role, stage>>
group   == <<epoch, tree>>
library == <<sessions, bus>>
timers  == <<autoVotes, timeouts, anchor>>
queues  == <<voting, emergencies, resolved, approved, pending>>
vars    == <<duty, group, opened, library, timers, queues, leaving>>

------------------------------------------------------------------------------
\* Requests and ids

\* self_leave_proposal_id: the hash of the leaf and of nothing else.  All other
\* ids are fresh.
LeaveId(l) == [nr |-> 0, req |-> RemoveMember(l), own |-> FALSE]

IsChange(req) == req.op # "Emergency"

\* Whether a group of members t could carry out req
DoableIn(t, req) ==
  CASE req.op = "Invite" -> req.target \notin Range(t)
    [] req.op = "Remove" -> req.target \in DOMAIN t
    [] OTHER -> TRUE

Doable(req) == DoableIn(tree, req)

\* Bound: the updates kept may all become proposals.
Room == opened + Cardinality(pending) < OpenLimit

\* active_proposal_targets
Targets(ids) == {id.req.target : id \in {i \in ids : IsChange(i.req)}}
ActiveTargets == Targets(voting \cup approved)

\* partial_freeze_blocks
Blocked(req, active) == active # {} /\ IsChange(req)

\* BoundedSet::insert: first in, first out, a value held keeps its place
Remember(cache, id) ==
  IF Contains(cache, id) THEN cache
  ELSE LET grown == Append(cache, id)
       IN IF Len(grown) > ResolvedCapacity THEN Tail(grown) ELSE grown

\* insert_pending_update: keyed by target, the first entry stays
Buffered(buffer, req) ==
  IF \E p \in buffer : p.req.target = req.target THEN buffer
  ELSE buffer \cup {[req |-> req, seen |-> epoch]}

------------------------------------------------------------------------------
\* The session store of the consensus library

Stored(id) == \E i \in DOMAIN sessions : sessions[i].id = id
Active(id) == \E i \in DOMAIN sessions : sessions[i].id = id /\ sessions[i].status = "active"
SessionOf(id) == CHOOSE s \in Range(sessions) : s.id = id

\* New sessions; past the limit the oldest are evicted, whatever their state.
WithSessions(store, new) ==
  LET grown == store \o new
      over  == Len(grown) - MaxSessions
  IN IF over > 0 THEN SubSeq(grown, over + 1, Len(grown)) ELSE grown

\* The store without session id, which it holds once
Drop(store, id) == RemoveAt(store, CHOOSE i \in DOMAIN store : store[i].id = id)

Ballot(yes) == IF yes THEN "yes" ELSE "no"

\* The store with the status and the voted flag of session id replaced
UpdateSession(id, status, voted) ==
  LET changed == [id |-> id, status |-> status, voted |-> voted]
  IN [i \in DOMAIN sessions |-> IF sessions[i].id = id THEN changed ELSE sessions[i]]

NewSession(id, voted) == [id |-> id, status |-> "active", voted |-> voted]

\* The library resolves an active session and publishes the outcome.
Resolve(id, yes) ==
  /\ sessions' = UpdateSession(id, Ballot(yes), SessionOf(id).voted)
  /\ bus' = Append(bus, [id |-> id, yes |-> yes])

------------------------------------------------------------------------------
\* Opening proposals

\* Mutant of Admissible: the in-flight index is not asked
AdmissibleAgain(req) == working /\ ~Blocked(req, emergencies)

\* initiate_proposal goes through: no change for the same member is in flight
\* and check_proposal_allowed agrees
Admissible(req) == /\ working
                   /\ ~(IsChange(req) /\ req.target \in ActiveTargets)
                   /\ ~Blocked(req, emergencies)

\* initiate_proposal for the requests of seq, each of another target: the
\* creator's YES bundled, or deferred to the vote request
Initiate(seq, yes) ==
  LET ids == [i \in DOMAIN seq |-> [nr |-> opened + i, req |-> seq[i], own |-> TRUE]]
  IN /\ opened' = opened + Len(seq)
     /\ sessions' = WithSessions(sessions, [i \in DOMAIN seq |-> NewSession(ids[i], yes)])
     /\ voting' = voting \cup Range(ids)
     /\ emergencies' = emergencies \cup {id \in Range(ids) : ~IsChange(id.req)}
     /\ timeouts' = timeouts \cup {[id |-> id, left |-> ConsensusTimeout] : id \in Range(ids)}
     /\ autoVotes' = IF yes THEN autoVotes
                     ELSE autoVotes \cup {[id |-> id, left |-> VotingDelay] :
                                            id \in Range(ids)}

Initiated == <<opened, sessions, voting, emergencies, timeouts, autoVotes>>

\* add_member, remove_member and the integrator's emergencies
Propose(req) ==
  /\ stage = "idle" /\ Room /\ Doable(req) /\ Admissible(req)
  /\ Initiate(<<req>>, TRUE)
  /\ UNCHANGED <<duty, group, bus, anchor, resolved, approved, pending, leaving>>

\* sponsor_member: the epoch steward proposes, the others keep the request
Sponsor(k) ==
  /\ stage = "idle" /\ Room /\ working /\ k \notin Range(tree)
  /\ IF role = "epoch"
     THEN /\ Admissible(Invite(k))
          /\ Initiate(<<Invite(k)>>, FALSE)
          /\ UNCHANGED pending
     ELSE /\ pending' = Buffered(pending, Invite(k))
          /\ UNCHANGED Initiated
  /\ UNCHANGED <<duty, group, bus, anchor, resolved, approved, leaving>>

\* handle_incoming_update_request: kept by everyone, proposed by the steward.
\* A request is for the group as it is.
HearUpdate(req) ==
  /\ stage = "idle" /\ Room /\ IsChange(req) /\ Doable(req)
  /\ pending' = Buffered(pending, req)
  /\ IF role = "epoch" /\ Admissible(req) THEN Initiate(<<req>>, FALSE)
     ELSE UNCHANGED Initiated
  /\ UNCHANGED <<duty, group, bus, anchor, resolved, approved, leaving>>

\* on_incoming_proposal of a peer, more than one voter.  It does not look at the
\* tree: Doable is an assumption on the peers, that what they propose makes sense
\* at the epoch they propose it in, the one the proposal is read in.
HearProposal(req) ==
  LET id == [nr |-> opened + 1, req |-> req, own |-> FALSE]
  IN /\ stage = "idle" /\ Room /\ Doable(req)
     /\ ~Blocked(req, emergencies)
     /\ opened' = opened + 1
     /\ sessions' = WithSessions(sessions, <<NewSession(id, FALSE)>>)
     /\ voting' = voting \cup {id}
     /\ emergencies' = IF IsChange(req) THEN emergencies ELSE emergencies \cup {id}
     /\ pending' = IF IsChange(req) THEN Buffered(pending, req) ELSE pending
     /\ autoVotes' = autoVotes \cup {[id |-> id, left |-> VotingDelay]}
     /\ timeouts' = timeouts \cup {[id |-> id, left |-> ConsensusTimeout]}
     /\ UNCHANGED <<duty, group, bus, anchor, resolved, approved, leaving>>

\* The tenant of leaf l asks to leave, once.  LeaveIdsRecur admits the tenant
\* of a leaf whose earlier tenant's leave is still in the cache of resolved ids.
MayLeave(l) ==
  /\ l \in DOMAIN tree /\ l \notin leaving
  /\ Contains(resolved, LeaveId(l)) => LeaveIdsRecur

\* The single-voter session of a leave resolves as it opens.
OpenLeave(l) ==
  /\ sessions' = WithSessions(sessions, <<[id |-> LeaveId(l), status |-> "yes", voted |-> TRUE]>>)
  /\ bus' = Append(bus, [id |-> LeaveId(l), yes |-> TRUE])
  /\ voting' = voting \cup {LeaveId(l)}
  /\ leaving' = leaving \cup {l}

\* on_incoming_proposal of a peer's self-leave; an id in the store is refused
HearLeave(l) ==
  /\ stage = "idle" /\ l # Self /\ MayLeave(l) /\ Len(bus) < BusLimit
  /\ ~Blocked(RemoveMember(l), emergencies) /\ ~Stored(LeaveId(l))
  /\ OpenLeave(l)
  /\ pending' = Buffered(pending, RemoveMember(l))
  /\ UNCHANGED <<duty, group, opened, timers, emergencies, resolved, approved>>

\* initiate_self_leave; is_pending_self_leave looks under the leave id alone
SelfLeave ==
  /\ stage = "idle" /\ MayLeave(Self) /\ Len(bus) < BusLimit
  /\ LeaveId(Self) \notin approved
  /\ ~Stored(LeaveId(Self))
  /\ OpenLeave(Self)
  /\ UNCHANGED <<duty, group, opened, timers, emergencies, resolved, approved, pending>>

------------------------------------------------------------------------------
\* Votes

WithoutTimer(registry, id) == {e \in registry : e.id # id}

\* cast_vote: once per session
Cast(id) ==
  sessions' = UpdateSession(id, SessionOf(id).status, TRUE)

\* Mutant of Vote: the auto-vote is cancelled before the phase is looked at
VoteCancels(id) ==
  /\ stage = "idle" /\ Active(id)
  /\ autoVotes' = WithoutTimer(autoVotes, id)
  /\ IF working THEN Cast(id) ELSE UNCHANGED sessions
  /\ UNCHANGED <<duty, group, opened, bus, timeouts, anchor, queues, leaving>>

\* vote: the manual choice replaces the auto-vote; refused while freezing
Vote(id) ==
  /\ stage = "idle" /\ working /\ Active(id)
  /\ autoVotes' = WithoutTimer(autoVotes, id)
  /\ Cast(id)
  /\ UNCHANGED <<duty, group, opened, bus, timeouts, anchor, queues, leaving>>

\* forward_incoming_vote: enough votes decide the session; a vote for a
\* resolved or unknown session changes nothing
PeersDecide(id, yes) ==
  /\ stage = "idle" /\ Active(id) /\ Len(bus) < BusLimit
  /\ Resolve(id, yes)
  /\ UNCHANGED <<duty, group, opened, timers, queues, leaving>>

\* The library publishes an outcome it published before.
Republish(id) ==
  /\ stage = "idle" /\ Stored(id) /\ ~Active(id) /\ Len(bus) < BusLimit
  /\ bus' = Append(bus, [id |-> id, yes |-> SessionOf(id).status = "yes"])
  /\ UNCHANGED <<duty, group, opened, sessions, timers, queues, leaving>>

------------------------------------------------------------------------------
\* poll: tick_deadlines, then the drive of buffered updates

Due(registry) == {e.id : e \in {x \in registry : x.left = 0}}

\* tick_deadlines: the due auto-votes are cast once per open session, then
\* resolve_on_timeout closes the sessions whose time is up, if still open
TickDeadlines ==
  LET late == {id \in Due(timeouts) : Active(id)}
      after(s, verdict) ==
        [id |-> s.id,
         status |-> IF s.id \in late THEN Ballot(verdict[s.id]) ELSE s.status,
         voted |-> s.voted \/ (s.id \in Due(autoVotes) /\ s.status = "active")]
  IN /\ stage = "idle" /\ stage' = "drain"
     /\ autoVotes' = {e \in autoVotes : e.left # 0}
     /\ timeouts' = {e \in timeouts : e.left # 0}
     /\ \E verdict \in [late -> BOOLEAN], order \in SetToSeqs(late) :
          /\ sessions' = [i \in DOMAIN sessions |-> after(sessions[i], verdict)]
          /\ bus' = bus \o [i \in DOMAIN order |-> [id |-> order[i], yes |-> verdict[order[i]]]]
     /\ UNCHANGED <<working, role, group, opened, anchor, queues, leaving>>

\* apply_consensus_result on the queues, for membership changes
Approve(id, yes) ==
  approved' = IF yes /\ IsChange(id.req) /\ \A a \in approved : a.req # id.req
              THEN approved \cup {id} ELSE approved

\* Mutant of Outcome: a rejected emergency stays among the active ones
OutcomeKeepsRejected(id, yes, fails) ==
  IF Contains(resolved, id) \/ ~Stored(id)
  THEN UNCHANGED <<resolved, voting, approved, pending, emergencies, sessions>>
  ELSE /\ resolved' = Remember(resolved, id)
       /\ voting' = voting \ {id} /\ Approve(id, yes) /\ UNCHANGED pending
       /\ emergencies' = IF yes THEN emergencies \ {id} ELSE emergencies
       /\ sessions' = Drop(sessions, id)

\* handle_consensus_outcome, after the two deadlines were dropped: an applied
\* id is dropped, an id without session is an error and is lost; the rest is
\* marked first, and an error of the score write leaves the emergency active
Outcome(id, yes, fails) ==
  IF Contains(resolved, id) \/ ~Stored(id)
  THEN UNCHANGED <<resolved, voting, approved, pending, emergencies, sessions>>
  ELSE /\ resolved' = Remember(resolved, id)
       /\ voting' = voting \ {id}
       /\ Approve(id, yes)
       /\ pending' = IF ~yes /\ IsChange(id.req)
                     THEN {p \in pending : p.req.target # id.req.target} ELSE pending
       /\ emergencies' = IF fails THEN emergencies ELSE emergencies \ {id}
       /\ sessions' = IF fails THEN sessions ELSE Drop(sessions, id)

DrainOutcome ==
  /\ stage = "drain" /\ bus # <<>>
  /\ LET o == Head(bus)
     IN /\ bus' = Tail(bus)
        /\ autoVotes' = WithoutTimer(autoVotes, o.id)
        /\ timeouts' = WithoutTimer(timeouts, o.id)
        /\ \E fails \in {FALSE, ScoresMayFail /\ ~IsChange(o.id.req)} : Outcome(o.id, o.yes, fails)
  /\ UNCHANGED <<duty, group, opened, anchor, leaving>>

\* actionable_buffered_updates, of a buffer, members and proposals in flight.
\* An invite is keyed by a signature key, which is no leaf: it always counts as
\* one for a non-member.
ActionableOf(buffer, t, inflight) ==
  {p.req : p \in {q \in buffer : /\ q.req.target \notin Targets(inflight)
                                 /\ q.req.op = "Remove" => q.req.target \in DOMAIN t}}

Actionable == ActionableOf(pending, tree, voting \cup approved)

\* drain_buffered_updates: every update is proposed, in any order, or none
\* while an emergency blocks changes
DrainBuffer(reqs) ==
  \E seq \in SetToSeqs(IF emergencies = {} THEN reqs ELSE {}) : Initiate(seq, FALSE)

\* Mutant of Drive: a backup steward re-arms its window at every poll
DriveRearms ==
  LET idle == ~working \/ approved # {} \/ Actionable = {}
  IN /\ stage = "drain" /\ bus = <<>> /\ stage' = "idle"
     /\ \/ /\ ~idle /\ role = "epoch" /\ anchor' = Off /\ DrainBuffer(Actionable)
        \/ /\ idle \/ role # "epoch"
           /\ anchor' = IF idle THEN Off ELSE TakeoverWindow
           /\ UNCHANGED Initiated
     /\ UNCHANGED <<working, role, group, bus, resolved, approved, pending, leaving>>

\* drive_buffered_proposals: a backup steward gives the epoch steward a window
Drive ==
  LET idle == ~working \/ approved # {} \/ Actionable = {}
  IN /\ stage = "drain" /\ bus = <<>> /\ stage' = "idle"
     /\ \/ /\ idle \/ role = "plain"
           /\ anchor' = IF idle THEN Off ELSE anchor
           /\ UNCHANGED Initiated
        \/ /\ ~idle /\ (role = "epoch" \/ (role = "backup" /\ anchor = 0))
           /\ anchor' = Off
           /\ DrainBuffer(Actionable)
        \/ /\ ~idle /\ role = "backup" /\ anchor # 0
           /\ anchor' = IF anchor = Off THEN TakeoverWindow ELSE anchor
           /\ UNCHANGED Initiated
     /\ UNCHANGED <<working, role, group, bus, resolved, approved, pending, leaving>>

------------------------------------------------------------------------------
\* Commits, as far as the proposals see them

Freeze ==
  /\ stage = "idle" /\ working /\ approved # {}
  /\ working' = FALSE
  /\ UNCHANGED <<role, stage, group, opened, library, timers, queues, leaving>>

\* The round ends without a commit; the approvals stay.
RoundFails ==
  /\ stage = "idle" /\ ~working
  /\ working' = TRUE
  /\ UNCHANGED <<role, stage, group, opened, library, timers, queues, leaving>>

\* The group after the approved changes: removals first, then the joiners, in
\* any order, on the leftmost free leaves
TreesAfter(reqs) ==
  LET gone == {r.target : r \in {x \in reqs : x.op = "Remove"}}
      keys == {r.target : r \in {x \in reqs : x.op = "Invite"}}
      stay == (DOMAIN tree) \ gone
      free == Leaves \ stay
      seats == {l \in free : Cardinality({m \in free : m < l}) < Cardinality(keys)}
  IN {[l \in stay \cup seats |-> IF l \in stay THEN tree[l] ELSE seat[l]] :
        seat \in Bijection(seats, keys)}

\* Mutant of KeptUpdates: the entry of an invite is looked for by leaf
KeptUpdatesByLeaf(reqs, t) ==
  {p \in pending : /\ p.req.target \notin {r.target : r \in {x \in reqs : x.op = "Remove"}}
                   /\ p.req.target \notin (DOMAIN t) \ DOMAIN tree
                   /\ p.seen >= epoch + 1 - MaxAge}

\* apply_membership_delta_bookkeeping and expire_pending_updates
KeptUpdates(reqs, t) ==
  {p \in pending : /\ p.req.target \notin {r.target : r \in reqs}
                   /\ p.seen >= epoch + 1 - MaxAge}

\* A commit of everything approved merges; the epoch steward of the new epoch
\* proposes what is still buffered (process_buffered_updates).
Commit ==
  LET reqs == {id.req : id \in approved}
  IN /\ stage = "idle" /\ ~working /\ epoch < EpochLimit
     /\ reqs # {} /\ \A r \in reqs : Doable(r)
     /\ epoch' = epoch + 1 /\ tree' \in TreesAfter(reqs)
     /\ approved' = {} /\ pending' = KeptUpdates(reqs, tree')
     /\ leaving' = {l \in leaving : RemoveMember(l) \notin reqs}
     /\ working' = TRUE
     /\ role' \in {"epoch", "backup", "plain"}
     /\ stage' = IF Self \in DOMAIN tree' THEN "idle" ELSE "left"
     /\ IF role' = "epoch" /\ Self \in DOMAIN tree'
        THEN DrainBuffer(ActionableOf(pending', tree', voting))
        ELSE UNCHANGED Initiated
     /\ UNCHANGED <<bus, anchor, resolved>>

\* Mutant of Elapse: the count goes on below zero
ElapsePast(left) == left - 1

Elapse(left) == IF left > 0 THEN left - 1 ELSE left

Tick ==
  /\ stage \in {"idle", "left"}
  /\ autoVotes' = {[e EXCEPT !.left = Elapse(@)] : e \in autoVotes}
  /\ timeouts' = {[e EXCEPT !.left = Elapse(@)] : e \in timeouts}
  /\ anchor' = Elapse(anchor)
  /\ UNCHANGED <<duty, group, opened, library, queues, leaving>>

------------------------------------------------------------------------------
Init ==
  /\ working = TRUE /\ role \in {"epoch", "backup", "plain"} /\ stage = "idle"
  /\ epoch = 1 /\ tree = Founders
  /\ opened = 0 /\ sessions = <<>> /\ bus = <<>>
  /\ voting = {} /\ emergencies = {}
  /\ autoVotes = {} /\ timeouts = {} /\ anchor = Off
  /\ resolved = <<>> /\ approved = {} /\ pending = {}
  /\ leaving = {}

Ids == {s.id : s \in Range(sessions)}

Inputs ==
  \/ \E req \in Wanted : Propose(req) \/ HearUpdate(req) \/ HearProposal(req)
  \/ \E k \in Joiners : Sponsor(k)
  \/ \E l \in Leaves : HearLeave(l)
  \/ SelfLeave
  \/ \E id \in Ids, yes \in BOOLEAN : PeersDecide(id, yes)
  \/ \E id \in Ids : Vote(id) \/ Republish(id)

Poll == TickDeadlines \/ DrainOutcome \/ Drive

Rounds == Freeze \/ RoundFails \/ Commit

Next == Inputs \/ Poll \/ Rounds \/ Tick

\* The integrator keeps polling, and time passes however often it polls (strong
\* fairness: a tick waits while a poll runs).  Nothing is assumed of peers,
\* of the user or of the rounds.
Spec == Init /\ [][Next]_vars /\ WF_vars(Poll) /\ SF_vars(Tick)

------------------------------------------------------------------------------
\* Properties

\* The type of every variable (queues.rs, handle.rs Timing).
TypeOK ==
  LET Id == [nr : Nat, req : Requests, own : BOOLEAN]
  IN /\ working \in BOOLEAN /\ role \in {"epoch", "backup", "plain"}
     /\ stage \in {"idle", "drain", "left"}
     /\ epoch \in Nat /\ DOMAIN tree \subseteq Leaves /\ Range(tree) \subseteq Keys
     /\ opened \in Nat
     /\ sessions \in Seq([id : Id, status : {"active", "yes", "no"}, voted : BOOLEAN])
     /\ bus \in Seq([id : Id, yes : BOOLEAN])
     /\ voting \subseteq Id /\ emergencies \subseteq Id /\ approved \subseteq Id
     /\ autoVotes \subseteq [id : Id, left : Nat]
     /\ timeouts \subseteq [id : Id, left : Nat]
     /\ resolved \in Seq(Id)
     /\ pending \subseteq [req : Requests, seen : Nat]
     /\ anchor \in Nat \cup {Off}
     /\ leaving \subseteq Leaves

\* No vote hangs: whatever the order of votes, timeouts, polls, commits and
\* repeated outcomes, an id in the in-flight index or among the emergencies has
\* an open session with an armed deadline or an outcome that will be applied.
\* An id with neither blocks its member for every later proposal, and an
\* emergency with neither keeps the partial freeze for ever (voting.rs
\* tick_deadlines, handle_outcome.rs handle_consensus_outcome).
VotesAreDriven ==
  stage = "idle" =>
    \A id \in voting \cup emergencies :
      \/ Active(id) /\ \E e \in timeouts : e.id = id
      \/ /\ \E i \in DOMAIN bus : bus[i].id = id
         /\ Stored(id) /\ ~Contains(resolved, id)

\* The member always has its say: in every session still open it has voted or
\* its auto-vote is armed, through freezes, cancelled and late votes (voting.rs
\* vote, handle.rs register_auto_vote).
VoteIsComing ==
  \A s \in Range(sessions) : s.status = "active" =>
    s.voted \/ \E e \in autoVotes : e.id = s.id

\* One own change per member: the invitations, bans, sponsored joins, incoming
\* requests and drained buffers of this member never put two changes of one
\* target in flight (voting.rs initiate_proposal, steward.rs
\* actionable_buffered_updates).
OneOwnChangePerMember ==
  \A a, b \in {id \in voting \cup approved : id.own /\ IsChange(id.req)} :
    a.req.target = b.req.target => a = b

\* What this member proposes can still be done: no buffered update outlives the
\* commit that carried it out and is proposed again (queues.rs
\* apply_membership_delta_bookkeeping, steward.rs drain_buffered_updates).
OwnProposalsAreDoable ==
  [][\A id \in voting' \ voting : id.own => DoableIn(tree', id.req)]_vars

Waiting ==
  /\ Actionable # {} /\ role \in {"epoch", "backup"}
  /\ working /\ approved = {} /\ emergencies = {} /\ stage # "left"

\* Buffered updates are served: none waits for ever at a steward that has
\* nothing else to do, be it the epoch steward or a backup waiting for it
\* (poll.rs drive_buffered_proposals).
BufferIsServed == []<>~Waiting

------------------------------------------------------------------------------
\* What comments of the code say and the code does not do

\* "so it resolves synchronously and lands in `approved_proposals` for the next
\* steward commit" (voting.rs initiate_self_leave): once the outcomes are
\* drained, a leave this member took in is approved until it is committed.
LeaveLands ==
  stage = "idle" /\ bus = <<>> =>
    \A l \in leaving : \E a \in approved : a.req = RemoveMember(l)
==============================================================================
