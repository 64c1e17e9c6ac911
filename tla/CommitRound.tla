----------------------------- MODULE CommitRound -----------------------------
(***************************************************************************)
(* The commit rounds of a whole group: every member runs the freeze, the   *)
(* mint, the candidate buffer and the selection of Conversation on its own *)
(* clock and its own queue, and hears of votes and candidates over a       *)
(* network that delays, reorders and duplicates (poll.rs, handle.rs,       *)
(* commit_round/, mls_crypto/service.rs).                                  *)
(*                                                                         *)
(* chain[n] is the sequence of commits n merged.  It stands for the MLS    *)
(* group state: epoch, tree and epoch secrets.  A commit is                *)
(* [from, batch, nonce], the nonce for the fresh path secrets of each      *)
(* mint; it stages only on the chain it was made on.                       *)
(*                                                                         *)
(* Polls are frequent and a vote's outcome or a candidate reaches a member *)
(* within Delta ticks (the network bound config.rs leaves to the           *)
(* integrator).                                                            *)
(*                                                                         *)
(* The scope is one term of the steward list, which TermAssumption makes   *)
(* precise: no steward is voted out, so that refresh_stewards_after_removal*)
(* returns at once, and there are no more changes than epochs in the term, *)
(* so that a round is never made under an exhausted list.  Hence no round  *)
(* is held by an election in flight.  A member that misses a round waits   *)
(* in Reelection; what it does there is a matter of Conversation and Sync. *)
(* Members that join run no rounds before the list is renewed, and there   *)
(* are no urgent removals.                                                 *)
(***************************************************************************)
EXTENDS StewardList, CommitSelection

CONSTANTS
  Members,           \* the members at the start
  Changes,           \* membership changes the group votes for
  MayRecover,        \* whether a Deadlock emergency may be accepted
  MayResend,         \* whether stewards rebroadcast their candidate
  LateCopies,        \* whether a copy may arrive after its receiver's merge
  Quiet,             \* votes end only while no freeze is near (see Calm)
  Delta,             \* network bound, in ticks
  CommitBatchWindow, FreezeDuration, RetryWindow,   \* config.rs, in ticks
  AutoCommitDelay,   \* recovery_auto_commit_delay
  BatchMax,          \* commit_batch_max
  AllowSubset,       \* allow_subset_candidates
  MintLimit,         \* bound: candidates one member builds
  Horizon            \* bound: a timer older than every window stops ageing

Off == -1
Deadlock == [op |-> "Deadlock", id |-> 0]

\* The first list of the group, in force for its whole term
List == [pool |-> Members, epoch |-> 1, round |-> 0]

ASSUME MembersAssumption ==
  /\ Members \subseteq Nat \ {0} /\ Members # {} /\ IsFiniteSet(Members)
  /\ IsFiniteSet(Changes)
  /\ Changes \subseteq [op : {"Add", "Remove"}, id : Nat \ {0}]
  /\ \A c \in Changes : Actionable(c, Members)

ASSUME WindowAssumption ==
  /\ Delta \in Nat /\ CommitBatchWindow \in Nat /\ RetryWindow \in Nat
  /\ FreezeDuration \in Nat \ {0}   \* ConversationConfig::validate
  /\ AutoCommitDelay \in Nat /\ BatchMax \in Nat \ {0}
  /\ MintLimit \in Nat /\ Horizon \in Nat
  /\ CommitBatchWindow <= Horizon /\ FreezeDuration <= Horizon
  /\ AutoCommitDelay + RetryWindow <= Horizon
  /\ {MayRecover, MayResend, LateCopies, Quiet, AllowSubset} \subseteq BOOLEAN

ASSUME TermAssumption ==
  /\ \A m \in Members : IsSteward(List, m) => Remove(m) \notin Changes
  /\ Cardinality(Changes) <= ListLen(List)

VARIABLES
  decided,    \* accepted proposals
  outcomes,   \* [to, what, age]: outcomes on their way to a member
  wire,       \* [to, cand, age]: candidates on their way to a member
  state,      \* per member: phase
  mode,       \* per member: operating mode
  timer,      \* per member: ticks since the phase anchor, or Off
  approved,   \* per member: approved queue
  round,      \* per member: candidates buffered at the current epoch
  early,      \* per member: [epoch, cand] stashed before their approval
  pending,    \* per member: own MLS commit not merged yet, as a set
  minted,     \* per member: candidates built so far
  chain,      \* per member: commits merged
  since,      \* per change: ticks from its vote until every member landed it
  left        \* members whose conversation was torn down

network == <<decided, outcomes, wire>>
phases  == <<state, mode, timer>>
buffers == <<approved, round, early>>
mls     == <<pending, minted, chain>>
vars    == <<network, phases, buffers, mls, since, left>>

------------------------------------------------------------------------------
EpochAfter(h) == Len(h) + 1
Epoch(n) == EpochAfter(chain[n])

\* The members after the commits of history h
MembersAfter(h) ==
  LET all == UNION {h[i].batch : i \in DOMAIN h}
  IN (Members \cup {c.id : c \in {d \in all : d.op = "Add"}})
       \ {c.id : c \in {d \in all : d.op = "Remove"}}

Group(n) == MembersAfter(chain[n])

Online == Members \ left

\* Candidates staged in a buffer by who they are for
OwnCandidates(n) == {c \in round[n] : c.from = n}

\* stage_remote_commit: a commit stages on the group state it was made on
Stages(n, cand) == cand.parent = chain[n] /\ cand.from \in Group(n)

Commit(cand) == [from |-> cand.from, batch |-> cand.batch, nonce |-> cand.nonce]

\* CommitRoundBuffer::add: duplicates refused, at most one per member
Buffer(n, held, cand) ==
  IF Cardinality(held) >= Cardinality(Group(n)) THEN held ELSE held \cup {cand}

\* broadcast of a candidate, to every other member
Sent(n, cand) ==
  {[to |-> m, cand |-> cand, age |-> 0] : m \in Online \ {n}}

\* build_local_candidate, create_commit_candidate and the broadcast: the own
\* candidate joins held, its copies join inflight
Mint(n, permitted, queue, held, inflight) ==
  LET batch  == MintedBatch(queue, 0, Group(n), BatchMax)
      cand   == [from |-> n, batch |-> batch, nonce |-> minted[n], parent |-> chain[n]]
      builds == /\ permitted /\ queue.entries # {} /\ ~HasRemoval(queue, n)
                /\ pending[n] = {} /\ batch # {}
  IN /\ round' = [round EXCEPT ![n] = IF builds THEN Buffer(n, held, cand) ELSE held]
     /\ pending' = [pending EXCEPT ![n] = IF builds THEN {cand} ELSE @]
     /\ minted' = [minted EXCEPT ![n] = IF builds THEN @ + 1 ELSE @]
     /\ wire' = IF builds THEN inflight \cup Sent(n, cand) ELSE inflight

\* Mutant of EnterFreezing: the window counts from the inactivity anchor
EnterFreezingAnchored(n, queue, held, inflight) ==
  /\ state' = [state EXCEPT ![n] = "Freezing"]
  /\ UNCHANGED timer
  /\ Mint(n, IsSteward(List, n), queue, held, inflight)

\* start_freezing and on_freeze_entered, with the candidates held
EnterFreezing(n, queue, held, inflight) ==
  /\ state' = [state EXCEPT ![n] = "Freezing"]
  /\ timer' = [timer EXCEPT ![n] = 0]
  /\ Mint(n, IsSteward(List, n), queue, held, inflight)

------------------------------------------------------------------------------
\* Votes

\* No freeze is open or near: an outcome decided now is with every member
\* before the first of them freezes, and no candidate is still travelling.
Calm ==
  /\ wire = {}
  /\ \A n \in Online : /\ state[n] = "Working"
                       /\ timer[n] + Delta < CommitBatchWindow

\* A vote ends in favour.  Every member decides the same way, each when the
\* votes reached it.
Decide(what) ==
  /\ what \notin decided
  /\ Quiet => Calm
  /\ decided' = decided \cup {what}
  /\ outcomes' = outcomes \cup {[to |-> n, what |-> what, age |-> 0] : n \in Online}
  /\ UNCHANGED <<wire, phases, buffers, mls, since, left>>

\* take_early_candidates: the stash of the current epoch
EarlyNow(n) == {e.cand : e \in {x \in early[n] : x.epoch = Epoch(n)}}

\* tick_deadlines applies an accepted membership change; the same poll arms
\* the inactivity timer, and early candidates are replayed.  The removed are no
\* stewards, so refresh_stewards_after_removal opens no election.
HearChange(o) ==
  LET n == o.to
      queue == Enqueue(approved[n], o.what)
  IN /\ o.what \in Changes
     /\ outcomes' = outcomes \ {o}
     /\ approved' = [approved EXCEPT ![n] = queue]
     /\ round' = [round EXCEPT ![n] = @ \cup EarlyNow(n)]
     /\ early' = [early EXCEPT ![n] = {}]
     /\ timer' = [timer EXCEPT ![n] = IF state[n] = "Working" /\ @ = Off THEN 0 ELSE @]
     /\ UNCHANGED <<decided, wire, state, mode, mls, since, left>>

\* An accepted Deadlock: enter_recovery_mode and its collection window
HearDeadlock(o) ==
  LET n == o.to
  IN /\ o.what = Deadlock
     /\ outcomes' = outcomes \ {o}
     /\ mode' = [mode EXCEPT ![n] = "Recovery"]
     /\ state' = [state EXCEPT ![n] = "Freezing"]
     /\ timer' = [timer EXCEPT ![n] = IF state[n] = "Freezing" THEN @ ELSE 0]
     /\ UNCHANGED <<decided, wire, buffers, mls, since, left>>

------------------------------------------------------------------------------
\* poll()

\* start_freeze_on_inactivity, with no election in flight (TermAssumption)
FreezeDue(n) ==
  /\ state[n] = "Working" /\ approved[n].entries # {}
  /\ timer[n] >= CommitBatchWindow

FreezeOnInactivity(n) ==
  /\ FreezeDue(n)
  /\ EnterFreezing(n, approved[n], round[n], wire)
  /\ UNCHANGED <<decided, outcomes, mode, approved, early, chain, since, left>>

\* maybe_auto_commit_recovery
AutoCommitDue(n) ==
  /\ state[n] = "Freezing" /\ mode[n] = "Recovery"
  /\ timer[n] >= AutoCommitDelay
  /\ OwnCandidates(n) = {} /\ pending[n] = {}
  /\ ~HasRemoval(approved[n], n)
  /\ MintedBatch(approved[n], 0, Group(n), BatchMax) # {}

AutoCommit(n) ==
  /\ AutoCommitDue(n)
  /\ Mint(n, TRUE, approved[n], round[n], wire)
  /\ UNCHANGED <<decided, outcomes, phases, approved, early, chain, since, left>>

\* Mutant of RoundReady: one candidate short of the list closes the round
RoundReadyEarly(n) ==
  /\ state[n] = "Freezing"
  /\ IF mode[n] = "Recovery" THEN timer[n] >= AutoCommitDelay + RetryWindow
     ELSE timer[n] >= FreezeDuration \/ Cardinality(round[n]) + 1 >= ListLen(List)

\* advance_freezing: the window elapsed, or as many candidates as stewards
RoundReady(n) ==
  /\ state[n] = "Freezing"
  /\ IF mode[n] = "Recovery" THEN timer[n] >= AutoCommitDelay + RetryWindow
     ELSE timer[n] >= FreezeDuration \/ Cardinality(round[n]) >= ListLen(List)

\* check_commit_sender_authorized
Authorised(n) ==
  IF mode[n] = "Recovery" THEN Group(n) ELSE {m \in Group(n) : IsSteward(List, m)}

\* Mutant of Selected: the first candidate heard, that is any that applies
SelectedAny(n) ==
  {c \in round[n] : /\ c.from = n \/ Stages(n, c)
                    /\ c.batch = ChangesOf(approved[n])}

\* finalize_commit_round: the candidate this member applies.  Of two mints of
\* the same member the earlier stands for the lower hash.
Selected(n) ==
  LET cands == {[from |-> c.from, batch |-> c.batch, stages |-> Stages(n, c),
                 nonce |-> c.nonce] : c \in round[n]}
      best == Winners(cands, n, approved[n], Authorised(n),
                      mode[n] = "Recovery" \/ AllowSubset,
                      EpochSteward(List, Epoch(n),
                        {m \in Group(n) : ~HasRemoval(approved[n], m)}))
  IN {w \in best : \A v \in best : w.nonce <= v.nonce}

\* Mutant of Ejects: what a remote commit removes is not looked at
EjectsOwn(n, w) == w.from = n /\ HasRemoval(approved[n], n)

\* leave_or_update: own commits look at the queue, remote ones at the commit
Ejects(n, w) ==
  IF w.from = n THEN HasRemoval(approved[n], n) ELSE Remove(n) \in w.batch

\* Mutant of Apply: the phase stays Selection
ApplyStays(n, w) ==
  /\ RoundReady(n)
  /\ chain' = [chain EXCEPT ![n] = Append(@, Commit(w))]
  /\ pending' = [pending EXCEPT ![n] = {}]
  /\ round' = [round EXCEPT ![n] = {}]
  /\ approved' = [approved EXCEPT ![n] = EmptyQueue]
  /\ mode' = [mode EXCEPT ![n] = "Normal"]
  /\ state' = [state EXCEPT ![n] = "Selection"]
  /\ UNCHANGED <<network, timer, early, minted, since, left>>

\* merge_own_commit or discard_own_commit then merge_staged_commit, the queue
\* drained, and Working again or the conversation torn down
Apply(n, w) ==
  /\ RoundReady(n)
  /\ chain' = [chain EXCEPT ![n] = Append(@, Commit(w))]
  /\ pending' = [pending EXCEPT ![n] = {}]
  /\ round' = [round EXCEPT ![n] = {}]
  /\ approved' = [approved EXCEPT ![n] = EmptyQueue]
  /\ mode' = [mode EXCEPT ![n] = "Normal"]
  /\ state' = [state EXCEPT ![n] = "Working"]
  /\ timer' = [timer EXCEPT ![n] = Off]
  /\ left' = IF Ejects(n, w) THEN left \cup {n} ELSE left
  /\ outcomes' = {o \in outcomes : ~(Ejects(n, w) /\ o.to = n)}
  /\ wire' = {x \in wire : ~(Ejects(n, w) /\ x.to = n)}
  /\ UNCHANGED <<decided, early, minted, since>>

\* CommitRoundOutcome::NoCandidate: the own pending commit is discarded; the
\* member waits in Reelection, retries in recovery, or had nothing to commit
RoundFails(n) ==
  /\ RoundReady(n) /\ Selected(n) = {}
  /\ pending' = [pending EXCEPT ![n] = {}]
  /\ round' = [round EXCEPT ![n] = {}]
  /\ LET idle == approved[n].entries = {}
         next == IF idle THEN "Working"
                 ELSE IF mode[n] = "Recovery" THEN "Freezing" ELSE "Reelection"
     IN /\ state' = [state EXCEPT ![n] = next]
        /\ timer' = [timer EXCEPT ![n] = IF next = "Freezing" THEN 0 ELSE Off]
        /\ mode' = [mode EXCEPT ![n] = IF idle THEN "Normal" ELSE @]
  /\ UNCHANGED <<network, approved, early, minted, chain, since, left>>

------------------------------------------------------------------------------
\* Inbound candidates and the remedy for a lost one

\* has_committed_hash
Committed(n, cand) == \E i \in DOMAIN chain[n] : chain[n][i] = Commit(cand)

\* An assumption on the network: where LateCopies is FALSE, a copy that a member
\* would get after the round it was made for is lost.
Overdue(n, cand) == ~LateCopies /\ Len(cand.parent) < Len(chain[n])

Ignored(n, cand) == Committed(n, cand) \/ Overdue(n, cand)

\* receive_commit_candidate with nothing approved: stash_early_candidate
Stash(x) ==
  LET n == x.to
  IN /\ approved[n].entries = {}
     /\ wire' = wire \ {x}
     /\ early' = IF Ignored(n, x.cand) THEN early
                 ELSE [early EXCEPT ![n] = {[epoch |-> Epoch(n), cand |-> c] :
                                              c \in Buffer(n, EarlyNow(n), x.cand)}]
     /\ UNCHANGED <<decided, outcomes, phases, approved, round, mls, since, left>>

\* Mutant of Receive: every copy of a candidate restarts the freeze
ReceiveRestarts(x) ==
  /\ approved[x.to].entries # {}
  /\ EnterFreezing(x.to, approved[x.to], Buffer(x.to, round[x.to], x.cand), wire \ {x})
  /\ UNCHANGED <<decided, outcomes, mode, approved, early, chain, since, left>>

\* receive_commit_candidate: a new candidate is buffered and opens the freeze
\* (on_commit_candidate_received); the mint that follows is broadcast at once
Receive(x) ==
  LET n == x.to
      held == Buffer(n, round[n], x.cand)
      fresh == ~Ignored(n, x.cand) /\ held # round[n]
  IN /\ approved[n].entries # {}
     /\ IF fresh /\ state[n] \in {"Working", "Reelection"}
        THEN EnterFreezing(n, approved[n], held, wire \ {x})
        ELSE /\ round' = IF fresh THEN [round EXCEPT ![n] = held] ELSE round
             /\ wire' = wire \ {x}
             /\ UNCHANGED <<state, timer, pending, minted>>
     /\ UNCHANGED <<decided, outcomes, mode, approved, early, chain, since, left>>

\* resend_commit: the same bytes again
ResendCommit(n) ==
  /\ MayResend /\ state[n] = "Freezing" /\ timer[n] = Delta
  /\ \A x \in wire : x.cand.from # n
  /\ \E c \in OwnCandidates(n) : wire' = wire \cup Sent(n, c)
  /\ UNCHANGED <<decided, outcomes, phases, buffers, mls, since, left>>

\* commit_in_recovery: a member presses the button before the grace is over
CommitInRecovery(n) ==
  /\ mode[n] = "Recovery" /\ OwnCandidates(n) = {} /\ minted[n] < MintLimit
  /\ Quiet => outcomes = {} /\ \A m \in Online : mode[m] = "Recovery"
  /\ Mint(n, TRUE, approved[n], round[n], wire)
  /\ UNCHANGED <<decided, outcomes, phases, approved, early, chain, since, left>>

\* Every member that stays merged change c.
Landed(c) == \A n \in Online : \E i \in DOMAIN chain[n] : c \in chain[n][i].batch

\* Time passes once everything due at this instant happened.
Tick ==
  /\ \A o \in outcomes : o.age < Delta
  /\ \A x \in wire : x.age < Delta
  /\ \A n \in Online : ~FreezeDue(n) /\ ~AutoCommitDue(n) /\ ~RoundReady(n)
  /\ outcomes' = {[o EXCEPT !.age = @ + 1] : o \in outcomes}
  /\ wire' = {[x EXCEPT !.age = @ + 1] : x \in wire}
  /\ timer' = [n \in Members |-> IF timer[n] \in 0..(Horizon - 1) /\ n \notin left
                                 THEN timer[n] + 1 ELSE timer[n]]
  /\ since' = [c \in Changes |-> IF c \in decided /\ ~Landed(c) THEN since[c] + 1 ELSE since[c]]
  /\ UNCHANGED <<decided, state, mode, buffers, mls, left>>

------------------------------------------------------------------------------
Init ==
  /\ decided = {} /\ outcomes = {} /\ wire = {}
  /\ state = [n \in Members |-> "Working"]
  /\ mode = [n \in Members |-> "Normal"]
  /\ timer = [n \in Members |-> Off]
  /\ approved = [n \in Members |-> EmptyQueue]
  /\ round = [n \in Members |-> {}] /\ early = [n \in Members |-> {}]
  /\ pending = [n \in Members |-> {}] /\ minted = [n \in Members |-> 0]
  /\ chain = [n \in Members |-> <<>>]
  /\ since = [c \in Changes |-> 0]
  /\ left = {}

Decisions ==
  \E what \in Changes \cup (IF MayRecover THEN {Deadlock} ELSE {}) : Decide(what)

Outcomes == \E o \in outcomes : HearChange(o) \/ HearDeadlock(o)

Candidates == \E x \in wire : Stash(x) \/ Receive(x)

Poll(n) ==
  \/ FreezeOnInactivity(n)
  \/ AutoCommit(n)
  \/ \E w \in Selected(n) : Apply(n, w)
  \/ RoundFails(n)

Next ==
  \/ Decisions \/ Outcomes \/ Candidates
  \/ \E n \in Online : Poll(n) \/ ResendCommit(n) \/ CommitInRecovery(n)
  \/ Tick

Spec == Init /\ [][Next]_vars

------------------------------------------------------------------------------
\* Properties

\* The type of every variable of the group (handle.rs, queues.rs, buffer.rs).
TypeOK ==
  LET Commits == [from : Members, batch : SUBSET Changes, nonce : Nat]
      Cands == [from : Members, batch : SUBSET Changes, nonce : Nat, parent : Seq(Commits)]
  IN /\ decided \subseteq Changes \cup {Deadlock}
     /\ outcomes \subseteq [to : Members, what : Changes \cup {Deadlock}, age : Nat]
     /\ wire \subseteq [to : Members, cand : Cands, age : Nat]
     /\ state \in [Members -> {"Working", "Freezing", "Reelection"}]
     /\ mode \in [Members -> {"Normal", "Recovery"}]
     /\ timer \in [Members -> Nat \cup {Off}]
     /\ approved \in [Members -> [next : Nat, entries : SUBSET [at : Nat, change : Changes]]]
     /\ round \in [Members -> SUBSET Cands]
     /\ early \in [Members -> SUBSET [epoch : Nat, cand : Cands]]
     /\ pending \in [Members -> SUBSET Cands]
     /\ minted \in [Members -> Nat]
     /\ chain \in [Members -> Seq(Commits)]
     /\ since \in [Changes -> Nat]
     /\ left \subseteq Members

IsPrefixOf(h, k) == Len(h) <= Len(k) /\ h = SubSeq(k, 1, Len(h))

\* No fork: whatever the delays and orders within the network bound, two members
\* never merge different commits at one epoch, though each selects over the
\* candidates and the queue it has when its own window closes (poll.rs
\* advance_freezing, validate.rs rank_applicable_candidates).  Copies may be
\* repeated while their round lasts; with LateCopies a copy of a losing candidate
\* that comes after the merge is stashed and can close the next round early, and
\* the group forks where stewards resend (README).
Agreement ==
  \A m, n \in Members : IsPrefixOf(chain[m], chain[n]) \/ IsPrefixOf(chain[n], chain[m])

\* With every member online no round is missed: nobody blames the steward and
\* falls into Reelection because a candidate was slow, came before its approval
\* or was refused (poll.rs NoCandidate).
RoundsLand == \A n \in Members : state[n] # "Reelection"

\* A member tears its conversation down exactly when the commit it merged took
\* it out of the group, although the local apply decides by the queue and the
\* remote one by the commit (apply.rs leave_or_update).
OnlyEjectedLeave == \A n \in Members : n \in left <=> n \notin Group(n)

Longest == CHOOSE h \in {chain[n] : n \in Members} :
             \A n \in Members : Len(chain[n]) <= Len(h)

History == INSTANCE GroupHistory WITH
  voted <- decided \ {Deadlock}, log <- Longest, view <- chain

\* The rounds implement one history of voted commits that every member follows:
\* the first merge of an epoch fixes its commit for the group, no change is
\* committed twice and none without a vote (commit_round/, queues.rs).
ImplementsHistory == History!Spec

\* Every member that stays carries out a change within the time its windows
\* add up to, through a normal round or through recovery: no round is repeated,
\* no window restarted by a late or duplicate candidate (poll.rs
\* start_freeze_on_inactivity, advance_freezing, handle.rs phase timers).
VotesLandInTime ==
  LET freeze == FreezeDuration
      recovery == AutoCommitDelay + RetryWindow
  IN \A c \in Changes :
       since[c] <= Delta + CommitBatchWindow
                     + (IF MayRecover /\ recovery > freeze THEN recovery ELSE freeze)
==============================================================================
