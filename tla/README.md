# A TLA+ model of de-mls

de-mls is a library for group messaging over MLS in which every membership
change is voted on before it is committed. Its product is one handle per
conversation, `Conversation`: a synchronous state machine that the integrator
feeds with inbound messages and drives with `poll()`. This directory models
what one member's `Conversation` does and how the conversations of several
members agree on commits and on steward lists, checks it with TLC on small
instances, and proves with TLAPS, for every instance, the safety of one member,
of its proposals and of the list algorithms, what holds of commit rounds across
members whatever the timing, that rounds with windows above the network bound
neither fork nor fail, and that members hold one steward list.

Paths below are relative to the repository's `src/` crate directory.

## 1. The system

| Component | State | Operations | Hard behaviour |
|---|---|---|---|
| Phase machine and poll driver (`conversation/state_machine.rs`, `handle.rs`, `poll.rs`, `phase_timer.rs`) | phase Working / Freezing / Selection / Reelection, recovery mode and its round counter, the shared phase timer, the Reelection silence anchor | `poll`: drain vote outcomes, advance a freeze, propose buffered updates, sync timers, freeze on inactivity, retry elections; `commit_in_recovery`, `leave` | one timer shared by the phases; every exit of a freeze must restore mode, timer, pending commit |
| Proposal queues (`conversation/queues.rs`) | approved queue, votes in flight, active emergencies, urgent target, early candidates, pending updates, join epochs, dedup windows | insert, drain, drop, stash, replay | counts of the approved queue decide which commits are acceptable |
| Consensus outcomes (`consensus/apply_result.rs`, `handle_outcome.rs`) | - | turn an outcome into queue changes, elections, recovery, urgent removals | outcomes land in any phase and order |
| Submission and voting (`consensus/voting.rs`, `conversation/messaging.rs`) | auto-vote and timeout registries | propose, vote, leave, resolve on timeout | gates by phase, emergency and in-flight target |
| Commit round (`commit_round/`) | candidates of one epoch | receive, stash, replay, rank, validate, apply, discard | stale and foreign candidates, one own pending MLS commit |
| Steward list (`steward_list/`) | elected list, retry round | generate, validate, rotate, backup, responsible proposer | span and size boundaries, eligibility gaps |
| Steward duties (`conversation/steward.rs`) | - | reconcile list, elect, escalate to Deadlock, score removal, serve buffered updates, sync payload | silent proposers, exhausted retries, requests nobody serves |
| Inbound dispatch (`conversation/inbound.rs`) | request and resend anchors of syncs | decode and dispatch, join, answer and adopt a sync | lost or early messages, newcomers that know less than the others |
| MLS service (`mls_crypto/`) | group epoch and members, one pending and one staged commit | create, stage, merge, discard | a pending commit blocks the next one |
| Peer scoring (`peer_scoring/`) | score table, default score | track, apply score events, snapshot, adopt a snapshot | sparse snapshots read with another default; no protocol decision reads a score |
| Consensus plug-in and outcome bus (`consensus/plugin.rs`, `outcome_bus.rs`) | sessions of the external library, queue of outcomes | open, vote, resolve, publish, evict | outcomes repeated, sessions evicted |
| Clock, events, queries, wire types | - | traits and views | - |

How they interact: a proposal is opened by a member (or received) and enters
`voting`; its outcome is drained by `poll`, which queues an approved change,
installs an elected list or opens recovery. Approved work that waits longer
than a window starts a freeze: stewards mint an MLS commit for the queue
and exchange candidates; when the freeze is over one candidate is selected
and merged, the epoch advances, and the list is reconciled. A freeze
without an acceptable candidate leads to Reelection: an election is proposed
by the responsible member, retried round by round, and finally escalated to
a Deadlock emergency that opens recovery, in which any member may commit.

What makes each part correct: membership changes only by voted changes; no
approved work is lost; every phase ends; recovery is confined and bounded;
own pending commits are resolved; the list is the same at every member and
gives each steward its turn.

## 2. Modules

* `StewardList` - the deterministic list: pure operators. Members are natural
  numbers (leaf indices), 0 is `None`, and SHA-256 is a constant operator. A
  list is represented by what determines it (pool, epoch, round).
* `CommitSelection` - one commit round: the approved queue as stamped entries,
  the batch a member mints, the acceptance test for a candidate and the
  ranking of `validate.rs`. Pure operators.
* `Conversation` - the state machine. `poll()` is split at the points where its
  steps read state again; `pc` names the step. The drain of outcomes gives
  `AcceptChange`, `DropChange`, `AcceptElection`, `RejectElection`,
  `AcceptDeadlock`, `AcceptScore` and `CloseEmergency` (one per arm of
  `handle_consensus_outcome`, each with the replay, refresh and mint that
  follow), then `DrainEnd`. `advance_freezing` gives `FreezeWaits`,
  `CommitEjects`, `CommitUpdates`, `NothingToCommit`, `CommitMissed`,
  `RecoveryRoundFails` and `FinalizeFails`. The tail of `poll` gives `TailIdle`,
  `ArmInactivity`, `FreezeOnInactivity`, `SilenceWait` and `SilenceElapsed`.
  Between polls come inbound messages (`StashCandidate`, `ReceiveCandidate`,
  `IncomingChange`, `IncomingElection`, `IncomingEmergency`, `ReceiveSync`),
  user intents (`OwnChange`, `Leave`, `OwnEmergency`, `CommitInRecovery`) and
  `Tick`. Selection is visible only after an ejection: `poll` passes
  through it within one step.
* `GroupHistory` - what commit rounds promise a group, with no phase, timer or
  message: one log of commits that carry voted changes, none twice, which
  every member follows one commit at a time.
* `CommitRound` - several members, each with its own phase, timer, queue, stash,
  candidate buffer and MLS state, over a network that delivers within `Delta`
  ticks in any order. A vote ends (`Decide`, external) and each member hears of
  it (`HearChange`, `HearDeadlock`); each freezes, mints (`FreezeOnInactivity`,
  `AutoCommit`, `CommitInRecovery`), receives or stashes candidates
  (`Receive`, `Stash`), sends its own again (`ResendCommit`, if `MayResend`) and
  closes its round when its own window says so (`Apply`, `RoundFails`). Its scope
  is one term of the steward list, which the module assumes (`TermAssumption`): no
  steward is voted out, and there are no more changes than epochs in the term. So
  no election is in flight while work waits, and the hold of the freeze by an
  election (`poll.rs:574`) and the refresh after a steward's removal
  (`handle_outcome.rs:156`) have no part in it; section 6 says what they do to a
  round. A candidate carries the chain of commits it was made on and stages only
  there, which is what MLS checks. `History == INSTANCE GroupHistory WITH ...` maps the longest chain to
  the log and each chain to a view.
* `Proposals` - one member's proposals against the session store and the outcome
  bus, which are external and modelled from how `voting.rs` and
  `handle_outcome.rs` use them. Ids are records; a self-leave's id has the leaf
  and nothing else, as `self_leave_proposal_id` has. Opening (`Propose`,
  `Sponsor`, `HearUpdate`, `HearProposal`, `HearLeave`, `SelfLeave`), votes
  (`Vote`, `PeersDecide`, `Republish`), the poll (`TickDeadlines`,
  `DrainOutcome` once per outcome, `Drive`) and commits as far as the queues see
  them (`Freeze`, `RoundFails`, `Commit`, with leaf reuse and the expiry of
  pending updates).
* `PeerScoring` - the score table as pure operators; a batch of score operations
  is a recursive function over the sequence (`ApplyOps`).
* `Sync` - how members come to hold the same steward list and scores: `Commit`
  (with reconciliation, scoring, joins with and without the welcome's sync),
  elections (`Elect`, `Conclude`, `HearOutcome`, `SilentRound`; every member votes
  for a list it finds valid, and under `Prompt` the votes of most decide) and syncs
  (`RequestSync`, `WindowOver`, `ResendSync`, `Share`, `HearSync`). A member's
  knowledge of join epochs is state of its own: a newcomer has none.
* `MCConversation`, `MCStewardList`, `MCCommitRound`, `MCProposals`, `MCSync` -
  small instances. `MCStewardList` enumerates pools, epochs, rounds and
  eligible sets.
* `ConversationProofs`, `WorkProofs`, `StewardListLemmas`, `StewardListProofs`,
  `ProposalsProofs`, `CommitRoundProofs`, `AgreementProofs`, `SyncProofs` - the
  theorems (section 4).

`StewardList` is shared by `Conversation`, `CommitRound` and `Sync`, and
`CommitSelection` by `Conversation` and `CommitRound`, so that the several-member
modules compose the same selection, mint and rotation the one-member module is
checked and proved with.

Operators named "Mutant of ..." are plausible bugs of the definition below
them; they are used by no specification and show that a property can fail.

Abstractions. In `Conversation`, staging of a candidate is a flag (`stages`) that
is FALSE for a commit of another epoch or one that does not match its signer; a
TRUE candidate must be sound for the current group; a vote in flight resolves
either way at some poll (a one-voter self-leave only YES), and what `Proposals`
and `Sync` are about is left out. `CommitRound` keeps one list in force for its whole
term and has no outcomes other than changes and a Deadlock: lists are `Sync`'s
subject, and elections with their hold are `Conversation`'s, for one member. Of two mints of one member the earlier stands for the lower hash.
`Proposals` has no elections, its rounds end any way, a session decided by
this member's own vote is decided right after the poll, and peers are honest: a
proposal heard from one can be carried out on the group (`Doable` in
`HearProposal`), which `on_incoming_proposal` itself does not check. `Sync` merges every
commit everywhere at once, since rounds are `CommitRound`'s subject; the
approved queue is only visible as the members a refresh keeps from proposing,
and the sync's timing and threshold fields are left out.

## 3. Runs

| Run | Shows |
|---|---|
| `core` | joins and leaves, full, partial, stale and early candidates of a peer, a start without a list, elections, also over a pool we do not share, sync: round, stash and pending commit agree; membership is voted; work leaves the queue only by a commit; recovery lands work |
| `emergency` | bans, score removals, violations and deadlocks at once, local finalize errors, manual-only recovery, subset candidates: recovery confined and below its stop-line, partial freeze exact, no duplicate approval, urgent target queued, approved work survives |
| `liveness` | silent peers, one-steward list, any votes: freezes end and Reelection never parks |
| `stewards` | list algorithms over all inputs of a four-member instance |
| `agreement` | one term of the list: three members, two of them stewards, a join, the leave of the third and a Deadlock, delays of 0 to `Delta`, candidates before their approval, reordered, and repeated while their round lasts: no fork, no missed round, only the ejected tear down, every vote lands within the sum of the windows, and `CommitRound` implements `GroupHistory` |
| `proposals` | two founders and a joiner, changes and emergencies, sessions that resolve by votes or by timeout, repeated outcomes, freezes, commits, takeover by a backup: no vote hangs, none lacks this member's vote, no own change twice or in vain, the buffer is served |
| `sync` | three founders, a leaver and a joiner on a fresh or a reused leaf, with and without bootstrap, elections that pass, fail or stay silent, lost requests and syncs: lists in force agree, nobody is left behind, a first sync carries the sender's scores, stale members catch up without the epoch steward |
| `urgent_alone`, `stale_approval`, `recovery_drain`, `leave_again`, `newcomer_behind` | five statements of the code's comments that the code does not keep (section 6) |

`PendingCommitOnlyWhileFreezing` is claimed only without local finalize
errors: `recover_from_finalize_error` does not discard the own commit, so in
`emergency` it may stay pending. `WorkLeavesByCommit` promises less in recovery
and where subset candidates are accepted, for the reason of `recovery_drain`.

What the passing several-member runs assume, and what happens otherwise (each
was tried):

* `agreement` needs `FreezeDuration > 2 Delta`: a freeze opened by the slowest
  outcome plus the candidate's way must fit. At exactly `2 Delta` two stewards
  fork. It needs `BatchMax` at least the number of approvals of a round, else
  the round is missed (`RoundsLand`). `Quiet` lets a vote end only while no
  freeze is open or near; without it a round that closes early, because as many
  candidates came as there are stewards, can select differently from one that
  waits, whatever the windows (section 6). With one steward no fork was found.
  `MayResend` is on, with `LateCopies = FALSE`: a repeated copy that would reach
  its receiver after the merge is lost; with both on, one forks the group (section
  6). The changes take out no steward (`TermAssumption`): a vote that does opens an
  election, whose hold of the freeze none of these bounds covers (section 6).
* `proposals` needs a session store larger than the open proposals
  (`MaxSessions`) and score writes that succeed (`ScoresMayFail = FALSE`); with
  either missing `VotesAreDriven` fails, since the proposal is never resolved
  again. `LeaveIdsRecur = FALSE` keeps a leave off a leaf whose earlier leave is
  still cached; `leave_again` is the other case.
* `sync` has `Prompt`: all votes of an election are counted in time, so that only
  a list most members find valid is accepted, and a commit waits until the outcome
  is heard and renewed lists are handed on. Outcomes or syncs that arrive after the
  next commit leave members on different lists. It has `RefreshAnyTime =
  FALSE`: no list is elected over one in force in an epoch somebody joined;
  `newcomer_behind` is the other case.

Bounds. `Ids` has two members and at most one joiner: one peer is enough to
act as other steward, proposer, voter or source of candidates, and the list
algorithms, which depend on more members, have their own run with four.
`Changes` are finite and each can be committed once, which bounds the epochs;
in `core` a joiner and our own leave give full and partial batches. `VoteLimit`
bounds inbound proposals in flight: 1 still allows any order of
approvals, 2 (in `emergency`) adds emergencies that overlap each other and a
ban. `Horizon` stops a timer once it is past every window. `RetryCycle` folds
the retry counter above `MaxRetries`: it is a common multiple of every possible
authority length, so `round % len`, the only use of the counter up there, is
kept. Windows of 0 to 2 ticks let a timer be before, at and past its window; in
`core` the freeze outlasts the other windows, elsewhere they are equal.

`agreement` has three members, the fewest with two stewards and somebody who
only follows, and one change of each kind, so rounds of one and of two changes
and up to two epochs occur; `MintLimit` bounds manual commits, `Horizon` the
timers past every window. The member that leaves is the one that is no steward,
and in recovery it may commit too. `proposals` has `OpenLimit` 2 proposals besides leaves,
so that two changes can compete and one can wait in the buffer, `BusLimit` 2
outcomes waiting, and two epochs, enough for a leaf to be reused; deadlines of 1
and 2 ticks put the auto-vote before, with and after a decision. `sync` has four
leaves, one of which is left and reused, lists of one or two stewards, four
epochs (a list is exhausted after two), one vote and one retry round; the score
range is narrow enough for additions to saturate. Members of `agreement` and
`sync` are numbers that the list order and leaf reuse depend on, and keys of
`proposals` are told apart by who holds which leaf, so no symmetry is used.

`stewards`, `sync` and `newcomer_behind` switch deadlock checking off: the
enumeration of inputs ends, and at the last epoch with every list in force
nothing is left to do. Everywhere else the system can always take a step, and
TLC checks that.

Fairness (`FairSpec`). The integrator keeps polling, which is the contract of
the handle (weak fairness of the steps of `poll`); the clock runs (strong
fairness of `Tick`, as handlers may run in between); a vote in flight resolves
at some poll, because `tick_deadlines` resolves it at its consensus timeout
at the latest. Nothing is assumed of peers, of the way votes go, or that anyone
commits in recovery by hand. `FreezeEnds` assumes that emergencies cease, as
each accepted Deadlock starts the recovery budget again.

`Proposals` assumes the same of polls and the clock, and nothing of peers,
users or rounds. `Sync` assumes that windows end and armed backups resend
(members poll), and that a request that reaches the backups, and an answer that
the asker can adopt, arrives if it is sent again and again; the epoch steward
may stay silent for ever. Somebody's fairness is enough, so no more is assumed.
`VotesLandInTime` is a bound and needs none.

## 4. Proofs

All theorems hold for every value of the constants that the named assumptions
allow. The assumptions say that ids are non-zero numbers (finitely many where
cardinalities are compared), that changes, requests and windows have their
types, that hashes are numbers, and what `ConversationConfig::validate` and
`StewardListConfig` check (`FreezeDuration > 0`, `0 < SnMin <= SnMax`).
`TermAssumption` confines the theorems about `CommitRound` to one term of a
steward list whose stewards stay; they say nothing of what follows an election.

### One member (`ConversationProofs`, `WorkProofs`)

* `TypeCorrect`;
* from `PhaseInv`: `RecoveryIsConfined`, `PhasesAreTimed`, `ReelectionKeepsWork`,
  `StopLineHolds`. The invariants need each other: leaving recovery by
  `NothingToCommit` is sound only because recovery implies Freezing, and the
  timer of Working needs to know which steps empty the queue. Two facts
  are added to make it inductive: Selection is only ever seen after the
  teardown, and `pc = "freezing"` implies the phase Freezing;
* from `QueueInv`: `PartialFreezeIsExact`, `NoDuplicateApproval`,
  `UrgencyHasTarget`, the conjunction of the three. Each path that approves a
  change checks the queue first, elections are no emergencies, and an urgent
  target leaves the queue only in the merge that clears the urgency;
* from `RoundInv`: `OwnCandidateIsThePendingCommit` and, as an action property,
  `MembershipFollowsVotes`. A local winner is merged without the validation
  ladder, so the membership theorem rests on an invariant: the own candidate
  is the pending commit, is not empty and carries approved changes only, which
  holds because approvals leave the queue only together with the round. Stashed
  candidates never come from this member, so replaying them cannot forge one;
* `PendingCommitIsResolved`, under the assumption `FinalizeMayFail = FALSE`;
* `RoundStaysCurrent` and `StashNeverCompetes`. Neither is inductive alone: the
  replay of the stash fits into the round only because the stash and a round
  of the epoch never coexist, and a round is of the epoch only because a merge
  empties it. Both bounds come from the theorems on finite sets;
* `ApprovedWorkIsKept` (`WorkLeavesByCommit`, an action property). Every step is
  first classified by what it does to round, stash, queue and group
  (`RoundMove`: approve, mint, receive, stash, merge, spend), and only a merge can
  shrink the queue. `WorkInv` adds that the queue is finite and that what stages
  is actionable here: outside recovery a winner has as many actions as the queue
  has entries and is a subset of it, so it is all of it (`FullBatch`), and
  merging carries all of it out;
* `RecoveryIsNotWasted` (`RecoveryLandsWork`, an action property), under
  `FinalizeMayFail = FALSE`, since a finalize error takes the candidates and leaves
  the commit pending. Where this member could mint, its own candidate is in the
  round (`MintInv`); and as the ranking of a finite set has no cycles
  (`SomeoneWins`), something wins and the round does not fail.

### The steward list (`StewardListLemmas`, `StewardListProofs`)

`Spec` of `MCStewardList` is a walk over inputs, and the theorems hold for every
range of it: any ids, epochs, retry rounds, hash and size bounds.

The lemmas say what the order by hash is, without induction: ranks are a
bijection of a finite pool onto `0..n-1`, since the order is total and the rank
of a member counts those before it. From it:
`RegenerationIsStable` (a subset of the pool that is closed under "before" keeps
its ranks), `LocalInstallIsComplete`, `RotationIsFair`, `BackupIsSound` (the next
eligible steward on a cycle and the next one after it) and `RetryIsExhaustive`
(consecutive numbers modulo `n` meet every remainder; the authority order is total
as well).

### Proposals (`ProposalsProofs`)

* `ProposalTypes`;
* `MemberHasItsSay` (`VoteIsComing`), `NoSecondOwnChange` (`OneOwnChangePerMember`)
  and, as an action property, `ProposesWhatCanBeDone` (`OwnProposalsAreDoable`), from
  `ProposalInv`. It adds to the properties: the buffer holds at most one request
  per member, and invites of those outside the tree only (`BufferInv`); ids are
  numbered up to the counter, every id is stored once and a session named on
  the bus is closed (`IdsInv`), so that a new id is fresh and a repeated outcome
  cannot reopen anything; own changes whose session is stored are still in the
  in-flight index (`OwnInv`), which is what `initiate_proposal` asks before it opens
  another;
* `NoVoteHangs` (`VotesAreDriven`) from `DrivenInv`, under three hypotheses: the
  store evicts nothing (`NothingEvicted`, which every behaviour of the `proposals` run
  satisfies), score writes succeed and leave ids do not recur. Without any one
  of them TLC finds a vote that hangs (section 3).

### The group (`CommitRoundProofs`)

No theorem here assumes anything of delays, windows or the order of messages.

* `CommitRoundTypes`;
* `CandidateInv`, the invariant the others rest on: whatever is buffered, stashed
  or on its way carries something, only voted changes, and none that the history
  it was made on carries; a member's own candidate was made on the history it
  stands at, from approvals it still holds, without its own removal; and no
  member gets its own candidate back over the wire;
* `EachMemberFollowsVotes`: `Spec => Own(m)!Spec`, where `Own(m)` is `GroupHistory` with
  `m` as its only member: each member alone implements a history of voted
  commits, none twice;
* `NoForkIsOneHistory`: `Spec /\ []Agreement => ImplementsHistory`. Timing is
  needed for the absence of a fork only; given that, the group as a whole
  implements `GroupHistory`, in recovery and with subsets too. The proof shows
  that somebody always leads, that aligned chains have one longest, and that a
  merge appends to it or is its next commit;
* `SameViewSameCommit`: with subsets refused, two members outside recovery with the
  same history, candidates and voted set select the same single commit. The
  code checks a remote candidate and applies its own unchecked; the proof shows
  that the own one would pass every check (`OwnIsFit`: its batch is the
  whole queue, its parent the current history, its author a steward and still
  a member). So a fork needs members whose windows close on different views,
  which is what `agreement` excludes by its windows;
* `TheRemovedLeave`: in every configuration a member that a commit removes tears
  its conversation down with that merge;
* `LeavingIsRemoval` (`OnlyEjectedLeave`) under `[]KnowsOfRemoval`, which matters
  in recovery. The local apply looks at the queue, not at the commit. A full
  candidate cannot be older than the approval of its author's removal (it would be
  one change short), but a subset candidate can: its author would tear down
  though the merged commit does not remove it. `KnowsOfRemoval` excludes that
  case; the `agreement` run, which has recovery, satisfies it;
* `NormalRoundsEjectTheRemoved`, the same without recovery and without that
  hypothesis, subset candidates or not: only stewards hold candidates of their own
  (`StewardsOwn`), and they stay for the term.

### Timing of rounds (`AgreementProofs`)

`Timely` is the only hypothesis of all four theorems: `Quiet`, no recovery, no
repeated copies, full candidates only, `Delta < CommitBatchWindow`, `2 Delta <
FreezeDuration`, one commit holds all the changes (`Cardinality(Changes) <=
BatchMax`), and hashes that order the members. With `TermAssumption` this says
when they apply: in one term of a list whose stewards stay. Group, list, windows
and the other changes are arbitrary.

* `TimelyRoundsAgree` (`Agreement`): no fork;
* `TimelyRoundsAreOneHistory` (`ImplementsHistory`): with `NoForkIsOneHistory`, the
  group refines `GroupHistory` with no hypothesis left about forks;
* `TimelyRoundsLand` (`RoundsLand`): no member misses a round;
* `TimelyVotesLand` (`VotesLandInTime`): the bound on a vote.

The invariant `Rounds` has two cases. Before a round is `Started` everybody is
Working and `GatherInv` holds: the timers of two members differ by at most `Delta`,
a member without a timer has an outcome coming that is at least as old as the
other's timer, and no timer is within `Delta` of its window while an outcome is on
its way. So at the first freeze every member has the same work. From then on
`RoundPhase` holds: nothing is on its way but candidates; every minter has exactly
one candidate, made for this round with all of its work, which each member has or
is about to receive (`OneEach`), and the clocks leave time for it (`OnTime`). So the
candidates a member holds plus those on their way to it (`View`) are the same for
all, and `Chosen` is. That there is a minter at all (`RoundsWinnable`) is where the
term comes in: the list is not empty (`ListElected`), its stewards are not removed,
and who is not removed did not leave. `ChainInv` states the agreement itself: everybody is at a
point of everybody's history, or ahead by the one commit the other is going to
choose, and that only once every minter has minted. Early selection is covered:
as many candidates as stewards means that all have come. `WorkInv` (every decided
change is at a member in exactly one place: merged, queued or on its way) gives
the equality of the batches, and `IdleInv` that nothing is left over from an
earlier round. That last part is what a repeated copy breaks, see section 6.
`TimeInv` bounds the age of a change by where it is: on its way, waiting for the
freeze, or in it.

### Steward lists and scores across the group (`SyncProofs`)

All four assume that hashes are numbers (`HashTyped`).

* `SyncTypes` (`TypeOK`): in particular no sequence of commits, joins and syncs
  takes a score out of its range;
* `JoinersReadSenders` (`JoinerReadsSender`, an action property): the snapshots on
  the wire are those of the tables they were taken from (`SnapshotsTrue`), and a
  snapshot read after rebasing on the sender's default gives the sender's score;
* `OneStewardList` (`StewardListsAgree`) and `NobodyLeftBehind` (`NobodyBehind`), under
  `Prompt` and `~RefreshAnyTime`; section 3 says what happens without either.

`ListInv` is the invariant of the last two. `Knowledge`: at most one member joined
with the last commit, everybody else knows it, and the newcomer takes everybody
for settled, so members compute and judge lists over at most two pools.
`Ballots`: one election at a time is on its way, of this epoch and over a pool of
members; a newcomer agrees with an open list or no list is in force. `OneList`:
some list `l` is either held by whoever holds one (`Uniform`), or in force and held
or awaited by everybody (`Everywhere`), or by everybody but the newcomer, who is
left with no list in force (`Lagging`). The situations are needed because lists are
not replaced at once: those who heard of an election are ahead of those who did
not, and a newcomer may refuse what passed. Neither property is inductive alone:
that a commit finds everybody on the list of its author uses `OneList`, and
that a reconciliation gives everybody the same list uses that nobody is behind.

The inductive invariants (`WorkInv`, `MintInv`, `CandidateInv`, `Rounds`, `TimeInv`,
`ListInv`) and the hypotheses (`NothingEvicted`, `KnowsOfRemoval`) were checked with
TLC on instances the size of the runs' before they were proved or assumed.

### Only model-checked

* Liveness (`FreezeEnds`, `ReelectionEnds`, `BufferIsServed`,
  `StaleMemberCatchesUp`): fairness is out of the prover's reach.
* `Agreement`, `RoundsLand`, `VotesLandInTime` and the hypothesis-free
  `ImplementsHistory` with recovery or repeated candidates, which the `agreement`
  run has. With copies that come after the merge they fail (section 6); copies that
  come in time are only checked, and recovery has windows and minting rules of its own, which `Rounds` does not cover.
* What recursive functions compute. Their types are proved (`ApplyOps`: the first
  operation after which a table would be ill-typed cannot exist, the argument of
  the least counterexample), but equalities that need an induction over an operator
  are out of reach.

## 5. What is not modelled

Cryptography, welcomes and storage of OpenMLS; the vote counting of the consensus
library; the score changes of emergencies, the score threshold and storage
errors of scores other than through `ScoresMayFail`; timing and protocol flags of
a sync; the capacity of the commit-hash window and the window of relayed
welcomes; crash and restart (a conversation is not restored from storage, only
its steward list can be); formatting, events, queries and the computation of
the next wakeup.

## 6. Where code and comments differ

Shown by a run:

* An urgent removal does not commit alone when other approvals are queued: the
  candidate carries one action and the round expects all of them
  (`queues.rs:114`, `validate.rs:217`; run `urgent_alone`).
* A duplicate approval that lands after the commit is queued and blocks later
  rounds (`voting.rs:85`, `apply_result.rs:96`; run `stale_approval`).
* After a recovery commit that covers a part of the queue, the whole queue is
  drained and reported as applied (`events.rs:52`, `apply.rs:289`; run
  `recovery_drain`).
* The leave of a member on a reused leaf has the id of its predecessor's leave
  and is dropped as already applied (`voting.rs:260`, `util.rs:16`,
  `handle_outcome.rs:53`; run `leave_again`).
* A list elected in the epoch a member joined in is refused by the newcomer,
  which then refuses the commits of the new stewards (`handle_outcome.rs:232`,
  `steward.rs:360`; run `newcomer_behind`).

Met while modelling, without a run:

* Early selection can fork with windows above Delta, when a vote ends near a
  freeze (`poll.rs:148`; `config.rs:166` names only windows below Delta). A
  candidate of an earlier state counts for it (`buffer.rs:36`).
* `resend_commit` can fork the next round. The comment says that it only "replays
  the same bytes" of the current round (`handle.rs:485`), but a copy of a losing
  candidate that arrives after the merge finds an empty queue and is stashed
  under the epoch its receiver has by then. The next round replays it: the stash
  drops "Entries tagged with a different epoch" (`queues.rs:417`), and this tag is
  the receiver's, not the commit's. The stale candidate never wins, but it counts
  towards "all expected stewards have submitted" (`poll.rs:150`), so one member
  selects before the better candidate is there. To see it, run `agreement.cfg` with
  `LateCopies = TRUE`: TLC violates `Agreement`; with `MayResend = FALSE` as well
  everything holds.
* The hold of the freeze by an election keeps rounds apart. The comment gives as
  its reason that "committing on the known-stale list would just produce a
  NoCandidate" (`poll.rs:572`), and the hold itself can produce one. After a vote that
  takes out a steward, a member with the refresh election in flight
  (`handle_outcome.rs:156`, `poll.rs:574`) does not arm or test its batch timer until
  the election ends, up to `consensus_timeout` later. A member that armed its timer
  before the election came keeps its anchor, and one that has not heard of the
  election yet freezes on time. With members 1, 2, 3, the list <<3, 2>>, a removal of 3,
  `Delta` 1, batch window 2 and freeze 3: member 1 freezes at 2 and closes at 5;
  member 2 is held until 3, freezes at 5, its candidate comes at 6, and member 1 has
  blamed it and waits in Reelection. With more stewards members can select over
  different candidates and fork. `CommitRound` leaves such votes out.
* The retry round is reset when a commit is merged (`inbound.rs:453`) and only then,
  though `reset_retry` says "a fresh election landed" (`steward_list/service.rs:325`):
  an election before the next commit starts at a later round, and the short window
  stays in use.
* In recovery "selection picks the best" subset (`poll.rs:191`), but a remote
  candidate must equal the voted set (`validate.rs:127`), so members may merge
  their own; `commit_in_recovery` before everybody is in recovery forks.
* `phase_deadline` is not the gate `poll` tests in recovery and after a bumped
  retry round (`handle.rs:647`, `poll.rs:163`, `poll.rs:581`).
* A duplicate approval of a removal that resolves after its leaf was reused
  removes the new tenant, though handles promise not to act on a different
  member (`member_id.rs:20`).
* `actionable_buffered_updates` compares the key of an invite with leaf ids, so
  the invite of a member is not dropped (`steward.rs:216`); a commit drops it by
  key instead.
* The welcome's sync is built before the scores of the departed are dropped, so a
  joiner on a reused leaf adopts its predecessor's score (`poll.rs:394`;
  `inbound.rs:468` promises a clean slate).
* A joiner without bootstrap that gets its list by an election adopts neither
  scores nor defaults, and its syncs spread its own (`inbound.rs:575`).
* A sync re-adopted over an exhausted list leaves scores that are back at the
  sender's default as they were; a joiner without list scores honest losers as
  misbehaving.
* Any sync, also one nobody can verify, disarms a backup's takeover
  (`inbound.rs:565`); a newcomer's `share_conversation_sync` is such a one. In
  `Sync` an integrator shares only while nobody waits.
* Stewards that left since the election are said to be tolerated
  (`inbound.rs:679`), but the list must come out of the current members. A
  departed steward can be the responsible proposer of round 0, until a silent
  round passes it over.

## 7. Plan

Done: the modules and runs above and the proofs of section 4; every safety
property of a passing run is a theorem. Next:

1. Model: sync timing and flags, emergency scores, `set_config`; elections and
   their hold of the freeze within `CommitRound`, so that a steward can be voted out
   and a missed round is tried again there.
2. `AgreementProofs` with repeated copies that arrive within their round.
3. `Sync` with more than one newcomer per epoch.
