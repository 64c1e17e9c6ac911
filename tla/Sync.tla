-------------------------------- MODULE Sync ---------------------------------
(***************************************************************************)
(* How the members of a group come to hold the same steward list: local    *)
(* reconciliation, voted elections, the bootstrap sync of a welcome, and   *)
(* the sync a stale member asks for (steward.rs, inbound.rs, poll.rs,      *)
(* handle_outcome.rs), with the peer scores that ride along.               *)
(*                                                                         *)
(* Members are leaves.  Everyone merges every commit of a steward on its   *)
(* list at once (CommitRound is about the rounds); what reaches members    *)
(* late, or never, are election outcomes, requests and syncs.  A message   *)
(* is readable in the epoch it was sent in and is dropped at the next.     *)
(* Time is abstract: an armed window may end at any moment.                *)
(***************************************************************************)
EXTENDS StewardList, PeerScoring

CONSTANTS
  Leaves,          \* leaves in use
  Founders,        \* the members the creator seeds the group with
  GroupDefault,    \* default_peer_score of the group
  JoinerDefault,   \* and the one a joiner is configured with
  Prompt,          \* votes, outcomes and syncs are faster than commits (see Calm)
  RefreshAnyTime,  \* a list may be refreshed in an epoch somebody joined in
  Leavers,         \* bound: leaves whose members may be removed
  EpochLimit,      \* bound: epochs
  RoundLimit,      \* bound: retry rounds of an election
  VoteLimit        \* bound: elections held

ASSUME SyncAssumption ==
  /\ Leaves \subseteq Nat \ {0} /\ IsFiniteSet(Leaves)
  /\ Founders \subseteq Leaves /\ Founders # {} /\ Leavers \subseteq Leaves
  /\ {GroupDefault, JoinerDefault} \subseteq Nat \ {0}   \* ScoringConfig::validate
  /\ {GroupDefault, JoinerDefault} \subseteq MinScore..MaxScore   \* an i64
  /\ {Prompt, RefreshAnyTime} \subseteq BOOLEAN
  /\ EpochLimit \in Nat /\ RoundLimit \in Nat /\ VoteLimit \in Nat

VARIABLES
  epoch, members,   \* the MLS group
  list,      \* per member: installed steward list, or NoList
  joined,    \* per member: member_join_epoch, 0 where it knows of none
  round,     \* per member: next_election_round
  elections, \* elections: [list, result, unheard, nr]
  scores,    \* per member: peer scores
  default,   \* per member: default_score
  asked,     \* members whose sync_request_anchor is armed
  armed,     \* members whose sync_resend_anchor is armed
  syncs,     \* syncs on the wire: [to, sync]
  behind     \* members that could not follow a commit

tree  == <<epoch, members, behind>>
views == <<list, joined, round>>
tables == <<scores, default>>
vars  == <<tree, views, elections, tables, asked, armed, syncs>>

NoScores == [m \in {} |-> 0]

------------------------------------------------------------------------------
\* Steward lists

\* install_list of the sn first of a pool, kept by its stewards
\* (RegenerationReproduces of MCStewardList)
Installed(pool, e, r) ==
  [pool  |-> Range(Generate(e, r, pool, ComputeListSize(Cardinality(pool)))),
   epoch |-> e, round |-> r]

\* settled_members at epoch e, of the members mem and the join epochs known
Settled(mem, known, e) == {m \in mem : known[m] < e}

\* reconcile_steward_list: the list l at epoch e
Reconciled(l, mem, known, e) ==
  LET settled == Settled(mem, known, e)
  IN IF ~ListExhausted(l, e) \/ ElectionRequired(Cardinality(settled)) THEN l
     ELSE Installed(settled, e, 0)

\* is_epoch_steward
Leads(n, l) == IsSteward(l, n) /\ EpochSteward(l, epoch, members) = n

\* needs_sync of drive_sync_request
Stale(n) == list[n] = NoList \/ ListExhausted(list[n], epoch)

InFlight(n) == \E v \in elections : n \in v.unheard

\* build_conversation_sync_payload, of a member's list, members, known join
\* epochs, scores and default.  table is a history variable: what the sender's
\* sparse snapshot stands for.
SyncOf(l, mem, known, table, dflt) ==
  [list |-> l, unsettled |-> {m \in mem : known[m] >= l.epoch},
   snap |-> Snapshot(table, dflt), default |-> dflt, table |-> table]

\* share_conversation_sync: a broadcast.  Whoever holds a current list and has
\* no resend armed drops it.
Shared(n, l) ==
  IF l = NoList THEN {}
  ELSE [to : {m \in members \ {n} : Stale(m) \/ m \in armed},
        sync : {SyncOf(l, members, joined[n], scores[n], default[n])}]

\* validate_conversation_sync: the list must come out of the members here now
Acceptable(s, mem, e) ==
  /\ s.list.epoch <= e
  /\ s.unsettled \subseteq mem
  /\ s.list.pool \cap mem # {}
  /\ mem \ s.unsettled # {}
  /\ s.list = Installed(mem \ s.unsettled, s.list.epoch, s.list.round)

\* on_conversation_sync: no list yet, or an exhausted one of an older election
Adopts(l, s, mem, e) ==
  /\ l = NoList \/ (ListExhausted(l, e) /\ s.list.epoch > l.epoch)
  /\ Acceptable(s, mem, e)

\* Mutant of SyncedList: the round of the election is not carried over
SyncedListAfresh(s) == [s.list EXCEPT !.round = 0]

\* apply_conversation_sync_to_entry on the list
SyncedList(s) == Installed(s.list.pool, s.list.epoch, s.list.round)

\* ... and on the scores: the default first, then the
\* sparse snapshot
Adjusted(table, old, s) == ApplySnapshot(SetDefault(table, old, s.default), s.snap)

------------------------------------------------------------------------------
\* Commits

\* Mutant of Authorises: only the steward of the epoch may commit
AuthorisesLeader(n, by) == list[n] = NoList \/ EpochSteward(list[n], epoch, members) = by

\* check_commit_sender_authorized
Authorises(n, by) == list[n] = NoList \/ IsSteward(list[n], by)

\* record_winner_scores at n, of a commit after which stay are members (who is
\* about to be removed is not expected to commit).  Nobody scores itself for
\* being late.
WinnerOps(n, by, losers, stay) ==
  LET es == EpochSteward(list[n], epoch, stay)
  IN <<[member |-> by, event |-> "SuccessfulCommit"]>>
     \o (IF es \in {NoMember, by, n} THEN <<>>
         ELSE <<[member |-> es, event |-> "CensorshipInactivity"]>>)
     \o [i \in 1..Cardinality(losers) |->
           LET m == SetToSeq(losers)[i]
           IN [member |-> m, event |-> IF IsSteward(list[n], m) THEN "HonestCommitAttempt"
                                       ELSE "MisbehavingCommit"]]

\* With Prompt, a commit waits until every outcome was heard, and every list
\* was renewed once one was
Calm ==
  Prompt => /\ \A v \in elections : v.unheard = {}
            /\ (\E n \in members : ~Stale(n)) =>
                 \A n \in members : list[n] # NoList => ~Stale(n)

\* The commit of steward by merges everywhere: gone leave, a joiner takes the
\* leftmost free leaf.  The other stewards' candidates lost or, if by is not
\* the epoch steward, did not come (bound).  The committer sends the welcome,
\* with a sync unless that failed (boot), after its reconciliation and before
\* it drops the scores of the departed (deliver_welcome,
\* on_conversation_updated).
Commit(by, gone, joins, boot) ==
  LET stay == members \ gone
      first == EpochSteward(list[by], epoch, stay) = by
      losers == {n \in stay \ {by} : first /\ IsSteward(list[n], n)}
      free == Leaves \ stay
      new == IF joins THEN {CHOOSE l \in free : \A m \in free : l <= m} ELSE {}
      now == stay \cup new
      e == epoch + 1
      on == {n \in stay : n = by \/ Authorises(n, by)}
      knows(n) == [m \in Leaves |-> IF m \in new THEN e ELSE IF m \in gone THEN 0
                                    ELSE joined[n][m]]
      renewed(n) == Reconciled(list[n], now, knows(n), e)
      scored(n) == ApplyOps(scores[n], WinnerOps(n, by, losers, stay))
      moved(n) == AddMembers(RemoveMembers(scored(n), gone), new, default[n])
      welcome == SyncOf(renewed(by), now, knows(by), scored(by), default[by])
      fresh == SyncMembers(NoScores, now, JoinerDefault)
      takes == boot /\ Adopts(NoList, welcome, now, e)
  IN /\ epoch < EpochLimit /\ Calm
     /\ by \in stay /\ IsSteward(list[by], by)
     /\ joins => free # {}
     /\ epoch' = e /\ members' = now
     /\ behind' = (behind \cap stay) \cup (stay \ on)
     /\ list' = [n \in Leaves |->
          CASE n \in new -> IF takes THEN SyncedList(welcome) ELSE NoList
            [] n \in on \ new -> renewed(n)
            [] n \in stay \ on -> list[n]
            [] OTHER -> NoList]
     /\ joined' = [n \in Leaves |-> IF n \in on \ new THEN knows(n)
                                    ELSE [m \in Leaves |-> 0]]
     /\ round' = [n \in Leaves |-> 0]
     /\ default' = [n \in Leaves |-> IF n \in new /\ takes THEN welcome.default
                                     ELSE IF n \in stay \ new THEN default[n] ELSE JoinerDefault]
     /\ scores' = [n \in Leaves |->
          CASE n \in new -> IF takes THEN Adjusted(fresh, JoinerDefault, welcome) ELSE fresh
            [] n \in on \ new -> moved(n)
            [] n \in stay \ on -> scores[n]
            [] OTHER -> NoScores]
     /\ elections' = {[v EXCEPT !.unheard = @ \cap stay] : v \in elections}
     /\ asked' = asked \cap (stay \ new) /\ armed' = armed \cap (stay \ new)
     /\ syncs' = {}

------------------------------------------------------------------------------
\* Elections

\* Whether a list may be refreshed before it is exhausted (recovery = true):
\* after a steward's removal was approved or a round brought no commit
MayRefresh == RefreshAnyTime \/ \A n, m \in members : joined[n][m] < epoch

\* initiate_steward_election: the responsible proposer opens a vote.  In a refresh
\* members whose removal is approved (out) do not propose.  Nobody looks whether
\* the responsible proposer is still there.
Elect(n, refresh, out) ==
  LET pool == Settled(members, joined[n], epoch)
  IN /\ n \in members /\ ~InFlight(n) /\ Cardinality(elections) < VoteLimit
     /\ Prompt => \A v \in elections : v.unheard = {}
     /\ IF refresh THEN MayRefresh
        ELSE ListExhausted(list[n], epoch) /\ ElectionRequired(Cardinality(pool))
     /\ pool # {}
     /\ ResponsibleProposer(list[n], round[n], pool, Leaves \ out) = n
     /\ elections' = elections \cup
          {[list |-> Installed(pool, epoch, round[n]), result |-> "open",
            unheard |-> members, nr |-> Cardinality(elections)]}
     /\ UNCHANGED <<tree, views, tables, asked, armed, syncs>>

\* validate_election_list: by what n knows of the members that are here now
Valid(n, v) ==
  LET pool == Settled(members, joined[n], v.list.epoch)
  IN pool # {} /\ v.list = Installed(pool, v.list.epoch, v.list.round)

\* The vote ends (consensus library).  Everybody votes at once what
\* validate_election_list finds (register_auto_vote with no delay).  With Prompt
\* all votes are counted in time, and a list that is not the one most members
\* compute is turned down; otherwise the vote may end either way.
Conclude(v, result) ==
  /\ v.result = "open"
  /\ Prompt /\ result = "yes" =>
       2 * Cardinality({n \in members : Valid(n, v)}) > Cardinality(members)
  /\ result = "no" => v.list.round < RoundLimit
  /\ elections' = (elections \ {v}) \cup {[v EXCEPT !.result = result]}
  /\ UNCHANGED <<tree, views, tables, asked, armed, syncs>>

\* handle_election_accepted, or the bump of advance_election_retry
HearOutcome(n, v) ==
  /\ v.result # "open" /\ n \in v.unheard
  /\ elections' = (elections \ {v}) \cup {[v EXCEPT !.unheard = @ \ {n}]}
  /\ IF v.result = "yes" /\ Valid(n, v)
     THEN /\ list' = [list EXCEPT ![n] = v.list]
          /\ syncs' = IF Leads(n, v.list) THEN syncs \cup Shared(n, v.list) ELSE syncs
     ELSE UNCHANGED <<list, syncs>>
  /\ round' = IF v.result = "no" THEN [round EXCEPT ![n] = @ + 1] ELSE round
  /\ UNCHANGED <<tree, joined, tables, asked, armed>>

\* drive_reelection_retry: a silent round, seen by everybody alike
SilentRound ==
  /\ \A n \in members : ~InFlight(n) /\ round[n] < RoundLimit
  /\ \E n \in members : Stale(n)
  /\ round' = [n \in Leaves |-> IF n \in members THEN round[n] + 1 ELSE 0]
  /\ UNCHANGED <<tree, list, joined, elections, tables, asked, armed, syncs>>

------------------------------------------------------------------------------
\* Syncs

\* The stewards by their own lists, besides n
Backers(n) == {m \in members \ {n} : IsSteward(list[m], m)}

\* drive_sync_request, once per window, and on_conversation_sync_request of
\* whoever the request reaches: the epoch steward answers, a backup arms its
\* takeover.  Bound: while no list is in force anywhere nobody asks; the answers
\* would carry lists that nobody adopts.
RequestSync(n, reached) ==
  LET leaders == {m \in reached : Leads(m, list[m])}
  IN /\ n \in members \ asked /\ asked' = asked \cup {n}
     /\ Stale(n) /\ ~InFlight(n)
     /\ \E m \in members : ~Stale(m)
     /\ reached \subseteq Backers(n)
     /\ syncs' = syncs \cup UNION {Shared(m, list[m]) : m \in leaders}
     /\ armed' = (armed \cup reached) \ leaders
     /\ UNCHANGED <<tree, views, elections, tables>>

\* The window of a request is over.  What has not arrived by now is lost.
WindowOver(n) ==
  /\ n \in asked
  /\ asked' = asked \ {n}
  /\ syncs' = {d \in syncs : d.to # n}
  /\ UNCHANGED <<tree, views, elections, tables, armed>>

\* Mutant of ResendSync: the window is armed again, nothing is sent
ResendNothing(n) ==
  /\ n \in armed
  /\ armed' = armed
  /\ UNCHANGED <<tree, views, elections, tables, asked, syncs>>

\* drive_sync_resend, once the epoch steward kept silent for the window
ResendSync(n) ==
  /\ n \in armed
  /\ armed' = armed \ {n}
  /\ syncs' = IF ~Leads(n, list[n]) /\ IsSteward(list[n], n)
              THEN syncs \cup Shared(n, list[n]) ELSE syncs
  /\ UNCHANGED <<tree, views, elections, tables, asked>>

\* share_conversation_sync by the integrator (bound: nobody waits for an answer)
Share(n) ==
  /\ syncs = {} /\ asked = {} /\ armed = {} /\ n \in members /\ Shared(n, list[n]) # {}
  /\ syncs' = syncs \cup Shared(n, list[n])
  /\ UNCHANGED <<tree, views, elections, tables, asked, armed>>

\* on_conversation_sync
HearSync(n, s) ==
  /\ [to |-> n, sync |-> s] \in syncs
  /\ syncs' = syncs \ {[to |-> n, sync |-> s]}
  /\ armed' = armed \ {n}
  /\ IF Adopts(list[n], s, members, epoch)
     THEN /\ list' = [list EXCEPT ![n] = SyncedList(s)]
          /\ scores' = [scores EXCEPT ![n] = Adjusted(@, default[n], s)]
          /\ default' = [default EXCEPT ![n] = s.default]
     ELSE UNCHANGED <<list, tables>>
  /\ UNCHANGED <<tree, joined, round, elections, asked>>

------------------------------------------------------------------------------
\* The group as seed_initial_members left it, every founder having joined with
\* the sync of its welcome
Init ==
  /\ epoch = 1 /\ members = Founders /\ behind = {}
  /\ list = [n \in Leaves |-> IF n \in Founders THEN Installed(Founders, 1, 0) ELSE NoList]
  /\ joined = [n \in Leaves |-> [m \in Leaves |-> 0]]
  /\ round = [n \in Leaves |-> 0]
  /\ elections = {}
  /\ scores = [n \in Leaves |-> IF n \in Founders THEN SyncMembers(NoScores, Founders, GroupDefault)
                                ELSE NoScores]
  /\ default = [n \in Leaves |-> IF n \in Founders THEN GroupDefault ELSE JoinerDefault]
  /\ asked = {} /\ armed = {} /\ syncs = {}

Commits ==
  \E by \in members :
    \/ \E m \in members \cap Leavers : Commit(by, {m}, FALSE, FALSE)
    \/ \E boot \in BOOLEAN : Commit(by, {}, TRUE, boot)

Voting ==
  \/ \E n \in members : Elect(n, FALSE, {}) \/ \E out \in SUBSET Leavers : Elect(n, TRUE, out)
  \/ \E v \in elections, result \in {"yes", "no"} : Conclude(v, result)
  \/ \E v \in elections, n \in members : HearOutcome(n, v)
  \/ SilentRound

Syncing ==
  \/ \E n \in members : \E reached \in SUBSET Backers(n) : RequestSync(n, reached)
  \/ \E n \in Leaves : WindowOver(n) \/ ResendSync(n) \/ Share(n)
  \/ \E d \in syncs : HearSync(d.to, d.sync)

Next == Commits \/ Voting \/ Syncing

\* n receives a sync that it adopts
Recover(n) ==
  \E d \in syncs : d.to = n /\ Adopts(list[n], d.sync, members, epoch) /\ HearSync(n, d.sync)

\* The request of n reaches every backup
AskBackups(n) ==
  LET backups == {m \in Backers(n) : ~Leads(m, list[m])}
  IN RequestSync(n, backups) \/ RequestSync(n, Backers(n))

\* Members poll and windows end.  A request, or an answer that helps, arrives at
\* last if it is sent again and again.  Fairness of somebody is enough here, and
\* less to assume than fairness of everybody.
Fairness ==
  /\ WF_vars(\E n \in Leaves : WindowOver(n)) /\ WF_vars(\E n \in Leaves : ResendSync(n))
  /\ SF_vars(\E n \in Leaves : AskBackups(n)) /\ SF_vars(\E n \in Leaves : Recover(n))

Spec == Init /\ [][Next]_vars /\ Fairness

------------------------------------------------------------------------------
\* Properties

\* The type of every variable (StewardListService, ConversationQueues, Timing).
TypeOK ==
  LET List == [pool : SUBSET Leaves, epoch : Nat, round : Nat]
      Table(t) == DOMAIN t \subseteq Leaves /\ \A m \in DOMAIN t : t[m] \in MinScore..MaxScore
  IN /\ epoch \in Nat /\ members \subseteq Leaves /\ behind \subseteq members
     /\ list \in [Leaves -> List] /\ joined \in [Leaves -> [Leaves -> Nat]]
     /\ round \in [Leaves -> Nat]
     /\ \A v \in elections : /\ v.list \in List /\ v.result \in {"open", "yes", "no"}
                             /\ v.unheard \subseteq members
     /\ DOMAIN scores = Leaves /\ \A n \in Leaves : Table(scores[n])
     /\ default \in [Leaves -> Nat]
     /\ asked \subseteq members /\ armed \subseteq members
     /\ \A d \in syncs : d.to \in members /\ d.sync.list \in List

Settling(n) == InFlight(n) \/ Stale(n)

\* One list: members that hold a list in force and wait for no election hold
\* the same one, whether they computed it, elected it, got it with their welcome
\* or asked for it, and whatever they know of each other's join epochs
\* (reconcile_steward_list, handle_election_accepted, on_conversation_sync).
StewardListsAgree ==
  \A a, b \in members : Settling(a) \/ Settling(b) \/ list[a] = list[b]

\* Nobody is left behind: whoever commits as a steward by its own list is one
\* by everybody's (check_commit_sender_authorized); a member that refuses the
\* commit everyone else merged is out of the group for good.
NobodyBehind == behind = {}

\* The first sync carries the scores: the sparse snapshot, read with the
\* sender's default, gives the joiner what the sender had, whatever default
\* the joiner had assumed.  Only of a member that is at the sender's default, and
\* so not in the snapshot, may the joiner keep another score: one that it moved
\* itself by commits it saw without a list (set_default_score, apply_snapshot).
JoinerReadsSender ==
  [][\A d \in syncs :
       list[d.to] = NoList /\ HearSync(d.to, d.sync) /\ list'[d.to] # NoList
       =>
         LET table == d.sync.table
             mine == scores[d.to]
         IN \A m \in DOMAIN table :
              \/ table[m] # d.sync.default
              \/ m \in DOMAIN mine /\ mine[m] = default[d.to]
              => scores'[d.to][m] = table[m]]_vars

\* Somebody besides the epoch steward can hand n the list in force.
Servable(n) ==
  \E m \in members \ {n} :
    /\ ~Stale(m) /\ IsSteward(list[m], m) /\ ~Leads(m, list[m])
    /\ Adopts(list[n], SyncOf(list[m], members, joined[m], scores[m], default[m]), members, epoch)

\* Stale members catch up even if the epoch steward never answers: again and
\* again there is nobody left who holds no list in force, waits for no election
\* and could be handed a list by a backup (drive_sync_request, drive_sync_resend).
StaleMemberCatchesUp ==
  []<>~\E n \in members : Stale(n) /\ ~InFlight(n) /\ Servable(n)
==============================================================================
