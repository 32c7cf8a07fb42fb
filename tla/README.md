# Verification of monika: dispatch, Stop Robot, session ownership, branch operations, deployment, subagents and projection

Monika is a forum whose topics are conversations with a robot.  The forum server
(`src/services/forum/packages/server`, TypeScript over SQLite) keeps topics, posts and an
outbox of posts to be dispatched.  agentd (`src/services/agentd`, Node) keeps the canonical
Pi session of each topic, runs the robot on it, and settles and stops the subagents the robot
launches.  They talk over HTTP; agentd also streams events back.  An interactive Pi process
may take a session over from agentd.  A deployment script asks the forum for a fence and
agentd for a drain before it replaces either.

This directory holds TLA+ modules of the parts where these processes have to agree, TLC
configurations that check them on small instances, and TLAPS proofs for every instance.

## 1. Inventory

| Component | State | Operations | Interacts with | Hard behaviour | What makes it correct |
|---|---|---|---|---|---|
| Outbox (`store.ts`, `post_dispatches`) | rows with status, claim token, generation, attempts, contributors; one generation per topic | create, list due, claim a group, settle, fail, abandon, retry, supersede, reconcile | dispatch service, routes, Stop Robot | late claimants, retries, regrouping after lost answers, restarts, posts that pass a branch fence | settled rows stay settled, an active row is of the current generation, groups have one origin |
| Dispatch service (`postDispatchService.ts`) | active topics, `running` flag, timer | scan, group, claim, send, classify failures | outbox, bridge, forks, clones, compactions | crash between claim and acknowledgement, ambiguous failures, a fenced queue and the checkpoint that overtakes it | a post settles unless a stop or an operation stays unresolved; "dispatched" means accepted |
| Bridge (`echsBridge.ts`, `echsClient.ts`) | threads, robot activity, links | dispatch, Stop Robot, close, reconcile, handle events, reattach | outbox, agentd | checks before an await used after it; answers, events and reconciliation racing | "stopped" is shown only of a stop that is fenced, or that had no session to ask; a retried stop cancels nothing |
| Dispatch fence (`dispatch-fence.mjs`) | custom entries on the session's branch | inspect, accept, advance | agentd's handlers | duplicates, late requests, requests that cross a stop | at most one delivery, none behind a served stop |
| agentd handlers (`server.mjs`, `session-operation.mjs`, `subagent-cancellation.mjs`) | loaded conversations, current turn, durable cancellation operations | message, open, close, cancel, reconcile, reap | fence, stream | crash inside a cancellation, close behind the mutex | a refusal is true; a cancellation is never reported beyond the fence |
| Deployment admission (`deploymentAdmissionCoordinator.ts`) | state, owner, lease, answered operations, work in flight | acquire, finish, renew, cancel, expire, begin and end work, shutdown | outbox, sync worker, forks, clones, automatic runs, deploy script | await in the middle of acquire, revocation, lease expiry, retried calls | an acquired fence means quiescence; it is never held for an answered operation, and ends |
| Session ownership (`session-ownership.mjs`, `server.mjs`, Pi extension `00-session-ownership.ts`) | claimed leases, reservations, takeover in progress; per client its protection and its lease token | reserve, claim, promote, heartbeat, release, take over (wait, abort, force), expire | agentd's handlers, interactive Pi processes | late and lost requests, expiry against renewal, a client that switches sessions | one writer: a protected client is alone |
| agentd drain and shutdown (`server.mjs`) | draining flag, durable drain record, auto-cancel timer | drain, cancel, restart under a drain, report blockers | deploy script, handlers | restart, lease expiry, work that starts between report and drain | nothing is cut; no drain lasts |
| Deployment script (`scripts/deploy-if-safe`) | what its exit trap will undo | fence, drain, back up, replace, verify, release | forum, agentd, containers | death without a trap, failing requests, expiring leases | containers are replaced under their fences; a finished run leaves both open |
| Fork, clone and compaction: forum services, agentd ledgers | operation rows, attachment files, ledger records, source fence | stage, claim, create or adopt the child, complete, acknowledge, compact, checkpoint | outbox, agentd, interactive clients | crash between the child's creation and its record, lost answers, a source that moves | one child per operation, at the accepted leaf; one compaction |
| Subagent results (`subagent-lifecycle.mjs`, `subagent-retention.mjs`) | result, claim, acknowledgement, custody and ledger files, tombstones | settle, resolve, retain, compact logs | the subagents package, the operator, the parent session | no lock, crash between any two file operations, a result that is replaced | nothing unacknowledged is removed; logs outlive the result |
| Subagent stop (`subagent-cancellation.mjs`, `interruptSession`) | durable cancellation record, markers, stop requests | abort, scan, mark, request, confirm, reconcile | the subagents package, the forum's Stop Robot | launches behind the scan, wake-ups, restarts | "stopped" is said of what has stopped; a retried stop ends |
| Assistant projection, attachment handoff (`store.ts`, `assistantProjectionService.ts`, `attachmentHandoff*`) | projection rows, handoffs, reservations, staged sources, callbacks | project, claim, link, finalize, notify, recover, expire | stream, session sync, timer | three passes on the same rows, crash between transactions, leases | each canonical message is one post, in order, announced once |
| Pi session sync, automatic runs, SSE, memory, adapters, web application | see `PROJECT.json` | | | | |

`PROJECT.json` lists every component, the ones that are not modelled with the reason, and
the hazards at the lines where they bite.

## 2. Modules

| Module | Models | Extends |
|---|---|---|
| `DeploymentAdmission` | the deployment fence and what it fences | |
| `DeploymentAdmissionProofs` | its theorems | `DeploymentAdmission` |
| `PostOutbox` | the rows of one topic and the store's operations on them, as operators | |
| `DispatchFence` | the fence entries of a canonical branch, as operators | |
| `PostDispatch` | forum, network and agentd around those two | `PostOutbox`, `DispatchFence` |
| `DispatchDelivery` | the abstract promise: at most one delivery per post, none behind a stop | |
| `PostDispatchClaims` | statements of the documentation that the code does not meet | `PostDispatch` |
| `PostDispatchProofs` | theorems about `PostDispatch` | `PostDispatch` |
| `SessionOwnership` | who may write one session: agentd or an interactive process | |
| `SessionOwnershipProofs` | its theorems | `SessionOwnership` |
| `BranchOperations` | fork, clone and compaction of one topic, on both sides | |
| `BranchOperationsProofs` | its theorems | `BranchOperations` |
| `Deployment` | the deployment script, the forum's fence and agentd's drain together | `DeploymentAdmission` |
| `DeploymentProofs` | its theorems, on top of the coordinator's | `Deployment`, `DeploymentAdmissionProofs` |
| `SubagentResults` | settlement, resolution and retention of one run's result | |
| `SubagentResultsProofs` | its theorems | `SubagentResults` |
| `SubagentStop` | one stop of a robot and of the runs it has launched | |
| `SubagentStopProofs` | its theorems | `SubagentStop` |
| `AssistantProjection` | canonical messages becoming posts, with their attachments and callbacks | |
| `AssistantProjectionProofs` | its theorems | `AssistantProjection` |
| `MC...` | instances for TLC | the module they are named after (`MCPostDispatch`: `PostDispatchClaims`) |

Operators named `X_Y` after a definition `X` and marked "Mutant" are plausible faults of
`X`; they are used in no specification and show that the properties can fail.

### DeploymentAdmission

`adm` is the coordinator's object: state, owner, lease, whether it pauses the sync worker,
and the answered operations (the code remembers a hundred, the model `CompletedCap`).
`waits` counts the calls of `finishAcquire` that sit in their `await` for an operation;
`running` is the sync worker; `phase` is where each unit of robot work stands.  An acquire
is two actions, one up to the await (`AcquireNew`) and one after it (`FinishAcquireIdle`,
`FinishAcquireFailed`), and everything else may run between them.  A unit of work is an
outbox dispatch (created, sent, accepted, settled, then a turn) or a direct one (fork,
clone, automatic run); `Visible` is what `getForumDeploymentBlockers` sees of it.  A lease
is "live" or "due"; whoever calls the coordinator first, or the timer, expires it.

### PostOutbox, DispatchFence, PostDispatch

One topic.  A post number is also its dispatch id, since a post has at most one row.
Stretches of the forum's JavaScript between awaits are one action each.  agentd's message
and cancellation handlers run under the session's mutex and are one action each, except
that agentd may die inside a cancellation (`AgentdCrashInStop`).

Forum database: `rows`, `gen`, `activity` (`robot_state.activity`; "none" when the topic has
no such row, which matters because `setRobotActivity` then does nothing), `link`
(`pi_session_links`), `thread` (`agent_thread_id`), `held` (a compaction is active, or a fork
or clone is unfinished or in manual review), `checkpoints` (the posts that are a compaction's
recovery checkpoints).  Forum process: `up`, `worker` (the
dispatch in progress with its claim token), `stops` (calls of `interruptTopic`), `recon`
(the single-flight reconciliation pass), `closing`.  Network: `reqs`, a set of message
requests that may be served late, lost, or served after their caller has given up; `evts`,
the stream, in order.  agentd: `loaded`, `turn`, `branch` (durable), `canc` (durable
cancellation operations).

| Code | Actions |
|---|---|
| post creation, manual retry, abandonment, timers | `CreatePost`, `RetryFailed`, `AbandonHead`, `Ripen` |
| `processDue`, `dispatch`, `claimPostDispatchGroup` | `Claim` with `Selected`, `Eligible`, `DueCheckpoints`, `Group` |
| acceptance and end of forks, clones and compactions, as the queue sees them | `AcceptOperation`, `OperationEnds`, `finishCompactionSuccess` |
| an automatic run's writes of the robot state | `DirectorWrites` |
| `dispatchUserMessage` up to the request | `OpenDead`, `OpenLoaded`, `OpenSession`, `LinkSession`, `OpenRefused`, `Send` |
| agentd's message handler | `MessageRefused`, `MessageNotReady`, `MessageAccepted`; `RequestLost` for the network |
| outcome in the dispatch service | `DispatchSettled`, `DispatchRefused`, `ApplicationFailure`, `TransportFailure` |
| `interruptTopic` | `StopLinked`, `StopUnlinked`, `StopReturns`, `StopFails` |
| `interruptSession` | `AgentdStops`, `AgentdRefusesStop`, `AgentdCrashInStop` |
| reconciliation pass and the canonical GET | `ReconcileAsks`, `ReconcileHasNothing`, `AgentdReconciles`, `ReconcileApplies`, `ReconcileFails` |
| stream | `EmitBusy`, `EmitTurnEnd`, `ReceiveEvent` |
| `closeTopic`, `closeConversation`, the reaper | `CloseAsks`, `AgentdCloses`, `CloseReturns`, `CloseFails`, `AgentdUnloads` |
| crashes and startup | `ForumCrash`, `ForumStarts`, `AgentdCrash` |

Abstractions: a claim token is a fresh value; a delay is a Boolean `ripe` that may become
true at any time; attempts saturate at `MaxAttempts`, after which no decision looks at
them; `solo` stands for a post with an explicit compaction policy and for a fork's opening
post, which is always the first of its topic.  A cloned or forked topic inherits the
generation of its source together with the source's branch; the model counts from there.
The order of contributors is not modelled, their set is.

`Starts` says how the topic came about: new; imported from Pi, with a session; forked or
cloned, with a session and an idle robot, for a clone's child perhaps behind its own
operation; or left with an idle robot and no session by a handoff that failed
(`forumRoutes.ts:821`).  `Features` says what else may happen to it: forks, clones and
compactions; automatic runs; a close.  `External` are the origins whose posts are queued behind
the fence (Discord and Matrix, `store.ts:3801`); the routes refuse the others.  Of an operation
only `held` is known here; `BranchOperations` has the rest, and an operation that goes to
manual review or is requeued for ever is one whose `OperationEnds` never comes.  A Director
may write "running" or "idle" at any time, whatever the activity has become meanwhile; it has a
conversation of its own, and "waiting", to which its reply may set the activity, is merged with
"idle", since no decision here tells them apart.

A stop of a topic without a session (`StopUnlinked`) asks nobody: the answer is made up
(`echsBridge.ts:1218`), and is shown if there is robot state, which the failed handoff or a
Director may have written.  `stops` remembers it as "unasked", and `StoppedIsFenced` excepts
it by name.  If the made-up answer is "uncertain", nothing reconciles it, because the pass
goes through the session links; it lasts until a Director writes over it.
`pauseActiveThreads` stops a loaded topic without looking at the branch fence, the route does
look; `StopLinked` has both.  `AgentdUnloads` may close a
conversation with a running turn at any time, where the code does so only if the turn began
while the reaper waited for the mutex.

### DispatchDelivery

The abstract specification has the set of delivered posts with their generations and the
fence.  A post is delivered once, at a generation not below the fence; a stop raises the
fence.  `PostDispatch` implements it with `delivered` read off the accepted entries of the
branch and `fence` the branch's generation (`DeliveryRefined`).

### SessionOwnership

One session, agentd and several interactive clients.  agentd's maps of leases and of
reservations hold at most one record for the session and are `lease`; `op` is a takeover
that holds the session's operation lock while it waits for the turn; `conv` is agentd's own
conversation; `cli` is what each client process believes and the request it waits for;
`releases` and `orphans` are requests still on their way whose caller no longer waits.  A
deadline is the number of ticks left, and `Tick` shortens all of them: both sides read one
clock, but a client looks at it when it likes.

| Code | Actions |
|---|---|
| the extension's gate, switch, first input, promotion, heartbeat, recovery, shutdown | `ClientStep` |
| agentd's ownership routes | `ServeStep`, `ServeRelease`, `OrphanStep` for the abandoned |
| takeover: wait for the turn, abort, force | `TakeoverStep` |
| open, message, end of turn, close | `OpenConversation`, `Dispatch`, `TurnEnds`, `CloseConversation` |
| restart of agentd | `AgentdRestart` |

Abstractions: a late request counts as a fault; a client does not resume the session it is
in, but may prepare it twice; `ProtectedIsAlone` excepts a client whose own release is still
on its way (section 5, `claim_ownership`); mutations in
flight are counted inside the mutex, so a handler and its count are one step; a handler that
looked its conversation up before a close and runs after it is not modelled (it is listed
among the hazards).

### BranchOperations

`row` is the forum's operation row with the staged files and the opening dispatch, `work` how
far the service's worker is, `ledger` agentd's record, `run` the operation that agentd
executes under the session's mutex, `kids` the child sessions on disk.  A fork, a clone and a
compaction share one action per durable step; the kinds differ in guards.  agentd's execution
is `RunAdopt`, `RunCreate`, `RunReuse`, `RunMark`, `RunRecord`, `RunComplete` and
`RunCompact`, with a crash possible between any two; the forum's is staging, insertion,
`Claim`, the two requests to agentd, their outcome, `MoveFiles`, `MovePaths`, `Ack`,
`Complete`.  The first request finds or opens the conversation (`Open`, `OpenFails`), the
second is the operation itself (`ServeAnswer`, `ServeStart`); a crash, a close or a takeover
between them makes the second a 404, which all three services take for a definitive refusal.
A post is queued behind the fence, as one from Discord or Matrix is; its dispatch waits.
Ordinary posts, turns and an interactive client move the source meanwhile.  The session's mutex is
first come, first served, so a request whose caller has given up is the same as an answer
that is lost.  `PostDispatch` assumes of a forked or cloned topic what is checked here.

### Deployment

Each operation id is one run of `deploy-if-safe`; `script` is where the run stands and what
its exit trap will undo, `agentd` the drain with its durable record and timer, `localWork`
the work only agentd sees (an interactive lease, a subagent, a memory save).  The automatic
cleanup of old subagent files, a blocker too (`server.mjs:694`) but not refused while draining
(lines 599, 3112-3141), is left out: a shutdown waits for it.  The forum's
side is `DeploymentAdmission` itself, its actions taken as they are.  `Fails` is a request or
command that fails, after which the trap runs; `Dies` is a death without the trap.  All steps
but the backup are short against the leases, so a lease runs out only under a script that is
in its backup or dead.  The automatic cancel and the removal of its record are one step.

### SubagentResults

One run's files: `src` the result, `custody` what is renamed away for removal, `claim`,
`ack`, `ledger`, `retained`, `sidecar`, `tombstone`, `logs`.  A content number stands for an
inode with its bytes and digest.  Settlement passes and operator requests are tasks that
proceed one file operation at a time (`Proceed`); `PublishResult`, `ClaimResult`,
`Synthesize`, `RunEnds` are the package and the parent session.  `replaced` is a history
variable, the results over which the package has renamed a newer one: such a result has lost
its name without agentd, so `RemovedWasAcknowledged` says nothing of it.

### SubagentStop

`stage`, `alive`, `result` are what a run's artifacts and process say; `marked` and `control`
are the marker and the stop request beside it; `op` is the durable cancellation record;
`attempt` is the scan, mark, request, wait and confirm loop under the session's mutex, one
directory at a time; `request` is the forum's status request, which reads the record before
it waits for the mutex.  The package's side (`Register`, `Spawn`, `Finish`, `Exit`, `Wake`)
is modelled from the repository's patch of the package and from what agentd reads of it.
As in the code, a repeated POST never clears the recorded abort error, a reconciled old stop
does not look at the generation, and `StoppedTurnIsOver` exempts the case of section 5 in
which the error of the abort is lost.  `Complete` is execute's last write together with
`markParentAbortUncertain` (`server.mjs:546-547`), between which a
status request may read the record without the error (as the model lets it while the
scan runs; the record is read again under the mutex) or a crash may fall, which ends
the parent's turn too.
`Classify` has the artifacts agentd can read; one that is malformed, unreadable, of an
unsupported scope or in quarantine (`subagent-lifecycle.mjs:645-653, 667, 723-742`) is
uncertain for good and keeps the stop from ending, never from being true.

### AssistantProjection

One action per SQLite transaction: `project`, `Work` (claim, link, finalize, notify, one
transaction at a time), `runDue`, `Recover`, `Ripen`, `deleteExpiredPendingAttachments`.  The
token of a claim is the pass that holds it, "dead" once its process has died and "stale" when
its lease is over.  `faults` counts crashes and failing callbacks together; `NotifiedOnce`
allows one more callback for each.  `Torn` is the row of section 5 (`claim_gaps`), which
`PostsInArrivalOrder` and `MessagesSettle` except.

## 3. Runs

With two workers each run finishes within about three minutes.  The fence of a
deployment never stops the system, so `admission` checks deadlock; in the other models the
system may come to rest once its bounds are used, so they do not.

| Run | Instance | Shows |
|---|---|---|
| `admission` | 2 operations, 2 works, 2 overlapping waits, 1 remembered answer, 1 renewal | a held fence means quiescence and survives everything but its owner, its lease and shutdown; the count is exact; an answered operation never owns the fence again; a preparation is never left alone; every ownership ends |
| `delivery` | 2 posts, web and Discord, solo or not, behind or before a branch fence, a checkpoint; 2 attempts, 2 tokens, 1 fault | at most one acceptance, "dispatched" is true, groups are uniform |
| `stops` | 1 post, 2 stops, all four kinds of topic, automatic runs | the fence orders stops and dispatches and never overtakes the forum; refinement of `DispatchDelivery`; active rows are current, settled rows final; a retried stop keeps the posts |
| `settling` | 1 post of the web or Discord, or a checkpoint; 1 stop, 1 fault, 1 event, 2 tokens, a topic with and without a session, forks, clones and compactions | answer, event, reconciliation and crash racing: "stopped" is fenced or was made up for want of a session, and the post settles unless the stop or an operation stays unresolved or an earlier post is retried for ever |
| `ownership` | 2 clients, a lease of 2 ticks and a preparation of 1, 2 tokens, 1 fault | a client that shows itself protected, with time left and no release under way, holds the only record, and agentd runs no turn under it |
| `branch` | 1 fork, 1 clone, 1 compaction, 3 entries of the source, 2 faults | one child per operation, at the accepted leaf, quarantined until acknowledged; one compaction; a failed fork leaves no fence, a lost conversation apart; a fenced source does not move |
| `deployment` | 2 runs of the script one after the other, 1 work, all four kinds of run, 1 fault | containers are replaced under their fences with nothing running; a finished deployment leaves both open; no drain lasts |
| `subagent_results` | 2 settlements and a dismissal, 3 dispositions, 2 contents, 4 custody names, 1 crash | nothing unacknowledged is removed; an acknowledgement is in the ledger; logs outlive the result; an answered follow-up settles |
| `subagent_stop` | a run and a nested run, the first waking the parent; 2 turns, 1 fault | "stopped" is said only of runs that have stopped, their children included; the turn that was stopped is over; a retried stop ends |
| `projection` | 2 messages, the first naming a source twice and an artifact, the second competing for the source; 2 tries, 1 fault | posts appear in order of arrival; a source is attached once and kept while it is needed; a post is announced once; every message settles |
| `claim_ownership`, `claim_gaps` | the same instances | counterexamples, section 5 |

Why these bounds are enough to be of use.  Grouping, regrouping and overtaking need two
posts; a lost answer, a crash and a late request need one fault each, and the claim after it
is the second attempt; a retry and an out-of-order answer of Stop Robot need two stops; a
stale event needs one slot on the stream; with two tokens a late request and a new claim
exist side by side.  Contention for a session needs two clients, and a lease of two ticks can
be renewed before it ends.  Fork, clone and compaction each have their own operation so that
all pairs meet at one source; the second fault hits the recovery from the first.  A second
deployment meets what the first one left, whichever way it ended.  A result can be replaced
once while two passes and the operator hold it, and each then has a name in custody of its own.  A
nested run is launched behind a scan of its launcher.  Two messages that name a common source
compete for it.  The theorems of section 4 remove the bounds from every safety property of
these runs.

Fairness.  `admission`: the lease timer fires and `finishAcquire` returns (its wait has a
timeout).  `settling`: the two-second scan claims what is due, timers run out, the worker's
exchange is served, answered or given up (every HTTP call has a deadline), orphaned requests
leave the network, the reconciliation pass returns, startup completes; no fork, clone or
compaction need end and no automatic run write.  `deployment`: a script
that is alive goes on, its curl calls end, the forum's lease and agentd's auto-cancel timers
fire; robot work need not end.  `subagent_results`: a pass that was started goes on, and
the parent is opened or ends a turn again, which settles again (the promise is about "the
next explicit session open", docs/subagents.md).  `subagent_stop`: the forum reconciles an unresolved stop
again and again and an attempt has a deadline; an aborted turn ends; a launcher that has
registered a run spawns it, a runner obeys the stop request it finds and a finished runner
exits; nothing is assumed of a run that was not asked to stop.  `projection`: the two-second
timer and the startup recovery run, leases and back-offs run out, a pass goes on and a
callback ends.  Otherwise nothing is assumed of users, of crashes, or of what a peer
answers.

## 4. Proofs

Every invariant and every action property that a passing run checks is also a theorem, for
every value of the constants, and so is the refinement of `DispatchDelivery`.  Each proof
module defines an inductive invariant as a conjunction of named parts, shows that `Init`
implies it and that each action preserves it (one lemma per action or group of actions), and
derives the properties from it.  TLC checked each inductive invariant on the instances of
section 3, or on slightly larger ones, before it was proved.

### DeploymentAdmissionProofs

For any sets of operations and works and any bounds, `IInv` is inductive (`Invariance`) and
gives `TypeCorrect`, `FenceIsQuiescent` (`AcquiredMeansQuiescent`), `CounterExact`
(`CounterIsExact`), `NoResurrection` (`OwnerIsUnanswered`), `FenceIsManned`
(`FenceIsAttended`: `PreparationHasWaiter` and `PausedOnlyForOwner`) and the action property
`FenceSurvives` (`HeldFenceSurvives`).

The strengthening is needed because quiescence is not inductive alone: that nothing is
running when the fence is acquired depends on the count being the number of holders and on
the sync worker being paused for the whole preparation.

### PostDispatchProofs

For any numbers of posts, stops, faults, events and tokens:

| Theorem | Property | Invariant and argument |
|---|---|---|
| `TypeCorrect` | `TypeOK` | `TypeInv`: the generation is below the first unused stop, and a busy worker has a post and a token |
| `AtMostOnce`, `FenceHolds` | `AcceptedOnce`, `NothingBehindFence` | `FenceInv`, by what `BranchMove` says can happen to the branch and that the fence of an ordered branch is its last generation (`FenceIsLast`) |
| `Refinement` | `DeliveryRefined` | every branch move is a delivery, a stop or a stutter of `DispatchDelivery` |
| `FinalityOfRows` | `SettledIsFinal` | `RowMove`: all that a step can do to a row |
| `DispatchedMeansAccepted` | `DispatchedWasAccepted` | `DeliveryInv`: a request with the worker's token carries the worker's post, and a positive answer is about an accepted identity |
| `GenerationsAgree` | `GenerationsMatch`: `ActiveIsCurrent` and `FenceNotAhead` | `GenerationInv`: no row, request or stop is of a later generation than the topic's |
| `StoppedMeansFenced` | `StoppedIsFenced` | `EvidenceInv`: recorded cancellations, "stopped" answers, interruptions on the stream and reconciliations are all of generations the fence has reached; what is shown without such evidence is the answer of a stop that asked nobody (`StopWasUnasked`), until the next stop |
| `RetriesKeepPosts` | `RetryKeepsPosts` | by the actions |
| `GroupsUniform` | `GroupsAreUniform` | only a claim gathers contributors, and what it may gather is settled by fields of the rows that never change |

### SessionOwnershipProofs

For any number of interactive processes, any durations and any number of grants and faults:
`TypeCorrect` and `ProtectedAlone` (`ProtectedIsAlone`).  Agentd's record and the clients'
capabilities are tied together by tokens.  `OkCap` says of a capability that its token was
granted, that a token which is also agentd's is of this client, and that while it has time
left and its release was not asked for, agentd's record is the client's, has the same token
and lasts at least as long.  The last part is what `Tick` needs: agentd's side never runs
out first.  That a live record excludes a conversation is an invariant of its own, because a
takeover closes the conversation before it grants.

### BranchOperationsProofs

For any sets of forks, clones and compactions of one source and any number of faults:

| Theorem | Property | Argument |
|---|---|---|
| `OneChild` | `OneChildPerOperation` | a run creates a child only where the search under the mutex found none (`RunInv`), and a child's operation has a record from then on (`KidsInv`) |
| `ChildAccepted` | `ChildIsTheAccepted` | the fence keeps the source at the accepted leaf (`RecordInv`), so a child is made there whenever it is made |
| `Quarantined` | `QuarantinedUntilAcknowledged` | `RowInv`: each step of the service's worker leaves its trace on disk before the next |
| `CompactsOnce` | `CompactedOnce` | a compaction runs with the source to itself (`SourceInv`) at the accepted leaf, and moves it (`CompactedInv`) |
| `FailedForkIsFree` | `FailedForkLeavesNoFence` | `FailingStep`: a row that has failed keeps its record, since no run is left of it (`RunInv`), and only a refused open or an answer makes one fail; each definitive one says that the record holds nothing, except the 404 |
| `SourceIsStill` | `FencedSourceIsStill` | by the actions, with `SourceInv` |

### DeploymentProofs

For any number of runs of the script, of works and of faults.  A step of a deployment is a
step of the coordinator, leaves it alone, or replaces a container; the coordinator's `IInv`
is therefore kept by `NextIInv`, except by the replacements and crashes, which have lemmas of
their own (`CutOffInv`, `NewForumInv`).  On top of it `DeployInv` has `Way` (what one script
records of its own way), `Fenced` (a script that was told yes owns a fence whose lease is not
over), `DrainInv` (whenever agentd drains, or has a drain on record, some run owes a
cancellation or is past its trap) and `AloneInv`.  Another run's step is `Foreign`: it takes
no fence that is not overdue and grants none.

`DeployTypeCorrect`, `ReplacedBehindFence` (`ReplacedUnderFence`) and `DoneLeavesOpen`
(`DoneIsOpen`) hold whether runs overlap or not.  `CutsNothingOff` (`NothingIsCutOff`) and
`ReplacementDrained` (`ReplacementIsDrained`) have the hypothesis `~Overlap`: two overlapping
runs can cancel each other's drain (section 5, `DrainIsALock`), and then a local lease may
begin under a replacement.  With one run at a time nobody ends the drain between the probe
and the replacement (`AloneInv`), and the timer does not run out in that stretch.

### SubagentResultsProofs

For any number of settlements, results and custody names and any number of crashes:
`TypeCorrect`, `RemovedAfterAck` (`RemovedWasAcknowledged`), `AckTrusted` (`AckIsTrusted`),
`LogsLast` (`LogsOutliveResult`).  There is no lock, so each part of the invariant is about
one task against all that the others may do: what it is about to record is a published result
(`RecordsResult`), what it removes is what the acknowledgement names (`RemovesAcknowledged`),
what it has verified under its custody name stays that (`HoldsVerified`), an operator's
request removes only what it has copied (`CopyIsRetained`), and a file that was put back is
still reachable by another name when its custody name goes (`RestoredIsReachable`).

### SubagentStopProofs

For any tree of runs, any number of turns and of faults: `TypeCorrect`, `Stopped`
(`StoppedIsStopped`), `TurnStopped` (`StoppedTurnIsOver`).  The scans are not atomic, so the
argument is about what cannot change back: a run that was read inactive stays inactive and
its result stays as it is (`Found`).  The confirming scan begins only when all runs the stop
began with are dead and their results marked (`Settled`); dead runs launch nothing, so its
listing contains all they ever launched, and whatever of those is alive makes it start again.
`AbortInv` carries the abort of the turn: it is over, or an abort that timed out is on record,
or the attempt that holds the mutex knows of it.

### AssistantProjectionProofs

For any messages with any references, and any number of crashes and failing callbacks:
`TypeCorrect`, `ArrivalOrder` (`PostsInArrivalOrder`), `OneAttachment` (`AttachedOnce`),
`CustodyKept` (`LinkedKeepsCustody`), `AnnouncedOnce` (`NotifiedOnce`).  `HandInv` says that a
linked handoff owns its source and that the source is there until publication, which neither
a competing handoff nor the expiry of pending attachments can undo.  `CompletionInv` counts a
callback that is still owed together with those already begun: a crash turns one into the
other, and pays with a fault.

### Assumptions

The bounds are natural numbers (where the code needs one, positive), there is an origin, the
"no" values are not values, dispatch ids are the posts, the sets of operations of one kind are
disjoint: `WorksFinite`, `BoundsAreNat`, `NoOpIsNotAnOp`, `OutboxBounds`, `OriginsExist`,
`NoTokenIsNone`, `NoDispatchIsNone`, `DispatchBounds`, `SoloIsBoolean`, `ExternalAreOrigins`, `FeaturesAreKnown`, `StartsAreKnown`,
`DispatchesArePosts`, `OwnershipConstants`, `BranchConstants`, `DeploymentConstants`,
`ResultConstants`, `StopConstants`, `ProjectionConstants`.

One assumption is about a computation: `HandoffsAreKeyed`, that no two handoffs of a message
are of one source.  For pending attachments this is what `Dedupe` computes, a fold over the
message's references, and what a fold computes for every input needs an induction that the
provers here do not have.  TLC evaluates the assumption on the instances of `projection`, and
`MCAssistantProjection` checks the fold on all lists of up to three references.  For artifacts
it holds because each is staged as a pending attachment of its own.

### Only model-checked

The liveness properties (`OwnershipEnds`, `PostsSettle`, `DrainEnds`, `FollowUpSettles`,
`StopEnds`, `MessagesSettle`), which are out of the prover's reach, and what `Dedupe` returns.
The `TypeOK` of a module other than `DeploymentAdmission` is proved and is not part of a run.

## 5. Where documentation and code disagree

Two are runs; `PROJECT.json` quotes the text.

- `claim_ownership` (`ProtectedKeepsAgentdOut`): a client that prepares the session it has
  already prepared is given the same lease again, and the release of the earlier preparation
  (`00-session-ownership.ts:156`) takes it away; agentd opens the session the client believes
  protected.
- `claim_gaps` (`GapsDoNotBlock`): a projection one of whose attachments went to manual review
  is turned back to failed by the failure of another one (`store.ts:5936`); it is then never
  finalized, and the later messages of the session wait for it.

The others are stated in the modules with the sentence they come from; TLC refutes each on the
instance named, with a short counterexample.

| Statement | Says | What the code does |
|---|---|---|
| `PostDispatchClaims!AcceptedKeepsIdentity` | docs/forum.md:290-292, an accepted identity survives | a dispatch whose answer was lost is absorbed by a later post of the same origin and delivered again under that post's identity (`store.ts:4114`); 2 posts |
| `PostDispatchClaims!ContributorsKept` | docs/forum.md:281-284, absorbed posts stay contributors | when a retried trigger is absorbed in turn, what it had gathered belongs to no surviving row (`store.ts:4099`); 3 posts |
| `PostDispatchClaims!StopFencesDelayed` | `echsBridge.ts:1201-1202`, a stop fences what is delayed | a stop during the creation of the first conversation is reported "stopped" and the old dispatch is accepted afterwards (`echsBridge.ts:1990`) |
| `PostDispatchClaims!StoppedIsShownFenced` | docs/redeployment.md:19, dispatch is fenced before the cancellation, and "stopped" is proven | a topic that has robot state and no session (a failed handoff, `forumRoutes.ts:821`, or an automatic run, `autoRunDirector.ts:482`) shows "stopped", and nothing is fenced (`echsBridge.ts:1218-1229, 1260-1261`) |
| `PostDispatchClaims!UnresolvedStopHolds` | `postDispatchService.ts:126-127`, an unresolved stop holds dispatch back | on a topic without robot state it leaves no trace, and the next post is claimed (`store.ts:4411`) |
| `PostDispatchClaims!NotAcceptedIsTrue` | docs/forum.md:145-146, only an unaccepted dispatch fails | a refusal that precedes the duplicate check calls an accepted dispatch "not accepted" (`server.mjs:2873`) |
| `BranchOperations!FreeTopicIsFree` | docs/forum.md:203-206, an unprovable outcome stays visible and keeps the source fenced | `definitive` (`cloneService.ts:27-34`) does not know the fork codes with which agentd refuses to reopen a fenced source: a clone whose child exists is reported failed, and the topic is free at the forum and fenced at agentd; a fork comes to the same by the 404 of a conversation that agentd lost between the service's two requests (`server.mjs:2720-2724`, `forkService.ts:30-37`) |
| `BranchOperations!ForkSettles` (under `FairSpec`) | agentd's README, crash recovery adopts the child or asks the operator | after agentd's restart a fork's own fence refuses to open its source (`server.mjs:1417`), and the fork is requeued without end |
| `Deployment!DrainIsALock` (with `Overlap = TRUE`) | docs/autodeploy.md:98, the drain is the deploy lock | the drain has no owner; of two overlapping runs one cancels the other's (`deploy-if-safe:413-415`) |
| `SubagentResults!AwaitedSettles` | docs/subagents.md | an awaited result that was in custody when agentd died cannot be verified against its claim again |
| `SubagentResults!NewerResultIsPreserved` | docs/subagents.md | a result that replaced the claimed one before the acknowledgement is acknowledged and removed in its place |
| `SubagentStop!StoppedIsProven` | docs/subagents.md:147 | the confirming scan is outside the try block (`subagent-cancellation.mjs:156`): when it fails, the abort error is never recorded, and a reconciliation says "stopped" of a running turn |
| `SubagentStop!BoundaryIsClosed` | `server.mjs:544-545` | a finished subagent wakes the parent between its abort and the marker |

Observed while modelling, without a definition: a head retried by hand stays pending while a
later row whose claim died is claimed again and sent, although docs/forum.md:145 says that a
delayed head cannot be bypassed (`store.ts:4103`).

## 6. Not modelled

By size most of the repository is presentation and declaration: the Vue application, routes,
contracts and schemas, migrations, channel adapters, the SDK and CLI, rendering, search,
analytics and authentication.  They keep no protocol state of their own, and a model of them
would restate them.  The modules cover the code in which processes have to agree, and of that:

- dispatch: the scan across topics with its limit of twenty and its `running` flag, the choice
  between steering and queueing, message content and the catch-up cursor, the turn queue that
  is not durable and the messages that bypass the outbox with it, the recreation of a
  conversation lost by an older version, the message handler's lookup of its conversation
  before the mutex;
- ownership: a stale handler on a closed conversation, the admission barrier across sessions;
- branch operations: the creation ledger, the posts copied into a clone and which posts are a
  boundary, subagent follow-ups, the operator's decision on a review, the cleanup of day-old
  staging directories;
- deployment: git, the release channel, pulling and pruning of images, what is in a backup,
  the fallback for a forum without the admission route, agentd's shutdown deadline;
- subagents: quarantine, attestation of effects, pruning, the audit files; a chain of nested
  runs that dies without a result may escape both scans of a stop, and only one level of
  nesting is instantiated;
- projection: the reuse of earlier message links, topic deletion, the text of a post (persona,
  speech), the service's `stop()`;
- automatic runs beyond their admission and their writes of the robot state, the memory store, forum shutdown and SSE, the
  idempotency store, webhooks and the event store.

Hazards that were seen and that no property covers, besides those of section 5:

- a fence acquired during shutdown is granted (`deploymentAdmissionCoordinator.ts:72`; no work
  is admitted either way), and only a hundred answers are remembered (line 253);
- twenty heads that cannot go fill every scan (`store.ts:4018`), and one dispatch that hangs
  holds back every topic until its HTTP timeout (`postDispatchService.ts:102`);
- the reaper does not look again after it has waited for the mutex (`server.mjs:3102`; the
  step is in `PostDispatch`);
- a takeover waits up to thirty seconds under a barrier that every claim of every session and
  the drain pass (`server.mjs:1392`);
- the automatic cancel removes the durable drain record without waiting (`server.mjs:348`);
- the periodic pass awaits completion callbacks (`attachmentHandoffService.ts:119`);
- an automatic run overwrites the robot state, so that an unresolved stop is forgotten
  (`autoRunDirector.ts:491`; the step is in `PostDispatch`), writes back a count and a flag read before its awaits (line
  254), and stays "running" if the forum dies within it (line 155).

## 7. Plan

1. Proofs: what makes the liveness properties hold, as safety.  For each of them, that a
   pending state has an enabled step which a fair process owns and that no other step undoes
   the progress made (`PreparationHasWaiter` is such a statement for the fence); of
   `BranchOperations` the same for clones.
2. Proofs: `DispatchFence` and `PostOutbox` operators as lemmas of their own, where
   `PostDispatchProofs` repeats an argument.
3. `SessionLedger`: the creation ledger; `PostDispatch` then takes the promise it assumes from
   there.
4. `DispatchScan`: several topics, the limit of twenty heads, the `running` flag; fairness
   between topics.
5. `AutoRun`: the director's counters and flags around its awaits.
6. Forum shutdown and SSE.
