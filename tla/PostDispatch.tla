----------------------------- MODULE PostDispatch -----------------------------
(***************************************************************************)
(* One topic's durable dispatch from the forum to agentd, with Stop Robot: *)
(* the dispatch service (postDispatchService.ts) and the bridge            *)
(* (echsBridge.ts) in the forum process, its database, the HTTP calls that *)
(* can be lost or late, and agentd's message and cancellation handlers     *)
(* (server.mjs) over the durable fence of the canonical session.           *)
(*                                                                         *)
(* agentd runs both handlers under one per-session mutex, so each is one   *)
(* step here.  The forum's JavaScript is atomic between awaits: each       *)
(* action below is one such stretch.                                       *)
(***************************************************************************)
EXTENDS PostOutbox, DispatchFence

CONSTANTS
    SoloChoices,    \* a new post may be solo or not: BOOLEAN, or {FALSE} to leave it out
    External,       \* the origins that are Discord or Matrix: their posts pass a branch fence
    Features,       \* what else may happen to the topic, of TopicFeatures
    Starts,         \* how the topic may have come about, of TopicStarts
    MaxStops,       \* bound: calls of Stop Robot
    MaxFaults,      \* bound: crashes, lost HTTP exchanges, refusals while draining
    MaxEvents       \* bound: events on the stream that the forum has not read

ASSUME DispatchBounds == MaxStops \in Nat /\ MaxFaults \in Nat /\ MaxEvents \in Nat
ASSUME SoloIsBoolean == SoloChoices \subseteq BOOLEAN
ASSUME ExternalAreOrigins == External \subseteq Origins

\* The topic may be forked, cloned and compacted; run automatically; closed.
TopicFeatures == {"branching", "autoRun", "closing"}
ASSUME FeaturesAreKnown == Features \subseteq TopicFeatures

\* A new topic has neither session nor robot state; one imported from Pi has a
\* session; one made by fork or clone has a session and an idle robot; one
\* whose handoff failed before it had a session has an idle robot only.
TopicStarts == {"new", "imported", "cloned", "handoff"}
ASSUME StartsAreKnown == Starts \subseteq TopicStarts
ASSUME DispatchesArePosts == Dispatches = Posts /\ NoDispatch = 0

VARIABLES
    \* forum database
    rows,       \* the outbox
    gen,        \* post_dispatch_generations.generation
    activity,   \* robot_state.activity; "none": the topic has no robot_state yet
    link,       \* the topic has a pi_session_link
    thread,     \* the session has an agent_thread_id
    held,       \* a compaction is active, or a fork or clone unfinished or in manual review
    checkpoints,\* the posts that are recovery checkpoints of a compaction
    \* forum process
    up,         \* startup reconciliation is over
    worker,     \* the topic's dispatch in progress
    stops,      \* the calls of interruptTopic
    recon,      \* the cancellation reconciliation pass
    closing,    \* a call of closeTopic: "no", "asked" or "closed"
    \* between the processes
    reqs,       \* message requests on their way to agentd
    evts,       \* stream events on their way to the forum
    faults,
    \* agentd
    loaded,     \* the conversation is loaded
    turn,       \* the robot is executing an accepted dispatch
    branch,     \* the fence entries of the canonical session
    canc        \* the durable cancellation operation of each generation

freeze  == <<held, checkpoints>>
forumDb == <<rows, gen, activity, link, thread, freeze>>
process == <<up, worker, stops, recon, closing>>
network == <<reqs, evts, faults>>
agentd  == <<loaded, turn, branch, canc>>
vars    == <<forumDb, process, network, agentd>>

-----------------------------------------------------------------------------

Generations == 0..MaxStops
Unresolved == {"stopping", "uncertain"}
Cancelled == Unresolved \cup {"stopped"}
Activities == Cancelled \cup {"none", "idle", "thinking"}
Replies == {"none", "accepted", "handled", "duplicate", "refused", "refusedSafe"}

NoWorker == [pc |-> "idle", post |-> 0, token |-> NoToken, wasActive |-> FALSE, reply |-> "none"]

Worker == [pc : {"idle", "opening", "opened", "ready", "sent", "answered"},
           post : Posts \cup {0}, token : Tokens \cup {NoToken}, wasActive : BOOLEAN,
           reply : Replies]

Opening(p, token) ==
    [pc |-> "opening", post |-> p, token |-> token, wasActive |-> FALSE, reply |-> "none"]

Request == [post : Posts, generation : Nat, token : Tokens]

(***************************************************************************)
(* A call of interruptTopic: sent, answered and done are its normal life;  *)
(* unasked is one that had nobody to ask and whose answer was made up.     *)
(* An orphan is a request whose caller is gone and that agentd may still   *)
(* serve; a lost one died with agentd and its caller has yet to learn it.  *)
(***************************************************************************)
Stop == [st : {"unused", "sent", "answered", "orphan", "lost", "done", "unasked"},
         generation : Generations, state : Cancelled \cup {"none"}]

Recon == [st : {"idle", "due", "asked", "answered"}, observed : Generations,
          generation : Generations, state : Cancelled \cup {"none"}]

NoRecon == [st |-> "idle", observed |-> 0, generation |-> 0, state |-> "none"]

Event == [kind : {"busy", "completed", "error", "interrupted"}, generation : Generations,
          state : Cancelled \cup {"none"}]

Stops == 1..MaxStops

\* setRobotActivity does nothing for a topic without robot state.
setRobotActivity(a, new) == IF a = "none" THEN a ELSE new

\* An observation of an idle robot leaves a cancellation's state alone.
Quieted(a) == IF a \in Cancelled THEN a ELSE setRobotActivity(a, "idle")

TurnEvent(kind) == [kind |-> kind, generation |-> 0, state |-> "none"]

CanEmit == loaded /\ Len(evts) < MaxEvents

\* The stream of a loaded conversation; beyond the bound it has broken off.
Emitted(e) == IF CanEmit THEN Append(evts, e) ELSE evts

Init ==
    /\ rows = [p \in Posts |-> NoRow] /\ gen = 0
    /\ \E s \in Starts :
        /\ activity = IF s \in {"cloned", "handoff"} THEN "idle" ELSE "none"
        /\ link = (s \in {"imported", "cloned"})
        /\ held \in {FALSE, "branching" \in Features /\ s = "cloned"}    \* a clone's child waits for its operation
    /\ thread = FALSE /\ checkpoints = {}
    /\ up = TRUE /\ worker = NoWorker
    /\ stops = [c \in Stops |-> [st |-> "unused", generation |-> 0, state |-> "none"]]
    /\ recon = NoRecon
    /\ closing = "no"
    /\ reqs = {} /\ evts = <<>> /\ faults = 0
    /\ loaded = FALSE /\ turn = FALSE /\ branch = <<>>
    /\ canc = [g \in Generations |-> "none"]

-----------------------------------------------------------------------------
(* The outbox. *)

\* A checkpoint that is still to be delivered keeps the topic fenced after its
\* compaction.
hasCompactionFence ==
    held \/ \E p \in checkpoints : Active(rows[p]) /\ rows[p].generation = gen

IsNextPost(p) == rows[p].status = "none" /\ \A q \in 1..(p-1) : rows[q].status # "none"

\* The routes refuse a post behind the fence; one from Discord or Matrix, which
\* never stands alone, is queued.
CreatePost(p, origin, solo) ==
    /\ up /\ IsNextPost(p)
    /\ hasCompactionFence => origin \in External /\ ~solo
    /\ rows' = createPostDispatch(rows, gen, p, origin, solo)
    /\ UNCHANGED <<gen, activity, link, thread, freeze, process, network, agentd>>

\* The author or an admin retries a terminal failure; retryCheckpoint does not
\* look at the fence.
RetryFailed(p) ==
    /\ up
    /\ rows[p].status = "failed"
    /\ p \in checkpoints \/ ~hasCompactionFence
    /\ rows' = retryTerminalPostDispatch(rows, gen, p)
    /\ UNCHANGED <<gen, activity, link, thread, freeze, process, network, agentd>>

\* Mutant: a claim that died with its process is never stale.
Ripen_PendingOnly(p) ==
    /\ rows[p].status = "pending" /\ ~rows[p].ripe
    /\ rows' = [rows EXCEPT ![p].ripe = TRUE]
    /\ UNCHANGED <<gen, activity, link, thread, freeze, process, network, agentd>>

\* A retry delay or the staleness limit of a claim runs out.
Ripen(p) ==
    /\ Active(rows[p]) /\ ~rows[p].ripe
    /\ rows' = [rows EXCEPT ![p].ripe = TRUE]
    /\ UNCHANGED <<gen, activity, link, thread, freeze, process, network, agentd>>

\* The recovery checkpoints that are not waiting for their next attempt.
DueCheckpoints ==
    {p \in checkpoints \cap pendingForTopic(rows, gen) :
        rows[p].status = "dispatching" \/ rows[p].ripe}

\* A due checkpoint goes before the queue; without one the fence holds it.
Eligible ==
    CASE DueCheckpoints # {} -> DueCheckpoints
      [] DueCheckpoints = {} /\ hasCompactionFence -> {}
      [] OTHER -> pendingForTopic(rows, gen)

\* processDue: no dispatch of the topic is in progress, and the first of those
\* that may go is due or stale.
Selected(head) ==
    /\ up /\ worker.pc = "idle"
    /\ head \in Eligible /\ \A p \in Eligible : head <= p
    /\ rows[head].ripe

\* dispatch finds the post deleted, or the topic locked or archived.
AbandonHead(head) ==
    /\ Selected(head)
    /\ rows' = markPostDispatchAbandoned(rows, gen, head)
    /\ UNCHANGED <<gen, activity, link, thread, freeze, process, network, agentd>>

\* The next random UUID: one that no row and no request carries.
FreshTokens == Tokens \ ({rows[p].token : p \in Posts} \cup {r.token : r \in reqs})

\* No conversation exists and this dispatch is the topic's only one ever.
isPristineConversationCreation(p) ==
    ~thread /\ \A q \in Posts \ {p} : rows[q].status = "none"

\* The last post of a group.
IsTrigger(group, p) == p \in group /\ \A q \in group : q <= p

CanReachSession(p) == thread \/ link \/ isPristineConversationCreation(p)

\* dispatch claims the head's group and enters dispatchUserMessage.  Without a
\* session, an "established or ambiguous history requires manual recovery".
Claim(head) ==
    /\ Selected(head)
    /\ activity \notin Unresolved
    /\ FreshTokens # {}
    /\ \E trigger \in Posts :
        /\ IsTrigger(Group(rows, gen, head), trigger)
        /\ LET token == CHOOSE t \in FreshTokens : TRUE
               claimed == claimPostDispatchGroup(rows, Group(rows, gen, head), trigger, token)
           IN  \/ /\ CanReachSession(trigger)
                  /\ rows' = claimed
                  /\ worker' = Opening(trigger, token)
               \/ /\ ~CanReachSession(trigger)
                  /\ rows' = markPostDispatchFailed(claimed, gen, trigger, token,
                                                    retryAtForAttempt(claimed[trigger]))
                  /\ worker' = NoWorker
    /\ UNCHANGED <<gen, activity, link, thread, freeze, up, stops, recon, closing, network, agentd>>

-----------------------------------------------------------------------------
(* What else freezes the queue or writes the robot's activity.             *)

\* A fork, a clone or a compaction is accepted: the topic is at rest.
AcceptOperation ==
    /\ "branching" \in Features /\ up /\ link
    /\ activity \in {"idle", "stopped"}
    /\ pendingForTopic(rows, gen) = {} /\ ~hasCompactionFence
    /\ held' = TRUE
    /\ UNCHANGED <<rows, gen, activity, link, thread, checkpoints, process, network, agentd>>

\* It is completed or fails definitively.  One that is left to manual review or
\* is requeued again and again does not end.
OperationEnds ==
    /\ up /\ held
    /\ held' = FALSE
    /\ UNCHANGED <<rows, gen, activity, link, thread, checkpoints, process, network, agentd>>

\* A compaction's success and its recovery post are one transaction; a
\* checkpoint is dispatched alone.
finishCompactionSuccess(p) ==
    /\ up /\ held /\ IsNextPost(p)
    /\ \E origin \in Origins \ External : rows' = createPostDispatch(rows, gen, p, origin, TRUE)
    /\ held' = FALSE /\ checkpoints' = checkpoints \cup {p}
    /\ UNCHANGED <<gen, activity, link, thread, process, network, agentd>>

\* The automatic run's Director has a conversation of its own.  After its
\* awaits it declares the topic's robot running, at its end idle, and its reply
\* may be queued ("waiting", which nothing here tells from "idle"): whatever the
\* activity has become meanwhile.  Where in its run it is, is left open.
DirectorWrites ==
    /\ "autoRun" \in Features /\ up
    /\ activity' \in {"thinking", "idle"}
    /\ UNCHANGED <<rows, gen, link, thread, freeze, process, network, agentd>>

-----------------------------------------------------------------------------
(* dispatchUserMessage: reach the conversation, then send. *)

\* The thread the session remembers is not loaded any more (cleanupDeadThread).
OpenDead ==
    /\ worker.pc = "opening" /\ thread /\ ~loaded
    /\ thread' = FALSE
    /\ activity' = Quieted(activity)
    /\ UNCHANGED <<rows, gen, link, freeze, process, network, agentd>>

OpenLoaded ==
    /\ worker.pc = "opening" /\ thread /\ loaded
    /\ worker' = [worker EXCEPT !.pc = "ready", !.wasActive = turn]
    /\ UNCHANGED <<forumDb, up, stops, recon, closing, network, agentd>>

\* agentd opens the linked session, or creates it (again under the same
\* creation id, the dispatch id, after a lost answer).
OpenSession ==
    /\ worker.pc = "opening" /\ ~thread
    /\ loaded' = TRUE
    /\ worker' = [worker EXCEPT !.pc = "opened"]
    /\ UNCHANGED <<forumDb, up, stops, recon, closing, network, turn, branch, canc>>

LinkSession ==
    /\ worker.pc = "opened" /\ (link \/ loaded)
    /\ link' = TRUE /\ thread' = TRUE
    /\ worker' = [worker EXCEPT !.pc = "ready"]
    /\ UNCHANGED <<rows, gen, activity, freeze, up, stops, recon, closing, network, agentd>>

\* agentd refuses to open: a CLI owns the session, its branch is in conflict,
\* or agentd drains.
OpenRefused ==
    /\ worker.pc = "opening" /\ ~thread
    /\ \/ worker' = [worker EXCEPT !.pc = "answered", !.reply = "refused"] /\ faults' = faults
       \/ /\ faults < MaxFaults /\ faults' = faults + 1
          /\ worker' = [worker EXCEPT !.pc = "answered", !.reply = "refusedSafe"]
    /\ UNCHANGED <<forumDb, up, stops, recon, closing, reqs, evts, agentd>>

\* assertRobotDispatchAllowed once more, then POST .../messages.
Send ==
    /\ worker.pc = "ready" /\ activity \notin Unresolved
    /\ reqs' = reqs \cup {[post |-> worker.post, generation |-> rows[worker.post].generation,
                           token |-> worker.token]}
    /\ worker' = [worker EXCEPT !.pc = "sent"]
    /\ UNCHANGED <<forumDb, up, stops, recon, closing, evts, faults, agentd>>

\* An ordinary error: bounded attempts.
ApplicationFailure ==
    /\ worker.pc \in {"opening", "opened", "ready"}
    /\ rows' = markPostDispatchFailed(rows, gen, worker.post, worker.token,
                                      retryAtForAttempt(rows[worker.post]))
    /\ worker' = NoWorker
    /\ UNCHANGED <<gen, activity, link, thread, freeze, up, stops, recon, closing, network, agentd>>

\* The exchange times out or breaks; agentd may have served it, or may yet.
TransportFailure ==
    /\ \/ /\ worker.pc \in {"opening", "opened", "sent", "answered"}
          /\ faults < MaxFaults /\ faults' = faults + 1
       \/ \* the request died with agentd
          /\ worker.pc = "sent" /\ \A r \in reqs : r.token # worker.token
          /\ faults' = faults
    /\ rows' = markPostDispatchFailed(rows, gen, worker.post, worker.token, TRUE)
    /\ worker' = NoWorker
    /\ UNCHANGED <<gen, activity, link, thread, freeze, up, stops, recon, closing, reqs, evts, agentd>>

-----------------------------------------------------------------------------
(* agentd's message handler. *)

Answer(r, reply) ==
    /\ reqs' = reqs \ {r}
    /\ worker' = IF worker.pc = "sent" /\ worker.token = r.token
                 THEN [worker EXCEPT !.pc = "answered", !.reply = reply] ELSE worker

\* Not loaded, being taken over, owned by a CLI, in branch conflict, or the
\* preparation fails; while draining the identity may be retried.
MessageRefused(r) ==
    /\ \/ Answer(r, "refused") /\ faults' = faults
       \/ /\ loaded /\ faults < MaxFaults /\ faults' = faults + 1
          /\ Answer(r, "refusedSafe")
    /\ UNCHANGED <<forumDb, up, stops, recon, closing, evts, agentd>>

MessageNotReady(r) ==
    /\ loaded
    /\ \/ inspectDispatch(branch, r.post, r.generation) = "duplicate" /\ Answer(r, "duplicate")
       \/ inspectDispatch(branch, r.post, r.generation) = "stale" /\ Answer(r, "refused")
    /\ UNCHANGED <<forumDb, up, stops, recon, closing, evts, faults, agentd>>

\* The preflight appends the acceptance before the prompt runs.  A handled
\* input starts no turn.
MessageAccepted(r) ==
    /\ loaded
    /\ inspectDispatch(branch, r.post, r.generation) = "ready"
    /\ branch' = acceptDispatch(branch, r.post, r.generation)
    /\ \/ Answer(r, "accepted") /\ turn' = TRUE
       \/ Answer(r, "handled") /\ turn' = turn
    /\ UNCHANGED <<forumDb, up, stops, recon, closing, evts, faults, loaded, canc>>

\* A request whose caller has given up need not arrive at all.
RequestLost(r) ==
    /\ worker.token # r.token
    /\ reqs' = reqs \ {r}
    /\ UNCHANGED <<forumDb, process, evts, faults, agentd>>

-----------------------------------------------------------------------------
(* The answer reaches the worker. *)

\* Mutant: a refusal that may be retried counts as delivery.
DispatchSettled_AnyAnswer ==
    /\ worker.pc = "answered" /\ worker.reply # "refused"
    /\ rows' = markPostDispatchDispatched(rows, gen, worker.post, worker.token)
    /\ worker' = NoWorker
    /\ UNCHANGED <<gen, activity, link, thread, freeze, up, stops, recon, closing, network, agentd>>

\* The accepted dispatch publishes activity only for its own generation, and
\* leaves it to the stream when it joined a conversation at work.
DispatchSettled ==
    /\ worker.pc = "answered" /\ worker.reply \in {"accepted", "handled", "duplicate"}
    /\ activity' = IF worker.reply = "accepted" /\ ~worker.wasActive
                        /\ rows[worker.post].generation = gen
                   THEN "thinking" ELSE activity
    /\ rows' = markPostDispatchDispatched(rows, gen, worker.post, worker.token)
    /\ worker' = NoWorker
    /\ UNCHANGED <<gen, link, thread, freeze, up, stops, recon, closing, network, agentd>>

\* Not accepted: terminal unless marked safe to retry.
DispatchRefused ==
    /\ worker.pc = "answered" /\ worker.reply \in {"refused", "refusedSafe"}
    /\ rows' = markPostDispatchFailed(rows, gen, worker.post, worker.token,
                                      worker.reply = "refusedSafe")
    /\ worker' = NoWorker
    /\ UNCHANGED <<gen, activity, link, thread, freeze, up, stops, recon, closing, network, agentd>>

-----------------------------------------------------------------------------
(* Stop Robot. *)

NextStop(c) == stops[c].st = "unused" /\ \A d \in 1..(c-1) : stops[d].st # "unused"

\* Mutant: a retry of an unresolved stop advances the generation again.
FenceForStop_AlwaysNew == [generation |-> gen + 1, rows |-> supersedeActive(rows)]

\* A retry of an unresolved stop keeps its generation.
FenceForStop ==
    IF activity \in Unresolved THEN [generation |-> gen, rows |-> rows]
    ELSE [generation |-> gen + 1, rows |-> supersedeActive(rows)]

\* interruptTopic up to its await, for a topic with a canonical session.  The
\* route refuses it behind the fence, pauseActiveThreads does not.
StopLinked(c) ==
    /\ up /\ NextStop(c) /\ link
    /\ thread \/ ~hasCompactionFence
    /\ gen' = FenceForStop.generation
    /\ rows' = FenceForStop.rows
    /\ activity' = setRobotActivity(activity, "stopping")
    /\ stops' = [stops EXCEPT ![c] = [st |-> "sent", generation |-> gen', state |-> "none"]]
    /\ UNCHANGED <<link, thread, freeze, up, worker, recon, closing, network, agentd>>

\* Without a session there is nobody to ask: the answer is made up at once.
StopUnlinked(c) ==
    LET state == IF activity \in {"none", "idle", "stopped"} THEN "stopped" ELSE "uncertain"
    IN  /\ up /\ NextStop(c) /\ ~link /\ ~hasCompactionFence
        /\ gen' = FenceForStop.generation
        /\ rows' = FenceForStop.rows
        /\ activity' = setRobotActivity(activity, state)
        /\ stops' = [stops EXCEPT ![c] = [st |-> "unasked", generation |-> gen', state |-> state]]
        /\ UNCHANGED <<link, thread, freeze, up, worker, recon, closing, network, agentd>>

\* The call returns to its caller, if that still waits.
Served(stop, state) ==
    [stop EXCEPT !.st = IF @ = "sent" THEN "answered" ELSE "done", !.state = state]

StopServed(c, state) == [stops EXCEPT ![c] = Served(@, state)]

\* interruptSession: advance the fence, abort the turn, settle the children,
\* record the operation, tell the stream.  Only an uncertain outcome may
\* leave the turn running.
AgentdStops(c, state) ==
    /\ stops[c].st \in {"sent", "orphan"}
    /\ stops[c].generation >= fenceGeneration(branch)
    /\ branch' = advanceDispatchFence(branch, stops[c].generation)
    /\ canc' = [canc EXCEPT ![stops[c].generation] = state]
    /\ turn' \in {FALSE, turn /\ state = "uncertain"}
    /\ stops' = StopServed(c, state)
    /\ evts' = Emitted([kind |-> "interrupted", generation |-> stops[c].generation,
                        state |-> state])
    /\ UNCHANGED <<forumDb, up, worker, recon, closing, reqs, faults, loaded>>

\* A stop behind the fence, or of a session that is being forked, is an error.
AgentdRefusesStop(c) ==
    /\ stops[c].st \in {"sent", "orphan"}
    /\ stops' = StopServed(c, "uncertain")
    /\ UNCHANGED <<forumDb, up, worker, recon, closing, network, agentd>>

\* Only the current generation may publish the result.
StopReturns(c) ==
    /\ stops[c].st = "answered"
    /\ activity' = IF stops[c].generation = gen THEN setRobotActivity(activity, stops[c].state)
                   ELSE activity
    /\ stops' = [stops EXCEPT ![c].st = "done"]
    /\ UNCHANGED <<rows, gen, link, thread, freeze, up, worker, recon, closing, network, agentd>>

GivenUp(stop) ==
    [stop EXCEPT !.st = IF @ = "sent" THEN "orphan" ELSE "done", !.state = "uncertain"]

\* The exchange fails: the stop is uncertain, and may still be served.
StopFails(c) ==
    /\ \/ stops[c].st = "lost" /\ faults' = faults
       \/ stops[c].st \in {"sent", "answered"} /\ faults < MaxFaults /\ faults' = faults + 1
    /\ activity' = IF stops[c].generation = gen THEN setRobotActivity(activity, "uncertain")
                   ELSE activity
    /\ stops' = [stops EXCEPT ![c] = GivenUp(@)]
    /\ UNCHANGED <<rows, gen, link, thread, freeze, up, worker, recon, closing, reqs, evts, agentd>>

-----------------------------------------------------------------------------
(* Reconciliation of an unresolved stop: single flight, every 30 seconds   *)
(* and once before the forum starts to dispatch.                           *)

ReconcileAsks ==
    /\ recon.st = "due" \/ (recon.st = "idle" /\ up)
    /\ link /\ activity \in Unresolved
    /\ recon' = [st |-> "asked", observed |-> gen, generation |-> 0, state |-> "none"]
    /\ UNCHANGED <<forumDb, up, worker, stops, closing, network, agentd>>

ReconcileHasNothing ==
    /\ recon.st = "due" /\ ~(link /\ activity \in Unresolved)
    /\ recon' = NoRecon
    /\ UNCHANGED <<forumDb, up, worker, stops, closing, network, agentd>>

\* latestForSession
Latest(g) == canc[g] # "none" /\ \A h \in Generations : canc[h] # "none" => h <= g

\* The GET executes the latest operation again; without one it is a 404.
AgentdReconciles(state) ==
    /\ recon.st = "asked"
    /\ \/ /\ \A g \in Generations : canc[g] = "none"
          /\ recon' = [recon EXCEPT !.st = "answered"]
          /\ UNCHANGED <<turn, canc>>
       \/ \E g \in Generations :
          /\ Latest(g)
          /\ recon' = [recon EXCEPT !.st = "answered", !.generation = g, !.state = state]
          /\ canc' = [canc EXCEPT ![g] = state]
          /\ turn' \in {turn, FALSE}
    /\ UNCHANGED <<forumDb, up, worker, stops, closing, network, loaded, branch>>

\* applyCancellationReconciliation
ApplyReconciliation(state) ==
    activity' = IF activity \in Unresolved /\ gen = recon.observed THEN state ELSE activity

ReconcileApplies ==
    /\ recon.st = "answered"
    /\ \/ /\ recon.state # "none" /\ recon.generation = recon.observed
          /\ ApplyReconciliation(recon.state)
       \/ /\ recon.state = "none" \/ recon.generation # recon.observed
          /\ activity' = activity
    /\ recon' = NoRecon
    /\ UNCHANGED <<rows, gen, link, thread, freeze, up, worker, stops, closing, network, agentd>>

ReconcileFails ==
    /\ recon.st \in {"asked", "answered"}
    /\ ApplyReconciliation("uncertain")
    /\ recon' = NoRecon
    /\ UNCHANGED <<rows, gen, link, thread, freeze, up, worker, stops, closing, network, agentd>>

-----------------------------------------------------------------------------
(* The robot's turn and its event stream. *)

\* turn_started, tool_started, tool_completed
EmitBusy ==
    /\ turn /\ CanEmit
    /\ evts' = Append(evts, TurnEvent("busy"))
    /\ UNCHANGED <<forumDb, process, reqs, faults, agentd>>

EmitTurnEnd ==
    /\ turn /\ CanEmit
    /\ turn' = FALSE
    /\ \/ evts' = Append(evts, TurnEvent("completed"))
       \/ evts' = Append(evts, TurnEvent("error"))
    /\ UNCHANGED <<forumDb, process, reqs, faults, loaded, branch, canc>>

\* What _processEvent makes of the robot's activity.  A completion that a
\* successor has overtaken is ignored.
ProcessEvent(e) ==
    \/ e.kind = "busy" /\ activity' = "thinking"
    \/ /\ e.kind = "completed"
       /\ activity' \in {activity, IF activity \in Cancelled THEN activity ELSE "idle"}
    \/ e.kind = "error" /\ activity' = setRobotActivity(activity, "idle")
    \/ e.kind = "interrupted" /\ activity' = IF e.generation = gen THEN e.state ELSE activity

\* The stream of a thread the forum has let go is not read.
ReceiveEvent ==
    /\ up /\ evts # <<>>
    /\ evts' = Tail(evts)
    /\ \/ thread /\ ProcessEvent(Head(evts))
       \/ ~thread /\ activity' = activity
    /\ UNCHANGED <<rows, gen, link, thread, freeze, process, reqs, faults, agentd>>

-----------------------------------------------------------------------------
(* Crashes, restarts and unloading. *)

CloseAsks ==
    /\ "closing" \in Features /\ up /\ thread /\ closing = "no" /\ ~hasCompactionFence
    /\ closing' = "asked"
    /\ UNCHANGED <<forumDb, up, worker, stops, recon, network, agentd>>

AgentdCloses ==
    /\ closing = "asked" /\ loaded
    /\ closing' = "closed"
    /\ loaded' = FALSE /\ turn' = FALSE
    /\ evts' = Emitted(TurnEvent("completed"))
    /\ UNCHANGED <<forumDb, up, worker, stops, recon, reqs, faults, branch, canc>>

\* closeTopic after its await: it forgets the thread and declares the robot
\* idle, whatever its activity has become.
CloseReturns ==
    /\ closing = "closed"
    /\ closing' = "no"
    /\ thread' = FALSE
    /\ activity' = setRobotActivity(activity, "idle")
    /\ UNCHANGED <<rows, gen, link, freeze, up, worker, stops, recon, network, agentd>>

\* Subagents are still at work, the conversation is gone, or the call is lost.
CloseFails ==
    /\ closing = "asked"
    /\ closing' = "no"
    /\ UNCHANGED <<forumDb, up, worker, stops, recon, network, agentd>>

\* The forum dies with its worker, its stops and its pass; startup resets
\* the activities that are no cancellation.
ForumCrash ==
    /\ up
    /\ faults < MaxFaults /\ faults' = faults + 1
    /\ up' = FALSE /\ worker' = NoWorker
    /\ stops' = [c \in Stops |->
                    [stops[c] EXCEPT !.st = CASE @ = "sent" -> "orphan"
                                              [] @ \in {"answered", "lost"} -> "done"
                                              [] OTHER -> @]]
    /\ recon' = [NoRecon EXCEPT !.st = "due"] /\ closing' = "no"
    /\ activity' = Quieted(activity)
    /\ UNCHANGED <<rows, gen, link, thread, freeze, reqs, evts, agentd>>

\* reconcileLoadedThreads and reconcilePostDispatchGenerations, after the
\* first reconciliation pass; then the dispatch service starts.
ForumStarts ==
    /\ ~up /\ recon.st = "idle"
    /\ up' = TRUE
    /\ thread' = (thread /\ loaded)
    /\ activity' = IF thread /\ loaded /\ turn /\ activity \notin Cancelled THEN "thinking"
                   ELSE Quieted(activity)
    /\ rows' = reconcilePostDispatchGenerations(rows, gen)
    /\ UNCHANGED <<gen, link, freeze, worker, stops, recon, closing, network, agentd>>

AgentdDies ==
    /\ faults < MaxFaults /\ faults' = faults + 1
    /\ loaded' = FALSE /\ turn' = FALSE /\ evts' = <<>> /\ reqs' = {}
    /\ stops' = [c \in Stops |->
                    [stops[c] EXCEPT !.st = CASE @ = "sent" -> "lost"
                                              [] @ = "orphan" -> "done"
                                              [] OTHER -> @]]
    /\ UNCHANGED <<forumDb, up, worker, recon, closing>>

AgentdCrash == loaded /\ AgentdDies /\ UNCHANGED <<branch, canc>>

\* It dies inside interruptSession: the fence has moved, and the operation is
\* not recorded or recorded as begun.
AgentdCrashInStop(c) ==
    /\ stops[c].st \in {"sent", "orphan"}
    /\ stops[c].generation >= fenceGeneration(branch)
    /\ branch' = advanceDispatchFence(branch, stops[c].generation)
    /\ canc' \in {canc, [canc EXCEPT ![stops[c].generation] = "stopping"]}
    /\ AgentdDies

\* The reaper, a drain or a shutdown closes a conversation it found idle; a
\* turn accepted while it waited for the session's mutex is closed with it.
AgentdUnloads ==
    /\ loaded
    /\ loaded' = FALSE /\ turn' = FALSE
    /\ evts' = Emitted(TurnEvent("completed"))
    /\ UNCHANGED <<forumDb, process, reqs, faults, branch, canc>>

-----------------------------------------------------------------------------

OutboxStep ==
    \E p \in Posts :
        \/ \E o \in Origins, solo \in SoloChoices : CreatePost(p, o, solo)
        \/ RetryFailed(p) \/ Ripen(p) \/ AbandonHead(p) \/ Claim(p)
        \/ finishCompactionSuccess(p)

SideStep == AcceptOperation \/ OperationEnds \/ DirectorWrites

WorkerStep ==
    \/ OpenDead \/ OpenLoaded \/ OpenSession \/ LinkSession \/ OpenRefused \/ Send
    \/ ApplicationFailure \/ DispatchSettled \/ DispatchRefused

MessageStep(r) ==
    MessageRefused(r) \/ MessageNotReady(r) \/ MessageAccepted(r) \/ RequestLost(r)

StopStep ==
    \E c \in Stops :
        \/ StopLinked(c) \/ StopUnlinked(c) \/ AgentdRefusesStop(c)
        \/ \E s \in Cancelled : AgentdStops(c, s)
        \/ StopReturns(c) \/ StopFails(c) \/ AgentdCrashInStop(c)

ReconcileStep ==
    \/ ReconcileAsks \/ ReconcileHasNothing \/ ReconcileApplies \/ ReconcileFails
    \/ \E s \in Cancelled : AgentdReconciles(s)

Next ==
    \/ OutboxStep \/ SideStep \/ WorkerStep \/ TransportFailure
    \/ \E r \in reqs : MessageStep(r)
    \/ StopStep \/ ReconcileStep
    \/ EmitBusy \/ EmitTurnEnd \/ ReceiveEvent
    \/ CloseAsks \/ AgentdCloses \/ CloseReturns \/ CloseFails
    \/ ForumCrash \/ ForumStarts \/ AgentdCrash \/ AgentdUnloads

Spec == Init /\ [][Next]_vars

(***************************************************************************)
(* Fairness: the event loop runs what is ready, timers fire, an exchange   *)
(* is served, answered or given up.  Nothing is assumed of users, of       *)
(* crashes, or of what agentd answers.                                     *)
(***************************************************************************)
Fairness ==
    /\ WF_vars(\E p \in Posts : Claim(p))
    /\ \A p \in Posts : WF_vars(Ripen(p))
    /\ WF_vars(WorkerStep \/ TransportFailure \/ \E r \in reqs : r.token = worker.token /\ MessageStep(r))
    /\ WF_vars(\E r \in reqs : r.token # worker.token /\ MessageStep(r))
    /\ WF_vars(ReconcileHasNothing \/ ReconcileApplies \/ ReconcileFails)
    /\ WF_vars(~up /\ ReconcileAsks)
    /\ WF_vars(ForumStarts)

FairSpec == Spec /\ Fairness

-----------------------------------------------------------------------------
(* Properties. *)

\* Every variable keeps its type.
TypeOK ==
    /\ rows \in Rows /\ gen \in Generations /\ activity \in Activities
    /\ link \in BOOLEAN /\ thread \in BOOLEAN /\ up \in BOOLEAN
    /\ worker \in Worker /\ stops \in [Stops -> Stop] /\ recon \in Recon
    /\ closing \in {"no", "asked", "closed"}
    /\ held \in BOOLEAN /\ checkpoints \subseteq Posts
    /\ reqs \subseteq Request /\ evts \in Seq(Event) /\ faults \in 0..MaxFaults
    /\ loaded \in BOOLEAN /\ turn \in BOOLEAN /\ branch \in Seq(Entry)
    /\ canc \in [Generations -> Cancelled \cup {"none"}]

\* A dispatch is accepted, and its prompt run, at most once: retries after a
\* lost answer, claims after a crash and requests that arrive late all meet
\* the identity recorded by the preflight.
AcceptedOnce ==
    \A i, j \in DOMAIN branch :
        (branch[i].kind = "dispatch-accepted" /\ branch[j].kind = "dispatch-accepted"
           /\ branch[i].dispatchId = branch[j].dispatchId) => i = j

\* Once agentd has served a stop, no dispatch of an older generation is
\* accepted: generations never decrease along the branch.
NothingBehindFence ==
    \A i, j \in DOMAIN branch : i <= j => branch[i].generation <= branch[j].generation

\* A row says "dispatched" only of an identity agentd has accepted, whatever
\* was lost, repeated or restarted in between.
DispatchedWasAccepted ==
    \A p \in Posts : rows[p].status = "dispatched" => p \in accepted(branch)

\* Posts that are sent together come from one origin, and a post that must
\* stand alone is sent alone, however often a group is claimed again after
\* lost answers and crashes.
GroupsAreUniform ==
    \A p \in Posts : \A q \in rows[p].contributors :
        rows[q].origin = rows[p].origin /\ ((rows[p].solo \/ rows[q].solo) => p = q)

\* A pending or dispatching row always belongs to the topic's generation, so
\* a stop leaves nothing behind that a later scan could pick up.
ActiveIsCurrent == \A p \in Posts : Active(rows[p]) => rows[p].generation = gen

\* agentd's fence never runs ahead of the forum's generation: it would refuse
\* every new post as stale.
FenceNotAhead == fenceGeneration(branch) <= gen

\* Both: whatever a stop crosses, every active row is of a generation that
\* agentd accepts and a later scan may claim.
GenerationsMatch == ActiveIsCurrent /\ FenceNotAhead

\* The topic had no session to ask when the current generation's stop was
\* answered, and the forum made up the answer.
StopWasUnasked ==
    \E c \in Stops : stops[c].st = "unasked" /\ stops[c].generation = gen
                        /\ stops[c].state = "stopped"

\* The forum shows "stopped" only once the canonical fence has reached the
\* stop's generation, whichever of the stop's answer, the stream event or a
\* reconciliation pass reported it.  The one exception is a stop that found no
\* session: interruptTopic makes up its answer, and nothing is fenced.
StoppedIsFenced == activity = "stopped" => fenceGeneration(branch) = gen \/ StopWasUnasked

\* Settled work stays settled: dispatched, superseded and abandoned rows never
\* change, in particular not through the retry of failed dispatches or a late
\* claimant.
SettledIsFinal ==
    [][\A p \in Posts : rows[p].status \in {"dispatched", "superseded", "abandoned"}
                            => rows'[p].status = rows[p].status]_vars

\* A retry of an unresolved stop does not cancel the posts written since:
\* only a stop of a new generation supersedes a row other than by grouping.
RetryKeepsPosts ==
    [][(\E c \in Stops : stops[c].st = "unused" /\ stops'[c].st # "unused")
         /\ activity \in Unresolved
         => rows' = rows]_vars

\* The canonical session's fence entries are an implementation of exactly
\* that promise: at most one delivery per post, none behind a served stop.
Delivered == {<<branch[i].dispatchId, branch[i].generation>> :
                  i \in {j \in DOMAIN branch : branch[j].kind = "dispatch-accepted"}}
Delivery == INSTANCE DispatchDelivery
                WITH delivered <- Delivered, fence <- fenceGeneration(branch)
DeliveryRefined == Delivery!Spec

\* Somebody retries a failed post over and over.
RetriedForEver(q) == []<>(rows[q].status = "failed") /\ []<>Active(rows[q])

\* A post that is never dispatched, failed, superseded or abandoned is held by
\* a cancellation that stays unresolved, or by a fork, clone or compaction that
\* never ends (behind its fence the posts of Discord and Matrix are queued), or
\* by the retries of a post before it.  In particular no post waits for the
\* checkpoint of a compaction while that waits for it.
PostsSettle ==
    \A p \in Posts :
        <>[]Active(rows[p]) => \/ <>[](activity \in Unresolved \/ held)
                              \/ \E q \in Posts \ {p} : RetriedForEver(q)
=============================================================================
