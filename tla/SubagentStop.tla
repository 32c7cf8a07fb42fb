---------------------------- MODULE SubagentStop ----------------------------
(***************************************************************************)
(* One Stop of a robot in agentd: the parent is aborted, and the barrier   *)
(* of createSubagentCancellationCoordinator scans the subagent runs of its *)
(* session, marks them, asks their runners to stop and scans again until a *)
(* confirming scan finds nothing, or the deadline passes.  Meanwhile       *)
(* runners start, finish, die and launch runs of their own, finished runs  *)
(* wake the parent, and agentd or its container restarts.                  *)
(*                                                                         *)
(* A scan is not a snapshot: directories are listed, then read one by one. *)
(* The steps of the pi-subagents package (launch, runner, result watcher)  *)
(* are modelled from the repository's patch of it and from what agentd     *)
(* reads of them.                                                          *)
(***************************************************************************)
EXTENDS Naturals, FiniteSets

CONSTANTS
    Runs,           \* subagent runs that may be launched
    Parent,         \* the parent session, as a launcher
    Launcher,       \* who launches a run: the parent, or another run's runner
    FollowUps,      \* runs whose result wakes the parent
    MaxTurns,       \* bound on the parent's turns
    MaxFaults       \* bound on restarts and on failing reads and writes

ASSUME StopConstants ==
    /\ Parent \notin Runs /\ Launcher \in [Runs -> Runs \cup {Parent}] /\ FollowUps \subseteq Runs
    /\ MaxTurns \in Nat \ {0} /\ MaxFaults \in Nat

VARIABLES
    stage,      \* what the run's artifacts say
    alive,      \* its runner's process exists
    prior,      \* it was launched in an earlier container
    result,     \* its result file is pending
    marked,     \* host-cancellation.json is beside it
    control,    \* control/stop.json waits for its runner
    woken,      \* results the parent has been woken for
    parent,     \* the parent's conversation in agentd
    turn,       \* the parent's current or last turn
    op,         \* the durable cancellation record
    known,      \* the runs and the turn when the operation began; an abort error that was lost
    attempt,    \* the attempt that holds the session's mutex
    request,    \* the forum's status request: what it read before it waits for the mutex
    answer,     \* the last attempt's answer
    faults

disk == <<stage, prior, result, marked, control>>
session == <<parent, turn, woken>>
operation == <<op, known, attempt, request, answer>>
vars == <<disk, alive, session, operation, faults>>

Stages == {"absent", "registered", "running", "final", "not-started"}
Answers == {"none", "stopping", "stopped", "uncertain"}

\* A scan lists the runs' directories and then reads them; what it reads of a run
\* makes the run active, uncertain or inactive.
Attempt == [at : {"idle", "list", "scan", "mark", "confirm", "rescan", "finish"},
            listed : SUBSET Runs, found : [Runs -> {"unread", "active", "uncertain", "inactive"}],
            pending : SUBSET Runs, seen : SUBSET Runs, todo : SUBSET Runs,
            errors : BOOLEAN, abort : BOOLEAN]
NoAttempt == [at |-> "idle", listed |-> {}, found |-> [r \in Runs |-> "unread"], pending |-> {},
              seen |-> {}, todo |-> {}, errors |-> FALSE, abort |-> FALSE]
NoKnown == [runs |-> {}, turn |-> 0, lost |-> FALSE]
ReadRuns(a) == {r \in Runs : a.found[r] # "unread"}

TypeOK ==
    /\ stage \in [Runs -> Stages]
    /\ alive \in [Runs -> BOOLEAN] /\ prior \in [Runs -> BOOLEAN] /\ result \in [Runs -> BOOLEAN]
    /\ marked \in [Runs -> BOOLEAN] /\ control \in [Runs -> BOOLEAN] /\ woken \subseteq Runs
    /\ parent \in {"absent", "idle", "busy"} /\ turn \in 1..MaxTurns
    /\ op \in [state : Answers, abort : BOOLEAN, targets : SUBSET Runs]
    /\ known \in [runs : SUBSET Runs, turn : 0..MaxTurns, lost : BOOLEAN]
    /\ attempt \in Attempt
    /\ attempt.pending \cup attempt.todo \cup ReadRuns(attempt) \subseteq attempt.listed
    /\ request \in {"none", "proven", "unproven"}
    /\ answer \in Answers
    /\ faults \in 0..MaxFaults

Init ==
    /\ stage = [r \in Runs |-> "absent"] /\ alive = [r \in Runs |-> FALSE]
    /\ prior = [r \in Runs |-> FALSE] /\ result = [r \in Runs |-> FALSE]
    /\ marked = [r \in Runs |-> FALSE] /\ control = [r \in Runs |-> FALSE] /\ woken = {}
    /\ parent = "busy" /\ turn = 1
    /\ op = [state |-> "none", abort |-> FALSE, targets |-> {}] /\ known = NoKnown
    /\ attempt = NoAttempt /\ request = "none" /\ answer = "none" /\ faults = 0

-----------------------------------------------------------------------------
(* The package: launches, runners, the result watcher (external). *)

LauncherActs(r) == IF Launcher[r] = Parent THEN parent = "busy" ELSE alive[Launcher[r]]

\* persistLaunchIntent.
Register(r) ==
    /\ stage[r] = "absent" /\ LauncherActs(r)
    /\ stage' = [stage EXCEPT ![r] = "registered"]
    /\ UNCHANGED <<alive, prior, result, marked, control, session, operation, faults>>

\* spawnRunner with the process id in launch.json, or markRunnerNotStarted.
Spawn(r) ==
    /\ stage[r] = "registered" /\ ~prior[r] /\ LauncherActs(r)
    /\ \/ stage' = [stage EXCEPT ![r] = "running"] /\ alive' = [alive EXCEPT ![r] = TRUE]
       \/ stage' = [stage EXCEPT ![r] = "not-started"] /\ UNCHANGED alive
    /\ UNCHANGED <<prior, result, marked, control, session, operation, faults>>

\* The run completes, or its runner consumes the stop request.
Finish(r) ==
    /\ stage[r] = "running" /\ alive[r]
    /\ stage' = [stage EXCEPT ![r] = "final"] /\ result' = [result EXCEPT ![r] = TRUE]
    /\ control' = [control EXCEPT ![r] = FALSE]
    /\ UNCHANGED <<alive, prior, marked, session, operation, faults>>

\* The runner's process ends: after its last status, or before.  Nobody reads its
\* stop request any more.
Exit(r) ==
    /\ alive[r]
    /\ alive' = [alive EXCEPT ![r] = FALSE] /\ control' = [control EXCEPT ![r] = FALSE]
    /\ UNCHANGED <<stage, prior, result, marked, session, operation, faults>>

\* The result watcher and recoverPendingFollowUps: an unmarked follow-up wakes the
\* parent.
Wake(r) ==
    /\ r \in FollowUps \ woken /\ result[r] /\ ~marked[r]
    /\ parent = "idle" /\ turn < MaxTurns
    /\ parent' = "busy" /\ turn' = turn + 1 /\ woken' = woken \cup {r}
    /\ UNCHANGED <<disk, alive, operation, faults>>

TurnEnds ==
    /\ parent = "busy" /\ ~\E r \in Runs : Launcher[r] = Parent /\ stage[r] = "registered" /\ ~prior[r]
    /\ parent' = "idle"
    /\ UNCHANGED <<disk, alive, turn, woken, operation, faults>>

-----------------------------------------------------------------------------
(* scanLifecycleSnapshot and classifyRunDirectory. *)

PidKnown(r) == stage[r] \in {"running", "final"}
Classify(r) ==
    IF stage[r] = "not-started" \/ prior[r] \/ (PidKnown(r) /\ ~alive[r]) THEN "inactive"
    ELSE IF stage[r] = "final" THEN "uncertain" ELSE "active"

\* execute's decisions between two awaits.
Blocking(a) == {r \in Runs : a.found[r] \in {"active", "uncertain"}}
Goto(a, step) == [a EXCEPT !.at = step, !.listed = {}, !.pending = {}, !.found = NoAttempt.found]

\* Another pass if there is time, or what this one found.
Again(a) == {Goto(a, "list"), [a EXCEPT !.at = "finish"]}
AfterMarking(a) == IF Blocking(a) = {} THEN {Goto(a, "confirm")} ELSE Again(a)
\* Every run that blocks or whose result is pending is marked on every pass.
AfterScan(a) ==
    LET todo == Blocking(a) \cup a.pending
    IN IF todo = {} THEN AfterMarking(a) ELSE {[a EXCEPT !.at = "mark", !.todo = todo]}
\* Mutant: the confirming scan is not looked at.
AfterConfirming_Always(a) == {Goto(a, "finish")}
AfterConfirming(a) ==
    IF Blocking(a) = {} /\ a.pending \subseteq a.seen THEN {[a EXCEPT !.at = "finish"]} ELSE Again(a)
Scanned(a) ==
    IF a.listed # ReadRuns(a) THEN {a} ELSE IF a.at = "scan" THEN AfterScan(a) ELSE AfterConfirming(a)

List ==
    /\ attempt.at \in {"list", "confirm"}
    /\ attempt' \in Scanned([attempt EXCEPT !.at = IF @ = "list" THEN "scan" ELSE "rescan",
                                            !.listed = {r \in Runs : stage[r] # "absent"}])
    /\ UNCHANGED <<disk, alive, session, op, known, request, answer, faults>>

ReadRun(r) ==
    /\ attempt.at \in {"scan", "rescan"} /\ r \in attempt.listed \ ReadRuns(attempt)
    /\ attempt' \in Scanned([attempt EXCEPT
         !.found[r] = Classify(r),
         !.pending = IF result[r] THEN @ \cup {r} ELSE @])
    /\ UNCHANGED <<disk, alive, session, op, known, request, answer, faults>>

-----------------------------------------------------------------------------
(* interruptSession and reconcileCancellationOperation. *)

\* session.abort() against its ten-second timer.  It resolves when the turn has
\* ended, and with it a launch that was under way.
Aborted == parent' = (IF parent = "absent" THEN parent ELSE "idle")
           /\ (parent = "busy" => ~\E r \in Runs : Launcher[r] = Parent /\ stage[r] = "registered" /\ ~prior[r])
AbortTimesOut == parent = "busy" /\ UNCHANGED parent

\* execute's first write: the operation is stopping again and keeps its targets.
Begin(abort, proven) ==
    /\ op' = [op EXCEPT !.state = "stopping", !.abort = @ /\ ~proven]
    /\ attempt' = [NoAttempt EXCEPT !.at = "list", !.seen = op.targets, !.abort = abort] /\ answer' = "none"

\* POST .../cancellation; the mutex is first come, first served.
Stop ==
    /\ attempt.at = "idle" /\ request = "none" /\ op.state # "stopped"
    /\ known' = IF op.state = "none" THEN [runs |-> {r \in Runs : stage[r] # "absent"}, turn |-> turn, lost |-> FALSE] ELSE known
    /\ \/ Aborted /\ Begin(FALSE, FALSE)
       \/ AbortTimesOut /\ Begin(TRUE, FALSE)
    /\ UNCHANGED <<disk, alive, turn, woken, request, faults>>

\* GET .../cancellation reads the record, and acts on it when it gets the mutex.
ReadRecord ==
    /\ request = "none" /\ op.state \in {"stopping", "uncertain"}
    /\ request' = IF op.abort THEN "unproven" ELSE "proven"
    /\ UNCHANGED <<disk, alive, session, op, known, attempt, answer, faults>>

Reconcile ==
    /\ attempt.at = "idle" /\ request # "none" /\ request' = "none"
    /\ IF request = "proven" THEN UNCHANGED parent /\ Begin(FALSE, FALSE)
       ELSE \/ Aborted /\ Begin(FALSE, TRUE)
            \/ AbortTimesOut /\ op' = [op EXCEPT !.state = "uncertain", !.abort = TRUE]
               /\ answer' = "uncertain" /\ UNCHANGED attempt
    /\ UNCHANGED <<disk, alive, turn, woken, known, faults>>

-----------------------------------------------------------------------------
(* execute: the markers, and the outcome. *)

Reads(r) == stage[r] = "registered" \/ (alive[r] /\ stage[r] = "running")
\* assertMarkerAndControl; a run found blocking also gets the stop request.
\* Mutant: the stop request of a run that was marked before is not renewed.
MarkRun_Once(r) ==
    /\ attempt.at = "mark" /\ r \in attempt.todo
    /\ marked' = [marked EXCEPT ![r] = TRUE]
    /\ control' = [control EXCEPT ![r] = @ \/ (r \in Blocking(attempt) /\ Reads(r) /\ ~marked[r])]
    /\ LET a == [attempt EXCEPT !.todo = @ \ {r}, !.seen = @ \cup {r}]
       IN attempt' \in IF a.todo = {} THEN AfterMarking(a) ELSE {a}
    /\ UNCHANGED <<stage, prior, result, alive, session, op, known, request, answer, faults>>
MarkRun(r) ==
    /\ attempt.at = "mark" /\ r \in attempt.todo
    /\ marked' = [marked EXCEPT ![r] = TRUE]
    /\ control' = [control EXCEPT ![r] = @ \/ (r \in Blocking(attempt) /\ Reads(r))]
    /\ LET a == [attempt EXCEPT !.todo = @ \ {r}, !.seen = @ \cup {r}]
       IN attempt' \in IF a.todo = {} THEN AfterMarking(a) ELSE {a}
    /\ UNCHANGED <<stage, prior, result, alive, session, op, known, request, answer, faults>>

\* The outcome of the last scan, with a failed abort recorded after it.
Outcome ==
    IF attempt.abort \/ op.abort \/ attempt.errors \/ \E r \in Blocking(attempt) : attempt.found[r] = "uncertain"
    THEN "uncertain" ELSE IF Blocking(attempt) # {} THEN "stopping" ELSE "stopped"

\* Mutant: an abort that timed out is not recorded.
Complete_NoAbortError ==
    /\ attempt.at = "finish"
    /\ LET state == IF attempt.errors \/ \E r \in Blocking(attempt) : attempt.found[r] = "uncertain"
                    THEN "uncertain" ELSE IF Blocking(attempt) # {} THEN "stopping" ELSE "stopped"
       IN op' = [op EXCEPT !.state = state, !.targets = attempt.seen] /\ answer' = state
    /\ attempt' = NoAttempt
    /\ UNCHANGED <<disk, alive, session, known, request, faults>>
Complete ==
    /\ attempt.at = "finish"
    /\ op' = [state |-> Outcome, abort |-> op.abort \/ attempt.abort, targets |-> attempt.seen]
    /\ answer' = Outcome
    /\ attempt' = NoAttempt
    /\ UNCHANGED <<disk, alive, session, known, request, faults>>

-----------------------------------------------------------------------------
(* Faults and restarts. *)

Fault == faults < MaxFaults /\ faults' = faults + 1

\* A scan that fails ends the pass; a confirming one that fails rejects the
\* request and leaves the record as it is.
ScanFails ==
    /\ Fault
    /\ \/ /\ attempt.at = "scan"
          /\ attempt' = [Goto(attempt, "finish") EXCEPT !.errors = TRUE]
          /\ UNCHANGED known
       \/ /\ attempt.at = "rescan"
          /\ attempt' = NoAttempt /\ known' = [known EXCEPT !.lost = @ \/ attempt.abort]
    /\ UNCHANGED <<disk, alive, session, op, request, answer>>

\* A marker that cannot be written makes the attempt's outcome uncertain.
MarkFails(r) ==
    /\ Fault /\ attempt.at = "mark" /\ r \in attempt.todo
    /\ LET a == [attempt EXCEPT !.todo = @ \ {r}, !.errors = TRUE]
       IN attempt' \in IF a.todo = {} THEN AfterMarking(a) ELSE {a}
    /\ UNCHANGED <<disk, alive, session, op, known, request, answer>>

\* A runner consumes the stop request and goes on.
ControlLost(r) ==
    /\ Fault /\ control[r] /\ alive[r] /\ stage[r] = "running"
    /\ control' = [control EXCEPT ![r] = FALSE]
    /\ UNCHANGED <<stage, prior, result, marked, alive, session, operation>>

Restart ==
    /\ Fault
    /\ parent' = "absent" /\ attempt' = NoAttempt /\ request' = "none"
    /\ UNCHANGED <<turn, woken, op, known, answer>>

\* Agentd alone: the runners go on.
AgentdRestarts == Restart /\ UNCHANGED <<disk, alive>>

\* The container: nothing survives but the files.
ContainerRestarts ==
    /\ Restart
    /\ alive' = [r \in Runs |-> FALSE] /\ prior' = [r \in Runs |-> prior[r] \/ stage[r] # "absent"]
    /\ control' = [r \in Runs |-> FALSE]
    /\ UNCHANGED <<stage, result, marked>>

\* An explicit open of the conversation.
Reopen ==
    /\ parent = "absent" /\ attempt.at = "idle" /\ parent' = "idle"
    /\ UNCHANGED <<disk, alive, turn, woken, operation, faults>>

-----------------------------------------------------------------------------
Proceed ==
    \/ List \/ Complete
    \/ \E r \in Runs : ReadRun(r) \/ MarkRun(r)

Next ==
    \/ \E r \in Runs : Register(r) \/ Spawn(r) \/ Finish(r) \/ Exit(r) \/ Wake(r) \/ MarkFails(r) \/ ControlLost(r)
    \/ TurnEnds \/ Stop \/ ReadRecord \/ Reconcile \/ Proceed
    \/ ScanFails \/ AgentdRestarts \/ ContainerRestarts \/ Reopen

Spec == Init /\ [][Next]_vars

\* Agentd's requests run on, the forum reconciles an unresolved stop every half
\* minute, a parent's turn ends, a launch under way completes, and a runner that
\* is asked to stop does so and exits.
FairSpec ==
    /\ Spec /\ WF_vars(Proceed \/ Reconcile) /\ WF_vars(ReadRecord) /\ WF_vars(TurnEnds)
    /\ \A r \in Runs : WF_vars(Spawn(r) \/ (control[r] /\ Finish(r)) \/ (stage[r] = "final" /\ Exit(r)))

-----------------------------------------------------------------------------
(* Properties. *)

\* When agentd answers that the robot is stopped, no runner that was registered
\* when the stop began is alive, and none of their results can wake the parent
\* (execute, through swaps between the scans, failed markers and restarts).  Nor
\* is a run alive that one of those launched while the barrier was scanning: its
\* registration precedes its launcher's end, so the confirming scan lists it.
StoppedIsStopped ==
    answer = "stopped" =>
        /\ \A r \in known.runs : ~alive[r] /\ (result[r] => marked[r])
        /\ \A r \in Runs : Launcher[r] \in known.runs => ~alive[r]

\* Nor is the turn that was stopped still running: an abort that timed out keeps
\* the operation from reading stopped until the parent is proved terminated, by a
\* retry, by a reconciliation with a stale record or by a restart, unless the
\* request that saw it was rejected.
StoppedTurnIsOver == answer = "stopped" /\ parent = "busy" => turn # known.turn \/ known.lost

\* A launch that was registered and whose launcher is gone.
Orphan == \E r \in Runs : stage[r] = "registered" /\ ~prior[r] /\ ~LauncherActs(r)
\* docs/subagents.md: a stop that is stopping or uncertain is retried until it is
\* proven.  While every artifact can be read, which Classify takes for granted (a
\* malformed one holds the stop up until somebody repairs it), only a launch whose
\* launcher died under it can hold the stop up.
StopEnds == op.state # "none" ~> op.state = "stopped" \/ Orphan

\* docs/subagents.md: "`stopped` --- local termination and cancellation barrier
\* proven", without that exception.
StoppedIsProven == answer = "stopped" /\ parent = "busy" => turn # known.turn

\* server.mjs: "Abort first so the subsequent fixed-point scan cannot close over
\* an empty boundary while the parent is still able to register another child."
BoundaryIsClosed == answer = "stopped" => \A r \in Runs : ~alive[r]
=============================================================================
