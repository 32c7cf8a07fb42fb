----------------------------- MODULE Deployment -----------------------------
(***************************************************************************)
(* A deployment from end to end: scripts/deploy-if-safe on the host, the   *)
(* forum's admission fence (DeploymentAdmission) and agentd's drain with   *)
(* its durable record.  Each operation id is one run of the script.  The   *)
(* script may die without its exit trap, any of its requests may fail, and *)
(* agentd may crash and restart on its own.                                *)
(*                                                                         *)
(* Time: every step of the script but the backup is short against both     *)
(* leases (30 and 15 minutes), so a lease runs out only under a script     *)
(* that is in its backup or dead.                                          *)
(***************************************************************************)
EXTENDS DeploymentAdmission

CONSTANTS
    Kinds,      \* what a run finds to do: subset of "monika", "forum", "both", "backup"
    Overlap,    \* whether a run may start while another is under way
    MaxFaults   \* bound on deaths, failed requests and agentd crashes

ASSUME DeploymentConstants ==
    Kinds \subseteq {"monika", "forum", "both", "backup"} /\ Overlap \in BOOLEAN /\ MaxFaults \in Nat

VARIABLES
    script,     \* per run: where it is and what its exit trap will undo
    agentd,     \* draining, the durable drain record, the auto-cancel timer
    localWork,  \* agentd's work the forum does not see: a TUI lease, a subagent, a memory save
    faults

deployVars == <<vars, script, agentd, localWork, faults>>
coordinator == <<adm, waits, running, robotWorkInFlight, phase, shutdownClosed, renewals>>

Steps == {"off", "acquire", "wait", "quiesce", "drain", "publish", "probe", "backup", "monika",
          "undrain", "undrained", "forum", "ready", "reopen", "done", "trap", "trapped", "ended", "dead"}

Script == [at : Steps, round : 1..3, kind : Kinds, cancelDrain : BOOLEAN,
           acquired : BOOLEAN, answer : {"none", "yes", "no"}]
Agentd == [draining : BOOLEAN, file : BOOLEAN, timer : BOOLEAN]

DeployTypeOK ==
    /\ TypeOK
    /\ script \in [Ops -> Script]
    /\ agentd \in Agentd
    /\ localWork \in BOOLEAN /\ faults \in 0..MaxFaults

DeployInit ==
    /\ Init
    /\ script \in [Ops -> [at : {"off"}, round : {1}, kind : Kinds, cancelDrain : {FALSE},
                           acquired : {FALSE}, answer : {"none"}]]
    /\ agentd = [draining |-> FALSE, file |-> FALSE, timer |-> FALSE]
    /\ localWork = FALSE /\ faults = 0

At(op, step) == script[op].at = step
Over(op) == script[op].at \in {"off", "ended", "done", "dead"}
Replaces(op, service) == script[op].kind \in {service, "both"}
Drains(op) == script[op].kind \in {"monika", "both", "backup"}

\* The script of op goes on at step; what only the script does.
Goto(op, step) == script' = [script EXCEPT ![op].at = step]
GotoRound(op, step, round) == script' = [script EXCEPT ![op].at = step, ![op].round = round]
ScriptOnly == UNCHANGED <<coordinator, agentd, localWork, faults>>

\* deployState's blockers.
AgentdBusy == localWork \/ \E w \in Works : phase[w] \in {"accepted", "settling", "turn"}

-----------------------------------------------------------------------------
(* The script and the forum's fence. *)

\* update_needed found something to do, or --backup-only was given.
StartScript(op) ==
    /\ At(op, "off") /\ (Overlap \/ \A other \in Ops \ {op} : Over(other))
    /\ Goto(op, "acquire")
    /\ ScriptOnly

\* acquire_forum_admission marks the lease before it asks.
AcquireForum(op) ==
    /\ At(op, "acquire")
    /\ \/ AcquireNew(op) /\ script' = [script EXCEPT ![op].at = "wait", ![op].acquired = TRUE,
                                                     ![op].answer = "none"]
       \/ AcquireRenew(op) /\ script' = [script EXCEPT ![op].at = "wait", ![op].acquired = TRUE,
                                                       ![op].answer = "yes"]
       \/ AcquireAnswered(op) /\ script' = [script EXCEPT ![op].at = "wait", ![op].acquired = TRUE,
                                                          ![op].answer = "no"]
    /\ UNCHANGED <<agentd, localWork, faults>>

\* The coordinator's answer is on its way when finishAcquire ends.
FinishAcquire(op) ==
    /\ FinishAcquireIdle(op) \/ FinishAcquireFailed(op)
    /\ script' = [script EXCEPT ![op].answer =
                     IF At(op, "wait") THEN (IF adm'.operationId = op /\ adm'.state = "acquired"
                                             THEN "yes" ELSE "no") ELSE @]
    /\ UNCHANGED <<agentd, localWork, faults>>

AfterAcquire(op) ==
    IF script[op].round = 1 THEN IF Drains(op) THEN "quiesce" ELSE "backup"
    ELSE IF script[op].round = 2 /\ Replaces(op, "monika") THEN "monika" ELSE "forum"

\* Mutant: the acquisition's answer is not looked at.
ForumAnswers_AnyAnswer(op) ==
    /\ At(op, "wait") /\ script[op].answer # "none"
    /\ Goto(op, AfterAcquire(op))
    /\ ScriptOnly

ForumAnswers(op) ==
    /\ At(op, "wait") /\ script[op].answer # "none"
    /\ Goto(op, IF script[op].answer = "yes" THEN AfterAcquire(op) ELSE "trap")
    /\ ScriptOnly

-----------------------------------------------------------------------------
(* The script and agentd's drain. *)

\* drain_agentd first asks for the quiescence state.
Quiescence(op) ==
    /\ At(op, "quiesce")
    /\ Goto(op, IF AgentdBusy THEN "trap" ELSE "drain")
    /\ ScriptOnly

\* POST /v1/admin/drain: setDraining, publish, close idle conversations, report.
Drain(op) ==
    /\ At(op, "drain")
    /\ agentd' = [agentd EXCEPT !.draining = TRUE, !.timer = TRUE]
    /\ script' = [script EXCEPT ![op].at = "publish", ![op].cancelDrain = TRUE]
    /\ UNCHANGED <<coordinator, localWork, faults>>
\* Mutant: the drain is kept in memory only.
Publish_NoRecord(op) ==
    /\ At(op, "publish")
    /\ Goto(op, "probe")
    /\ UNCHANGED <<coordinator, agentd, localWork, faults>>
Publish(op) ==
    /\ At(op, "publish")
    /\ agentd' = [agentd EXCEPT !.file = TRUE]
    /\ Goto(op, "probe")
    /\ UNCHANGED <<coordinator, localWork, faults>>
Probe(op) ==
    /\ At(op, "probe")
    /\ Goto(op, IF AgentdBusy THEN "trap" ELSE IF script[op].round = 1 THEN "backup" ELSE "acquire")
    /\ ScriptOnly

\* create_backup, and for a deployment the second drain.
Backup(op) ==
    /\ At(op, "backup")
    /\ IF script[op].kind = "backup" THEN Goto(op, "reopen")
       ELSE GotoRound(op, IF Drains(op) THEN "quiesce" ELSE "acquire", 2)
    /\ ScriptOnly

\* POST /v1/admin/drain/cancel removes the record and then stops draining.
CancelClears(op, from, to) ==
    /\ At(op, from)
    /\ agentd' = [agentd EXCEPT !.file = FALSE]
    /\ Goto(op, to)
    /\ UNCHANGED <<coordinator, localWork, faults>>

\* The timer of setDraining, for the drain of a script in its backup or dead.
AutoCancel ==
    /\ agentd.timer /\ \A op \in Ops : script[op].cancelDrain => script[op].at \in {"backup", "dead"}
    /\ agentd' = [draining |-> FALSE, file |-> FALSE, timer |-> FALSE]
    /\ UNCHANGED <<coordinator, script, localWork, faults>>

\* Mutant: a restored drain is not armed.
Restarted_NoTimer == [draining |-> agentd.file, file |-> agentd.file, timer |-> FALSE]
\* A starting agentd restores an unexpired record.
Restarted == [draining |-> agentd.file, file |-> agentd.file, timer |-> agentd.file]
\* What its stop ends: turns and local work.
CutOff == [w \in Works |-> IF phase[w] \in {"accepted", "settling", "turn"} THEN "absent" ELSE phase[w]]

-----------------------------------------------------------------------------
(* Replacement. *)

\* compose up monika: agentd is stopped and the new one starts.
ReplaceMonika(op) ==
    /\ At(op, "monika")
    /\ agentd' = Restarted /\ localWork' = FALSE
    /\ phase' = CutOff /\ robotWorkInFlight' = Cardinality({w \in Works : phase'[w] \in Holding})
    /\ Goto(op, "undrain")
    /\ UNCHANGED <<adm, waits, running, shutdownClosed, renewals, faults>>

\* Mutant: the cancellation answers before it has stopped draining.
Undrained_StillDraining(op) ==
    /\ At(op, "undrained")
    /\ script' = [script EXCEPT ![op].cancelDrain = FALSE, ![op].round = 3,
                                ![op].at = IF Replaces(op, "forum") THEN "acquire" ELSE "ready"]
    /\ UNCHANGED <<coordinator, agentd, localWork, faults>>
\* wait_for_agentd_drain_cancel_after_deploy: cancelled and healthy.
Undrained(op) ==
    /\ At(op, "undrained")
    /\ agentd' = [agentd EXCEPT !.draining = FALSE, !.timer = FALSE]
    /\ script' = [script EXCEPT ![op].cancelDrain = FALSE, ![op].round = 3,
                                ![op].at = IF Replaces(op, "forum") THEN "acquire" ELSE "ready"]
    /\ UNCHANGED <<coordinator, localWork, faults>>

\* compose up forum: the fence, its waiters and the sync cycle go with the old
\* process; what it was sending is pending again.
ReplaceForum(op) ==
    /\ At(op, "forum")
    /\ adm' = [state |-> "idle", operationId |-> NoOp, lease |-> "none", paused |-> FALSE,
               completed |-> <<>>]
    /\ waits' = [o \in Ops |-> 0] /\ running' = FALSE /\ robotWorkInFlight' = 0
    /\ phase' = [w \in Works |-> IF phase[w] \in {"sending", "accepted", "settling"} THEN "pending"
                                 ELSE IF phase[w] = "direct" THEN "absent"
                                 ELSE phase[w]]
    /\ script' = [o \in Ops |-> IF o = op THEN [script[o] EXCEPT !.at = "ready"]
                                ELSE IF At(o, "wait") THEN [script[o] EXCEPT !.at = "trap"]
                                ELSE script[o]]
    /\ UNCHANGED <<shutdownClosed, renewals, agentd, localWork, faults>>

Ready(op) ==
    /\ At(op, "ready")
    /\ Goto(op, "reopen")
    /\ ScriptOnly

\* cancel_forum_admission: a foreign owner is an error and ends the script.
Reopen(op) ==
    /\ At(op, "reopen")
    /\ Cancel(op)
    /\ script' = IF expireIfNeeded(adm).operationId \in {op, NoOp}
                 THEN [script EXCEPT ![op].acquired = FALSE,
                          ![op].at = IF script[op].kind = "backup" THEN "trap" ELSE "done"]
                 ELSE [script EXCEPT ![op].at = "trap"]
    /\ UNCHANGED <<agentd, localWork, faults>>

\* release_deploy_guards, the trap on EXIT.
Trap(op) == CancelClears(op, "trap", "trapped") /\ script[op].cancelDrain
TrapDrain(op) ==
    /\ At(op, "trapped")
    /\ agentd' = [agentd EXCEPT !.draining = FALSE, !.timer = FALSE]
    /\ script' = [script EXCEPT ![op].cancelDrain = FALSE, ![op].at = "trap"]
    /\ UNCHANGED <<coordinator, localWork, faults>>
TrapForum(op) ==
    /\ At(op, "trap") /\ ~script[op].cancelDrain
    /\ IF script[op].acquired THEN Cancel(op) ELSE UNCHANGED coordinator
    /\ script' = [script EXCEPT ![op].acquired = FALSE, ![op].at = "ended"]
    /\ UNCHANGED <<agentd, localWork, faults>>

-----------------------------------------------------------------------------
(* Failures. *)

Fault == faults < MaxFaults /\ faults' = faults + 1

\* A request of the script fails, the backup fails, a readiness gate times out;
\* in the trap the failure is ignored.
Fails(op) ==
    /\ Fault
    /\ ~Over(op)
    /\ script' = IF script[op].at \in {"trap", "trapped"} /\ script[op].cancelDrain
                 THEN [script EXCEPT ![op].at = "trap", ![op].cancelDrain = FALSE]
                 ELSE [script EXCEPT ![op].at = IF @ = "trap" THEN "ended" ELSE "trap"]
    /\ UNCHANGED <<coordinator, agentd, localWork>>
Dies(op) ==
    /\ Fault
    /\ ~Over(op)
    /\ Goto(op, "dead")
    /\ UNCHANGED <<coordinator, agentd, localWork>>

\* Agentd crashes and restarts; a request it was serving fails.
AgentdCrash ==
    /\ Fault
    /\ agentd' = Restarted /\ localWork' = FALSE
    /\ phase' = CutOff /\ robotWorkInFlight' = Cardinality({w \in Works : phase'[w] \in Holding})
    /\ script' = [op \in Ops |->
                    IF script[op].at \in {"publish", "probe"} THEN [script[op] EXCEPT !.at = "trap"]
                    ELSE IF At(op, "undrained") THEN [script[op] EXCEPT !.at = "undrain"]
                    ELSE IF At(op, "trapped") THEN [script[op] EXCEPT !.at = "trap", !.cancelDrain = FALSE]
                    ELSE script[op]]
    /\ UNCHANGED <<adm, waits, running, shutdownClosed, renewals>>

-----------------------------------------------------------------------------
(* The system's own work. *)

\* Mutant: a route that begins work does not look at the drain.
LocalBegins_Drained ==
    /\ ~localWork
    /\ localWork' = TRUE
    /\ UNCHANGED <<coordinator, script, agentd, faults>>
\* A TUI claims a session, a turn starts a subagent, a save is queued: all are
\* refused while agentd drains.
LocalBegins ==
    /\ ~localWork /\ ~agentd.draining
    /\ localWork' = TRUE
    /\ UNCHANGED <<coordinator, script, agentd, faults>>
LocalEnds ==
    /\ localWork
    /\ localWork' = FALSE
    /\ UNCHANGED <<coordinator, script, agentd, faults>>

\* The message handler refuses a prompt while it drains.
RobotStep(w) ==
    /\ \/ CreateDispatch(w) \/ BeginDispatch(w) \/ BeginDirect(w) \/ EndWork(w) \/ Settle(w) \/ TurnEnds(w)
       \/ TurnBegins(w) /\ ~agentd.draining
    /\ UNCHANGED <<script, agentd, localWork, faults>>

ForumStep ==
    /\ \/ SyncStarts \/ SyncEnds \/ Expire
       \/ LeaseElapses /\ script[adm.operationId].at \in {"backup", "dead", "ended", "done"}
    /\ UNCHANGED <<script, agentd, localWork, faults>>

ScriptStep(op) ==
    \/ AcquireForum(op) \/ ForumAnswers(op) \/ Quiescence(op) \/ Drain(op) \/ Publish(op) \/ Probe(op)
    \/ Backup(op) \/ ReplaceMonika(op) \/ CancelClears(op, "undrain", "undrained") \/ Undrained(op)
    \/ ReplaceForum(op) \/ Ready(op) \/ Reopen(op) \/ Trap(op) \/ TrapDrain(op) \/ TrapForum(op)

DeployNext ==
    \/ \E op \in Ops : StartScript(op) \/ ScriptStep(op) \/ FinishAcquire(op) \/ Fails(op) \/ Dies(op)
    \/ \E w \in Works : RobotStep(w)
    \/ ForumStep \/ AutoCancel \/ AgentdCrash \/ LocalBegins \/ LocalEnds

DeploySpec == DeployInit /\ [][DeployNext]_deployVars

\* The script and the requests it makes go on, and both timers fire.
DeployFairSpec ==
    /\ DeploySpec
    /\ \A op \in Ops : WF_deployVars(ScriptStep(op)) /\ WF_deployVars(FinishAcquire(op))
    /\ WF_deployVars(ForumStep) /\ WF_deployVars(AutoCancel)

-----------------------------------------------------------------------------
(* Properties. *)

\* docs/redeployment.md: the runtime "must not replace containers while Pi is
\* producing a turn".  No replacement of the Monika container cuts off a turn or
\* work that agentd alone knows of.
NothingIsCutOff == [][\A op \in Ops : At(op, "monika") /\ script'[op].at = "undrain" => ~AgentdBusy]_deployVars

\* A container is replaced only under the forum's fence, held by this very run:
\* an expired or taken-over owner does not get that far.
ReplacedUnderFence ==
    \A op \in Ops : script[op].at \in {"monika", "forum"} =>
        adm.operationId = op /\ adm.state = "acquired" /\ \A w \in Works : phase[w] = "absent"

\* The new agentd is born draining, from the record the old one published: it
\* takes no work before its script has cancelled that drain.
ReplacementIsDrained ==
    [][\A op \in Ops : At(op, "monika") /\ script'[op].at = "undrain" => agentd'.draining]_deployVars

\* A deployment that reports success has reopened both sides.
DoneIsOpen ==
    \A op \in Ops : At(op, "done") =>
        /\ adm.operationId # op
        /\ (\A other \in Ops \ {op} : At(other, "off")) => ~agentd.draining /\ ~agentd.file

\* Whatever becomes of the script, the drain ends.
DrainEnds == agentd.draining ~> ~agentd.draining

\* deploy-if-safe: "The drain API is the deploy lock that rejects new
\* conversations/messages between the safety check and Docker sending SIGTERM."
DrainIsALock == \A op \in Ops : At(op, "monika") => agentd.draining
=============================================================================
