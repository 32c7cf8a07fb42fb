------------------------- MODULE DeploymentAdmission -------------------------
(***************************************************************************)
(* The forum's deployment admission coordinator                            *)
(* (services/deploymentAdmissionCoordinator.ts) with the two parties it    *)
(* fences: the Pi session sync worker, which it pauses, and robot work,    *)
(* which it counts, lets revoke a preparation and rejects once acquired.   *)
(*                                                                         *)
(* A deployment calls acquire(op).  The coordinator enters "preparing" and *)
(* pauses sync in the same synchronous step, then awaits the end of a      *)
(* running sync cycle; everything else runs during that await.             *)
(***************************************************************************)
EXTENDS Integers, FiniteSets, Sequences

CONSTANTS
    Ops,            \* deployment operation ids
    Works,          \* units of robot work (a dispatched post, a director run, ...)
    CompletedCap,   \* answers of finished operations kept (100 in the code)
    MaxWaits,       \* bound: acquisitions of one operation awaiting sync at once
    MaxRenewals,    \* bound: lease renewals in a behaviour
    NoOp            \* operationId = null

ASSUME WorksFinite == IsFiniteSet(Works)
ASSUME BoundsAreNat == CompletedCap \in Nat /\ MaxWaits \in Nat /\ MaxRenewals \in Nat
ASSUME NoOpIsNotAnOp == NoOp \notin Ops

VARIABLES
    adm,                \* the coordinator's fields and the sync's paused flag
    waits,              \* per operation, finishAcquire calls inside waitForIdle
    running,            \* the sync worker's running flag
    robotWorkInFlight,  \* the coordinator's counter
    phase,              \* per unit of robot work, how far it has come
    shutdownClosed,
    renewals            \* renewals so far, against MaxRenewals

vars == <<adm, waits, running, robotWorkInFlight, phase, shutdownClosed, renewals>>

AdmState == [state : {"idle", "preparing", "acquired"},
             operationId : Ops \cup {NoOp},
             lease : {"none", "live", "due"},
             paused : BOOLEAN,
             completed : Seq(Ops)]

(***************************************************************************)
(* A dispatched post is pending (a row in the outbox), sending (agentd is  *)
(* being awaited under admission), accepted (the robot's turn has begun,   *)
(* admission still held), settling (admission released, the row not yet    *)
(* marked) and turn (only the robot is busy).  Direct work holds admission *)
(* and has no row.                                                         *)
(***************************************************************************)
Phases == {"absent", "pending", "sending", "accepted", "settling", "turn", "direct"}

\* Work that holds an admission, i.e. is between beginRobotWork and its release.
Holding == {"sending", "accepted", "direct"}

\* Work the deployment blockers see in the database and in the robot states.
Visible == {"pending", "sending", "accepted", "settling", "turn"}

Holders == {w \in Works : phase[w] \in Holding}

getBlockers == {w \in Works : phase[w] \in Visible}

IsCompleted(a, op) == \E i \in DOMAIN a.completed : a.completed[i] = op

-----------------------------------------------------------------------------
(* The coordinator's private methods, as functions of its state. *)

Remember(log, op) ==
    IF Len(log) + 1 > CompletedCap THEN Tail(Append(log, op)) ELSE Append(log, op)

\* Mutant: release forgets sync.resume().
release_NoResume(a) == [state |-> "idle", operationId |-> NoOp, lease |-> "none",
                        paused |-> a.paused,
                        completed |-> Remember(a.completed, a.operationId)]

release(a) == [state |-> "idle", operationId |-> NoOp, lease |-> "none", paused |-> FALSE,
               completed |-> Remember(a.completed, a.operationId)]

expireIfNeeded(a) == IF a.state = "acquired" /\ a.lease = "due" THEN release(a) ELSE a

prepare(a, op) == [a EXCEPT !.state = "preparing", !.operationId = op, !.paused = TRUE]

\* Mutant: renewLease arms no expiry.
renewLease_NoExpiry(a) == a

renewLease(a) == [a EXCEPT !.lease = "live"]

\* What beginRobotWork leaves behind when it admits the work.
revokePreparing(a) == IF a.state = "preparing" THEN release(a) ELSE a

Init ==
    /\ adm = [state |-> "idle", operationId |-> NoOp, lease |-> "none", paused |-> FALSE,
              completed |-> <<>>]
    /\ waits = [op \in Ops |-> 0]
    /\ running = FALSE
    /\ robotWorkInFlight = 0
    /\ phase = [w \in Works |-> "absent"]
    /\ shutdownClosed = FALSE
    /\ renewals = 0

-----------------------------------------------------------------------------
(* Deployment operations. *)

\* Mutant: acquire does not look for an earlier answer.
AcquireNew_ForgetsAnswer(op) ==
    LET a == expireIfNeeded(adm) IN
    /\ a.state = "idle"
    /\ waits[op] < MaxWaits
    /\ adm' = prepare(a, op)
    /\ waits' = [waits EXCEPT ![op] = @ + 1]
    /\ UNCHANGED <<running, robotWorkInFlight, phase, shutdownClosed, renewals>>

\* A new acquisition closes the gate and starts waiting for sync.
AcquireNew(op) ==
    LET a == expireIfNeeded(adm) IN
    /\ ~IsCompleted(a, op)
    /\ a.state = "idle"
    /\ waits[op] < MaxWaits
    /\ adm' = prepare(a, op)
    /\ waits' = [waits EXCEPT ![op] = @ + 1]
    /\ UNCHANGED <<running, robotWorkInFlight, phase, shutdownClosed, renewals>>

\* The owner repeats acquire while it holds the fence.
AcquireRenew(op) ==
    LET a == expireIfNeeded(adm) IN
    /\ ~IsCompleted(a, op)
    /\ a.operationId = op /\ a.state = "acquired"
    /\ renewals < MaxRenewals
    /\ adm' = renewLease(a)
    /\ renewals' = renewals + 1
    /\ UNCHANGED <<waits, running, robotWorkInFlight, phase, shutdownClosed>>

\* A finished operation is told its old answer, a preparing one shares the
\* pending promise, another operation is told who owns the fence.
AcquireAnswered(op) ==
    LET a == expireIfNeeded(adm) IN
    /\ \/ IsCompleted(a, op)
       \/ a.operationId = op /\ a.state = "preparing"
       \/ a.operationId # op /\ a.state # "idle"
    /\ adm' = a
    /\ UNCHANGED <<waits, running, robotWorkInFlight, phase, shutdownClosed, renewals>>

\* cancel(op): a foreign owner is an error, an unknown operation a no-op.
Cancel(op) ==
    LET a == expireIfNeeded(adm) IN
    /\ adm' = IF a.operationId = op THEN release(a) ELSE a
    /\ UNCHANGED <<waits, running, robotWorkInFlight, phase, shutdownClosed, renewals>>

OwnsPreparation(op) == adm.operationId = op /\ adm.state = "preparing"

\* Mutant: finishAcquire asks only the database for blockers.
FinishAcquireIdle_NoCounter(op) ==
    /\ waits[op] > 0
    /\ ~running
    /\ waits' = [waits EXCEPT ![op] = @ - 1]
    /\ adm' = IF ~OwnsPreparation(op) THEN adm
              ELSE IF getBlockers # {} THEN release(adm)
              ELSE renewLease([adm EXCEPT !.state = "acquired"])
    /\ UNCHANGED <<running, robotWorkInFlight, phase, shutdownClosed, renewals>>

\* finishAcquire resumes with sync idle: the decision is taken in this step.
FinishAcquireIdle(op) ==
    /\ waits[op] > 0
    /\ ~running
    /\ waits' = [waits EXCEPT ![op] = @ - 1]
    /\ adm' = IF ~OwnsPreparation(op) THEN adm
              ELSE IF getBlockers # {} \/ robotWorkInFlight > 0 THEN release(adm)
              ELSE renewLease([adm EXCEPT !.state = "acquired"])
    /\ UNCHANGED <<running, robotWorkInFlight, phase, shutdownClosed, renewals>>

\* Mutant: a failed wait releases whatever operation owns the fence by now.
FinishAcquireFailed_NoRecheck(op) ==
    /\ waits[op] > 0
    /\ waits' = [waits EXCEPT ![op] = @ - 1]
    /\ adm' = IF adm.operationId # NoOp THEN release(adm) ELSE adm
    /\ UNCHANGED <<running, robotWorkInFlight, phase, shutdownClosed, renewals>>

\* finishAcquire resumes otherwise: the cycle outlasted waitTimeoutMs, or the
\* blockers could not be evaluated.
FinishAcquireFailed(op) ==
    /\ waits[op] > 0
    /\ waits' = [waits EXCEPT ![op] = @ - 1]
    /\ adm' = IF OwnsPreparation(op) THEN release(adm) ELSE adm
    /\ UNCHANGED <<running, robotWorkInFlight, phase, shutdownClosed, renewals>>

LeaseElapses ==
    /\ adm.lease = "live"
    /\ adm' = [adm EXCEPT !.lease = "due"]
    /\ UNCHANGED <<waits, running, robotWorkInFlight, phase, shutdownClosed, renewals>>

\* The expiry timer, or getStatus, finds the lease over.
Expire ==
    /\ adm.state = "acquired" /\ adm.lease = "due"
    /\ adm' = expireIfNeeded(adm)
    /\ UNCHANGED <<waits, running, robotWorkInFlight, phase, shutdownClosed, renewals>>

Shutdown ==
    /\ ~shutdownClosed
    /\ shutdownClosed' = TRUE
    /\ adm' = [(IF adm.operationId # NoOp THEN release(adm) ELSE adm) EXCEPT !.paused = TRUE]
    /\ UNCHANGED <<waits, running, robotWorkInFlight, phase, renewals>>

-----------------------------------------------------------------------------
(* Robot work.  Begin is the store's admission guard: it throws when the   *)
(* fence is held or the process is shutting down, and revokes a            *)
(* preparation otherwise.                                                  *)

Admits == ~shutdownClosed /\ expireIfNeeded(adm).state # "acquired"

beginRobotWork(w, ph) ==
    /\ Admits
    /\ adm' = revokePreparing(expireIfNeeded(adm))
    /\ robotWorkInFlight' = robotWorkInFlight + 1
    /\ phase' = [phase EXCEPT ![w] = ph]
    /\ UNCHANGED <<waits, running, shutdownClosed, renewals>>

\* Mutant: the closure runs in two finally blocks, without its released flag
\* and without the clamp.
releaseRobotWork_Twice(w, ph) ==
    /\ robotWorkInFlight' = robotWorkInFlight - 2
    /\ phase' = [phase EXCEPT ![w] = ph]
    /\ UNCHANGED <<adm, waits, running, shutdownClosed, renewals>>

\* The closure beginRobotWork returned.
releaseRobotWork(w, ph) ==
    /\ robotWorkInFlight' = IF robotWorkInFlight > 0 THEN robotWorkInFlight - 1 ELSE 0
    /\ phase' = [phase EXCEPT ![w] = ph]
    /\ UNCHANGED <<adm, waits, running, shutdownClosed, renewals>>

\* createPostDispatch asserts admission and inserts the row in one transaction.
CreateDispatch(w) ==
    /\ phase[w] = "absent"
    /\ Admits
    /\ adm' = revokePreparing(expireIfNeeded(adm))
    /\ phase' = [phase EXCEPT ![w] = "pending"]
    /\ UNCHANGED <<waits, running, robotWorkInFlight, shutdownClosed, renewals>>

\* AgentBridge.dispatchPostToAgent takes admission around the agentd call.
BeginDispatch(w) == phase[w] = "pending" /\ beginRobotWork(w, "sending")

BeginDirect(w) == phase[w] = "absent" /\ beginRobotWork(w, "direct")

\* Agentd accepts: the bridge publishes a busy robot state before it returns.
TurnBegins(w) ==
    /\ phase[w] = "sending"
    /\ phase' = [phase EXCEPT ![w] = "accepted"]
    /\ UNCHANGED <<adm, waits, running, robotWorkInFlight, shutdownClosed, renewals>>

\* Mutant: a failed dispatch keeps its admission.
EndWork_LeaksOnError(w) ==
    \/ /\ phase[w] = "sending"
       /\ phase' = [phase EXCEPT ![w] = "pending"]
       /\ UNCHANGED <<adm, waits, running, robotWorkInFlight, shutdownClosed, renewals>>
    \/ phase[w] = "accepted" /\ releaseRobotWork(w, "settling")
    \/ phase[w] = "direct" /\ releaseRobotWork(w, "absent")

EndWork(w) ==
    \/ phase[w] = "sending" /\ releaseRobotWork(w, "pending")
    \/ phase[w] = "accepted" /\ releaseRobotWork(w, "settling")
    \/ phase[w] = "direct" /\ releaseRobotWork(w, "absent")

\* The outbox row is marked dispatched; the turn goes on.
Settle(w) ==
    /\ phase[w] = "settling"
    /\ phase' = [phase EXCEPT ![w] = "turn"]
    /\ UNCHANGED <<adm, waits, running, robotWorkInFlight, shutdownClosed, renewals>>

TurnEnds(w) ==
    /\ phase[w] = "turn"
    /\ phase' = [phase EXCEPT ![w] = "absent"]
    /\ UNCHANGED <<adm, waits, running, robotWorkInFlight, shutdownClosed, renewals>>

-----------------------------------------------------------------------------
(* The sync worker: runSync returns at once when paused or running. *)

SyncStarts ==
    /\ ~adm.paused /\ ~running
    /\ running' = TRUE
    /\ UNCHANGED <<adm, waits, robotWorkInFlight, phase, shutdownClosed, renewals>>

SyncEnds ==
    /\ running
    /\ running' = FALSE
    /\ UNCHANGED <<adm, waits, robotWorkInFlight, phase, shutdownClosed, renewals>>

-----------------------------------------------------------------------------

OpStep(op) ==
    \/ AcquireNew(op) \/ AcquireRenew(op) \/ AcquireAnswered(op) \/ Cancel(op)
    \/ FinishAcquireIdle(op) \/ FinishAcquireFailed(op)

WorkStep(w) ==
    \/ CreateDispatch(w) \/ BeginDispatch(w) \/ BeginDirect(w) \/ TurnBegins(w)
    \/ EndWork(w) \/ Settle(w) \/ TurnEnds(w)

Next ==
    \/ \E op \in Ops : OpStep(op)
    \/ \E w \in Works : WorkStep(w)
    \/ LeaseElapses \/ Expire \/ Shutdown
    \/ SyncStarts \/ SyncEnds

Spec == Init /\ [][Next]_vars

(***************************************************************************)
(* Fairness: the sync cycle and the promise that polls it both run to      *)
(* their end on the event loop, time passes, and the lease timer fires.    *)
(***************************************************************************)
Fairness ==
    /\ WF_vars(SyncEnds)
    /\ \A op \in Ops : WF_vars(FinishAcquireIdle(op) \/ FinishAcquireFailed(op))
    /\ WF_vars(LeaseElapses)
    /\ WF_vars(Expire)

FairSpec == Spec /\ Fairness

-----------------------------------------------------------------------------
(* Properties. *)

\* Every variable keeps its type; the counter of work in flight never goes
\* below zero (the code clamps it with Math.max).
TypeOK ==
    /\ adm \in AdmState
    /\ waits \in [Ops -> Nat]
    /\ running \in BOOLEAN
    /\ robotWorkInFlight \in Nat
    /\ phase \in [Works -> Phases]
    /\ shutdownClosed \in BOOLEAN
    /\ renewals \in Nat

\* An acquired fence means a quiescent forum, for as long as it is held: no
\* sync cycle runs or can start, and no robot work exists in any phase.  The
\* coordinator decides this once, in finishAcquire, and afterwards only the
\* store guard and the paused flag keep it true.
AcquiredMeansQuiescent ==
    adm.state = "acquired" =>
        /\ adm.paused /\ ~running
        /\ robotWorkInFlight = 0
        /\ \A w \in Works : phase[w] = "absent"

\* The counter finishAcquire trusts is exactly the number of units of work
\* between beginRobotWork and the release closure.
CounterIsExact == robotWorkInFlight = Cardinality(Holders)

\* An operation that was told it lost (revoked, blocked, expired, cancelled)
\* is never the owner again while that answer is remembered, whatever late
\* continuation of it is still waiting for sync.
OwnerIsUnanswered ==
    adm.operationId # NoOp => ~IsCompleted(adm, adm.operationId)

\* A preparation always has a finishAcquire call that will end it, so the
\* gate cannot stay half closed with nobody left to open it.
PreparationHasWaiter ==
    adm.state = "preparing" => waits[adm.operationId] > 0

\* Until shutdown, sync is paused exactly while an operation owns the fence:
\* every way out of the fence resumes it, no overlapping operation resumes it
\* under the owner.
PausedOnlyForOwner ==
    ~shutdownClosed => (adm.paused <=> adm.operationId # NoOp)

\* Both: however an acquisition ends, by its waiter, its owner, its lease or
\* shutdown, it leaves neither a gate half closed nor a worker paused.
FenceIsAttended == PreparationHasWaiter /\ PausedOnlyForOwner

\* While the lease lives, neither robot work nor a late finishAcquire of an
\* overtaken acquisition can end an acquired fence; only the owner's cancel
\* or shutdown does, and those touch neither work nor waiters.
HeldFenceSurvives ==
    [][(adm.state = "acquired" /\ adm.lease = "live" /\ adm'.state # "acquired")
         => UNCHANGED <<phase, robotWorkInFlight, waits, running>>]_vars

\* A deployment that walks away cannot keep the forum fenced: whoever owns
\* the fence loses it, through its waiter while preparing and through the
\* lease once acquired (the renewals of a live deployment are bounded).
OwnershipEnds == \A op \in Ops : adm.operationId = op ~> adm.operationId # op
=============================================================================
