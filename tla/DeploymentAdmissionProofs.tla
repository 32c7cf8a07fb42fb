---------------------- MODULE DeploymentAdmissionProofs ----------------------
(***************************************************************************)
(* Proofs about DeploymentAdmission for every set of operations and work,  *)
(* every cap on remembered answers and every bound.                        *)
(*                                                                         *)
(* The invariants are proved together: quiescence under an acquired fence  *)
(* needs the exact counter (work without a database row is seen only       *)
(* there), the typing of release needs an owner whenever the fence is not  *)
(* idle, and the pause needs to know that every owner paused sync.         *)
(***************************************************************************)
EXTENDS DeploymentAdmission, FiniteSetTheorems, SequenceTheorems, TLAPS

\* What the coordinator's own fields satisfy at every call boundary.
AdmOK(a) ==
    /\ a \in AdmState
    /\ a.operationId = NoOp <=> a.state = "idle"
    /\ a.state # "idle" => a.paused
    /\ a.operationId # NoOp => ~IsCompleted(a, a.operationId)

\* The inductive invariant.
IInv ==
    /\ TypeOK
    /\ AdmOK(adm)
    /\ CounterIsExact
    /\ AcquiredMeansQuiescent
    /\ PreparationHasWaiter
    /\ PausedOnlyForOwner

\* The remembered answers stay a sequence of operations: the eviction of the
\* oldest answer in release never runs on an empty map.
LEMMA RememberType ==
    ASSUME NEW log \in Seq(Ops), NEW op \in Ops
    PROVE  Remember(log, op) \in Seq(Ops)
<1>1. Append(log, op) \in Seq(Ops) /\ Append(log, op) # <<>>
  BY AppendProperties
<1>2. Tail(Append(log, op)) \in Seq(Ops)
  BY <1>1, HeadTailProperties
<1> QED BY <1>1, <1>2 DEF Remember

\* release() leaves an idle, resumed, well-formed coordinator.
LEMMA ReleaseOK ==
    ASSUME NEW a, AdmOK(a), a.state # "idle"
    PROVE  /\ AdmOK(release(a))
           /\ release(a).state = "idle"
           /\ release(a).operationId = NoOp
           /\ release(a).paused = FALSE
<1>1. a.operationId \in Ops /\ a.completed \in Seq(Ops)
  BY DEF AdmOK, AdmState
<1>2. Remember(a.completed, a.operationId) \in Seq(Ops)
  BY <1>1, RememberType
<1>3. release(a) \in AdmState
  BY <1>2 DEF release, AdmState
<1> QED BY <1>3 DEF release, AdmOK

\* expireIfNeeded() either changes nothing or is a release.
LEMMA ExpireOK ==
    ASSUME NEW a, AdmOK(a)
    PROVE  /\ AdmOK(expireIfNeeded(a))
           /\ \/ expireIfNeeded(a) = a
              \/ /\ a.state = "acquired"
                 /\ expireIfNeeded(a).state = "idle"
                 /\ expireIfNeeded(a).operationId = NoOp
                 /\ expireIfNeeded(a).paused = FALSE
BY ReleaseOK DEF expireIfNeeded

\* The guard's effect on an admitting coordinator is an idle coordinator.
LEMMA AdmitOK ==
    ASSUME AdmOK(adm), Admits
    PROVE  LET b == revokePreparing(expireIfNeeded(adm))
           IN /\ AdmOK(b)
              /\ b.state = "idle"
              /\ b.operationId = NoOp
              /\ b = adm \/ b.paused = FALSE
<1> DEFINE e == expireIfNeeded(adm)
<1>1. AdmOK(e) /\ e.state # "acquired"
  BY ExpireOK DEF Admits
<1>2. CASE e.state = "preparing"
  BY <1>1, <1>2, ReleaseOK DEF revokePreparing
<1>3. CASE e.state = "idle"
  <2>1. revokePreparing(e) = e
    BY <1>3 DEF revokePreparing
  <2> QED BY <1>1, <1>3, <2>1, ExpireOK DEF AdmOK
<1> QED BY <1>1, <1>2, <1>3 DEF AdmOK, AdmState

\* Taking an admission moves one unit of work into the counted set.
LEMMA HoldersGrow ==
    ASSUME TypeOK, CounterIsExact, NEW w \in Works, NEW ph \in Holding,
           phase[w] \notin Holding,
           phase' = [phase EXCEPT ![w] = ph],
           robotWorkInFlight' = robotWorkInFlight + 1
    PROVE  CounterIsExact'
<1>1. IsFiniteSet(Holders)
  BY WorksFinite, FS_Subset DEF Holders
<1>2. Holders' = Holders \cup {w} /\ w \notin Holders
  BY DEF Holders, TypeOK
<1> QED BY <1>1, <1>2, FS_AddElement DEF CounterIsExact

\* Releasing an admission takes exactly one unit out of it; the clamp is
\* never needed.
LEMMA HoldersShrink ==
    ASSUME TypeOK, CounterIsExact, NEW w \in Works, NEW ph \in Phases \ Holding,
           phase[w] \in Holding,
           phase' = [phase EXCEPT ![w] = ph],
           robotWorkInFlight' = IF robotWorkInFlight > 0 THEN robotWorkInFlight - 1 ELSE 0
    PROVE  CounterIsExact' /\ robotWorkInFlight > 0
<1>1. IsFiniteSet(Holders)
  BY WorksFinite, FS_Subset DEF Holders
<1>2. Holders' = Holders \ {w} /\ w \in Holders
  BY DEF Holders, TypeOK
<1>3. Cardinality(Holders') = Cardinality(Holders) - 1
  BY <1>1, <1>2, FS_RemoveElement
<1>4. Cardinality(Holders) # 0
  BY <1>1, <1>2, FS_EmptySet
<1>5. Cardinality(Holders) \in Nat
  BY <1>1, FS_CardinalityType
<1> QED BY <1>3, <1>4, <1>5 DEF CounterIsExact

\* Moving work between phases on the same side of the counter keeps it exact.
LEMMA HoldersKept ==
    ASSUME TypeOK, CounterIsExact, NEW w \in Works, NEW ph \in Phases,
           phase[w] \in Holding <=> ph \in Holding,
           phase' = [phase EXCEPT ![w] = ph],
           robotWorkInFlight' = robotWorkInFlight
    PROVE  CounterIsExact'
<1>1. Holders' = Holders
  BY DEF Holders, TypeOK
<1> QED BY <1>1 DEF CounterIsExact

\* The initial state.
LEMMA InitIInv == Init => IInv
<1> SUFFICES ASSUME Init PROVE IInv
  OBVIOUS
<1>1. TypeOK
  <2>1. <<>> \in Seq(Ops)
    BY EmptySeq
  <2>2. adm \in AdmState
    BY <2>1 DEF Init, AdmState
  <2> QED BY <2>2 DEF Init, TypeOK, Phases
<1>2. AdmOK(adm)
  BY <1>1 DEF Init, TypeOK, AdmOK
<1>3. CounterIsExact
  <2>1. Holders = {}
    BY DEF Init, Holders, Holding
  <2> QED BY <2>1, FS_EmptySet DEF Init, CounterIsExact
<1> QED BY <1>1, <1>2, <1>3 DEF Init, IInv, AcquiredMeansQuiescent, PreparationHasWaiter, PausedOnlyForOwner

\* Every step of the coordinator, of robot work and of sync keeps it.
LEMMA NextIInv == IInv /\ [Next]_vars => IInv'
<1> SUFFICES ASSUME IInv, [Next]_vars PROVE IInv'
  OBVIOUS
<1> USE DEF IInv
<1> DEFINE e == expireIfNeeded(adm)
<1>e. /\ AdmOK(e)
      /\ e = adm \/ (adm.state = "acquired" /\ e.state = "idle" /\ e.operationId = NoOp /\ e.paused = FALSE)
  BY ExpireOK
<1>q. /\ e.state = "idle" /\ adm.state # "idle" => adm.state = "acquired"
      /\ e.state # "idle" => e = adm
  BY <1>e
<1>1. ASSUME NEW op \in Ops, AcquireNew(op) PROVE IInv'
  <2>1. e \in AdmState
    BY <1>e DEF AdmOK
  <2>2. /\ adm' \in AdmState /\ adm'.state = "preparing" /\ adm'.operationId = op
        /\ adm'.paused /\ adm'.completed = e.completed
    BY <1>1, <2>1 DEF AcquireNew, prepare, AdmState
  <2>3. AdmOK(adm)'
    BY <1>1, <2>2, NoOpIsNotAnOp DEF AdmOK, AcquireNew, IsCompleted
  <2>4. waits' \in [Ops -> Nat] /\ waits'[op] > 0
    BY <1>1 DEF AcquireNew, TypeOK
  <2>5. CounterIsExact'
    BY <1>1 DEF AcquireNew, CounterIsExact, Holders
  <2> QED
    BY <1>1, <2>2, <2>3, <2>4, <2>5, NoOpIsNotAnOp
    DEF AcquireNew, TypeOK, AcquiredMeansQuiescent, PreparationHasWaiter, PausedOnlyForOwner
<1>2. ASSUME NEW op \in Ops, AcquireRenew(op) PROVE IInv'
  <2>1. e = adm
    BY <1>2, <1>q DEF AcquireRenew
  <2>2. /\ adm' \in AdmState /\ adm'.state = adm.state /\ adm'.operationId = adm.operationId
        /\ adm'.paused = adm.paused /\ adm'.completed = adm.completed
    BY <1>2, <2>1 DEF AcquireRenew, renewLease, AdmState, TypeOK
  <2>3. AdmOK(adm)'
    BY <2>2 DEF AdmOK, IsCompleted
  <2>4. CounterIsExact'
    BY <1>2 DEF AcquireRenew, CounterIsExact, Holders
  <2> QED
    BY <1>2, <2>2, <2>3, <2>4
    DEF AcquireRenew, TypeOK, AcquiredMeansQuiescent, PreparationHasWaiter, PausedOnlyForOwner
<1>3. ASSUME NEW a, AdmOK(a), adm' = a,
             \/ a = adm
             \/ a.state = "idle" /\ a.operationId = NoOp /\ a.paused = FALSE,
             UNCHANGED <<running, robotWorkInFlight, phase, shutdownClosed, renewals>>,
             waits' \in [Ops -> Nat],
             adm'.state = "preparing" => waits'[adm'.operationId] > 0
      PROVE IInv'
  <2>1. CounterIsExact'
    BY <1>3 DEF CounterIsExact, Holders
  <2> QED
    BY <1>3, <2>1
    DEF AdmOK, IsCompleted, TypeOK, AcquiredMeansQuiescent, PreparationHasWaiter, PausedOnlyForOwner
<1>4. ASSUME NEW op \in Ops, AcquireAnswered(op) PROVE IInv'
  BY <1>3, <1>4, <1>e DEF AcquireAnswered, TypeOK, PreparationHasWaiter
<1>5. ASSUME NEW op \in Ops, Cancel(op) PROVE IInv'
  <2>1. CASE e.operationId = op
    <3>1. e.state # "idle"
      BY <2>1, <1>e, NoOpIsNotAnOp DEF AdmOK
    <3>2. AdmOK(release(e)) /\ release(e).state = "idle" /\ release(e).operationId = NoOp
          /\ release(e).paused = FALSE
      BY <3>1, <1>e, ReleaseOK
    <3> QED BY <1>3, <1>5, <2>1, <3>2 DEF Cancel, TypeOK
  <2>2. CASE e.operationId # op
    BY <1>3, <1>5, <1>e, <2>2 DEF Cancel, TypeOK, PreparationHasWaiter
  <2> QED BY <2>1, <2>2
<1>6. ASSUME NEW op \in Ops, waits[op] > 0, waits' = [waits EXCEPT ![op] = @ - 1]
      PROVE  /\ waits' \in [Ops -> Nat]
             /\ adm.state = "preparing" /\ adm.operationId # op => waits'[adm.operationId] > 0
  BY <1>6 DEF TypeOK, PreparationHasWaiter, AdmOK, AdmState
<1>7. ASSUME OwnsPreparation(adm.operationId)
      PROVE  AdmOK(release(adm)) /\ release(adm).state = "idle"
             /\ release(adm).operationId = NoOp /\ release(adm).paused = FALSE
  BY <1>7, ReleaseOK DEF OwnsPreparation
<1>8. ASSUME NEW op \in Ops, FinishAcquireIdle(op) PROVE IInv'
  <2>1. CASE ~OwnsPreparation(op)
    BY <1>3, <1>6, <1>8, <2>1 DEF FinishAcquireIdle, OwnsPreparation
  <2>2. CASE OwnsPreparation(op) /\ (getBlockers # {} \/ robotWorkInFlight > 0)
    BY <1>3, <1>6, <1>7, <1>8, <2>2 DEF FinishAcquireIdle, OwnsPreparation
  <2>3. CASE OwnsPreparation(op) /\ getBlockers = {} /\ ~(robotWorkInFlight > 0)
    <3>1. /\ adm' \in AdmState /\ adm'.state = "acquired" /\ adm'.operationId = op
          /\ adm'.paused /\ adm'.completed = adm.completed
      BY <1>8, <2>3 DEF FinishAcquireIdle, OwnsPreparation, renewLease, AdmState, AdmOK
    <3>2. AdmOK(adm)'
      BY <2>3, <3>1 DEF AdmOK, IsCompleted, OwnsPreparation
    <3>3. Holders = {}
      <4>1. IsFiniteSet(Holders)
        BY WorksFinite, FS_Subset DEF Holders
      <4>2. Cardinality(Holders) = 0
        BY <2>3 DEF CounterIsExact, TypeOK
      <4> QED BY <4>1, <4>2, FS_EmptySet
    <3>4. \A w \in Works : phase[w] = "absent"
      BY <2>3, <3>3 DEF getBlockers, Holders, Visible, Holding, TypeOK, Phases
    <3>5. robotWorkInFlight = 0
      BY <2>3 DEF TypeOK
    <3>6. CounterIsExact'
      BY <1>8 DEF FinishAcquireIdle, CounterIsExact, Holders
    <3> QED
      BY <1>6, <1>8, <2>3, <3>1, <3>2, <3>4, <3>5, <3>6, NoOpIsNotAnOp
      DEF FinishAcquireIdle, TypeOK, AcquiredMeansQuiescent, PreparationHasWaiter, PausedOnlyForOwner
  <2> QED BY <2>1, <2>2, <2>3
<1>9. ASSUME NEW op \in Ops, FinishAcquireFailed(op) PROVE IInv'
  <2>1. CASE ~OwnsPreparation(op)
    BY <1>3, <1>6, <1>9, <2>1 DEF FinishAcquireFailed, OwnsPreparation
  <2>2. CASE OwnsPreparation(op)
    BY <1>3, <1>6, <1>7, <1>9, <2>2 DEF FinishAcquireFailed, OwnsPreparation
  <2> QED BY <2>1, <2>2
<1>10. CASE LeaseElapses
  <2>1. /\ adm' \in AdmState /\ adm'.state = adm.state /\ adm'.operationId = adm.operationId
        /\ adm'.paused = adm.paused /\ adm'.completed = adm.completed
    BY <1>10 DEF LeaseElapses, AdmState, TypeOK
  <2>2. AdmOK(adm)'
    BY <2>1 DEF AdmOK, IsCompleted
  <2>3. CounterIsExact'
    BY <1>10 DEF LeaseElapses, CounterIsExact, Holders
  <2> QED
    BY <1>10, <2>1, <2>2, <2>3
    DEF LeaseElapses, TypeOK, AcquiredMeansQuiescent, PreparationHasWaiter, PausedOnlyForOwner
<1>11. CASE Expire
  BY <1>3, <1>11, <1>e DEF Expire, TypeOK, PreparationHasWaiter
<1>12. CASE Shutdown
  <2> DEFINE b == IF adm.operationId # NoOp THEN release(adm) ELSE adm
  <2>1. AdmOK(b) /\ b.state = "idle" /\ b.operationId = NoOp
    BY ReleaseOK DEF AdmOK
  <2>2. /\ adm' \in AdmState /\ adm'.state = "idle" /\ adm'.operationId = NoOp
    BY <1>12, <2>1 DEF Shutdown, AdmState, AdmOK
  <2>3. CounterIsExact'
    BY <1>12 DEF Shutdown, CounterIsExact, Holders
  <2> QED
    BY <1>12, <2>2, <2>3
    DEF Shutdown, AdmOK, TypeOK, AcquiredMeansQuiescent, PreparationHasWaiter, PausedOnlyForOwner
<1>13. ASSUME NEW w \in Works, NEW ph \in Holding, phase[w] \notin Holding, beginRobotWork(w, ph)
       PROVE IInv'
  <2>1. AdmOK(adm)' /\ adm'.state = "idle" /\ adm'.operationId = NoOp
        /\ (adm' = adm \/ adm'.paused = FALSE)
    BY <1>13, AdmitOK DEF beginRobotWork
  <2>2. CounterIsExact'
    BY <1>13, HoldersGrow DEF beginRobotWork
  <2> QED
    BY <1>13, <2>1, <2>2
    DEF beginRobotWork, AdmOK, Holding, Phases, TypeOK, AcquiredMeansQuiescent,
        PreparationHasWaiter, PausedOnlyForOwner
<1>14. ASSUME NEW w \in Works, NEW ph \in Phases \ Holding, phase[w] \in Holding,
              releaseRobotWork(w, ph)
       PROVE IInv'
  <2>1. CounterIsExact' /\ robotWorkInFlight > 0
    BY <1>14, HoldersShrink DEF releaseRobotWork
  <2> QED
    BY <1>14, <2>1
    DEF releaseRobotWork, AdmOK, IsCompleted, TypeOK, AcquiredMeansQuiescent,
        PreparationHasWaiter, PausedOnlyForOwner
<1>15. ASSUME NEW w \in Works, CreateDispatch(w) PROVE IInv'
  <2>1. AdmOK(adm)' /\ adm'.state = "idle" /\ adm'.operationId = NoOp
        /\ (adm' = adm \/ adm'.paused = FALSE)
    BY <1>15, AdmitOK DEF CreateDispatch
  <2>2. CounterIsExact'
    BY <1>15, HoldersKept DEF CreateDispatch, Holding, Phases
  <2> QED
    BY <1>15, <2>1, <2>2
    DEF CreateDispatch, AdmOK, Phases, TypeOK, AcquiredMeansQuiescent,
        PreparationHasWaiter, PausedOnlyForOwner
<1>16. ASSUME NEW w \in Works, NEW ph \in Phases, phase[w] # "absent",
              phase[w] \in Holding <=> ph \in Holding,
              phase' = [phase EXCEPT ![w] = ph],
              UNCHANGED <<adm, waits, running, robotWorkInFlight, shutdownClosed, renewals>>
       PROVE IInv'
  <2>1. CounterIsExact'
    BY <1>16, HoldersKept
  <2> QED
    BY <1>16, <2>1
    DEF AdmOK, IsCompleted, TypeOK, AcquiredMeansQuiescent, PreparationHasWaiter, PausedOnlyForOwner
<1>17. ASSUME NEW w \in Works, WorkStep(w) PROVE IInv'
  <2>1. CASE BeginDispatch(w) \/ BeginDirect(w)
    BY <1>13, <2>1 DEF BeginDispatch, BeginDirect, Holding
  <2>2. CASE EndWork(w)
    BY <1>14, <2>2 DEF EndWork, Holding, Phases
  <2>3. CASE TurnBegins(w) \/ Settle(w) \/ TurnEnds(w)
    BY <1>16, <2>3 DEF TurnBegins, Settle, TurnEnds, Holding, Phases
  <2> QED BY <1>15, <1>17, <2>1, <2>2, <2>3 DEF WorkStep
<1>18. CASE SyncStarts \/ SyncEnds
  BY <1>18
  DEF SyncStarts, SyncEnds, AdmOK, IsCompleted, TypeOK, CounterIsExact, Holders,
      AcquiredMeansQuiescent, PreparationHasWaiter, PausedOnlyForOwner
<1>19. CASE UNCHANGED vars
  BY <1>19
  DEF vars, AdmOK, IsCompleted, TypeOK, CounterIsExact, Holders,
      AcquiredMeansQuiescent, PreparationHasWaiter, PausedOnlyForOwner
<1> QED
  BY <1>1, <1>2, <1>4, <1>5, <1>8, <1>9, <1>10, <1>11, <1>12, <1>17, <1>18, <1>19
  DEF Next, OpStep

\* Every reachable state satisfies the inductive invariant.
THEOREM Invariance == Spec => []IInv
<1>1. Init => IInv
  BY InitIInv
<1>2. IInv /\ [Next]_vars => IInv'
  BY NextIInv
<1> QED BY <1>1, <1>2, PTL DEF Spec

\* Type correctness of the coordinator, its counter and the sync flags.
THEOREM TypeCorrect == Spec => []TypeOK
<1>1. IInv => TypeOK
  BY DEF IInv
<1> QED BY <1>1, Invariance, PTL

\* While a deployment holds the fence nothing runs: no sync cycle, no robot
\* work in any phase, however many operations and units of work there are.
THEOREM FenceIsQuiescent == Spec => []AcquiredMeansQuiescent
<1>1. IInv => AcquiredMeansQuiescent
  BY DEF IInv
<1> QED BY <1>1, Invariance, PTL

\* The counter finishAcquire relies on counts the admissions held.
THEOREM CounterExact == Spec => []CounterIsExact
<1>1. IInv => CounterIsExact
  BY DEF IInv
<1> QED BY <1>1, Invariance, PTL

\* A finished operation is not resurrected while its answer is remembered.
THEOREM NoResurrection == Spec => []OwnerIsUnanswered
<1>1. IInv => OwnerIsUnanswered
  BY DEF IInv, AdmOK, OwnerIsUnanswered
<1> QED BY <1>1, Invariance, PTL

\* No preparation is left without a finishAcquire call that ends it, and sync
\* is paused exactly under an owner until shutdown.
THEOREM FenceIsManned == Spec => []FenceIsAttended
<1>1. IInv => FenceIsAttended
  BY DEF IInv, FenceIsAttended
<1> QED BY <1>1, Invariance, PTL

\* Neither robot work nor a late finishAcquire ends a fence whose lease lives,
\* for any number of overlapping acquisitions and of units of work.
THEOREM FenceSurvives == Spec => HeldFenceSurvives
<1>1. IInv /\ [Next]_vars
        => [(adm.state = "acquired" /\ adm.lease = "live" /\ adm'.state # "acquired")
              => UNCHANGED <<phase, robotWorkInFlight, waits, running>>]_vars
  <2> SUFFICES ASSUME IInv, Next, adm.state = "acquired", adm.lease = "live", adm'.state # "acquired"
               PROVE  UNCHANGED <<phase, robotWorkInFlight, waits, running>>
    OBVIOUS
  <2>1. expireIfNeeded(adm) = adm /\ ~Admits /\ adm \in AdmState
    BY DEF expireIfNeeded, Admits, IInv, TypeOK
  <2>2. ASSUME NEW op \in Ops, OpStep(op) PROVE UNCHANGED <<phase, robotWorkInFlight, waits, running>>
    <3>1. ~AcquireNew(op) /\ ~OwnsPreparation(op)
      BY <2>1 DEF AcquireNew, OwnsPreparation
    <3>2. ~FinishAcquireIdle(op) /\ ~FinishAcquireFailed(op) /\ ~AcquireAnswered(op)
      BY <2>1, <3>1 DEF FinishAcquireIdle, FinishAcquireFailed, AcquireAnswered
    <3>3. CASE AcquireRenew(op)
      BY <3>3 DEF AcquireRenew
    <3>4. CASE Cancel(op)
      BY <3>4 DEF Cancel
    <3> QED
      BY <2>2, <3>1, <3>2, <3>3, <3>4 DEF OpStep
  <2>3. ASSUME NEW w \in Works PROVE ~WorkStep(w)
    BY <2>1 DEF WorkStep, CreateDispatch, BeginDispatch, BeginDirect, beginRobotWork, TurnBegins,
                EndWork, releaseRobotWork, Settle, TurnEnds
  <2>4. ~LeaseElapses /\ ~Expire /\ ~SyncStarts /\ ~SyncEnds
    BY <2>1 DEF LeaseElapses, Expire, SyncStarts, SyncEnds, AdmState
  <2>5. CASE Shutdown
    BY <2>5 DEF Shutdown
  <2> QED
    BY <2>2, <2>3, <2>4, <2>5 DEF Next
<1> QED
  BY <1>1, Invariance, PTL DEF Spec, HeldFenceSurvives
=============================================================================
