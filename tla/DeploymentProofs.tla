-------------------------- MODULE DeploymentProofs --------------------------
(***************************************************************************)
(* Proofs about Deployment, for any number of runs of the script, of units *)
(* of robot work and of faults.  The coordinator's own invariant is the    *)
(* one of DeploymentAdmissionProofs: a step of a deployment is a step of   *)
(* the coordinator, leaves it alone or replaces a container.               *)
(***************************************************************************)
EXTENDS Deployment, DeploymentAdmissionProofs

(* The inductive invariant.                                                *)

\* What the script of one run records of its own way, whatever the others do: a drain
\* is its own to cancel from the moment it asks for one, and is cancelled before the
\* third round and before it replaces the forum.
Draining == {"monika", "both", "backup"}
Way(s) ==
    /\ s.cancelDrain => s.kind \in Draining /\ s.round # 3 /\ s.at \notin {"off", "forum", "ready", "done"}
    /\ s.at = "reopen" /\ s.cancelDrain => s.kind = "backup"
    /\ s.kind = "backup" => s.round = 1
    /\ s.at \in {"quiesce", "drain", "publish", "probe"} => s.kind \in Draining /\ s.round \in {1, 2}
    /\ s.at \in {"publish", "probe"} => s.cancelDrain
    /\ s.at \in {"monika", "undrain", "undrained"} => s.kind \in {"monika", "both"}
    /\ s.at \in {"acquire", "wait", "monika"} /\ s.round = 2 /\ s.kind \in Draining => s.cancelDrain
    /\ s.at = "monika" => s.round = 2
    /\ s.at = "off" => s.round = 1

\* What the coordinator's state a says to the run op: told yes, it owns the fence, and
\* the lease does not run out before it has replaced what it came for.
Fenced(op, s, a) ==
    /\ s.at \in {"wait", "monika", "forum"} /\ a.operationId = op /\ a.state = "acquired" => a.lease # "due"
    /\ (s.at = "wait" /\ s.answer = "yes") \/ s.at \in {"monika", "forum"} =>
          a.operationId = op /\ a.state = "acquired"
    /\ s.at = "done" => a.operationId # op

\* A run that may have left agentd draining, and one that may have left the record:
\* its cancellation removes the record before it ends the drain.
Owes(s) == s.cancelDrain \/ s.at \in {"trap", "trapped", "ended", "dead"}
OwesRecord(s) == Owes(s) /\ s.at \notin {"undrained", "trapped"}
DrainInv ==
    /\ agentd.draining => \E op \in Ops : Owes(script[op])
    /\ agentd.file => \E op \in Ops : OwesRecord(script[op])

\* With one run at a time, nobody else ends the drain that a run has begun, so what
\* its probe found is still so when it replaces agentd.
Ended(s) == s.at \in {"off", "ended", "done", "dead"}
Drained(s, ag, work) ==
    /\ s.at = "publish" => ag.draining
    /\ s.at = "probe" => ag.draining /\ ag.file
    /\ s.at \in {"acquire", "wait", "monika"} /\ s.round = 2 /\ s.kind \in Draining =>
          ag.draining /\ ag.file /\ ~work
AloneInv ==
    ~Overlap =>
        /\ \A op, other \in Ops : op # other => Ended(script[op]) \/ Ended(script[other])
        /\ \A op \in Ops : Drained(script[op], agentd, localWork)

DeployInv ==
    /\ DeployTypeOK /\ IInv
    /\ \A op \in Ops : Way(script[op]) /\ Fenced(op, script[op], adm)
    /\ DrainInv /\ AloneInv

-----------------------------------------------------------------------------
(* The coordinator, as another run sees it.                                *)

\* A step of the coordinator that is none of o's business: it does not take
\* from o a fence that is not overdue, nor give o one.
Foreign(o) ==
    /\ adm.operationId = o /\ adm.state = "acquired" /\ adm.lease # "due" => adm' = adm
    /\ adm'.operationId = o /\ adm'.state = "acquired" => adm' = adm
    /\ adm'.operationId = o => adm.operationId = o

\* What o was told stays true under such a step.
LEMMA ForeignKeeps ==
    ASSUME NEW o \in Ops, NEW s, Fenced(o, s, adm), Foreign(o)
    PROVE  Fenced(o, s, adm')
BY DEF Fenced, Foreign

\* expireIfNeeded keeps the coordinator, or releases an overdue fence.
LEMMA Expired ==
    ASSUME IInv
    PROVE  /\ AdmOK(adm) /\ AdmOK(expireIfNeeded(adm))
           /\ \/ expireIfNeeded(adm) = adm /\ ~(adm.state = "acquired" /\ adm.lease = "due")
              \/ /\ adm.state = "acquired" /\ adm.lease = "due"
                 /\ expireIfNeeded(adm).state = "idle" /\ expireIfNeeded(adm).operationId = NoOp
<1>1. AdmOK(adm)
  BY DEF IInv
<1>2. AdmOK(expireIfNeeded(adm))
  BY <1>1, ExpireOK
<1>3. adm.state = "acquired" /\ adm.lease = "due" =>
        expireIfNeeded(adm).state = "idle" /\ expireIfNeeded(adm).operationId = NoOp
  BY <1>1, ReleaseOK DEF expireIfNeeded
<1> QED BY <1>1, <1>2, <1>3 DEF expireIfNeeded

\* A new acquisition waits for its answer.
LEMMA NewFacts ==
    ASSUME IInv, NEW op \in Ops, AcquireNew(op)
    PROVE  adm'.state = "preparing" /\ adm'.operationId = op /\ \A o \in Ops \ {op} : Foreign(o)
<1> DEFINE e == expireIfNeeded(adm)
<1>1. e \in AdmState /\ adm' = prepare(e, op) /\ e.state = "idle"
  BY Expired DEF AdmOK, AcquireNew
<1>2. adm'.state = "preparing" /\ adm'.operationId = op
  BY <1>1 DEF prepare, AdmState
<1>3. ~(adm.state = "acquired" /\ adm.lease # "due")
  BY <1>1, Expired
<1> QED BY <1>2, <1>3 DEF Foreign

\* A renewed fence is its owner's and live.
LEMMA RenewFacts ==
    ASSUME IInv, NEW op \in Ops, AcquireRenew(op)
    PROVE  adm'.state = "acquired" /\ adm'.operationId = op /\ adm'.lease = "live" /\ \A o \in Ops \ {op} : Foreign(o)
<1>1. /\ adm \in AdmState /\ adm' = renewLease(adm) /\ adm.operationId = op /\ adm.state = "acquired"
  BY Expired, NoOpIsNotAnOp DEF AdmOK, AcquireRenew
<1>2. adm'.state = "acquired" /\ adm'.operationId = op /\ adm'.lease = "live"
  BY <1>1 DEF renewLease, AdmState
<1> QED BY <1>1, <1>2 DEF Foreign

\* An acquisition that is answered, or a cancellation, leaves no overdue fence, and
\* takes a fence only from op.
LEMMA AnsweredFacts ==
    ASSUME IInv, NEW op \in Ops, AcquireAnswered(op)
    PROVE  /\ adm'.state = "acquired" => adm'.lease # "due"
           /\ \A o \in Ops \ {op} : Foreign(o)
<1>1. adm' = expireIfNeeded(adm)
  BY DEF AcquireAnswered
<1> QED BY <1>1, Expired, NoOpIsNotAnOp DEF Foreign

\* A cancellation takes the fence from op, and from nobody else who has it.
LEMMA CancelFacts ==
    ASSUME IInv, NEW op \in Ops, Cancel(op)
    PROVE  /\ adm'.operationId # op
           /\ \A o \in Ops \ {op} : Foreign(o)
<1> DEFINE e == expireIfNeeded(adm)
<1>1. adm' = IF e.operationId = op THEN release(e) ELSE e
  BY DEF Cancel
<1>2. CASE e.operationId = op
  <2>1. e.state # "idle" /\ AdmOK(e) /\ e = adm
    BY <1>2, Expired, NoOpIsNotAnOp DEF AdmOK
  <2>2. adm'.operationId = NoOp /\ adm'.state = "idle"
    BY <1>1, <1>2, <2>1, ReleaseOK
  <2> QED BY <1>2, <2>1, <2>2, NoOpIsNotAnOp DEF Foreign
<1>3. CASE e.operationId # op
  BY <1>1, <1>3, Expired, NoOpIsNotAnOp DEF Foreign
<1> QED BY <1>2, <1>3

\* finishAcquire decides for the preparation of op only.
LEMMA FinishFacts ==
    ASSUME IInv, NEW op \in Ops, FinishAcquireIdle(op) \/ FinishAcquireFailed(op)
    PROVE  /\ \A o \in Ops \ {op} : Foreign(o)
           /\ adm' = adm \/ (OwnsPreparation(op) /\ (adm'.operationId = NoOp
                                \/ (adm'.state = "acquired" /\ adm'.lease = "live" /\ adm'.operationId = op)))
<1>1. AdmOK(adm) /\ adm \in AdmState
  BY DEF IInv, AdmOK
<1>2. CASE adm' = adm
  BY <1>2 DEF Foreign
<1>3. CASE OwnsPreparation(op) /\ adm' = release(adm)
  <2>1. adm'.operationId = NoOp /\ adm'.state = "idle"
    BY <1>1, <1>3, ReleaseOK DEF OwnsPreparation
  <2> QED BY <1>3, <2>1, NoOpIsNotAnOp DEF Foreign, OwnsPreparation
<1>4. CASE OwnsPreparation(op) /\ adm' = renewLease([adm EXCEPT !.state = "acquired"])
  <2>1. adm'.state = "acquired" /\ adm'.lease = "live" /\ adm'.operationId = op
    BY <1>1, <1>4 DEF renewLease, AdmState, OwnsPreparation
  <2> QED BY <1>4, <2>1 DEF Foreign, OwnsPreparation
<1> QED BY <1>2, <1>3, <1>4 DEF FinishAcquireIdle, FinishAcquireFailed

\* Robot work that begins takes no fence that is held.
LEMMA AdmitFacts ==
    ASSUME IInv, Admits, adm' = revokePreparing(expireIfNeeded(adm))
    PROVE  \A o \in Ops : Foreign(o)
<1>1. adm'.operationId = NoOp /\ adm'.state = "idle"
  BY AdmitOK DEF IInv
<1>2. ~(adm.state = "acquired" /\ adm.lease # "due")
  BY Expired DEF Admits
<1> QED BY <1>1, <1>2, NoOpIsNotAnOp DEF Foreign

-----------------------------------------------------------------------------
(* Steps of one run.                                                       *)

\* The coordinator does its own step, or none.
LEMMA CoordinatorStep ==
    ASSUME IInv, (\E op \in Ops : OpStep(op)) \/ (\E w \in Works : WorkStep(w)) \/ LeaseElapses \/ Expire
                 \/ SyncStarts \/ SyncEnds \/ UNCHANGED coordinator
    PROVE  IInv'
<1>1. UNCHANGED coordinator => UNCHANGED vars
  BY DEF coordinator, vars
<1>2. [Next]_vars
  BY <1>1 DEF Next
<1> QED BY <1>2, NextIInv

\* The script of op goes on as r: the drain it leaves behind it owes, the record too.
LEMMA RunInv ==
    ASSUME DeployInv, IInv', NEW op \in Ops, NEW r \in Script, script' = [script EXCEPT ![op] = r],
           Way(r), Fenced(op, r, adm'), \A o \in Ops \ {op} : Foreign(o),
           agentd' \in Agentd, localWork' \in BOOLEAN, faults' \in 0..MaxFaults,
           agentd'.draining => agentd.draining \/ Owes(r),
           Owes(script[op]) /\ ~Owes(r) => ~agentd'.draining,
           agentd'.file => agentd.file \/ OwesRecord(r),
           OwesRecord(script[op]) /\ ~OwesRecord(r) => ~agentd'.file,
           ~Overlap /\ ~Ended(r) => ~Ended(script[op]) \/ \A o \in Ops \ {op} : Ended(script[o]),
           ~Overlap => UNCHANGED <<agentd, localWork>> \/ \A o \in Ops \ {op} : Ended(script[o]),
           ~Overlap => Drained(r, agentd', localWork')
    PROVE  DeployInv'
<1>1. script \in [Ops -> Script] /\ script' \in [Ops -> Script]
  BY DEF DeployInv, DeployTypeOK
<1>2. script'[op] = r /\ \A o \in Ops \ {op} : script'[o] = script[o]
  BY <1>1
<1>3. DeployTypeOK'
  BY <1>1 DEF DeployTypeOK, IInv
<1>4. \A o \in Ops : Way(script'[o]) /\ Fenced(o, script'[o], adm')
  BY <1>2, ForeignKeeps DEF DeployInv
<1>5. DrainInv'
  <2>1. ASSUME agentd'.draining PROVE \E o \in Ops : Owes(script'[o])
    <3>1. CASE Owes(r)
      BY <3>1, <1>2
    <3>2. CASE ~Owes(r)
      <4>1. PICK o \in Ops : Owes(script[o])
        BY <2>1, <3>2 DEF DeployInv, DrainInv
      <4>2. o # op
        BY <2>1, <3>2, <4>1
      <4> QED BY <4>1, <4>2, <1>2
    <3> QED BY <3>1, <3>2
  <2>2. ASSUME agentd'.file PROVE \E o \in Ops : OwesRecord(script'[o])
    <3>1. CASE OwesRecord(r)
      BY <3>1, <1>2
    <3>2. CASE ~OwesRecord(r)
      <4>1. PICK o \in Ops : OwesRecord(script[o])
        BY <2>2, <3>2 DEF DeployInv, DrainInv
      <4>2. o # op
        BY <2>2, <3>2, <4>1
      <4> QED BY <4>1, <4>2, <1>2
    <3> QED BY <3>1, <3>2
  <2> QED BY <2>1, <2>2 DEF DrainInv
<1>6. AloneInv'
  <2> SUFFICES ASSUME ~Overlap
               PROVE  /\ \A o, p \in Ops : o # p => Ended(script'[o]) \/ Ended(script'[p])
                      /\ \A o \in Ops : Drained(script'[o], agentd', localWork')
    BY DEF AloneInv
  <2>1. ASSUME NEW o \in Ops, NEW p \in Ops, o # p PROVE Ended(script'[o]) \/ Ended(script'[p])
    BY <2>1, <1>2 DEF DeployInv, AloneInv
  <2>2. ASSUME NEW o \in Ops PROVE Drained(script'[o], agentd', localWork')
    <3>1. CASE o = op
      BY <3>1, <1>2
    <3>2. CASE o # op /\ UNCHANGED <<agentd, localWork>>
      BY <3>2, <1>2 DEF DeployInv, AloneInv
    <3>3. CASE o # op /\ Ended(script[o])
      BY <3>3, <1>2 DEF Ended, Drained
    <3> QED BY <3>1, <3>2, <3>3
  <2> QED BY <2>1, <2>2
<1> QED BY <1>3, <1>4, <1>5, <1>6 DEF DeployInv

\* What the invariant says of one run and of agentd.
LEMMA RunFacts ==
    ASSUME DeployInv, NEW op \in Ops
    PROVE  /\ IInv /\ script[op] \in Script /\ Way(script[op]) /\ Fenced(op, script[op], adm)
           /\ agentd \in Agentd /\ localWork \in BOOLEAN /\ faults \in 0..MaxFaults
           /\ ~Overlap => Drained(script[op], agentd, localWork)
           /\ ~Overlap /\ ~Ended(script[op]) => \A o \in Ops \ {op} : Ended(script[o])
BY DEF DeployInv, DeployTypeOK, AloneInv

\* The script goes on at another step.
LEMMA AtFacts ==
    ASSUME NEW s \in Script, NEW step \in Steps
    PROVE  LET r == [s EXCEPT !.at = step]
           IN  /\ r \in Script /\ r.at = step /\ r.round = s.round /\ r.kind = s.kind
               /\ r.cancelDrain = s.cancelDrain /\ r.acquired = s.acquired /\ r.answer = s.answer
BY DEF Script

\* A step of the script alone, which is neither at its end nor owes less after it.
LEMMA ScriptStepInv ==
    ASSUME DeployInv, NEW op \in Ops, NEW r \in Script, script' = [script EXCEPT ![op] = r],
           UNCHANGED <<coordinator, agentd, localWork>>, faults' \in 0..MaxFaults,
           Way(r), Fenced(op, r, adm), Owes(script[op]) => Owes(r), OwesRecord(script[op]) => OwesRecord(r),
           ~Overlap => Drained(r, agentd, localWork),
           ~Overlap /\ ~Ended(r) => ~Ended(script[op]) \/ \A o \in Ops \ {op} : Ended(script[o])
    PROVE  DeployInv'
<1>1. IInv' /\ adm' = adm
  BY CoordinatorStep DEF DeployInv, coordinator
<1>2. \A o \in Ops \ {op} : Foreign(o)
  BY <1>1 DEF Foreign
<1> QED BY <1>1, <1>2, RunInv, RunFacts

\* StartScript: nothing is owed yet.
LEMMA StartScriptInv == ASSUME DeployInv, NEW op \in Ops, StartScript(op) PROVE DeployInv'
<1> DEFINE s == script[op]
           r == [s EXCEPT !.at = "acquire"]
<1>1. /\ s \in Script /\ s.at = "off" /\ Way(s) /\ faults \in 0..MaxFaults
      /\ UNCHANGED <<coordinator, agentd, localWork, faults>>
  BY RunFacts DEF StartScript, At, ScriptOnly
<1>2. /\ r \in Script /\ r.at = "acquire" /\ r.round = s.round /\ r.kind = s.kind /\ r.cancelDrain = s.cancelDrain
  <2>1. "acquire" \in Steps
    BY DEF Steps
  <2> QED BY <1>1, <2>1 DEF Script
<1>3. script' = [script EXCEPT ![op] = r]
  BY DEF StartScript, Goto
<1>4. ~Overlap => \A o \in Ops \ {op} : Ended(script[o])
  BY DEF StartScript, Over, Ended
<1> HIDE DEF r
<1>5. ~s.cancelDrain /\ s.round = 1
  BY <1>1 DEF Way
<1>6. Way(r)
  BY <1>1, <1>2, <1>5 DEF Way
<1>7. Fenced(op, r, adm) /\ Drained(r, agentd, localWork)
  BY <1>2, <1>5 DEF Fenced, Drained
<1>8. ~Owes(s)
  BY <1>1, <1>5 DEF Owes
<1> QED BY <1>1, <1>2, <1>3, <1>4, <1>6, <1>7, <1>8, ScriptStepInv DEF OwesRecord

\* A run that goes on without the coordinator and agentd.
LEMMA GotoInv ==
    ASSUME DeployInv, NEW op \in Ops, NEW step \in Steps, Goto(op, step), ~Ended(script[op]),
           UNCHANGED <<coordinator, agentd, localWork>>, faults' \in 0..MaxFaults,
           script[op].at \notin {"trap", "trapped"},
           \/ step \in {"trap", "dead"}
           \/ /\ step \notin {"undrained", "trapped"}
              /\ \A r \in Script :
                    /\ r.at = step /\ r.round = script[op].round /\ r.kind = script[op].kind
                    /\ r.cancelDrain = script[op].cancelDrain /\ r.answer = script[op].answer
                    => Way(r) /\ Fenced(op, r, adm) /\ (~Overlap => Drained(r, agentd, localWork))
    PROVE  DeployInv'
<1> DEFINE s == script[op]
           r == [s EXCEPT !.at = step]
<1>1. s \in Script /\ Way(s)
  BY RunFacts
<1>2. /\ r \in Script /\ r.at = step /\ r.round = s.round /\ r.kind = s.kind
      /\ r.cancelDrain = s.cancelDrain /\ r.answer = s.answer
  BY <1>1, AtFacts
<1>3. script' = [script EXCEPT ![op] = r]
  BY DEF Goto
<1> HIDE DEF r
<1>4. Way(r) /\ Fenced(op, r, adm) /\ (~Overlap => Drained(r, agentd, localWork))
  <2>1. CASE step \in {"trap", "dead"}
    BY <2>1, <1>1, <1>2 DEF Way, Fenced, Drained
  <2>2. CASE step \notin {"trap", "dead"}
    BY <2>2, <1>2
  <2> QED BY <2>1, <2>2
<1>5. s.at \notin {"trap", "trapped", "ended", "dead"} /\ step \notin {"undrained", "trapped"}
  BY DEF Ended
<1>6. (Owes(s) => Owes(r)) /\ (OwesRecord(s) => OwesRecord(r))
  BY <1>2, <1>5 DEF Owes, OwesRecord
<1> QED BY <1>2, <1>3, <1>4, <1>6, ScriptStepInv

\* The forum's answer: told yes, the run goes on behind the fence it owns.
LEMMA ForumAnswersInv == ASSUME DeployInv, NEW op \in Ops, ForumAnswers(op) PROVE DeployInv'
<1> DEFINE s == script[op]
           step == IF s.answer = "yes" THEN AfterAcquire(op) ELSE "trap"
<1>1. /\ s \in Script /\ Way(s) /\ Fenced(op, s, adm) /\ (~Overlap => Drained(s, agentd, localWork))
      /\ s.at = "wait" /\ Goto(op, step) /\ UNCHANGED <<coordinator, agentd, localWork>> /\ faults' \in 0..MaxFaults
  BY RunFacts DEF ForumAnswers, At, ScriptOnly
<1>2. s.kind \in {"monika", "forum", "both", "backup"} /\ s.round \in {1, 2, 3}
  <2>1. s.kind \in Kinds /\ s.round \in 1..3
    BY <1>1 DEF Script
  <2>2. 1..3 = {1, 2, 3}
    OBVIOUS
  <2> QED BY <2>1, <2>2, DeploymentConstants
<1>3. CASE s.answer # "yes"
  BY <1>1, <1>3, GotoInv DEF Ended, Steps
<1>4. CASE s.answer = "yes"
  <2>1. step = AfterAcquire(op) /\ step \in {"quiesce", "backup", "monika", "forum"}
    BY <1>4 DEF AfterAcquire
  <2>2. /\ step = "quiesce" => s.round = 1 /\ s.kind \in Draining
        /\ step = "backup" => s.round = 1
        /\ step = "monika" => s.round = 2 /\ s.kind \in {"monika", "both"}
        /\ step = "forum" => s.round = 3 \/ (s.round = 2 /\ s.kind \notin {"monika", "both"})
    BY <1>2, <1>4 DEF AfterAcquire, Drains, Replaces, Draining
  <2> HIDE DEF step
  <2>3. ASSUME NEW r \in Script, r.at = step, r.round = s.round, r.kind = s.kind, r.cancelDrain = s.cancelDrain,
               r.answer = s.answer
        PROVE  Way(r) /\ Fenced(op, r, adm) /\ (~Overlap => Drained(r, agentd, localWork))
    <3>1. Way(r)
      BY <1>1, <1>2, <2>1, <2>2, <2>3 DEF Way, Draining
    <3>2. Fenced(op, r, adm)
      BY <1>1, <1>4, <2>1, <2>3 DEF Fenced
    <3>3. ~Overlap => Drained(r, agentd, localWork)
      BY <1>1, <2>1, <2>3 DEF Drained
    <3> QED BY <3>1, <3>2, <3>3
  <2>4. step \in Steps
    BY <2>1 DEF Steps
  <2>5. ~Ended(s) /\ s.at \notin {"trap", "trapped"} /\ step \notin {"undrained", "trapped"}
    BY <1>1, <2>1 DEF Ended
  <2> QED BY <1>1, <2>3, <2>4, <2>5, GotoInv
<1> QED BY <1>3, <1>4

\* The quiescence request.
LEMMA QuiescenceInv == ASSUME DeployInv, NEW op \in Ops, Quiescence(op) PROVE DeployInv'
<1> DEFINE s == script[op]
           step == IF AgentdBusy THEN "trap" ELSE "drain"
<1>1. /\ s \in Script /\ Way(s) /\ s.at = "quiesce" /\ Goto(op, step)
      /\ UNCHANGED <<coordinator, agentd, localWork>> /\ faults' \in 0..MaxFaults
  BY RunFacts DEF Quiescence, At, ScriptOnly
<1>2. step \in {"trap", "drain"} /\ step \in Steps
  BY DEF Steps
<1> HIDE DEF step
<1>3. \A r \in Script :
         /\ r.at = step /\ r.round = s.round /\ r.kind = s.kind /\ r.cancelDrain = s.cancelDrain /\ r.answer = s.answer
         => Way(r) /\ Fenced(op, r, adm) /\ (~Overlap => Drained(r, agentd, localWork))
  BY <1>1, <1>2 DEF Way, Fenced, Drained
<1> QED BY <1>1, <1>2, <1>3, GotoInv DEF Ended

\* The probe found agentd idle, under a drain that is on record.
LEMMA ProbeInv == ASSUME DeployInv, NEW op \in Ops, Probe(op) PROVE DeployInv'
<1> DEFINE s == script[op]
           step == IF AgentdBusy THEN "trap" ELSE IF script[op].round = 1 THEN "backup" ELSE "acquire"
<1>1. /\ s \in Script /\ Way(s) /\ s.at = "probe" /\ Goto(op, step) /\ (~Overlap => Drained(s, agentd, localWork))
      /\ UNCHANGED <<coordinator, agentd, localWork>> /\ faults' \in 0..MaxFaults
  BY RunFacts DEF Probe, At, ScriptOnly
<1>2. step \in {"trap", "backup", "acquire"} /\ step \in Steps /\ (step = "acquire" => ~localWork)
  BY DEF Steps, AgentdBusy
<1> HIDE DEF step
<1>3. \A r \in Script :
         /\ r.at = step /\ r.round = s.round /\ r.kind = s.kind /\ r.cancelDrain = s.cancelDrain /\ r.answer = s.answer
         => Way(r) /\ Fenced(op, r, adm) /\ (~Overlap => Drained(r, agentd, localWork))
  BY <1>1, <1>2 DEF Way, Fenced, Drained
<1> QED BY <1>1, <1>2, <1>3, GotoInv DEF Ended

\* The health checks after a replacement.
LEMMA ReadyInv == ASSUME DeployInv, NEW op \in Ops, Ready(op) PROVE DeployInv'
<1> DEFINE s == script[op]
<1>1. /\ s \in Script /\ Way(s) /\ s.at = "ready" /\ Goto(op, "reopen")
      /\ UNCHANGED <<coordinator, agentd, localWork>> /\ faults' \in 0..MaxFaults
  BY RunFacts DEF Ready, At, ScriptOnly
<1>2. \A r \in Script :
         /\ r.at = "reopen" /\ r.round = s.round /\ r.kind = s.kind /\ r.cancelDrain = s.cancelDrain /\ r.answer = s.answer
         => Way(r) /\ Fenced(op, r, adm) /\ (~Overlap => Drained(r, agentd, localWork))
  BY <1>1 DEF Way, Fenced, Drained
<1> QED BY <1>1, <1>2, GotoInv DEF Ended, Steps

\* A fault is counted within its bound.
LEMMA FaultCounted == ASSUME DeployInv, Fault PROVE faults' \in 0..MaxFaults
BY DeploymentConstants DEF DeployInv, DeployTypeOK, Fault

\* The script dies without its trap.
LEMMA DiesInv == ASSUME DeployInv, NEW op \in Ops, Dies(op) PROVE DeployInv'
<1>1. /\ Goto(op, "dead") /\ UNCHANGED <<coordinator, agentd, localWork>> /\ faults' \in 0..MaxFaults
      /\ ~Ended(script[op])
  BY FaultCounted DEF Dies, Over, Ended
<1>2. CASE script[op].at \notin {"trap", "trapped"}
  BY <1>1, <1>2, GotoInv DEF Steps
<1>3. CASE script[op].at \in {"trap", "trapped"}
  <2> DEFINE s == script[op]
             r == [s EXCEPT !.at = "dead"]
  <2>1. s \in Script /\ Way(s)
    BY RunFacts
  <2>2. r \in Script /\ r.at = "dead" /\ r.round = s.round /\ r.kind = s.kind /\ r.cancelDrain = s.cancelDrain
    BY <2>1, AtFacts DEF Steps
  <2>3. script' = [script EXCEPT ![op] = r]
    BY <1>1 DEF Goto
  <2> HIDE DEF r
  <2>4. Way(r) /\ Fenced(op, r, adm) /\ Drained(r, agentd, localWork) /\ Owes(r) /\ OwesRecord(r)
    BY <2>1, <2>2 DEF Way, Fenced, Drained, Owes, OwesRecord
  <2> QED BY <1>1, <2>2, <2>3, <2>4, ScriptStepInv
<1> QED BY <1>2, <1>3

\* The names of the steps.
LEMMA StepNames ==
    /\ "acquire" \in Steps /\ "wait" \in Steps /\ "quiesce" \in Steps /\ "publish" \in Steps /\ "probe" \in Steps
    /\ "undrain" \in Steps /\ "undrained" \in Steps /\ "ready" \in Steps /\ "reopen" \in Steps /\ "done" \in Steps
    /\ "trap" \in Steps /\ "trapped" \in Steps /\ "ended" \in Steps
BY DEF Steps

\* The scripts are functions of the runs, and a run under way is alone.
LEMMA ScriptFacts ==
    ASSUME DeployInv, NEW op \in Ops
    PROVE  /\ script \in [Ops -> Script] /\ script[op].round \in 1..3 /\ script[op].cancelDrain \in BOOLEAN
           /\ script[op].acquired \in BOOLEAN
           /\ ~Overlap /\ ~Ended(script[op]) => \A o \in Ops \ {op} : Ended(script[o])
BY DEF DeployInv, DeployTypeOK, AloneInv, Script

\* A run acts on agentd and leaves the coordinator alone.
LEMMA AgentdStepInv ==
    ASSUME DeployInv, NEW op \in Ops, NEW r \in Script, script' = [script EXCEPT ![op] = r], ~Ended(script[op]),
           UNCHANGED <<coordinator, localWork, faults>>, Way(r), Fenced(op, r, adm), agentd' \in Agentd,
           agentd'.draining => agentd.draining \/ Owes(r),
           Owes(script[op]) /\ ~Owes(r) => ~agentd'.draining,
           agentd'.file => agentd.file \/ OwesRecord(r),
           OwesRecord(script[op]) /\ ~OwesRecord(r) => ~agentd'.file,
           ~Overlap => Drained(r, agentd', localWork)
    PROVE  DeployInv'
<1>1. IInv' /\ adm' = adm
  BY CoordinatorStep DEF DeployInv, coordinator
<1>2. \A o \in Ops \ {op} : Foreign(o)
  BY <1>1 DEF Foreign
<1>3. localWork' \in BOOLEAN /\ faults' \in 0..MaxFaults
  BY RunFacts
<1>4. ~Overlap => Drained(r, agentd', localWork')
  OBVIOUS
<1> QED BY <1>1, <1>2, <1>3, <1>4, RunInv, ScriptFacts

\* The drain begins: from here on it is the run's to cancel.
LEMMA DrainStepInv == ASSUME DeployInv, NEW op \in Ops, Drain(op) PROVE DeployInv'
<1> DEFINE s == script[op]
           r == [s EXCEPT !.at = "publish", !.cancelDrain = TRUE]
           g == [agentd EXCEPT !.draining = TRUE, !.timer = TRUE]
<1>1. s \in Script /\ Way(s) /\ s.at = "drain" /\ agentd \in Agentd /\ UNCHANGED <<coordinator, localWork, faults>>
  BY RunFacts DEF Drain, At
<1>2. agentd' = g /\ script' = [script EXCEPT ![op] = r]
  BY ScriptFacts DEF Drain, Script
<1>3. r \in Script /\ r.at = "publish" /\ r.round = s.round /\ r.kind = s.kind /\ r.cancelDrain = TRUE
  BY <1>1, StepNames DEF Script
<1>4. g \in Agentd /\ g.draining = TRUE /\ g.file = agentd.file
  BY <1>1 DEF Agentd
<1> HIDE DEF r, g
<1>5. Way(r) /\ Fenced(op, r, adm) /\ Drained(r, g, localWork) /\ Owes(r) /\ OwesRecord(r) /\ ~Ended(s)
  BY <1>1, <1>3, <1>4 DEF Way, Fenced, Drained, Owes, OwesRecord, Ended
<1> QED BY <1>1, <1>2, <1>3, <1>4, <1>5, AgentdStepInv

\* The drain is on record.
LEMMA PublishInv == ASSUME DeployInv, NEW op \in Ops, Publish(op) PROVE DeployInv'
<1> DEFINE s == script[op]
           r == [s EXCEPT !.at = "probe"]
           g == [agentd EXCEPT !.file = TRUE]
<1>1. /\ s \in Script /\ Way(s) /\ s.at = "publish" /\ agentd \in Agentd /\ UNCHANGED <<coordinator, localWork, faults>>
      /\ (~Overlap => Drained(s, agentd, localWork))
  BY RunFacts DEF Publish, At
<1>2. agentd' = g /\ script' = [script EXCEPT ![op] = r]
  BY DEF Publish, Goto
<1>3. r \in Script /\ r.at = "probe" /\ r.round = s.round /\ r.kind = s.kind /\ r.cancelDrain = s.cancelDrain
  BY <1>1, StepNames DEF Script
<1>4. g \in Agentd /\ g.draining = agentd.draining /\ g.file = TRUE
  BY <1>1 DEF Agentd
<1> HIDE DEF r, g
<1>5. Way(r) /\ Fenced(op, r, adm) /\ s.cancelDrain
  BY <1>1, <1>3 DEF Way, Fenced
<1>6. (~Overlap => Drained(r, g, localWork)) /\ Owes(r) /\ OwesRecord(r) /\ ~Ended(s)
  BY <1>1, <1>3, <1>4, <1>5 DEF Drained, Owes, OwesRecord, Ended
<1> QED BY <1>1, <1>2, <1>3, <1>4, <1>5, <1>6, AgentdStepInv

\* The first half of a cancellation removes the record.
LEMMA CancelClearsInv ==
    ASSUME DeployInv, NEW op \in Ops, NEW from, NEW to, CancelClears(op, from, to),
           \/ from = "undrain" /\ to = "undrained"
           \/ from = "trap" /\ to = "trapped"
    PROVE  DeployInv'
<1> DEFINE s == script[op]
           r == [s EXCEPT !.at = to]
           g == [agentd EXCEPT !.file = FALSE]
<1>1. s \in Script /\ Way(s) /\ s.at = from /\ agentd \in Agentd /\ UNCHANGED <<coordinator, localWork, faults>>
  BY RunFacts DEF CancelClears, At
<1>2. agentd' = g /\ script' = [script EXCEPT ![op] = r]
  BY DEF CancelClears, Goto
<1>3. r \in Script /\ r.at = to /\ r.round = s.round /\ r.kind = s.kind /\ r.cancelDrain = s.cancelDrain
  BY <1>1, StepNames DEF Script
<1>4. g \in Agentd /\ g.draining = agentd.draining /\ g.file = FALSE
  BY <1>1 DEF Agentd
<1> HIDE DEF r, g
<1>5. Way(r) /\ Fenced(op, r, adm) /\ Drained(r, g, localWork)
  BY <1>1, <1>3 DEF Way, Fenced, Drained
<1>6. (Owes(s) => Owes(r)) /\ ~Ended(s)
  BY <1>1, <1>3 DEF Owes, Ended
<1> QED BY <1>1, <1>2, <1>3, <1>4, <1>5, <1>6, AgentdStepInv

\* The second half ends the drain, after a replacement.
LEMMA UndrainedInv == ASSUME DeployInv, NEW op \in Ops, Undrained(op) PROVE DeployInv'
<1> DEFINE s == script[op]
           step == IF Replaces(op, "forum") THEN "acquire" ELSE "ready"
           r == [s EXCEPT !.cancelDrain = FALSE, !.round = 3, !.at = step]
           g == [agentd EXCEPT !.draining = FALSE, !.timer = FALSE]
<1>1. s \in Script /\ Way(s) /\ s.at = "undrained" /\ agentd \in Agentd /\ UNCHANGED <<coordinator, localWork, faults>>
  BY RunFacts DEF Undrained, At
<1>2. agentd' = g /\ script' = [script EXCEPT ![op] = r]
  BY ScriptFacts DEF Undrained, Script
<1>3. step \in {"acquire", "ready"} /\ step \in Steps /\ 3 \in 1..3
  BY StepNames
<1> HIDE DEF step
<1>4. r \in Script /\ r.at = step /\ r.round = 3 /\ r.kind = s.kind /\ r.cancelDrain = FALSE
  BY <1>1, <1>3 DEF Script
<1>5. g \in Agentd /\ g.draining = FALSE /\ g.file = agentd.file
  BY <1>1 DEF Agentd
<1> HIDE DEF r, g
<1>6. Way(r) /\ Fenced(op, r, adm) /\ Drained(r, g, localWork)
  BY <1>1, <1>3, <1>4 DEF Way, Fenced, Drained
<1>7. ~OwesRecord(s) /\ ~Ended(s)
  BY <1>1 DEF OwesRecord, Ended
<1> QED BY <1>1, <1>2, <1>4, <1>5, <1>6, <1>7, AgentdStepInv

\* And in the trap.
LEMMA TrapDrainInv == ASSUME DeployInv, NEW op \in Ops, TrapDrain(op) PROVE DeployInv'
<1> DEFINE s == script[op]
           r == [s EXCEPT !.cancelDrain = FALSE, !.at = "trap"]
           g == [agentd EXCEPT !.draining = FALSE, !.timer = FALSE]
<1>1. s \in Script /\ Way(s) /\ s.at = "trapped" /\ agentd \in Agentd /\ UNCHANGED <<coordinator, localWork, faults>>
  BY RunFacts DEF TrapDrain, At
<1>2. agentd' = g /\ script' = [script EXCEPT ![op] = r]
  BY ScriptFacts DEF TrapDrain, Script
<1>3. r \in Script /\ r.at = "trap" /\ r.round = s.round /\ r.kind = s.kind /\ r.cancelDrain = FALSE
  BY <1>1, StepNames DEF Script
<1>4. g \in Agentd /\ g.draining = FALSE /\ g.file = agentd.file
  BY <1>1 DEF Agentd
<1> HIDE DEF r, g
<1>5. Way(r) /\ Fenced(op, r, adm) /\ Drained(r, g, localWork) /\ Owes(r) /\ OwesRecord(r) /\ ~Ended(s)
  BY <1>1, <1>3 DEF Way, Fenced, Drained, Owes, OwesRecord, Ended
<1> QED BY <1>1, <1>2, <1>3, <1>4, <1>5, AgentdStepInv

\* The backup, after which a deployment drains or acquires again.
LEMMA BackupInv == ASSUME DeployInv, NEW op \in Ops, Backup(op) PROVE DeployInv'
<1> DEFINE s == script[op]
<1>1. s \in Script /\ Way(s) /\ s.at = "backup" /\ UNCHANGED <<coordinator, agentd, localWork>> /\ faults' \in 0..MaxFaults
  BY RunFacts DEF Backup, At, ScriptOnly
<1>2. CASE s.kind = "backup"
  <2>1. Goto(op, "reopen")
    BY <1>2 DEF Backup
  <2>2. \A r \in Script :
           /\ r.at = "reopen" /\ r.round = s.round /\ r.kind = s.kind /\ r.cancelDrain = s.cancelDrain /\ r.answer = s.answer
           => Way(r) /\ Fenced(op, r, adm) /\ (~Overlap => Drained(r, agentd, localWork))
    BY <1>1, <1>2 DEF Way, Fenced, Drained
  <2> QED BY <1>1, <2>1, <2>2, StepNames, GotoInv DEF Ended
<1>3. CASE s.kind # "backup"
  <2> DEFINE step == IF Drains(op) THEN "quiesce" ELSE "acquire"
             r == [s EXCEPT !.at = step, !.round = 2]
  <2>1. script' = [script EXCEPT ![op] = r]
    BY <1>3, ScriptFacts DEF Backup, GotoRound, Script
  <2>2. step \in Steps /\ 2 \in 1..3 /\ (step = "quiesce" \/ (step = "acquire" /\ s.kind \notin Draining))
        /\ (step = "quiesce" => s.kind \in Draining)
    BY StepNames DEF Drains, Draining
  <2> HIDE DEF step
  <2>3. r \in Script /\ r.at = step /\ r.round = 2 /\ r.kind = s.kind /\ r.cancelDrain = s.cancelDrain
    BY <1>1, <2>2 DEF Script
  <2> HIDE DEF r
  <2>4. Way(r) /\ Fenced(op, r, adm) /\ Drained(r, agentd, localWork)
    BY <1>1, <1>3, <2>2, <2>3 DEF Way, Fenced, Drained
  <2>5. (Owes(s) => Owes(r)) /\ (OwesRecord(s) => OwesRecord(r)) /\ ~Ended(s)
    BY <1>1, <2>2, <2>3 DEF Owes, OwesRecord, Ended
  <2> QED BY <1>1, <2>1, <2>3, <2>4, <2>5, ScriptStepInv
<1> QED BY <1>2, <1>3

\* A run asks the coordinator.
LEMMA AskInv ==
    ASSUME DeployInv, NEW op \in Ops, OpStep(op), NEW r \in Script, script' = [script EXCEPT ![op] = r],
           UNCHANGED <<agentd, localWork, faults>>, Way(r), Fenced(op, r, adm'), \A o \in Ops \ {op} : Foreign(o),
           Owes(script[op]) => Owes(r), OwesRecord(script[op]) => OwesRecord(r),
           ~Overlap => Drained(r, agentd, localWork), Ended(script[op]) => Ended(r)
    PROVE  DeployInv'
<1>1. IInv'
  BY CoordinatorStep DEF DeployInv
<1>2. agentd' \in Agentd /\ localWork' \in BOOLEAN /\ faults' \in 0..MaxFaults
  BY RunFacts
<1>3. ~Overlap => Drained(r, agentd', localWork')
  OBVIOUS
<1> QED BY <1>1, <1>2, <1>3, RunInv

\* acquire: a run that is told yes at once renews its own fence.
LEMMA AcquireForumInv == ASSUME DeployInv, NEW op \in Ops, AcquireForum(op) PROVE DeployInv'
<1> DEFINE s == script[op]
           R(x) == [s EXCEPT !.at = "wait", !.acquired = TRUE, !.answer = x]
<1>1. /\ IInv /\ s \in Script /\ Way(s) /\ s.at = "acquire" /\ UNCHANGED <<agentd, localWork, faults>>
      /\ (~Overlap => Drained(s, agentd, localWork))
  BY RunFacts DEF AcquireForum, At
<1>2. ASSUME NEW x \in {"none", "yes", "no"}, script' = [script EXCEPT ![op] = R(x)], OpStep(op),
             adm'.operationId = op /\ adm'.state = "acquired" => adm'.lease # "due",
             x = "yes" => adm'.operationId = op /\ adm'.state = "acquired",
             \A o \in Ops \ {op} : Foreign(o)
      PROVE  DeployInv'
  <2> DEFINE r == R(x)
  <2>1. r \in Script /\ r.at = "wait" /\ r.round = s.round /\ r.kind = s.kind /\ r.cancelDrain = s.cancelDrain /\ r.answer = x
    BY <1>1, StepNames DEF Script
  <2>2. script' = [script EXCEPT ![op] = r]
    BY <1>2
  <2> HIDE DEF r, R
  <2>3. Way(r) /\ Fenced(op, r, adm') /\ (~Overlap => Drained(r, agentd, localWork))
    BY <1>1, <1>2, <2>1 DEF Way, Fenced, Drained
  <2>4. (Owes(s) => Owes(r)) /\ (OwesRecord(s) => OwesRecord(r)) /\ ~Ended(s)
    BY <1>1, <2>1 DEF Owes, OwesRecord, Ended
  <2> QED BY <1>1, <1>2, <2>1, <2>2, <2>3, <2>4, AskInv
<1>3. CASE AcquireNew(op) /\ script' = [script EXCEPT ![op].at = "wait", ![op].acquired = TRUE, ![op].answer = "none"]
  <2>1. script' = [script EXCEPT ![op] = R("none")] /\ OpStep(op)
    BY <1>3, ScriptFacts DEF Script, OpStep
  <2> QED BY <1>1, <1>2, <1>3, <2>1, NewFacts
<1>4. CASE AcquireRenew(op) /\ script' = [script EXCEPT ![op].at = "wait", ![op].acquired = TRUE, ![op].answer = "yes"]
  <2>1. script' = [script EXCEPT ![op] = R("yes")] /\ OpStep(op)
    BY <1>4, ScriptFacts DEF Script, OpStep
  <2> QED BY <1>1, <1>2, <1>4, <2>1, RenewFacts
<1>5. CASE AcquireAnswered(op) /\ script' = [script EXCEPT ![op].at = "wait", ![op].acquired = TRUE, ![op].answer = "no"]
  <2>1. script' = [script EXCEPT ![op] = R("no")] /\ OpStep(op)
    BY <1>5, ScriptFacts DEF Script, OpStep
  <2> QED BY <1>1, <1>2, <1>5, <2>1, AnsweredFacts
<1> QED BY <1>3, <1>4, <1>5 DEF AcquireForum

\* finishAcquire answers a run that still waits.
LEMMA FinishAcquireInv == ASSUME DeployInv, NEW op \in Ops, FinishAcquire(op) PROVE DeployInv'
<1> DEFINE s == script[op]
           x == IF At(op, "wait") THEN (IF adm'.operationId = op /\ adm'.state = "acquired" THEN "yes" ELSE "no")
                ELSE s.answer
           r == [s EXCEPT !.answer = x]
<1>1. /\ IInv /\ s \in Script /\ Way(s) /\ Fenced(op, s, adm) /\ (~Overlap => Drained(s, agentd, localWork))
      /\ UNCHANGED <<agentd, localWork, faults>> /\ OpStep(op) /\ (FinishAcquireIdle(op) \/ FinishAcquireFailed(op))
  BY RunFacts DEF FinishAcquire, OpStep
<1>2. script' = [script EXCEPT ![op] = r]
  BY DEF FinishAcquire
<1>3. x \in {"none", "yes", "no"} /\ (s.at = "wait" /\ x = "yes" => adm'.operationId = op /\ adm'.state = "acquired")
  BY <1>1 DEF Script, At
<1> HIDE DEF x
<1>4. r \in Script /\ r.at = s.at /\ r.round = s.round /\ r.kind = s.kind /\ r.cancelDrain = s.cancelDrain /\ r.answer = x
  BY <1>1, <1>3 DEF Script
<1> HIDE DEF r
<1>5. Way(r) /\ (~Overlap => Drained(r, agentd, localWork))
  BY <1>1, <1>4 DEF Way, Drained
<1>6. (Owes(s) => Owes(r)) /\ (OwesRecord(s) => OwesRecord(r)) /\ (Ended(s) => Ended(r))
  BY <1>4 DEF Owes, OwesRecord, Ended
<1>7. Fenced(op, r, adm')
  <2>1. CASE adm' = adm
    BY <2>1, <1>1, <1>3, <1>4 DEF Fenced
  <2>2. CASE adm' # adm
    <3>1. /\ adm.operationId = op /\ adm.state = "preparing"
          /\ adm'.operationId = NoOp \/ (adm'.state = "acquired" /\ adm'.lease = "live" /\ adm'.operationId = op)
      BY <2>2, <1>1, FinishFacts DEF OwnsPreparation
    <3> QED BY <3>1, <1>1, <1>3, <1>4, NoOpIsNotAnOp DEF Fenced
  <2> QED BY <2>1, <2>2
<1> QED BY <1>1, <1>2, <1>4, <1>5, <1>6, <1>7, FinishFacts, AskInv

\* cancel: a deployment that succeeds has given up its fence.
LEMMA ReopenInv == ASSUME DeployInv, NEW op \in Ops, Reopen(op) PROVE DeployInv'
<1> DEFINE s == script[op]
           step == IF s.kind = "backup" THEN "trap" ELSE "done"
           r1 == [s EXCEPT !.acquired = FALSE, !.at = step]
           r2 == [s EXCEPT !.at = "trap"]
<1>1. /\ IInv /\ s \in Script /\ Way(s) /\ s.at = "reopen" /\ Cancel(op) /\ OpStep(op) /\ UNCHANGED <<agentd, localWork, faults>>
  BY RunFacts DEF Reopen, At, OpStep
<1>2. adm'.operationId # op /\ \A o \in Ops \ {op} : Foreign(o)
  BY <1>1, CancelFacts
<1>3. CASE script' = [script EXCEPT ![op] = r1]
  <2>1. step \in Steps /\ step \in {"trap", "done"} /\ (step = "done" => s.kind # "backup")
    BY StepNames
  <2> HIDE DEF step
  <2>2. r1 \in Script /\ r1.at = step /\ r1.round = s.round /\ r1.kind = s.kind /\ r1.cancelDrain = s.cancelDrain
    BY <1>1, <2>1 DEF Script
  <2>3. script' = [script EXCEPT ![op] = r1]
    BY <1>3
  <2> HIDE DEF r1
  <2>4. Way(r1) /\ Fenced(op, r1, adm') /\ Drained(r1, agentd, localWork)
    BY <1>1, <1>2, <2>1, <2>2 DEF Way, Fenced, Drained
  <2>5. (Owes(s) => Owes(r1)) /\ (OwesRecord(s) => OwesRecord(r1)) /\ ~Ended(s)
    BY <1>1, <2>1, <2>2 DEF Owes, OwesRecord, Ended
  <2> QED BY <1>1, <1>2, <2>2, <2>3, <2>4, <2>5, AskInv
<1>4. CASE script' = [script EXCEPT ![op] = r2]
  <2>1. r2 \in Script /\ r2.at = "trap" /\ r2.round = s.round /\ r2.kind = s.kind /\ r2.cancelDrain = s.cancelDrain
    BY <1>1, StepNames DEF Script
  <2>2. script' = [script EXCEPT ![op] = r2]
    BY <1>4
  <2> HIDE DEF r2
  <2>3. Way(r2) /\ Fenced(op, r2, adm') /\ Drained(r2, agentd, localWork)
    BY <1>1, <2>1 DEF Way, Fenced, Drained
  <2>4. (Owes(s) => Owes(r2)) /\ (OwesRecord(s) => OwesRecord(r2)) /\ ~Ended(s)
    BY <1>1, <2>1 DEF Owes, OwesRecord, Ended
  <2> QED BY <1>1, <1>2, <2>1, <2>2, <2>3, <2>4, AskInv
<1>5. script' = [script EXCEPT ![op] = r1] \/ script' = [script EXCEPT ![op] = r2]
  BY ScriptFacts DEF Reopen, Script
<1> QED BY <1>3, <1>4, <1>5

\* The end of the trap.
LEMMA TrapForumInv == ASSUME DeployInv, NEW op \in Ops, TrapForum(op) PROVE DeployInv'
<1> DEFINE s == script[op]
           r == [s EXCEPT !.acquired = FALSE, !.at = "ended"]
<1>1. /\ IInv /\ s \in Script /\ Way(s) /\ s.at = "trap" /\ UNCHANGED <<agentd, localWork, faults>>
      /\ Cancel(op) \/ UNCHANGED coordinator
  BY RunFacts DEF TrapForum, At
<1>2. script' = [script EXCEPT ![op] = r]
  BY ScriptFacts DEF TrapForum, Script
<1>3. r \in Script /\ r.at = "ended" /\ r.round = s.round /\ r.kind = s.kind /\ r.cancelDrain = s.cancelDrain
  BY <1>1, StepNames DEF Script
<1> HIDE DEF r
<1>4. Way(r) /\ (\A a : Fenced(op, r, a)) /\ Drained(r, agentd, localWork) /\ Owes(r) /\ OwesRecord(r) /\ ~Ended(s)
  BY <1>1, <1>3 DEF Way, Fenced, Drained, Owes, OwesRecord, Ended
<1>5. CASE Cancel(op)
  <2>1. OpStep(op) /\ \A o \in Ops \ {op} : Foreign(o)
    BY <1>1, <1>5, CancelFacts DEF OpStep
  <2> QED BY <1>1, <1>2, <1>3, <1>4, <2>1, AskInv
<1>6. CASE UNCHANGED coordinator
  <2>1. faults' \in 0..MaxFaults
    BY <1>1, RunFacts
  <2> QED BY <1>1, <1>2, <1>3, <1>4, <1>6, <2>1, ScriptStepInv
<1> QED BY <1>1, <1>5, <1>6

\* A request fails; in the trap the failure is ignored.
LEMMA FailsInv == ASSUME DeployInv, NEW op \in Ops, Fails(op) PROVE DeployInv'
<1> DEFINE s == script[op]
           step == IF s.at = "trap" THEN "ended" ELSE "trap"
           r1 == [s EXCEPT !.at = "trap", !.cancelDrain = FALSE]
           r2 == [s EXCEPT !.at = step]
<1>1. /\ s \in Script /\ Way(s) /\ ~Ended(s) /\ UNCHANGED <<coordinator, agentd, localWork>> /\ faults' \in 0..MaxFaults
  BY RunFacts, FaultCounted DEF Fails, Over, Ended
<1>2. CASE script' = [script EXCEPT ![op] = r1]
  <2>1. r1 \in Script /\ r1.at = "trap" /\ r1.round = s.round /\ r1.kind = s.kind /\ r1.cancelDrain = FALSE
    BY <1>1, StepNames DEF Script
  <2>2. script' = [script EXCEPT ![op] = r1]
    BY <1>2
  <2> HIDE DEF r1
  <2>3. Way(r1) /\ Fenced(op, r1, adm) /\ Drained(r1, agentd, localWork) /\ Owes(r1) /\ OwesRecord(r1)
    BY <1>1, <2>1 DEF Way, Fenced, Drained, Owes, OwesRecord
  <2> QED BY <1>1, <2>1, <2>2, <2>3, ScriptStepInv
<1>3. CASE script' = [script EXCEPT ![op] = r2]
  <2>1. step \in Steps /\ step \in {"trap", "ended"}
    BY StepNames
  <2> HIDE DEF step
  <2>2. r2 \in Script /\ r2.at = step /\ r2.round = s.round /\ r2.kind = s.kind /\ r2.cancelDrain = s.cancelDrain
    BY <1>1, <2>1 DEF Script
  <2>3. script' = [script EXCEPT ![op] = r2]
    BY <1>3
  <2> HIDE DEF r2
  <2>4. Way(r2) /\ Fenced(op, r2, adm) /\ Drained(r2, agentd, localWork) /\ Owes(r2) /\ OwesRecord(r2)
    BY <1>1, <2>1, <2>2 DEF Way, Fenced, Drained, Owes, OwesRecord
  <2> QED BY <1>1, <2>2, <2>3, <2>4, ScriptStepInv
<1>4. script' = [script EXCEPT ![op] = r1] \/ script' = [script EXCEPT ![op] = r2]
  BY ScriptFacts DEF Fails, Script
<1> QED BY <1>2, <1>3, <1>4

-----------------------------------------------------------------------------
(* Replacements and crashes.                                               *)

\* A stopped agentd ends its turns; the forum's counter follows.
LEMMA CutOffInv ==
    ASSUME IInv, phase' = CutOff, robotWorkInFlight' = Cardinality({w \in Works : phase'[w] \in Holding}),
           UNCHANGED <<adm, waits, running, shutdownClosed, renewals>>
    PROVE  IInv'
<1>1. phase' \in [Works -> Phases] /\ \A w \in Works : phase[w] = "absent" => phase'[w] = "absent"
  BY DEF IInv, TypeOK, CutOff, Phases
<1>2. Holders' = {w \in Works : phase'[w] \in Holding}
  BY DEF Holders
<1>3. IsFiniteSet(Holders')
  BY <1>2, WorksFinite, FS_Subset
<1>4. robotWorkInFlight' = Cardinality(Holders') /\ robotWorkInFlight' \in Nat
  BY <1>2, <1>3, FS_CardinalityType
<1>5. TypeOK' /\ CounterIsExact'
  BY <1>1, <1>4 DEF IInv, TypeOK, CounterIsExact
<1>6. AcquiredMeansQuiescent'
  <2> SUFFICES ASSUME adm'.state = "acquired"
               PROVE  /\ adm'.paused /\ ~running' /\ robotWorkInFlight' = 0
                      /\ \A w \in Works : phase'[w] = "absent"
    BY DEF AcquiredMeansQuiescent
  <2>1. adm.paused /\ ~running /\ \A w \in Works : phase[w] = "absent"
    BY DEF IInv, AcquiredMeansQuiescent
  <2>2. Holders' = {}
    BY <2>1, <1>1, <1>2 DEF Holding
  <2>3. robotWorkInFlight' = 0
    BY <2>2, <1>4, FS_EmptySet
  <2> QED BY <2>1, <2>3, <1>1
<1> QED BY <1>5, <1>6 DEF IInv, AdmOK, IsCompleted, PreparationHasWaiter, PausedOnlyForOwner

\* A starting agentd drains exactly if the record says so.
LEMMA RestartedFacts ==
    ASSUME agentd \in Agentd
    PROVE  Restarted \in Agentd /\ Restarted.draining = agentd.file /\ Restarted.file = agentd.file
BY DEF Agentd, Restarted

\* Agentd is replaced by a run that owes the drain's cancellation.
LEMMA ReplaceMonikaInv == ASSUME DeployInv, NEW op \in Ops, ReplaceMonika(op) PROVE DeployInv'
<1> DEFINE s == script[op]
           r == [s EXCEPT !.at = "undrain"]
           g == Restarted
<1>1. /\ IInv /\ s \in Script /\ Way(s) /\ s.at = "monika" /\ agentd \in Agentd /\ faults \in 0..MaxFaults
      /\ agentd' = g /\ localWork' = FALSE /\ faults' = faults /\ adm' = adm
  BY RunFacts DEF ReplaceMonika, At
<1>2. IInv'
  BY <1>1, CutOffInv DEF ReplaceMonika
<1>3. script' = [script EXCEPT ![op] = r]
  BY DEF ReplaceMonika, Goto
<1>4. r \in Script /\ r.at = "undrain" /\ r.round = s.round /\ r.kind = s.kind /\ r.cancelDrain = s.cancelDrain
  BY <1>1, StepNames DEF Script
<1>5. g \in Agentd
  BY <1>1, RestartedFacts
<1> HIDE DEF r, g
<1>6. s.cancelDrain /\ ~Ended(s)
  BY <1>1 DEF Way, Draining, Ended
<1>7. Way(r) /\ Fenced(op, r, adm') /\ Drained(r, agentd', localWork') /\ Owes(r) /\ OwesRecord(r)
  BY <1>1, <1>4, <1>6 DEF Way, Fenced, Drained, Owes, OwesRecord
<1>8. \A o \in Ops \ {op} : Foreign(o)
  BY <1>1 DEF Foreign
<1>9. localWork' \in BOOLEAN /\ faults' \in 0..MaxFaults /\ agentd' \in Agentd
  BY <1>1, <1>5
<1> QED BY <1>2, <1>3, <1>4, <1>6, <1>7, <1>8, <1>9, ScriptFacts, RunInv

\* Several runs go on at once, each owing what it owed.
LEMMA ManyInv ==
    ASSUME DeployInv, IInv', script' \in [Ops -> Script], agentd' \in Agentd, localWork' \in BOOLEAN,
           faults' \in 0..MaxFaults, agentd'.draining => agentd.draining \/ agentd.file, agentd'.file => agentd.file,
           \A o \in Ops : /\ Way(script'[o]) /\ Fenced(o, script'[o], adm')
                          /\ Owes(script[o]) => Owes(script'[o])
                          /\ OwesRecord(script[o]) => OwesRecord(script'[o])
                          /\ Ended(script[o]) => Ended(script'[o])
                          /\ ~Overlap => Drained(script'[o], agentd', localWork')
    PROVE  DeployInv'
<1>1. DeployTypeOK'
  BY DEF DeployTypeOK, IInv
<1>2. DrainInv'
  <2>1. agentd.draining \/ agentd.file => \E o \in Ops : Owes(script[o])
    BY DEF DeployInv, DrainInv, OwesRecord
  <2>2. agentd.file => \E o \in Ops : OwesRecord(script[o])
    BY DEF DeployInv, DrainInv
  <2> QED BY <2>1, <2>2 DEF DrainInv
<1>3. AloneInv'
  BY DEF DeployInv, AloneInv
<1> QED BY <1>1, <1>2, <1>3 DEF DeployInv

\* Agentd crashes: a request it was serving fails, and the drain on record is restored.
LEMMA AgentdCrashInv == ASSUME DeployInv, AgentdCrash PROVE DeployInv'
<1> DEFINE g == Restarted
<1>1. /\ IInv /\ agentd \in Agentd /\ script \in [Ops -> Script] /\ faults' \in 0..MaxFaults
      /\ agentd' = g /\ localWork' = FALSE /\ adm' = adm
  BY FaultCounted DEF DeployInv, DeployTypeOK, AgentdCrash
<1>2. IInv'
  BY <1>1, CutOffInv DEF AgentdCrash
<1>3. g \in Agentd /\ g.draining = agentd.file /\ g.file = agentd.file
  BY <1>1, RestartedFacts
<1> HIDE DEF g
<1>4. ASSUME NEW o \in Ops
      PROVE  /\ script'[o] \in Script /\ Way(script'[o]) /\ Fenced(o, script'[o], adm')
             /\ Owes(script[o]) => Owes(script'[o])
             /\ OwesRecord(script[o]) => OwesRecord(script'[o])
             /\ Ended(script[o]) => Ended(script'[o])
             /\ ~Overlap => Drained(script'[o], agentd', localWork')
  <2> DEFINE s == script[o]
             r == script'[o]
  <2>1. s \in Script /\ Way(s) /\ Fenced(o, s, adm) /\ (~Overlap => Drained(s, agentd, localWork))
    BY RunFacts
  <2>2. r = IF s.at \in {"publish", "probe"} THEN [s EXCEPT !.at = "trap"]
            ELSE IF s.at = "undrained" THEN [s EXCEPT !.at = "undrain"]
            ELSE IF s.at = "trapped" THEN [s EXCEPT !.at = "trap", !.cancelDrain = FALSE]
            ELSE s
    BY DEF AgentdCrash, At
  <2>3. /\ r \in Script /\ r.round = s.round /\ r.kind = s.kind /\ r.answer = s.answer
        /\ \/ s.at \in {"publish", "probe"} /\ r.at = "trap" /\ r.cancelDrain = s.cancelDrain
           \/ s.at = "undrained" /\ r.at = "undrain" /\ r.cancelDrain = s.cancelDrain
           \/ s.at = "trapped" /\ r.at = "trap" /\ r.cancelDrain = FALSE
           \/ s.at \notin {"publish", "probe", "undrained", "trapped"} /\ r = s
    BY <2>1, <2>2, StepNames DEF Script
  <2> HIDE DEF r
  <2>4. Way(r) /\ Fenced(o, r, adm')
    BY <1>1, <2>1, <2>3 DEF Way, Fenced
  <2>5. (Owes(s) => Owes(r)) /\ (OwesRecord(s) => OwesRecord(r)) /\ (Ended(s) => Ended(r))
    BY <2>3 DEF Owes, OwesRecord, Ended
  <2>6. ~Overlap => Drained(r, g, FALSE)
    BY <1>3, <2>1, <2>3 DEF Drained
  <2> QED BY <1>1, <2>3, <2>4, <2>5, <2>6 DEF r
<1>5. script' \in [Ops -> Script]
  <2>1. script' = [o \in Ops |-> script'[o]]
    BY DEF AgentdCrash
  <2> QED BY <1>4, <2>1
<1> QED BY <1>1, <1>2, <1>3, <1>4, <1>5, ManyInv

\* A new forum process knows of no fence and no work in flight.
LEMMA NewForumInv ==
    ASSUME IInv, NEW op \in Ops, ReplaceForum(op)
    PROVE  IInv' /\ adm'.operationId = NoOp /\ adm'.state = "idle"
<1> DEFINE a == [state |-> "idle", operationId |-> NoOp, lease |-> "none", paused |-> FALSE, completed |-> <<>>]
<1>1. /\ adm' = a /\ waits' = [o \in Ops |-> 0] /\ running' = FALSE /\ robotWorkInFlight' = 0
      /\ shutdownClosed' = shutdownClosed /\ renewals' = renewals
  BY DEF ReplaceForum
<1>2. a \in AdmState /\ a.state = "idle" /\ a.operationId = NoOp /\ a.paused = FALSE /\ AdmOK(a)
  <2>1. <<>> \in Seq(Ops)
    BY EmptySeq
  <2> QED BY <2>1 DEF AdmState, AdmOK
<1> HIDE DEF a
<1>3. phase' \in [Works -> Phases] /\ \A w \in Works : phase'[w] \notin Holding
  BY DEF IInv, TypeOK, ReplaceForum, Phases, Holding
<1>4. Holders' = {}
  BY <1>3 DEF Holders
<1>5. CounterIsExact'
  BY <1>1, <1>4, FS_EmptySet DEF CounterIsExact
<1>6. TypeOK'
  BY <1>1, <1>2, <1>3 DEF IInv, TypeOK
<1>7. AdmOK(adm)'
  BY <1>1, <1>2 DEF AdmOK, IsCompleted
<1>8. AcquiredMeansQuiescent' /\ PreparationHasWaiter' /\ PausedOnlyForOwner'
  BY <1>1, <1>2 DEF AcquiredMeansQuiescent, PreparationHasWaiter, PausedOnlyForOwner
<1> QED BY <1>1, <1>2, <1>5, <1>6, <1>7, <1>8 DEF IInv

\* The forum is replaced by the run that owns the fence: no other run relies on it, and
\* the request of one that waits fails.
LEMMA ReplaceForumInv == ASSUME DeployInv, NEW op \in Ops, ReplaceForum(op) PROVE DeployInv'
<1>1. /\ IInv /\ agentd \in Agentd /\ localWork \in BOOLEAN /\ faults \in 0..MaxFaults
      /\ UNCHANGED <<agentd, localWork, faults>> /\ script[op].at = "forum"
  BY DEF DeployInv, DeployTypeOK, ReplaceForum, At
<1>2. IInv' /\ adm'.operationId = NoOp /\ adm'.state = "idle"
  BY <1>1, NewForumInv
<1>3. adm.operationId = op
  BY <1>1, RunFacts DEF Fenced
<1>4. ASSUME NEW o \in Ops
      PROVE  /\ script'[o] \in Script /\ Way(script'[o]) /\ Fenced(o, script'[o], adm')
             /\ Owes(script[o]) => Owes(script'[o])
             /\ OwesRecord(script[o]) => OwesRecord(script'[o])
             /\ Ended(script[o]) => Ended(script'[o])
             /\ ~Overlap => Drained(script'[o], agentd, localWork)
  <2> DEFINE s == script[o]
             r == script'[o]
  <2>1. s \in Script /\ Way(s) /\ Fenced(o, s, adm) /\ (~Overlap => Drained(s, agentd, localWork))
    BY RunFacts
  <2>2. r = IF o = op THEN [s EXCEPT !.at = "ready"]
            ELSE IF s.at = "wait" THEN [s EXCEPT !.at = "trap"] ELSE s
    BY DEF ReplaceForum, At
  <2>3. /\ r \in Script /\ r.round = s.round /\ r.kind = s.kind /\ r.answer = s.answer /\ r.cancelDrain = s.cancelDrain
        /\ \/ o = op /\ r.at = "ready"
           \/ o # op /\ s.at = "wait" /\ r.at = "trap"
           \/ o # op /\ s.at # "wait" /\ r = s
    BY <2>1, <2>2, StepNames DEF Script
  <2> HIDE DEF r
  <2>4. Way(r)
    BY <1>1, <2>1, <2>3 DEF Way
  <2>5. Fenced(o, r, adm')
    BY <1>2, <1>3, <2>1, <2>3, NoOpIsNotAnOp DEF Fenced
  <2>6. (Owes(s) => Owes(r)) /\ (OwesRecord(s) => OwesRecord(r)) /\ (Ended(s) => Ended(r))
    BY <1>1, <2>3 DEF Owes, OwesRecord, Ended
  <2>7. ~Overlap => Drained(r, agentd, localWork)
    BY <2>1, <2>3 DEF Drained
  <2> QED BY <2>3, <2>4, <2>5, <2>6, <2>7 DEF r
<1>5. script' \in [Ops -> Script]
  <2>1. script' = [o \in Ops |-> script'[o]]
    BY DEF ReplaceForum
  <2> QED BY <1>4, <2>1
<1>6. agentd' \in Agentd /\ localWork' \in BOOLEAN /\ faults' \in 0..MaxFaults
  BY <1>1
<1>7. \A o \in Ops : ~Overlap => Drained(script'[o], agentd', localWork')
  BY <1>1, <1>4
<1> QED BY <1>1, <1>2, <1>4, <1>5, <1>6, <1>7, ManyInv

-----------------------------------------------------------------------------
(* Steps that no script takes.                                             *)

\* Every run stays where it is.
LEMMA KeptScripts ==
    ASSUME DeployInv, IInv', UNCHANGED <<script, faults>>, agentd' \in Agentd, localWork' \in BOOLEAN,
           agentd'.draining => agentd.draining, agentd'.file => agentd.file,
           \A o \in Ops : Fenced(o, script[o], adm') /\ (~Overlap => Drained(script[o], agentd', localWork'))
    PROVE  DeployInv'
<1>1. script' \in [Ops -> Script] /\ faults' \in 0..MaxFaults
  BY DEF DeployInv, DeployTypeOK
<1>2. \A o \in Ops : Way(script[o])
  BY DEF DeployInv
<1> QED BY <1>1, <1>2, ManyInv

\* The coordinator, sync and robot work, none of which takes a fence that is not overdue.
LEMMA ForeignInv ==
    ASSUME DeployInv, IInv', UNCHANGED <<script, agentd, localWork, faults>>, \A o \in Ops : Foreign(o)
    PROVE  DeployInv'
<1>1. agentd' \in Agentd /\ localWork' \in BOOLEAN
  BY DEF DeployInv, DeployTypeOK
<1>2. ASSUME NEW o \in Ops PROVE Fenced(o, script[o], adm') /\ (~Overlap => Drained(script[o], agentd', localWork'))
  BY RunFacts, ForeignKeeps
<1> QED BY <1>1, <1>2, KeptScripts

\* The auto-cancel timer fires only for a drain that no run relies on.
LEMMA AutoCancelInv == ASSUME DeployInv, AutoCancel PROVE DeployInv'
<1> DEFINE g == [draining |-> FALSE, file |-> FALSE, timer |-> FALSE]
<1>1. /\ UNCHANGED <<coordinator, script, localWork, faults>> /\ agentd' = g
      /\ \A o \in Ops : script[o].cancelDrain => script[o].at \in {"backup", "dead"}
  BY DEF AutoCancel
<1>2. IInv' /\ adm' = adm
  BY <1>1, CoordinatorStep DEF DeployInv, coordinator
<1>3. g \in Agentd /\ g.draining = FALSE /\ g.file = FALSE
  BY DEF Agentd
<1> HIDE DEF g
<1>4. ASSUME NEW o \in Ops PROVE Fenced(o, script[o], adm') /\ Drained(script[o], agentd', localWork')
  <2>1. Way(script[o]) /\ Fenced(o, script[o], adm)
    BY RunFacts
  <2> QED BY <1>1, <1>2, <2>1 DEF Way, Drained
<1>5. localWork' \in BOOLEAN
  BY <1>1 DEF DeployInv, DeployTypeOK
<1> QED BY <1>1, <1>2, <1>3, <1>4, <1>5, KeptScripts

\* Local work begins only while agentd does not drain.
LEMMA LocalInv == ASSUME DeployInv, LocalBegins \/ LocalEnds PROVE DeployInv'
<1>1. /\ UNCHANGED <<coordinator, script, agentd, faults>>
      /\ localWork' = FALSE \/ (localWork' = TRUE /\ ~agentd.draining)
  BY DEF LocalBegins, LocalEnds
<1>2. IInv' /\ adm' = adm
  BY <1>1, CoordinatorStep DEF DeployInv, coordinator
<1>3. ASSUME NEW o \in Ops PROVE Fenced(o, script[o], adm') /\ (~Overlap => Drained(script[o], agentd', localWork'))
  <2>1. Fenced(o, script[o], adm) /\ (~Overlap => Drained(script[o], agentd, localWork))
    BY RunFacts
  <2> QED BY <1>1, <1>2, <2>1 DEF Drained
<1>4. agentd' \in Agentd /\ localWork' \in BOOLEAN
  BY <1>1 DEF DeployInv, DeployTypeOK
<1> QED BY <1>1, <1>2, <1>3, <1>4, KeptScripts

\* Robot work.
LEMMA RobotStepInv == ASSUME DeployInv, NEW w \in Works, RobotStep(w) PROVE DeployInv'
<1>1. WorkStep(w) /\ UNCHANGED <<script, agentd, localWork, faults>>
  BY DEF RobotStep, WorkStep
<1>2. IInv /\ IInv'
  BY <1>1, CoordinatorStep DEF DeployInv
<1>3. adm' = adm \/ (Admits /\ adm' = revokePreparing(expireIfNeeded(adm)))
  BY <1>1 DEF WorkStep, CreateDispatch, BeginDispatch, BeginDirect, beginRobotWork, TurnBegins, EndWork,
              releaseRobotWork, Settle, TurnEnds
<1>4. \A o \in Ops : Foreign(o)
  <2>1. CASE adm' = adm
    BY <2>1 DEF Foreign
  <2>2. CASE Admits /\ adm' = revokePreparing(expireIfNeeded(adm))
    BY <2>2, <1>2, AdmitFacts
  <2> QED BY <1>3, <2>1, <2>2
<1> QED BY <1>1, <1>2, <1>4, ForeignInv

\* Sync, and a lease, which runs out only under a run that does not rely on it.
LEMMA ForumStepInv == ASSUME DeployInv, ForumStep PROVE DeployInv'
<1>1. UNCHANGED <<script, agentd, localWork, faults>>
  BY DEF ForumStep
<1>2. IInv /\ IInv' /\ adm \in AdmState
  BY CoordinatorStep DEF DeployInv, ForumStep, IInv, TypeOK
<1>3. CASE SyncStarts \/ SyncEnds
  <2>1. \A o \in Ops : Foreign(o)
    BY <1>3 DEF SyncStarts, SyncEnds, Foreign
  <2> QED BY <1>1, <1>2, <2>1, ForeignInv
<1>4. CASE Expire
  <2>1. adm' = expireIfNeeded(adm)
    BY <1>4 DEF Expire
  <2>2. \A o \in Ops : Foreign(o)
    BY <1>2, <2>1, Expired, NoOpIsNotAnOp DEF Foreign
  <2> QED BY <1>1, <1>2, <2>2, ForeignInv
<1>5. CASE LeaseElapses /\ script[adm.operationId].at \in {"backup", "dead", "ended", "done"}
  <2>1. adm'.operationId = adm.operationId /\ adm'.state = adm.state
    BY <1>2, <1>5 DEF LeaseElapses, AdmState
  <2>2. ASSUME NEW o \in Ops PROVE Fenced(o, script[o], adm')
    <3>1. Fenced(o, script[o], adm)
      BY RunFacts
    <3> QED BY <1>5, <2>1, <3>1 DEF Fenced
  <2>3. agentd' \in Agentd /\ localWork' \in BOOLEAN
    BY <1>1 DEF DeployInv, DeployTypeOK
  <2>4. \A o \in Ops : ~Overlap => Drained(script[o], agentd', localWork')
    BY <1>1, RunFacts
  <2> QED BY <1>1, <1>2, <2>2, <2>3, <2>4, KeptScripts
<1> QED BY <1>3, <1>4, <1>5 DEF ForumStep

-----------------------------------------------------------------------------
(* The whole system.                                                       *)

\* Nothing has begun.
LEMMA DeployInitInv == ASSUME DeployInit PROVE DeployInv
<1>1. IInv /\ TypeOK /\ adm.operationId = NoOp
  BY InitIInv DEF DeployInit, Init, IInv
<1>2. ASSUME NEW o \in Ops
      PROVE  /\ script[o] \in Script /\ script[o].at = "off" /\ script[o].round = 1
             /\ script[o].cancelDrain = FALSE
  <2> DEFINE First == [at : {"off"}, round : {1}, kind : Kinds, cancelDrain : {FALSE}, acquired : {FALSE}, answer : {"none"}]
  <2>1. script[o] \in First
    BY DEF DeployInit
  <2>2. "off" \in Steps /\ 1 \in 1..3
    BY DEF Steps
  <2>3. \A s \in First : s \in Script /\ s.at = "off" /\ s.round = 1 /\ s.cancelDrain = FALSE
    BY <2>2 DEF Script
  <2> QED BY <2>1, <2>3
<1>3. script \in [Ops -> Script]
  BY <1>2 DEF DeployInit
<1>4. agentd \in Agentd /\ agentd.draining = FALSE /\ agentd.file = FALSE
  BY DEF DeployInit, Agentd
<1>5. DeployTypeOK
  <2>1. localWork \in BOOLEAN
    BY DEF DeployInit
  <2>2. faults \in 0..MaxFaults
    BY DeploymentConstants DEF DeployInit
  <2> QED BY <1>1, <1>3, <1>4, <2>1, <2>2 DEF DeployTypeOK
<1>6. \A o \in Ops : Way(script[o]) /\ Fenced(o, script[o], adm)
  BY <1>2 DEF Way, Fenced
<1>7. DrainInv
  BY <1>4 DEF DrainInv
<1>8. AloneInv
  BY <1>2 DEF AloneInv, Ended, Drained
<1> QED BY <1>1, <1>5, <1>6, <1>7, <1>8 DEF DeployInv

\* One step of a run's script.
LEMMA ScriptInv == ASSUME DeployInv, NEW op \in Ops, ScriptStep(op) PROVE DeployInv'
<1>1. CASE AcquireForum(op)
  BY <1>1, AcquireForumInv
<1>2. CASE ForumAnswers(op)
  BY <1>2, ForumAnswersInv
<1>3. CASE Quiescence(op)
  BY <1>3, QuiescenceInv
<1>4. CASE Drain(op)
  BY <1>4, DrainStepInv
<1>5. CASE Publish(op)
  BY <1>5, PublishInv
<1>6. CASE Probe(op)
  BY <1>6, ProbeInv
<1>7. CASE Backup(op)
  BY <1>7, BackupInv
<1>8. CASE ReplaceMonika(op)
  BY <1>8, ReplaceMonikaInv
<1>9. CASE CancelClears(op, "undrain", "undrained")
  BY <1>9, CancelClearsInv
<1>10. CASE Undrained(op)
  BY <1>10, UndrainedInv
<1>11. CASE ReplaceForum(op)
  BY <1>11, ReplaceForumInv
<1>12. CASE Ready(op)
  BY <1>12, ReadyInv
<1>13. CASE Reopen(op)
  BY <1>13, ReopenInv
<1>14. CASE Trap(op)
  <2>1. CancelClears(op, "trap", "trapped")
    BY <1>14 DEF Trap
  <2> QED BY <2>1, CancelClearsInv
<1>15. CASE TrapDrain(op)
  BY <1>15, TrapDrainInv
<1>16. CASE TrapForum(op)
  BY <1>16, TrapForumInv
<1> QED
  BY <1>1, <1>2, <1>3, <1>4, <1>5, <1>6, <1>7, <1>8, <1>9, <1>10, <1>11, <1>12, <1>13, <1>14, <1>15, <1>16
  DEF ScriptStep

\* Every step keeps the invariant.
LEMMA DeployNextInv == ASSUME DeployInv, [DeployNext]_deployVars PROVE DeployInv'
<1>1. CASE UNCHANGED deployVars
  <2>1. UNCHANGED <<coordinator, script, agentd, localWork, faults>> /\ adm' = adm
    BY <1>1 DEF deployVars, vars, coordinator
  <2>2. IInv'
    BY <2>1, CoordinatorStep DEF DeployInv
  <2>3. \A o \in Ops : Foreign(o)
    BY <2>1 DEF Foreign
  <2> QED BY <2>1, <2>2, <2>3, ForeignInv
<1>2. CASE \E op \in Ops : StartScript(op) \/ ScriptStep(op) \/ FinishAcquire(op) \/ Fails(op) \/ Dies(op)
  BY <1>2, StartScriptInv, ScriptInv, FinishAcquireInv, FailsInv, DiesInv
<1>3. CASE \E w \in Works : RobotStep(w)
  BY <1>3, RobotStepInv
<1>4. CASE ForumStep \/ AutoCancel \/ AgentdCrash \/ LocalBegins \/ LocalEnds
  BY <1>4, ForumStepInv, AutoCancelInv, AgentdCrashInv, LocalInv
<1> QED BY <1>1, <1>2, <1>3, <1>4 DEF DeployNext

\* The invariant holds in every behaviour, whether runs of the script overlap or not.
THEOREM DeployInductive == DeploySpec => []DeployInv
<1>1. DeployInit => DeployInv
  BY DeployInitInv
<1>2. DeployInv /\ [DeployNext]_deployVars => DeployInv'
  BY DeployNextInv
<1> QED BY <1>1, <1>2, PTL DEF DeploySpec

\* Every variable of the script, of agentd and of the coordinator keeps its type.
THEOREM DeployTypeCorrect == DeploySpec => []DeployTypeOK
<1>1. DeployInv => DeployTypeOK
  BY DEF DeployInv
<1> QED BY <1>1, DeployInductive, PTL

\* compose up runs only behind the forum's fence, held by this very run, with no robot
\* work in any phase: however runs overlap, whatever expires, fails or crashes.
THEOREM ReplacedBehindFence == DeploySpec => []ReplacedUnderFence
<1>1. DeployInv => ReplacedUnderFence
  <2> SUFFICES ASSUME DeployInv, NEW op \in Ops, script[op].at \in {"monika", "forum"}
               PROVE  adm.operationId = op /\ adm.state = "acquired" /\ \A w \in Works : phase[w] = "absent"
    BY DEF ReplacedUnderFence
  <2>1. adm.operationId = op /\ adm.state = "acquired"
    BY RunFacts DEF Fenced
  <2> QED BY <2>1 DEF DeployInv, IInv, AcquiredMeansQuiescent
<1> QED BY <1>1, DeployInductive, PTL

\* deploy-if-safe that ends in success has given up the fence, and left neither the
\* drain nor its record behind.
THEOREM DoneLeavesOpen == DeploySpec => []DoneIsOpen
<1>1. DeployInv => DoneIsOpen
  <2> SUFFICES ASSUME DeployInv, NEW op \in Ops, script[op].at = "done"
               PROVE  /\ adm.operationId # op
                      /\ (\A other \in Ops \ {op} : At(other, "off")) => ~agentd.draining /\ ~agentd.file
    BY DEF DoneIsOpen, At
  <2>1. adm.operationId # op
    BY RunFacts DEF Fenced
  <2>2. ASSUME \A other \in Ops \ {op} : At(other, "off") PROVE ~agentd.draining /\ ~agentd.file
    <3>1. ASSUME NEW o \in Ops PROVE ~Owes(script[o])
      <4>1. Way(script[o]) /\ script[o].at \in {"off", "done"}
        BY <2>2, RunFacts DEF At
      <4> QED BY <4>1 DEF Way, Owes
    <3> QED BY <3>1 DEF DeployInv, DrainInv, OwesRecord
  <2> QED BY <2>1, <2>2
<1> QED BY <1>1, DeployInductive, PTL

\* One run of the script at a time: a replacement of the Monika container cuts off
\* neither a turn nor the work only agentd knows of, because what the probe saw under
\* the drain is still so behind the fence.
THEOREM CutsNothingOff == ASSUME ~Overlap PROVE DeploySpec => NothingIsCutOff
<1>1. DeployInv => \A op \in Ops : At(op, "monika") => ~AgentdBusy
  <2> SUFFICES ASSUME DeployInv, NEW op \in Ops, script[op].at = "monika" PROVE ~AgentdBusy
    BY DEF At
  <2>1. /\ Way(script[op]) /\ Fenced(op, script[op], adm) /\ Drained(script[op], agentd, localWork)
    BY RunFacts
  <2>2. ~localWork
    BY <2>1 DEF Way, Drained, Draining
  <2>3. \A w \in Works : phase[w] = "absent"
    BY <2>1 DEF Fenced, DeployInv, IInv, AcquiredMeansQuiescent
  <2> QED BY <2>2, <2>3 DEF AgentdBusy
<1>2. DeployInv => [\A op \in Ops : At(op, "monika") /\ script'[op].at = "undrain" => ~AgentdBusy]_deployVars
  BY <1>1
<1> QED BY <1>2, DeployInductive, PTL DEF NothingIsCutOff

\* Only its own replacement takes a run past the replacement of agentd.
LEMMA OnlyReplacement ==
    ASSUME DeployInv, DeployNext, NEW op \in Ops, script[op].at = "monika", script'[op].at = "undrain"
    PROVE  agentd' = Restarted
<1>1. script \in [Ops -> Script]
  BY DEF DeployInv, DeployTypeOK
<1>2. ASSUME NEW o \in Ops, ScriptStep(o) PROVE agentd' = Restarted
  <2>1. CASE ReplaceMonika(o)
    BY <2>1 DEF ReplaceMonika
  <2>2. CASE ReplaceForum(o)
    BY <2>2 DEF ReplaceForum, At
  <2>3. CASE AcquireForum(o)
    BY <2>3, <1>1 DEF AcquireForum, At
  <2>4. CASE ForumAnswers(o) \/ Quiescence(o) \/ Probe(o) \/ Ready(o)
    BY <2>4, <1>1 DEF ForumAnswers, Quiescence, Probe, Ready, Goto, At
  <2>5. CASE Drain(o) \/ Publish(o)
    BY <2>5, <1>1 DEF Drain, Publish, Goto, At
  <2>6. CASE Backup(o)
    BY <2>6, <1>1 DEF Backup, Goto, GotoRound, At
  <2>7. CASE CancelClears(o, "undrain", "undrained") \/ Trap(o)
    BY <2>7, <1>1 DEF CancelClears, Trap, Goto, At
  <2>8. CASE Undrained(o) \/ TrapDrain(o)
    BY <2>8, <1>1 DEF Undrained, TrapDrain, At
  <2>9. CASE Reopen(o) \/ TrapForum(o)
    BY <2>9, <1>1 DEF Reopen, TrapForum, At
  <2> QED BY <1>2, <2>1, <2>2, <2>3, <2>4, <2>5, <2>6, <2>7, <2>8, <2>9 DEF ScriptStep
<1>3. ASSUME NEW o \in Ops, StartScript(o) \/ FinishAcquire(o) \/ Fails(o) \/ Dies(o) PROVE FALSE
  BY <1>1, <1>3 DEF StartScript, FinishAcquire, Fails, Dies, Goto, At, Script
<1>4. CASE \E w \in Works : RobotStep(w)
  BY <1>4 DEF RobotStep
<1>5. CASE AgentdCrash
  BY <1>5 DEF AgentdCrash
<1>6. CASE ForumStep \/ AutoCancel \/ LocalBegins \/ LocalEnds
  BY <1>6 DEF ForumStep, AutoCancel, LocalBegins, LocalEnds
<1> QED BY <1>2, <1>3, <1>4, <1>5, <1>6 DEF DeployNext

\* One run of the script at a time: the new agentd is born draining, because the record
\* that the old one published is still there when it starts.
THEOREM ReplacementDrained == ASSUME ~Overlap PROVE DeploySpec => ReplacementIsDrained
<1>1. ASSUME DeployInv, [DeployNext]_deployVars
      PROVE  [\A op \in Ops : At(op, "monika") /\ script'[op].at = "undrain" => agentd'.draining]_deployVars
  <2> SUFFICES ASSUME DeployNext, NEW op \in Ops, script[op].at = "monika", script'[op].at = "undrain"
               PROVE  agentd'.draining
    BY <1>1 DEF At
  <2>1. agentd' = Restarted
    BY <1>1, OnlyReplacement
  <2>2. agentd \in Agentd /\ agentd.file
    <3>1. /\ Way(script[op]) /\ Drained(script[op], agentd, localWork) /\ agentd \in Agentd
      BY <1>1, RunFacts
    <3> QED BY <3>1 DEF Way, Drained, Draining
  <2> QED BY <2>1, <2>2, RestartedFacts
<1> QED BY <1>1, DeployInductive, PTL DEF DeploySpec, ReplacementIsDrained
=============================================================================
