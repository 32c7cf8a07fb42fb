----------------------- MODULE SubagentResultsProofs -----------------------
(***************************************************************************)
(* Proofs about SubagentResults: agentd removes a result only after it was *)
(* acknowledged, for any number of settlements, results and custody names. *)
(***************************************************************************)
EXTENDS SubagentResults, FiniteSetTheorems, TLAPS

(* The inductive invariant, one part per idea. *)

\* Where a task is past its acknowledgement and busy removing the file.
Removing == {"list", "capture", "check", "unlink", "restore"}
\* Where an operator's request has its retained copy in place.
Copied == {"sidecar", "completing", "ack", "ledger", "publish"} \cup Removing

\* What a task is about to record is a published result, and once it is past the
\* ledger the ledger holds it.
RecordsResult(t, r) ==
    /\ r.at \in {"ledger", "publish"} => r.content \in Contents
    /\ r.at = "publish" => ledger = [proof |-> Proof(t), content |-> r.content, stamp |-> r.stamp]

\* A task removes what the acknowledgement names.
RemovesAcknowledged(t, r) ==
    r.at \in Removing => ack # NoAck /\ ack.proof = Proof(t) /\ r.content = ack.content

\* What a task has verified stays what it is until the name is deleted.
HoldsVerified(r) ==
    /\ r.at \in {"check", "unlink", "restore"} => r.held \in Names
    /\ r.at = "unlink" /\ custody[r.held] # 0 =>
          custody[r.held] = r.content /\ r.ident \in {0, custody[r.held]}

\* An operator's request removes only what it has copied.
CopyIsRetained(t, r) ==
    t \in Actions =>
        /\ r.at \in {"retain", "retaining"} \cup Copied => r.ident \in Contents
        /\ r.at \in {"retain", "retaining"} => r.content = r.ident
        /\ r.at = "retaining" => retained[t] = Torn
        /\ r.at \in Copied => retained[t] = r.ident

\* What is true of each task by itself.
TaskInv(t, r) ==
    RecordsResult(t, r) /\ RemovesAcknowledged(t, r) /\ HoldsVerified(r) /\ CopyIsRetained(t, r)

\* No task that has put its file back is about to delete this name.
Kept(n) == \A t \in Tasks : task[t].at = "restore" => task[t].held # n

\* A result that a task has put back stays reachable under another name, unless it
\* was acknowledged or replaced meanwhile.
Reachable(c) ==
    \/ Acknowledged(c) \/ c \in replaced \/ c = src
    \/ \E n \in Names : custody[n] = c /\ Kept(n)
RestoredIsReachable ==
    \A t \in Tasks : task[t].at = "restore" /\ custody[task[t].held] # 0 =>
        Reachable(custody[task[t].held])

\* Logs go only after the run's end, when no newer result can appear.
LogsGoLast == LogsOutliveResult /\ (~logs => terminal)

IInv ==
    /\ TypeOK /\ AckIsTrusted
    /\ \A t \in Tasks : TaskInv(t, task[t])
    /\ RestoredIsReachable /\ LogsGoLast /\ RemovedWasAcknowledged

-----------------------------------------------------------------------------
(* Type correctness. *)

\* A name that is in use, or was fresh, is a name.
LEMMA NamesAreNames ==
  /\ Cardinality(CustodyFiles) = 1 => (CHOOSE n \in CustodyFiles : TRUE) \in CustodyFiles
  /\ UnusedNames # {} => FreshName \in UnusedNames
  BY FS_EmptySet DEF FreshName

\* A task's steps keep its record well typed.
LEMMA TaskTyped ==
  ASSUME TypeOK, NEW t \in Tasks
  PROVE  /\ task[t] \in TaskState /\ Idle \in TaskState
         /\ \A r \in TaskState : [task EXCEPT ![t] = r] \in [Tasks -> TaskState]
  BY ResultConstants DEF TypeOK, TaskState, Idle, Stamps, NoName

\* The package, the parent's session, retention and a crash keep the types.
LEMMA TypePackage ==
  ASSUME TypeOK, PublishResult \/ ClaimResult \/ Synthesize \/ RunEnds \/ Compact \/ Crash
  PROVE  TypeOK'
<1> USE ResultConstants
<1>1. CASE PublishResult
  BY <1>1 DEF TypeOK, PublishResult, records, operator, retention, Contents
<1>2. CASE ClaimResult \/ Synthesize \/ RunEnds
  BY <1>2 DEF TypeOK, ClaimResult, Synthesize, RunEnds, records, operator, retention, files
<1>3. CASE Compact
  BY <1>3 DEF TypeOK, Compact, package, files, records, operator
<1>4. CASE Crash
  BY <1>4 DEF TypeOK, Crash, package, files, records, operator, retention, TaskState, Idle, Stamps, NoName
<1> QED
  BY <1>1, <1>2, <1>3, <1>4

-----------------------------------------------------------------------------
(* Steps of a task that change nothing but where the task is. *)

\* A task that has lost its way, or has not begun, is bound by nothing.
LEMMA IdleIsFree ==
  ASSUME NEW t \in Tasks
  PROVE  Idle \in TaskState /\ Idle.at = "idle" /\ TaskInv(t, Idle)
  BY ResultConstants DEF Idle, TaskState, Stamps, NoName, TaskInv, RecordsResult, RemovesAcknowledged,
     HoldsVerified, CopyIsRetained, Copied, Removing

\* A step that moves one task, and does not move it to "restore", keeps the
\* invariant if the task's new state satisfies its own part of it.  The
\* resolution sidecars do not matter to it.
LEMMA SidecarStep ==
  ASSUME IInv, NEW t \in Tasks, NEW r \in TaskState, r.at # "restore", TaskInv(t, r),
         task' = [task EXCEPT ![t] = r],
         sidecar' \in [Actions -> {"none", "torn", "written"}],
         UNCHANGED <<package, files, records, retained, retention, crashes>>
  PROVE  IInv'
<1> USE DEF package, files, records, retention
<1>1. TypeOK'
  BY TaskTyped DEF IInv, TypeOK
<1>2. task'[t] = r /\ \A u \in Tasks : u # t => task'[u] = task[u]
  BY DEF IInv, TypeOK
<1>3. \A u \in Tasks : TaskInv(u, task[u])'
  <2> TAKE u \in Tasks
  <2>1. TaskInv(u, task'[u])
    BY <1>2 DEF IInv
  <2>2. QED
    BY <2>1 DEF TaskInv, RecordsResult, RemovesAcknowledged, HoldsVerified, CopyIsRetained
<1>4. \A n \in Names : Kept(n) => Kept(n)'
  BY <1>2 DEF Kept
<1>5. \A c : Acknowledged(c)' = Acknowledged(c)
  BY DEF Acknowledged
<1>6. RestoredIsReachable'
  BY <1>2, <1>4, <1>5 DEF RestoredIsReachable, Reachable, IInv
<1>7. AckIsTrusted' /\ LogsGoLast' /\ RemovedWasAcknowledged'
  BY <1>5 DEF IInv, AckIsTrusted, LogsGoLast, LogsOutliveResult, RemovedWasAcknowledged, CustodyFiles
<1> QED
  BY <1>1, <1>3, <1>6, <1>7 DEF IInv

\* The same of a step that changes nothing else at all.
LEMMA LocalStep ==
  ASSUME IInv, NEW t \in Tasks, NEW r \in TaskState, r.at # "restore", TaskInv(t, r),
         task' = [task EXCEPT ![t] = r],
         UNCHANGED <<package, files, records, operator, retention, crashes>>
  PROVE  IInv'
  BY SidecarStep DEF IInv, TypeOK, operator

\* Giving up is such a step.
LEMMA FailStep ==
  ASSUME IInv, NEW t \in Tasks, Fail(t),
         UNCHANGED <<package, files, records, operator, retention, crashes>>
  PROVE  IInv'
  BY IdleIsFree, LocalStep DEF Fail

\* Goto changes the step only.
LEMMA GotoStep ==
  ASSUME IInv, NEW t \in Tasks, NEW step, Goto(t, step),
         [task[t] EXCEPT !.at = step] \in TaskState, step # "restore",
         TaskInv(t, [task[t] EXCEPT !.at = step]),
         UNCHANGED <<package, files, records, operator, retention, crashes>>
  PROVE  IInv'
<1> DEFINE r == [task[t] EXCEPT !.at = step]
<1>1. task' = [task EXCEPT ![t] = r]
  BY DEF Goto, IInv, TypeOK
<1>2. r.at = step
  BY TaskTyped DEF IInv, TaskState
<1> QED
  BY <1>1, <1>2, LocalStep

\* A settlement starts.
LEMMA StartSettlingKeeps ==
  ASSUME IInv, NEW t \in Tasks, StartSettling(t)
  PROVE  IInv'
<1> DEFINE r == [task[t] EXCEPT !.at = "ack"]
<1>1. CASE Verified
  <2>1. task[t] \in TaskState /\ r \in TaskState /\ r.at = "ack" /\ t \notin Actions
    BY TaskTyped, ResultConstants DEF IInv, TaskState, StartSettling
  <2>2. TaskInv(t, r)
    BY <2>1 DEF TaskInv, RecordsResult, RemovesAcknowledged, HoldsVerified, CopyIsRetained, Removing
  <2>3. QED
    BY <1>1, <2>1, <2>2, GotoStep DEF StartSettling
<1>2. CASE ~Verified
  <2>1. task' = [task EXCEPT ![t] = task[t]]
    BY <1>2 DEF StartSettling, IInv, TypeOK
  <2>2. At(t, "idle") /\ task[t] \in TaskState /\ TaskInv(t, task[t])
    BY TaskTyped DEF IInv, StartSettling
  <2>3. QED
    BY <2>1, <2>2, LocalStep DEF StartSettling, At
<1> QED
  BY <1>1, <1>2

\* A resolution starts.
LEMMA StartResolvingKeeps ==
  ASSUME IInv, NEW t \in Tasks, StartResolving(t)
  PROVE  IInv'
<1>1. PICK c \in IF src # 0 THEN {src} ELSE {custody[n] : n \in CustodyFiles} :
        task' = [task EXCEPT ![t] = [Idle EXCEPT !.at = "retain", !.content = c, !.ident = c]]
  BY DEF StartResolving
<1> DEFINE r == [Idle EXCEPT !.at = "retain", !.content = c, !.ident = c]
<1>2. c \in Contents
  BY <1>1, ResultConstants DEF IInv, TypeOK, Contents, CustodyFiles
<1>3. c \in 0..MaxContent
  BY <1>2, ResultConstants DEF Contents
<1>4. r \in TaskState /\ r.at = "retain" /\ r.content = c /\ r.ident = c
  BY <1>3, IdleIsFree DEF Idle, TaskState
<1>5. TaskInv(t, r)
  BY <1>2, <1>4 DEF TaskInv, RecordsResult, RemovesAcknowledged, HoldsVerified, CopyIsRetained, Copied, Removing
<1> QED
  BY <1>1, <1>4, <1>5, LocalStep DEF StartResolving

\* ReadAck trusts what the acknowledgement or the result file says.
LEMMA ReadAckKeeps ==
  ASSUME IInv, NEW t \in Tasks, ReadAck(t)
  PROVE  IInv'
<1>0. /\ task[t] \in TaskState /\ task[t].at = "ack" /\ TaskInv(t, task[t])
      /\ src \in 0..MaxContent
  BY TaskTyped DEF IInv, TypeOK, ReadAck, At
<1>1. Ident(t, src) \in 0..MaxContent /\ (t \in Actions => Ident(t, src) = task[t].ident)
  BY <1>0, ResultConstants DEF Ident, TaskState
<1>2. CASE ack # NoAck /\ Compatible(t, src) /\ ledger = ack
  <2> DEFINE r == [task[t] EXCEPT !.at = "list", !.content = ack.content, !.ident = Ident(t, src)]
  <2>1. task' = [task EXCEPT ![t] = r]
    BY <1>2 DEF ReadAck, IInv, TypeOK
  <2>2. ack.content \in 0..MaxContent
    BY <1>2, ResultConstants DEF IInv, TypeOK, Acks, Contents
  <2>3. r \in TaskState /\ r.at = "list" /\ r.content = ack.content /\ r.ident = Ident(t, src)
    BY <1>0, <1>1, <2>2 DEF TaskState
  <2>4. TaskInv(t, r)
    BY <1>0, <1>1, <1>2, <2>3
    DEF TaskInv, RecordsResult, RemovesAcknowledged, HoldsVerified, CopyIsRetained, Removing, Copied, Compatible
  <2>5. QED
    BY <2>1, <2>3, <2>4, LocalStep DEF ReadAck
<1>3. CASE ack = NoAck /\ src # 0
  <2>1. PICK s \in Stamps : task' = [task EXCEPT ![t].at = "ledger", ![t].content = src,
                                                ![t].ident = Ident(t, src), ![t].stamp = s]
    BY <1>3 DEF ReadAck
  <2> DEFINE r == [task[t] EXCEPT !.at = "ledger", !.content = src, !.ident = Ident(t, src), !.stamp = s]
  <2>2. task' = [task EXCEPT ![t] = r]
    BY <2>1 DEF IInv, TypeOK
  <2>3. /\ r \in TaskState /\ r.at = "ledger" /\ r.content = src /\ r.ident = Ident(t, src)
    BY <1>0, <1>1 DEF TaskState
  <2>4. src \in Contents
    BY <1>0, <1>3, ResultConstants DEF Contents
  <2>5. TaskInv(t, r)
    BY <1>0, <1>1, <2>3, <2>4
    DEF TaskInv, RecordsResult, RemovesAcknowledged, HoldsVerified, CopyIsRetained, Removing, Copied
  <2>6. QED
    BY <2>2, <2>3, <2>5, LocalStep DEF ReadAck
<1>4. CASE ~(ack # NoAck /\ Compatible(t, src) /\ ledger = ack) /\ ~(ack = NoAck /\ src # 0)
  BY <1>4, FailStep DEF ReadAck
<1> QED
  BY <1>2, <1>3, <1>4

\* The retained copies are listed.
LEMMA ListCustodyKeeps ==
  ASSUME IInv, NEW t \in Tasks, ListCustody(t)
  PROVE  IInv'
<1>0. task[t] \in TaskState /\ task[t].at = "list" /\ TaskInv(t, task[t])
  BY TaskTyped DEF IInv, ListCustody, At
<1>1. CASE CustodyFiles = {}
  <2> DEFINE r == [task[t] EXCEPT !.at = "capture"]
  <2>1. Goto(t, "capture")
    BY <1>1, FS_EmptySet DEF ListCustody
  <2>2. r \in TaskState /\ r.at = "capture" /\ r.content = task[t].content /\ r.ident = task[t].ident
    BY <1>0 DEF TaskState
  <2>3. TaskInv(t, r)
    BY <1>0, <2>2
    DEF TaskInv, RecordsResult, RemovesAcknowledged, HoldsVerified, CopyIsRetained, Removing, Copied
  <2>4. QED
    BY <2>1, <2>2, <2>3, GotoStep DEF ListCustody
<1>2. CASE CustodyFiles # {} /\ Cardinality(CustodyFiles) = 1
  <2> DEFINE n == CHOOSE n \in CustodyFiles : TRUE
             r == [task[t] EXCEPT !.at = "check", !.held = n]
  <2>1. task' = [task EXCEPT ![t].at = "check", ![t].held = n]
    BY <1>2 DEF ListCustody
  <2>2. n \in Names
    BY <1>2 DEF CustodyFiles
  <2> HIDE DEF n
  <2>3. task' = [task EXCEPT ![t] = r]
    BY <2>1 DEF IInv, TypeOK
  <2>4. n \in 0..MaxNames
    BY <2>2, ResultConstants DEF Names
  <2>5. /\ r \in TaskState /\ r.at = "check" /\ r.content = task[t].content
        /\ r.ident = task[t].ident /\ r.held = n
    BY <1>0, <2>4 DEF TaskState
  <2>6. TaskInv(t, r)
    BY <1>0, <2>2, <2>5
    DEF TaskInv, RecordsResult, RemovesAcknowledged, HoldsVerified, CopyIsRetained, Removing, Copied
  <2>7. QED
    BY <2>3, <2>5, <2>6, LocalStep DEF ListCustody
<1>3. CASE CustodyFiles # {} /\ Cardinality(CustodyFiles) # 1
  <2>1. Fail(t)
    BY <1>3 DEF ListCustody
  <2>2. QED
    BY <2>1, FailStep DEF ListCustody
<1> QED
  BY <1>1, <1>2, <1>3

-----------------------------------------------------------------------------
(* Steps of a task that write a record. *)

\* A file that a request is still to write is not one that was acknowledged.
LEMMA RetainCopyKeeps ==
  ASSUME IInv, NEW t \in Tasks, RetainCopy(t)
  PROVE  IInv'
<1>0. /\ task[t] \in TaskState /\ t \in Actions /\ TaskInv(t, task[t])
      /\ \A c \in Contents : c \in 0..MaxContent /\ c # 0 /\ c # Torn
      /\ Torn \in 0..Torn /\ 0..MaxContent \subseteq 0..Torn
  BY TaskTyped, ResultConstants DEF IInv, RetainCopy, Contents, Torn
<1>1. CASE At(t, "retain") /\ retained[t] # 0 /\ UNCHANGED retained
  <2>1. CASE retained[t] = task[t].content
    <3> DEFINE r == [task[t] EXCEPT !.at = "sidecar"]
    <3>1. Goto(t, "sidecar") /\ UNCHANGED <<package, files, records, operator, retention, crashes>>
      BY <1>1, <2>1 DEF RetainCopy, At, operator
    <3>2. r \in TaskState /\ r.at = "sidecar" /\ r.content = task[t].content /\ r.ident = task[t].ident
      BY <1>0 DEF TaskState
    <3>3. TaskInv(t, r)
      BY <1>0, <1>1, <2>1, <3>2
      DEF At, TaskInv, RecordsResult, RemovesAcknowledged, HoldsVerified, CopyIsRetained, Removing, Copied
    <3>4. QED
      BY <3>1, <3>2, <3>3, GotoStep
  <2>2. CASE retained[t] # task[t].content
    <3>1. Fail(t) /\ UNCHANGED <<package, files, records, operator, retention, crashes>>
      BY <1>1, <2>2 DEF RetainCopy, At, operator
    <3>2. QED
      BY <3>1, FailStep
  <2>3. QED
    BY <2>1, <2>2
<1>2. ASSUME NEW step \in {"retaining", "sidecar"}, NEW v \in 0..Torn,
             task' = [task EXCEPT ![t].at = step], retained' = [retained EXCEPT ![t] = v],
             retained[t] \in {0, Torn}, task[t].at \in {"retain", "retaining"},
             step = "retaining" => v = Torn, step = "sidecar" => v = task[t].ident
      PROVE  IInv'
  <2> USE DEF package, files, records, retention
  <2> DEFINE r == [task[t] EXCEPT !.at = step]
  <2>1. r \in TaskState /\ r.at = step /\ r.content = task[t].content /\ r.ident = task[t].ident
    BY <1>0, <1>2 DEF TaskState
  <2>2. task'[t] = r /\ \A u \in Tasks : u # t => task'[u] = task[u]
    BY <1>2 DEF IInv, TypeOK
  <2>3. retained'[t] = v /\ \A a \in Actions : a # t => retained'[a] = retained[a]
    BY <1>0, <1>2 DEF IInv, TypeOK
  <2>4. TypeOK'
    <3>1. task' \in [Tasks -> TaskState]
      BY <1>2, <2>1, TaskTyped DEF IInv, TypeOK
    <3>2. retained' \in [Actions -> 0..Torn]
      BY <1>0, <1>2 DEF IInv, TypeOK
    <3>3. QED
      BY <3>1, <3>2 DEF IInv, TypeOK, RetainCopy
  <2>5. \A u \in Tasks : TaskInv(u, task[u])'
    <3> TAKE u \in Tasks
    <3>1. CASE u = t
      <4>1. task'[u] = r
        BY <2>2, <3>1
      <4>2. RecordsResult(u, r) /\ RemovesAcknowledged(u, r) /\ HoldsVerified(r)
        BY <1>2, <2>1 DEF RecordsResult, RemovesAcknowledged, HoldsVerified, Removing
      <4>3. CopyIsRetained(u, task[u])'
        BY <1>0, <1>2, <2>1, <2>3, <3>1, <4>1 DEF TaskInv, CopyIsRetained, Copied, Removing
      <4>4. QED
        BY <4>1, <4>2, <4>3
        DEF TaskInv, RecordsResult, RemovesAcknowledged, HoldsVerified, RetainCopy
    <3>2. CASE u # t
      <4>1. task'[u] = task[u] /\ TaskInv(u, task[u])
        BY <2>2, <3>2 DEF IInv
      <4>2. QED
        BY <2>3, <3>2, <4>1
        DEF TaskInv, RecordsResult, RemovesAcknowledged, HoldsVerified, RetainCopy, CopyIsRetained
    <3>3. QED
      BY <3>1, <3>2
  <2>6. \A c \in Contents : Acknowledged(c) => Acknowledged(c)'
    BY <1>0, <1>2, <2>3 DEF Acknowledged, RetainCopy
  <2>7. RestoredIsReachable'
    <3> SUFFICES ASSUME NEW u \in Tasks, task'[u].at = "restore", custody[task'[u].held] # 0
                 PROVE  Reachable(custody[task[u].held])'
      BY DEF RestoredIsReachable, RetainCopy
    <3>1. task'[u] = task[u] /\ Reachable(custody[task[u].held])
      BY <1>2, <2>1, <2>2 DEF IInv, RestoredIsReachable
    <3>2. custody[task[u].held] \in Contents
      BY <3>1, ResultConstants DEF IInv, TypeOK, TaskInv, HoldsVerified, Contents
    <3>3. \A n \in Names : Kept(n) => Kept(n)'
      BY <1>2, <2>1, <2>2 DEF Kept
    <3>4. QED
      BY <2>6, <3>1, <3>2, <3>3 DEF Reachable, RetainCopy
  <2>8. AckIsTrusted' /\ LogsGoLast' /\ RemovedWasAcknowledged'
    BY <2>6 DEF IInv, TypeOK, AckIsTrusted, LogsGoLast, LogsOutliveResult, RemovedWasAcknowledged,
       CustodyFiles, RetainCopy
  <2>9. QED
    BY <2>4, <2>5, <2>7, <2>8 DEF IInv
<1>3. CASE At(t, "retain") /\ retained[t] = 0 /\ retained' = [retained EXCEPT ![t] = Torn] /\ Goto(t, "retaining")
  BY <1>0, <1>2, <1>3 DEF At, Goto
<1>4. CASE At(t, "retaining") /\ retained' = [retained EXCEPT ![t] = task[t].content] /\ Goto(t, "sidecar")
  <2>1. retained[t] = Torn /\ task[t].content = task[t].ident
    BY <1>0, <1>4 DEF At, TaskInv, CopyIsRetained
  <2>2. task[t].content \in 0..Torn
    BY <1>0 DEF TaskState
  <2>3. QED
    BY <1>2, <1>4, <2>1, <2>2 DEF At, Goto
<1> QED
  BY <1>1, <1>3, <1>4 DEF RetainCopy

\* The resolution sidecar is the operator's business only.
LEMMA WriteSidecarKeeps ==
  ASSUME IInv, NEW t \in Tasks, WriteSidecar(t)
  PROVE  IInv'
<1>0. /\ task[t] \in TaskState /\ t \in Actions /\ TaskInv(t, task[t])
      /\ task[t].at \in {"sidecar", "completing"}
  BY TaskTyped DEF IInv, WriteSidecar, At
<1>1. sidecar' \in [Actions -> {"none", "torn", "written"}]
  BY <1>0 DEF WriteSidecar, IInv, TypeOK
<1>2. UNCHANGED <<package, files, records, retained, retention, crashes>>
  BY DEF WriteSidecar
<1>3. CASE Fail(t)
  BY <1>1, <1>2, <1>3, IdleIsFree, SidecarStep DEF Fail
<1>4. ASSUME NEW step \in {"completing", "ack"}, Goto(t, step)
      PROVE  IInv'
  <2> DEFINE r == [task[t] EXCEPT !.at = step]
  <2>1. task' = [task EXCEPT ![t] = r]
    BY <1>4 DEF Goto, IInv, TypeOK
  <2>2. r \in TaskState /\ r.at = step /\ r.content = task[t].content /\ r.ident = task[t].ident
    BY <1>0 DEF TaskState
  <2>3. TaskInv(t, r)
    BY <1>0, <2>2
    DEF TaskInv, RecordsResult, RemovesAcknowledged, HoldsVerified, CopyIsRetained, Removing, Copied
  <2>4. QED
    BY <1>1, <1>2, <2>1, <2>2, <2>3, SidecarStep
<1> QED
  BY <1>3, <1>4 DEF WriteSidecar

\* Every proof a task can give differs from that of no acknowledgement.
LEMMA ProofIsProof ==
  ASSUME NEW t \in Tasks
  PROVE  /\ Proof(t) \in {"canonical"} \cup Actions /\ Proof(t) # NoAck.proof
         /\ Proof(t) \in Actions => Proof(t) = t
  BY ResultConstants DEF Proof, Tasks, NoAck

\* The first record of a run: nothing was acknowledged and nothing is being removed.
LEMMA FirstRecord ==
  ASSUME IInv, NEW t \in Tasks, NEW step \in {"publish", "list"},
         ack = NoAck, task' = [task EXCEPT ![t].at = step],
         TaskInv(t, task[t])',
         ledger' \in Acks, ack' \in {NoAck, ledger'}, step = "publish" => ack' = NoAck,
         ledger = NoAck \/ UNCHANGED ledger,
         UNCHANGED <<package, files, operator, retention, crashes>>
  PROVE  IInv'
<1> USE DEF package, files, operator, retention
<1> DEFINE r == [task[t] EXCEPT !.at = step]
<1>0. task[t] \in TaskState /\ r \in TaskState /\ r.at = step
  BY TaskTyped DEF IInv, TaskState
<1>1. /\ task' = [task EXCEPT ![t] = r]
      /\ task'[t] = r /\ \A u \in Tasks : u # t => task'[u] = task[u]
  BY DEF IInv, TypeOK
<1>2. TypeOK'
  BY <1>0, <1>1, TaskTyped DEF IInv, TypeOK
<1>3. \A u \in Tasks : task[u].at \notin Removing
  BY DEF IInv, TaskInv, RemovesAcknowledged
<1>4. \A u \in Tasks : TaskInv(u, task[u])'
  <2> TAKE u \in Tasks
  <2>1. CASE u = t
    BY <2>1
  <2>2. CASE u # t
    <3>1. task'[u] = task[u] /\ TaskInv(u, task[u])
      BY <1>1, <2>2 DEF IInv
    <3>2. RecordsResult(u, task[u])'
      BY <3>1, ProofIsProof DEF TaskInv, RecordsResult
    <3>3. QED
      BY <1>3, <3>1, <3>2 DEF TaskInv, RemovesAcknowledged, HoldsVerified, CopyIsRetained
  <2>3. QED
    BY <2>1, <2>2
<1>5. RestoredIsReachable'
  BY <1>0, <1>1, <1>3 DEF RestoredIsReachable, Removing
<1>6. AckIsTrusted' /\ LogsGoLast' /\ RemovedWasAcknowledged'
  BY DEF IInv, AckIsTrusted, LogsGoLast, LogsOutliveResult, RemovedWasAcknowledged, Acknowledged
<1> QED
  BY <1>2, <1>4, <1>5, <1>6 DEF IInv

\* The ledger gets its line.
LEMMA AppendLedgerKeeps ==
  ASSUME IInv, NEW t \in Tasks, AppendLedger(t)
  PROVE  IInv'
<1>0. /\ task[t] \in TaskState /\ task[t].at = "ledger" /\ TaskInv(t, task[t])
      /\ task[t].content \in Contents /\ task[t].stamp \in Stamps
  BY TaskTyped DEF IInv, AppendLedger, At, TaskInv, RecordsResult, TaskState
<1>1. CASE ledger = NoAck
  <2> DEFINE rec == [proof |-> Proof(t), content |-> task[t].content, stamp |-> task[t].stamp]
             r == [task[t] EXCEPT !.at = "publish"]
  <2>1. /\ ledger' = rec /\ task' = [task EXCEPT ![t].at = "publish"]
        /\ UNCHANGED <<package, files, ack, operator, retention, crashes>>
    BY <1>1 DEF AppendLedger, Goto
  <2>2. ack = NoAck
    BY <1>1 DEF IInv, AckIsTrusted
  <2>3. rec \in Acks
    BY <1>0, ProofIsProof DEF Acks
  <2>4. /\ task'[t] = r /\ r.at = "publish" /\ r.content = task[t].content
        /\ r.stamp = task[t].stamp /\ r.ident = task[t].ident
    BY <1>0, <2>1 DEF IInv, TypeOK, TaskState
  <2>5. TaskInv(t, task[t])'
    BY <1>0, <2>1, <2>4 DEF TaskInv, RecordsResult, RemovesAcknowledged, HoldsVerified, CopyIsRetained,
       Removing, Copied, operator
  <2>6. QED
    BY <1>1, <2>1, <2>2, <2>3, <2>5, FirstRecord
<1>2. CASE ledger # NoAck /\ ledger.proof = Proof(t) /\ ledger.content = task[t].content
  <2> DEFINE r == [task[t] EXCEPT !.at = "publish", !.stamp = ledger.stamp]
  <2>1. /\ task' = [task EXCEPT ![t] = r]
        /\ UNCHANGED <<package, files, records, operator, retention, crashes>>
    BY <1>2 DEF AppendLedger, IInv, TypeOK, records
  <2>2. ledger \in Acks
    BY <1>2 DEF IInv, TypeOK
  <2>3. /\ r \in TaskState /\ r.at = "publish" /\ r.content = task[t].content
        /\ r.stamp = ledger.stamp /\ r.ident = task[t].ident
    BY <1>0, <2>2 DEF TaskState, Acks
  <2>4. ledger = [proof |-> Proof(t), content |-> r.content, stamp |-> r.stamp]
    BY <1>2, <2>2, <2>3 DEF Acks
  <2>5. TaskInv(t, r)
    BY <1>0, <2>3, <2>4
    DEF TaskInv, RecordsResult, RemovesAcknowledged, HoldsVerified, CopyIsRetained, Removing, Copied
  <2>6. QED
    BY <2>1, <2>3, <2>5, LocalStep
<1>3. CASE ledger # NoAck /\ ~(ledger.proof = Proof(t) /\ ledger.content = task[t].content)
  BY <1>3, FailStep DEF AppendLedger, records
<1> QED
  BY <1>1, <1>2, <1>3

\* The acknowledgement is published.
LEMMA PublishAckKeeps ==
  ASSUME IInv, NEW t \in Tasks, PublishAck(t)
  PROVE  IInv'
<1>0. /\ task[t] \in TaskState /\ task[t].at = "publish" /\ TaskInv(t, task[t])
      /\ task[t].content \in Contents /\ 0 \notin Contents
      /\ ledger = [proof |-> Proof(t), content |-> task[t].content, stamp |-> task[t].stamp]
  BY TaskTyped DEF IInv, PublishAck, At, TaskInv, RecordsResult, Contents
<1>1. ledger # NoAck /\ ledger \in Acks /\ ledger.proof = Proof(t) /\ ledger.content = task[t].content
  BY <1>0, ProofIsProof DEF IInv, TypeOK
<1> DEFINE r == [task[t] EXCEPT !.at = "list"]
<1>2. /\ r \in TaskState /\ r.at = "list" /\ r.content = task[t].content /\ r.ident = task[t].ident
  BY <1>0 DEF TaskState
<1>3. CASE ack = NoAck
  <2>1. /\ ack' = ledger' /\ task' = [task EXCEPT ![t].at = "list"]
        /\ UNCHANGED <<package, files, ledger, operator, retention, crashes>>
    BY <1>0, <1>3 DEF PublishAck, Goto
  <2>2. task'[t] = r
    BY <2>1 DEF IInv, TypeOK
  <2>3. TaskInv(t, task[t])'
    BY <1>0, <1>1, <1>2, <2>1, <2>2 DEF TaskInv, RecordsResult, RemovesAcknowledged, HoldsVerified,
       CopyIsRetained, Removing, Copied, operator
  <2>4. QED
    BY <1>1, <1>3, <2>1, <2>3, FirstRecord
<1>4. CASE ack # NoAck /\ Compatible(t, task[t].content) /\ ledger = ack
  <2>1. Goto(t, "list") /\ UNCHANGED <<package, files, records, operator, retention, crashes>>
    BY <1>4 DEF PublishAck, records
  <2>2. TaskInv(t, r)
    BY <1>0, <1>1, <1>2, <1>4
    DEF TaskInv, RecordsResult, RemovesAcknowledged, HoldsVerified, CopyIsRetained, Removing, Copied
  <2>3. QED
    BY <1>2, <2>1, <2>2, GotoStep
<1>5. CASE ack # NoAck /\ ~(Compatible(t, task[t].content) /\ ledger = ack)
  BY <1>5, FailStep DEF PublishAck, records
<1> QED
  BY <1>3, <1>4, <1>5

-----------------------------------------------------------------------------
(* Steps of a task that move or delete a file. *)

\* The result moves to a name that no task remembers, so whatever was reachable
\* as the result file is reachable under that name.
LEMMA CaptureKeeps ==
  ASSUME IInv, NEW t \in Tasks, Capture(t)
  PROVE  IInv'
<1>1. CASE src = 0
  BY <1>1, FailStep DEF Capture
<1>2. CASE src # 0
  <2> USE DEF package, records, operator, retention
  <2>0. task[t] \in TaskState /\ task[t].at = "capture" /\ TaskInv(t, task[t])
    BY TaskTyped DEF IInv, Capture, At
  <2>1. PICK f \in Names : /\ f = FreshName /\ custody[f] = 0
                           /\ \A u \in Tasks : task[u].held # f
    BY <1>2, NamesAreNames DEF Capture, UnusedNames, CustodyFiles
  <2> DEFINE r == [task[t] EXCEPT !.at = "check", !.held = f]
  <2>2. f \in 0..MaxNames
    BY <2>1, ResultConstants DEF Names
  <2>3. /\ r \in TaskState /\ r.at = "check" /\ r.held = f
        /\ r.content = task[t].content /\ r.ident = task[t].ident
    BY <2>0, <2>2 DEF TaskState
  <2>4. /\ task' = [task EXCEPT ![t] = r]
        /\ task'[t] = r /\ \A u \in Tasks : u # t => task'[u] = task[u]
    BY <1>2, <2>1 DEF Capture, IInv, TypeOK
  <2>5. /\ src' = 0 /\ UNCHANGED removed
        /\ custody' \in [Names -> 0..MaxContent]
        /\ custody'[f] = src /\ \A n \in Names : n # f => custody'[n] = custody[n]
    BY <1>2, <2>1 DEF Capture, IInv, TypeOK
  <2>6. TypeOK'
    BY <2>3, <2>4, <2>5, TaskTyped, ResultConstants DEF IInv, TypeOK, Capture
  <2>7. \A u \in Tasks : TaskInv(u, task[u])'
    <3> TAKE u \in Tasks
    <3>1. CASE u = t
      BY <2>0, <2>1, <2>3, <2>4, <3>1
      DEF TaskInv, RecordsResult, RemovesAcknowledged, HoldsVerified, CopyIsRetained, Capture, Removing, Copied
    <3>2. CASE u # t
      <4>1. task'[u] = task[u] /\ TaskInv(u, task[u])
        BY <2>4, <3>2 DEF IInv
      <4>2. HoldsVerified(task[u])'
        BY <2>1, <2>5, <4>1 DEF TaskInv, HoldsVerified
      <4>3. QED
        BY <4>1, <4>2 DEF TaskInv, RecordsResult, RemovesAcknowledged, CopyIsRetained, Capture
    <3>3. QED
      BY <3>1, <3>2
  <2>8. \A c : Acknowledged(c)' = Acknowledged(c)
    BY DEF Acknowledged, Capture
  <2>9. RestoredIsReachable'
    <3> SUFFICES ASSUME NEW u \in Tasks, task'[u].at = "restore", custody'[task'[u].held] # 0
                 PROVE  Reachable(custody[task[u].held])'
      BY DEF RestoredIsReachable
    <3> DEFINE c == custody[task[u].held]
    <3>1. /\ task'[u] = task[u] /\ task[u].held \in Names
          /\ custody'[task'[u].held] = c
      BY <2>1, <2>3, <2>4, <2>5 DEF IInv, TaskInv, HoldsVerified
    <3>2. Reachable(c)
      BY <3>1, <2>3, <2>4 DEF IInv, RestoredIsReachable
    <3>3. \A n \in Names : Kept(n) => Kept(n)'
      BY <2>3, <2>4 DEF Kept
    <3>4. Kept(f)'
      BY <2>1, <2>3, <2>4 DEF Kept
    <3>5. CASE c = src
      BY <2>1, <2>5, <3>1, <3>4, <3>5 DEF Reachable
    <3>6. CASE Acknowledged(c) \/ c \in replaced
      BY <2>8, <3>1, <3>6 DEF Reachable, Capture
    <3>7. ASSUME NEW n \in Names, custody[n] = c, Kept(n)
          PROVE  Reachable(custody[task[u].held])'
      <4>1. n # f
        BY <2>1, <3>1, <3>7
      <4>2. QED
        BY <2>5, <3>1, <3>3, <3>7, <4>1 DEF Reachable
    <3>8. QED
      BY <3>2, <3>5, <3>6, <3>7 DEF Reachable
  <2>10. AckIsTrusted' /\ RemovedWasAcknowledged'
    BY <2>5, <2>8 DEF IInv, AckIsTrusted, RemovedWasAcknowledged, Capture
  <2>11. LogsGoLast'
    BY <1>2 DEF IInv, LogsGoLast, LogsOutliveResult, Capture
  <2>12. QED
    BY <2>6, <2>7, <2>9, <2>10, <2>11 DEF IInv
<1> QED
  BY <1>1, <1>2

\* A file that is not the acknowledged one goes back to its place before its
\* captured name is deleted.
LEMMA CheckCustodyKeeps ==
  ASSUME IInv, NEW t \in Tasks, CheckCustody(t)
  PROVE  IInv'
<1>0. /\ task[t] \in TaskState /\ task[t].at = "check" /\ TaskInv(t, task[t])
      /\ task[t].held \in Names
  BY TaskTyped DEF IInv, CheckCustody, At, TaskInv, HoldsVerified
<1>1. UNCHANGED <<package, custody, removed, records, operator, retention, crashes>>
  BY DEF CheckCustody
<1> DEFINE c == custody[task[t].held]
<1>2. CASE task[t].held \in CustodyFiles /\ Matches(t)
  <2> DEFINE r == [task[t] EXCEPT !.at = "unlink"]
  <2>1. Goto(t, "unlink") /\ UNCHANGED src
    BY <1>2 DEF CheckCustody
  <2>2. /\ r \in TaskState /\ r.at = "unlink" /\ r.held = task[t].held
        /\ r.content = task[t].content /\ r.ident = task[t].ident
    BY <1>0 DEF TaskState
  <2>3. TaskInv(t, r)
    BY <1>0, <1>2, <2>2 DEF TaskInv, RecordsResult, RemovesAcknowledged, HoldsVerified, CopyIsRetained,
       Removing, Copied, Matches
  <2>4. QED
    BY <1>1, <2>1, <2>2, <2>3, GotoStep DEF files
<1>3. CASE task[t].held \in CustodyFiles /\ ~Matches(t) /\ src = 0
  <2> USE DEF package, records, operator, retention
  <2> DEFINE r == [task[t] EXCEPT !.at = "restore"]
  <2>1. src' = c /\ Goto(t, "restore")
    BY <1>3 DEF CheckCustody
  <2>2. /\ r \in TaskState /\ r.at = "restore" /\ r.held = task[t].held
        /\ r.content = task[t].content /\ r.ident = task[t].ident
    BY <1>0 DEF TaskState
  <2>3. /\ task' = [task EXCEPT ![t] = r]
        /\ task'[t] = r /\ \A u \in Tasks : u # t => task'[u] = task[u]
    BY <2>1 DEF Goto, IInv, TypeOK
  <2>4. c \in 0..MaxContent /\ c # 0
    BY <1>0, <1>3 DEF IInv, TypeOK, CustodyFiles
  <2>5. TypeOK'
    BY <1>1, <2>1, <2>2, <2>3, <2>4, TaskTyped DEF IInv, TypeOK
  <2>6. \A u \in Tasks : TaskInv(u, task[u])'
    <3> TAKE u \in Tasks
    <3>1. TaskInv(u, task'[u])
      BY <1>0, <2>2, <2>3
      DEF IInv, TaskInv, RecordsResult, RemovesAcknowledged, HoldsVerified, CopyIsRetained, Removing, Copied
    <3>2. QED
      BY <1>1, <3>1 DEF TaskInv, RecordsResult, RemovesAcknowledged, HoldsVerified, CopyIsRetained
  <2>7. \A d : Acknowledged(d)' = Acknowledged(d)
    BY <1>1 DEF Acknowledged
  <2>8. RestoredIsReachable'
    <3> SUFFICES ASSUME NEW u \in Tasks, task'[u].at = "restore", custody'[task'[u].held] # 0
                 PROVE  Reachable(custody[task[u].held])'
      BY DEF RestoredIsReachable
    <3> DEFINE d == custody[task[u].held]
    <3>1. task'[u].held = task[u].held /\ custody' = custody
      BY <1>1, <2>2, <2>3
    <3>2. CASE d = c
      BY <2>1, <3>1, <3>2 DEF Reachable
    <3>3. CASE d # c
      <4>1. u # t /\ task'[u] = task[u]
        BY <2>3, <3>3
      <4>2. Reachable(d) /\ d # 0
        BY <3>1, <4>1 DEF IInv, RestoredIsReachable
      <4>3. CASE Acknowledged(d) \/ d \in replaced
        BY <1>1, <2>7, <3>1, <4>3 DEF Reachable
      <4>4. ASSUME NEW n \in Names, custody[n] = d, Kept(n)
            PROVE  Reachable(custody[task[u].held])'
        <5>1. n # task[t].held
          BY <3>3, <4>4
        <5>2. Kept(n)'
          BY <2>2, <2>3, <4>4, <5>1 DEF Kept
        <5>3. QED
          BY <3>1, <4>4, <5>2 DEF Reachable
      <4>5. QED
        BY <1>3, <4>2, <4>3, <4>4 DEF Reachable
    <3>4. QED
      BY <3>2, <3>3
  <2>9. AckIsTrusted' /\ RemovedWasAcknowledged'
    BY <1>1, <2>7 DEF IInv, AckIsTrusted, RemovedWasAcknowledged
  <2>10. LogsGoLast'
    BY <1>1, <1>3 DEF IInv, LogsGoLast, LogsOutliveResult
  <2>11. QED
    BY <2>5, <2>6, <2>8, <2>9, <2>10 DEF IInv
<1>4. CASE task[t].held \notin CustodyFiles
  <2>1. Fail(t) /\ UNCHANGED src
    BY <1>4 DEF CheckCustody
  <2>2. QED
    BY <1>1, <2>1, FailStep DEF files
<1>5. CASE task[t].held \in CustodyFiles /\ ~Matches(t) /\ src # 0
  <2>1. Fail(t) /\ UNCHANGED src
    BY <1>5 DEF CheckCustody
  <2>2. QED
    BY <1>1, <2>1, FailStep DEF files
<1> QED
  BY <1>2, <1>3, <1>4, <1>5

\* What a task has verified was acknowledged, and by an operator only if the
\* retained copy has the same bytes.
LEMMA VerifiedIsAcknowledged ==
  ASSUME IInv, NEW t \in Tasks, task[t].at = "unlink", custody[task[t].held] # 0
  PROVE  Acknowledged(custody[task[t].held])
<1> DEFINE c == custody[task[t].held]
<1>1. /\ ack # NoAck /\ ack = ledger /\ ack.proof = Proof(t) /\ task[t].content = ack.content
      /\ c = task[t].content /\ task[t].ident \in {0, c}
  BY DEF IInv, TaskInv, RemovesAcknowledged, HoldsVerified, Removing, AckIsTrusted
<1>2. ASSUME ack.proof \in Actions
      PROVE  retained[ack.proof] = c
  <2>1. t \in Actions /\ ack.proof = t
    BY <1>1, <1>2, ProofIsProof
  <2>2. task[t].ident \in Contents /\ retained[t] = task[t].ident
    BY <2>1 DEF IInv, TaskInv, CopyIsRetained, Copied, Removing
  <2>3. QED
    BY <1>1, <2>1, <2>2 DEF Contents
<1> QED
  BY <1>1, <1>2 DEF Acknowledged

\* The last name of a result goes only when the result was acknowledged, or when
\* the package had replaced it.
LEMMA UnlinkKeeps ==
  ASSUME IInv, NEW t \in Tasks, Unlink(t)
  PROVE  IInv'
<1> USE DEF package, records, operator, retention
<1>0. /\ task[t] \in TaskState /\ TaskInv(t, task[t])
      /\ task[t].at \in {"unlink", "restore"} /\ task[t].held \in Names
  BY TaskTyped DEF IInv, Unlink, TaskInv, HoldsVerified
<1>1. PICK h \in Names : h = task[t].held
  BY <1>0
<1>2. PICK c \in 0..MaxContent : c = custody[h]
  BY DEF IInv, TypeOK
<1>3. /\ custody' \in [Names -> 0..MaxContent]
      /\ custody'[h] = 0 /\ \A n \in Names : n # h => custody'[n] = custody[n]
  BY <1>1, ResultConstants DEF Unlink, IInv, TypeOK
<1>4. /\ task' = [task EXCEPT ![t] = Idle] /\ task'[t] = Idle /\ Idle.at = "idle"
      /\ \A u \in Tasks : u # t => task'[u] = task[u]
  BY IdleIsFree DEF Unlink, Fail, IInv, TypeOK
<1>5. \A d \in removed' : d \in removed \/ (d = c /\ c # 0 /\ c # src /\ \A n \in Names : custody'[n] # c)
  BY <1>1, <1>2 DEF Unlink
<1>6. TypeOK'
  <2>1. removed' \subseteq Contents
    <3>1. c # 0 => c \in Contents
      BY ResultConstants DEF Contents
    <3>2. QED
      BY <1>5, <3>1 DEF IInv, TypeOK
  <2>2. task' \in [Tasks -> TaskState]
    BY <1>4, IdleIsFree, TaskTyped DEF IInv
  <2>3. QED
    BY <1>3, <2>1, <2>2 DEF Unlink, IInv, TypeOK
<1>7. \A u \in Tasks : TaskInv(u, task[u])'
  <2> TAKE u \in Tasks
  <2>1. TaskInv(u, task'[u])
    BY <1>4, IdleIsFree DEF IInv
  <2>2. HoldsVerified(task[u])'
    BY <1>3, <2>1 DEF TaskInv, HoldsVerified
  <2>3. QED
    BY <2>1, <2>2 DEF Unlink, TaskInv, RecordsResult, RemovesAcknowledged, CopyIsRetained
<1>8. \A d : Acknowledged(d)' = Acknowledged(d)
  BY DEF Acknowledged, Unlink
<1>9. task[t].at = "unlink" /\ c # 0 => Acknowledged(c)
  BY <1>1, <1>2, VerifiedIsAcknowledged
<1>10. RestoredIsReachable'
  <2> SUFFICES ASSUME NEW u \in Tasks, task'[u].at = "restore", custody'[task'[u].held] # 0
               PROVE  Reachable(custody[task[u].held])'
    BY DEF RestoredIsReachable
  <2>1. u # t /\ task'[u] = task[u] /\ task[u].held \in Names
    BY <1>4 DEF IInv, TaskInv, HoldsVerified
  <2>2. PICK d \in 0..MaxContent : d = custody[task[u].held]
    BY <2>1 DEF IInv, TypeOK
  <2>3. task[u].held # h /\ custody'[task'[u].held] = d /\ d # 0
    BY <1>3, <2>1, <2>2
  <2>4. Reachable(d)
    BY <2>1, <2>2, <2>3 DEF IInv, RestoredIsReachable
  <2>5. CASE Acknowledged(d) \/ d \in replaced \/ d = src
    <3>1. Acknowledged(d)' \/ d \in replaced' \/ d = src'
      BY <1>8, <2>5 DEF Unlink
    <3>2. QED
      BY <2>3, <3>1 DEF Reachable
  <2>6. ASSUME NEW n \in Names, custody[n] = d, Kept(n)
        PROVE  Reachable(custody[task[u].held])'
    <3>1. Kept(n)'
      BY <1>4, <2>6 DEF Kept
    <3>2. CASE n # h
      BY <1>3, <2>3, <2>6, <3>1, <3>2 DEF Reachable
    <3>3. CASE n = h
      <4>1. task[t].at = "unlink"
        BY <1>0, <1>1, <2>6, <3>3 DEF Kept
      <4>2. Acknowledged(d)
        BY <1>2, <1>9, <2>3, <2>6, <3>3, <4>1
      <4>3. QED
        BY <1>8, <2>3, <4>2 DEF Reachable
    <3>4. QED
      BY <3>2, <3>3
  <2>7. QED
    BY <2>4, <2>5, <2>6 DEF Reachable
<1>11. RemovedWasAcknowledged'
  <2> SUFFICES ASSUME NEW d \in removed'
               PROVE  d \in replaced' \/ Acknowledged(d)'
    BY DEF RemovedWasAcknowledged
  <2>1. CASE d \in removed
    BY <1>8, <2>1 DEF IInv, RemovedWasAcknowledged, Unlink
  <2>2. CASE d = c /\ c # 0 /\ c # src /\ \A n \in Names : custody'[n] # c
    <3>1. CASE task[t].at = "unlink"
      BY <1>8, <1>9, <2>2, <3>1
    <3>2. CASE task[t].at = "restore"
      <4>1. Reachable(c)
        BY <1>1, <1>2, <2>2, <3>2 DEF IInv, RestoredIsReachable
      <4>2. ~ \E n \in Names : custody[n] = c /\ Kept(n)
        BY <1>1, <1>3, <2>2, <3>2 DEF Kept
      <4>3. QED
        BY <1>8, <2>2, <4>1, <4>2 DEF Reachable, Unlink
    <3>3. QED
      BY <1>0, <3>1, <3>2
  <2>3. QED
    BY <1>5, <2>1, <2>2
<1>12. AckIsTrusted' /\ LogsGoLast'
  BY <1>3 DEF IInv, AckIsTrusted, LogsGoLast, LogsOutliveResult, CustodyFiles, Unlink
<1> QED
  BY <1>6, <1>7, <1>10, <1>11, <1>12 DEF IInv

-----------------------------------------------------------------------------
(* The package, retention and crashes. *)

\* A newer result puts the one before it among the replaced.
LEMMA PublishResultKeeps ==
  ASSUME IInv, PublishResult
  PROVE  IInv'
<1> USE DEF records, operator, retention
<1>1. TypeOK'
  BY TypePackage DEF IInv
<1>2. \A u \in Tasks : TaskInv(u, task[u])'
  BY DEF IInv, PublishResult, TaskInv, RecordsResult, RemovesAcknowledged, HoldsVerified, CopyIsRetained
<1>3. \A c : Acknowledged(c)' = Acknowledged(c)
  BY DEF Acknowledged, PublishResult
<1>4. \A n : Kept(n)' = Kept(n)
  BY DEF Kept, PublishResult
<1>5. RestoredIsReachable'
  <2> SUFFICES ASSUME NEW u \in Tasks, task[u].at = "restore", custody[task[u].held] # 0
               PROVE  Reachable(custody[task[u].held])'
    BY DEF RestoredIsReachable, PublishResult
  <2>1. Reachable(custody[task[u].held])
    BY DEF IInv, RestoredIsReachable
  <2>2. QED
    BY <1>3, <1>4, <2>1 DEF Reachable, PublishResult
<1>6. AckIsTrusted' /\ LogsGoLast' /\ RemovedWasAcknowledged'
  BY <1>3 DEF IInv, AckIsTrusted, LogsGoLast, LogsOutliveResult, RemovedWasAcknowledged, PublishResult
<1> QED
  BY <1>1, <1>2, <1>5, <1>6 DEF IInv

\* Nothing else depends on the parent's session, and the logs go only when
\* inspectRun finds nothing left.
LEMMA QuietStep ==
  ASSUME IInv, ClaimResult \/ Synthesize \/ RunEnds \/ Compact
  PROVE  IInv'
<1>0. /\ UNCHANGED <<files, records, operator, task, replaced>>
      /\ terminal => terminal'
  BY DEF ClaimResult, Synthesize, RunEnds, Compact, package, retention
<1> USE DEF files, records, operator
<1>1. TypeOK'
  BY TypePackage DEF IInv
<1>2. \A u \in Tasks : TaskInv(u, task[u])'
  BY <1>0 DEF IInv, TaskInv, RecordsResult, RemovesAcknowledged, HoldsVerified, CopyIsRetained
<1>3. \A c : Acknowledged(c)' = Acknowledged(c)
  BY <1>0 DEF Acknowledged
<1>4. \A n : Kept(n)' = Kept(n)
  BY <1>0 DEF Kept
<1>5. \A c : Reachable(c)' = Reachable(c)
  BY <1>0, <1>3, <1>4 DEF Reachable
<1>6. RestoredIsReachable'
  BY <1>0, <1>5 DEF IInv, RestoredIsReachable
<1>7. AckIsTrusted' /\ RemovedWasAcknowledged'
  BY <1>0, <1>3 DEF IInv, AckIsTrusted, RemovedWasAcknowledged
<1>8. LogsGoLast'
  <2>1. CASE UNCHANGED logs
    BY <1>0, <2>1 DEF IInv, LogsGoLast, LogsOutliveResult, CustodyFiles
  <2>2. CASE Compact
    BY <1>0, <2>2 DEF LogsGoLast, LogsOutliveResult, CustodyFiles, Compact, Eligible, package
  <2>3. QED
    BY <2>1, <2>2 DEF ClaimResult, Synthesize, RunEnds, retention
<1> QED
  BY <1>1, <1>2, <1>6, <1>7, <1>8 DEF IInv

\* A crash forgets the tasks and leaves every file.
LEMMA CrashKeeps ==
  ASSUME IInv, Crash
  PROVE  IInv'
<1> USE DEF package, files, records, operator, retention
<1>1. TypeOK'
  BY TypePackage DEF IInv
<1>2. \A u \in Tasks : task'[u] = Idle /\ Idle.at = "idle" /\ TaskInv(u, Idle)
  BY IdleIsFree DEF Crash
<1>3. \A u \in Tasks : TaskInv(u, task[u])'
  BY <1>2 DEF Crash, TaskInv, RecordsResult, RemovesAcknowledged, HoldsVerified, CopyIsRetained
<1>4. RestoredIsReachable'
  BY <1>2 DEF RestoredIsReachable
<1>5. AckIsTrusted' /\ LogsGoLast' /\ RemovedWasAcknowledged'
  BY DEF IInv, AckIsTrusted, LogsGoLast, LogsOutliveResult, RemovedWasAcknowledged, Acknowledged,
     CustodyFiles, Crash
<1> QED
  BY <1>1, <1>3, <1>4, <1>5 DEF IInv

-----------------------------------------------------------------------------
(* The theorems. *)

\* The invariant holds at first.
LEMMA InitIInv == Init => IInv
<1> SUFFICES ASSUME Init PROVE IInv
  OBVIOUS
<1>1. \A t \in Tasks : task[t] = Idle /\ Idle \in TaskState /\ Idle.at = "idle" /\ TaskInv(t, Idle)
  BY IdleIsFree DEF Init
<1>2. TypeOK
  <2>1. 0 \in 0..MaxContent /\ 0 \in 0..Torn /\ 0 \in 0..MaxCrashes
    BY ResultConstants DEF Torn
  <2>2. task \in [Tasks -> TaskState]
    BY <1>1 DEF Init
  <2>3. QED
    BY <2>1, <2>2 DEF Init, TypeOK
<1> QED
  BY <1>1, <1>2 DEF Init, IInv, AckIsTrusted, RestoredIsReachable, LogsGoLast, LogsOutliveResult,
     RemovedWasAcknowledged

\* Every step keeps it.
LEMMA NextIInv == IInv /\ [Next]_vars => IInv'
<1> SUFFICES ASSUME IInv, [Next]_vars PROVE IInv'
  OBVIOUS
<1>1. CASE PublishResult
  BY <1>1, PublishResultKeeps
<1>2. CASE ClaimResult \/ Synthesize \/ RunEnds \/ Compact
  BY <1>2, QuietStep
<1>3. CASE Crash
  BY <1>3, CrashKeeps
<1>4. ASSUME NEW t \in Tasks, StartSettling(t) \/ StartResolving(t)
      PROVE  IInv'
  BY <1>4, StartSettlingKeeps, StartResolvingKeeps
<1>5. ASSUME NEW t \in Tasks, Acknowledge(t)
      PROVE  IInv'
  BY <1>5, ReadAckKeeps, AppendLedgerKeeps, PublishAckKeeps DEF Acknowledge
<1>6. ASSUME NEW t \in Tasks, Remove(t)
      PROVE  IInv'
  BY <1>6, ListCustodyKeeps, CaptureKeeps, CheckCustodyKeeps, UnlinkKeeps DEF Remove
<1>7. ASSUME NEW t \in Tasks, RetainCopy(t) \/ WriteSidecar(t)
      PROVE  IInv'
  BY <1>7, RetainCopyKeeps, WriteSidecarKeeps
<1>8. CASE UNCHANGED vars
  <2> USE <1>8 DEF vars, package, files, records, operator, retention
  <2>1. TypeOK' /\ AckIsTrusted' /\ LogsGoLast'
    BY DEF IInv, TypeOK, AckIsTrusted, LogsGoLast, LogsOutliveResult, CustodyFiles
  <2>2. \A t \in Tasks : TaskInv(t, task[t])'
    BY DEF IInv, TaskInv, RecordsResult, RemovesAcknowledged, HoldsVerified, CopyIsRetained
  <2>3. RestoredIsReachable' /\ RemovedWasAcknowledged'
    BY DEF IInv, RestoredIsReachable, Reachable, Acknowledged, Kept, RemovedWasAcknowledged
  <2>4. QED
    BY <2>1, <2>2, <2>3 DEF IInv
<1> QED
  BY <1>1, <1>2, <1>3, <1>4, <1>5, <1>6, <1>7, <1>8 DEF Next, Proceed

\* The inductive invariant holds of every reachable state.
THEOREM Inductive == Spec => []IInv
  BY InitIInv, NextIInv, PTL DEF Spec

\* Every variable keeps its type, whatever the bounds.
THEOREM TypeCorrect == Spec => []TypeOK
  BY Inductive, PTL DEF IInv

\* agentd deletes the last name of a result only after the result was
\* acknowledged, or after the package had put a newer one in its place.
THEOREM RemovedAfterAck == Spec => []RemovedWasAcknowledged
  BY Inductive, PTL DEF IInv

\* An acknowledgement on disk is always the ledger's record of the run.
THEOREM AckTrusted == Spec => []AckIsTrusted
  BY Inductive, PTL DEF IInv

\* The run's logs are deleted only when its result was settled and is gone.
THEOREM LogsLast == Spec => []LogsOutliveResult
<1>1. IInv => LogsOutliveResult
  BY DEF IInv, LogsGoLast
<1> QED
  BY <1>1, Inductive, PTL
=============================================================================
