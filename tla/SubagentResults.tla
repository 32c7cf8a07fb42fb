--------------------------- MODULE SubagentResults ---------------------------
(***************************************************************************)
(* What becomes of a subagent's result file: agentd's settlement           *)
(* (settleCompletedSubagentResults), the operator's resolution             *)
(* (resolvePendingSubagentDelivery) and the retention of the run's logs.   *)
(* All of them work on the same files, without a lock, and agentd may      *)
(* crash between any two of their steps.  One run; runs share no files     *)
(* but the ledger, which keeps them apart by run key.                      *)
(*                                                                         *)
(* A content number stands for one published file: its inode, its bytes    *)
(* and their digest.  The package (external) may replace the result by a   *)
(* newer one as long as the run has no terminal proof.                     *)
(***************************************************************************)
EXTENDS Naturals, FiniteSets

CONSTANTS
    Settlers,       \* settlement passes that may be under way at once
    Actions,        \* operator requests: "dismiss", "supersede"
    Dispositions,   \* delivery dispositions to consider
    MaxNames,       \* bound on the custody names in use at once
    MaxContent,     \* bound on the results the package publishes
    MaxCrashes      \* bound on agentd's crashes

ASSUME ResultConstants ==
    /\ Settlers \cap Actions = {} /\ Actions \subseteq {"dismiss", "supersede"}
    /\ Dispositions \subseteq {"awaited", "follow_up", "silent"}
    /\ MaxNames \in Nat \ {0} /\ MaxContent \in Nat \ {0} /\ MaxCrashes \in Nat

VARIABLES
    disp,       \* the run's delivery disposition
    published,  \* results the package has published
    terminal,   \* the run's terminal, non-resumable proof is on disk
    src,        \* the result file, 0 when absent
    custody,    \* what is captured for removal, by file name
    claim,      \* what result-claim.json and the parent's claim entry name
    applied,    \* the parent's session holds canonical proof of synthesis
    ledger,     \* the central delivery ledger's record of the run
    ack,        \* delivery-ack.json
    retained,   \* the operator's retained copies
    sidecar,    \* and their resolution sidecars
    task,       \* the requests and passes under way
    removed,    \* contents agentd has deleted the last name of
    replaced,   \* contents over which the package put a newer result
    tombstone,  \* retention's progress
    logs,       \* the run's bulky logs
    crashes

package == <<disp, published, terminal, claim, applied, replaced>>
files == <<src, custody, removed>>
records == <<ledger, ack>>
operator == <<retained, sidecar>>
retention == <<tombstone, logs>>
vars == <<package, files, records, operator, task, retention, crashes>>

Contents == 1..MaxContent
Torn == MaxContent + 1      \* a file that was created and not yet written
Tasks == Settlers \cup Actions
Stamps == {1, 2}            \* acknowledgedAt: earlier and later attempts differ
Proof(t) == IF t \in Settlers THEN "canonical" ELSE t
NoAck == [proof |-> "none", content |-> 0, stamp |-> 0]
Acks == [proof : {"canonical"} \cup Actions, content : Contents, stamp : Stamps]
Names == 1..MaxNames
NoName == 0
TaskState == [at : {"idle", "retain", "retaining", "sidecar", "completing", "ack", "ledger",
                    "publish", "list", "capture", "check", "unlink", "restore"},
              content : 0..MaxContent, ident : 0..MaxContent, held : 0..MaxNames, stamp : Stamps]
Idle == [at |-> "idle", content |-> 0, ident |-> 0, held |-> NoName, stamp |-> 1]

TypeOK ==
    /\ disp \in Dispositions /\ published \in 0..MaxContent /\ terminal \in BOOLEAN
    /\ src \in 0..MaxContent /\ custody \in [Names -> 0..MaxContent]
    /\ removed \subseteq Contents /\ replaced \subseteq Contents
    /\ claim \in 0..MaxContent /\ applied \in BOOLEAN
    /\ ledger \in Acks \cup {NoAck} /\ ack \in Acks \cup {NoAck}
    /\ retained \in [Actions -> 0..Torn] /\ sidecar \in [Actions -> {"none", "torn", "written"}]
    /\ task \in [Tasks -> TaskState]
    /\ tombstone \in {"none", "prepared", "authorized", "completed"} /\ logs \in BOOLEAN
    /\ crashes \in 0..MaxCrashes

Init ==
    /\ disp \in Dispositions /\ published = 0 /\ terminal = FALSE /\ claim = 0 /\ applied = FALSE
    /\ src = 0 /\ custody = [n \in Names |-> 0] /\ removed = {} /\ replaced = {}
    /\ ledger = NoAck /\ ack = NoAck
    /\ retained = [a \in Actions |-> 0] /\ sidecar = [a \in Actions |-> "none"]
    /\ task = [t \in Tasks |-> Idle]
    /\ tombstone = "none" /\ logs = TRUE /\ crashes = 0

\* resultCustodyFiles: the names in use.
CustodyFiles == {n \in Names : custody[n] # 0}
\* randomUUID: a name that is not in use and that no task remembers.
UnusedNames == {n \in Names \ CustodyFiles : \A t \in Tasks : task[t].held # n}
FreshName == CHOOSE n \in UnusedNames : TRUE

At(t, step) == task[t].at = step
Goto(t, step) == task' = [task EXCEPT ![t].at = step]
Fail(t) == task' = [task EXCEPT ![t] = Idle]

-----------------------------------------------------------------------------
(* The package and the parent's session. *)

\* A result is published, or a newer one replaces it.
PublishResult ==
    /\ ~terminal /\ published < MaxContent
    /\ published' = published + 1 /\ src' = published + 1
    /\ replaced' = replaced \cup ({src} \ {0})
    /\ UNCHANGED <<disp, terminal, claim, applied, custody, removed, records, operator, task, retention, crashes>>

\* The parent claims the exact result it awaited.
ClaimResult ==
    /\ disp = "awaited" /\ src # 0 /\ claim = 0
    /\ claim' = src
    /\ UNCHANGED <<disp, published, terminal, applied, replaced, files, records, operator, task, retention, crashes>>

\* A visible assistant message with the claim, or the follow-up's continuation,
\* is persisted in the parent's session.
Synthesize ==
    /\ ~applied
    /\ IF disp = "awaited" THEN claim # 0 ELSE disp = "follow_up" /\ src # 0
    /\ applied' = TRUE
    /\ UNCHANGED <<disp, published, terminal, claim, replaced, files, records, operator, task, retention, crashes>>

RunEnds ==
    /\ published > 0 /\ ~terminal
    /\ terminal' = TRUE
    /\ UNCHANGED <<disp, published, claim, applied, replaced, files, records, operator, task, retention, crashes>>

-----------------------------------------------------------------------------
(* settleCompletedSubagentResults: on an explicit open and on every outward *)
(* assistant message.                                                       *)

\* verifyAwaitedClaim: the sidecar and the result carry the claim's digest.
Verified == disp = "awaited" => src = claim

StartSettling(t) ==
    /\ t \in Settlers /\ At(t, "idle") /\ applied
    /\ IF Verified THEN Goto(t, "ack") ELSE UNCHANGED task
    /\ UNCHANGED <<package, files, records, operator, retention, crashes>>

-----------------------------------------------------------------------------
(* resolvePendingSubagentDelivery up to its acknowledgement. *)

\* The request is audited and the bytes are read: the result, or the only file
\* in custody.
StartResolving(a) ==
    /\ a \in Actions /\ At(a, "idle")
    /\ \E c \in IF src # 0 THEN {src} ELSE {custody[n] : n \in CustodyFiles} :
         /\ src # 0 \/ Cardinality(CustodyFiles) = 1
         /\ task' = [task EXCEPT ![a] = [Idle EXCEPT !.at = "retain", !.content = c, !.ident = c]]
    /\ UNCHANGED <<package, files, records, operator, retention, crashes>>

\* The copy is created exclusively and then written; an existing one must match.
RetainCopy(a) ==
    /\ a \in Actions
    /\ \/ /\ At(a, "retain") /\ retained[a] = 0
          /\ retained' = [retained EXCEPT ![a] = Torn] /\ Goto(a, "retaining")
       \/ /\ At(a, "retaining")
          /\ retained' = [retained EXCEPT ![a] = task[a].content] /\ Goto(a, "sidecar")
       \/ /\ At(a, "retain") /\ retained[a] # 0
          /\ IF retained[a] = task[a].content THEN Goto(a, "sidecar") ELSE Fail(a)
          /\ UNCHANGED retained
    /\ UNCHANGED <<package, files, records, sidecar, retention, crashes>>

\* The resolution sidecar, likewise, and the audit's completed record.
WriteSidecar(a) ==
    /\ a \in Actions
    /\ \/ /\ At(a, "sidecar") /\ sidecar[a] = "none"
          /\ sidecar' = [sidecar EXCEPT ![a] = "torn"] /\ Goto(a, "completing")
       \/ /\ At(a, "completing")
          /\ sidecar' = [sidecar EXCEPT ![a] = "written"] /\ Goto(a, "ack")
       \/ /\ At(a, "sidecar") /\ sidecar[a] # "none"
          /\ IF sidecar[a] = "written" THEN Goto(a, "ack") ELSE Fail(a)
          /\ UNCHANGED sidecar
    /\ UNCHANGED <<package, files, records, retained, retention, crashes>>

-----------------------------------------------------------------------------
(* writeSubagentDeliveryAck. *)

\* A settlement deletes what it acknowledged, a resolution what it retained.
Ident(t, c) == IF t \in Settlers THEN c ELSE task[t].ident

\* compatibleDeliveryAck: the acknowledgement on disk is for this proof and for
\* the result that is there, if one is.
Compatible(t, c) == ack.proof = Proof(t) /\ (c = 0 \/ c = ack.content)

ReadAck(t) ==
    /\ At(t, "ack")
    /\ IF ack # NoAck
       THEN IF Compatible(t, src) /\ ledger = ack
            THEN task' = [task EXCEPT ![t].at = "list", ![t].content = ack.content, ![t].ident = Ident(t, src)]
            ELSE Fail(t)
       ELSE IF src = 0 THEN Fail(t)
            ELSE \E s \in Stamps : task' = [task EXCEPT ![t].at = "ledger", ![t].content = src,
                                                        ![t].ident = Ident(t, src), ![t].stamp = s]
    /\ UNCHANGED <<package, files, records, operator, retention, crashes>>

\* appendDeliveryLedger: one record per run; the record's time wins.
\* Mutant: a second attempt keeps its own time.
AppendLedger_OwnTime(t) ==
    /\ At(t, "ledger")
    /\ IF ledger = NoAck
       THEN ledger' = [proof |-> Proof(t), content |-> task[t].content, stamp |-> task[t].stamp] /\ Goto(t, "publish")
       ELSE /\ IF ledger.proof = Proof(t) /\ ledger.content = task[t].content
               THEN Goto(t, "publish") ELSE Fail(t)
            /\ UNCHANGED ledger
    /\ UNCHANGED <<package, files, ack, operator, retention, crashes>>
AppendLedger(t) ==
    /\ At(t, "ledger")
    /\ IF ledger = NoAck
       THEN ledger' = [proof |-> Proof(t), content |-> task[t].content, stamp |-> task[t].stamp] /\ Goto(t, "publish")
       ELSE /\ IF ledger.proof = Proof(t) /\ ledger.content = task[t].content
               THEN task' = [task EXCEPT ![t].at = "publish", ![t].stamp = ledger.stamp] ELSE Fail(t)
            /\ UNCHANGED ledger
    /\ UNCHANGED <<package, files, ack, operator, retention, crashes>>

\* The acknowledgement is linked into place; one that is already there must be
\* the same.
PublishAck(t) ==
    /\ At(t, "publish")
    /\ IF ack = NoAck
       THEN /\ ack' = [proof |-> Proof(t), content |-> task[t].content, stamp |-> task[t].stamp]
            /\ Goto(t, "list")
       ELSE /\ IF Compatible(t, task[t].content) /\ ledger = ack THEN Goto(t, "list") ELSE Fail(t)
            /\ UNCHANGED ack
    /\ UNCHANGED <<package, files, ledger, operator, retention, crashes>>

-----------------------------------------------------------------------------
(* removeAcknowledgedResultWithCustody. *)

\* Mutant: a file left in custody by a crash is not looked for.
ListCustody_Ignored(t) ==
    /\ At(t, "list")
    /\ Goto(t, "capture")
    /\ UNCHANGED <<package, files, records, operator, retention, crashes>>
ListCustody(t) ==
    /\ At(t, "list")
    /\ CASE CustodyFiles = {} -> Goto(t, "capture")
         [] Cardinality(CustodyFiles) = 1 ->
              task' = [task EXCEPT ![t].at = "check", ![t].held = CHOOSE n \in CustodyFiles : TRUE]
         [] OTHER -> Fail(t)
    /\ UNCHANGED <<package, files, records, operator, retention, crashes>>

Capture(t) ==
    /\ At(t, "capture")
    /\ IF src = 0 THEN Fail(t) /\ UNCHANGED files
       ELSE /\ UnusedNames # {}
            /\ custody' = [custody EXCEPT ![FreshName] = src] /\ src' = 0 /\ UNCHANGED removed
            /\ task' = [task EXCEPT ![t].at = "check", ![t].held = FreshName]
    /\ UNCHANGED <<package, records, operator, retention, crashes>>

\* verifyCustody, and restoreMismatchedCustody unless a newer result is there.
Matches(t) == LET c == custody[task[t].held] IN c = task[t].content /\ task[t].ident \in {0, c}
\* Mutant: what was captured is not compared with what was acknowledged.
CheckCustody_Trusting(t) ==
    /\ At(t, "check")
    /\ IF task[t].held \in CustodyFiles THEN Goto(t, "unlink") ELSE Fail(t)
    /\ UNCHANGED <<package, files, records, operator, retention, crashes>>
CheckCustody(t) ==
    /\ At(t, "check")
    /\ CASE task[t].held \notin CustodyFiles -> Fail(t) /\ UNCHANGED src
         [] task[t].held \in CustodyFiles /\ Matches(t) -> Goto(t, "unlink") /\ UNCHANGED src
         [] task[t].held \in CustodyFiles /\ ~Matches(t) /\ src = 0 ->
              src' = custody[task[t].held] /\ Goto(t, "restore")
         [] OTHER -> Fail(t) /\ UNCHANGED src
    /\ UNCHANGED <<package, custody, removed, records, operator, retention, crashes>>

\* The captured name is deleted; the content goes with its last name.
Unlink(t) ==
    /\ task[t].at \in {"unlink", "restore"}
    /\ custody' = [custody EXCEPT ![task[t].held] = 0]
    /\ removed' = removed \cup ({custody[task[t].held]} \ ({0, src} \cup {custody'[n] : n \in Names}))
    /\ Fail(t)
    /\ UNCHANGED <<package, src, records, operator, retention, crashes>>

-----------------------------------------------------------------------------
(* Retention, and crashes. *)

\* inspectRun finds nothing to protect (age and leases are a matter of waiting).
\* Mutant: files in custody are not counted.
Eligible_NoCustody == terminal /\ ack # NoAck /\ ack = ledger /\ src = 0
Eligible == terminal /\ ack # NoAck /\ ack = ledger /\ src = 0 /\ CustodyFiles = {}

\* compactSubagentRetention: tombstone, audit, deletion, completion; a crashed
\* pass is taken up where its tombstone stands.
Compact ==
    /\ Eligible /\ (tombstone # "completed" \/ logs)
    /\ CASE tombstone = "none" -> tombstone' = "prepared" /\ UNCHANGED logs
         [] tombstone = "prepared" -> tombstone' = "authorized" /\ UNCHANGED logs
         [] tombstone = "authorized" /\ logs -> logs' = FALSE /\ UNCHANGED tombstone
         [] OTHER -> tombstone' = "completed" /\ UNCHANGED logs
    /\ UNCHANGED <<package, files, records, operator, task, crashes>>

Crash ==
    /\ crashes < MaxCrashes /\ crashes' = crashes + 1
    /\ task' = [t \in Tasks |-> Idle]
    /\ UNCHANGED <<package, files, records, operator, retention>>

-----------------------------------------------------------------------------
Acknowledge(t) == ReadAck(t) \/ AppendLedger(t) \/ PublishAck(t)
Remove(t) == ListCustody(t) \/ Capture(t) \/ CheckCustody(t) \/ Unlink(t)
Proceed(t) == Acknowledge(t) \/ Remove(t) \/ RetainCopy(t) \/ WriteSidecar(t)

Next ==
    \/ PublishResult \/ ClaimResult \/ Synthesize \/ RunEnds
    \/ \E t \in Tasks : StartSettling(t) \/ StartResolving(t) \/ Proceed(t)
    \/ Compact \/ Crash

Spec == Init /\ [][Next]_vars

\* Agentd finishes what it has begun, and the parent is opened again and again.
FairSpec ==
    /\ Spec
    /\ \A t \in Tasks : WF_vars(Proceed(t)) /\ WF_vars(StartSettling(t))

-----------------------------------------------------------------------------
(* Properties. *)

\* The result c was acknowledged, in the ledger and beside the run, and the
\* operator's retained copy, if it was the operator, has the same bytes.
Acknowledged(c) ==
    /\ ack # NoAck /\ ack = ledger /\ ack.content = c
    /\ ack.proof \in Actions => retained[ack.proof] = c

\* agentd deletes the last name of a result only after it was acknowledged with its
\* own digest, or after the package itself had put a newer result in its place
\* (removeAcknowledgedResultWithCustody, through swaps, restores and crashes).
RemovedWasAcknowledged == \A c \in removed : c \in replaced \/ Acknowledged(c)

\* An acknowledgement on disk is the one the ledger holds, to the byte: no
\* interleaving of settlements, and no crash between ledger and file, leaves one
\* that trustedDeliveryAcknowledgement rejects.
AckIsTrusted == ack # NoAck => ack = ledger

\* docs/subagents.md: "conservative cleanup only to proven-terminal ... logs
\* with settlement proof"; pending results remain protected.
LogsOutliveResult == ~logs => ack # NoAck /\ ack = ledger /\ src = 0 /\ CustodyFiles = {}

Pending == src # 0 \/ CustodyFiles # {}
\* docs/subagents.md: after a crash "the next explicit session open can prove
\* settlement".  A follow-up that the parent has answered is settled in the end,
\* unless the operator took it over or the package replaced the result.
FollowUpSettles ==
    disp = "follow_up" /\ applied ~> ~Pending \/ ledger.proof \in Actions \/ published > 1

\* The same of an awaited result.
AwaitedSettles ==
    disp = "awaited" /\ applied ~> ~Pending \/ ledger.proof \in Actions \/ published > 1

\* docs/subagents.md: "Custody rename/recovery is identity- and digest-bound and
\* preserves a newer source generation if a path is swapped concurrently."
NewerResultIsPreserved ==
    disp = "awaited" /\ ledger.proof = "canonical" => \A c \in removed : c = claim
=============================================================================
