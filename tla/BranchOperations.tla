--------------------------- MODULE BranchOperations ---------------------------
(***************************************************************************)
(* The forum's durable operations on one source topic and its Pi session:  *)
(* fork (before a user message), clone (at the leaf) and compaction.  A    *)
(* row of the forum's database is the operation; agentd keeps a ledger of  *)
(* forks and clones of its own, fences the source while a record of it is  *)
(* unresolved, and works under the session's mutex.  Either process may    *)
(* crash between any two steps, and any answer may be lost.                *)
(*                                                                         *)
(* An entry id of the source is a number: leaf is the latest.  A child     *)
(* session is its position in kids.                                        *)
(***************************************************************************)
EXTENDS Naturals, Sequences, FiniteSets

CONSTANTS Forks, Clones, Compactions,   \* operation ids, by kind
          MaxLeaf,                      \* bound on the source's entries
          MaxFaults                     \* bound on crashes, errors and lost answers

Ops == Forks \cup Clones \cup Compactions
Branches == Forks \cup Clones
Kin(o) == IF o \in Forks THEN Forks ELSE IF o \in Clones THEN Clones ELSE Compactions

ASSUME BranchConstants ==
    /\ Forks \cap Clones = {} /\ Branches \cap Compactions = {}
    /\ MaxLeaf \in Nat /\ MaxFaults \in Nat

VARIABLES
    row,        \* the forum's operation rows, with their files and dispatches
    work,       \* how far the service's worker is with the operation
    post,       \* whether an ordinary post waits for its dispatch
    ledger,     \* agentd's records
    run,        \* the operation agentd executes under the session's mutex
    conv,       \* agentd's conversation on the source
    cli,        \* an interactive Pi process owns the source
    leaf,       \* the source's last entry
    compacted,  \* the compaction entries of the source, by parent and operation
    kids,       \* child sessions on disk
    faults

forum == <<row, work, post>>
source == <<conv, cli, leaf, compacted>>
vars == <<row, work, post, ledger, run, conv, cli, leaf, compacted, kids, faults>>

NoRun == [op |-> "none", at |-> "none", child |-> 0, adopt |-> FALSE, heard |-> FALSE]
NoRow == [status |-> "absent", leaf |-> 0, child |-> 0, files |-> "none", paths |-> "staged",
          dispatch |-> "none"]
NoRecord == [st |-> "none", child |-> 0]

RowState == [status : {"absent", "staging", "pending", "running", "succeeded", "failed", "review"},
             leaf : 0..MaxLeaf, child : Nat, files : {"none", "staged", "final"},
             paths : {"staged", "final"}, dispatch : {"none", "held", "due", "sent"}]
Records == [st : {"none", "creating", "child_created", "completed", "acknowledged", "failed", "manual"},
            child : Nat]
Runs == [op : Ops, at : {"creating", "unmarked", "named", "recorded", "compacting"},
         child : Nat, adopt : BOOLEAN, heard : BOOLEAN]
Sessions == [op : Branches, at : 0..MaxLeaf, marked : BOOLEAN]

TypeOK ==
    /\ row \in [Ops -> RowState]
    /\ work \in [Ops -> {"idle", "asking", "opened", "made", "moved", "filed", "acked"}]
    /\ post \in BOOLEAN
    /\ ledger \in [Ops -> Records] /\ run \in Runs \cup {NoRun}
    /\ conv \in {"none", "idle", "turn"} /\ cli \in BOOLEAN
    /\ leaf \in 0..MaxLeaf /\ compacted \in SUBSET [parent : 0..MaxLeaf, by : Compactions]
    /\ kids \in Seq(Sessions) /\ faults \in 0..MaxFaults

Init ==
    /\ row = [o \in Ops |-> NoRow] /\ work = [o \in Ops |-> "idle"] /\ post = FALSE
    /\ ledger = [o \in Ops |-> NoRecord] /\ run = NoRun
    /\ conv \in {"none", "idle"} /\ cli = FALSE
    /\ leaf = 0 /\ compacted = {} /\ kids = <<>> /\ faults = 0

Fault == faults < MaxFaults /\ faults' = faults + 1

----------------------------------------------------------------------------
(* Fences.                                                                 *)

\* hasSourceFence, for the record of o.
Fences(o) == \/ ledger[o].st \in {"creating", "child_created", "completed", "manual"}
             \/ ledger[o].st = "failed" /\ ledger[o].child # 0
\* assertForumForkSourceMutable over both ledgers
AgentFenced_NoChild == \E o \in Branches : ledger[o].st \in {"creating", "manual"}
AgentFenced == \E o \in Branches : Fences(o)

\* hasActiveCompactionOperation, hasForkFence, hasCloneFence and the checkpoint
\* that a compaction leaves behind.
Active(o) == row[o].status \in {"pending", "running"} \cup (IF o \in Branches THEN {"review"} ELSE {})
hasCompactionFence ==
    \/ \E o \in Ops : Active(o)
    \/ \E o \in Compactions : row[o].status = "succeeded" /\ row[o].dispatch = "due"

\* The topic is idle, as the enqueueing transactions see it.
Idle == conv # "turn" /\ ~post /\ ~hasCompactionFence

\* openConversation as part of a request: refused to a fenced or leased source.
Openable == conv # "none" \/ (~AgentFenced /\ ~cli)
Opened == IF conv = "none" THEN "idle" ELSE conv

----------------------------------------------------------------------------
(* The forum accepts an operation.                                         *)

\* enqueueOnce: one canonical snapshot, then the attachments are copied.
Stage(o) ==
    /\ o \in Branches /\ row[o].status = "absent" /\ run = NoRun /\ Openable
    /\ conv' = Opened
    /\ row' = [row EXCEPT ![o].status = "staging", ![o].leaf = leaf, ![o].files = "staged"]
    /\ UNCHANGED <<work, post, ledger, run, cli, leaf, compacted, kids, faults>>

\* enqueueForkOperation, enqueueCloneOperation: accepted, or the copies go.
Insert(o) ==
    /\ row[o].status = "staging" /\ Idle
    /\ row' = [row EXCEPT ![o].status = "pending"]
    /\ UNCHANGED <<work, post, ledger, run, source, kids, faults>>
Reject(o) ==
    /\ row[o].status = "staging" /\ ~Idle
    /\ row' = [row EXCEPT ![o] = NoRow]
    /\ UNCHANGED <<work, post, ledger, run, source, kids, faults>>

\* enqueueCompactionOperationIfIdle; the indexed head may be one entry behind.
EnqueueCompaction(o) ==
    /\ o \in Compactions /\ row[o].status = "absent" /\ Idle
    /\ \E l \in {leaf} \cup (IF leaf > 0 THEN {leaf - 1} ELSE {}) :
          row' = [row EXCEPT ![o].status = "pending", ![o].leaf = l]
    /\ UNCHANGED <<work, post, ledger, run, source, kids, faults>>

\* processDue claims one row; one whose child exists goes on where it was.
Claim(o) ==
    /\ row[o].status = "pending" /\ \A p \in Kin(o) : work[p] = "idle"
    /\ row' = [row EXCEPT ![o].status = "running"]
    /\ work' = [work EXCEPT ![o] = IF row[o].child = 0 THEN "asking" ELSE "made"]
    /\ UNCHANGED <<post, ledger, run, source, kids, faults>>

----------------------------------------------------------------------------
(* What an answer does to the row.                                         *)

\* requeue..., mark...NeedsManualReview, fail...
Requeued(r) == [r EXCEPT !.status = "pending"]
Reviewed(r) == [r EXCEPT !.status = "review"]
Failed(r) == [r EXCEPT !.status = "failed", !.files = "none"]
\* materializeForkOperation holds the opening dispatch back, a clone has none;
\* finishCompactionSuccess queues the checkpoint.
Succeeds(o, child) ==
    IF o \in Compactions THEN [row[o] EXCEPT !.status = "succeeded", !.dispatch = "due"]
    ELSE [row[o] EXCEPT !.child = child, !.dispatch = IF o \in Forks THEN "held" ELSE @]
Answer(o, answer, child) ==
    /\ row' = [row EXCEPT ![o] = IF answer = "done" THEN Succeeds(o, child)
                                 ELSE IF answer = "manual" THEN Reviewed(@)
                                 ELSE IF answer = "definitive" THEN Failed(@)
                                 ELSE Requeued(@)]
    /\ work' = [work EXCEPT ![o] = IF answer = "done" /\ o \in Branches THEN "made" ELSE "idle"]

----------------------------------------------------------------------------
(* Agentd serves a fork, clone or compaction request.                      *)

Expected(o) == row[o].leaf
\* completedCompactionForExpectedLeaf
Compacted(l) == \E c \in compacted : c.parent = l

\* The conflict code and what the service's definitive() makes of it: a fork
\* treats fork_in_progress as transient, a clone only clone_in_progress, a
\* compaction only conversation_busy.
OpenRefused_Definitive(o) == "definitive"
OpenRefused(o) == IF AgentFenced /\ o \in Forks THEN "retry" ELSE "definitive"
RouteRefused(o) == IF o \in Compactions THEN "definitive" ELSE "retry"

\* forkConversationBeforeUser and cloneConversationAtLeaf up to the record
\* "creating"; compactConversation up to the compaction.
BranchVerdict_AnyLeaf(o) ==
    LET existing == ledger[o] IN
    IF existing.st \in {"completed", "acknowledged"} THEN "done"
    ELSE IF existing.st = "manual" THEN "manual"
    ELSE IF existing.st = "failed" /\ existing.child = 0 THEN "definitive"
    ELSE IF existing.st = "failed" /\ o \in Clones THEN "manual"
    ELSE "start"
BranchVerdict(o) ==
    LET existing == ledger[o] IN
    IF existing.st \in {"completed", "acknowledged"} THEN "done"
    ELSE IF existing.st = "manual" THEN "manual"
    ELSE IF existing.st = "failed" /\ existing.child = 0 THEN "definitive"
    ELSE IF existing.st = "failed" /\ o \in Clones THEN "manual"
    ELSE IF Expected(o) # leaf THEN "definitive"
    ELSE "start"
CompactVerdict_AnyLeaf(o) ==
    IF Compacted(Expected(o)) THEN "done" ELSE IF conv = "turn" THEN "retry" ELSE "start"
CompactVerdict(o) ==
    IF Compacted(Expected(o)) THEN "done"
    ELSE IF conv = "turn" THEN "retry"
    ELSE IF Expected(o) # leaf THEN "definitive"
    ELSE "start"
\* A conversation that is gone again is a 404, which every service takes for
\* definitive.
Verdict(o) ==
    IF conv = "none" THEN "definitive"
    ELSE IF \E p \in Branches \ {o} : Fences(p) THEN RouteRefused(o)
    ELSE IF o \in Compactions THEN CompactVerdict(o)
    ELSE IF conv = "turn" THEN "retry"
    ELSE BranchVerdict(o)

\* openTopicConversation: a request of its own, before the operation's.
Open(o) ==
    /\ work[o] = "asking" /\ Openable
    /\ conv' = Opened
    /\ work' = [work EXCEPT ![o] = "opened"]
    /\ UNCHANGED <<row, post, ledger, run, cli, leaf, compacted, kids, faults>>
OpenFails(o) ==
    /\ work[o] = "asking" /\ run = NoRun /\ ~Openable
    /\ Answer(o, OpenRefused(o), 0)
    /\ UNCHANGED <<post, ledger, run, source, kids, faults>>

Serving(o) == work[o] = "opened" /\ run = NoRun

ServeAnswer(o) ==
    /\ Serving(o) /\ Verdict(o) # "start"
    /\ Answer(o, Verdict(o), ledger[o].child)
    /\ ledger' = IF Verdict(o) = "manual" THEN [ledger EXCEPT ![o].st = "manual"] ELSE ledger
    /\ UNCHANGED <<post, run, source, kids, faults>>

ServeStart(o) ==
    /\ Serving(o) /\ Verdict(o) = "start"
    /\ run' = [op |-> o, at |-> IF o \in Branches THEN "creating" ELSE "compacting",
               child |-> ledger[o].child,
               adopt |-> ledger[o].st = "creating" /\ ledger[o].child = 0, heard |-> TRUE]
    /\ ledger' = IF o \in Branches THEN [ledger EXCEPT ![o].st = "creating", ![o].child = 0] ELSE ledger
    /\ UNCHANGED <<forum, source, kids, faults>>

----------------------------------------------------------------------------
(* The run.                                                                *)

\* The handler ends; only a requester that still waits hears of it.
Ends(answer, child) ==
    /\ run' = NoRun
    /\ IF run.heard THEN Answer(run.op, answer, child) ELSE UNCHANGED <<row, work>>
    /\ UNCHANGED post

Marked(o) == {i \in 1..Len(kids) : kids[i].op = o /\ kids[i].marked}

\* A record that was left at "creating": exactly one marked child is adopted.
RunAdopt ==
    /\ run # NoRun /\ run.at = "creating" /\ run.adopt
    /\ IF Cardinality(Marked(run.op)) = 1
       THEN /\ run' = [run EXCEPT !.at = "named", !.child = CHOOSE i \in Marked(run.op) : TRUE]
            /\ UNCHANGED <<forum, ledger>>
       ELSE /\ ledger' = [ledger EXCEPT ![run.op].st = "manual"]
            /\ Ends("manual", 0)
    /\ UNCHANGED <<source, kids, faults>>

RunCreate_Again ==
    /\ run # NoRun /\ run.at = "creating" /\ run.child = 0
    /\ Len(kids) < 2 * Cardinality(Branches)
    /\ kids' = Append(kids, [op |-> run.op, at |-> leaf, marked |-> FALSE])
    /\ run' = [run EXCEPT !.at = "unmarked", !.child = Len(kids')]
    /\ UNCHANGED <<forum, ledger, source, faults>>
RunCreate ==
    /\ run # NoRun /\ run.at = "creating" /\ ~run.adopt /\ run.child = 0
    /\ kids' = Append(kids, [op |-> run.op, at |-> leaf, marked |-> FALSE])
    /\ run' = [run EXCEPT !.at = "unmarked", !.child = Len(kids')]
    /\ UNCHANGED <<forum, ledger, source, faults>>
RunReuse ==
    /\ run # NoRun /\ run.at = "creating" /\ run.child # 0
    /\ run' = [run EXCEPT !.at = "named"]
    /\ UNCHANGED <<forum, ledger, source, kids, faults>>
RunMark ==
    /\ run # NoRun /\ run.at = "unmarked"
    /\ kids' = [kids EXCEPT ![run.child].marked = TRUE]
    /\ run' = [run EXCEPT !.at = "named"]
    /\ UNCHANGED <<forum, ledger, source, faults>>
RunRecord ==
    /\ run # NoRun /\ run.at = "named"
    /\ ledger' = [ledger EXCEPT ![run.op] = [st |-> "child_created", child |-> run.child]]
    /\ run' = [run EXCEPT !.at = "recorded"]
    /\ UNCHANGED <<forum, source, kids, faults>>
RunComplete ==
    /\ run # NoRun /\ run.at = "recorded"
    /\ ledger' = [ledger EXCEPT ![run.op].st = "completed"]
    /\ Ends("done", run.child)
    /\ UNCHANGED <<source, kids, faults>>

\* An exception: the record becomes "failed", with the child if there is one.
RunFails ==
    /\ Fault
    /\ run # NoRun /\ run.at # "compacting"
    /\ ledger' = [ledger EXCEPT ![run.op] = [st |-> "failed", child |-> run.child]]
    /\ Ends("retry", 0)
    /\ UNCHANGED <<source, kids>>
\* One that the ledger cannot record either.
RunFailsUnrecorded ==
    /\ Fault
    /\ run # NoRun
    /\ Ends("retry", 0)
    /\ UNCHANGED <<ledger, source, kids>>

RunCompact ==
    /\ run # NoRun /\ run.at = "compacting" /\ leaf < MaxLeaf
    /\ leaf' = leaf + 1 /\ compacted' = compacted \cup {[parent |-> leaf, by |-> run.op]}
    /\ Ends(IF Expected(run.op) = leaf THEN "done" ELSE "retry", 0)
    /\ UNCHANGED <<ledger, conv, cli, kids, faults>>

----------------------------------------------------------------------------
(* The forum finishes.                                                     *)

\* finalizePrestagedAttachments, finalizeAttachments: the directory is renamed,
\* or was before a crash; then the paths in the database follow.
MoveFiles(o) ==
    /\ work[o] = "made"
    /\ row' = [row EXCEPT ![o].files = "final"]
    /\ work' = [work EXCEPT ![o] = "moved"]
    /\ UNCHANGED <<post, ledger, run, source, kids, faults>>
MovePaths(o) ==
    /\ work[o] = "moved"
    /\ row' = [row EXCEPT ![o].paths = "final"]
    /\ work' = [work EXCEPT ![o] = "filed"]
    /\ UNCHANGED <<post, ledger, run, source, kids, faults>>

\* ForumForkLedger.acknowledge
Acknowledgeable(o) == ledger[o].child = row[o].child /\ ledger[o].st \in {"completed", "acknowledged"}
Acknowledged(o) == [ledger EXCEPT ![o].st = "acknowledged"]
Ack_Unsent(o) ==
    /\ work[o] = "filed"
    /\ work' = [work EXCEPT ![o] = "acked"]
    /\ UNCHANGED <<row, post, ledger, run, source, kids, faults>>
Ack(o) ==
    /\ work[o] = "filed" /\ Acknowledgeable(o)
    /\ ledger' = Acknowledged(o)
    /\ work' = [work EXCEPT ![o] = "acked"]
    /\ UNCHANGED <<row, post, run, source, kids, faults>>
AckLost(o) ==
    /\ Fault
    /\ work[o] = "filed"
    /\ ledger' \in {ledger} \cup (IF Acknowledgeable(o) THEN {Acknowledged(o)} ELSE {})
    /\ row' = [row EXCEPT ![o] = Requeued(@)]
    /\ work' = [work EXCEPT ![o] = "idle"]
    /\ UNCHANGED <<post, run, source, kids>>

\* completeForkOperation releases the opening dispatch; completeCloneOperation
Complete(o) ==
    /\ work[o] = "acked"
    /\ row' = [row EXCEPT ![o].status = "succeeded", ![o].dispatch = IF o \in Forks THEN "due" ELSE "none"]
    /\ work' = [work EXCEPT ![o] = "idle"]
    /\ UNCHANGED <<post, ledger, run, source, kids, faults>>

\* The dispatcher sends a fork's opening into the child.
SendOpening(o) ==
    /\ o \in Forks /\ row[o].dispatch = "due"
    /\ row' = [row EXCEPT ![o].dispatch = "sent"]
    /\ UNCHANGED <<work, post, ledger, run, source, kids, faults>>

----------------------------------------------------------------------------
(* The source's other writers.                                             *)

\* A post is accepted.  The routes refuse one behind the fence, but one from
\* Discord or Matrix is queued there.
Post ==
    /\ ~post /\ leaf < MaxLeaf
    /\ post' = TRUE
    /\ UNCHANGED <<row, work, ledger, run, source, kids, faults>>

\* The message handler takes a prompt on the source.
Prompted == run = NoRun /\ Openable /\ Opened = "idle" /\ ~AgentFenced /\ leaf < MaxLeaf
            /\ conv' = "turn" /\ leaf' = leaf + 1
DispatchPost ==
    /\ post /\ ~hasCompactionFence /\ Prompted
    /\ post' = FALSE
    /\ UNCHANGED <<row, work, ledger, run, cli, compacted, kids, faults>>
DispatchCheckpoint(o) ==
    /\ o \in Compactions /\ row[o].dispatch = "due" /\ Prompted
    /\ row' = [row EXCEPT ![o].dispatch = "sent"]
    /\ UNCHANGED <<work, post, ledger, run, cli, compacted, kids, faults>>
TurnEnds ==
    /\ conv = "turn"
    /\ conv' = "idle"
    /\ UNCHANGED <<forum, ledger, run, cli, leaf, compacted, kids, faults>>

\* Close and reap.
CloseConversation ==
    /\ conv = "idle" /\ run = NoRun /\ ~AgentFenced
    /\ conv' = "none"
    /\ UNCHANGED <<forum, ledger, run, cli, leaf, compacted, kids, faults>>

\* claimExternalSession on an idle source; what the process writes; its release.
CliClaims ==
    /\ ~cli /\ conv # "turn" /\ run = NoRun /\ ~AgentFenced
    /\ cli' = TRUE /\ conv' = "none"
    /\ UNCHANGED <<forum, ledger, run, leaf, compacted, kids, faults>>
CliWrites ==
    /\ cli /\ leaf < MaxLeaf
    /\ leaf' = leaf + 1
    /\ UNCHANGED <<forum, ledger, run, conv, cli, compacted, kids, faults>>
CliReleases ==
    /\ cli
    /\ cli' = FALSE
    /\ UNCHANGED <<forum, ledger, run, conv, leaf, compacted, kids, faults>>

----------------------------------------------------------------------------
(* Failures.                                                               *)

Unheard == IF run = NoRun THEN run ELSE [run EXCEPT !.heard = FALSE]

\* The request times out or its answer is lost; the run goes on.
AnswerLost(o) ==
    /\ Fault
    /\ work[o] \in {"asking", "opened"}
    /\ row' = [row EXCEPT ![o] = Requeued(@)] /\ work' = [work EXCEPT ![o] = "idle"]
    /\ run' = IF run # NoRun /\ run.op = o THEN Unheard ELSE run
    /\ UNCHANGED <<post, ledger, source, kids>>

\* The requests under way are cut off, the run's among them; a worker between
\* two requests does not notice.
AgentdCrash ==
    /\ Fault
    /\ run' = NoRun /\ conv' = "none"
    /\ \E cut \in SUBSET {o \in Ops : work[o] \in {"asking", "opened"}} :
          /\ run # NoRun /\ run.heard => run.op \in cut
          /\ row' = [o \in Ops |-> IF o \in cut THEN Requeued(row[o]) ELSE row[o]]
          /\ work' = [o \in Ops |-> IF o \in cut THEN "idle" ELSE work[o]]
    /\ UNCHANGED <<post, ledger, cli, leaf, compacted, kids>>

\* requeueRunningForkOperations and its kin run at the next start; an
\* acceptance that had not reached the database is forgotten.
ForumCrash ==
    /\ Fault
    /\ row' = [o \in Ops |-> IF row[o].status = "staging" THEN NoRow
                             ELSE IF row[o].status = "running" THEN Requeued(row[o])
                             ELSE row[o]]
    /\ work' = [o \in Ops |-> "idle"]
    /\ run' = Unheard
    /\ UNCHANGED <<post, ledger, source, kids>>

----------------------------------------------------------------------------
ForumStep(o) ==
    \/ Stage(o) \/ Insert(o) \/ Reject(o) \/ EnqueueCompaction(o) \/ Claim(o)
    \/ MoveFiles(o) \/ MovePaths(o) \/ Ack(o) \/ AckLost(o) \/ Complete(o)
    \/ SendOpening(o) \/ DispatchCheckpoint(o) \/ AnswerLost(o)
RequestStep(o) == Open(o) \/ OpenFails(o) \/ ServeAnswer(o) \/ ServeStart(o)
RunStep ==
    \/ RunAdopt \/ RunCreate \/ RunReuse \/ RunMark \/ RunRecord \/ RunComplete
    \/ RunFails \/ RunFailsUnrecorded \/ RunCompact
Next ==
    \/ \E o \in Ops : ForumStep(o) \/ RequestStep(o)
    \/ RunStep
    \/ Post \/ DispatchPost \/ TurnEnds \/ CloseConversation
    \/ CliClaims \/ CliWrites \/ CliReleases
    \/ AgentdCrash \/ ForumCrash

Spec == Init /\ [][Next]_vars

\* The workers wake on a timer, agentd's handlers run to their end, a model turn
\* ends and the Pi process quits; nothing obliges a user to post or a process to
\* fail.
FairSpec ==
    /\ Spec
    /\ \A o \in Ops : WF_vars(Claim(o) \/ RequestStep(o) \/ MoveFiles(o)
                              \/ MovePaths(o) \/ Ack(o) \/ Complete(o))
    /\ WF_vars(RunAdopt \/ RunCreate \/ RunReuse \/ RunMark \/ RunRecord \/ RunComplete)
    /\ WF_vars(RunCompact) /\ WF_vars(TurnEnds) /\ WF_vars(CliReleases)

----------------------------------------------------------------------------
(* Properties.                                                             *)

\* No operation ever makes a second child session, whatever is retried after
\* whatever crash (the ledger's states and the operation marker).
OneChildPerOperation ==
    \A i, j \in 1..Len(kids) : kids[i].op = kids[j].op => i = j

\* A child topic of the forum stands on exactly the entry of the source that the
\* operation was accepted for, and on a session that agentd recorded as complete
\* for this operation.
ChildIsTheAccepted ==
    \A o \in Branches : row[o].child # 0 =>
        /\ kids[row[o].child].op = o /\ kids[row[o].child].at = row[o].leaf
        /\ Acknowledgeable(o)

\* Nothing writes the source while agentd's ledger holds it, except the run that
\* does.
FencedSourceIsStill == [][(\E o \in Branches : Fences(o)) => leaf' = leaf]_vars

\* The child stays in quarantine until agentd has the acknowledgement: no opening
\* is sent into it, and its operation does not succeed, before.
QuarantinedUntilAcknowledged ==
    \A o \in Branches :
        row[o].status = "succeeded" \/ row[o].dispatch \in {"due", "sent"}
        => ledger[o].st = "acknowledged" /\ row[o].paths = row[o].files

\* A compaction that was asked for once happens at most once, at the entry it was
\* accepted for, and success is claimed only for an entry that is there: the retry
\* of one whose answer was lost recognises it.
CompactedOnce ==
    /\ \A c, d \in compacted : c.by = d.by => c = d
    /\ \A o \in Compactions : row[o].status = "succeeded" => Compacted(row[o].leaf)

\* A fork that the forum reports as failed leaves no fence behind at agentd, and
\* none appears later: neither a refusal nor a run that goes on unheard does that.
\* One thing does: a conversation that went away between the worker's two
\* requests, whose 404 is a definitive failure whatever the ledger holds.
FailedForkLeavesNoFence ==
    [][\A o \in Forks :
          row'[o].status = "failed" /\ Fences(o)'
          => \/ row[o].status = "failed" /\ Fences(o)
             \/ work[o] = "opened" /\ conv = "none"]_vars

\* agentd's README: a ledger "makes retries idempotent" and "crash recovery adopts
\* only a child carrying the exact durable operation marker; an unmarked or
\* ambiguous child outcome becomes a manual-recovery source fence".  An accepted
\* fork is settled: it succeeds, fails, or asks for the operator.
ForkSettles ==
    \A o \in Forks : row[o].status = "pending" ~> row[o].status \in {"succeeded", "failed", "review"}

\* docs/forum.md: an unprovable outcome "becomes needs_manual_review, remains
\* visible, and keeps the source fenced": whatever agentd holds fenced, the forum
\* still knows of.  A topic the forum holds free is free at agentd.
FreeTopicIsFree == ~hasCompactionFence => \A o \in Branches : Fences(o) => row[o].status = "staging"
=============================================================================
