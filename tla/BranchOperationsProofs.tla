----------------------- MODULE BranchOperationsProofs -----------------------
(***************************************************************************)
(* Proofs about BranchOperations, for any number of forks, clones and      *)
(* compactions of the source and any number of faults.                     *)
(***************************************************************************)
EXTENDS BranchOperations, FiniteSetTheorems, SequenceTheorems, TLAPS

(* The inductive invariant: what is true of each operation by itself, given  *)
(* its row r, its worker's progress w and agentd's record l; what is true of *)
(* a run; and what ties the source together.                                 *)

Fencing(l) == l.st \in {"creating", "child_created", "completed", "manual"} \/ (l.st = "failed" /\ l.child # 0)
Settled(l) == l.st \in {"completed", "acknowledged"}
AcceptedRow(r) == r.status \notin {"absent", "staging"}
\* The worker waits for agentd.
Waits == {"asking", "opened"}

\* The service is at work on an operation exactly while its row is running, and
\* each step it has taken is on disk.
RowInv(o, r, w, l) ==
    /\ w # "idle" <=> r.status = "running"
    /\ o \in Compactions => w \in {"idle", "asking", "opened"} /\ r.status # "staging" /\ r.child = 0
    /\ o \in Branches /\ r.dispatch \in {"due", "sent"} => r.status = "succeeded"
    /\ w \in Waits => r.child = 0
    /\ w \in {"moved", "filed", "acked"} => r.files = "final"
    /\ w \in {"filed", "acked"} => r.paths = "final"
    /\ w = "acked" => l.st = "acknowledged"
    /\ o \in Branches /\ r.status = "succeeded" =>
          l.st = "acknowledged" /\ r.files = "final" /\ r.paths = "final"
    /\ o \in Compactions /\ r.status = "succeeded" => Compacted(r.leaf)

\* c is a child session of o.
ChildOf(o, c) == c \in 1..Len(kids) /\ kids[c].op = o

\* What agentd's record of o says of the child, of the row and of the source.
RecordInv(o, r, l) ==
    /\ o \in Compactions => l = NoRecord
    /\ l.st # "none" => AcceptedRow(r)
    /\ l.st \in {"none", "creating"} => l.child = 0
    /\ l.st \in {"child_created", "completed", "acknowledged"} => l.child # 0
    /\ l.child # 0 => ChildOf(o, l.child)
    /\ Fencing(l) => leaf = r.leaf
    /\ o \in Branches /\ r.child # 0 => Settled(l) /\ r.child = l.child

OpInv(o, r, w, l) == RowInv(o, r, w, l) /\ RecordInv(o, r, l)

\* A run holds the record of its operation, or has the source to itself.
RunInv(u, r, w, l) ==
    /\ AcceptedRow(r) /\ r.status # "failed"
    /\ u.heard => w = "opened"
    /\ u.op \in Branches <=> u.at # "compacting"
    /\ u.at \in {"creating", "unmarked", "named"} => l.st = "creating"
    /\ u.at = "recorded" => l = [st |-> "child_created", child |-> u.child]
    /\ u.at \in {"unmarked", "named", "recorded"} => u.child # 0
    /\ u.child # 0 => ChildOf(u.op, u.child)
    /\ u.at = "creating" /\ ~u.adopt /\ u.child = 0 => \A i \in 1..Len(kids) : kids[i].op # u.op
    /\ u.at = "compacting" => leaf = r.leaf /\ ~Compacted(leaf)

\* A child session is the only one of its operation and stands on the entry the
\* operation was accepted for.
KidsInv ==
    /\ OneChildPerOperation
    /\ \A i \in 1..Len(kids) : ledger[kids[i].op].st # "none" /\ kids[i].at = row[kids[i].op].leaf

\* A Pi process, or a compaction, writes the source only while no record holds it.
SourceInv ==
    /\ cli => conv = "none" /\ run = NoRun
    /\ cli \/ run.at = "compacting" => ~AgentFenced

\* A compaction is of the entry it was accepted for.
CompactedInv ==
    /\ \A c, d \in compacted : c.by = d.by => c = d
    /\ \A c \in compacted : AcceptedRow(row[c.by]) /\ c.parent = row[c.by].leaf

IInv ==
    /\ TypeOK
    /\ \A o \in Ops : OpInv(o, row[o], work[o], ledger[o])
    /\ run # NoRun => RunInv(run, row[run.op], work[run.op], ledger[run.op])
    /\ KidsInv /\ SourceInv /\ CompactedInv

-----------------------------------------------------------------------------
(* What the parts say together. *)

Works == {"idle", "asking", "opened", "made", "moved", "filed", "acked"}

\* The parts of an operation have their types.
LEMMA Typed ==
  ASSUME TypeOK, NEW o \in Ops
  PROVE  /\ row[o] \in RowState /\ work[o] \in Works /\ ledger[o] \in Records
         /\ row[o].leaf \in 0..MaxLeaf /\ row[o].child \in Nat /\ ledger[o].child \in Nat
  BY DEF TypeOK, Works, RowState, Records

\* hasSourceFence as a predicate of the record.
LEMMA FencesFencing == \A o : Fences(o) <=> Fencing(ledger[o])
  BY DEF Fences, Fencing

\* A run is one of an operation.
LEMMA RunTyped ==
  ASSUME TypeOK, run # NoRun
  PROVE  run \in Runs /\ run.op \in Ops
  BY DEF TypeOK, Runs

\* A child session is one of an operation.
LEMMA KidTyped ==
  ASSUME TypeOK, NEW i \in 1..Len(kids)
  PROVE  kids[i] \in Sessions /\ kids[i].op \in Branches /\ kids[i].op \in Ops
<1>1. kids[i] \in Sessions
  BY ElementOfSeq DEF TypeOK
<1> QED
  BY <1>1 DEF Sessions, Ops, Branches

\* The fence of the ledger, op by op.
LEMMA FencedBy == AgentFenced <=> \E o \in Branches : Fencing(ledger[o])
  BY FencesFencing DEF AgentFenced

\* The inductive invariant implies the properties.
LEMMA Implies ==
  ASSUME IInv
  PROVE  /\ OneChildPerOperation /\ ChildIsTheAccepted /\ QuarantinedUntilAcknowledged
         /\ CompactedOnce
<1>1. OneChildPerOperation
  BY DEF IInv, KidsInv
<1>2. ChildIsTheAccepted
  <2> SUFFICES ASSUME NEW o \in Branches, row[o].child # 0
               PROVE  /\ kids[row[o].child].op = o /\ kids[row[o].child].at = row[o].leaf
                      /\ Acknowledgeable(o)
    BY DEF ChildIsTheAccepted
  <2>1. RecordInv(o, row[o], ledger[o]) /\ ChildOf(o, ledger[o].child) /\ ledger[o].child = row[o].child
    BY DEF IInv, OpInv, RecordInv, Ops, Branches
  <2>2. QED
    BY <2>1 DEF IInv, KidsInv, ChildOf, Acknowledgeable, RecordInv, Settled
<1>3. QuarantinedUntilAcknowledged
  BY DEF IInv, OpInv, RowInv, QuarantinedUntilAcknowledged, Ops, Branches
<1>4. CompactedOnce
  BY DEF IInv, OpInv, RowInv, CompactedInv, CompactedOnce, Ops
<1> QED
  BY <1>1, <1>2, <1>3, <1>4

-----------------------------------------------------------------------------
(* Steps that touch one operation and leave the source's file alone. *)

\* A step that changes the row, the progress and the record of one operation, and
\* perhaps the run, keeps the invariant if the operation's own part holds
\* afterwards, the accepted entry stays, and no fence appears where a Pi process
\* or a compaction has the source.
LEMMA OpStep ==
  ASSUME IInv, NEW o \in Ops, NEW r \in RowState, NEW w \in Works, NEW l \in Records,
         NEW u \in Runs \cup {NoRun},
         row' = [row EXCEPT ![o] = r], work' = [work EXCEPT ![o] = w],
         ledger' = [ledger EXCEPT ![o] = l], run' = u,
         post' \in BOOLEAN, conv' \in {"none", "idle", "turn"}, faults' \in 0..MaxFaults,
         UNCHANGED <<cli, leaf, compacted, kids>>,
         OpInv(o, r, w, l),
         AcceptedRow(row[o]) => AcceptedRow(r) /\ r.leaf = row[o].leaf,
         l.st = "none" => ledger[o].st = "none",
         \/ u = NoRun
         \/ u.op = o /\ RunInv(u, r, w, l)
         \/ u = run /\ u.op # o,
         cli => conv' = conv /\ u = run,
         Fencing(l) => Fencing(ledger[o]) \/ (~cli /\ u.at # "compacting"),
         u.at = "compacting" => run.at = "compacting" \/ ~AgentFenced
  PROVE  IInv'
<1>1. /\ row'[o] = r /\ work'[o] = w /\ ledger'[o] = l
      /\ \A p \in Ops : p # o => row'[p] = row[p] /\ work'[p] = work[p] /\ ledger'[p] = ledger[p]
  BY DEF IInv, TypeOK
<1>2. TypeOK'
  BY DEF IInv, TypeOK, Works
<1>3. \A p \in Ops : OpInv(p, row[p], work[p], ledger[p])'
  <2> TAKE p \in Ops
  <2>1. OpInv(p, row'[p], work'[p], ledger'[p])
    BY <1>1 DEF IInv
  <2>2. QED
    BY <2>1 DEF OpInv, RowInv, RecordInv, ChildOf, Compacted
<1>4. \A p \in Ops : AcceptedRow(row[p]) => AcceptedRow(row'[p]) /\ row'[p].leaf = row[p].leaf
  BY <1>1
<1>5. (run # NoRun => RunInv(run, row[run.op], work[run.op], ledger[run.op]))'
  <2> SUFFICES ASSUME u # NoRun
               PROVE  RunInv(run, row[run.op], work[run.op], ledger[run.op])'
    OBVIOUS
  <2>1. u \in Runs /\ u.op \in Ops
    BY DEF Runs
  <2>2. RunInv(u, row'[u.op], work'[u.op], ledger'[u.op])
    BY <1>1, <2>1 DEF IInv
  <2>3. QED
    BY <2>2 DEF RunInv, ChildOf, Compacted
<1>6. KidsInv'
  <2>1. OneChildPerOperation'
    BY DEF IInv, KidsInv, OneChildPerOperation
  <2>2. ASSUME NEW i \in 1..Len(kids)
        PROVE  ledger'[kids[i].op].st # "none" /\ kids[i].at = row'[kids[i].op].leaf
    <3>1. kids[i].op \in Ops /\ ledger[kids[i].op].st # "none" /\ kids[i].at = row[kids[i].op].leaf
      BY KidTyped DEF IInv, KidsInv
    <3>2. AcceptedRow(row[kids[i].op])
      BY <3>1 DEF IInv, OpInv, RecordInv
    <3>3. QED
      BY <1>1, <1>4, <3>1, <3>2
  <2>3. QED
    BY <2>1, <2>2 DEF KidsInv
<1>7. SourceInv'
  <2>1. (cli => conv = "none" /\ run = NoRun)'
    BY DEF IInv, SourceInv
  <2>2. ASSUME (cli \/ run.at = "compacting")', NEW p \in Branches
        PROVE  ~Fencing(ledger'[p])
    <3>1. ~AgentFenced
      BY <2>2 DEF IInv, SourceInv
    <3>2. p \in Ops /\ ~Fencing(ledger[p])
      BY <3>1, FencedBy DEF Ops, Branches
    <3>3. QED
      BY <1>1, <2>2, <3>2
  <2>3. QED
    BY <2>1, <2>2, FencedBy DEF SourceInv, AgentFenced, Fences, Fencing
<1>8. CompactedInv'
  <2>1. \A c \in compacted : c.by \in Ops
    BY DEF IInv, TypeOK, Ops
  <2>2. QED
    BY <1>4, <2>1 DEF IInv, CompactedInv
<1> QED
  BY <1>2, <1>3, <1>5, <1>6, <1>7, <1>8 DEF IInv

\* The same when only the forum's row and its worker's progress change.
LEMMA RowStep ==
  ASSUME IInv, NEW o \in Ops, NEW r \in RowState, NEW w \in Works,
         row' = [row EXCEPT ![o] = r], work' = [work EXCEPT ![o] = w],
         UNCHANGED <<post, ledger, run, cli, leaf, compacted, kids, faults>>,
         conv' \in {"none", "idle", "turn"}, cli => conv' = conv,
         OpInv(o, r, w, ledger[o]),
         AcceptedRow(row[o]) => AcceptedRow(r) /\ r.leaf = row[o].leaf,
         run # NoRun /\ run.op = o => r.status # "failed" /\ (run.heard => w = "opened")
  PROVE  IInv'
<1> DEFINE l == ledger[o]
<1>1. l \in Records /\ ledger' = [ledger EXCEPT ![o] = l]
  BY Typed DEF IInv, TypeOK
<1>2. run \in Runs \cup {NoRun} /\ post' \in BOOLEAN /\ faults' \in 0..MaxFaults
  BY DEF IInv, TypeOK
<1>3. run = NoRun \/ (run.op = o /\ RunInv(run, r, w, l)) \/ (run = run /\ run.op # o)
  BY DEF IInv, RunInv
<1>4. Fencing(l) => Fencing(ledger[o])
  OBVIOUS
<1> HIDE DEF l
<1>5. OpInv(o, r, w, l) /\ (l.st = "none" => ledger[o].st = "none")
  BY DEF l
<1> QED
  BY <1>1, <1>2, <1>3, <1>4, <1>5, OpStep

-----------------------------------------------------------------------------
(* The forum's steps. *)

\* A run of an operation whose worker does not wait for it is unheard.
LEMMA Unasked ==
  ASSUME IInv, NEW o \in Ops, work[o] # "opened", run # NoRun, run.op = o
  PROVE  ~run.heard /\ AcceptedRow(row[o]) /\ row[o].status # "failed"
  BY DEF IInv, RunInv

\* A request that was not accepted yet is new to everyone.
LEMMA NotAccepted ==
  ASSUME IInv, NEW o \in Ops, ~AcceptedRow(row[o])
  PROVE  /\ row[o] \in RowState /\ RowInv(o, row[o], work[o], ledger[o])
         /\ work[o] = "idle" /\ work = [work EXCEPT ![o] = "idle"]
         /\ ledger[o].st = "none" /\ ledger[o].child = 0 /\ ~Fencing(ledger[o])
         /\ RecordInv(o, row[o], ledger[o]) /\ (o \in Branches => row[o].child = 0)
         /\ ~(run # NoRun /\ run.op = o)
<1>1. RowInv(o, row[o], work[o], ledger[o]) /\ RecordInv(o, row[o], ledger[o]) /\ row[o] \in RowState
  BY Typed DEF IInv, OpInv
<1>2. work[o] = "idle"
  BY <1>1 DEF RowInv, AcceptedRow
<1>3. work = [work EXCEPT ![o] = "idle"]
  BY <1>2 DEF IInv, TypeOK
<1>4. /\ ledger[o].st = "none" /\ ledger[o].child = 0 /\ ~Fencing(ledger[o])
      /\ (o \in Branches => row[o].child = 0)
  BY <1>1 DEF RecordInv, Fencing, Settled
<1>5. ~(run # NoRun /\ run.op = o)
  BY DEF IInv, RunInv
<1> QED
  BY <1>1, <1>2, <1>3, <1>4, <1>5

\* So it may become any row that is not accepted, or is accepted now, with
\* nothing done for it.
LEMMA AcceptStep ==
  ASSUME IInv, NEW o \in Ops, ~AcceptedRow(row[o]), NEW r \in RowState,
         r.status \in {"absent", "staging", "pending"}, o \in Compactions => r.status # "staging",
         r.child = 0, r.dispatch \notin {"due", "sent"} \/ o \in Compactions,
         row' = [row EXCEPT ![o] = r],
         UNCHANGED <<work, post, ledger, run, cli, leaf, compacted, kids, faults>>,
         conv' \in {"none", "idle", "turn"}, cli => conv' = conv
  PROVE  IInv'
<1>1. /\ RowInv(o, row[o], work[o], ledger[o]) /\ RecordInv(o, row[o], ledger[o])
      /\ work[o] = "idle" /\ ledger[o].st = "none" /\ ledger[o].child = 0 /\ ~Fencing(ledger[o])
      /\ ~(run # NoRun /\ run.op = o)
  BY NotAccepted
<1>2. "idle" \in Works /\ work' = [work EXCEPT ![o] = "idle"]
  BY NotAccepted DEF Works
<1>3. o \in Branches => o \notin Compactions
  BY BranchConstants
<1>4. OpInv(o, r, "idle", ledger[o])
  BY <1>1, <1>3 DEF OpInv, RowInv, RecordInv
<1> QED
  BY <1>1, <1>2, <1>4, RowStep

\* Staging, accepting and rejecting a request keep the invariant.
LEMMA AcceptKeeps ==
  ASSUME IInv, NEW o \in Ops,
         Stage(o) \/ Insert(o) \/ Reject(o) \/ EnqueueCompaction(o)
  PROVE  IInv'
<1>0. ~AcceptedRow(row[o])
  BY DEF AcceptedRow, Stage, Insert, Reject, EnqueueCompaction
<1>1. /\ row[o] \in RowState /\ row[o].child = 0
      /\ row[o].dispatch \notin {"due", "sent"} \/ o \in Compactions
  <2>1. /\ row[o] \in RowState /\ RowInv(o, row[o], work[o], ledger[o]) /\ (o \in Branches => row[o].child = 0)
    BY <1>0, NotAccepted
  <2>2. QED
    BY <1>0, <2>1 DEF RowInv, AcceptedRow, Ops, Branches
<1>2. leaf \in 0..MaxLeaf /\ conv \in {"none", "idle", "turn"} /\ (cli => conv = "none")
  BY DEF IInv, TypeOK, SourceInv
<1>3. o \in Branches => o \notin Compactions
  BY BranchConstants
<1>4. CASE Stage(o)
  <2> DEFINE r == [row[o] EXCEPT !.status = "staging", !.leaf = leaf, !.files = "staged"]
  <2>1. row' = [row EXCEPT ![o] = r]
    BY <1>4 DEF Stage, IInv, TypeOK
  <2>2. r \in RowState /\ r.status = "staging" /\ r.child = row[o].child /\ r.dispatch = row[o].dispatch
    BY <1>1, <1>2 DEF RowState
  <2>3. /\ UNCHANGED <<work, post, ledger, run, cli, leaf, compacted, kids, faults>>
        /\ conv' \in {"none", "idle", "turn"} /\ (cli => conv' = conv) /\ o \in Branches
    BY <1>2, <1>4 DEF Stage, Openable, Opened
  <2> HIDE DEF r
  <2>4. QED
    BY <1>0, <1>1, <1>3, <2>1, <2>2, <2>3, AcceptStep
<1>5. CASE Insert(o)
  <2> DEFINE r == [row[o] EXCEPT !.status = "pending"]
  <2>1. row' = [row EXCEPT ![o] = r]
    BY <1>5 DEF Insert, IInv, TypeOK
  <2>2. r \in RowState /\ r.status = "pending" /\ r.child = row[o].child /\ r.dispatch = row[o].dispatch
    BY <1>1 DEF RowState
  <2>3. /\ UNCHANGED <<work, post, ledger, run, cli, leaf, compacted, kids, faults, conv>>
    BY <1>5 DEF Insert, source
  <2> HIDE DEF r
  <2>4. QED
    BY <1>0, <1>1, <1>2, <2>1, <2>2, <2>3, AcceptStep
<1>6. CASE Reject(o)
  <2>1. row' = [row EXCEPT ![o] = NoRow]
    BY <1>6 DEF Reject
  <2>2. NoRow \in RowState /\ NoRow.status = "absent" /\ NoRow.child = 0 /\ NoRow.dispatch = "none"
    BY BranchConstants DEF NoRow, RowState
  <2>3. /\ UNCHANGED <<work, post, ledger, run, cli, leaf, compacted, kids, faults, conv>>
    BY <1>6 DEF Reject, source
  <2>4. QED
    BY <1>0, <1>2, <2>1, <2>2, <2>3, AcceptStep
<1>7. CASE EnqueueCompaction(o)
  <2>1. PICK k \in {leaf} \cup (IF leaf > 0 THEN {leaf - 1} ELSE {}) :
          row' = [row EXCEPT ![o].status = "pending", ![o].leaf = k]
    BY <1>7 DEF EnqueueCompaction
  <2> DEFINE r == [row[o] EXCEPT !.status = "pending", !.leaf = k]
  <2>2. row' = [row EXCEPT ![o] = r]
    BY <2>1 DEF IInv, TypeOK
  <2>3. k \in 0..MaxLeaf
    BY <1>2, BranchConstants
  <2>4. r \in RowState /\ r.status = "pending" /\ r.child = row[o].child /\ r.dispatch = row[o].dispatch
    BY <1>1, <2>3 DEF RowState
  <2>5. /\ UNCHANGED <<work, post, ledger, run, cli, leaf, compacted, kids, faults, conv>>
    BY <1>7 DEF EnqueueCompaction, source
  <2> HIDE DEF r
  <2>6. QED
    BY <1>0, <1>1, <1>2, <2>2, <2>4, <2>5, AcceptStep
<1> QED
  BY <1>4, <1>5, <1>6, <1>7

\* What is known of every operation.
LEMMA OpFacts ==
  ASSUME IInv, NEW o \in Ops
  PROVE  /\ row[o] \in RowState /\ work[o] \in Works /\ ledger[o] \in Records
         /\ RowInv(o, row[o], work[o], ledger[o]) /\ RecordInv(o, row[o], ledger[o])
         /\ OpInv(o, row[o], work[o], ledger[o])
         /\ conv \in {"none", "idle", "turn"} /\ faults \in 0..MaxFaults /\ post \in BOOLEAN
         /\ run \in Runs \cup {NoRun}
         /\ (o \in Branches => o \notin Compactions) /\ (o \notin Branches => o \in Compactions)
         /\ (o \in Forks => o \in Branches)
  BY Typed, BranchConstants DEF IInv, OpInv, TypeOK, Ops, Branches

\* A worker that does not wait for agentd changes its row and its progress only.
LEMMA WorkerStep ==
  ASSUME IInv, NEW o \in Ops, work[o] # "opened", AcceptedRow(row[o]),
         NEW r \in RowState, NEW w \in Works, OpInv(o, r, w, ledger[o]),
         AcceptedRow(r), r.status # "failed", r.leaf = row[o].leaf,
         row' = [row EXCEPT ![o] = r], work' = [work EXCEPT ![o] = w],
         UNCHANGED <<post, ledger, run, source, kids, faults>>
  PROVE  IInv'
<1>1. run # NoRun /\ run.op = o => ~run.heard
  BY Unasked
<1>2. UNCHANGED <<post, ledger, run, cli, leaf, compacted, kids, faults>> /\ conv' = conv
  BY DEF source
<1>3. conv' \in {"none", "idle", "turn"}
  BY <1>2, OpFacts
<1> QED
  BY <1>1, <1>2, <1>3, RowStep

\* The worker's own steps keep the invariant.
LEMMA WorkerKeeps ==
  ASSUME IInv, NEW o \in Ops,
         Claim(o) \/ MoveFiles(o) \/ MovePaths(o) \/ Complete(o) \/ SendOpening(o)
  PROVE  IInv'
<1>0. /\ row[o] \in RowState /\ work[o] \in Works /\ ledger[o] \in Records
      /\ RowInv(o, row[o], work[o], ledger[o]) /\ RecordInv(o, row[o], ledger[o])
      /\ (o \in Branches => o \notin Compactions) /\ (o \notin Branches => o \in Compactions)
      /\ (o \in Forks => o \in Branches)
  BY OpFacts
<1>1. CASE Claim(o)
  <2> DEFINE r == [row[o] EXCEPT !.status = "running"]
             w == IF row[o].child = 0 THEN "asking" ELSE "made"
  <2>1. /\ row' = [row EXCEPT ![o] = r] /\ work' = [work EXCEPT ![o] = w]
        /\ UNCHANGED <<post, ledger, run, source, kids, faults>>
    BY <1>1 DEF Claim, IInv, TypeOK
  <2>2. /\ r \in RowState /\ r.status = "running" /\ r.child = row[o].child
        /\ r.dispatch = row[o].dispatch /\ r.leaf = row[o].leaf
    BY <1>0 DEF RowState
  <2>3. /\ row[o].status = "pending" /\ w \in Works /\ w \in {"asking", "made"}
        /\ (o \in Compactions => w = "asking") /\ (w = "asking" => row[o].child = 0)
    BY <1>0, <1>1 DEF Claim, Works, RowInv
  <2> HIDE DEF r, w
  <2>4. work[o] # "opened" /\ AcceptedRow(row[o]) /\ AcceptedRow(r)
    BY <1>0, <2>2, <2>3 DEF RowInv, AcceptedRow
  <2>5. OpInv(o, r, w, ledger[o])
    BY <1>0, <2>2, <2>3, <2>4 DEF OpInv, RowInv, Waits, RecordInv
  <2>6. QED
    BY <2>1, <2>2, <2>3, <2>4, <2>5, WorkerStep
<1>2. CASE MoveFiles(o)
  <2> DEFINE r == [row[o] EXCEPT !.files = "final"]
  <2>1. /\ row' = [row EXCEPT ![o] = r] /\ work' = [work EXCEPT ![o] = "moved"]
        /\ UNCHANGED <<post, ledger, run, source, kids, faults>> /\ work[o] = "made"
    BY <1>2 DEF MoveFiles, IInv, TypeOK
  <2>2. /\ r \in RowState /\ r.status = row[o].status /\ r.child = row[o].child /\ r.files = "final"
        /\ r.dispatch = row[o].dispatch /\ r.leaf = row[o].leaf /\ r.paths = row[o].paths
    BY <1>0 DEF RowState
  <2> HIDE DEF r
  <2>3. row[o].status = "running" /\ AcceptedRow(row[o]) /\ AcceptedRow(r) /\ "moved" \in Works
    BY <1>0, <2>1, <2>2 DEF RowInv, AcceptedRow, Works
  <2>4. OpInv(o, r, "moved", ledger[o])
    BY <1>0, <2>1, <2>2, <2>3 DEF OpInv, RowInv, Waits, RecordInv
  <2>5. QED
    BY <2>1, <2>2, <2>3, <2>4, WorkerStep
<1>3. CASE MovePaths(o)
  <2> DEFINE r == [row[o] EXCEPT !.paths = "final"]
  <2>1. /\ row' = [row EXCEPT ![o] = r] /\ work' = [work EXCEPT ![o] = "filed"]
        /\ UNCHANGED <<post, ledger, run, source, kids, faults>> /\ work[o] = "moved"
    BY <1>3 DEF MovePaths, IInv, TypeOK
  <2>2. /\ r \in RowState /\ r.status = row[o].status /\ r.child = row[o].child /\ r.paths = "final"
        /\ r.dispatch = row[o].dispatch /\ r.leaf = row[o].leaf /\ r.files = row[o].files
    BY <1>0 DEF RowState
  <2> HIDE DEF r
  <2>3. row[o].status = "running" /\ AcceptedRow(row[o]) /\ AcceptedRow(r) /\ "filed" \in Works
    BY <1>0, <2>1, <2>2 DEF RowInv, AcceptedRow, Works
  <2>4. OpInv(o, r, "filed", ledger[o])
    BY <1>0, <2>1, <2>2, <2>3 DEF OpInv, RowInv, Waits, RecordInv
  <2>5. QED
    BY <2>1, <2>2, <2>3, <2>4, WorkerStep
<1>4. CASE Complete(o)
  <2> DEFINE d == IF o \in Forks THEN "due" ELSE "none"
             r == [row[o] EXCEPT !.status = "succeeded", !.dispatch = d]
  <2>1. /\ row' = [row EXCEPT ![o] = r] /\ work' = [work EXCEPT ![o] = "idle"]
        /\ UNCHANGED <<post, ledger, run, source, kids, faults>> /\ work[o] = "acked"
    BY <1>4 DEF Complete, IInv, TypeOK
  <2>2. /\ r \in RowState /\ r.status = "succeeded" /\ r.child = row[o].child /\ r.paths = row[o].paths
        /\ r.leaf = row[o].leaf /\ r.files = row[o].files
    BY <1>0 DEF RowState
  <2> HIDE DEF r
  <2>3. /\ row[o].status = "running" /\ AcceptedRow(row[o]) /\ AcceptedRow(r) /\ "idle" \in Works
        /\ o \notin Compactions /\ o \in Branches
    BY <1>0, <2>1, <2>2 DEF RowInv, AcceptedRow, Works
  <2>4. OpInv(o, r, "idle", ledger[o])
    BY <1>0, <2>1, <2>2, <2>3 DEF OpInv, RowInv, Waits, RecordInv
  <2>5. QED
    BY <2>1, <2>2, <2>3, <2>4, WorkerStep
<1>5. CASE SendOpening(o)
  <2> DEFINE r == [row[o] EXCEPT !.dispatch = "sent"]
  <2>1. /\ row' = [row EXCEPT ![o] = r] /\ work' = [work EXCEPT ![o] = work[o]]
        /\ UNCHANGED <<post, ledger, run, source, kids, faults>> /\ o \in Branches /\ row[o].dispatch = "due"
    BY <1>0, <1>5 DEF SendOpening, IInv, TypeOK
  <2>2. /\ r \in RowState /\ r.status = row[o].status /\ r.child = row[o].child /\ r.paths = row[o].paths
        /\ r.leaf = row[o].leaf /\ r.files = row[o].files
    BY <1>0 DEF RowState
  <2> HIDE DEF r
  <2>3. /\ row[o].status = "succeeded" /\ AcceptedRow(row[o]) /\ AcceptedRow(r) /\ work[o] = "idle"
    BY <1>0, <2>1, <2>2 DEF RowInv, AcceptedRow
  <2>4. OpInv(o, r, work[o], ledger[o])
    BY <1>0, <2>1, <2>2, <2>3 DEF OpInv, RowInv, RecordInv
  <2>5. QED
    BY <1>0, <2>1, <2>2, <2>3, <2>4, WorkerStep
<1> QED
  BY <1>1, <1>2, <1>3, <1>4, <1>5

\* No run is under way for an operation whose child agentd has completed.
LEMMA SettledHasNoRun ==
  ASSUME IInv, NEW o \in Branches, Settled(ledger[o]), run # NoRun
  PROVE  run.op # o
<1> SUFFICES ASSUME run.op = o PROVE FALSE
  OBVIOUS
<1>1. RunInv(run, row[o], work[o], ledger[o]) /\ run \in Runs
  BY RunTyped DEF IInv
<1> QED
  BY <1>1 DEF RunInv, Settled, Runs

\* A record that is acknowledged, however often, with a row that waits for it.
LEMMA AcknowledgeStep ==
  ASSUME IInv, NEW o \in Ops, work[o] = "filed", Acknowledgeable(o),
         NEW r \in RowState, NEW w \in {"acked", "idle"},
         r.child = row[o].child, r.leaf = row[o].leaf, r.files = row[o].files, r.paths = row[o].paths,
         r.dispatch = row[o].dispatch,
         r.status = IF w = "idle" THEN "pending" ELSE "running",
         row' = [row EXCEPT ![o] = r], work' = [work EXCEPT ![o] = w], ledger' = Acknowledged(o),
         UNCHANGED <<post, run, source, kids>>, faults' \in 0..MaxFaults
  PROVE  IInv'
<1> DEFINE l == [ledger[o] EXCEPT !.st = "acknowledged"]
<1>0. /\ row[o] \in RowState /\ ledger[o] \in Records /\ RowInv(o, row[o], work[o], ledger[o])
      /\ RecordInv(o, row[o], ledger[o]) /\ (o \in Branches => o \notin Compactions)
      /\ (o \notin Branches => o \in Compactions) /\ (o \in Forks => o \in Branches)
      /\ run \in Runs \cup {NoRun} /\ conv \in {"none", "idle", "turn"} /\ post \in BOOLEAN
  BY OpFacts
<1>1. ledger' = [ledger EXCEPT ![o] = l] /\ l \in Records /\ l.st = "acknowledged" /\ l.child = ledger[o].child
  BY <1>0 DEF Acknowledged, IInv, TypeOK, Records
<1>2. /\ row[o].status = "running" /\ o \in Branches /\ ledger[o].child = row[o].child
      /\ ledger[o].st \in {"completed", "acknowledged"} /\ Settled(ledger[o]) /\ w \in Works
      /\ AcceptedRow(row[o]) /\ AcceptedRow(r)
  BY <1>0 DEF RowInv, Acknowledgeable, AcceptedRow, Settled, Works
<1> HIDE DEF l
<1>3. ~Fencing(l) /\ l.st # "none" /\ Settled(l)
  BY <1>1 DEF Fencing, Settled
<1>4. OpInv(o, r, w, l)
  BY <1>0, <1>1, <1>2, <1>3 DEF OpInv, RowInv, Waits, RecordInv
<1>5. run = NoRun \/ (run = run /\ run.op # o)
  BY <1>2, SettledHasNoRun
<1>6. UNCHANGED <<cli, leaf, compacted, kids>> /\ conv' = conv /\ post' = post /\ run' = run
  BY DEF source
<1> QED
  BY <1>0, <1>1, <1>2, <1>3, <1>4, <1>5, <1>6, OpStep

\* An acknowledgement that is heard.
LEMMA AckKeeps ==
  ASSUME IInv, NEW o \in Ops, Ack(o)
  PROVE  IInv'
<1>0. row[o] \in RowState /\ RowInv(o, row[o], work[o], ledger[o]) /\ faults \in 0..MaxFaults
  BY OpFacts
<1>1. /\ work[o] = "filed" /\ Acknowledgeable(o) /\ ledger' = Acknowledged(o)
      /\ work' = [work EXCEPT ![o] = "acked"] /\ row' = [row EXCEPT ![o] = row[o]]
      /\ UNCHANGED <<post, run, source, kids>> /\ faults' = faults
  BY DEF Ack, IInv, TypeOK
<1>2. row[o].status = "running"
  BY <1>0, <1>1 DEF RowInv
<1> QED
  BY <1>0, <1>1, <1>2, AcknowledgeStep

\* An acknowledgement that is lost, before or after it was taken.
LEMMA AckLostKeeps ==
  ASSUME IInv, NEW o \in Ops, AckLost(o)
  PROVE  IInv'
<1> DEFINE r == [row[o] EXCEPT !.status = "pending"]
<1>0. /\ row[o] \in RowState /\ ledger[o] \in Records /\ RowInv(o, row[o], work[o], ledger[o])
      /\ RecordInv(o, row[o], ledger[o]) /\ (o \in Branches => o \notin Compactions)
      /\ (o \notin Branches => o \in Compactions) /\ (o \in Forks => o \in Branches)
      /\ run \in Runs \cup {NoRun} /\ conv \in {"none", "idle", "turn"} /\ post \in BOOLEAN
  BY OpFacts
<1>1. /\ work[o] = "filed" /\ row' = [row EXCEPT ![o] = r] /\ work' = [work EXCEPT ![o] = "idle"]
      /\ UNCHANGED <<post, run, source, kids>> /\ faults' \in 0..MaxFaults
  BY BranchConstants DEF AckLost, Requeued, Fault, IInv, TypeOK
<1>2. /\ r \in RowState /\ r.status = "pending" /\ r.child = row[o].child /\ r.leaf = row[o].leaf
      /\ r.files = row[o].files /\ r.paths = row[o].paths /\ r.dispatch = row[o].dispatch
  BY <1>0 DEF RowState
<1> HIDE DEF r
<1>3. CASE ledger' = Acknowledged(o) /\ Acknowledgeable(o)
  BY <1>1, <1>2, <1>3, AcknowledgeStep
<1>4. CASE ledger' = ledger
  <2>1. ledger' = [ledger EXCEPT ![o] = ledger[o]]
    BY <1>4 DEF IInv, TypeOK
  <2>2. /\ row[o].status = "running" /\ AcceptedRow(row[o]) /\ AcceptedRow(r) /\ "idle" \in Works
    BY <1>0, <1>1, <1>2 DEF RowInv, AcceptedRow, Works
  <2>3. OpInv(o, r, "idle", ledger[o])
    BY <1>0, <1>1, <1>2, <2>2 DEF OpInv, RowInv, Waits, RecordInv
  <2>4. run = NoRun \/ (run.op = o /\ RunInv(run, r, "idle", ledger[o])) \/ (run = run /\ run.op # o)
    BY <1>1, <1>2, <2>2 DEF IInv, RunInv
  <2>5. UNCHANGED <<cli, leaf, compacted, kids>> /\ conv' = conv /\ post' = post /\ run' = run
    BY <1>1 DEF source
  <2>6. QED
    BY <1>0, <1>1, <1>2, <2>1, <2>2, <2>3, <2>4, <2>5, OpStep
<1> QED
  BY <1>3, <1>4 DEF AckLost

\* A run whose requester stopped waiting is the same run, unheard.
LEMMA UnheardRun ==
  ASSUME IInv, run # NoRun
  PROVE  /\ Unheard \in Runs /\ Unheard.op = run.op /\ Unheard.at = run.at /\ ~Unheard.heard
         /\ Unheard.child = run.child /\ Unheard.adopt = run.adopt /\ Unheard # NoRun
  BY RunTyped DEF IInv, Unheard, Runs, NoRun

\* A request whose answer is lost: the row goes back, the run goes on unheard.
LEMMA AnswerLostKeeps ==
  ASSUME IInv, NEW o \in Ops, AnswerLost(o)
  PROVE  IInv'
<1> DEFINE r == [row[o] EXCEPT !.status = "pending"]
<1>0. /\ row[o] \in RowState /\ ledger[o] \in Records /\ RowInv(o, row[o], work[o], ledger[o])
      /\ RecordInv(o, row[o], ledger[o]) /\ (o \in Branches => o \notin Compactions)
      /\ (o \notin Branches => o \in Compactions) /\ (o \in Forks => o \in Branches)
      /\ run \in Runs \cup {NoRun} /\ conv \in {"none", "idle", "turn"} /\ post \in BOOLEAN
  BY OpFacts
<1>1. /\ work[o] \in Waits /\ row' = [row EXCEPT ![o] = r] /\ work' = [work EXCEPT ![o] = "idle"]
      /\ UNCHANGED <<post, source, kids>> /\ faults' \in 0..MaxFaults
      /\ ledger' = [ledger EXCEPT ![o] = ledger[o]]
  BY BranchConstants DEF AnswerLost, Waits, Requeued, Fault, IInv, TypeOK
<1>2. /\ r \in RowState /\ r.status = "pending" /\ r.child = row[o].child /\ r.leaf = row[o].leaf
      /\ r.files = row[o].files /\ r.paths = row[o].paths /\ r.dispatch = row[o].dispatch
  BY <1>0 DEF RowState
<1> HIDE DEF r
<1>3. /\ row[o].status = "running" /\ AcceptedRow(row[o]) /\ AcceptedRow(r) /\ "idle" \in Works
  BY <1>0, <1>1, <1>2 DEF RowInv, Waits, AcceptedRow, Works
<1>4. OpInv(o, r, "idle", ledger[o])
  BY <1>0, <1>1, <1>2, <1>3 DEF OpInv, RowInv, RecordInv
<1>5. UNCHANGED <<cli, leaf, compacted, kids>> /\ conv' = conv /\ post' = post
  BY <1>1 DEF source
<1>6. PICK u \in Runs \cup {NoRun} : u = run'
  BY <1>0, UnheardRun DEF AnswerLost
<1>7. /\ u = NoRun \/ (u.op = o /\ RunInv(u, r, "idle", ledger[o])) \/ (u = run /\ u.op # o)
      /\ u.at = run.at /\ (run = NoRun => u = run)
  <2>1. CASE run # NoRun /\ run.op = o
    <3>1. u = Unheard /\ RunInv(run, row[o], work[o], ledger[o])
      BY <1>6, <2>1 DEF AnswerLost, IInv
    <3>2. QED
      BY <1>2, <1>3, <2>1, <3>1, UnheardRun DEF RunInv
  <2>2. CASE ~(run # NoRun /\ run.op = o)
    BY <1>6, <2>2 DEF AnswerLost
  <2>3. QED
    BY <2>1, <2>2
<1>8. cli => conv' = conv /\ u = run
  BY <1>5, <1>7 DEF IInv, SourceInv
<1> QED
  BY <1>0, <1>1, <1>2, <1>3, <1>4, <1>5, <1>6, <1>7, <1>8, OpStep

-----------------------------------------------------------------------------
(* Agentd's answers. *)

\* The row an answer leaves.
AnswerRow(o, answer, c) ==
    IF answer = "done" THEN Succeeds(o, c)
    ELSE IF answer = "manual" THEN Reviewed(row[o])
    ELSE IF answer = "definitive" THEN Failed(row[o])
    ELSE Requeued(row[o])
AnswerWork(o, answer) == IF answer = "done" /\ o \in Branches THEN "made" ELSE "idle"

\* What an answer does to a row.
LEMMA AnswerRowTyped ==
  ASSUME IInv, NEW o \in Ops, NEW answer, NEW c \in Nat
  PROVE  /\ AnswerRow(o, answer, c) \in RowState /\ AnswerRow(o, answer, c).leaf = row[o].leaf
         /\ AnswerWork(o, answer) \in Works
         /\ AnswerRow(o, answer, c).status =
              IF answer = "done" THEN IF o \in Compactions THEN "succeeded" ELSE row[o].status
              ELSE IF answer = "manual" THEN "review" ELSE IF answer = "definitive" THEN "failed" ELSE "pending"
         /\ AnswerRow(o, answer, c).child = IF answer = "done" /\ o \notin Compactions THEN c ELSE row[o].child
         /\ o \notin Compactions /\ AnswerRow(o, answer, c).dispatch # row[o].dispatch =>
              AnswerRow(o, answer, c).dispatch = "held"
<1>1. row[o] \in RowState
  BY OpFacts
<1>2. AnswerWork(o, answer) \in Works
  BY DEF AnswerWork, Works
<1>3. CASE answer = "done" /\ o \in Compactions
  BY <1>1, <1>2, <1>3 DEF AnswerRow, Succeeds, RowState
<1>4. CASE answer = "done" /\ o \notin Compactions
  <2> DEFINE d == IF o \in Forks THEN "held" ELSE row[o].dispatch
  <2>1. AnswerRow(o, answer, c) = [row[o] EXCEPT !.child = c, !.dispatch = d]
    BY <1>1, <1>4 DEF AnswerRow, Succeeds, RowState
  <2>2. d \in {"none", "held", "due", "sent"} /\ (d # row[o].dispatch => d = "held")
    BY <1>1 DEF RowState
  <2> HIDE DEF d
  <2>3. QED
    BY <1>1, <1>2, <1>4, <2>1, <2>2 DEF RowState
<1>5. CASE answer = "manual"
  BY <1>1, <1>2, <1>5 DEF AnswerRow, Reviewed, RowState
<1>6. CASE answer = "definitive"
  BY <1>1, <1>2, <1>6 DEF AnswerRow, Failed, RowState
<1>7. CASE answer \notin {"done", "manual", "definitive"}
  BY <1>1, <1>2, <1>7 DEF AnswerRow, Requeued, RowState
<1> QED
  BY <1>3, <1>4, <1>5, <1>6, <1>7

\* What an answer must be for the operation's part of the invariant to hold.
LEMMA AnswerInv ==
  ASSUME IInv, NEW o \in Ops, NEW answer, NEW c \in Nat, NEW l \in Records,
         work[o] \in Waits, RecordInv(o, row[o], l),
         answer = "done" /\ o \in Branches => Settled(l) /\ c = l.child,
         answer = "done" /\ o \in Compactions => Compacted(row[o].leaf)
  PROVE  /\ OpInv(o, AnswerRow(o, answer, c), AnswerWork(o, answer), l)
         /\ AcceptedRow(row[o]) /\ AcceptedRow(AnswerRow(o, answer, c))
<1>1. PICK r : r = AnswerRow(o, answer, c)
  OBVIOUS
<1>2. PICK w : w = AnswerWork(o, answer)
  OBVIOUS
<1>3. /\ r \in RowState /\ r.leaf = row[o].leaf
      /\ r.status = IF answer = "done" THEN IF o \in Compactions THEN "succeeded" ELSE row[o].status
              ELSE IF answer = "manual" THEN "review" ELSE IF answer = "definitive" THEN "failed" ELSE "pending"
      /\ r.child = IF answer = "done" /\ o \notin Compactions THEN c ELSE row[o].child
      /\ o \notin Compactions /\ r.dispatch # row[o].dispatch => r.dispatch = "held"
  BY <1>1, AnswerRowTyped
<1>4. w = IF answer = "done" /\ o \in Branches THEN "made" ELSE "idle"
  BY <1>2 DEF AnswerWork
<1>5. /\ RowInv(o, row[o], work[o], ledger[o])
      /\ (o \in Branches => o \notin Compactions) /\ (o \notin Branches => o \in Compactions)
      /\ (o \in Forks => o \in Branches)
  BY OpFacts
<1>6. row[o].status = "running" /\ row[o].child = 0 /\ AcceptedRow(row[o]) /\ AcceptedRow(r)
  BY <1>3, <1>5 DEF RowInv, Waits, AcceptedRow
<1>7. RowInv(o, r, w, l)
  BY <1>3, <1>4, <1>5, <1>6 DEF RowInv, Waits
<1>8. RecordInv(o, r, l)
  BY <1>3, <1>5, <1>6 DEF RecordInv
<1> QED
  BY <1>1, <1>2, <1>6, <1>7, <1>8 DEF OpInv

\* An answer that ends the request, with the record it leaves.
LEMMA AnswerStep ==
  ASSUME IInv, NEW o \in Ops, NEW answer, NEW c \in Nat, NEW l \in Records,
         work[o] \in Waits, Answer(o, answer, c), ledger' = [ledger EXCEPT ![o] = l], run' = NoRun,
         RecordInv(o, row[o], l),
         answer = "done" /\ o \in Branches => Settled(l) /\ c = l.child,
         answer = "done" /\ o \in Compactions => Compacted(row[o].leaf),
         Fencing(l) => Fencing(ledger[o]), l.st = "none" => ledger[o].st = "none",
         UNCHANGED <<post, cli, leaf, compacted, kids>>, faults' \in 0..MaxFaults,
         conv' \in {"none", "idle", "turn"}, cli => conv' = conv
  PROVE  IInv'
<1>1. PICK r \in RowState : r = AnswerRow(o, answer, c) /\ r.leaf = row[o].leaf
  BY AnswerRowTyped
<1>2. PICK w \in Works : w = AnswerWork(o, answer)
  BY AnswerRowTyped
<1>3. row' = [row EXCEPT ![o] = r] /\ work' = [work EXCEPT ![o] = w]
  BY <1>1, <1>2 DEF Answer, AnswerRow, AnswerWork, IInv, TypeOK
<1>4. OpInv(o, r, w, l) /\ AcceptedRow(row[o]) /\ AcceptedRow(r)
  BY <1>1, <1>2, AnswerInv
<1>5. NoRun.at # "compacting" /\ NoRun \in Runs \cup {NoRun} /\ post' \in BOOLEAN /\ (cli => run = NoRun)
  BY DEF NoRun, IInv, TypeOK, SourceInv
<1> QED
  BY <1>1, <1>3, <1>4, <1>5, OpStep

\* What each verdict tells of the operation.
LEMMA VerdictOfBranch ==
  ASSUME IInv, NEW o \in Branches
  PROVE  /\ Verdict(o) = "done" => Settled(ledger[o])
         /\ Verdict(o) = "manual" => Fencing(ledger[o]) /\ ledger[o].st \in {"manual", "failed"}
         /\ Verdict(o) = "definitive" /\ o \in Forks => conv = "none" \/ ~Fencing(ledger[o])
         /\ Verdict(o) = "start" =>
              /\ conv # "none" /\ row[o].leaf = leaf
              /\ ledger[o].st \in {"none", "creating", "child_created"}
                   \/ (ledger[o].st = "failed" /\ ledger[o].child # 0)
<1>0. o \in Ops /\ o \notin Compactions /\ (o \in Forks => o \notin Clones)
  BY BranchConstants DEF Ops, Branches
<1>1. ledger[o] \in Records /\ RecordInv(o, row[o], ledger[o])
  BY <1>0, OpFacts
<1>2. RouteRefused(o) = "retry"
  BY <1>0 DEF RouteRefused
<1>4. \/ conv = "none" /\ Verdict(o) = "definitive"
      \/ Verdict(o) = "retry"
      \/ conv # "none" /\ Verdict(o) = BranchVerdict(o)
  BY <1>0, <1>2 DEF Verdict
<1>5. /\ BranchVerdict(o) = "done" => Settled(ledger[o])
      /\ BranchVerdict(o) = "manual" => Fencing(ledger[o]) /\ ledger[o].st \in {"manual", "failed"}
      /\ BranchVerdict(o) = "definitive" =>
            \/ ledger[o].st = "failed" /\ ledger[o].child = 0
            \/ row[o].leaf # leaf /\ (o \in Forks => ~Fencing(ledger[o]))
      /\ BranchVerdict(o) = "start" =>
            /\ row[o].leaf = leaf
            /\ ledger[o].st \in {"none", "creating", "child_created"}
                 \/ (ledger[o].st = "failed" /\ ledger[o].child # 0)
  BY <1>1 DEF BranchVerdict, Settled, Fencing, Expected, Records, RecordInv
<1>6. ledger[o].st = "failed" /\ ledger[o].child = 0 => ~Fencing(ledger[o])
  BY DEF Fencing
<1> QED
  BY <1>4, <1>5, <1>6

\* What agentd's verdict on a compaction says of the source.
LEMMA VerdictOfCompaction ==
  ASSUME IInv, NEW o \in Compactions
  PROVE  /\ Verdict(o) # "manual"
         /\ Verdict(o) = "done" => Compacted(row[o].leaf)
         /\ Verdict(o) = "start" => conv # "none" /\ ~AgentFenced /\ row[o].leaf = leaf /\ ~Compacted(leaf)
<1>1. o \notin Branches
  BY BranchConstants
<1>2. RouteRefused(o) = "definitive"
  BY DEF RouteRefused
<1>3. \/ Verdict(o) \in {"retry", "definitive"}
      \/ conv # "none" /\ ~AgentFenced /\ Verdict(o) = CompactVerdict(o)
  BY <1>1, <1>2 DEF Verdict, AgentFenced
<1> QED
  BY <1>3 DEF CompactVerdict, Expected

\* A request that agentd answers at once.
LEMMA ServeAnswerKeeps ==
  ASSUME IInv, NEW o \in Ops, ServeAnswer(o)
  PROVE  IInv'
<1>0. /\ row[o] \in RowState /\ ledger[o] \in Records
      /\ RecordInv(o, row[o], ledger[o]) /\ (o \in Branches => o \notin Compactions)
      /\ (o \notin Branches => o \in Compactions) /\ (o \in Forks => o \in Branches)
      /\ conv \in {"none", "idle", "turn"} /\ faults \in 0..MaxFaults /\ ledger[o].child \in Nat
  BY OpFacts, Typed DEF IInv
<1>1. /\ work[o] \in Waits /\ run' = NoRun /\ Answer(o, Verdict(o), ledger[o].child)
      /\ UNCHANGED <<post, cli, leaf, compacted, kids, faults>>
      /\ conv' = conv /\ conv' \in {"none", "idle", "turn"}
  BY <1>0 DEF ServeAnswer, Serving, Waits, source
<1> DEFINE l == IF Verdict(o) = "manual" THEN [ledger[o] EXCEPT !.st = "manual"] ELSE ledger[o]
<1>3. ledger' = [ledger EXCEPT ![o] = l]
  BY DEF ServeAnswer, IInv, TypeOK
<1>4. /\ l \in Records /\ l.child = ledger[o].child
      /\ Verdict(o) = "manual" => l.st = "manual"
      /\ Verdict(o) # "manual" => l = ledger[o]
  BY <1>0 DEF Records
<1> HIDE DEF l
<1>5. Verdict(o) = "manual" => /\ o \in Branches /\ Fencing(ledger[o]) /\ Fencing(l)
                              /\ ledger[o].st \in {"manual", "failed"}
  BY <1>0, <1>4, VerdictOfBranch, VerdictOfCompaction DEF Fencing
<1>6. RecordInv(o, row[o], l)
  BY <1>0, <1>4, <1>5 DEF RecordInv, Settled
<1>7. /\ Verdict(o) = "done" /\ o \in Branches => Settled(l)
      /\ Verdict(o) = "done" /\ o \in Compactions => Compacted(row[o].leaf)
  BY <1>0, <1>4, VerdictOfBranch, VerdictOfCompaction
<1>8. (Fencing(l) => Fencing(ledger[o])) /\ (l.st = "none" => ledger[o].st = "none")
  BY <1>4, <1>5
<1>9. PICK v : v = Verdict(o)
  OBVIOUS
<1> QED
  BY <1>0, <1>1, <1>3, <1>4, <1>6, <1>7, <1>8, <1>9, AnswerStep

\* The worker opens the conversation, or is refused it.
LEMMA OpenKeeps ==
  ASSUME IInv, NEW o \in Ops, Open(o) \/ OpenFails(o)
  PROVE  IInv'
<1>0. /\ row[o] \in RowState /\ ledger[o] \in Records /\ work[o] = "asking" /\ "opened" \in Works
      /\ RowInv(o, row[o], work[o], ledger[o]) /\ RecordInv(o, row[o], ledger[o])
      /\ OpInv(o, row[o], work[o], ledger[o])
      /\ conv \in {"none", "idle", "turn"} /\ (cli => conv = "none")
      /\ row \in [Ops -> RowState] /\ ledger \in [Ops -> Records]
  BY OpFacts DEF Open, OpenFails, Works, IInv, TypeOK, SourceInv
<1>1. row[o].status = "running" /\ row[o].child = 0 /\ AcceptedRow(row[o])
  BY <1>0 DEF RowInv, Waits, AcceptedRow
<1>2. run # NoRun /\ run.op = o => ~run.heard /\ row[o].status # "failed"
  BY <1>0, Unasked
<1>3. CASE Open(o)
  <2>1. /\ row' = [row EXCEPT ![o] = row[o]] /\ work' = [work EXCEPT ![o] = "opened"]
        /\ UNCHANGED <<post, ledger, run, cli, leaf, compacted, kids, faults>>
        /\ conv' \in {"none", "idle", "turn"} /\ (cli => conv' = conv)
    BY <1>0, <1>3 DEF Open, Openable, Opened
  <2>2. OpInv(o, row[o], "opened", ledger[o])
    BY <1>0, <1>1 DEF OpInv, RowInv, Waits
  <2>3. QED
    BY <1>0, <1>1, <1>2, <2>1, <2>2, RowStep
<1>4. CASE OpenFails(o)
  <2>1. PICK answer : answer \in {"retry", "definitive"} /\ answer = OpenRefused(o)
    BY DEF OpenRefused
  <2>2. /\ Answer(o, answer, 0) /\ UNCHANGED <<post, ledger, run, source, kids, faults>>
    BY <1>4, <2>1 DEF OpenFails
  <2>3. run = NoRun
    BY <1>4 DEF OpenFails
  <2>4. /\ ledger' = [ledger EXCEPT ![o] = ledger[o]] /\ run' = NoRun
        /\ UNCHANGED <<post, cli, leaf, compacted, kids>> /\ conv' = conv /\ faults' \in 0..MaxFaults
    BY <1>0, <2>2, <2>3 DEF source, IInv, TypeOK
  <2>5. QED
    BY <1>0, <2>1, <2>2, <2>4, AnswerStep DEF Waits
<1> QED
  BY <1>3, <1>4

\* A request that agentd starts to execute.
LEMMA ServeStartKeeps ==
  ASSUME IInv, NEW o \in Ops, ServeStart(o)
  PROVE  IInv'
<1>0. /\ row[o] \in RowState /\ ledger[o] \in Records /\ work[o] \in Works /\ run \in Runs \cup {NoRun}
      /\ RowInv(o, row[o], work[o], ledger[o]) /\ OpInv(o, row[o], work[o], ledger[o])
      /\ RecordInv(o, row[o], ledger[o]) /\ (o \in Branches => o \notin Compactions)
      /\ (o \notin Branches => o \in Compactions) /\ (o \in Forks => o \in Branches)
      /\ conv \in {"none", "idle", "turn"} /\ faults \in 0..MaxFaults /\ post \in BOOLEAN
      /\ ledger[o].child \in Nat
  BY OpFacts, Typed DEF IInv
<1>1. /\ work[o] = "opened" /\ run = NoRun /\ Verdict(o) = "start"
      /\ UNCHANGED <<post, cli, leaf, compacted, kids, faults>>
      /\ conv' \in {"none", "idle", "turn"}
      /\ row' = [row EXCEPT ![o] = row[o]] /\ work' = [work EXCEPT ![o] = work[o]]
  BY <1>0 DEF ServeStart, Serving, forum, source, IInv, TypeOK
<1>2. ~cli
  <2>1. conv # "none"
    BY <1>0, <1>1, VerdictOfBranch, VerdictOfCompaction
  <2>2. QED
    BY <2>1 DEF IInv, SourceInv
<1>3. row[o].status = "running" /\ row[o].child = 0 /\ AcceptedRow(row[o])
  BY <1>0, <1>1 DEF RowInv, Waits, AcceptedRow
<1>4. PICK a \in BOOLEAN : a <=> (ledger[o].st = "creating" /\ ledger[o].child = 0)
  OBVIOUS
<1>5. CASE o \in Branches
  <2> DEFINE l == [ledger[o] EXCEPT !.st = "creating", !.child = 0]
             u == [op |-> o, at |-> "creating", child |-> ledger[o].child, adopt |-> a, heard |-> TRUE]
  <2>1. ledger' = [ledger EXCEPT ![o] = l] /\ run' = u
    BY <1>4, <1>5 DEF ServeStart, IInv, TypeOK
  <2>2. /\ l \in Records /\ l.st = "creating" /\ l.child = 0
        /\ u \in Runs /\ u.op = o /\ u.at = "creating" /\ u.child = ledger[o].child /\ u.adopt = a
    BY <1>0 DEF Records, Runs
  <2> HIDE DEF l, u
  <2>3. /\ row[o].leaf = leaf
        /\ ledger[o].st \in {"none", "creating", "child_created"}
             \/ (ledger[o].st = "failed" /\ ledger[o].child # 0)
    BY <1>1, <1>5, VerdictOfBranch
  <2>4. OpInv(o, row[o], work[o], l)
    BY <1>0, <1>1, <1>3, <1>5, <2>2, <2>3 DEF OpInv, RowInv, RecordInv
  <2>5. ~a /\ ledger[o].child = 0 => \A i \in 1..Len(kids) : kids[i].op # o
    BY <1>0, <1>4, <2>3 DEF RecordInv, IInv, KidsInv
  <2>6. RunInv(u, row[o], work[o], l)
    BY <1>0, <1>1, <1>3, <1>5, <2>2, <2>5 DEF RunInv, RecordInv
  <2>7. QED
    BY <1>0, <1>1, <1>2, <1>3, <2>1, <2>2, <2>4, <2>6, OpStep
<1>6. CASE o \in Compactions
  <2> DEFINE u == [op |-> o, at |-> "compacting", child |-> ledger[o].child, adopt |-> a, heard |-> TRUE]
  <2>1. ledger' = [ledger EXCEPT ![o] = ledger[o]] /\ run' = u
    BY <1>0, <1>4, <1>6 DEF ServeStart, IInv, TypeOK
  <2>2. u \in Runs /\ u.op = o /\ u.at = "compacting" /\ u.child = ledger[o].child
    BY <1>0 DEF Runs
  <2> HIDE DEF u
  <2>3. ~AgentFenced /\ row[o].leaf = leaf /\ ~Compacted(leaf) /\ ledger[o] = NoRecord
    BY <1>0, <1>1, <1>6, VerdictOfCompaction DEF RecordInv
  <2>4. ~Fencing(ledger[o]) /\ ledger[o].child = 0
    BY <2>3 DEF Fencing, NoRecord
  <2>5. RunInv(u, row[o], work[o], ledger[o])
    BY <1>0, <1>1, <1>3, <1>6, <2>2, <2>3, <2>4 DEF RunInv
  <2>6. QED
    BY <1>0, <1>1, <1>2, <1>3, <2>1, <2>2, <2>3, <2>4, <2>5, OpStep
<1> QED
  BY <1>0, <1>5, <1>6

-----------------------------------------------------------------------------
(* The run. *)

\* What holds of the operation a branching run works on.
LEMMA RunningBranch ==
  ASSUME IInv, run # NoRun, run.at # "compacting"
  PROVE  /\ run \in Runs /\ run.op \in Ops /\ run.op \in Branches /\ run.op \notin Compactions
         /\ run.child \in Nat
         /\ RunInv(run, row[run.op], work[run.op], ledger[run.op])
         /\ ledger[run.op].st \in {"creating", "child_created"}
         /\ Fencing(ledger[run.op]) /\ leaf = row[run.op].leaf
         /\ row[run.op].child = 0 /\ AcceptedRow(row[run.op])
         /\ row[run.op].status \notin {"succeeded", "failed"} /\ work[run.op] # "acked"
         /\ RecordInv(run.op, row[run.op], ledger[run.op])
         /\ RowInv(run.op, row[run.op], work[run.op], ledger[run.op])
         /\ ~cli
<1>1. run \in Runs /\ run.op \in Ops /\ RunInv(run, row[run.op], work[run.op], ledger[run.op])
  BY RunTyped DEF IInv
<1>2. run.op \in Branches /\ run.op \notin Compactions /\ run.child \in Nat
  BY <1>1, BranchConstants DEF RunInv, Runs
<1>3. ledger[run.op].st \in {"creating", "child_created"}
  BY <1>1 DEF RunInv, Runs
<1>4. /\ RowInv(run.op, row[run.op], work[run.op], ledger[run.op])
      /\ RecordInv(run.op, row[run.op], ledger[run.op])
  BY <1>1, OpFacts
<1>5. Fencing(ledger[run.op]) /\ leaf = row[run.op].leaf /\ row[run.op].child = 0
  BY <1>2, <1>3, <1>4 DEF Fencing, RecordInv, Settled
<1>6. /\ row[run.op].status \notin {"succeeded", "failed"} /\ AcceptedRow(row[run.op])
      /\ work[run.op] # "acked"
  BY <1>1, <1>2, <1>3, <1>4 DEF RowInv, RunInv
<1>7. ~cli
  BY DEF IInv, SourceInv
<1> QED
  BY <1>1, <1>2, <1>3, <1>4, <1>5, <1>6, <1>7

\* The run ends, heard or not, and leaves a record of a branch.
LEMMA EndsStep ==
  ASSUME IInv, run # NoRun, run.at # "compacting", NEW answer \in {"done", "manual", "retry"},
         NEW c \in Nat, NEW l \in Records,
         Ends(answer, c), ledger' = [ledger EXCEPT ![run.op] = l], l.st # "none",
         RecordInv(run.op, row[run.op], l), answer = "done" => Settled(l) /\ c = l.child,
         UNCHANGED <<source, kids>>, faults' \in 0..MaxFaults
  PROVE  IInv'
<1>1. PICK o \in Branches : o = run.op /\ o \in Ops /\ o \notin Compactions
  BY RunningBranch
<1>2. /\ Fencing(ledger[o]) /\ leaf = row[o].leaf /\ row[o].child = 0 /\ AcceptedRow(row[o])
      /\ row[o].status \notin {"succeeded", "failed"} /\ work[o] # "acked" /\ ~cli
      /\ RunInv(run, row[o], work[o], ledger[o])
      /\ RowInv(o, row[o], work[o], ledger[o]) /\ RecordInv(o, row[o], l)
  BY <1>1, RunningBranch
<1>3. /\ row[o] \in RowState /\ work[o] \in Works /\ conv \in {"none", "idle", "turn"} /\ post \in BOOLEAN
  BY <1>1, OpFacts
<1>4. /\ run' = NoRun /\ UNCHANGED <<post, cli, leaf, compacted, kids>> /\ conv' = conv
      /\ ledger' = [ledger EXCEPT ![o] = l]
  BY <1>1 DEF Ends, source
<1>5. CASE run.heard
  <2>1. work[o] \in Waits /\ Answer(o, answer, c)
    BY <1>1, <1>2, <1>5 DEF Ends, RunInv, Waits
  <2>2. QED
    BY <1>1, <1>2, <1>3, <1>4, <2>1, AnswerStep
<1>6. CASE ~run.heard
  <2>1. row' = [row EXCEPT ![o] = row[o]] /\ work' = [work EXCEPT ![o] = work[o]]
    BY <1>6 DEF Ends, IInv, TypeOK
  <2>2. OpInv(o, row[o], work[o], l)
    BY <1>1, <1>2 DEF OpInv, RowInv
  <2>3. NoRun \in Runs \cup {NoRun} /\ NoRun.at # "compacting"
    BY DEF NoRun
  <2>4. QED
    BY <1>1, <1>2, <1>3, <1>4, <2>1, <2>2, <2>3, OpStep
<1> QED
  BY <1>5, <1>6

\* The run goes on: only its own progress, and its record, change.
LEMMA RunProceeds ==
  ASSUME IInv, run # NoRun, run.at # "compacting", NEW u \in Runs, NEW l \in Records,
         u.op = run.op, u.at # "compacting", run' = u, ledger' = [ledger EXCEPT ![run.op] = l],
         l.st # "none", RecordInv(run.op, row[run.op], l),
         RunInv(u, row[run.op], work[run.op], l),
         UNCHANGED <<forum, source, kids, faults>>
  PROVE  IInv'
<1>1. PICK o \in Branches : o = run.op /\ o \in Ops /\ o \notin Compactions
  BY RunningBranch
<1>2. /\ AcceptedRow(row[o]) /\ row[o].status \notin {"succeeded", "failed"} /\ work[o] # "acked"
      /\ RowInv(o, row[o], work[o], ledger[o]) /\ RecordInv(o, row[o], l) /\ ~cli
  BY <1>1, RunningBranch
<1>3. /\ row[o] \in RowState /\ work[o] \in Works /\ conv \in {"none", "idle", "turn"} /\ post \in BOOLEAN
      /\ faults \in 0..MaxFaults
  BY <1>1, OpFacts
<1>4. /\ UNCHANGED <<post, cli, leaf, compacted, kids, faults>> /\ conv' = conv
      /\ ledger' = [ledger EXCEPT ![o] = l]
      /\ row' = [row EXCEPT ![o] = row[o]] /\ work' = [work EXCEPT ![o] = work[o]]
  BY <1>1 DEF forum, source, IInv, TypeOK
<1>5. OpInv(o, row[o], work[o], l)
  BY <1>1, <1>2 DEF OpInv, RowInv
<1>6. u.op = o /\ RunInv(u, row[o], work[o], l)
  BY <1>1
<1> QED
  BY <1>1, <1>2, <1>3, <1>4, <1>5, <1>6, OpStep

\* A marked child is adopted, or the outcome is the operator's.
LEMMA RunAdoptKeeps ==
  ASSUME IInv, RunAdopt
  PROVE  IInv'
<1>0. run # NoRun /\ run.at = "creating" /\ run.at # "compacting"
  BY DEF RunAdopt
<1>1. PICK o \in Branches : o = run.op /\ o \in Ops
  BY <1>0, RunningBranch
<1>2. /\ run \in Runs /\ ledger[o].st = "creating" /\ RecordInv(o, row[o], ledger[o])
      /\ RunInv(run, row[o], work[o], ledger[o]) /\ leaf = row[o].leaf /\ AcceptedRow(row[o])
      /\ row[o].child = 0 /\ o \notin Compactions
  BY <1>0, <1>1, RunningBranch DEF RunInv
<1>3. ledger[o] \in Records /\ ledger = [ledger EXCEPT ![o] = ledger[o]]
      /\ faults \in 0..MaxFaults
  BY <1>1, OpFacts DEF IInv, TypeOK
<1>4. CASE Cardinality(Marked(o)) = 1
  <2> DEFINE i == CHOOSE i \in Marked(o) : TRUE
             u == [run EXCEPT !.at = "named", !.child = i]
  <2>1. run' = u /\ UNCHANGED <<forum, ledger, source, kids, faults>>
    BY <1>1, <1>4 DEF RunAdopt
  <2>2. i \in Marked(o)
    BY <1>4, FS_EmptySet
  <2> HIDE DEF i
  <2>3. ChildOf(o, i) /\ i \in Nat /\ i # 0
    BY <2>2 DEF Marked, ChildOf
  <2>4. /\ u \in Runs /\ u.op = run.op /\ u.at = "named" /\ u.child = i /\ u.heard = run.heard
    BY <1>2, <2>3 DEF Runs
  <2> HIDE DEF u
  <2>5. RunInv(u, row[o], work[o], ledger[o])
    BY <1>0, <1>1, <1>2, <2>3, <2>4 DEF RunInv
  <2>6. QED
    BY <1>0, <1>1, <1>2, <1>3, <2>1, <2>4, <2>5, RunProceeds
<1>5. CASE Cardinality(Marked(o)) # 1
  <2> DEFINE l == [ledger[o] EXCEPT !.st = "manual"]
  <2>1. /\ ledger' = [ledger EXCEPT ![o] = l] /\ Ends("manual", 0)
        /\ UNCHANGED <<source, kids, faults>>
    BY <1>1, <1>5 DEF RunAdopt, IInv, TypeOK
  <2>2. l \in Records /\ l.st = "manual" /\ l.child = ledger[o].child
    BY <1>3 DEF Records
  <2> HIDE DEF l
  <2>3. RecordInv(o, row[o], l)
    BY <1>2, <2>2 DEF RecordInv
  <2>4. QED
    BY <1>0, <1>1, <1>3, <2>1, <2>2, <2>3, EndsStep
<1> QED
  BY <1>4, <1>5

\* A recorded child is taken up again.
LEMMA RunReuseKeeps ==
  ASSUME IInv, RunReuse
  PROVE  IInv'
<1>0. run # NoRun /\ run.at = "creating" /\ run.at # "compacting" /\ run.child # 0
  BY DEF RunReuse
<1>1. PICK o \in Branches : o = run.op /\ o \in Ops
  BY <1>0, RunningBranch
<1>2. /\ run \in Runs /\ ledger[o].st = "creating" /\ RecordInv(o, row[o], ledger[o])
      /\ RunInv(run, row[o], work[o], ledger[o])
  BY <1>0, <1>1, RunningBranch DEF RunInv
<1>3. ledger[o] \in Records /\ ledger = [ledger EXCEPT ![o] = ledger[o]]
  BY <1>1, OpFacts DEF IInv, TypeOK
<1> DEFINE u == [run EXCEPT !.at = "named"]
<1>4. run' = u /\ UNCHANGED <<forum, ledger, source, kids, faults>>
  BY DEF RunReuse
<1>5. /\ u \in Runs /\ u.op = run.op /\ u.at = "named" /\ u.child = run.child /\ u.heard = run.heard
  BY <1>2 DEF Runs
<1> HIDE DEF u
<1>6. RunInv(u, row[o], work[o], ledger[o])
  BY <1>0, <1>1, <1>2, <1>5 DEF RunInv
<1> QED
  BY <1>0, <1>1, <1>2, <1>3, <1>4, <1>5, <1>6, RunProceeds

\* The child enters the record.
LEMMA RunRecordKeeps ==
  ASSUME IInv, RunRecord
  PROVE  IInv'
<1>0. run # NoRun /\ run.at = "named" /\ run.at # "compacting"
  BY DEF RunRecord
<1>1. PICK o \in Branches : o = run.op /\ o \in Ops
  BY <1>0, RunningBranch
<1>2. /\ run \in Runs /\ RecordInv(o, row[o], ledger[o]) /\ run.child \in Nat
      /\ RunInv(run, row[o], work[o], ledger[o]) /\ leaf = row[o].leaf /\ AcceptedRow(row[o])
      /\ row[o].child = 0 /\ o \notin Compactions /\ run.child # 0 /\ ChildOf(o, run.child)
  BY <1>0, <1>1, RunningBranch DEF RunInv
<1> DEFINE l == [st |-> "child_created", child |-> run.child]
           u == [run EXCEPT !.at = "recorded"]
<1>3. run' = u /\ ledger' = [ledger EXCEPT ![o] = l] /\ UNCHANGED <<forum, source, kids, faults>>
  BY <1>1 DEF RunRecord
<1>4. /\ u \in Runs /\ u.op = run.op /\ u.at = "recorded" /\ u.child = run.child /\ u.heard = run.heard
      /\ l \in Records /\ l.st = "child_created" /\ l.child = run.child
      /\ l = [st |-> "child_created", child |-> run.child]
  BY <1>2 DEF Runs, Records
<1> HIDE DEF l, u
<1>5. RecordInv(o, row[o], l)
  BY <1>2, <1>4 DEF RecordInv
<1>6. RunInv(u, row[o], work[o], l)
  BY <1>0, <1>1, <1>2, <1>4 DEF RunInv
<1> QED
  BY <1>0, <1>1, <1>3, <1>4, <1>5, <1>6, RunProceeds

\* The record is complete and the requester hears of it.
LEMMA RunCompleteKeeps ==
  ASSUME IInv, RunComplete
  PROVE  IInv'
<1>0. run # NoRun /\ run.at = "recorded" /\ run.at # "compacting"
  BY DEF RunComplete
<1>1. PICK o \in Branches : o = run.op /\ o \in Ops
  BY <1>0, RunningBranch
<1>2. /\ RecordInv(o, row[o], ledger[o]) /\ run.child \in Nat /\ run.child # 0 /\ ChildOf(o, run.child)
      /\ leaf = row[o].leaf /\ AcceptedRow(row[o]) /\ row[o].child = 0 /\ o \notin Compactions
      /\ ledger[o] = [st |-> "child_created", child |-> run.child]
  BY <1>0, <1>1, RunningBranch DEF RunInv
<1>3. ledger[o] \in Records /\ faults \in 0..MaxFaults
  BY <1>1, OpFacts
<1> DEFINE l == [ledger[o] EXCEPT !.st = "completed"]
<1>4. /\ ledger' = [ledger EXCEPT ![o] = l] /\ Ends("done", run.child)
      /\ UNCHANGED <<source, kids, faults>>
  BY <1>1 DEF RunComplete, IInv, TypeOK
<1>5. l \in Records /\ l.st = "completed" /\ l.child = run.child /\ Settled(l)
  BY <1>2, <1>3 DEF Records, Settled
<1> HIDE DEF l
<1>6. RecordInv(o, row[o], l)
  BY <1>2, <1>5 DEF RecordInv
<1> QED
  BY <1>0, <1>1, <1>2, <1>3, <1>4, <1>5, <1>6, EndsStep

\* The count of faults stays within its bound.
LEMMA FaultTyped ==
  ASSUME IInv, Fault
  PROVE  faults' \in 0..MaxFaults
  BY BranchConstants DEF IInv, TypeOK, Fault

\* A run that fails and records it.
LEMMA RunFailsKeeps ==
  ASSUME IInv, RunFails
  PROVE  IInv'
<1>0. run # NoRun /\ run.at # "compacting"
  BY DEF RunFails
<1>1. PICK o \in Branches : o = run.op /\ o \in Ops
  BY <1>0, RunningBranch
<1>2. /\ RecordInv(o, row[o], ledger[o]) /\ run.child \in Nat /\ (run.child # 0 => ChildOf(o, run.child))
      /\ leaf = row[o].leaf /\ AcceptedRow(row[o]) /\ row[o].child = 0 /\ o \notin Compactions
  BY <1>0, <1>1, RunningBranch DEF RunInv
<1> DEFINE l == [st |-> "failed", child |-> run.child]
<1>3. /\ ledger' = [ledger EXCEPT ![o] = l] /\ Ends("retry", 0) /\ UNCHANGED <<source, kids>>
      /\ faults' \in 0..MaxFaults
  BY <1>1, FaultTyped DEF RunFails
<1>4. l \in Records /\ l.st = "failed" /\ l.child = run.child
  BY <1>2 DEF Records
<1> HIDE DEF l
<1>5. RecordInv(o, row[o], l)
  BY <1>2, <1>4 DEF RecordInv
<1> QED
  BY <1>0, <1>1, <1>3, <1>4, <1>5, EndsStep

\* A run that fails and cannot record it.
LEMMA RunFailsUnrecordedKeeps ==
  ASSUME IInv, RunFailsUnrecorded
  PROVE  IInv'
<1>0. run # NoRun /\ Ends("retry", 0) /\ UNCHANGED <<ledger, source, kids>> /\ faults' \in 0..MaxFaults
  BY FaultTyped DEF RunFailsUnrecorded
<1>1. CASE run.at # "compacting"
  <2>1. PICK o \in Branches : o = run.op /\ o \in Ops
    BY <1>0, <1>1, RunningBranch
  <2>2. RecordInv(o, row[o], ledger[o]) /\ ledger[o].st # "none"
    BY <1>0, <1>1, <2>1, RunningBranch
  <2>3. ledger[o] \in Records /\ ledger' = [ledger EXCEPT ![o] = ledger[o]]
    BY <1>0, <2>1, OpFacts DEF IInv, TypeOK
  <2>4. QED
    BY <1>0, <1>1, <2>1, <2>2, <2>3, EndsStep
<1>2. CASE run.at = "compacting"
  <2>1. PICK o \in Ops : o = run.op
    BY <1>0, RunTyped DEF IInv
  <2>2. /\ row[o] \in RowState /\ work[o] \in Works /\ ledger[o] \in Records
        /\ OpInv(o, row[o], work[o], ledger[o]) /\ RecordInv(o, row[o], ledger[o])
        /\ conv \in {"none", "idle", "turn"} /\ post \in BOOLEAN
    BY OpFacts
  <2>3. /\ ledger' = [ledger EXCEPT ![o] = ledger[o]] /\ run' = NoRun /\ post' = post /\ conv' = conv
        /\ UNCHANGED <<cli, leaf, compacted, kids>>
    BY <1>0 DEF Ends, source, IInv, TypeOK
  <2>4. CASE run.heard
    <3>1. work[o] \in Waits /\ Answer(o, "retry", 0)
      BY <1>0, <2>1, <2>4 DEF Ends, IInv, RunInv, Waits
    <3>2. QED
      BY <1>0, <2>2, <2>3, <3>1, AnswerStep
  <2>5. CASE ~run.heard
    <3>1. row' = [row EXCEPT ![o] = row[o]] /\ work' = [work EXCEPT ![o] = work[o]]
      BY <1>0, <2>5 DEF Ends, IInv, TypeOK
    <3>2. NoRun \in Runs \cup {NoRun} /\ NoRun.at # "compacting" /\ (cli => run = NoRun)
      BY DEF NoRun, IInv, SourceInv
    <3>3. QED
      BY <1>0, <2>2, <2>3, <3>1, <3>2, OpStep
  <2>6. QED
    BY <2>4, <2>5
<1> QED
  BY <1>1, <1>2

\* A step of a run that adds a child session or marks one.
LEMMA KidsStep ==
  ASSUME IInv, run # NoRun, run.at # "compacting", NEW u \in Runs, u.op = run.op, u.at # "compacting",
         run' = u, UNCHANGED <<forum, ledger, source, faults>>,
         kids' \in Seq(Sessions), Len(kids') >= Len(kids),
         \A i \in 1..Len(kids) : kids'[i].op = kids[i].op,
         RunInv(run, row[run.op], work[run.op], ledger[run.op])', KidsInv'
  PROVE  IInv'
<1> USE DEF forum, source
<1>1. TypeOK'
  BY DEF IInv, TypeOK
<1>2. Len(kids) \in Nat /\ Len(kids') \in Nat
  BY LenProperties DEF IInv, TypeOK
<1>3. \A o, c : ChildOf(o, c) => ChildOf(o, c)'
  BY <1>2 DEF ChildOf
<1>4. \A o \in Ops : OpInv(o, row[o], work[o], ledger[o])'
  BY <1>3 DEF IInv, OpInv, RowInv, RecordInv, Compacted
<1>5. SourceInv'
  <2>1. ~cli
    BY RunningBranch
  <2>2. QED
    BY <2>1 DEF SourceInv
<1>6. CompactedInv'
  BY DEF IInv, CompactedInv
<1> QED
  BY <1>1, <1>4, <1>5, <1>6 DEF IInv

\* A child is created: the first of its operation.
LEMMA RunCreateKeeps ==
  ASSUME IInv, RunCreate
  PROVE  IInv'
<1>0. /\ run # NoRun /\ run.at = "creating" /\ run.at # "compacting" /\ ~run.adopt /\ run.child = 0
      /\ UNCHANGED <<forum, ledger, source, faults>>
  BY DEF RunCreate
<1>1. PICK o \in Branches : o = run.op /\ o \in Ops
  BY <1>0, RunningBranch
<1>2. /\ run \in Runs /\ RunInv(run, row[o], work[o], ledger[o]) /\ leaf = row[o].leaf
      /\ ledger[o].st = "creating" /\ \A i \in 1..Len(kids) : kids[i].op # o
  BY <1>0, <1>1, RunningBranch DEF RunInv
<1>3. leaf \in 0..MaxLeaf /\ kids \in Seq(Sessions) /\ Len(kids) \in Nat
  BY LenProperties DEF IInv, TypeOK
<1>4. PICK n \in Nat : n = Len(kids) + 1 /\ n # 0
  BY <1>3
<1>5. PICK k \in Sessions : k = [op |-> o, at |-> leaf, marked |-> FALSE]
  BY <1>3 DEF Sessions
<1>6. k.op = o /\ k.at = leaf
  BY <1>5
<1>7. /\ kids' = Append(kids, k) /\ kids' \in Seq(Sessions) /\ Len(kids') = n
      /\ kids'[n] = k /\ \A i \in 1..Len(kids) : kids'[i] = kids[i]
  BY <1>1, <1>3, <1>4, <1>5, AppendProperties DEF RunCreate
<1>8. PICK u \in Runs : u = run' /\ u.op = o /\ u.at = "unmarked" /\ u.child = n /\ u.heard = run.heard
  <2> DEFINE u == [run EXCEPT !.at = "unmarked", !.child = n]
  <2>1. u \in Runs /\ u.op = o /\ u.at = "unmarked" /\ u.child = n /\ u.heard = run.heard
    BY <1>1, <1>2 DEF Runs
  <2>2. run' = u
    BY <1>7 DEF RunCreate
  <2>3. QED
    BY <2>1, <2>2
<1>9. UNCHANGED <<row, work, ledger, leaf, compacted>>
  BY <1>0 DEF forum, source
<1>10. ChildOf(o, n)'
  BY <1>3, <1>4, <1>6, <1>7 DEF ChildOf
<1>11. RunInv(run, row[run.op], work[run.op], ledger[run.op])'
  BY <1>0, <1>1, <1>2, <1>4, <1>8, <1>9, <1>10 DEF RunInv
<1>12. KidsInv'
  <2>1. \A i \in 1..Len(kids') : i \in 1..Len(kids) \/ i = n
    BY <1>3, <1>4, <1>7
  <2>2. OneChildPerOperation'
    BY <1>2, <1>6, <1>7, <2>1 DEF OneChildPerOperation, IInv, KidsInv
  <2>3. \A i \in 1..Len(kids') : ledger[kids'[i].op].st # "none" /\ kids'[i].at = row[kids'[i].op].leaf
    BY <1>2, <1>6, <1>7, <2>1 DEF IInv, KidsInv
  <2>4. QED
    BY <1>9, <2>2, <2>3 DEF KidsInv
<1>13. Len(kids') >= Len(kids)
  BY <1>3, <1>4, <1>7
<1> QED
  BY <1>0, <1>1, <1>7, <1>8, <1>11, <1>12, <1>13, KidsStep

\* The child gets its marker.
LEMMA RunMarkKeeps ==
  ASSUME IInv, RunMark
  PROVE  IInv'
<1>0. /\ run # NoRun /\ run.at = "unmarked" /\ run.at # "compacting"
      /\ UNCHANGED <<forum, ledger, source, faults>>
  BY DEF RunMark
<1>1. PICK o \in Branches : o = run.op /\ o \in Ops
  BY <1>0, RunningBranch
<1>2. /\ run \in Runs /\ RunInv(run, row[o], work[o], ledger[o]) /\ run.child # 0
      /\ run.child \in 1..Len(kids) /\ ChildOf(o, run.child)
  BY <1>0, <1>1, RunningBranch DEF RunInv, ChildOf
<1>3. kids \in Seq(Sessions) /\ Len(kids) \in Nat /\ \A i \in 1..Len(kids) : kids[i] \in Sessions
  BY LenProperties, KidTyped DEF IInv, TypeOK
<1>4. PICK k \in Sessions : k = [kids[run.child] EXCEPT !.marked = TRUE]
                            /\ k.op = kids[run.child].op /\ k.at = kids[run.child].at
  <2> DEFINE k == [kids[run.child] EXCEPT !.marked = TRUE]
  <2>1. k \in Sessions /\ k.op = kids[run.child].op /\ k.at = kids[run.child].at
    BY <1>2, <1>3 DEF Sessions
  <2>2. QED
    BY <2>1
<1>5. kids' = [kids EXCEPT ![run.child] = k]
  BY <1>4 DEF RunMark
<1>6. kids' \in Seq(Sessions) /\ Len(kids') = Len(kids)
  BY <1>2, <1>3, <1>5, ExceptSeq
<1>7. \A i \in 1..Len(kids) : kids'[i].op = kids[i].op /\ kids'[i].at = kids[i].at
  BY <1>2, <1>3, <1>4, <1>5, ExceptSeq
<1>8. PICK u \in Runs : u = run' /\ u.op = o /\ u.at = "named" /\ u.child = run.child /\ u.heard = run.heard
  BY <1>1, <1>2 DEF RunMark, Runs
<1>9. UNCHANGED <<row, work, ledger, leaf, compacted>>
  BY <1>0 DEF forum, source
<1>10. RunInv(run, row[run.op], work[run.op], ledger[run.op])'
  BY <1>0, <1>1, <1>2, <1>6, <1>7, <1>8, <1>9 DEF RunInv, ChildOf
<1>11. KidsInv'
  BY <1>6, <1>7, <1>9 DEF IInv, KidsInv, OneChildPerOperation
<1>12. Len(kids') >= Len(kids)
  BY <1>3, <1>6
<1> QED
  BY <1>0, <1>1, <1>6, <1>7, <1>8, <1>10, <1>11, <1>12, KidsStep

\* The compaction is written, once, at the entry it was accepted for.
LEMMA RunCompactKeeps ==
  ASSUME IInv, RunCompact
  PROVE  IInv'
<1>0. /\ run # NoRun /\ run.at = "compacting" /\ run' = NoRun /\ leaf < MaxLeaf /\ leaf' = leaf + 1
      /\ UNCHANGED <<post, ledger, conv, cli, kids, faults>>
  BY DEF RunCompact, Ends
<1>1. PICK o \in Ops : o = run.op
  BY <1>0, RunTyped DEF IInv
<1>2. /\ RunInv(run, row[o], work[o], ledger[o]) /\ leaf = row[o].leaf /\ ~Compacted(leaf)
      /\ ~AgentFenced /\ AcceptedRow(row[o]) /\ o \notin Branches
  BY <1>0, <1>1 DEF IInv, RunInv, SourceInv
<1>3. /\ row[o] \in RowState /\ work[o] \in Works /\ ledger[o] \in Records /\ o \in Compactions
      /\ RowInv(o, row[o], work[o], ledger[o]) /\ RecordInv(o, row[o], ledger[o])
  BY <1>2, OpFacts
<1>4. PICK c \in [parent : 0..MaxLeaf, by : Compactions] : c = [parent |-> leaf, by |-> o]
  BY <1>3 DEF IInv, TypeOK
<1>5. c.parent = leaf /\ c.by = o /\ compacted' = compacted \cup {c}
  BY <1>1, <1>4 DEF RunCompact
<1>6. \A p \in Ops : ~Fencing(ledger[p])
  <2>1. \A p \in Branches : ~Fencing(ledger[p])
    BY <1>2, FencedBy
  <2>2. \A p \in Compactions : ~Fencing(ledger[p])
    <3> TAKE p \in Compactions
    <3>1. ledger[p] = NoRecord
      BY DEF IInv, OpInv, RecordInv, Ops
    <3>2. QED
      BY <3>1 DEF Fencing, NoRecord
  <2>3. QED
    BY <2>1, <2>2 DEF Ops, Branches
<1>7. \A k : Compacted(k) => Compacted(k)'
  BY <1>5 DEF Compacted
<1>8. PICK r \in RowState : /\ r = row'[o] /\ r.leaf = row[o].leaf /\ AcceptedRow(r)
                            /\ \/ r = row[o] /\ work'[o] = work[o]
                               \/ r.status = "succeeded" /\ r.child = 0 /\ work'[o] = "idle"
                            /\ \A p \in Ops : p # o => row'[p] = row[p] /\ work'[p] = work[p]
                            /\ row' \in [Ops -> RowState] /\ work' \in [Ops -> Works]
  <2>1. CASE run.heard
    <3>1. Expected(o) = leaf /\ Answer(o, "done", 0) /\ work[o] = "opened"
      BY <1>0, <1>1, <1>2, <2>1 DEF RunCompact, Ends, Expected, RunInv
    <3>2. PICK r \in RowState : /\ r = AnswerRow(o, "done", 0) /\ r.leaf = row[o].leaf
                                /\ r.status = "succeeded" /\ r.child = row[o].child
      BY <1>3, AnswerRowTyped
    <3>3. row' = [row EXCEPT ![o] = r] /\ work' = [work EXCEPT ![o] = "idle"]
      BY <1>2, <3>1, <3>2 DEF Answer, AnswerRow, IInv, TypeOK
    <3>4. row[o].child = 0 /\ "idle" \in Works /\ AcceptedRow(r)
      BY <1>3, <3>1, <3>2 DEF RowInv, Waits, Works, AcceptedRow
    <3>5. QED
      BY <3>2, <3>3, <3>4 DEF IInv, TypeOK, Works
  <2>2. CASE ~run.heard
    <3>1. row' = row /\ work' = work
      BY <2>2 DEF RunCompact, Ends
    <3>2. QED
      BY <1>2, <1>3, <3>1 DEF IInv, TypeOK, Works
  <2>3. QED
    BY <2>1, <2>2
<1>9. TypeOK'
  <2>1. leaf' \in 0..MaxLeaf
    BY <1>0, BranchConstants DEF IInv, TypeOK
  <2>2. QED
    BY <1>0, <1>5, <1>8, <2>1 DEF IInv, TypeOK, Works
<1>10. \A p \in Ops : OpInv(p, row[p], work[p], ledger[p])'
  <2> TAKE p \in Ops
  <2>1. \A k : ChildOf(p, k)' = ChildOf(p, k)
    BY <1>0 DEF ChildOf
  <2>2. CASE p # o
    <3>1. /\ RowInv(p, row[p], work[p], ledger[p]) /\ RecordInv(p, row[p], ledger[p])
          /\ row'[p] = row[p] /\ work'[p] = work[p] /\ ledger' = ledger
      BY <1>0, <1>8, <2>2, OpFacts
    <3>2. QED
      BY <1>6, <1>7, <2>1, <3>1 DEF OpInv, RowInv, RecordInv
  <2>3. CASE p = o
    <3>1. Compacted(r.leaf)'
      BY <1>2, <1>5, <1>8 DEF Compacted
    <3>2. RowInv(p, row[p], work[p], ledger[p])'
      BY <1>0, <1>2, <1>3, <1>8, <2>3, <3>1 DEF RowInv
    <3>3. RecordInv(p, row[p], ledger[p])'
      BY <1>0, <1>2, <1>3, <1>6, <1>8, <2>1, <2>3 DEF RecordInv
    <3>4. QED
      BY <3>2, <3>3 DEF OpInv
  <2>4. QED
    BY <2>2, <2>3
<1>11. \A p \in Ops : row'[p].leaf = row[p].leaf /\ (AcceptedRow(row[p]) => AcceptedRow(row'[p]))
  BY <1>8
<1>12. KidsInv'
  BY <1>0, <1>11, KidTyped DEF IInv, KidsInv, OneChildPerOperation
<1>13. SourceInv'
  BY <1>0 DEF IInv, SourceInv, NoRun
<1>14. CompactedInv'
  <2>1. \A d \in compacted : d.by \in Ops /\ AcceptedRow(row[d.by]) /\ d.parent = row[d.by].leaf
    BY DEF IInv, TypeOK, CompactedInv, Ops
  <2>2. \A d \in compacted : d.by # o
    BY <1>2, <2>1 DEF Compacted
  <2>3. QED
    BY <1>2, <1>5, <1>11, <2>1, <2>2 DEF IInv, CompactedInv
<1> QED
  BY <1>0, <1>9, <1>10, <1>12, <1>13, <1>14 DEF IInv

-----------------------------------------------------------------------------
(* The source's other writers, crashes, and the theorems. *)

\* A step that leaves the operations as they are, but perhaps for the dispatch of
\* a compaction's checkpoint, and writes the source only while nothing holds it.
LEMMA QuietStep ==
  ASSUME IInv, row' \in [Ops -> RowState],
         \A p \in Ops : /\ row'[p].status = row[p].status /\ row'[p].leaf = row[p].leaf
                        /\ row'[p].child = row[p].child
                        /\ p \in Branches => row'[p] = row[p]
                        /\ p \in Compactions => row'[p].files = row[p].files /\ row'[p].paths = row[p].paths,
         UNCHANGED <<work, ledger, run, compacted, kids, faults>>,
         post' \in BOOLEAN, conv' \in {"none", "idle", "turn"}, cli' \in BOOLEAN, leaf' \in 0..MaxLeaf,
         leaf' = leaf \/ (~AgentFenced /\ run = NoRun),
         cli' => conv' = "none" /\ run = NoRun /\ ~AgentFenced
  PROVE  IInv'
<1>1. TypeOK'
  BY DEF IInv, TypeOK
<1>2. \A p \in Ops : Fencing(ledger[p]) => leaf' = leaf
  <2> TAKE p \in Ops
  <2>1. p \in Compactions => ~Fencing(ledger[p])
    <3> SUFFICES ASSUME p \in Compactions PROVE ~Fencing(ledger[p])
      OBVIOUS
    <3>1. ledger[p] = NoRecord
      BY DEF IInv, OpInv, RecordInv
    <3>2. QED
      BY <3>1 DEF Fencing, NoRecord
  <2>2. QED
    BY <2>1, FencedBy DEF Ops, Branches
<1>3. \A p, c : ChildOf(p, c)' = ChildOf(p, c)
  BY DEF ChildOf
<1>4. \A k : Compacted(k)' = Compacted(k)
  BY DEF Compacted
<1>5. \A p \in Ops : OpInv(p, row[p], work[p], ledger[p])'
  <2> TAKE p \in Ops
  <2>1. /\ RowInv(p, row[p], work[p], ledger[p]) /\ RecordInv(p, row[p], ledger[p])
        /\ (p \in Branches => p \notin Compactions) /\ (p \notin Branches => p \in Compactions)
        /\ (p \in Forks => p \in Branches)
    BY OpFacts
  <2>2. RowInv(p, row[p], work[p], ledger[p])'
    BY <1>4, <2>1 DEF RowInv
  <2>3. RecordInv(p, row[p], ledger[p])'
    BY <1>2, <1>3, <2>1 DEF RecordInv, AcceptedRow
  <2>4. QED
    BY <2>2, <2>3 DEF OpInv
<1>6. (run # NoRun => RunInv(run, row[run.op], work[run.op], ledger[run.op]))'
  <2> SUFFICES ASSUME run # NoRun
               PROVE  RunInv(run, row[run.op], work[run.op], ledger[run.op])'
    OBVIOUS
  <2>1. run.op \in Ops /\ RunInv(run, row[run.op], work[run.op], ledger[run.op])
    BY RunTyped DEF IInv
  <2>2. QED
    BY <1>3, <1>4, <2>1 DEF RunInv, AcceptedRow
<1>7. KidsInv'
  BY KidTyped DEF IInv, KidsInv, OneChildPerOperation
<1>8. SourceInv'
  BY DEF IInv, SourceInv, AgentFenced, Fences
<1>9. CompactedInv'
  <2>1. \A d \in compacted : d.by \in Ops
    BY DEF IInv, TypeOK, Ops
  <2>2. QED
    BY <2>1 DEF IInv, CompactedInv, AcceptedRow
<1> QED
  BY <1>1, <1>5, <1>6, <1>7, <1>8, <1>9 DEF IInv

\* Posts, turns, closes and Pi processes.
LEMMA WritersKeep ==
  ASSUME IInv,
         \/ Post \/ DispatchPost \/ TurnEnds \/ CloseConversation
         \/ CliClaims \/ CliWrites \/ CliReleases
  PROVE  IInv'
<1>0. /\ UNCHANGED <<row, work, ledger, run, compacted, kids, faults>>
      /\ row \in [Ops -> RowState] /\ post \in BOOLEAN /\ conv \in {"none", "idle", "turn"} /\ cli \in BOOLEAN
      /\ leaf \in 0..MaxLeaf /\ (cli => conv = "none" /\ run = NoRun /\ ~AgentFenced)
  <2>1. UNCHANGED <<row, work, ledger, run, compacted, kids, faults>>
    BY DEF Post, DispatchPost, TurnEnds, CloseConversation, CliClaims, CliWrites, CliReleases, forum, source
  <2>2. QED
    BY <2>1 DEF IInv, TypeOK, SourceInv
<1>1. leaf < MaxLeaf => leaf + 1 \in 0..MaxLeaf
  BY <1>0, BranchConstants
<1>2. CASE Post \/ TurnEnds \/ CloseConversation \/ CliClaims \/ CliReleases
  <2>1. /\ leaf' = leaf /\ post' \in BOOLEAN /\ conv' \in {"none", "idle", "turn"} /\ cli' \in BOOLEAN
        /\ cli' => conv' = "none" /\ run = NoRun /\ ~AgentFenced
    <3>1. CASE Post
      BY <1>0, <3>1 DEF Post, source
    <3>2. CASE TurnEnds
      BY <1>0, <3>2 DEF TurnEnds, forum
    <3>3. CASE CloseConversation
      BY <1>0, <3>3 DEF CloseConversation, forum
    <3>4. CASE CliClaims
      BY <1>0, <3>4 DEF CliClaims, forum
    <3>5. CASE CliReleases
      BY <1>0, <3>5 DEF CliReleases, forum
    <3>6. QED
      BY <1>2, <3>1, <3>2, <3>3, <3>4, <3>5
  <2>2. QED
    BY <1>0, <2>1, QuietStep
<1>3. CASE DispatchPost
  <2>1. ~cli
    BY <1>0, <1>3 DEF DispatchPost, Prompted, Openable, Opened
  <2>2. QED
    BY <1>0, <1>1, <1>3, <2>1, QuietStep DEF DispatchPost, Prompted
<1>4. CASE CliWrites
  BY <1>0, <1>1, <1>4, QuietStep DEF CliWrites, forum
<1> QED
  BY <1>2, <1>3, <1>4

\* A compaction's checkpoint is sent into the source.
LEMMA DispatchCheckpointKeeps ==
  ASSUME IInv, NEW o \in Ops, DispatchCheckpoint(o)
  PROVE  IInv'
<1>0. /\ post \in BOOLEAN /\ cli \in BOOLEAN /\ row[o] \in RowState
      /\ leaf \in 0..MaxLeaf /\ (cli => conv = "none" /\ run = NoRun /\ ~AgentFenced)
      /\ o \in Compactions /\ o \notin Branches /\ run = NoRun /\ ~AgentFenced /\ conv' = "turn"
      /\ leaf < MaxLeaf /\ leaf' = leaf + 1
      /\ UNCHANGED <<work, post, ledger, run, cli, compacted, kids, faults>>
  BY OpFacts DEF IInv, TypeOK, SourceInv, DispatchCheckpoint, Prompted
<1> DEFINE r == [row[o] EXCEPT !.dispatch = "sent"]
<1>1. row' = [row EXCEPT ![o] = r]
  BY DEF DispatchCheckpoint, IInv, TypeOK
<1>2. /\ r \in RowState /\ r.status = row[o].status /\ r.leaf = row[o].leaf /\ r.child = row[o].child
      /\ r.files = row[o].files /\ r.paths = row[o].paths
  BY <1>0 DEF RowState
<1> HIDE DEF r
<1>3. row' \in [Ops -> RowState] /\ row'[o] = r /\ \A p \in Ops : p # o => row'[p] = row[p]
  BY <1>1, <1>2 DEF IInv, TypeOK
<1>4. ~cli
  BY <1>0 DEF DispatchCheckpoint, Prompted, Openable, Opened
<1>5. leaf' \in 0..MaxLeaf
  BY <1>0, BranchConstants
<1> QED
  BY <1>0, <1>2, <1>3, <1>4, <1>5, QuietStep

\* A crash: every row may go back, and the run loses its requester or is gone.
LEMMA CrashStep ==
  ASSUME IInv, row' \in [Ops -> RowState], work' \in [Ops -> Works],
         UNCHANGED <<post, ledger, cli, leaf, compacted, kids>>, faults' \in 0..MaxFaults,
         conv' = conv \/ conv' = "none",
         \A p \in Ops : /\ OpInv(p, row'[p], work'[p], ledger[p])
                        /\ AcceptedRow(row[p]) => /\ AcceptedRow(row'[p]) /\ row'[p].leaf = row[p].leaf
                                                  /\ row[p].status # "failed" => row'[p].status # "failed",
         run' = NoRun \/ (run # NoRun /\ run' = [run EXCEPT !.heard = FALSE])
  PROVE  IInv'
<1>0. run' = NoRun \/ (run' \in Runs /\ run \in Runs /\ run # NoRun /\ run'.op = run.op /\ run'.at = run.at
                       /\ run'.child = run.child /\ run'.adopt = run.adopt /\ run'.heard = FALSE)
  BY RunTyped DEF IInv, Runs
<1>1. TypeOK'
  BY <1>0 DEF IInv, TypeOK, Works
<1>2. \A p, c : ChildOf(p, c)' = ChildOf(p, c)
  BY DEF ChildOf
<1>3. \A k : Compacted(k)' = Compacted(k)
  BY DEF Compacted
<1>4. \A p \in Ops : OpInv(p, row[p], work[p], ledger[p])'
  <2> TAKE p \in Ops
  <2>1. RowInv(p, row'[p], work'[p], ledger[p]) /\ RecordInv(p, row'[p], ledger[p])
    BY DEF OpInv
  <2>2. RowInv(p, row[p], work[p], ledger[p])'
    BY <1>3, <2>1 DEF RowInv
  <2>3. RecordInv(p, row[p], ledger[p])'
    BY <1>2, <2>1 DEF RecordInv
  <2>4. QED
    BY <2>2, <2>3 DEF OpInv
<1>5. (run # NoRun => RunInv(run, row[run.op], work[run.op], ledger[run.op]))'
  <2> SUFFICES ASSUME run' # NoRun
               PROVE  RunInv(run, row[run.op], work[run.op], ledger[run.op])'
    OBVIOUS
  <2>1. run.op \in Ops /\ RunInv(run, row[run.op], work[run.op], ledger[run.op])
    BY <1>0, RunTyped DEF IInv
  <2>2. QED
    BY <1>0, <1>2, <1>3, <2>1 DEF RunInv
<1>6. KidsInv'
  <2>1. \A i \in 1..Len(kids) : kids[i].op \in Ops /\ AcceptedRow(row[kids[i].op])
    BY KidTyped DEF IInv, KidsInv, OpInv, RecordInv
  <2>2. QED
    BY <2>1 DEF IInv, KidsInv, OneChildPerOperation
<1>7. SourceInv'
  <2>1. AgentFenced' = AgentFenced
    BY DEF AgentFenced, Fences
  <2>2. run'.at = "compacting" => run.at = "compacting"
    BY <1>0 DEF NoRun
  <2>3. QED
    BY <1>0, <2>1, <2>2 DEF IInv, SourceInv
<1>8. CompactedInv'
  <2>1. \A d \in compacted : d.by \in Ops
    BY DEF IInv, TypeOK, Ops
  <2>2. QED
    BY <2>1 DEF IInv, CompactedInv
<1> QED
  BY <1>1, <1>4, <1>5, <1>6, <1>7, <1>8 DEF IInv

\* A row that goes back to the queue.
LEMMA RequeueTyped ==
  ASSUME NEW r \in RowState
  PROVE  /\ Requeued(r) \in RowState /\ Requeued(r).status = "pending"
         /\ Requeued(r).leaf = r.leaf /\ Requeued(r).child = r.child
         /\ Requeued(r).files = r.files /\ Requeued(r).paths = r.paths /\ Requeued(r).dispatch = r.dispatch
  BY DEF RowState, Requeued

\* It keeps its part of the invariant.
LEMMA RequeueKeeps ==
  ASSUME IInv, NEW o \in Ops, row[o].status = "running"
  PROVE  /\ OpInv(o, Requeued(row[o]), "idle", ledger[o]) /\ AcceptedRow(row[o])
         /\ AcceptedRow(Requeued(row[o])) /\ Requeued(row[o]).leaf = row[o].leaf
<1>1. /\ row[o] \in RowState
      /\ RowInv(o, row[o], work[o], ledger[o]) /\ RecordInv(o, row[o], ledger[o])
  BY OpFacts
<1>2. PICK r \in RowState : /\ r = Requeued(row[o]) /\ r.status = "pending" /\ r.leaf = row[o].leaf
                            /\ r.child = row[o].child /\ r.dispatch = row[o].dispatch
  BY <1>1, RequeueTyped
<1>3. RowInv(o, r, "idle", ledger[o])
  BY <1>1, <1>2 DEF RowInv, Waits
<1>4. AcceptedRow(r) /\ AcceptedRow(row[o])
  BY <1>2 DEF AcceptedRow
<1>5. RecordInv(o, r, ledger[o])
  BY <1>1, <1>2, <1>4 DEF RecordInv
<1> QED
  BY <1>2, <1>3, <1>4, <1>5 DEF OpInv

\* A crash of agentd.
LEMMA AgentdCrashKeeps ==
  ASSUME IInv, AgentdCrash
  PROVE  IInv'
<1>0. PICK cut \in SUBSET {o \in Ops : work[o] \in {"asking", "opened"}} :
         /\ row' = [o \in Ops |-> IF o \in cut THEN Requeued(row[o]) ELSE row[o]]
         /\ work' = [o \in Ops |-> IF o \in cut THEN "idle" ELSE work[o]]
  BY DEF AgentdCrash
<1>1. ASSUME NEW p \in Ops
      PROVE  /\ row'[p] \in RowState /\ work'[p] \in Works
             /\ OpInv(p, row'[p], work'[p], ledger[p])
             /\ AcceptedRow(row[p]) => /\ AcceptedRow(row'[p]) /\ row'[p].leaf = row[p].leaf
                                       /\ row[p].status # "failed" => row'[p].status # "failed"
  <2>1. /\ row[p] \in RowState /\ work[p] \in Works /\ OpInv(p, row[p], work[p], ledger[p])
        /\ RowInv(p, row[p], work[p], ledger[p])
    BY Typed DEF IInv, OpInv
  <2>2. CASE p \in cut
    <3>1. row'[p] = Requeued(row[p]) /\ work'[p] = "idle" /\ row[p].status = "running"
      BY <1>0, <2>1, <2>2 DEF RowInv
    <3>2. QED
      BY <2>1, <3>1, RequeueTyped, RequeueKeeps DEF Works
  <2>3. CASE p \notin cut
    <3>1. row'[p] = row[p] /\ work'[p] = work[p]
      BY <1>0, <2>3
    <3>2. QED
      BY <2>1, <3>1
  <2>4. QED
    BY <2>2, <2>3
<1>2. row' \in [Ops -> RowState] /\ work' \in [Ops -> Works]
  BY <1>0, <1>1
<1>3. faults' \in 0..MaxFaults
  BY FaultTyped DEF AgentdCrash
<1>4. run' = NoRun /\ conv' = "none" /\ UNCHANGED <<post, ledger, cli, leaf, compacted, kids>>
  BY DEF AgentdCrash
<1> QED
  BY <1>1, <1>2, <1>3, <1>4, CrashStep

\* A crash of the forum.
LEMMA ForumCrashKeeps ==
  ASSUME IInv, ForumCrash
  PROVE  IInv'
<1>1. ASSUME NEW p \in Ops
      PROVE  /\ row'[p] \in RowState /\ work'[p] \in Works
             /\ OpInv(p, row'[p], work'[p], ledger[p])
             /\ AcceptedRow(row[p]) => /\ AcceptedRow(row'[p]) /\ row'[p].leaf = row[p].leaf
                                       /\ row[p].status # "failed" => row'[p].status # "failed"
  <2>1. /\ row[p] \in RowState /\ work[p] \in Works /\ OpInv(p, row[p], work[p], ledger[p])
        /\ RowInv(p, row[p], work[p], ledger[p])
    BY Typed DEF IInv, OpInv
  <2>2. CASE row[p].status = "staging"
    <3>1. row'[p] = NoRow /\ work'[p] = "idle" /\ ~AcceptedRow(row[p])
      BY <2>2 DEF ForumCrash, AcceptedRow
    <3>2. /\ ledger[p].st = "none" /\ ledger[p].child = 0 /\ ~Fencing(ledger[p])
          /\ RecordInv(p, row[p], ledger[p])
      BY <3>1, NotAccepted
    <3>3. /\ NoRow \in RowState /\ NoRow.status = "absent" /\ NoRow.child = 0 /\ NoRow.dispatch = "none"
      BY BranchConstants DEF NoRow, RowState
    <3>4. OpInv(p, NoRow, "idle", ledger[p])
      BY <3>2, <3>3 DEF OpInv, RowInv, RecordInv
    <3>5. QED
      BY <3>1, <3>3, <3>4 DEF Works
  <2>3. CASE row[p].status = "running"
    <3>1. row'[p] = Requeued(row[p]) /\ work'[p] = "idle"
      BY <2>3 DEF ForumCrash
    <3>2. QED
      BY <2>1, <2>3, <3>1, RequeueTyped, RequeueKeeps DEF Works
  <2>4. CASE row[p].status \notin {"staging", "running"}
    <3>1. row'[p] = row[p] /\ work'[p] = "idle" /\ work[p] = "idle"
      BY <2>1, <2>4 DEF ForumCrash, RowInv
    <3>2. QED
      BY <2>1, <3>1
  <2>5. QED
    BY <2>2, <2>3, <2>4
<1>2. row' \in [Ops -> RowState] /\ work' \in [Ops -> Works]
  BY <1>1 DEF ForumCrash
<1>3. faults' \in 0..MaxFaults
  BY FaultTyped DEF ForumCrash
<1>4. /\ run' = NoRun \/ (run # NoRun /\ run' = [run EXCEPT !.heard = FALSE])
      /\ UNCHANGED <<post, ledger, conv, cli, leaf, compacted, kids>>
  BY DEF ForumCrash, Unheard, source
<1> QED
  BY <1>1, <1>2, <1>3, <1>4, CrashStep

-----------------------------------------------------------------------------
(* The theorems. *)

\* The invariant holds at first.
LEMMA InitIInv == Init => IInv
<1> SUFFICES ASSUME Init PROVE IInv
  OBVIOUS
<1>1. TypeOK
  <2>1. NoRow \in RowState /\ NoRecord \in Records /\ <<>> \in Seq(Sessions)
    BY BranchConstants, EmptySeq DEF NoRow, RowState, NoRecord, Records
  <2>2. leaf \in 0..MaxLeaf /\ faults \in 0..MaxFaults
    BY BranchConstants DEF Init
  <2>3. QED
    BY <2>1, <2>2 DEF Init, TypeOK
<1>2. ASSUME NEW o \in Ops PROVE OpInv(o, row[o], work[o], ledger[o])
  <2>1. row[o] = NoRow /\ work[o] = "idle" /\ ledger[o] = NoRecord
    BY DEF Init
  <2>2. QED
    BY <2>1 DEF OpInv, RowInv, RecordInv, NoRow, NoRecord, Fencing, AcceptedRow
<1>3. Len(kids) = 0 /\ \A i : i \notin 1..Len(kids)
  BY EmptySeq DEF Init
<1>4. KidsInv
  BY <1>3 DEF KidsInv, OneChildPerOperation
<1>5. SourceInv /\ CompactedInv
  BY DEF Init, SourceInv, CompactedInv, NoRun
<1> QED
  BY <1>1, <1>2, <1>4, <1>5 DEF IInv, Init

\* Every step keeps it.
LEMMA NextIInv == IInv /\ [Next]_vars => IInv'
<1> SUFFICES ASSUME IInv, [Next]_vars PROVE IInv'
  OBVIOUS
<1>1. ASSUME NEW o \in Ops, ForumStep(o) PROVE IInv'
  <2>1. CASE Stage(o) \/ Insert(o) \/ Reject(o) \/ EnqueueCompaction(o)
    BY <2>1, AcceptKeeps
  <2>2. CASE Claim(o) \/ MoveFiles(o) \/ MovePaths(o) \/ Complete(o) \/ SendOpening(o)
    BY <2>2, WorkerKeeps
  <2>3. CASE Ack(o)
    BY <2>3, AckKeeps
  <2>4. CASE AckLost(o)
    BY <2>4, AckLostKeeps
  <2>5. CASE DispatchCheckpoint(o)
    BY <2>5, DispatchCheckpointKeeps
  <2>6. CASE AnswerLost(o)
    BY <2>6, AnswerLostKeeps
  <2>7. QED
    BY <1>1, <2>1, <2>2, <2>3, <2>4, <2>5, <2>6 DEF ForumStep
<1>3. ASSUME NEW o \in Ops, RequestStep(o) PROVE IInv'
  BY <1>3, OpenKeeps, ServeAnswerKeeps, ServeStartKeeps DEF RequestStep
<1>4. CASE RunStep
  BY <1>4, RunAdoptKeeps, RunCreateKeeps, RunReuseKeeps, RunMarkKeeps, RunRecordKeeps, RunCompleteKeeps,
     RunFailsKeeps, RunFailsUnrecordedKeeps, RunCompactKeeps DEF RunStep
<1>5. CASE \/ Post \/ DispatchPost \/ TurnEnds \/ CloseConversation
           \/ CliClaims \/ CliWrites \/ CliReleases
  BY <1>5, WritersKeep
<1>6. CASE AgentdCrash
  BY <1>6, AgentdCrashKeeps
<1>7. CASE ForumCrash
  BY <1>7, ForumCrashKeeps
<1>8. CASE UNCHANGED vars
  <2>1. /\ post \in BOOLEAN /\ conv \in {"none", "idle", "turn"} /\ cli \in BOOLEAN /\ leaf \in 0..MaxLeaf
        /\ row \in [Ops -> RowState] /\ (cli => conv = "none" /\ run = NoRun /\ ~AgentFenced)
    BY DEF IInv, TypeOK, SourceInv
  <2>2. QED
    BY <1>8, <2>1, QuietStep DEF vars
<1> QED
  BY <1>1, <1>3, <1>4, <1>5, <1>6, <1>7, <1>8 DEF Next

\* The inductive invariant holds in every reachable state, for any operations and
\* any number of faults.
THEOREM Inductive == Spec => []IInv
  BY InitIInv, NextIInv, PTL DEF Spec

\* The rows, the ledger, the run and the child sessions keep their shape.
THEOREM TypeCorrect == Spec => []TypeOK
<1>1. IInv => TypeOK
  BY DEF IInv
<1> QED
  BY <1>1, Inductive, PTL

\* No fork or clone, however it is retried after crashes of either process and
\* lost answers, leaves a second child session on disk.
THEOREM OneChild == Spec => []OneChildPerOperation
<1>1. IInv => OneChildPerOperation
  BY Implies
<1> QED
  BY <1>1, Inductive, PTL

\* A child topic stands on the entry its operation was accepted for and on the
\* session that agentd recorded as complete.
THEOREM ChildAccepted == Spec => []ChildIsTheAccepted
<1>1. IInv => ChildIsTheAccepted
  BY Implies
<1> QED
  BY <1>1, Inductive, PTL

\* No opening goes into a child, and no branch operation succeeds, before agentd
\* has the acknowledgement and the files are in place.
THEOREM Quarantined == Spec => []QuarantinedUntilAcknowledged
<1>1. IInv => QuarantinedUntilAcknowledged
  BY Implies
<1> QED
  BY <1>1, Inductive, PTL

\* A compaction happens at most once, and is reported only when it is there.
THEOREM CompactsOnce == Spec => []CompactedOnce
<1>1. IInv => CompactedOnce
  BY Implies
<1> QED
  BY <1>1, Inductive, PTL

\* An answer that is not definitive makes no fork fail.
LEMMA AnswerFails ==
  ASSUME IInv, NEW p \in Ops, work[p] \in Waits, NEW answer, answer # "definitive", NEW c \in Nat,
         Answer(p, answer, c), NEW o \in Forks, row'[o].status = "failed"
  PROVE  row[o].status = "failed" /\ o # p
<1>1. o \in Ops /\ row \in [Ops -> RowState] /\ row' = [row EXCEPT ![p] = AnswerRow(p, answer, c)]
  BY DEF Ops, Branches, IInv, TypeOK, Answer, AnswerRow
<1>2. row[p].status = "running" /\ (o = p => p \notin Compactions)
  BY <1>1, OpFacts, BranchConstants DEF RowInv, Waits, Branches
<1>3. o = p => row'[o].status # "failed"
  BY <1>1, <1>2, AnswerRowTyped
<1> QED
  BY <1>1, <1>3

\* Nor does the end of a run, which changes the record of its own operation only.
LEMMA EndsFails ==
  ASSUME IInv, run # NoRun, NEW answer \in {"done", "manual", "retry"}, NEW c \in Nat,
         Ends(answer, c), NEW o \in Forks, row'[o].status = "failed"
  PROVE  row[o].status = "failed" /\ o # run.op
<1>1. run.op \in Ops /\ RunInv(run, row[run.op], work[run.op], ledger[run.op])
  BY RunTyped DEF IInv
<1>2. row[run.op].status # "failed"
  BY <1>1 DEF RunInv
<1>3. CASE run.heard
  <2>1. work[run.op] \in Waits /\ Answer(run.op, answer, c)
    BY <1>1, <1>3 DEF Ends, RunInv, Waits
  <2>2. QED
    BY <1>1, <2>1, AnswerFails
<1>4. CASE ~run.heard
  BY <1>2, <1>4 DEF Ends
<1> QED
  BY <1>3, <1>4

\* A row that has failed keeps its record, and only a refused open or an answer
\* makes one fail.
LEMMA FailingStep ==
  ASSUME IInv, Next, NEW o \in Forks, row'[o].status = "failed"
  PROVE  \/ row[o].status = "failed" /\ ledger'[o] = ledger[o]
         \/ OpenFails(o) /\ OpenRefused(o) = "definitive"
         \/ ServeAnswer(o) /\ Verdict(o) = "definitive"
<1> DEFINE Kept == row[o].status = "failed" /\ ledger'[o] = ledger[o]
<1>0. /\ o \in Ops /\ row \in [Ops -> RowState] /\ ledger \in [Ops -> Records]
      /\ row[o] \in RowState /\ (work[o] # "idle" => row[o].status # "failed")
      /\ (run # NoRun => run.op \in Ops /\ row[run.op].status # "failed" /\ run.child \in Nat)
  <2>1. o \in Ops
    BY DEF Ops, Branches
  <2>2. run # NoRun => run.op \in Ops /\ row[run.op].status # "failed" /\ run.child \in Nat
    BY RunTyped DEF IInv, RunInv, Runs
  <2>3. QED
    BY <2>1, <2>2, OpFacts DEF IInv, TypeOK, RowInv
<1>1. ASSUME NEW p \in Ops, ForumStep(p) PROVE Kept
  <2>1. CASE Stage(p) \/ Insert(p) \/ Reject(p) \/ EnqueueCompaction(p)
    BY <1>0, <2>1 DEF Stage, Insert, Reject, EnqueueCompaction, NoRow, RowState
  <2>2. CASE Claim(p) \/ MoveFiles(p) \/ MovePaths(p) \/ Complete(p) \/ SendOpening(p) \/ DispatchCheckpoint(p)
    BY <1>0, <2>2 DEF Claim, MoveFiles, MovePaths, Complete, SendOpening, DispatchCheckpoint, RowState
  <2>3. CASE Ack(p)
    BY <1>0, <2>3 DEF Ack, Acknowledged
  <2>4. CASE AckLost(p) \/ AnswerLost(p)
    BY <1>0, <2>4 DEF AckLost, AnswerLost, Acknowledged, Requeued, RowState
  <2>5. QED
    BY <1>1, <2>1, <2>2, <2>3, <2>4 DEF ForumStep
<1>2. ASSUME NEW p \in Ops, RequestStep(p)
      PROVE  Kept \/ (OpenFails(o) /\ OpenRefused(o) = "definitive") \/ (ServeAnswer(o) /\ Verdict(o) = "definitive")
  <2>1. CASE Open(p) \/ ServeStart(p)
    BY <1>0, <2>1 DEF Open, ServeStart, Serving, forum
  <2>2. CASE OpenFails(p)
    <3>1. p # o => row'[o] = row[o]
      BY <1>0, <2>2 DEF OpenFails, Answer
    <3>2. p = o /\ OpenRefused(p) # "definitive" => Kept
      <4> SUFFICES ASSUME p = o, OpenRefused(p) # "definitive" PROVE FALSE
        OBVIOUS
      <4>1. PICK a : a = OpenRefused(p)
        OBVIOUS
      <4>2. Answer(p, a, 0) /\ work[p] \in Waits /\ a # "definitive"
        BY <2>2, <4>1 DEF OpenFails, Waits
      <4>3. QED
        BY <4>2, AnswerFails
    <3>3. ledger' = ledger
      BY <2>2 DEF OpenFails
    <3>4. QED
      BY <2>2, <3>1, <3>2, <3>3
  <2>3. CASE ServeAnswer(p)
    <3>1. p # o => row'[o] = row[o] /\ ledger'[o] = ledger[o]
      BY <1>0, <2>3 DEF ServeAnswer, Answer
    <3>2. p = o => Verdict(p) = "definitive"
      <4> SUFFICES ASSUME p = o, Verdict(p) # "definitive" PROVE FALSE
        OBVIOUS
      <4>1. PICK a : a = Verdict(p)
        OBVIOUS
      <4>2. Answer(p, a, ledger[p].child) /\ work[p] \in Waits /\ a # "definitive" /\ ledger[p].child \in Nat
        BY <2>3, <4>1, Typed DEF ServeAnswer, Serving, Waits, IInv
      <4>3. QED
        BY <4>2, AnswerFails
    <3>3. QED
      BY <2>3, <3>1, <3>2
  <2>4. QED
    BY <1>2, <2>1, <2>2, <2>3 DEF RequestStep
<1>3. CASE RunStep
  <2>1. run # NoRun
    BY <1>3 DEF RunStep, RunAdopt, RunCreate, RunReuse, RunMark, RunRecord, RunComplete, RunFails,
       RunFailsUnrecorded, RunCompact
  <2>2. CASE UNCHANGED row
    <3>1. o # run.op
      BY <1>0, <2>1, <2>2
    <3>2. ledger'[o] = ledger[o]
      BY <1>0, <1>3, <3>1 DEF RunStep, RunAdopt, RunCreate, RunReuse, RunMark, RunRecord, RunComplete, RunFails,
         RunFailsUnrecorded, RunCompact
    <3>3. QED
      BY <2>2, <3>2
  <2>3. CASE row' # row
    <3>1. \E answer \in {"done", "manual", "retry"}, c \in Nat : Ends(answer, c)
      BY <1>0, <1>3, <2>1, <2>3 DEF RunStep, RunAdopt, RunCreate, RunReuse, RunMark, RunRecord, RunComplete,
         RunFails, RunFailsUnrecorded, RunCompact, forum
    <3>2. row[o].status = "failed" /\ o # run.op
      BY <2>1, <3>1, EndsFails
    <3>3. ledger'[o] = ledger[o]
      BY <1>0, <1>3, <3>2 DEF RunStep, RunAdopt, RunCreate, RunReuse, RunMark, RunRecord, RunComplete, RunFails,
         RunFailsUnrecorded, RunCompact
    <3>4. QED
      BY <3>2, <3>3
  <2>4. QED
    BY <2>2, <2>3
<1>4. CASE Post \/ DispatchPost \/ TurnEnds \/ CloseConversation \/ CliClaims \/ CliWrites \/ CliReleases
  BY <1>4 DEF Post, DispatchPost, TurnEnds, CloseConversation, CliClaims, CliWrites, CliReleases, forum
<1>5. CASE AgentdCrash \/ ForumCrash
  <2>1. ledger' = ledger /\ row'[o] \in {row[o], Requeued(row[o]), NoRow}
    BY <1>0, <1>5 DEF AgentdCrash, ForumCrash
  <2>2. Requeued(row[o]).status # "failed" /\ NoRow.status # "failed"
    BY <1>0, RequeueTyped DEF NoRow
  <2>3. QED
    BY <2>1, <2>2
<1> QED
  BY <1>1, <1>2, <1>3, <1>4, <1>5 DEF Next

\* A fork that the forum calls failed holds no fence at agentd, unless the source's
\* conversation went away between the worker's two requests.
THEOREM FailedForkIsFree == Spec => FailedForkLeavesNoFence
<1>1. ASSUME IInv, Next, NEW o \in Forks, row'[o].status = "failed", Fences(o)'
      PROVE  (row[o].status = "failed" /\ Fences(o)) \/ (work[o] = "opened" /\ conv = "none")
  <2>1. Fencing(ledger'[o]) /\ o \in Branches /\ o \in Ops
    BY <1>1 DEF Fences, Fencing, Branches, Ops
  <2>2. CASE row[o].status = "failed" /\ ledger'[o] = ledger[o]
    BY <2>1, <2>2, FencesFencing
  <2>3. CASE OpenFails(o) /\ OpenRefused(o) = "definitive"
    <3>1. ~AgentFenced /\ ledger' = ledger
      BY <2>3 DEF OpenFails, OpenRefused
    <3>2. QED
      BY <2>1, <3>1, FencedBy
  <2>4. CASE ServeAnswer(o) /\ Verdict(o) = "definitive"
    <3>1. ledger' = ledger /\ work[o] = "opened"
      BY <2>4 DEF ServeAnswer, Serving
    <3>2. conv = "none" \/ ~Fencing(ledger[o])
      BY <1>1, <2>1, <2>4, VerdictOfBranch
    <3>3. QED
      BY <2>1, <3>1, <3>2
  <2>5. QED
    BY <1>1, <2>2, <2>3, <2>4, FailingStep
<1>2. IInv /\ [Next]_vars =>
        [\A o \in Forks : row'[o].status = "failed" /\ Fences(o)'
            => \/ row[o].status = "failed" /\ Fences(o)
               \/ work[o] = "opened" /\ conv = "none"]_vars
  BY <1>1
<1> QED
  BY <1>2, Inductive, PTL DEF Spec, FailedForkLeavesNoFence

\* While agentd's ledger holds the source, no step writes an entry to it: not a
\* prompt, not a checkpoint, not a compaction, not a Pi process.
THEOREM SourceIsStill == Spec => FencedSourceIsStill
<1>1. IInv /\ [Next]_vars => [(\E o \in Branches : Fences(o)) => leaf' = leaf]_vars
  <2> SUFFICES ASSUME IInv, Next, AgentFenced
               PROVE  leaf' = leaf
    BY DEF AgentFenced
  <2>1. ~cli /\ run.at # "compacting"
    BY DEF IInv, SourceInv
  <2>2. ~RunCompact /\ ~DispatchPost /\ ~CliWrites /\ \A o \in Ops : ~DispatchCheckpoint(o)
    BY <2>1 DEF RunCompact, DispatchPost, DispatchCheckpoint, Prompted, CliWrites
  <2>3. ASSUME NEW o \in Ops, ForumStep(o) PROVE leaf' = leaf
    BY <2>2, <2>3 DEF ForumStep, Stage, Insert, Reject, EnqueueCompaction, Claim, MoveFiles, MovePaths, Ack,
       AckLost, Complete, SendOpening, AnswerLost, source
  <2>4. ASSUME NEW o \in Ops, RequestStep(o) PROVE leaf' = leaf
    BY <2>4 DEF RequestStep, Open, OpenFails, ServeAnswer, ServeStart, source
  <2>5. CASE RunStep
    BY <2>2, <2>5 DEF RunStep, RunAdopt, RunCreate, RunReuse, RunMark, RunRecord, RunComplete, RunFails,
       RunFailsUnrecorded, source
  <2>6. CASE Post \/ TurnEnds \/ CloseConversation \/ CliClaims \/ CliReleases \/ AgentdCrash \/ ForumCrash
    BY <2>6 DEF Post, TurnEnds, CloseConversation, CliClaims, CliReleases, AgentdCrash, ForumCrash, source
  <2>7. QED
    BY <2>2, <2>3, <2>4, <2>5, <2>6 DEF Next
<1> QED
  BY <1>1, Inductive, PTL DEF Spec, FencedSourceIsStill
=============================================================================
