------------------------- MODULE SubagentStopProofs -------------------------
(***************************************************************************)
(* Proofs about SubagentStop, for any tree of subagent runs, any number of *)
(* turns of the parent and any number of faults.                           *)
(***************************************************************************)
EXTENDS SubagentStop, TLAPS

(* The inductive invariant.                                                *)

\* The runs that exist, that are inactive for good, that have a result, that are
\* marked, that are alive; those that a run of K launches.
Existing == {r \in Runs : stage[r] # "absent"}
Dead == {r \in Runs : Classify(r) = "inactive"}
Finished == {r \in Runs : result[r]}
Marked == {r \in Runs : marked[r]}
Alive == {r \in Runs : alive[r]}
Kids(K) == {r \in Runs : Launcher[r] \in K}

\* What a proven stop says of the runs K that the operation began with, where the
\* runs of D are dead, those of R have results, those of M are marked and those of
\* V are alive.
Proven(K, D, R, M, V) == K \subseteq D /\ K \cap R \subseteq M /\ Kids(K) \cap V = {}

\* What an attempt has found out, by where it is.  X are the runs that exist.  A
\* run that was read inactive is dead and its result, if any, was seen; the
\* confirming scan begins when all of K are dead and their results are marked, and
\* lists all that they launched.
Found(a, D, R) == \A r \in Runs : a.found[r] = "inactive" => r \in D /\ (r \in R => r \in a.pending)
Settled(a, K, D, R, M) == K \subseteq D /\ (a.errors \/ K \cap R \subseteq M)
AttemptInv(a, K, D, R, M, X, V) ==
    /\ a \in Attempt /\ a.pending \cup a.todo \cup ReadRuns(a) \subseteq a.listed
    /\ a.seen \subseteq M
    /\ a.at = "idle" => ~a.abort
    /\ a.at # "mark" => a.todo = {}
    /\ a.at \in {"list", "confirm"} => ReadRuns(a) = {} /\ a.pending = {}
    /\ Found(a, D, R)
    /\ a.at \in {"scan", "mark", "rescan"} => K \subseteq a.listed
    /\ a.at = "mark" => ReadRuns(a) = a.listed /\ (a.errors \/ Blocking(a) \cup a.pending \subseteq a.todo \cup a.seen)
    /\ a.at \in {"confirm", "rescan"} => Settled(a, K, D, R, M)
    /\ a.at = "rescan" => Kids(K) \cap X \subseteq a.listed
    /\ a.at = "finish" /\ ~a.errors /\ Blocking(a) = {} => Proven(K, D, R, M, V)

\* A live runner was started, in this container; an earlier one left its files.
RunsInv ==
    \A r \in Runs : /\ alive[r] => stage[r] \in {"running", "final"} /\ ~prior[r]
                    /\ prior[r] => stage[r] # "absent"

\* The operation's record is written before anything else, its targets are marked
\* and the runs it began with exist.
OpInv ==
    /\ op.state = "none" => attempt.at = "idle" /\ answer = "none" /\ request = "none"
    /\ op.targets \subseteq Marked
    /\ op.state # "none" => known.runs \subseteq Existing
    /\ known.turn <= turn

\* The turn that was stopped is over, or an abort that timed out is on record, or
\* the attempt that holds the mutex knows of it.
TurnOver == parent # "busy" \/ turn # known.turn \/ known.lost
AbortInv == op.state # "none" => TurnOver \/ op.abort \/ attempt.abort

AnswerInv == answer = "stopped" => TurnOver /\ Proven(known.runs, Dead, Finished, Marked, Alive)

IInv ==
    /\ TypeOK /\ RunsInv /\ OpInv /\ AbortInv /\ AnswerInv
    /\ AttemptInv(attempt, known.runs, Dead, Finished, Marked, Existing, Alive)

-----------------------------------------------------------------------------
(* Attempts.                                                               *)

\* The parts of an attempt.
LEMMA AttemptFields ==
    ASSUME NEW a \in Attempt
    PROVE  /\ a.listed \subseteq Runs /\ a.pending \subseteq Runs /\ a.seen \subseteq Runs /\ a.todo \subseteq Runs
           /\ a.found \in [Runs -> {"unread", "active", "uncertain", "inactive"}]
           /\ a.errors \in BOOLEAN /\ a.abort \in BOOLEAN
           /\ \A r \in Runs : r \in ReadRuns(a) => r \in Blocking(a) \/ a.found[r] = "inactive"
           /\ Blocking(a) \subseteq ReadRuns(a)
BY DEF Attempt, ReadRuns, Blocking

\* An attempt that goes to another step and forgets what it found.
LEMMA GotoFields ==
    ASSUME NEW a \in Attempt, NEW step \in {"idle", "list", "scan", "mark", "confirm", "rescan", "finish"}
    PROVE  LET b == Goto(a, step)
           IN  /\ b \in Attempt /\ b.at = step /\ b.listed = {} /\ b.pending = {} /\ ReadRuns(b) = {} /\ Blocking(b) = {}
               /\ b.seen = a.seen /\ b.todo = a.todo /\ b.errors = a.errors /\ b.abort = a.abort
               /\ \A r \in Runs : b.found[r] = "unread"
<1> DEFINE b == Goto(a, step)
<1>1. NoAttempt.found = [r \in Runs |-> "unread"]
  BY DEF NoAttempt
<1>2. b \in Attempt /\ b.at = step /\ b.listed = {} /\ b.pending = {} /\ b.found = [r \in Runs |-> "unread"]
      /\ b.seen = a.seen /\ b.todo = a.todo /\ b.errors = a.errors /\ b.abort = a.abort
  BY <1>1 DEF Goto, Attempt
<1>3. \A r \in Runs : b.found[r] = "unread"
  BY <1>2
<1> HIDE DEF b
<1>4. ReadRuns(b) = {} /\ Blocking(b) = {}
  BY <1>3 DEF ReadRuns, Blocking
<1> QED BY <1>2, <1>3, <1>4 DEF b

\* An attempt that goes to another step and keeps what it found.
LEMMA AtFields ==
    ASSUME NEW a \in Attempt, NEW step \in {"idle", "list", "scan", "mark", "confirm", "rescan", "finish"}
    PROVE  LET b == [a EXCEPT !.at = step]
           IN  /\ b \in Attempt /\ b.at = step /\ b.listed = a.listed /\ b.pending = a.pending /\ b.found = a.found
               /\ ReadRuns(b) = ReadRuns(a) /\ Blocking(b) = Blocking(a)
               /\ b.seen = a.seen /\ b.todo = a.todo /\ b.errors = a.errors /\ b.abort = a.abort
<1> DEFINE b == [a EXCEPT !.at = step]
<1>1. b \in Attempt /\ b.at = step /\ b.listed = a.listed /\ b.pending = a.pending /\ b.found = a.found
      /\ b.seen = a.seen /\ b.todo = a.todo /\ b.errors = a.errors /\ b.abort = a.abort
  BY DEF Attempt
<1> HIDE DEF b
<1>2. ReadRuns(b) = ReadRuns(a) /\ Blocking(b) = Blocking(a)
  BY <1>1 DEF ReadRuns, Blocking
<1> QED BY <1>1, <1>2 DEF b

\* A pass that is repeated starts clean; one that ends in something blocking says
\* nothing.
LEMMA AgainInv ==
    ASSUME NEW K, NEW D, NEW R, NEW M, NEW X, NEW V, NEW a \in Attempt, a.todo = {}, a.seen \subseteq M,
           a.pending \cup ReadRuns(a) \subseteq a.listed, Found(a, D, R), NEW b \in Again(a),
           Blocking(a) # {} \/ a.errors \/ Proven(K, D, R, M, V)
    PROVE  AttemptInv(b, K, D, R, M, X, V)
<1>1. CASE b = Goto(a, "list")
  BY <1>1, GotoFields DEF AttemptInv, Found
<1>2. CASE b = [a EXCEPT !.at = "finish"]
  <2>1. /\ b \in Attempt /\ b.at = "finish" /\ b.listed = a.listed /\ b.pending = a.pending /\ b.found = a.found
        /\ ReadRuns(b) = ReadRuns(a) /\ Blocking(b) = Blocking(a)
        /\ b.seen = a.seen /\ b.todo = a.todo /\ b.errors = a.errors /\ b.abort = a.abort
    BY <1>2, AtFields
  <2>2. Found(b, D, R)
    BY <2>1 DEF Found
  <2> QED BY <2>1, <2>2 DEF AttemptInv
<1> QED BY <1>1, <1>2 DEF Again

\* After a scan whose runs are all marked: the confirming scan begins if none of
\* them was found blocking.
LEMMA AfterMarkingInv ==
    ASSUME NEW K, NEW D, NEW R, NEW M, NEW X, NEW V, NEW a \in Attempt, a.todo = {}, a.seen \subseteq M,
           a.pending \cup ReadRuns(a) \subseteq a.listed, Found(a, D, R), NEW b \in AfterMarking(a),
           K \subseteq a.listed, ReadRuns(a) = a.listed, a.errors \/ a.pending \subseteq a.seen
    PROVE  AttemptInv(b, K, D, R, M, X, V)
<1>1. CASE Blocking(a) = {} /\ b = Goto(a, "confirm")
  <2>1. \A r \in K : a.found[r] = "inactive"
    BY <1>1, AttemptFields
  <2>2. K \subseteq D /\ (a.errors \/ K \cap R \subseteq M)
    BY <2>1, AttemptFields DEF Found
  <2> QED BY <1>1, <2>2, GotoFields DEF AttemptInv, Found, Settled
<1>2. CASE Blocking(a) # {} /\ b \in Again(a)
  BY <1>2, AgainInv
<1> QED BY <1>1, <1>2 DEF AfterMarking

\* After a scan: what blocks or has a result is marked first.
LEMMA AfterScanInv ==
    ASSUME NEW K, NEW D, NEW R, NEW M, NEW X, NEW V, NEW a \in Attempt, a.todo = {}, a.seen \subseteq M,
           a.pending \cup ReadRuns(a) \subseteq a.listed, Found(a, D, R), NEW b \in AfterScan(a),
           K \subseteq a.listed, ReadRuns(a) = a.listed
    PROVE  AttemptInv(b, K, D, R, M, X, V)
<1> DEFINE todo == Blocking(a) \cup a.pending
           c == [a EXCEPT !.at = "mark", !.todo = todo]
<1>1. CASE todo = {} /\ b \in AfterMarking(a)
  <2>1. a.pending \subseteq a.seen
    BY <1>1
  <2> QED BY <1>1, <2>1, AfterMarkingInv
<1>2. CASE b = c
  <2>1. todo \subseteq Runs /\ todo \subseteq a.listed
    BY AttemptFields
  <2> HIDE DEF todo
  <2>2. c \in Attempt /\ c.at = "mark" /\ c.listed = a.listed /\ c.pending = a.pending /\ c.found = a.found
        /\ c.seen = a.seen /\ c.todo = todo /\ c.errors = a.errors
    BY <2>1 DEF Attempt
  <2> HIDE DEF c
  <2>3. ReadRuns(c) = ReadRuns(a) /\ Blocking(c) = Blocking(a)
    BY <2>2 DEF ReadRuns, Blocking
  <2> QED BY <1>2, <2>1, <2>2, <2>3 DEF AttemptInv, Found, todo
<1> QED BY <1>1, <1>2 DEF AfterScan

\* After a confirming scan that found nothing, the stop is proven: what the runs
\* launched was listed too.
LEMMA AfterConfirmingInv ==
    ASSUME NEW K, NEW D, NEW R, NEW M, NEW X, NEW V, NEW a \in Attempt, a.todo = {}, a.seen \subseteq M,
           a.pending \cup ReadRuns(a) \subseteq a.listed, Found(a, D, R), NEW b \in AfterConfirming(a),
           ReadRuns(a) = a.listed, Settled(a, K, D, R, M), Kids(K) \cap X \subseteq a.listed,
           V \subseteq X, V \cap D = {}
    PROVE  AttemptInv(b, K, D, R, M, X, V)
<1>1. Blocking(a) # {} \/ a.errors \/ Proven(K, D, R, M, V)
  <2> SUFFICES ASSUME Blocking(a) = {}, ~a.errors PROVE Proven(K, D, R, M, V)
    OBVIOUS
  <2>1. \A r \in Kids(K) \cap X : r \in D
    BY AttemptFields DEF Found, Kids
  <2> QED BY <2>1 DEF Proven, Settled
<1>2. CASE b = [a EXCEPT !.at = "finish"]
  BY <1>1, <1>2, AgainInv DEF Again
<1>3. CASE b \in Again(a)
  BY <1>1, <1>3, AgainInv
<1> QED BY <1>2, <1>3 DEF AfterConfirming

\* A scan under way goes on, or is looked at when the last run is read.
LEMMA ScannedInv ==
    ASSUME NEW K, NEW D, NEW R, NEW M, NEW X, NEW V, NEW a, NEW b \in Scanned(a), a.at \in {"scan", "rescan"},
           AttemptInv(a, K, D, R, M, X, V), V \subseteq X, V \cap D = {}
    PROVE  AttemptInv(b, K, D, R, M, X, V)
<1>1. /\ a \in Attempt /\ a.todo = {} /\ a.seen \subseteq M /\ a.pending \cup ReadRuns(a) \subseteq a.listed
      /\ Found(a, D, R) /\ K \subseteq a.listed
  BY DEF AttemptInv
<1>2. CASE b = a
  BY <1>2
<1>3. CASE a.listed = ReadRuns(a) /\ a.at = "scan" /\ b \in AfterScan(a)
  BY <1>1, <1>3, AfterScanInv
<1>4. CASE a.listed = ReadRuns(a) /\ a.at = "rescan" /\ b \in AfterConfirming(a)
  <2>1. Settled(a, K, D, R, M) /\ Kids(K) \cap X \subseteq a.listed
    BY <1>4 DEF AttemptInv
  <2> QED BY <1>1, <1>4, <2>1, AfterConfirmingInv
<1> QED BY <1>2, <1>3, <1>4 DEF Scanned

-----------------------------------------------------------------------------
(* Steps outside the attempt.                                              *)

\* What the world around an attempt may do: the dead stay dead and get no result,
\* markers stay, runs stay on disk, and only a launcher that acts brings a run to
\* disk or to life.
World ==
    /\ Dead \subseteq Dead' /\ Finished' \cap Dead \subseteq Finished /\ Marked \subseteq Marked'
    /\ Existing \subseteq Existing'
    /\ \A r \in Runs : (r \in Existing' \ Existing) \/ (r \in Alive' \ Alive) => LauncherActs(r)

\* The living exist and are not dead.
LEMMA Living == ASSUME TypeOK, RunsInv PROVE Alive \subseteq Existing /\ Alive \cap Dead = {}
BY DEF TypeOK, Stages, RunsInv, Alive, Existing, Dead, Classify, PidKnown

\* The dead launch nothing.
LEMMA DeadLaunchNothing ==
    ASSUME TypeOK, RunsInv, known.runs \subseteq Dead, NEW r \in Kids(known.runs)
    PROVE  ~LauncherActs(r)
<1>1. Launcher[r] \in known.runs /\ known.runs \subseteq Runs /\ Launcher[r] # Parent
  BY StopConstants DEF Kids, TypeOK
<1>2. Launcher[r] \notin Alive
  BY <1>1, Living
<1> QED BY <1>1, <1>2 DEF LauncherActs, Alive

\* What a stop has proven stays so.
LEMMA ProvenKept ==
    ASSUME TypeOK, RunsInv, World, Proven(known.runs, Dead, Finished, Marked, Alive)
    PROVE  Proven(known.runs, Dead', Finished', Marked', Alive')
<1>1. \A r \in Kids(known.runs) : ~LauncherActs(r)
  BY DeadLaunchNothing DEF Proven
<1>2. known.runs \subseteq Dead' /\ known.runs \cap Finished' \subseteq Marked'
  BY DEF Proven, World
<1>3. Kids(known.runs) \cap Alive' = {}
  BY <1>1 DEF Proven, World, Kids
<1> QED BY <1>2, <1>3 DEF Proven

\* What an attempt has found out stays so.
LEMMA AttemptKept ==
    ASSUME TypeOK, RunsInv, World, NEW a,
           AttemptInv(a, known.runs, Dead, Finished, Marked, Existing, Alive)
    PROVE  AttemptInv(a, known.runs, Dead', Finished', Marked', Existing', Alive')
<1>1. a.at \in {"confirm", "rescan"} => Settled(a, known.runs, Dead', Finished', Marked')
  BY DEF AttemptInv, World, Settled
<1>2. a.at = "rescan" => Kids(known.runs) \cap Existing' \subseteq a.listed
  <2> SUFFICES ASSUME a.at = "rescan", NEW r \in Kids(known.runs) \cap Existing' PROVE r \in a.listed
    OBVIOUS
  <2>1. known.runs \subseteq Dead /\ Kids(known.runs) \cap Existing \subseteq a.listed
    BY DEF AttemptInv, Settled
  <2>2. ~LauncherActs(r)
    BY <2>1, DeadLaunchNothing
  <2>3. r \in Existing
    BY <2>2 DEF World, Kids
  <2> QED BY <2>1, <2>3
<1>3. a.at = "finish" /\ ~a.errors /\ Blocking(a) = {} => Proven(known.runs, Dead', Finished', Marked', Alive')
  BY ProvenKept DEF AttemptInv
<1>4. Found(a, Dead', Finished')
  BY DEF AttemptInv, World, Found
<1>5. a.seen \subseteq Marked'
  BY DEF AttemptInv, World
<1> QED BY <1>1, <1>2, <1>3, <1>4, <1>5 DEF AttemptInv

\* An attempt that is not there has found out nothing.
LEMMA NoAttemptInv ==
    ASSUME NEW K, NEW D, NEW R, NEW M, NEW X, NEW V
    PROVE  AttemptInv(NoAttempt, K, D, R, M, X, V) /\ NoAttempt.at = "idle" /\ ~NoAttempt.abort
<1>1. NoAttempt \in Attempt
  BY DEF NoAttempt, Attempt
<1>2. ReadRuns(NoAttempt) = {} /\ \A r \in Runs : NoAttempt.found[r] = "unread"
  BY DEF NoAttempt, ReadRuns
<1> QED BY <1>1, <1>2 DEF NoAttempt, AttemptInv, Found

\* Such a step keeps the invariant.
LEMMA WorldInv ==
    ASSUME IInv, World, TypeOK', RunsInv', UNCHANGED operation, TurnOver => TurnOver', turn <= turn'
    PROVE  IInv'
<1> USE DEF IInv
<1>1. UNCHANGED <<op, known, attempt, request, answer>>
  BY DEF operation
<1>2. AttemptInv(attempt, known.runs, Dead', Finished', Marked', Existing', Alive')
  BY AttemptKept
<1>3. AbortInv' /\ AnswerInv'
  BY <1>1, ProvenKept DEF AbortInv, AnswerInv
<1>4. OpInv'
  <2>1. turn \in Nat /\ turn' \in Nat /\ known.turn \in Nat /\ known' = known
    BY <1>1, StopConstants DEF TypeOK
  <2>2. known'.turn <= turn'
    BY <2>1 DEF OpInv
  <2> QED BY <1>1, <2>2 DEF OpInv, World
<1> QED BY <1>1, <1>2, <1>3, <1>4

\* One run's files and process change; nothing else does.
LEMMA OneRun ==
    ASSUME TypeOK, RunsInv, NEW r \in Runs, NEW s \in Stages, NEW v \in BOOLEAN, NEW f \in BOOLEAN,
           stage' = [stage EXCEPT ![r] = s], alive' = [alive EXCEPT ![r] = v], result' = [result EXCEPT ![r] = f],
           UNCHANGED <<prior, marked>>,
           v => s \in {"running", "final"} /\ ~prior[r],
           r \in Dead => s = stage[r] /\ ~v /\ f = result[r], stage[r] # "absent" => s # "absent",
           (stage[r] = "absent" /\ s # "absent") \/ (~alive[r] /\ v) => LauncherActs(r)
    PROVE  World /\ RunsInv'
<1>1. \A q \in Runs : q # r => stage'[q] = stage[q] /\ alive'[q] = alive[q] /\ result'[q] = result[q]
  BY DEF TypeOK
<1>2. stage'[r] = s /\ alive'[r] = v /\ result'[r] = f
  BY DEF TypeOK
<1>3. \A q \in Runs : q \in Dead => q \in Dead' /\ result'[q] = result[q]
  BY <1>1, <1>2, Living DEF Dead, Classify, PidKnown, Alive
<1>4. RunsInv'
  BY <1>1, <1>2 DEF RunsInv
<1>5. Marked' = Marked /\ Finished' \cap Dead \subseteq Finished /\ Dead \subseteq Dead'
  BY <1>3 DEF Marked, Finished, Dead
<1>6. Existing \subseteq Existing'
  BY <1>1, <1>2 DEF Existing
<1>7. \A q \in Runs : (q \in Existing' \ Existing) \/ (q \in Alive' \ Alive) => LauncherActs(q)
  BY <1>1, <1>2 DEF Existing, Alive
<1> QED BY <1>4, <1>5, <1>6, <1>7 DEF World

\* A step of a run's launcher or runner.
LEMMA RunStepInv ==
    ASSUME IInv, NEW r \in Runs, NEW s \in Stages, NEW v \in BOOLEAN, NEW f \in BOOLEAN, NEW k \in BOOLEAN,
           stage' = [stage EXCEPT ![r] = s], alive' = [alive EXCEPT ![r] = v], result' = [result EXCEPT ![r] = f],
           control' = [control EXCEPT ![r] = k], UNCHANGED <<prior, marked, session, operation>>,
           faults' \in 0..MaxFaults,
           v => s \in {"running", "final"} /\ ~prior[r],
           r \in Dead => s = stage[r] /\ ~v /\ f = result[r], stage[r] # "absent" => s # "absent",
           (stage[r] = "absent" /\ s # "absent") \/ (~alive[r] /\ v) => LauncherActs(r)
    PROVE  IInv'
<1>1. TypeOK /\ RunsInv
  BY DEF IInv
<1>2. World /\ RunsInv'
  BY <1>1, OneRun
<1>3. UNCHANGED <<parent, turn, woken, op, known, attempt, request, answer>>
  BY DEF session, operation
<1>4. /\ stage' \in [Runs -> Stages] /\ alive' \in [Runs -> BOOLEAN] /\ result' \in [Runs -> BOOLEAN]
      /\ control' \in [Runs -> BOOLEAN]
  BY <1>1 DEF TypeOK
<1>5. TypeOK'
  BY <1>1, <1>3, <1>4 DEF TypeOK
<1>6. turn <= turn' /\ (TurnOver => TurnOver')
  BY <1>1, <1>3, StopConstants DEF TypeOK, TurnOver
<1> QED BY <1>2, <1>5, <1>6, WorldInv

\* A function on the runs does not change where it is given its own value.
LEMMA Unchanged ==
    ASSUME TypeOK, NEW r \in Runs
    PROVE  /\ stage = [stage EXCEPT ![r] = stage[r]] /\ alive = [alive EXCEPT ![r] = alive[r]]
           /\ result = [result EXCEPT ![r] = result[r]] /\ control = [control EXCEPT ![r] = control[r]]
           /\ stage[r] \in Stages /\ alive[r] \in BOOLEAN /\ result[r] \in BOOLEAN /\ control[r] \in BOOLEAN
           /\ faults \in 0..MaxFaults
           /\ r \in Dead <=> stage[r] = "not-started" \/ prior[r] \/ (stage[r] \in {"running", "final"} /\ ~alive[r])
BY DEF TypeOK, Dead, Classify, PidKnown

\* A launch is registered.
LEMMA RegisterInv == ASSUME IInv, NEW r \in Runs, Register(r) PROVE IInv'
<1>1. TypeOK /\ RunsInv /\ (alive[r] => stage[r] \in {"running", "final"} /\ ~prior[r])
  BY DEF IInv, RunsInv
<1>2. stage[r] = "absent" /\ LauncherActs(r) /\ ~alive[r] /\ "registered" \in Stages
  BY <1>1 DEF Register, Stages
<1>3. ~prior[r]
  BY <1>2 DEF IInv, RunsInv
<1> QED BY <1>1, <1>2, <1>3, Unchanged, RunStepInv DEF Register

\* A registered launch starts its runner, or records that it could not.
LEMMA SpawnInv == ASSUME IInv, NEW r \in Runs, Spawn(r) PROVE IInv'
<1>1. TypeOK /\ RunsInv
  BY DEF IInv
<1>2. stage[r] = "registered" /\ ~prior[r] /\ LauncherActs(r) /\ "running" \in Stages /\ "not-started" \in Stages
  BY DEF Spawn, Stages
<1>3. ~alive[r] /\ r \notin Dead
  BY <1>1, <1>2, Unchanged DEF RunsInv
<1>4. CASE stage' = [stage EXCEPT ![r] = "running"] /\ alive' = [alive EXCEPT ![r] = TRUE]
  BY <1>1, <1>2, <1>3, <1>4, Unchanged, RunStepInv DEF Spawn
<1>5. CASE stage' = [stage EXCEPT ![r] = "not-started"] /\ UNCHANGED alive
  BY <1>1, <1>2, <1>3, <1>5, Unchanged, RunStepInv DEF Spawn
<1> QED BY <1>4, <1>5 DEF Spawn

\* A run finishes: its runner is alive, so it was not dead.
LEMMA FinishInv == ASSUME IInv, NEW r \in Runs, Finish(r) PROVE IInv'
<1>1. TypeOK /\ RunsInv
  BY DEF IInv
<1>2. alive[r] /\ stage[r] = "running" /\ ~prior[r] /\ "final" \in Stages
  BY <1>1 DEF Finish, RunsInv, Stages
<1>3. r \notin Dead
  BY <1>1, <1>2, Unchanged
<1> QED BY <1>1, <1>2, <1>3, Unchanged, RunStepInv DEF Finish

\* A runner exits.
LEMMA ExitInv == ASSUME IInv, NEW r \in Runs, Exit(r) PROVE IInv'
<1>1. TypeOK /\ RunsInv /\ alive[r]
  BY DEF IInv, Exit
<1>2. r \notin Dead
  BY <1>1, Unchanged DEF RunsInv
<1>3. /\ stage' = [stage EXCEPT ![r] = stage[r]] /\ alive' = [alive EXCEPT ![r] = FALSE]
      /\ result' = [result EXCEPT ![r] = result[r]] /\ control' = [control EXCEPT ![r] = FALSE]
      /\ UNCHANGED <<prior, marked, session, operation>> /\ faults' \in 0..MaxFaults
  BY <1>1, Unchanged DEF Exit
<1>4. stage[r] \in Stages /\ result[r] \in BOOLEAN
  BY <1>1, Unchanged
<1> QED BY <1>1, <1>2, <1>3, <1>4, RunStepInv

\* A fault is counted within its bound.
LEMMA FaultCounted == ASSUME TypeOK, Fault PROVE faults' \in 0..MaxFaults
BY StopConstants DEF TypeOK, Fault

\* A stop request is lost.
LEMMA ControlLostInv == ASSUME IInv, NEW r \in Runs, ControlLost(r) PROVE IInv'
<1>1. TypeOK /\ RunsInv /\ faults' \in 0..MaxFaults
  BY FaultCounted DEF IInv, ControlLost
<1>2. alive[r] => stage[r] \in {"running", "final"} /\ ~prior[r]
  BY <1>1 DEF RunsInv
<1>3. r \in Dead => ~alive[r]
  BY <1>1, <1>2, Unchanged
<1>4. /\ stage' = [stage EXCEPT ![r] = stage[r]] /\ alive' = [alive EXCEPT ![r] = alive[r]]
      /\ result' = [result EXCEPT ![r] = result[r]] /\ control' = [control EXCEPT ![r] = FALSE]
      /\ UNCHANGED <<prior, marked, session, operation>>
  BY <1>1, Unchanged DEF ControlLost
<1>5. stage[r] \in Stages /\ result[r] \in BOOLEAN /\ alive[r] \in BOOLEAN
  BY <1>1, Unchanged
<1> QED BY <1>1, <1>2, <1>3, <1>4, <1>5, RunStepInv

\* The world does nothing while only the parent moves.
LEMMA WorldStill ==
    ASSUME TypeOK, RunsInv, UNCHANGED <<stage, prior, result, alive>>, Marked \subseteq Marked'
    PROVE  World /\ RunsInv' /\ Dead' = Dead /\ Finished' = Finished /\ Existing' = Existing /\ Alive' = Alive
BY DEF World, RunsInv, Dead, Classify, PidKnown, Finished, Existing, Alive

\* A turn of the parent begins or ends, or its conversation is opened: the turn that
\* was stopped, once over, is not taken up again.
LEMMA ParentInv ==
    ASSUME IInv, UNCHANGED <<disk, alive, operation, faults>>, woken' \subseteq Runs,
           \/ turn' = turn /\ parent' = "idle"
           \/ turn < MaxTurns /\ turn' = turn + 1 /\ parent' = "busy"
    PROVE  IInv'
<1>1. TypeOK /\ RunsInv /\ OpInv
  BY DEF IInv
<1>2. UNCHANGED <<stage, prior, result, marked, control, op, known, attempt, request, answer>>
  BY DEF disk, operation
<1>3. World /\ RunsInv'
  BY <1>1, <1>2, WorldStill DEF Marked
<1>4. turn \in Nat /\ known.turn \in Nat /\ known.turn <= turn /\ turn <= turn' /\ turn' \in 1..MaxTurns
  BY <1>1, StopConstants DEF TypeOK, OpInv
<1>5. TurnOver'
  BY <1>2, <1>4 DEF TurnOver
<1>6. parent' \in {"absent", "idle", "busy"}
  OBVIOUS
<1>7. TypeOK'
  BY <1>1, <1>2, <1>4, <1>6 DEF TypeOK
<1> QED BY <1>3, <1>4, <1>5, <1>7, WorldInv

\* A result wakes the parent.
LEMMA WakeInv == ASSUME IInv, NEW r \in Runs, Wake(r) PROVE IInv'
BY ParentInv DEF Wake, IInv, TypeOK

\* A turn ends.
LEMMA TurnEndsInv == ASSUME IInv, TurnEnds PROVE IInv'
BY ParentInv DEF TurnEnds, IInv, TypeOK

\* The conversation is opened again.
LEMMA ReopenInv == ASSUME IInv, Reopen PROVE IInv'
BY ParentInv DEF Reopen, IInv, TypeOK

\* A restart of agentd forgets the attempt and the turn, of the container also the
\* runners.
LEMMA RestartInv ==
    ASSUME IInv, Restart, World, RunsInv', disk' = <<stage, prior', result, marked, control'>>,
           prior' \in [Runs -> BOOLEAN], alive' \in [Runs -> BOOLEAN], control' \in [Runs -> BOOLEAN]
    PROVE  IInv'
<1>1. TypeOK /\ RunsInv /\ OpInv /\ AnswerInv
  BY DEF IInv
<1>2. /\ parent' = "absent" /\ attempt' = NoAttempt /\ request' = "none" /\ faults' \in 0..MaxFaults
      /\ UNCHANGED <<turn, woken, op, known, answer, stage, result, marked>>
  BY <1>1, FaultCounted DEF Restart, disk
<1>3. AttemptInv(attempt', known.runs, Dead', Finished', Marked', Existing', Alive') /\ attempt'.at = "idle"
  BY <1>2, NoAttemptInv
<1>4. attempt' \in Attempt /\ attempt'.pending \cup attempt'.todo \cup ReadRuns(attempt') \subseteq attempt'.listed
  BY <1>3 DEF AttemptInv
<1>5. TypeOK'
  BY <1>1, <1>2, <1>4 DEF TypeOK
<1>6. TurnOver'
  BY <1>2 DEF TurnOver
<1>7. AnswerInv' /\ AbortInv'
  BY <1>1, <1>2, <1>6, ProvenKept DEF AnswerInv, AbortInv
<1>8. OpInv'
  BY <1>1, <1>2, <1>3 DEF OpInv, World
<1> QED BY <1>2, <1>3, <1>5, <1>7, <1>8 DEF IInv

\* Agentd alone.
LEMMA AgentdRestartsInv == ASSUME IInv, AgentdRestarts PROVE IInv'
<1>1. TypeOK /\ RunsInv /\ Restart /\ UNCHANGED <<stage, prior, result, marked, control, alive>>
  BY DEF IInv, AgentdRestarts, disk
<1>2. World /\ RunsInv'
  BY <1>1, WorldStill DEF Marked
<1>3. disk' = <<stage, prior', result, marked, control'>>
  BY <1>1 DEF disk
<1>4. prior' \in [Runs -> BOOLEAN] /\ alive' \in [Runs -> BOOLEAN] /\ control' \in [Runs -> BOOLEAN]
  BY <1>1 DEF TypeOK
<1> QED BY <1>1, <1>2, <1>3, <1>4, RestartInv

\* The container: every run that exists is dead.
LEMMA ContainerRestartsInv == ASSUME IInv, ContainerRestarts PROVE IInv'
<1>1. TypeOK /\ RunsInv /\ Restart /\ UNCHANGED <<stage, result, marked>>
  BY DEF IInv, ContainerRestarts
<1>2. /\ alive' = [r \in Runs |-> FALSE] /\ prior' = [r \in Runs |-> prior[r] \/ stage[r] # "absent"]
      /\ control' = [r \in Runs |-> FALSE]
  BY DEF ContainerRestarts
<1>3. /\ \A r \in Runs : ~alive'[r] /\ (prior[r] => prior'[r]) /\ (stage[r] # "absent" => prior'[r])
      /\ \A r \in Runs : prior'[r] => prior[r] \/ stage[r] # "absent"
  BY <1>1, <1>2 DEF TypeOK
<1>4. prior' \in [Runs -> BOOLEAN] /\ alive' \in [Runs -> BOOLEAN] /\ control' \in [Runs -> BOOLEAN]
  BY <1>1, <1>2 DEF TypeOK
<1>5. RunsInv'
  BY <1>1, <1>3 DEF RunsInv
<1>6. World
  <2>1. Dead \subseteq Dead'
    BY <1>1, <1>3 DEF Dead, Classify, PidKnown
  <2>2. Finished' = Finished /\ Marked' = Marked /\ Existing' = Existing /\ Alive' = {}
    BY <1>1, <1>3 DEF Finished, Marked, Existing, Alive
  <2> QED BY <2>1, <2>2 DEF World
<1>7. disk' = <<stage, prior', result, marked, control'>>
  BY <1>1 DEF disk
<1> QED BY <1>1, <1>4, <1>5, <1>6, <1>7, RestartInv

-----------------------------------------------------------------------------
(* Steps of the attempt.                                                   *)

\* A decision does not forget that the abort timed out.
LEMMA AbortKept ==
    ASSUME NEW a \in Attempt
    PROVE  /\ \A b \in AfterMarking(a) : b.abort = a.abort
           /\ \A b \in Scanned(a) : b.abort = a.abort
<1>1. [a EXCEPT !.at = "finish"].abort = a.abort
  BY DEF Attempt
<1>2. \A b \in Again(a) : b.abort = a.abort
  <2>1. Goto(a, "list").abort = a.abort
    BY GotoFields
  <2> QED BY <1>1, <2>1, Zenon DEF Again
<1>3. \A b \in AfterMarking(a) : b.abort = a.abort
  BY <1>2, GotoFields DEF AfterMarking
<1>4. \A b \in AfterConfirming(a) : b.abort = a.abort
  BY <1>1, <1>2 DEF AfterConfirming
<1>5. \A b \in AfterScan(a) : b.abort = a.abort
  <2> DEFINE todo == Blocking(a) \cup a.pending
  <2>1. [a EXCEPT !.at = "mark", !.todo = todo].abort = a.abort
    BY DEF Attempt
  <2> QED BY <2>1, <1>3 DEF AfterScan
<1> QED BY <1>3, <1>4, <1>5 DEF Scanned

\* An attempt goes on; it may mark runs.
LEMMA AttemptStepInv ==
    ASSUME IInv, attempt.at # "idle", UNCHANGED <<stage, prior, result, alive, session, op, known, request, answer>>,
           marked' \in [Runs -> BOOLEAN], control' \in [Runs -> BOOLEAN], faults' \in 0..MaxFaults,
           Marked \subseteq Marked', attempt'.abort = attempt.abort,
           AttemptInv(attempt', known.runs, Dead, Finished, Marked', Existing, Alive)
    PROVE  IInv'
<1>1. TypeOK /\ RunsInv /\ OpInv /\ AbortInv /\ AnswerInv
  BY DEF IInv
<1>2. UNCHANGED <<parent, turn, woken>>
  BY DEF session
<1>3. World /\ RunsInv' /\ Dead' = Dead /\ Finished' = Finished /\ Existing' = Existing /\ Alive' = Alive
  BY <1>1, WorldStill
<1>4. attempt' \in Attempt /\ attempt'.pending \cup attempt'.todo \cup ReadRuns(attempt') \subseteq attempt'.listed
  BY DEF AttemptInv
<1>5. TypeOK'
  BY <1>1, <1>2, <1>4 DEF TypeOK
<1>6. op.state # "none" /\ OpInv'
  BY <1>1, <1>2, <1>3 DEF OpInv
<1>7. AbortInv'
  BY <1>1, <1>2 DEF AbortInv, TurnOver
<1>8. AnswerInv'
  BY <1>1, <1>2, <1>3, ProvenKept DEF AnswerInv, TurnOver
<1> QED BY <1>3, <1>5, <1>6, <1>7, <1>8 DEF IInv

\* The disk as it is, while the attempt goes on.
LEMMA DiskAsIs ==
    ASSUME TypeOK, UNCHANGED disk
    PROVE  /\ marked' \in [Runs -> BOOLEAN] /\ control' \in [Runs -> BOOLEAN] /\ Marked' = Marked
           /\ UNCHANGED <<stage, prior, result>>
BY DEF TypeOK, disk, Marked

\* A scan lists the directories: all of the operation's runs, and in the confirming
\* scan all that these launched, for they are dead.
LEMMA ListInv == ASSUME IInv, List PROVE IInv'
<1> DEFINE step == IF attempt.at = "list" THEN "scan" ELSE "rescan"
           a == [attempt EXCEPT !.at = step, !.listed = Existing]
<1>1. TypeOK /\ RunsInv /\ OpInv /\ AttemptInv(attempt, known.runs, Dead, Finished, Marked, Existing, Alive)
  BY DEF IInv
<1>2. attempt \in Attempt /\ attempt.at \in {"list", "confirm"} /\ Existing \subseteq Runs
  BY <1>1 DEF TypeOK, List, Existing
<1>3. step \in {"scan", "rescan"} /\ (step = "rescan" => attempt.at = "confirm")
  BY <1>2
<1>4. attempt' \in Scanned(a) /\ UNCHANGED <<disk, alive, session, op, known, request, answer, faults>>
  BY <1>2 DEF List, Existing, Attempt
<1> HIDE DEF step
<1>5. /\ a \in Attempt /\ a.at = step /\ a.listed = Existing /\ a.pending = attempt.pending /\ a.found = attempt.found
      /\ a.seen = attempt.seen /\ a.todo = attempt.todo /\ a.errors = attempt.errors /\ a.abort = attempt.abort
  BY <1>2, <1>3 DEF Attempt
<1> HIDE DEF a
<1>6. ReadRuns(a) = ReadRuns(attempt) /\ Blocking(a) = Blocking(attempt)
  BY <1>5 DEF ReadRuns, Blocking
<1>7. known.runs \subseteq Existing
  BY <1>1, <1>2 DEF OpInv
<1>8. AttemptInv(a, known.runs, Dead, Finished, Marked, Existing, Alive)
  <2>1. Found(a, Dead, Finished)
    BY <1>1, <1>5 DEF AttemptInv, Found
  <2>2. step = "rescan" => Settled(a, known.runs, Dead, Finished, Marked)
    BY <1>1, <1>3, <1>5 DEF AttemptInv, Settled
  <2>3. a.pending = {} /\ a.todo = {} /\ ReadRuns(a) = {} /\ a.seen \subseteq Marked
    BY <1>1, <1>2, <1>5, <1>6 DEF AttemptInv
  <2> QED BY <1>3, <1>5, <1>7, <2>1, <2>2, <2>3 DEF AttemptInv
<1>9. AttemptInv(attempt', known.runs, Dead, Finished, Marked, Existing, Alive)
  BY <1>1, <1>3, <1>4, <1>5, <1>8, Living, ScannedInv
<1>10. attempt'.abort = attempt.abort
  BY <1>4, <1>5, AbortKept
<1>11. attempt.at # "idle" /\ faults' \in 0..MaxFaults
  BY <1>1, <1>2, <1>4 DEF TypeOK
<1> QED BY <1>1, <1>4, <1>9, <1>10, <1>11, DiskAsIs, AttemptStepInv

\* A scan reads one run.
LEMMA ReadRunInv == ASSUME IInv, NEW r \in Runs, ReadRun(r) PROVE IInv'
<1> DEFINE found == [attempt.found EXCEPT ![r] = Classify(r)]
           pending == IF result[r] THEN attempt.pending \cup {r} ELSE attempt.pending
           a == [attempt EXCEPT !.found = found, !.pending = pending]
<1>1. TypeOK /\ RunsInv /\ OpInv /\ AttemptInv(attempt, known.runs, Dead, Finished, Marked, Existing, Alive)
  BY DEF IInv
<1>2. attempt \in Attempt /\ attempt.at \in {"scan", "rescan"} /\ r \in attempt.listed
  BY <1>1 DEF TypeOK, ReadRun
<1>3. attempt' \in Scanned(a) /\ UNCHANGED <<disk, alive, session, op, known, request, answer, faults>>
  BY <1>2 DEF ReadRun, Attempt
<1>4. Classify(r) \in {"active", "uncertain", "inactive"}
  BY DEF Classify
<1>5. /\ found \in [Runs -> {"unread", "active", "uncertain", "inactive"}] /\ found[r] = Classify(r)
      /\ \A q \in Runs : q # r => found[q] = attempt.found[q]
  BY <1>2, <1>4, AttemptFields
<1>6. /\ pending \subseteq Runs /\ pending \subseteq attempt.listed /\ attempt.pending \subseteq pending
      /\ (r \in Finished => r \in pending)
  BY <1>1, <1>2, AttemptFields DEF AttemptInv, Finished
<1> HIDE DEF found, pending
<1>7. /\ a \in Attempt /\ a.at = attempt.at /\ a.listed = attempt.listed /\ a.pending = pending /\ a.found = found
      /\ a.seen = attempt.seen /\ a.todo = attempt.todo /\ a.errors = attempt.errors /\ a.abort = attempt.abort
  BY <1>2, <1>5, <1>6 DEF Attempt
<1> HIDE DEF a
<1>8. ReadRuns(a) \subseteq a.listed
  BY <1>1, <1>2, <1>5, <1>7 DEF ReadRuns, AttemptInv
<1>9. Found(a, Dead, Finished)
  <2> SUFFICES ASSUME NEW q \in Runs, found[q] = "inactive" PROVE q \in Dead /\ (q \in Finished => q \in pending)
    BY <1>7 DEF Found
  <2>1. CASE q = r
    BY <2>1, <1>5, <1>6 DEF Dead
  <2>2. CASE q # r
    BY <2>2, <1>1, <1>5, <1>6 DEF AttemptInv, Found
  <2> QED BY <2>1, <2>2
<1>10. AttemptInv(a, known.runs, Dead, Finished, Marked, Existing, Alive)
  <2>1. a.todo = {} /\ a.seen \subseteq Marked /\ known.runs \subseteq a.listed
    BY <1>1, <1>2, <1>7 DEF AttemptInv
  <2>2. a.at = "rescan" => Settled(a, known.runs, Dead, Finished, Marked) /\ Kids(known.runs) \cap Existing \subseteq a.listed
    BY <1>1, <1>7 DEF AttemptInv, Settled
  <2> QED BY <1>2, <1>6, <1>7, <1>8, <1>9, <2>1, <2>2 DEF AttemptInv
<1>11. AttemptInv(attempt', known.runs, Dead, Finished, Marked, Existing, Alive)
  BY <1>1, <1>2, <1>3, <1>7, <1>10, Living, ScannedInv
<1>12. attempt'.abort = attempt.abort
  BY <1>3, <1>7, AbortKept
<1>13. attempt.at # "idle" /\ faults' \in 0..MaxFaults
  BY <1>1, <1>2, <1>3 DEF TypeOK
<1> QED BY <1>1, <1>3, <1>11, <1>12, <1>13, DiskAsIs, AttemptStepInv

\* A run of a scan is dealt with: marked, or not because the marker could not be
\* written.
LEMMA DealtWith ==
    ASSUME TypeOK, NEW r \in attempt.todo, NEW M, Marked \subseteq M,
           AttemptInv(attempt, known.runs, Dead, Finished, Marked, Existing, Alive), attempt.at = "mark",
           NEW a \in Attempt, a.at = "mark", a.listed = attempt.listed, a.pending = attempt.pending,
           a.found = attempt.found, a.todo = attempt.todo \ {r}, a.abort = attempt.abort,
           attempt.seen \subseteq a.seen, a.seen \subseteq M, r \in a.seen \/ a.errors, attempt.errors => a.errors,
           NEW b, b \in IF a.todo = {} THEN AfterMarking(a) ELSE {a}
    PROVE  AttemptInv(b, known.runs, Dead, Finished, M, Existing, Alive) /\ b.abort = attempt.abort
<1>1. ReadRuns(a) = ReadRuns(attempt) /\ Blocking(a) = Blocking(attempt)
  BY DEF ReadRuns, Blocking
<1>2. /\ attempt.pending \cup attempt.todo \cup ReadRuns(attempt) \subseteq attempt.listed
      /\ known.runs \subseteq attempt.listed /\ ReadRuns(attempt) = attempt.listed
      /\ attempt.errors \/ Blocking(attempt) \cup attempt.pending \subseteq attempt.todo \cup attempt.seen
  BY DEF AttemptInv
<1>3. Found(a, Dead, Finished)
  BY DEF AttemptInv, Found
<1>4. a.errors \/ Blocking(a) \cup a.pending \subseteq a.todo \cup a.seen
  BY <1>1, <1>2
<1>5. CASE a.todo = {} /\ b \in AfterMarking(a)
  <2>1. AttemptInv(b, known.runs, Dead, Finished, M, Existing, Alive)
    BY <1>1, <1>2, <1>3, <1>4, <1>5, AfterMarkingInv
  <2> QED BY <2>1, <1>5, AbortKept
<1>6. CASE a.todo # {} /\ b = a
  BY <1>1, <1>2, <1>3, <1>4, <1>6 DEF AttemptInv
<1> QED BY <1>5, <1>6

\* A run is marked, and asked to stop if it was found blocking.
LEMMA MarkRunInv == ASSUME IInv, NEW r \in Runs, MarkRun(r) PROVE IInv'
<1> DEFINE a == [attempt EXCEPT !.todo = attempt.todo \ {r}, !.seen = attempt.seen \cup {r}, !.errors = attempt.errors]
<1>1. TypeOK /\ AttemptInv(attempt, known.runs, Dead, Finished, Marked, Existing, Alive)
  BY DEF IInv
<1>2. attempt \in Attempt /\ attempt.at = "mark" /\ r \in attempt.todo /\ attempt.seen \subseteq Marked
  BY <1>1 DEF TypeOK, MarkRun, AttemptInv
<1>3. a = [attempt EXCEPT !.todo = @ \ {r}, !.seen = @ \cup {r}]
  BY <1>2 DEF Attempt
<1>4. attempt' \in IF a.todo = {} THEN AfterMarking(a) ELSE {a}
  BY <1>3 DEF MarkRun
<1>5. /\ marked' \in [Runs -> BOOLEAN] /\ control' \in [Runs -> BOOLEAN] /\ Marked' = Marked \cup {r}
      /\ UNCHANGED <<stage, prior, result, alive, session, op, known, request, answer>> /\ faults' \in 0..MaxFaults
  BY <1>1 DEF MarkRun, TypeOK, Marked
<1>6. attempt.seen \cup {r} \in SUBSET Runs /\ attempt.errors \in BOOLEAN
  BY <1>2, AttemptFields
<1>7. /\ a \in Attempt /\ a.at = "mark" /\ a.listed = attempt.listed /\ a.pending = attempt.pending
      /\ a.found = attempt.found /\ a.seen = attempt.seen \cup {r} /\ a.todo = attempt.todo \ {r}
      /\ a.errors = attempt.errors /\ a.abort = attempt.abort
  BY <1>2, <1>6 DEF Attempt
<1> HIDE DEF a
<1>8. attempt.seen \subseteq a.seen /\ a.seen \subseteq Marked' /\ r \in a.seen /\ Marked \subseteq Marked'
  BY <1>2, <1>5, <1>7
<1>9. /\ AttemptInv(attempt', known.runs, Dead, Finished, Marked', Existing, Alive)
      /\ attempt'.abort = attempt.abort
  <2>1. PICK M : M = Marked'
    OBVIOUS
  <2>2. attempt.seen \subseteq a.seen /\ a.seen \subseteq M /\ r \in a.seen /\ Marked \subseteq M
    BY <1>8, <2>1
  <2>3. (attempt.errors => a.errors) /\ (r \in a.seen \/ a.errors)
    BY <1>7, <1>8
  <2>4. AttemptInv(attempt', known.runs, Dead, Finished, M, Existing, Alive) /\ attempt'.abort = attempt.abort
    BY <1>1, <1>2, <1>4, <1>7, <2>2, <2>3, DealtWith
  <2> QED BY <2>1, <2>4
<1> QED BY <1>2, <1>5, <1>8, <1>9, AttemptStepInv

\* A marker that cannot be written.
LEMMA MarkFailsInv == ASSUME IInv, NEW r \in Runs, MarkFails(r) PROVE IInv'
<1> DEFINE a == [attempt EXCEPT !.todo = attempt.todo \ {r}, !.seen = attempt.seen, !.errors = TRUE]
<1>1. TypeOK /\ AttemptInv(attempt, known.runs, Dead, Finished, Marked, Existing, Alive)
  BY DEF IInv
<1>2. attempt \in Attempt /\ attempt.at = "mark" /\ r \in attempt.todo /\ attempt.seen \subseteq Marked
  BY <1>1 DEF TypeOK, MarkFails, AttemptInv
<1>3. a = [attempt EXCEPT !.todo = @ \ {r}, !.errors = TRUE]
  BY <1>2 DEF Attempt
<1>4. attempt' \in IF a.todo = {} THEN AfterMarking(a) ELSE {a}
  BY <1>3 DEF MarkFails
<1>5. UNCHANGED <<disk, alive, session, op, known, request, answer>> /\ faults' \in 0..MaxFaults
  BY <1>1, FaultCounted DEF MarkFails
<1>6. attempt.seen \in SUBSET Runs
  BY <1>2, AttemptFields
<1>7. /\ a \in Attempt /\ a.at = "mark" /\ a.listed = attempt.listed /\ a.pending = attempt.pending
      /\ a.found = attempt.found /\ a.seen = attempt.seen /\ a.todo = attempt.todo \ {r}
      /\ a.errors = TRUE /\ a.abort = attempt.abort
  BY <1>2, <1>6 DEF Attempt
<1> HIDE DEF a
<1>8. /\ AttemptInv(attempt', known.runs, Dead, Finished, Marked, Existing, Alive)
      /\ attempt'.abort = attempt.abort
  BY <1>1, <1>2, <1>4, <1>6, <1>7, DealtWith
<1> QED BY <1>1, <1>2, <1>5, <1>8, DiskAsIs, AttemptStepInv

\* A first scan that fails is an error of the attempt.
LEMMA FirstScanFails ==
    ASSUME IInv, attempt.at = "scan", attempt' = [Goto(attempt, "finish") EXCEPT !.errors = TRUE],
           UNCHANGED <<disk, alive, session, op, known, request, answer>>, faults' \in 0..MaxFaults
    PROVE  IInv'
<1> DEFINE g == Goto(attempt, "finish")
<1>1. TypeOK /\ AttemptInv(attempt, known.runs, Dead, Finished, Marked, Existing, Alive)
  BY DEF IInv
<1>2. /\ g \in Attempt /\ g.at = "finish" /\ g.listed = {} /\ g.pending = {} /\ g.seen = attempt.seen
      /\ g.todo = attempt.todo /\ g.abort = attempt.abort /\ \A r \in Runs : g.found[r] = "unread"
  BY <1>1, GotoFields DEF TypeOK
<1>3. attempt' = [g EXCEPT !.errors = TRUE]
  OBVIOUS
<1> HIDE DEF g
<1>4. /\ attempt' \in Attempt /\ attempt'.at = "finish" /\ attempt'.listed = {} /\ attempt'.pending = {}
      /\ attempt'.seen = attempt.seen /\ attempt'.todo = attempt.todo /\ attempt'.abort = attempt.abort
      /\ attempt'.found = g.found /\ attempt'.errors = TRUE
  BY <1>2, <1>3 DEF Attempt
<1>5. ReadRuns(attempt') = {} /\ Found(attempt', Dead, Finished)
  BY <1>2, <1>4 DEF ReadRuns, Found
<1>6. attempt.todo = {} /\ attempt.seen \subseteq Marked
  BY <1>1 DEF AttemptInv
<1>7. AttemptInv(attempt', known.runs, Dead, Finished, Marked, Existing, Alive)
  BY <1>4, <1>5, <1>6 DEF AttemptInv
<1> QED BY <1>1, <1>4, <1>7, DiskAsIs, AttemptStepInv

\* A scan fails.  The confirming one rejects the request: what the attempt knew of the
\* abort is lost.
LEMMA ScanFailsInv == ASSUME IInv, ScanFails PROVE IInv'
<1>1. TypeOK /\ RunsInv /\ OpInv /\ AbortInv /\ AnswerInv /\ faults' \in 0..MaxFaults
  BY FaultCounted DEF IInv, ScanFails
<1>2. UNCHANGED <<disk, alive, session, op, request, answer>>
  BY DEF ScanFails
<1>3. CASE attempt.at = "scan" /\ attempt' = [Goto(attempt, "finish") EXCEPT !.errors = TRUE] /\ UNCHANGED known
  BY <1>1, <1>2, <1>3, FirstScanFails
<1>4. CASE attempt.at = "rescan" /\ attempt' = NoAttempt /\ known' = [known EXCEPT !.lost = @ \/ attempt.abort]
  <2>1. UNCHANGED <<stage, prior, result, marked, control, parent, turn, woken>>
    BY <1>2 DEF disk, session
  <2>2. /\ known' \in [runs : SUBSET Runs, turn : 0..MaxTurns, lost : BOOLEAN] /\ known'.runs = known.runs
        /\ known'.turn = known.turn /\ known'.lost = (known.lost \/ attempt.abort)
    BY <1>1, <1>4, AttemptFields DEF TypeOK
  <2>3. World /\ RunsInv' /\ Dead' = Dead /\ Finished' = Finished /\ Existing' = Existing /\ Alive' = Alive /\ Marked' = Marked
    BY <1>1, <1>2, <2>1, WorldStill DEF Marked
  <2>4. AttemptInv(attempt', known'.runs, Dead', Finished', Marked', Existing', Alive') /\ attempt'.at = "idle"
    BY <1>4, NoAttemptInv
  <2>5. attempt' \in Attempt /\ attempt'.pending \cup attempt'.todo \cup ReadRuns(attempt') \subseteq attempt'.listed
    BY <2>4 DEF AttemptInv
  <2>6. TypeOK'
    BY <1>1, <1>2, <2>1, <2>2, <2>5 DEF TypeOK
  <2>7. AbortInv'
    BY <1>1, <1>2, <2>1, <2>2 DEF AbortInv, TurnOver
  <2>8. AnswerInv'
    BY <1>1, <1>2, <2>1, <2>2, <2>3 DEF AnswerInv, TurnOver
  <2>9. OpInv'
    BY <1>1, <1>2, <1>4, <2>1, <2>2, <2>3 DEF OpInv
  <2> QED BY <2>3, <2>4, <2>6, <2>7, <2>8, <2>9 DEF IInv
<1> QED BY <1>3, <1>4 DEF ScanFails

\* The attempt ends; it answers stopped only if the stop is proven and no abort that
\* timed out is known.
LEMMA CompleteInv == ASSUME IInv, Complete PROVE IInv'
<1>1. /\ TypeOK /\ RunsInv /\ OpInv /\ AbortInv
      /\ AttemptInv(attempt, known.runs, Dead, Finished, Marked, Existing, Alive)
  BY DEF IInv
<1>2. /\ attempt.at = "finish" /\ attempt' = NoAttempt /\ answer' = Outcome
      /\ op' = [state |-> Outcome, abort |-> op.abort \/ attempt.abort, targets |-> attempt.seen]
      /\ UNCHANGED <<alive, known, request, faults>>
  BY DEF Complete
<1>3. UNCHANGED <<stage, prior, result, marked, control, parent, turn, woken>>
  BY DEF Complete, disk, session
<1>4. Outcome \in {"uncertain", "stopping", "stopped"} /\ Outcome # "none" /\ Outcome \in Answers
  BY DEF Outcome, Answers
<1>5. op' \in [state : Answers, abort : BOOLEAN, targets : SUBSET Runs]
  BY <1>1, <1>2, <1>4, AttemptFields DEF TypeOK
<1>6. World /\ RunsInv' /\ Dead' = Dead /\ Finished' = Finished /\ Existing' = Existing /\ Alive' = Alive /\ Marked' = Marked
  BY <1>1, <1>2, <1>3, WorldStill DEF Marked
<1>7. AttemptInv(attempt', known'.runs, Dead', Finished', Marked', Existing', Alive') /\ attempt'.at = "idle"
  BY <1>2, NoAttemptInv
<1>8. attempt' \in Attempt /\ attempt'.pending \cup attempt'.todo \cup ReadRuns(attempt') \subseteq attempt'.listed
  BY <1>7 DEF AttemptInv
<1>9. TypeOK'
  BY <1>1, <1>2, <1>3, <1>4, <1>5, <1>8 DEF TypeOK
<1>10. op.state # "none" /\ OpInv'
  BY <1>1, <1>2, <1>3, <1>4, <1>6 DEF OpInv, AttemptInv
<1>11. AbortInv'
  BY <1>1, <1>2, <1>3, <1>10 DEF AbortInv, TurnOver
<1>12. AnswerInv'
  <2> SUFFICES ASSUME Outcome = "stopped" PROVE TurnOver' /\ Proven(known.runs, Dead, Finished, Marked, Alive)
    BY <1>2, <1>6 DEF AnswerInv
  <2>1. ~attempt.abort /\ ~op.abort /\ ~attempt.errors /\ Blocking(attempt) = {}
    BY DEF Outcome
  <2>2. TurnOver'
    BY <2>1, <1>1, <1>2, <1>3, <1>10 DEF AbortInv, TurnOver
  <2> QED BY <2>1, <2>2, <1>1, <1>2 DEF AttemptInv
<1> QED BY <1>6, <1>7, <1>9, <1>10, <1>11, <1>12 DEF IInv

\* The state in which an attempt begins.
LEMMA BeginInv ==
    ASSUME IInv, NEW abort \in BOOLEAN, NEW proven \in BOOLEAN, Begin(abort, proven),
           UNCHANGED <<disk, alive, turn, woken, faults>>, parent' \in {"absent", "idle", "busy"},
           request' \in {"none", "proven", "unproven"},
           known' \in [runs : SUBSET Runs, turn : 0..MaxTurns, lost : BOOLEAN],
           known'.runs \subseteq Existing, known'.turn <= turn,
           TurnOver' \/ abort \/ (~proven /\ op.abort)
    PROVE  IInv'
<1> DEFINE o == [op EXCEPT !.state = "stopping", !.abort = op.abort /\ ~proven]
           a == [NoAttempt EXCEPT !.at = "list", !.seen = op.targets, !.abort = abort]
<1>1. TypeOK /\ RunsInv /\ OpInv
  BY DEF IInv
<1>2. op' = o /\ attempt' = a /\ answer' = "none"
  BY <1>1 DEF Begin, TypeOK
<1>3. "stopping" \in Answers /\ "none" \in Answers
  BY DEF Answers
<1>4. o \in [state : Answers, abort : BOOLEAN, targets : SUBSET Runs] /\ o.state = "stopping"
      /\ o.abort = (op.abort /\ ~proven) /\ o.targets = op.targets
  BY <1>1, <1>3 DEF TypeOK
<1>5. NoAttempt \in Attempt /\ \A r \in Runs : NoAttempt.found[r] = "unread"
  BY NoAttemptInv DEF AttemptInv, NoAttempt
<1>6. /\ a \in Attempt /\ a.at = "list" /\ a.listed = {} /\ a.pending = {} /\ a.todo = {} /\ a.seen = op.targets
      /\ a.abort = abort /\ a.found = NoAttempt.found
  BY <1>1 DEF TypeOK, NoAttempt, Attempt
<1> HIDE DEF o, a
<1>7. ReadRuns(a) = {} /\ \A r \in Runs : a.found[r] # "inactive"
  BY <1>5, <1>6 DEF ReadRuns
<1>8. UNCHANGED <<stage, prior, result, marked, control>>
  BY DEF disk
<1>9. World /\ RunsInv' /\ Dead' = Dead /\ Finished' = Finished /\ Existing' = Existing /\ Alive' = Alive /\ Marked' = Marked
  BY <1>1, <1>8, WorldStill DEF Marked
<1>10. op.targets \subseteq Marked
  BY <1>1 DEF OpInv
<1>11. AttemptInv(a, known'.runs, Dead, Finished, Marked, Existing, Alive)
  BY <1>6, <1>7, <1>10 DEF AttemptInv, Found
<1>12. TypeOK'
  BY <1>1, <1>2, <1>3, <1>4, <1>6, <1>7, <1>8 DEF TypeOK
<1>13. OpInv' /\ AbortInv' /\ AnswerInv'
  BY <1>2, <1>4, <1>6, <1>9, <1>10 DEF OpInv, AbortInv, AnswerInv
<1> QED BY <1>2, <1>9, <1>11, <1>12, <1>13 DEF IInv

\* The parent after an abort, in time or not.
LEMMA AbortFacts ==
    ASSUME TypeOK, Aborted \/ AbortTimesOut
    PROVE  parent' \in {"absent", "idle", "busy"} /\ (Aborted => TurnOver')
BY DEF TypeOK, Aborted, AbortTimesOut, TurnOver

\* A Stop aborts the parent first; the first one takes stock of the runs.
LEMMA StopInv == ASSUME IInv, Stop PROVE IInv'
<1>1. TypeOK /\ OpInv
  BY DEF IInv
<1>2. UNCHANGED <<disk, alive, turn, woken, request, faults>> /\ request' \in {"none", "proven", "unproven"}
  BY <1>1 DEF Stop, TypeOK
<1>3. /\ known' \in [runs : SUBSET Runs, turn : 0..MaxTurns, lost : BOOLEAN]
      /\ known'.runs \subseteq Existing /\ known'.turn <= turn
  <2>1. CASE op.state = "none"
    <3>1. known' = [runs |-> Existing, turn |-> turn, lost |-> FALSE] /\ Existing \subseteq Runs
      BY <2>1 DEF Stop, Existing
    <3>2. turn \in 0..MaxTurns /\ turn <= turn
      BY <1>1, StopConstants DEF TypeOK
    <3> QED BY <3>1, <3>2
  <2>2. CASE op.state # "none"
    <3>1. known' = known
      BY <2>2 DEF Stop
    <3> QED BY <2>2, <3>1, <1>1 DEF TypeOK, OpInv
  <2> QED BY <2>1, <2>2
<1>4. CASE Aborted /\ Begin(FALSE, FALSE)
  BY <1>1, <1>2, <1>3, <1>4, AbortFacts, BeginInv
<1>5. CASE AbortTimesOut /\ Begin(TRUE, FALSE)
  BY <1>1, <1>2, <1>3, <1>5, AbortFacts, BeginInv
<1> QED BY <1>4, <1>5 DEF Stop

\* A status request reads the record.
LEMMA ReadRecordInv == ASSUME IInv, ReadRecord PROVE IInv'
<1>1. TypeOK /\ RunsInv /\ OpInv /\ AbortInv /\ AnswerInv
  BY DEF IInv
<1>2. /\ UNCHANGED <<disk, alive, session, op, known, attempt, answer, faults>> /\ op.state # "none"
      /\ request' \in {"none", "proven", "unproven"}
  BY DEF ReadRecord
<1>3. UNCHANGED <<stage, prior, result, marked, control, parent, turn, woken>>
  BY <1>2 DEF disk, session
<1>4. RunsInv' /\ Dead' = Dead /\ Finished' = Finished /\ Existing' = Existing /\ Alive' = Alive /\ Marked' = Marked
  BY <1>1, <1>2, <1>3, WorldStill DEF Marked
<1>5. TypeOK'
  BY <1>1, <1>2, <1>3 DEF TypeOK
<1>6. OpInv' /\ AbortInv' /\ AnswerInv'
  BY <1>1, <1>2, <1>3, <1>4 DEF OpInv, AbortInv, AnswerInv, TurnOver
<1> QED BY <1>2, <1>4, <1>5, <1>6 DEF IInv

\* A status request acts on what it read: an abort that the record calls proven is
\* not repeated.
LEMMA ReconcileInv == ASSUME IInv, Reconcile PROVE IInv'
<1>1. TypeOK /\ RunsInv /\ OpInv /\ AbortInv /\ AttemptInv(attempt, known.runs, Dead, Finished, Marked, Existing, Alive)
  BY DEF IInv
<1>2. /\ attempt.at = "idle" /\ request # "none" /\ request' = "none"
      /\ UNCHANGED <<disk, alive, turn, woken, known, faults>>
  BY DEF Reconcile
<1>3. op.state # "none" /\ ~attempt.abort
  BY <1>1, <1>2 DEF OpInv, AttemptInv
<1>4. /\ known' \in [runs : SUBSET Runs, turn : 0..MaxTurns, lost : BOOLEAN]
      /\ known'.runs \subseteq Existing /\ known'.turn <= turn /\ request' \in {"none", "proven", "unproven"}
  BY <1>1, <1>2, <1>3 DEF TypeOK, OpInv
<1>5. CASE UNCHANGED parent /\ Begin(FALSE, FALSE)
  <2>1. parent' \in {"absent", "idle", "busy"} /\ (TurnOver' \/ op.abort)
    BY <1>1, <1>2, <1>3, <1>5 DEF AbortInv, TurnOver, TypeOK
  <2> QED BY <1>2, <1>4, <1>5, <2>1, BeginInv
<1>6. CASE Aborted /\ Begin(FALSE, TRUE)
  BY <1>1, <1>2, <1>4, <1>6, AbortFacts, BeginInv
<1>7. CASE AbortTimesOut /\ op' = [op EXCEPT !.state = "uncertain", !.abort = TRUE]
           /\ answer' = "uncertain" /\ UNCHANGED attempt
  <2>1. UNCHANGED <<stage, prior, result, marked, control, parent>> /\ "uncertain" \in Answers
    BY <1>2, <1>7 DEF disk, AbortTimesOut, Answers
  <2>2. op' \in [state : Answers, abort : BOOLEAN, targets : SUBSET Runs] /\ op'.state = "uncertain" /\ op'.abort
        /\ op'.targets = op.targets
    BY <1>1, <1>7, <2>1 DEF TypeOK
  <2>3. RunsInv' /\ Dead' = Dead /\ Finished' = Finished /\ Existing' = Existing /\ Alive' = Alive /\ Marked' = Marked
    BY <1>1, <1>2, <2>1, WorldStill DEF Marked
  <2>4. TypeOK'
    BY <1>1, <1>2, <1>7, <2>1, <2>2 DEF TypeOK
  <2>5. OpInv' /\ AbortInv' /\ AnswerInv'
    BY <1>1, <1>2, <1>3, <1>7, <2>1, <2>2, <2>3 DEF OpInv, AbortInv, AnswerInv
  <2>6. AttemptInv(attempt', known'.runs, Dead', Finished', Marked', Existing', Alive')
    BY <1>1, <1>2, <1>7, <2>3
  <2> QED BY <2>3, <2>4, <2>5, <2>6 DEF IInv
<1> QED BY <1>5, <1>6, <1>7 DEF Reconcile

-----------------------------------------------------------------------------
(* The theorems.                                                           *)

\* The invariant holds before the robot was asked to stop.
LEMMA InitInv == Init => IInv
<1> SUFFICES ASSUME Init PROVE IInv
  OBVIOUS
<1>1. AttemptInv(attempt, known.runs, Dead, Finished, Marked, Existing, Alive) /\ attempt.at = "idle"
  BY NoAttemptInv DEF Init
<1>2. attempt \in Attempt /\ attempt.pending \cup attempt.todo \cup ReadRuns(attempt) \subseteq attempt.listed
  BY <1>1 DEF AttemptInv
<1>3. "none" \in Answers /\ "absent" \in Stages
  BY DEF Answers, Stages
<1>4. op \in [state : Answers, abort : BOOLEAN, targets : SUBSET Runs] /\ op.state = "none" /\ op.targets = {}
  BY <1>3 DEF Init
<1>5. known \in [runs : SUBSET Runs, turn : 0..MaxTurns, lost : BOOLEAN] /\ known.turn = 0 /\ turn \in 1..MaxTurns
  BY StopConstants DEF Init, NoKnown
<1>6. /\ stage \in [Runs -> Stages] /\ alive \in [Runs -> BOOLEAN] /\ prior \in [Runs -> BOOLEAN]
      /\ result \in [Runs -> BOOLEAN] /\ marked \in [Runs -> BOOLEAN] /\ control \in [Runs -> BOOLEAN]
  BY <1>3 DEF Init
<1>7. woken \subseteq Runs /\ parent = "busy" /\ request = "none" /\ answer = "none" /\ faults \in 0..MaxFaults
  BY StopConstants DEF Init
<1>8. TypeOK
  BY <1>2, <1>3, <1>4, <1>5, <1>6, <1>7 DEF TypeOK
<1>9. RunsInv
  BY DEF Init, RunsInv
<1>10. OpInv /\ AbortInv /\ AnswerInv
  BY <1>1, <1>4, <1>5, <1>7, StopConstants DEF OpInv, AbortInv, AnswerInv
<1> QED BY <1>1, <1>8, <1>9, <1>10 DEF IInv

\* Every step of the package, of agentd, of the forum's requests and every fault
\* keeps it.
LEMMA NextInv == IInv /\ [Next]_vars => IInv'
<1> SUFFICES ASSUME IInv, [Next]_vars PROVE IInv'
  OBVIOUS
<1>1. ASSUME NEW r \in Runs,
             Register(r) \/ Spawn(r) \/ Finish(r) \/ Exit(r) \/ Wake(r) \/ MarkFails(r) \/ ControlLost(r)
      PROVE  IInv'
  BY <1>1, RegisterInv, SpawnInv, FinishInv, ExitInv, WakeInv, MarkFailsInv, ControlLostInv
<1>2. ASSUME NEW r \in Runs, ReadRun(r) \/ MarkRun(r) PROVE IInv'
  BY <1>2, ReadRunInv, MarkRunInv
<1>3. CASE List \/ Complete \/ TurnEnds \/ Stop \/ ReadRecord \/ Reconcile
  BY <1>3, ListInv, CompleteInv, TurnEndsInv, StopInv, ReadRecordInv, ReconcileInv
<1>4. CASE ScanFails \/ AgentdRestarts \/ ContainerRestarts \/ Reopen
  BY <1>4, ScanFailsInv, AgentdRestartsInv, ContainerRestartsInv, ReopenInv
<1>5. CASE UNCHANGED vars
  <2>1. TypeOK /\ RunsInv
    BY DEF IInv
  <2>2. UNCHANGED <<stage, prior, result, marked, control, alive, parent, turn, woken, operation, faults>>
    BY <1>5 DEF vars, disk, session
  <2>3. World /\ RunsInv'
    BY <2>1, <2>2, WorldStill DEF Marked
  <2>4. TypeOK' /\ turn <= turn' /\ (TurnOver => TurnOver')
    BY <2>1, <2>2, StopConstants DEF TypeOK, TurnOver, operation
  <2> QED BY <2>2, <2>3, <2>4, WorldInv
<1> QED BY <1>1, <1>2, <1>3, <1>4, <1>5 DEF Next, Proceed

\* The invariant holds always.
THEOREM Inductive == Spec => []IInv
<1>1. Init => IInv
  BY InitInv
<1>2. IInv /\ [Next]_vars => IInv'
  BY NextInv
<1> QED BY <1>1, <1>2, PTL DEF Spec

\* The files, the parent, the operation and the attempt have their types in every
\* state.
THEOREM TypeCorrect == Spec => []TypeOK
<1>1. IInv => TypeOK
  BY DEF IInv
<1> QED BY <1>1, Inductive, PTL

\* When agentd answers that the robot is stopped, no run that was registered when
\* the stop began is alive or can wake the parent, nor is any that one of those
\* launched (execute's fixed point of scans, whatever changes under the scans).
THEOREM Stopped == Spec => []StoppedIsStopped
<1>1. IInv => StoppedIsStopped
  <2> SUFFICES ASSUME IInv, answer = "stopped"
               PROVE  /\ \A r \in known.runs : ~alive[r] /\ (result[r] => marked[r])
                      /\ \A r \in Runs : Launcher[r] \in known.runs => ~alive[r]
    BY DEF StoppedIsStopped
  <2>1. Proven(known.runs, Dead, Finished, Marked, Alive) /\ known.runs \subseteq Runs
    BY DEF IInv, AnswerInv, TypeOK
  <2>2. Alive \cap Dead = {}
    BY Living DEF IInv
  <2> QED BY <2>1, <2>2 DEF Proven, Kids, Dead, Alive, Finished, Marked
<1> QED BY <1>1, Inductive, PTL

\* Nor is the turn that was stopped still running, unless the request that saw its
\* abort time out was rejected (interruptSession, reconcileCancellationOperation).
THEOREM TurnStopped == Spec => []StoppedTurnIsOver
<1>1. IInv => StoppedTurnIsOver
  BY DEF IInv, AnswerInv, TurnOver, StoppedTurnIsOver
<1> QED BY <1>1, Inductive, PTL
=============================================================================
