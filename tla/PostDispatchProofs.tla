-------------------------- MODULE PostDispatchProofs --------------------------
(***************************************************************************)
(* Proofs about PostDispatch for every number of posts, stops, faults and  *)
(* events.                                                                 *)
(***************************************************************************)
EXTENDS PostDispatch, TLAPS

-----------------------------------------------------------------------------
(* The outbox operations keep the table well typed. *)

\* Settling a row changes its status, token and clock only.
LEMMA SettledRow ==
  ASSUME NEW r \in Row, NEW s \in Statuses
  PROVE  /\ Settled(r, s) \in Row
         /\ Settled(r, s).status = s /\ Settled(r, s).generation = r.generation
  BY DEF Settled, Row

\* Claiming a row makes it dispatching and keeps its generation.
LEMMA ClaimedRow ==
  ASSUME NEW r \in Row, NEW t \in Tokens, NEW c \in SUBSET Posts
  PROVE  /\ Claimed(r, t, c) \in Row
         /\ Claimed(r, t, c).status = "dispatching"
         /\ Claimed(r, t, c).generation = r.generation
         /\ Claimed(r, t, c).token = t
<1> DEFINE n == IF r.attempts < MaxAttempts THEN r.attempts + 1 ELSE r.attempts
<1>1. n \in 0..MaxAttempts
  BY OutboxBounds DEF Row
<1>2. Claimed(r, t, c) = [r EXCEPT !.status = "dispatching", !.token = t, !.ripe = FALSE,
                                   !.attempts = n, !.contributors = c]
  BY DEF Claimed
<1> HIDE DEF n
<1> QED
  BY <1>1, <1>2 DEF Row, Statuses

\* Retrying a failed row keeps its generation.
LEMMA RequeuedRow ==
  ASSUME NEW r \in Row
  PROVE  Requeued(r) \in Row /\ Requeued(r).generation = r.generation
<1>1. 0 \in 0..MaxAttempts
  BY OutboxBounds
<1> QED
  BY <1>1 DEF Requeued, Row, Statuses

\* A new post's row is well typed and belongs to the current generation.
LEMMA CreateTyped ==
  ASSUME NEW R \in Rows, NEW g \in Nat, NEW p \in Posts, NEW o \in Origins, NEW s \in BOOLEAN
  PROVE  createPostDispatch(R, g, p, o, s) \in Rows
  BY OutboxBounds DEF createPostDispatch, Rows, Row, Statuses, Posts

\* Claiming a group keeps the table well typed.
LEMMA ClaimTyped ==
  ASSUME NEW R \in Rows, NEW G \in SUBSET Posts, NEW p \in G, NEW t \in Tokens
  PROVE  claimPostDispatchGroup(R, G, p, t) \in Rows
<1> DEFINE a == IF R[p].status = "pending" THEN G \ {p} ELSE {}
           c == R[p].contributors \cup a
<1>1. R[p] \in Row /\ a \in SUBSET Posts /\ c \in SUBSET Posts
  BY DEF Rows, Row
<1>2. Claimed(R[p], t, c) \in Row
  BY <1>1, ClaimedRow
<1>3. \A q \in Posts : R[q] \in Row /\ Settled(R[q], "superseded") \in Row
  BY SettledRow DEF Rows, Statuses
<1>4. claimPostDispatchGroup(R, G, p, t)
        = [q \in Posts |-> IF q = p THEN Claimed(R[q], t, R[q].contributors \cup a)
                           ELSE IF q \in a THEN Settled(R[q], "superseded") ELSE R[q]]
  BY DEF claimPostDispatchGroup
<1> HIDE DEF a
<1> QED
  BY <1>2, <1>3, <1>4 DEF Rows

\* So do the single-row operations, whoever calls them.
LEMMA MarkTyped ==
  ASSUME NEW R \in Rows, NEW g \in Nat, NEW p \in Posts, NEW t, NEW b
  PROVE  /\ markPostDispatchDispatched(R, g, p, t) \in Rows
         /\ markPostDispatchFailed(R, g, p, t, b) \in Rows
         /\ markPostDispatchAbandoned(R, g, p) \in Rows
         /\ retryTerminalPostDispatch(R, g, p) \in Rows
<1>1. R[p] \in Row /\ \A s \in Statuses : Settled(R[p], s) \in Row
  BY SettledRow DEF Rows
<1>2. markPostDispatchDispatched(R, g, p, t) \in Rows
  BY <1>1 DEF markPostDispatchDispatched, Rows, Statuses
<1>3. markPostDispatchFailed(R, g, p, t, b) \in Rows
  BY <1>1 DEF markPostDispatchFailed, Rows, Statuses
<1>4. markPostDispatchAbandoned(R, g, p) \in Rows
  BY <1>1 DEF markPostDispatchAbandoned, Rows, Statuses
<1>5. retryTerminalPostDispatch(R, g, p) \in Rows
  <2>1. Requeued(R[p]) \in Row
    BY <1>1, RequeuedRow
  <2> QED
    BY <2>1 DEF retryTerminalPostDispatch, Rows
<1> QED
  BY <1>2, <1>3, <1>4, <1>5

\* And the two that supersede.
LEMMA SupersedeTyped ==
  ASSUME NEW R \in Rows, NEW g \in Nat
  PROVE  supersedeActive(R) \in Rows /\ reconcilePostDispatchGenerations(R, g) \in Rows
<1>1. \A q \in Posts : R[q] \in Row /\ Settled(R[q], "superseded") \in Row
  BY SettledRow DEF Rows, Statuses
<1> QED
  BY <1>1 DEF supersedeActive, reconcilePostDispatchGenerations, Rows

-----------------------------------------------------------------------------
(* The fence of a branch whose generations never decrease. *)

Ordered(b) == \A i, j \in DOMAIN b : i <= j => b[i].generation <= b[j].generation

\* The fence of an ordered branch is the generation of its last entry.
LEMMA FenceIsLast ==
  ASSUME NEW b \in Seq(Entry), Ordered(b)
  PROVE  /\ b = <<>> => fenceGeneration(b) = 0
         /\ b # <<>> => fenceGeneration(b) = b[Len(b)].generation
         /\ fenceGeneration(b) \in Nat
         /\ \A i \in DOMAIN b : b[i].generation <= fenceGeneration(b)
<1> DEFINE S == {0} \cup {b[i].generation : i \in DOMAIN b}
           m == IF b = <<>> THEN 0 ELSE b[Len(b)].generation
<1>1. \A i \in DOMAIN b : b[i].generation \in Nat
  BY DEF Entry
<1>2. m \in S /\ \A i \in DOMAIN b : b[i].generation <= m
  BY <1>1 DEF Ordered
<1>3. \A g \in S : (\A i \in DOMAIN b : b[i].generation <= g) => g = m
  <2> SUFFICES ASSUME NEW g \in S, \A i \in DOMAIN b : b[i].generation <= g PROVE g = m
    OBVIOUS
  <2>1. CASE b = <<>>
    BY <2>1
  <2>2. CASE b # <<>>
    <3>1. Len(b) \in DOMAIN b /\ m = b[Len(b)].generation
      BY <2>2
    <3>2. m \in Nat /\ g \in Nat /\ m <= g
      BY <3>1, <1>1
    <3>3. g <= m
      BY <1>2, <3>2
    <3> QED
      BY <3>2, <3>3
  <2> QED
    BY <2>1, <2>2
<1>4. fenceGeneration(b) = m
  <2> HIDE DEF m
  <2>1. fenceGeneration(b) \in S /\ \A i \in DOMAIN b : b[i].generation <= fenceGeneration(b)
    BY <1>2 DEF fenceGeneration
  <2> HIDE DEF S
  <2> QED
    BY <1>3, <2>1
<1>5. m \in Nat
  BY <1>1
<1> QED
  BY <1>2, <1>4, <1>5

\* An entry at or above the fence moves the fence to its generation.
LEMMA FenceAfterAppend ==
  ASSUME NEW b \in Seq(Entry), Ordered(b), NEW e \in Entry, e.generation >= fenceGeneration(b)
  PROVE  /\ Append(b, e) \in Seq(Entry) /\ Ordered(Append(b, e))
         /\ fenceGeneration(Append(b, e)) = e.generation
<1>1. fenceGeneration(b) \in Nat /\ \A i \in DOMAIN b : b[i].generation <= fenceGeneration(b)
  BY FenceIsLast
<1>2. e.generation \in Nat /\ \A i \in DOMAIN b : b[i].generation \in Nat
  BY DEF Entry
<1>3. Append(b, e) \in Seq(Entry)
  OBVIOUS
<1>4. /\ \A i \in DOMAIN b : Append(b, e)[i] = b[i]
      /\ Append(b, e)[Len(b) + 1] = e /\ Len(Append(b, e)) = Len(b) + 1
      /\ DOMAIN Append(b, e) = 1..(Len(b) + 1) /\ DOMAIN b = 1..Len(b) /\ Len(b) \in Nat
  OBVIOUS
<1>5. \A i \in DOMAIN b : b[i].generation <= e.generation
  BY <1>1, <1>2
<1>6. Ordered(Append(b, e))
  BY <1>2, <1>4, <1>5 DEF Ordered
<1>7. Append(b, e) # <<>>
  BY <1>4
<1> QED
  BY <1>3, <1>4, <1>6, <1>7, FenceIsLast

\* What serving a stop does to the fence.
LEMMA FenceAfterAdvance ==
  ASSUME NEW b \in Seq(Entry), Ordered(b), NEW g \in Nat
  PROVE  /\ advanceDispatchFence(b, g) \in Seq(Entry) /\ Ordered(advanceDispatchFence(b, g))
         /\ fenceGeneration(advanceDispatchFence(b, g))
              = IF g <= fenceGeneration(b) THEN fenceGeneration(b) ELSE g
<1> DEFINE e == [kind |-> "interrupt-fence", dispatchId |-> NoDispatch, generation |-> g]
<1>1. e \in Entry /\ e.generation = g
  BY DEF Entry
<1>2. fenceGeneration(b) \in Nat
  BY FenceIsLast
<1>3. CASE g <= fenceGeneration(b)
  BY <1>3 DEF advanceDispatchFence
<1>4. CASE ~(g <= fenceGeneration(b))
  <2>1. advanceDispatchFence(b, g) = Append(b, e)
    BY <1>4 DEF advanceDispatchFence
  <2> HIDE DEF e
  <2>2. e.generation >= fenceGeneration(b)
    BY <1>1, <1>2, <1>4
  <2> QED
    BY <1>1, <1>4, <2>1, <2>2, FenceAfterAppend
<1> QED
  BY <1>3, <1>4

-----------------------------------------------------------------------------
(***************************************************************************)
(* Type correctness.  That the generation stays within its bound needs the *)
(* number of stops that are left, and that the requests are well typed     *)
(* needs a busy worker to have a post and a token.                         *)
(***************************************************************************)

StopsBoundGen == \A c \in Stops : stops[c].st = "unused" => gen < c

WorkerBusy == worker.pc # "idle" => worker.post \in Posts /\ worker.token \in Tokens

TypeInv == TypeOK /\ StopsBoundGen /\ WorkerBusy

\* The initial state is well typed.
LEMMA TypeInit == Init => TypeInv
<1> SUFFICES ASSUME Init PROVE TypeInv
  OBVIOUS
<1> USE DispatchBounds DEF Init
<1>1. NoRow \in Row
  BY OutboxBounds, OriginsExist DEF NoRow, Row, Statuses
<1>2. rows \in Rows /\ gen \in Generations
  BY <1>1 DEF Rows, Generations
<1>3. activity \in Activities /\ checkpoints \subseteq Posts
  BY DEF Activities
<1>10. link \in BOOLEAN /\ thread \in BOOLEAN /\ up \in BOOLEAN /\ held \in BOOLEAN
  <2>1. thread \in BOOLEAN /\ up \in BOOLEAN
    BY Zenon
  <2>2. PICK x \in Starts : /\ link = (x \in {"imported", "cloned"})
                            /\ held \in {FALSE, "branching" \in Features /\ x = "cloned"}
    BY Zenon
  <2>3. link \in BOOLEAN
    <3>1. (x \in {"imported", "cloned"}) \in BOOLEAN
      BY SMT
    <3> QED
      BY <2>2, <3>1
  <2>4. held = FALSE \/ held = ("branching" \in Features /\ x = "cloned")
    BY <2>2, Zenon
  <2> QED
    BY <2>1, <2>3, <2>4, Zenon
<1>4. worker \in Worker /\ recon \in Recon /\ WorkerBusy
  BY DEF Worker, NoWorker, Recon, NoRecon, Generations, WorkerBusy, Replies
<1>5. stops \in [Stops -> Stop] /\ StopsBoundGen
  BY DEF Stops, Stop, Generations, StopsBoundGen
<1>6. closing \in {"no", "asked", "closed"} /\ reqs \subseteq Request /\ faults \in 0..MaxFaults
  OBVIOUS
<1>9. loaded \in BOOLEAN /\ turn \in BOOLEAN
  BY Zenon
<1>8. evts \in Seq(Event) /\ branch \in Seq(Entry)
  OBVIOUS
<1>7. canc \in [Generations -> Cancelled \cup {"none"}]
  OBVIOUS
<1> QED
  BY <1>2, <1>3, <1>4, <1>5, <1>6, <1>7, <1>8, <1>9, <1>10 DEF TypeInv, TypeOK

\* The outbox: rows stay rows, and the worker that claims has a post and a token.
LEMMA TypeOutbox == TypeInv /\ OutboxStep => TypeInv'
<1> SUFFICES ASSUME TypeInv, OutboxStep PROVE TypeInv'
  OBVIOUS
<1> USE DEF TypeInv, TypeOK, StopsBoundGen, WorkerBusy, forumDb, freeze, process, network, agentd
<1>1. gen \in Nat
  BY DispatchBounds DEF Generations
<1>2. ASSUME NEW p \in Posts, NEW o \in Origins, NEW solo \in SoloChoices, CreatePost(p, o, solo)
      PROVE  TypeInv'
  BY <1>1, <1>2, CreateTyped, SoloIsBoolean DEF CreatePost
<1>3. ASSUME NEW p \in Posts, RetryFailed(p) PROVE TypeInv'
  BY <1>1, <1>3, MarkTyped DEF RetryFailed
<1>4. ASSUME NEW p \in Posts, Ripen(p) PROVE TypeInv'
  <2>1. [rows EXCEPT ![p].ripe = TRUE] \in Rows
    BY DEF Rows, Row
  <2> QED
    BY <1>4, <2>1 DEF Ripen
<1>5. ASSUME NEW p \in Posts, AbandonHead(p) PROVE TypeInv'
  BY <1>1, <1>5, MarkTyped DEF AbandonHead
<1>6. ASSUME NEW head \in Posts, Claim(head) PROVE TypeInv'
  <2> DEFINE group == Group(rows, gen, head)
             token == CHOOSE t \in FreshTokens : TRUE
  <2>1. group \in SUBSET Posts
    BY DEF Group, pendingForTopic
  <2>2. token \in Tokens
    BY <1>6 DEF Claim, FreshTokens
  <2>3. PICK trigger \in group :
            /\ \/ /\ rows' = claimPostDispatchGroup(rows, group, trigger, token)
                  /\ worker' = Opening(trigger, token)
               \/ /\ rows' = markPostDispatchFailed(
                                claimPostDispatchGroup(rows, group, trigger, token), gen, trigger,
                                token, retryAtForAttempt(
                                  claimPostDispatchGroup(rows, group, trigger, token)[trigger]))
                  /\ worker' = NoWorker
            /\ UNCHANGED <<gen, activity, link, thread, freeze, up, stops, recon, closing, network,
                           agentd>>
    BY <1>6 DEF Claim, IsTrigger
  <2> HIDE DEF group, token
  <2>4. claimPostDispatchGroup(rows, group, trigger, token) \in Rows
    BY <2>1, <2>2, <2>3, ClaimTyped
  <2>5. rows' \in Rows
    <3> DEFINE claimed == claimPostDispatchGroup(rows, group, trigger, token)
    <3>1. trigger \in Posts /\ claimed \in Rows
      BY <2>1, <2>3, <2>4
    <3>2. \E b : rows' = claimed \/ rows' = markPostDispatchFailed(claimed, gen, trigger, token, b)
      BY <2>3
    <3> HIDE DEF claimed
    <3> QED
      BY <1>1, <3>1, <3>2, MarkTyped
  <2>6. worker' \in Worker /\ (worker'.pc # "idle" => worker'.post \in Posts /\ worker'.token \in Tokens)
    <3>1. trigger \in Posts
      BY <2>1, <2>3
    <3>2. Opening(trigger, token) \in Worker /\ NoWorker \in Worker
      BY <2>2, <3>1 DEF Opening, NoWorker, Worker, Replies
    <3>3. /\ Opening(trigger, token).post = trigger /\ Opening(trigger, token).token = token
          /\ NoWorker.pc = "idle"
      BY DEF Opening, NoWorker
    <3> QED
      BY <2>2, <2>3, <3>1, <3>2, <3>3
  <2> QED
    BY <2>3, <2>5, <2>6
<1>7. ASSUME NEW p \in Posts, finishCompactionSuccess(p) PROVE TypeInv'
  <2>1. rows' \in Rows
    <3>1. PICK origin \in Origins : rows' = createPostDispatch(rows, gen, p, origin, TRUE)
      BY <1>7 DEF finishCompactionSuccess
    <3> QED
      BY <1>1, <3>1, CreateTyped
  <2>2. held' \in BOOLEAN
    BY <1>7, Zenon DEF finishCompactionSuccess
  <2>3. checkpoints' \subseteq Posts
    BY <1>7 DEF finishCompactionSuccess
  <2> QED
    BY <1>7, <2>1, <2>2, <2>3 DEF finishCompactionSuccess
<1> QED
  BY <1>2, <1>3, <1>4, <1>5, <1>6, <1>7 DEF OutboxStep

\* The worker's steps, its failures included.
LEMMA TypeWorker == TypeInv /\ (WorkerStep \/ TransportFailure) => TypeInv'
<1> SUFFICES ASSUME TypeInv, WorkerStep \/ TransportFailure PROVE TypeInv'
  OBVIOUS
<1> USE DEF TypeInv, TypeOK, StopsBoundGen, WorkerBusy, forumDb, freeze, process, network, agentd
<1>1. gen \in Nat
  BY DispatchBounds DEF Generations
<1>2. NoWorker \in Worker /\ NoWorker.pc = "idle"
  BY DEF NoWorker, Worker, Replies
<1>3. Quieted(activity) \in Activities
  BY DEF Quieted, setRobotActivity, Activities, Cancelled
<1>4. CASE OpenDead
  BY <1>3, <1>4 DEF OpenDead
<1>5. CASE OpenLoaded
  BY <1>5 DEF OpenLoaded, Worker
<1>6. CASE OpenSession
  BY <1>6 DEF OpenSession, Worker
<1>7. CASE LinkSession
  BY <1>7 DEF LinkSession, Worker
<1>8. CASE OpenRefused
  <2>1. faults' \in 0..MaxFaults
    BY <1>8, DispatchBounds DEF OpenRefused
  <2>2. worker' \in Worker /\ worker'.post = worker.post /\ worker'.token = worker.token
    BY <1>8 DEF OpenRefused, Worker, Replies
  <2> QED
    BY <1>8, <2>1, <2>2 DEF OpenRefused
<1>9. CASE Send
  <2>1. rows[worker.post].generation \in Nat
    BY <1>9 DEF Send, Rows, Row
  <2>2. reqs' \subseteq Request
    BY <1>9, <2>1 DEF Send, Request
  <2>3. worker' \in Worker /\ worker'.post = worker.post /\ worker'.token = worker.token
    BY <1>9 DEF Send, Worker
  <2> QED
    BY <1>9, <2>2, <2>3 DEF Send
<1>10. CASE ApplicationFailure
  BY <1>1, <1>2, <1>10, MarkTyped DEF ApplicationFailure
<1>11. CASE DispatchSettled
  BY <1>1, <1>2, <1>11, MarkTyped DEF DispatchSettled, Activities
<1>12. CASE DispatchRefused
  BY <1>1, <1>2, <1>12, MarkTyped DEF DispatchRefused
<1>13. CASE TransportFailure
  <2>1. faults' \in 0..MaxFaults
    BY <1>13, DispatchBounds DEF TransportFailure
  <2>2. rows' \in Rows
    BY <1>1, <1>13, MarkTyped DEF TransportFailure
  <2> QED
    BY <1>2, <1>13, <2>1, <2>2 DEF TransportFailure
<1> QED
  BY <1>4, <1>5, <1>6, <1>7, <1>8, <1>9, <1>10, <1>11, <1>12, <1>13 DEF WorkerStep

\* agentd's message handler.
LEMMA TypeMessage ==
  ASSUME TypeInv, NEW r \in reqs, MessageStep(r)
  PROVE  TypeInv'
<1> USE DEF TypeInv, TypeOK, StopsBoundGen, WorkerBusy, forumDb, freeze, process, network, agentd
<1>1. r \in Request
  OBVIOUS
<1>2. ASSUME NEW reply \in Replies, Answer(r, reply)
      PROVE  /\ reqs' \subseteq Request /\ worker' \in Worker
             /\ worker'.pc # "idle" => worker'.post \in Posts /\ worker'.token \in Tokens
  BY <1>2 DEF Answer, Worker
<1>3. CASE MessageRefused(r)
  <2>1. faults' \in 0..MaxFaults
    BY <1>3, DispatchBounds DEF MessageRefused
  <2> QED
    BY <1>2, <1>3, <2>1 DEF MessageRefused, Replies
<1>4. CASE MessageNotReady(r)
  BY <1>2, <1>4 DEF MessageNotReady, Replies
<1>5. CASE MessageAccepted(r)
  <2>1. acceptDispatch(branch, r.post, r.generation) \in Seq(Entry)
    BY <1>1, DispatchesArePosts DEF acceptDispatch, Entry, Request
  <2> QED
    BY <1>2, <1>5, <2>1 DEF MessageAccepted, Replies
<1>6. CASE RequestLost(r)
  BY <1>6 DEF RequestLost
<1> QED
  BY <1>3, <1>4, <1>5, <1>6 DEF MessageStep

\* The generation a new or repeated stop works with stays within the bound.
LEMMA FenceForStopTyped ==
  ASSUME TypeInv, NEW c \in Stops, NextStop(c)
  PROVE  /\ FenceForStop.generation \in Generations /\ FenceForStop.rows \in Rows
         /\ FenceForStop.generation >= gen /\ FenceForStop.generation <= c
<1>1. gen \in Nat /\ c \in Nat /\ c <= MaxStops /\ gen < c
  BY DispatchBounds DEF TypeInv, TypeOK, StopsBoundGen, NextStop, Generations, Stops
<1>2. supersedeActive(rows) \in Rows /\ rows \in Rows
  BY <1>1, SupersedeTyped DEF TypeInv, TypeOK
<1> QED
  BY <1>1, <1>2, DispatchBounds DEF FenceForStop, Generations

\* Serving a stop keeps its type and its generation.
LEMMA ServedStop ==
  ASSUME NEW stop \in Stop, NEW state \in Cancelled
  PROVE  /\ Served(stop, state) \in Stop
         /\ Served(stop, state).st \in {"answered", "done"}
         /\ Served(stop, state).generation = stop.generation
         /\ Served(stop, state).state = state
<1> DEFINE st == IF stop.st = "sent" THEN "answered" ELSE "done"
<1>1. Served(stop, state) = [stop EXCEPT !.st = st, !.state = state]
  BY DEF Served
<1>2. st \in {"answered", "done"}
  OBVIOUS
<1> HIDE DEF st
<1> QED
  BY <1>1, <1>2 DEF Stop

\* So does giving it up.
LEMMA GivenUpStop ==
  ASSUME NEW stop \in Stop
  PROVE  /\ GivenUp(stop) \in Stop
         /\ GivenUp(stop).st \in {"orphan", "done"}
         /\ GivenUp(stop).generation = stop.generation
         /\ GivenUp(stop).state = "uncertain"
<1> DEFINE st == IF stop.st = "sent" THEN "orphan" ELSE "done"
<1>1. GivenUp(stop) = [stop EXCEPT !.st = st, !.state = "uncertain"]
  BY DEF GivenUp
<1>2. st \in {"orphan", "done"}
  OBVIOUS
<1> HIDE DEF st
<1> QED
  BY <1>1, <1>2 DEF Stop, Cancelled, Unresolved

\* What a crash of agentd does to the stops under way.
LEMMA DeathOfStops ==
  ASSUME TypeInv, AgentdDies
  PROVE  stops' \in [Stops -> Stop] /\ StopsBoundGen'
<1> DEFINE new(d) == CASE stops[d].st = "sent" -> "lost"
                       [] stops[d].st = "orphan" -> "done"
                       [] OTHER -> stops[d].st
<1>1. stops \in [Stops -> Stop] /\ gen' = gen /\ StopsBoundGen
  BY DEF TypeInv, TypeOK, AgentdDies, forumDb
<1>2. stops' = [d \in Stops |-> [stops[d] EXCEPT !.st = new(d)]]
  BY DEF AgentdDies
<1>3. \A d \in Stops : /\ new(d) \in {"unused", "sent", "answered", "orphan", "lost", "done",
                                     "unasked"}
                       /\ new(d) = "unused" => stops[d].st = "unused"
  BY <1>1 DEF Stop
<1> HIDE DEF new
<1>4. stops' \in [Stops -> Stop]
  BY <1>1, <1>2, <1>3 DEF Stop
<1>5. \A d \in Stops : stops'[d].st = new(d)
  BY <1>1, <1>2 DEF Stop
<1> QED
  BY <1>1, <1>3, <1>4, <1>5 DEF StopsBoundGen

\* Stop Robot, on both sides.
LEMMA TypeStop == TypeInv /\ StopStep => TypeInv'
<1> SUFFICES ASSUME TypeInv, NEW c \in Stops,
                    \/ StopLinked(c) \/ StopUnlinked(c) \/ AgentdRefusesStop(c)
                    \/ \E s \in Cancelled : AgentdStops(c, s)
                    \/ StopReturns(c) \/ StopFails(c) \/ AgentdCrashInStop(c)
             PROVE  TypeInv'
  BY DEF StopStep
<1> USE DEF TypeInv, TypeOK, StopsBoundGen, WorkerBusy, forumDb, freeze, process, network, agentd
<1>1. /\ stops[c] \in Stop /\ stops[c].generation \in Generations /\ stops[c].generation \in Nat
      /\ stops[c].state \in Cancelled \cup {"none"}
  BY DispatchBounds DEF Stop, Generations
<1>2. \A d \in Stops : d \in Nat
  BY DEF Stops
<1>3. ASSUME NEW g \in Generations, NEW st, NEW state \in Cancelled \cup {"none"},
             st \in {"sent", "unasked"}, NextStop(c), gen' = g, g <= c,
             stops' = [stops EXCEPT ![c] = [st |-> st, generation |-> g, state |-> state]]
      PROVE  stops' \in [Stops -> Stop] /\ StopsBoundGen'
  <2>1. g \in Nat
    BY DispatchBounds DEF Generations
  <2>2. stops' \in [Stops -> Stop]
    BY <1>3 DEF Stop
  <2>3. ASSUME NEW d \in Stops, stops'[d].st = "unused" PROVE g < d
    <3>1. d # c /\ stops[d].st = "unused"
      BY <1>3, <2>3
    <3>2. ~(d \in 1..(c-1))
      BY <1>3, <3>1 DEF NextStop
    <3> QED
      BY <1>2, <1>3, <2>1, <3>1, <3>2 DEF Stops
  <2> QED
    BY <1>3, <2>2, <2>3
<1>4. CASE StopLinked(c)
  <2>1. NextStop(c) /\ gen' = FenceForStop.generation /\ rows' = FenceForStop.rows
    BY <1>4 DEF StopLinked
  <2>2. stops' \in [Stops -> Stop] /\ StopsBoundGen'
    BY <1>3, <1>4, <2>1, FenceForStopTyped DEF StopLinked
  <2>3. activity' \in Activities
    BY <1>4 DEF StopLinked, setRobotActivity, Activities, Cancelled, Unresolved
  <2> QED
    BY <1>4, <2>1, <2>2, <2>3, FenceForStopTyped DEF StopLinked
<1>5. CASE StopUnlinked(c)
  <2> DEFINE state == IF activity \in {"none", "idle", "stopped"} THEN "stopped" ELSE "uncertain"
  <2>1. NextStop(c) /\ gen' = FenceForStop.generation /\ rows' = FenceForStop.rows
    BY <1>5 DEF StopUnlinked
  <2>2. state \in Cancelled
    BY DEF Cancelled, Unresolved
  <2>3. stops' = [stops EXCEPT ![c] = [st |-> "unasked", generation |-> gen', state |-> state]]
    BY <1>5 DEF StopUnlinked
  <2>4. activity' \in Activities
    BY <1>5, <2>2 DEF StopUnlinked, setRobotActivity, Activities
  <2> HIDE DEF state
  <2>5. stops' \in [Stops -> Stop] /\ StopsBoundGen'
    BY <1>3, <2>1, <2>2, <2>3, FenceForStopTyped
  <2> QED
    BY <1>5, <2>1, <2>4, <2>5, FenceForStopTyped DEF StopUnlinked
<1>6. ASSUME NEW state \in Cancelled, stops' = StopServed(c, state), gen' = gen,
             stops[c].st \in {"sent", "orphan"}
      PROVE  stops' \in [Stops -> Stop] /\ StopsBoundGen'
  <2>1. stops' \in [Stops -> Stop]
    BY <1>1, <1>6, ServedStop DEF StopServed
  <2>2. \A d \in Stops : stops'[d].st = "unused" => stops[d].st = "unused"
    BY <1>1, <1>6, ServedStop DEF StopServed
  <2> QED
    BY <1>6, <2>1, <2>2
<1>7. ASSUME NEW s \in Cancelled, AgentdStops(c, s) PROVE TypeInv'
  <2>1. stops' \in [Stops -> Stop] /\ StopsBoundGen'
    BY <1>6, <1>7 DEF AgentdStops
  <2>2. branch' \in Seq(Entry)
    BY <1>1, <1>7 DEF AgentdStops, advanceDispatchFence, Entry
  <2>3. evts' \in Seq(Event)
    <3>1. [kind |-> "interrupted", generation |-> stops[c].generation, state |-> s] \in Event
      BY <1>1 DEF Event
    <3> QED
      BY <1>7, <3>1 DEF AgentdStops, Emitted
  <2>4. canc' \in [Generations -> Cancelled \cup {"none"}] /\ turn' \in BOOLEAN
    BY <1>7, Zenon DEF AgentdStops
  <2> QED
    BY <1>7, <2>1, <2>2, <2>3, <2>4 DEF AgentdStops
<1>8. CASE AgentdRefusesStop(c)
  <2>1. stops' \in [Stops -> Stop] /\ StopsBoundGen'
    BY <1>6, <1>8 DEF AgentdRefusesStop, Cancelled, Unresolved
  <2> QED
    BY <1>8, <2>1 DEF AgentdRefusesStop
<1>9. CASE StopReturns(c)
  <2>1. stops' \in [Stops -> Stop] /\ StopsBoundGen'
    BY <1>9 DEF StopReturns, Stop
  <2>2. activity' \in Activities
    BY <1>1, <1>9 DEF StopReturns, setRobotActivity, Activities
  <2> QED
    BY <1>9, <2>1, <2>2 DEF StopReturns
<1>10. CASE StopFails(c)
  <2>1. stops' \in [Stops -> Stop] /\ StopsBoundGen'
    <3>1. stops' \in [Stops -> Stop]
      BY <1>1, <1>10, GivenUpStop DEF StopFails
    <3>2. \A d \in Stops : stops'[d].st = "unused" => stops[d].st = "unused"
      BY <1>1, <1>10, GivenUpStop DEF StopFails
    <3> QED
      BY <1>10, <3>1, <3>2 DEF StopFails
  <2>2. activity' \in Activities
    BY <1>10 DEF StopFails, setRobotActivity, Activities, Cancelled, Unresolved
  <2>3. faults' \in 0..MaxFaults
    BY <1>10, DispatchBounds DEF StopFails
  <2> QED
    BY <1>10, <2>1, <2>2, <2>3 DEF StopFails
<1>11. CASE AgentdCrashInStop(c)
  <2>1. stops' \in [Stops -> Stop] /\ StopsBoundGen'
    BY <1>11, DeathOfStops DEF AgentdCrashInStop
  <2>2. branch' \in Seq(Entry)
    BY <1>1, <1>11 DEF AgentdCrashInStop, advanceDispatchFence, Entry
  <2>3. canc' \in [Generations -> Cancelled \cup {"none"}]
    BY <1>1, <1>11 DEF AgentdCrashInStop, Cancelled, Unresolved
  <2>4. faults' \in 0..MaxFaults
    BY <1>11, DispatchBounds DEF AgentdCrashInStop, AgentdDies
  <2>5. evts' \in Seq(Event) /\ reqs' \subseteq Request
    BY <1>11 DEF AgentdCrashInStop, AgentdDies
  <2>6. loaded' \in BOOLEAN /\ turn' \in BOOLEAN
    BY <1>11, Zenon DEF AgentdCrashInStop, AgentdDies
  <2> QED
    BY <1>11, <2>1, <2>2, <2>3, <2>4, <2>5, <2>6 DEF AgentdCrashInStop, AgentdDies
<1> QED
  BY <1>4, <1>5, <1>7, <1>8, <1>9, <1>10, <1>11

\* The reconciliation pass.
LEMMA TypeReconcile == TypeInv /\ ReconcileStep => TypeInv'
<1> SUFFICES ASSUME TypeInv, ReconcileStep PROVE TypeInv'
  OBVIOUS
<1> USE DEF TypeInv, TypeOK, StopsBoundGen, WorkerBusy, forumDb, freeze, process, network, agentd
<1>1. NoRecon \in Recon
  BY DispatchBounds DEF NoRecon, Recon, Generations
<1>2. CASE ReconcileAsks
  <2>1. recon' \in Recon
    BY <1>2, DispatchBounds DEF ReconcileAsks, Recon, Generations
  <2> QED
    BY <1>2, <2>1 DEF ReconcileAsks
<1>3. CASE ReconcileHasNothing
  BY <1>1, <1>3 DEF ReconcileHasNothing
<1>4. CASE ReconcileApplies
  <2>1. activity' \in Activities
    BY <1>4 DEF ReconcileApplies, ApplyReconciliation, Recon, Activities
  <2> QED
    BY <1>1, <1>4, <2>1 DEF ReconcileApplies
<1>5. CASE ReconcileFails
  <2>1. activity' \in Activities
    BY <1>5 DEF ReconcileFails, ApplyReconciliation, Activities, Cancelled, Unresolved
  <2> QED
    BY <1>1, <1>5, <2>1 DEF ReconcileFails
<1>6. ASSUME NEW s \in Cancelled, AgentdReconciles(s) PROVE TypeInv'
  <2>1. recon' \in Recon
    <3>1. \/ recon' = [recon EXCEPT !.st = "answered"]
          \/ \E g \in Generations :
                recon' = [recon EXCEPT !.st = "answered", !.generation = g, !.state = s]
      BY <1>6 DEF AgentdReconciles
    <3>2. CASE recon' = [recon EXCEPT !.st = "answered"]
      BY <3>2 DEF Recon
    <3>3. ASSUME NEW g \in Generations,
                 recon' = [recon EXCEPT !.st = "answered", !.generation = g, !.state = s]
          PROVE  recon' \in Recon
      BY <3>3 DEF Recon
    <3> QED
      BY <3>1, <3>2, <3>3
  <2>2. canc' \in [Generations -> Cancelled \cup {"none"}]
    BY <1>6 DEF AgentdReconciles
  <2>3. turn' \in BOOLEAN
    BY <1>6, Zenon DEF AgentdReconciles
  <2> QED
    BY <1>6, <2>1, <2>2, <2>3 DEF AgentdReconciles
<1> QED
  BY <1>2, <1>3, <1>4, <1>5, <1>6 DEF ReconcileStep

\* The topic's other operations and automatic runs, the robot, its stream,
\* unloading, crashes and restarts.
StreamStep ==
    \/ SideStep
    \/ EmitBusy \/ EmitTurnEnd \/ ReceiveEvent
    \/ CloseAsks \/ AgentdCloses \/ CloseReturns \/ CloseFails
    \/ ForumCrash \/ ForumStarts \/ AgentdCrash \/ AgentdUnloads

\* Events, closing, crashes and restarts.
LEMMA TypeStream == TypeInv /\ StreamStep => TypeInv'
<1> SUFFICES ASSUME TypeInv, StreamStep PROVE TypeInv'
  OBVIOUS
<1> USE DEF TypeInv, TypeOK, StopsBoundGen, WorkerBusy, forumDb, freeze, process, network, agentd
<1>1. \A k \in {"busy", "completed", "error"} : TurnEvent(k) \in Event
  BY DispatchBounds DEF TurnEvent, Event, Generations
<1>2. Quieted(activity) \in Activities
  BY DEF Quieted, setRobotActivity, Activities, Cancelled
<1>3. CASE EmitBusy
  <2>1. evts' \in Seq(Event)
    BY <1>1, <1>3 DEF EmitBusy
  <2> QED
    BY <1>3, <2>1 DEF EmitBusy
<1>4. CASE EmitTurnEnd
  <2>1. evts' \in Seq(Event)
    <3>1. \A e \in Event : Append(evts, e) \in Seq(Event)
      OBVIOUS
    <3> QED
      BY <1>1, <1>4, <3>1 DEF EmitTurnEnd
  <2> QED
    BY <1>4, <2>1 DEF EmitTurnEnd
<1>5. CASE ReceiveEvent
  <2>1. evts' \in Seq(Event) /\ Head(evts) \in Event
    BY <1>5 DEF ReceiveEvent
  <2>2. Head(evts).kind = "interrupted" => Head(evts).state \in Cancelled \cup {"none"}
    BY <2>1 DEF Event
  <2>3. activity' \in Activities
    BY <1>5, <2>2 DEF ReceiveEvent, ProcessEvent, setRobotActivity, Activities
  <2> QED
    BY <1>5, <2>1, <2>3 DEF ReceiveEvent
<1>6. CASE CloseAsks
  BY <1>6 DEF CloseAsks
<1>7. CASE AgentdCloses
  <2>1. evts' \in Seq(Event)
    BY <1>1, <1>7 DEF AgentdCloses, Emitted
  <2> QED
    BY <1>7, <2>1 DEF AgentdCloses
<1>8. CASE CloseReturns
  <2>1. activity' \in Activities
    BY <1>8 DEF CloseReturns, setRobotActivity, Activities
  <2> QED
    BY <1>8, <2>1 DEF CloseReturns
<1>9. CASE CloseFails
  BY <1>9 DEF CloseFails
<1>10. CASE ForumCrash
  <2> DEFINE new(d) == CASE stops[d].st = "sent" -> "orphan"
                         [] stops[d].st \in {"answered", "lost"} -> "done"
                         [] OTHER -> stops[d].st
  <2>1. stops' = [d \in Stops |-> [stops[d] EXCEPT !.st = new(d)]]
    BY <1>10 DEF ForumCrash
  <2>2. \A d \in Stops : /\ new(d) \in {"unused", "sent", "answered", "orphan", "lost", "done",
                                     "unasked"}
                         /\ new(d) = "unused" => stops[d].st = "unused"
    BY DEF Stop
  <2> HIDE DEF new
  <2>3. stops' \in [Stops -> Stop]
    BY <2>1, <2>2 DEF Stop
  <2>4. \A d \in Stops : stops'[d].st = new(d)
    BY <2>1 DEF Stop
  <2>5. gen' = gen
    BY <1>10 DEF ForumCrash
  <2>6. StopsBoundGen'
    BY <2>2, <2>3, <2>4, <2>5
  <2>7. recon' \in Recon /\ closing' \in {"no", "asked", "closed"}
    <3>1. [NoRecon EXCEPT !.st = "due"] \in Recon
      BY DispatchBounds DEF NoRecon, Recon, Generations
    <3> QED
      BY <1>10, <3>1 DEF ForumCrash
  <2>8. worker' \in Worker /\ worker'.pc = "idle"
    BY <1>10 DEF ForumCrash, NoWorker, Worker, Replies
  <2>9. faults' \in 0..MaxFaults
    BY <1>10, DispatchBounds DEF ForumCrash
  <2>10. up' \in BOOLEAN
    BY <1>10, Zenon DEF ForumCrash
  <2> QED
    BY <1>2, <1>10, <2>3, <2>6, <2>7, <2>8, <2>9, <2>10 DEF ForumCrash
<1>11. CASE ForumStarts
  <2>1. gen \in Nat
    BY DispatchBounds DEF Generations
  <2>2. rows' \in Rows
    BY <1>11, <2>1, SupersedeTyped DEF ForumStarts
  <2>3. activity' \in Activities
    BY <1>2, <1>11 DEF ForumStarts, Activities
  <2>4. thread' \in BOOLEAN /\ up' \in BOOLEAN
    BY <1>11, Zenon DEF ForumStarts
  <2> QED
    BY <1>11, <2>2, <2>3, <2>4 DEF ForumStarts
<1>12. CASE AgentdCrash
  <2>1. stops' \in [Stops -> Stop] /\ StopsBoundGen'
    BY <1>12, DeathOfStops DEF AgentdCrash
  <2>2. faults' \in 0..MaxFaults
    BY <1>12, DispatchBounds DEF AgentdCrash, AgentdDies
  <2>3. evts' \in Seq(Event) /\ reqs' \subseteq Request
    BY <1>12 DEF AgentdCrash, AgentdDies
  <2>4. loaded' \in BOOLEAN /\ turn' \in BOOLEAN
    BY <1>12, Zenon DEF AgentdCrash, AgentdDies
  <2> QED
    BY <1>12, <2>1, <2>2, <2>3, <2>4 DEF AgentdCrash, AgentdDies
<1>13. CASE AgentdUnloads
  <2>1. evts' \in Seq(Event)
    BY <1>1, <1>13 DEF AgentdUnloads, Emitted
  <2> QED
    BY <1>13, <2>1 DEF AgentdUnloads
<1>14. CASE SideStep
  <2>1. activity' \in Activities
    BY <1>14 DEF SideStep, AcceptOperation, OperationEnds, DirectorWrites, Activities
  <2>2. held' \in BOOLEAN
    BY <1>14, Zenon DEF SideStep, AcceptOperation, OperationEnds, DirectorWrites
  <2> QED
    BY <1>14, <2>1, <2>2 DEF SideStep, AcceptOperation, OperationEnds, DirectorWrites
<1> QED
  BY <1>3, <1>4, <1>5, <1>6, <1>7, <1>8, <1>9, <1>10, <1>11, <1>12, <1>13, <1>14 DEF StreamStep

\* The groups of actions that the proofs below take one by one.
LEMMA NextSplits ==
  Next => \/ OutboxStep \/ WorkerStep \/ TransportFailure \/ StopStep \/ ReconcileStep \/ StreamStep
          \/ \E r \in reqs : MessageStep(r)
  BY Zenon DEF Next, StreamStep

\* Every step keeps the types.
LEMMA TypeNext == TypeInv /\ [Next]_vars => TypeInv'
<1>1. TypeInv /\ Next => TypeInv'
  BY NextSplits, TypeOutbox, TypeWorker, TypeMessage, TypeStop, TypeReconcile, TypeStream
<1>2. TypeInv /\ UNCHANGED vars => TypeInv'
  BY DEF TypeInv, TypeOK, StopsBoundGen, WorkerBusy, vars, forumDb, freeze, process, network, agentd
<1> QED
  BY <1>1, <1>2

\* TypeInv is an invariant.
LEMMA TypeInvariant == Spec => []TypeInv
  BY TypeInit, TypeNext, PTL DEF Spec

\* Every variable of the dispatch system keeps its type, whatever the number
\* of posts, stops, faults and events.
THEOREM TypeCorrect == Spec => []TypeOK
<1>1. TypeInv => TypeOK
  BY DEF TypeInv
<1> QED
  BY <1>1, TypeInvariant, PTL

-----------------------------------------------------------------------------
(***************************************************************************)
(* The fence.  Its generations are ordered and its identities unique       *)
(* because nothing is appended behind it, and no identity twice.           *)
(***************************************************************************)

FenceInv == NothingBehindFence /\ AcceptedOnce

\* The three things that can happen to the branch.
BranchMove ==
    \/ branch' = branch
    \/ \E r \in reqs : /\ inspectDispatch(branch, r.post, r.generation) = "ready"
                       /\ branch' = acceptDispatch(branch, r.post, r.generation)
    \/ \E c \in Stops : /\ stops[c].generation >= fenceGeneration(branch)
                        /\ branch' = advanceDispatchFence(branch, stops[c].generation)

\* Nothing else touches the branch.
LEMMA BranchMoves == [Next]_vars => BranchMove
<1> SUFFICES ASSUME [Next]_vars PROVE BranchMove
  OBVIOUS
<1> USE DEF BranchMove, forumDb, freeze, process, network, agentd
<1>1. CASE OutboxStep
  BY <1>1 DEF OutboxStep, CreatePost, RetryFailed, Ripen, AbandonHead, Claim,
              finishCompactionSuccess
<1>2. CASE WorkerStep \/ TransportFailure
  BY <1>2 DEF WorkerStep, OpenDead, OpenLoaded, OpenSession, LinkSession, OpenRefused, Send,
              ApplicationFailure, DispatchSettled, DispatchRefused, TransportFailure
<1>3. ASSUME NEW r \in reqs, MessageStep(r) PROVE BranchMove
  BY <1>3 DEF MessageStep, MessageRefused, MessageNotReady, MessageAccepted, RequestLost
<1>4. CASE StopStep
  BY <1>4 DEF StopStep, StopLinked, StopUnlinked, AgentdRefusesStop, AgentdStops, StopReturns,
              StopFails, AgentdCrashInStop
<1>5. CASE ReconcileStep
  BY <1>5 DEF ReconcileStep, ReconcileAsks, ReconcileHasNothing, ReconcileApplies,
              ReconcileFails, AgentdReconciles
<1>6. CASE StreamStep
  BY <1>6 DEF StreamStep, SideStep, AcceptOperation, OperationEnds, DirectorWrites,
              EmitBusy, EmitTurnEnd, ReceiveEvent, CloseAsks, AgentdCloses,
              CloseReturns, CloseFails, ForumCrash, ForumStarts, AgentdCrash, AgentdUnloads
<1>7. CASE UNCHANGED vars
  BY <1>7 DEF vars
<1> QED
  BY <1>1, <1>2, <1>3, <1>4, <1>5, <1>6, <1>7, NextSplits

\* A dispatch that inspects "ready" is new and not behind the fence.
LEMMA ReadyMeans ==
  ASSUME NEW b, NEW d, NEW g, inspectDispatch(b, d, g) = "ready"
  PROVE  d \notin accepted(b) /\ ~(g < fenceGeneration(b))
  BY DEF inspectDispatch

\* An append keeps the branch ordered and its identities unique, and the
\* fence never moves back.
LEMMA FenceStep ==
  ASSUME TypeInv, FenceInv, BranchMove
  PROVE  /\ FenceInv'
         /\ fenceGeneration(branch) \in Nat /\ fenceGeneration(branch') \in Nat
         /\ fenceGeneration(branch') >= fenceGeneration(branch)
<1>1. branch \in Seq(Entry) /\ Ordered(branch) /\ AcceptedOnce
  BY DEF TypeInv, TypeOK, FenceInv, NothingBehindFence, Ordered
<1>2. fenceGeneration(branch) \in Nat
  BY <1>1, FenceIsLast
<1>3. CASE branch' = branch
  BY <1>2, <1>3 DEF FenceInv, NothingBehindFence, AcceptedOnce
<1>4. ASSUME NEW r \in reqs, inspectDispatch(branch, r.post, r.generation) = "ready",
             branch' = acceptDispatch(branch, r.post, r.generation)
      PROVE  /\ FenceInv'
             /\ fenceGeneration(branch') \in Nat
             /\ fenceGeneration(branch') >= fenceGeneration(branch)
  <2> DEFINE e == [kind |-> "dispatch-accepted", dispatchId |-> r.post, generation |-> r.generation]
  <2>1. r.post \in Dispatches /\ r.generation \in Nat
    BY DispatchesArePosts DEF TypeInv, TypeOK, Request
  <2>2. e \in Entry /\ e.generation = r.generation /\ e.dispatchId = r.post
    BY <2>1 DEF Entry
  <2>3. branch' = Append(branch, e)
    BY <1>4 DEF acceptDispatch
  <2>4. r.post \notin accepted(branch) /\ r.generation >= fenceGeneration(branch)
    BY <1>2, <1>4, <2>1, ReadyMeans
  <2> HIDE DEF e
  <2>5. Ordered(branch') /\ fenceGeneration(branch') = e.generation
    BY <1>1, <2>2, <2>3, <2>4, FenceAfterAppend
  <2>6. AcceptedOnce'
    <3>1. /\ DOMAIN branch' = 1..(Len(branch) + 1) /\ DOMAIN branch = 1..Len(branch)
          /\ \A i \in DOMAIN branch : branch'[i] = branch[i]
          /\ branch'[Len(branch) + 1] = e /\ Len(branch) \in Nat
      BY <1>1, <2>3
    <3>2. \A i \in DOMAIN branch : branch[i].kind = "dispatch-accepted" => branch[i].dispatchId # r.post
      BY <2>1, <2>4 DEF accepted
    <3> QED
      BY <1>1, <2>2, <3>1, <3>2 DEF AcceptedOnce
  <2> QED
    BY <2>1, <2>2, <2>4, <2>5, <2>6 DEF FenceInv, NothingBehindFence, Ordered
<1>5. ASSUME NEW c \in Stops, branch' = advanceDispatchFence(branch, stops[c].generation)
      PROVE  /\ FenceInv'
             /\ fenceGeneration(branch') \in Nat
             /\ fenceGeneration(branch') >= fenceGeneration(branch)
  <2> DEFINE g == stops[c].generation
  <2>1. g \in Nat
    BY DispatchBounds DEF TypeInv, TypeOK, Stop, Generations
  <2>2. /\ Ordered(branch')
        /\ fenceGeneration(branch') = IF g <= fenceGeneration(branch) THEN fenceGeneration(branch) ELSE g
    BY <1>1, <1>5, <2>1, FenceAfterAdvance
  <2>3. AcceptedOnce'
    <3>1. CASE branch' = branch
      BY <1>1, <3>1 DEF AcceptedOnce
    <3>2. CASE branch' = Append(branch, [kind |-> "interrupt-fence", dispatchId |-> NoDispatch,
                                         generation |-> g])
      <4>1. /\ DOMAIN branch' = 1..(Len(branch) + 1) /\ DOMAIN branch = 1..Len(branch)
            /\ \A i \in DOMAIN branch : branch'[i] = branch[i]
            /\ branch'[Len(branch) + 1].kind = "interrupt-fence" /\ Len(branch) \in Nat
        BY <1>1, <3>2
      <4> QED
        BY <1>1, <4>1 DEF AcceptedOnce
    <3> QED
      BY <1>5, <3>1, <3>2 DEF advanceDispatchFence
  <2> QED
    BY <1>2, <2>1, <2>2, <2>3 DEF FenceInv, NothingBehindFence, Ordered
<1> QED
  BY <1>2, <1>3, <1>4, <1>5 DEF BranchMove

\* FenceInv is an invariant.
LEMMA FenceInvariant == Spec => []FenceInv
<1>1. Init => FenceInv
  BY DEF Init, FenceInv, NothingBehindFence, AcceptedOnce
<1>2. TypeInv /\ FenceInv /\ [Next]_vars => FenceInv'
  BY BranchMoves, FenceStep
<1> QED
  BY <1>1, <1>2, TypeInvariant, PTL DEF Spec

\* A dispatch is accepted at most once, for any number of lost answers,
\* repeated claims, crashes and late requests.
THEOREM AtMostOnce == Spec => []AcceptedOnce
<1>1. FenceInv => AcceptedOnce
  BY DEF FenceInv
<1> QED
  BY <1>1, FenceInvariant, PTL

\* No dispatch of an older generation is accepted after a stop was served.
THEOREM FenceHolds == Spec => []NothingBehindFence
<1>1. FenceInv => NothingBehindFence
  BY DEF FenceInv
<1> QED
  BY <1>1, FenceInvariant, PTL

-----------------------------------------------------------------------------
(* The dispatch system implements the delivery it promises. *)

\* A step of the fence is a delivery, a stop or nothing.
LEMMA DeliveryStep ==
  ASSUME TypeInv, FenceInv, BranchMove
  PROVE  Delivery!Next \/ (Delivered' = Delivered /\ fenceGeneration(branch') = fenceGeneration(branch))
<1>1. branch \in Seq(Entry) /\ Ordered(branch)
  BY DEF TypeInv, TypeOK, FenceInv, NothingBehindFence, Ordered
<1>2. fenceGeneration(branch) \in Nat
  BY <1>1, FenceIsLast
<1>3. CASE branch' = branch
  BY <1>3 DEF Delivered
<1>4. ASSUME NEW r \in reqs, inspectDispatch(branch, r.post, r.generation) = "ready",
             branch' = acceptDispatch(branch, r.post, r.generation)
      PROVE  Delivery!Next
  <2> DEFINE e == [kind |-> "dispatch-accepted", dispatchId |-> r.post, generation |-> r.generation]
  <2>1. r.post \in Dispatches /\ r.generation \in Nat
    BY DispatchesArePosts DEF TypeInv, TypeOK, Request
  <2>2. e \in Entry /\ e.kind = "dispatch-accepted" /\ e.generation = r.generation /\ e.dispatchId = r.post
    BY <2>1 DEF Entry
  <2>3. branch' = Append(branch, e)
    BY <1>4 DEF acceptDispatch
  <2>4. r.post \notin accepted(branch) /\ r.generation >= fenceGeneration(branch)
    BY <1>2, <1>4, <2>1, ReadyMeans
  <2> HIDE DEF e
  <2>5. fenceGeneration(branch') = r.generation
    BY <1>1, <2>2, <2>3, <2>4, FenceAfterAppend
  <2>6. /\ DOMAIN branch' = 1..(Len(branch) + 1) /\ DOMAIN branch = 1..Len(branch)
        /\ \A i \in DOMAIN branch : branch'[i] = branch[i]
        /\ branch'[Len(branch) + 1] = e /\ Len(branch) \in Nat
    BY <1>1, <2>3
  <2>7. DOMAIN branch' = DOMAIN branch \cup {Len(branch) + 1}
    BY <2>6
  <2>8. Delivered' = Delivered \cup {<<r.post, r.generation>>}
    BY <2>2, <2>6, <2>7 DEF Delivered
  <2>9. \A x \in Delivered : x[1] # r.post
    BY <2>1, <2>4 DEF Delivered, accepted
  <2> QED
    BY <2>1, <2>4, <2>5, <2>8, <2>9 DEF Delivery!Next, Delivery!Deliver
<1>5. ASSUME NEW c \in Stops, branch' = advanceDispatchFence(branch, stops[c].generation)
      PROVE  Delivery!Next \/ (Delivered' = Delivered /\ fenceGeneration(branch') = fenceGeneration(branch))
  <2> DEFINE g == stops[c].generation
             e == [kind |-> "interrupt-fence", dispatchId |-> NoDispatch, generation |-> g]
  <2>1. g \in Nat
    BY DispatchBounds DEF TypeInv, TypeOK, Stop, Generations
  <2>2. fenceGeneration(branch') = IF g <= fenceGeneration(branch) THEN fenceGeneration(branch) ELSE g
    BY <1>1, <1>5, <2>1, FenceAfterAdvance
  <2>3. CASE g <= fenceGeneration(branch)
    BY <1>5, <2>3 DEF advanceDispatchFence, Delivered
  <2>4. CASE ~(g <= fenceGeneration(branch))
    <3>1. branch' = Append(branch, e) /\ e.kind = "interrupt-fence"
      BY <1>5, <2>4 DEF advanceDispatchFence
    <3> HIDE DEF e
    <3>2. /\ DOMAIN branch' = 1..(Len(branch) + 1) /\ DOMAIN branch = 1..Len(branch)
          /\ \A i \in DOMAIN branch : branch'[i] = branch[i]
          /\ branch'[Len(branch) + 1] = e /\ Len(branch) \in Nat
      BY <1>1, <3>1
    <3>3. DOMAIN branch' = DOMAIN branch \cup {Len(branch) + 1}
      BY <3>2
    <3>4. Delivered' = Delivered
      BY <3>1, <3>2, <3>3 DEF Delivered
    <3> QED
      BY <1>2, <2>1, <2>2, <2>4, <3>4 DEF Delivery!Next, Delivery!Stop
  <2> QED
    BY <2>3, <2>4
<1> QED
  BY <1>3, <1>4, <1>5 DEF BranchMove

\* PostDispatch, with its retries, claims, crashes and late requests,
\* implements DispatchDelivery: every post at most once, none behind a stop.
THEOREM Refinement == Spec => DeliveryRefined
<1>1. Init => Delivery!Init
  <2> SUFFICES ASSUME Init PROVE Delivery!Init
    OBVIOUS
  <2>1. branch = <<>> /\ branch \in Seq(Entry) /\ Ordered(branch)
    BY DEF Init, Ordered
  <2>2. fenceGeneration(branch) = 0
    BY <2>1, FenceIsLast
  <2> QED
    BY <2>1, <2>2 DEF Delivery!Init, Delivered
<1>2. TypeInv /\ FenceInv /\ [Next]_vars
        => [Delivery!Next]_<<Delivered, fenceGeneration(branch)>>
  BY BranchMoves, DeliveryStep
<1> QED
  BY <1>1, <1>2, TypeInvariant, FenceInvariant, PTL DEF Spec, DeliveryRefined, Delivery!Spec

-----------------------------------------------------------------------------
(***************************************************************************)
(* The outbox rows.  RowMove(p) is everything a step may do to the row of  *)
(* a post that the invariants below depend on.                             *)
(***************************************************************************)

Final(r) == r.status \in {"dispatched", "superseded", "abandoned"}

Positive == {"accepted", "handled", "duplicate"}

\* n is what became of row r in generation g, without being delivered.
Kept(r, n, g) ==
    /\ n.generation = r.generation \/ n.generation = g
    /\ Active(n) => n.generation = g \/ (Active(r) /\ n.generation = r.generation)
    /\ Final(r) => n.status = r.status
    /\ n.status = "dispatched" => r.status = "dispatched"

RowMove(p) ==
    \/ gen' = gen /\ Kept(rows[p], rows'[p], gen)
    \/ /\ gen' = gen /\ p = worker.post
       /\ worker.pc = "answered" /\ worker.reply \in Positive
       /\ Active(rows[p]) /\ rows'[p].status = "dispatched"
       /\ rows'[p].generation = rows[p].generation
    \/ /\ gen' > gen /\ Kept(rows[p], rows'[p], gen)
       /\ ~Active(rows'[p]) /\ rows'[p].generation = rows[p].generation

\* Kept is reflexive,
LEMMA KeptSame == ASSUME NEW r, NEW g PROVE Kept(r, r, g)
  BY DEF Kept

\* transitive,
LEMMA KeptTrans ==
  ASSUME NEW r, NEW n, NEW m, NEW g, Kept(r, n, g), Kept(n, m, g)
  PROVE  Kept(r, m, g)
  BY DEF Kept, Final

\* and holds of an active row that is settled without delivery
LEMMA KeptSettled ==
  ASSUME NEW r \in Row, NEW s \in Statuses \ {"dispatched"}, NEW g, Active(r)
  PROVE  Kept(r, Settled(r, s), g)
  BY SettledRow DEF Kept, Active, Final

\* or claimed.
LEMMA KeptClaimed ==
  ASSUME NEW r \in Row, NEW t \in Tokens, NEW c \in SUBSET Posts, NEW g, Active(r)
  PROVE  Kept(r, Claimed(r, t, c), g)
  BY ClaimedRow DEF Kept, Active, Final

\* The operations of the outbox keep every row, in the sense of Kept.
LEMMA MarkKept ==
  ASSUME NEW R \in Rows, NEW g \in Nat, NEW p \in Posts, NEW t, NEW b, NEW q \in Posts
  PROVE  /\ Kept(R[q], markPostDispatchFailed(R, g, p, t, b)[q], g)
         /\ Kept(R[q], markPostDispatchAbandoned(R, g, p)[q], g)
         /\ Kept(R[q], retryTerminalPostDispatch(R, g, p)[q], g)
<1>1. R[p] \in Row /\ R[q] \in Row /\ Kept(R[q], R[q], g)
  BY KeptSame DEF Rows
<1>2. Kept(R[q], markPostDispatchFailed(R, g, p, t, b)[q], g)
  <2>1. CASE HoldsClaim(R, g, p, t) /\ q = p
    <3> DEFINE s == IF b THEN "pending" ELSE "failed"
    <3>1. s \in Statuses \ {"dispatched"}
      BY DEF Statuses
    <3>2. markPostDispatchFailed(R, g, p, t, b)[q] = Settled(R[q], s)
      BY <2>1 DEF markPostDispatchFailed, Rows
    <3>3. Active(R[q])
      BY <2>1 DEF HoldsClaim, Active
    <3> HIDE DEF s
    <3> QED
      BY <1>1, <3>1, <3>2, <3>3, KeptSettled
  <2>2. CASE ~(HoldsClaim(R, g, p, t) /\ q = p)
    <3>1. markPostDispatchFailed(R, g, p, t, b)[q] = R[q]
      BY <2>2 DEF markPostDispatchFailed, Rows
    <3> QED
      BY <1>1, <3>1
  <2> QED
    BY <2>1, <2>2
<1>3. Kept(R[q], markPostDispatchAbandoned(R, g, p)[q], g)
  <2>1. CASE Active(R[p]) /\ R[p].generation = g /\ q = p
    <3>1. markPostDispatchAbandoned(R, g, p)[q] = Settled(R[q], "abandoned")
      BY <2>1 DEF markPostDispatchAbandoned, Rows
    <3> QED
      BY <1>1, <2>1, <3>1, KeptSettled DEF Statuses
  <2>2. CASE ~(Active(R[p]) /\ R[p].generation = g /\ q = p)
    <3>1. markPostDispatchAbandoned(R, g, p)[q] = R[q]
      BY <2>2 DEF markPostDispatchAbandoned, Rows
    <3> QED
      BY <1>1, <3>1
  <2> QED
    BY <2>1, <2>2
<1>4. Kept(R[q], retryTerminalPostDispatch(R, g, p)[q], g)
  <2>1. CASE R[p].status = "failed" /\ R[p].generation = g /\ q = p
    <3>1. retryTerminalPostDispatch(R, g, p)[q] = Requeued(R[q])
      BY <2>1 DEF retryTerminalPostDispatch, Rows
    <3>2. Requeued(R[q]).generation = g /\ Requeued(R[q]).status = "pending"
      BY <1>1, <2>1, RequeuedRow DEF Requeued, Row
    <3> QED
      BY <2>1, <3>1, <3>2 DEF Kept, Final
  <2>2. CASE ~(R[p].status = "failed" /\ R[p].generation = g /\ q = p)
    <3>1. retryTerminalPostDispatch(R, g, p)[q] = R[q]
      BY <2>2 DEF retryTerminalPostDispatch, Rows
    <3> QED
      BY <1>1, <3>1
  <2> QED
    BY <2>1, <2>2
<1> QED
  BY <1>2, <1>3, <1>4

\* Claiming a group keeps every row.
LEMMA ClaimKept ==
  ASSUME NEW R \in Rows, NEW g \in Nat, NEW G \in SUBSET Posts, NEW p \in G, NEW t \in Tokens,
         \A x \in G : Active(R[x]), NEW q \in Posts
  PROVE  Kept(R[q], claimPostDispatchGroup(R, G, p, t)[q], g)
<1> DEFINE a == IF R[p].status = "pending" THEN G \ {p} ELSE {}
<1>1. R[q] \in Row /\ Kept(R[q], R[q], g) /\ a \in SUBSET Posts /\ a \subseteq G
  BY KeptSame DEF Rows
<1>2. claimPostDispatchGroup(R, G, p, t)[q]
        = IF q = p THEN Claimed(R[q], t, R[q].contributors \cup a)
          ELSE IF q \in a THEN Settled(R[q], "superseded") ELSE R[q]
  BY DEF claimPostDispatchGroup
<1> HIDE DEF a
<1>3. R[q].contributors \cup a \in SUBSET Posts
  BY <1>1 DEF Row
<1>4. CASE q = p
  BY <1>1, <1>2, <1>3, <1>4, KeptClaimed
<1>5. CASE q # p /\ q \in a
  BY <1>1, <1>2, <1>5, KeptSettled DEF Statuses
<1>6. CASE q # p /\ q \notin a
  BY <1>1, <1>2, <1>6
<1> QED
  BY <1>4, <1>5, <1>6

\* Superseding leaves no active row, and reconciliation only touches those of
\* other generations.
LEMMA SupersedeKept ==
  ASSUME NEW R \in Rows, NEW g \in Nat, NEW q \in Posts
  PROVE  /\ Kept(R[q], supersedeActive(R)[q], g)
         /\ ~Active(supersedeActive(R)[q]) /\ supersedeActive(R)[q].generation = R[q].generation
         /\ Kept(R[q], reconcilePostDispatchGenerations(R, g)[q], g)
<1>1. R[q] \in Row /\ Kept(R[q], R[q], g) /\ "superseded" \in Statuses \ {"dispatched"}
  BY KeptSame DEF Rows, Statuses
<1>2. Active(R[q]) => Kept(R[q], Settled(R[q], "superseded"), g)
  BY <1>1, KeptSettled
<1>3. /\ Settled(R[q], "superseded").generation = R[q].generation
      /\ Settled(R[q], "superseded").status = "superseded"
  BY <1>1, SettledRow
<1>4. supersedeActive(R)[q] = IF Active(R[q]) THEN Settled(R[q], "superseded") ELSE R[q]
  BY DEF supersedeActive
<1>5. reconcilePostDispatchGenerations(R, g)[q]
        = IF Active(R[q]) /\ R[q].generation # g THEN Settled(R[q], "superseded") ELSE R[q]
  BY DEF reconcilePostDispatchGenerations
<1>6. ~Active(Settled(R[q], "superseded"))
  BY <1>3 DEF Active
<1> QED
  BY <1>1, <1>2, <1>3, <1>4, <1>5, <1>6

\* No step does anything else to a row.
LEMMA RowMoves ==
  ASSUME TypeInv, [Next]_vars, NEW p \in Posts
  PROVE  RowMove(p)
<1>1. rows \in Rows /\ rows[p] \in Row /\ gen \in Nat /\ (worker.pc # "idle" => worker.post \in Posts)
  BY DispatchBounds DEF TypeInv, TypeOK, WorkerBusy, Rows, Generations
<1>2. ASSUME gen' = gen, rows' = rows PROVE RowMove(p)
  BY <1>2, KeptSame DEF RowMove
<1>3. ASSUME gen' = gen, Kept(rows[p], rows'[p], gen) PROVE RowMove(p)
  BY <1>3 DEF RowMove
<1>4. CASE OutboxStep
  <2>1. PICK q \in Posts : \/ \E o \in Origins, solo \in SoloChoices : CreatePost(q, o, solo)
                           \/ RetryFailed(q) \/ Ripen(q) \/ AbandonHead(q) \/ Claim(q)
                           \/ finishCompactionSuccess(q)
    BY <1>4 DEF OutboxStep
  <2>2. ASSUME NEW o \in Origins, NEW solo \in SoloChoices, CreatePost(q, o, solo) PROVE RowMove(p)
    <3>1. gen' = gen /\ rows[q].status = "none" /\ rows' = createPostDispatch(rows, gen, q, o, solo)
      BY <2>2 DEF CreatePost, IsNextPost
    <3>2. CASE p = q
      <4>1. rows'[p].generation = gen /\ rows'[p].status = "pending"
        BY <1>1, <3>1, <3>2 DEF createPostDispatch, Rows
      <4> QED
        BY <1>3, <3>1, <3>2, <4>1 DEF Kept, Final
    <3>3. CASE p # q
      BY <1>1, <1>3, <3>1, <3>3, KeptSame DEF createPostDispatch, Rows
    <3> QED
      BY <3>2, <3>3
  <2>3. CASE RetryFailed(q)
    BY <1>1, <1>3, <2>3, MarkKept DEF RetryFailed
  <2>4. CASE Ripen(q)
    <3>1. gen' = gen /\ rows' = [rows EXCEPT ![q].ripe = TRUE]
      BY <2>4 DEF Ripen
    <3>2. rows'[p].generation = rows[p].generation /\ rows'[p].status = rows[p].status
      BY <1>1, <3>1 DEF Rows, Row
    <3> QED
      BY <1>3, <3>1, <3>2 DEF Kept, Final, Active
  <2>5. CASE AbandonHead(q)
    BY <1>1, <1>3, <2>5, MarkKept DEF AbandonHead
  <2>6. CASE Claim(q)
    <3> DEFINE group == Group(rows, gen, q)
               token == CHOOSE t \in FreshTokens : TRUE
    <3>1. group \in SUBSET Posts /\ \A x \in group : Active(rows[x])
      BY DEF Group, pendingForTopic
    <3>2. token \in Tokens /\ gen' = gen
      BY <2>6 DEF Claim, FreshTokens
    <3>3. \E x \in group : \E b :
                              \/ rows' = claimPostDispatchGroup(rows, group, x, token)
                              \/ rows' = markPostDispatchFailed(
                                    claimPostDispatchGroup(rows, group, x, token), gen, x, token, b)
      BY <2>6 DEF Claim, IsTrigger
    <3> HIDE DEF group, token
    <3>4. PICK x \in group : \E b :
                                \/ rows' = claimPostDispatchGroup(rows, group, x, token)
                                \/ rows' = markPostDispatchFailed(
                                    claimPostDispatchGroup(rows, group, x, token), gen, x, token, b)
      BY <3>3
    <3> DEFINE claimed == claimPostDispatchGroup(rows, group, x, token)
    <3>5. claimed \in Rows /\ x \in Posts /\ Kept(rows[p], claimed[p], gen)
      BY <1>1, <3>1, <3>2, ClaimTyped, ClaimKept
    <3>6. PICK b : rows' = claimed \/ rows' = markPostDispatchFailed(claimed, gen, x, token, b)
      BY <3>4
    <3> HIDE DEF claimed
    <3>7. Kept(rows[p], rows'[p], gen)
      BY <1>1, <3>5, <3>6, MarkKept, KeptTrans
    <3> QED
      BY <1>3, <3>2, <3>7
  <2>7. CASE finishCompactionSuccess(q)
    <3>1. gen' = gen /\ rows[q].status = "none"
      BY <2>7 DEF finishCompactionSuccess, IsNextPost
    <3>2. PICK o \in Origins : rows' = createPostDispatch(rows, gen, q, o, TRUE)
      BY <2>7 DEF finishCompactionSuccess
    <3>3. CASE p = q
      <4>1. rows'[p].generation = gen /\ rows'[p].status = "pending"
        BY <1>1, <3>2, <3>3 DEF createPostDispatch, Rows
      <4> QED
        BY <1>3, <3>1, <3>3, <4>1 DEF Kept, Final
    <3>4. CASE p # q
      BY <1>1, <1>3, <3>1, <3>2, <3>4, KeptSame DEF createPostDispatch, Rows
    <3> QED
      BY <3>3, <3>4
  <2> QED
    BY <2>1, <2>2, <2>3, <2>4, <2>5, <2>6, <2>7
<1>5. CASE WorkerStep \/ TransportFailure
  <2>1. CASE ApplicationFailure \/ DispatchRefused \/ TransportFailure
    <3>1. gen' = gen /\ worker.post \in Posts
      BY <1>1, <2>1 DEF ApplicationFailure, DispatchRefused, TransportFailure
    <3>2. \E b : rows' = markPostDispatchFailed(rows, gen, worker.post, worker.token, b)
      BY <2>1 DEF ApplicationFailure, DispatchRefused, TransportFailure
    <3> QED
      BY <1>1, <1>3, <3>1, <3>2, MarkKept
  <2>2. CASE DispatchSettled
    <3>1. /\ gen' = gen /\ worker.pc = "answered" /\ worker.reply \in Positive
          /\ rows' = markPostDispatchDispatched(rows, gen, worker.post, worker.token)
      BY <2>2 DEF DispatchSettled, Positive
    <3>2. CASE HoldsClaim(rows, gen, worker.post, worker.token) /\ p = worker.post
      <4>1. rows'[p] = Settled(rows[p], "dispatched") /\ Active(rows[p])
        BY <1>1, <3>1, <3>2 DEF markPostDispatchDispatched, HoldsClaim, Active, Rows
      <4>2. rows'[p].status = "dispatched" /\ rows'[p].generation = rows[p].generation
        BY <1>1, <4>1, SettledRow DEF Statuses
      <4> QED
        BY <3>1, <3>2, <4>1, <4>2 DEF RowMove
    <3>3. CASE ~(HoldsClaim(rows, gen, worker.post, worker.token) /\ p = worker.post)
      <4>1. rows'[p] = rows[p]
        BY <1>1, <3>1, <3>3 DEF markPostDispatchDispatched, Rows
      <4> QED
        BY <1>3, <3>1, <4>1, KeptSame
    <3> QED
      BY <3>2, <3>3
  <2>3. CASE OpenDead \/ OpenLoaded \/ OpenSession \/ LinkSession \/ OpenRefused \/ Send
    BY <1>2, <2>3 DEF OpenDead, OpenLoaded, OpenSession, LinkSession, OpenRefused, Send, forumDb
  <2> QED
    BY <1>5, <2>1, <2>2, <2>3 DEF WorkerStep
<1>6. ASSUME NEW r \in reqs, MessageStep(r) PROVE RowMove(p)
  BY <1>2, <1>6 DEF MessageStep, MessageRefused, MessageNotReady, MessageAccepted, RequestLost, forumDb
<1>7. CASE StopStep
  <2>1. PICK c \in Stops : \/ StopLinked(c) \/ StopUnlinked(c) \/ AgentdRefusesStop(c)
                           \/ \E s \in Cancelled : AgentdStops(c, s)
                           \/ StopReturns(c) \/ StopFails(c) \/ AgentdCrashInStop(c)
    BY <1>7 DEF StopStep
  <2>2. CASE StopLinked(c) \/ StopUnlinked(c)
    <3>1. gen' = FenceForStop.generation /\ rows' = FenceForStop.rows
      BY <2>2 DEF StopLinked, StopUnlinked
    <3>2. (gen' = gen /\ rows' = rows) \/ (gen' = gen + 1 /\ rows' = supersedeActive(rows))
      BY <3>1 DEF FenceForStop
    <3> QED
      BY <1>1, <1>2, <3>2, SupersedeKept DEF RowMove
  <2>3. CASE ~(StopLinked(c) \/ StopUnlinked(c))
    BY <1>2, <2>1, <2>3 DEF AgentdRefusesStop, AgentdStops, StopReturns, StopFails,
                             AgentdCrashInStop, AgentdDies, forumDb
  <2> QED
    BY <2>2, <2>3
<1>8. CASE ReconcileStep
  BY <1>2, <1>8 DEF ReconcileStep, ReconcileAsks, ReconcileHasNothing, ReconcileApplies,
                    ReconcileFails, AgentdReconciles, forumDb
<1>9. CASE StreamStep
  <2>1. CASE ForumStarts
    BY <1>1, <1>3, <2>1, SupersedeKept DEF ForumStarts
  <2>2. CASE ~ForumStarts
    BY <1>2, <1>9, <2>2 DEF StreamStep, SideStep, AcceptOperation, OperationEnds, DirectorWrites,
              EmitBusy, EmitTurnEnd, ReceiveEvent, CloseAsks, AgentdCloses,
              CloseReturns, CloseFails, ForumCrash, AgentdCrash, AgentdDies, AgentdUnloads, forumDb
  <2> QED
    BY <2>1, <2>2
<1>10. CASE UNCHANGED vars
  BY <1>2, <1>10 DEF vars, forumDb
<1> QED
  BY <1>4, <1>5, <1>6, <1>7, <1>8, <1>9, <1>10, NextSplits

\* Dispatched, superseded and abandoned rows never change their status.
THEOREM FinalityOfRows == Spec => SettledIsFinal
<1>1. TypeInv /\ [Next]_vars
        => [\A p \in Posts : rows[p].status \in {"dispatched", "superseded", "abandoned"}
                               => rows'[p].status = rows[p].status]_vars
  <2> SUFFICES ASSUME TypeInv, [Next]_vars, NEW p \in Posts,
                      rows[p].status \in {"dispatched", "superseded", "abandoned"}
               PROVE  rows'[p].status = rows[p].status
    OBVIOUS
  <2>1. RowMove(p)
    BY RowMoves
  <2> QED
    BY <2>1 DEF RowMove, Kept, Final, Active
<1> QED
  BY <1>1, TypeInvariant, PTL DEF Spec, SettledIsFinal

-----------------------------------------------------------------------------
(***************************************************************************)
(* The worker and its requests.  A request with the worker's token is the  *)
(* worker's own: claim tokens are fresh.                                   *)
(***************************************************************************)

WorkerMove ==
    \/ worker'.pc = "idle" /\ reqs' \subseteq reqs
    \/ worker'.pc = "opening" /\ worker'.token \in FreshTokens /\ reqs' = reqs
    \/ /\ worker.pc # "idle" /\ worker'.post = worker.post /\ worker'.token = worker.token
       /\ \A r \in reqs' : \/ r \in reqs
                           \/ /\ r.post = worker.post /\ r.token = worker.token
                              /\ r.generation = rows[worker.post].generation
       /\ worker'.pc = "answered" /\ worker'.reply \in Positive =>
             \/ worker.pc = "answered" /\ worker.reply = worker'.reply
             \/ \E r \in reqs : r.token = worker.token /\ r.post \in accepted(branch')

\* The identities a branch has accepted.
LEMMA AcceptAppends ==
  ASSUME NEW b \in Seq(Entry), NEW e \in Entry
  PROVE  /\ accepted(b) \subseteq accepted(Append(b, e))
         /\ e.kind = "dispatch-accepted" => e.dispatchId \in accepted(Append(b, e))
<1>1. /\ DOMAIN Append(b, e) = 1..(Len(b) + 1) /\ DOMAIN b = 1..Len(b) /\ Len(b) \in Nat
      /\ \A i \in DOMAIN b : Append(b, e)[i] = b[i]
      /\ Append(b, e)[Len(b) + 1] = e
  OBVIOUS
<1>2. e.kind = "dispatch-accepted" => e.dispatchId \in Dispatches
  BY DEF Entry
<1>3. Len(b) + 1 \in DOMAIN Append(b, e) /\ \A i \in DOMAIN b : i \in DOMAIN Append(b, e)
  BY <1>1
<1> QED
  BY <1>1, <1>2, <1>3 DEF accepted

\* An accepted identity stays accepted.
LEMMA AcceptedGrows ==
  ASSUME TypeInv, BranchMove
  PROVE  accepted(branch) \subseteq accepted(branch')
<1>1. branch \in Seq(Entry)
  BY DEF TypeInv, TypeOK
<1>2. ASSUME NEW r \in reqs, branch' = acceptDispatch(branch, r.post, r.generation)
      PROVE  accepted(branch) \subseteq accepted(branch')
  <2>1. [kind |-> "dispatch-accepted", dispatchId |-> r.post, generation |-> r.generation] \in Entry
    BY DispatchesArePosts DEF TypeInv, TypeOK, Request, Entry
  <2> QED
    BY <1>1, <1>2, <2>1, AcceptAppends DEF acceptDispatch
<1>3. ASSUME NEW c \in Stops, branch' = advanceDispatchFence(branch, stops[c].generation)
      PROVE  accepted(branch) \subseteq accepted(branch')
  <2>1. [kind |-> "interrupt-fence", dispatchId |-> NoDispatch,
         generation |-> stops[c].generation] \in Entry
    BY DispatchBounds DEF TypeInv, TypeOK, Stop, Generations, Entry
  <2> QED
    BY <1>1, <1>3, <2>1, AcceptAppends DEF advanceDispatchFence
<1> QED
  BY <1>2, <1>3 DEF BranchMove

\* No step does anything else to the worker and the requests.
LEMMA WorkerMoves ==
  ASSUME TypeInv, [Next]_vars
  PROVE  WorkerMove
<1>1. worker \in Worker /\ branch \in Seq(Entry) /\ reqs \subseteq Request
  BY DEF TypeInv, TypeOK
<1>2. ASSUME worker' = worker, reqs' \subseteq reqs PROVE WorkerMove
  BY <1>2 DEF WorkerMove
<1>3. NoWorker.pc = "idle"
  BY DEF NoWorker
<1>4. CASE OutboxStep
  <2>1. PICK q \in Posts : \/ \E o \in Origins, solo \in SoloChoices : CreatePost(q, o, solo)
                           \/ RetryFailed(q) \/ Ripen(q) \/ AbandonHead(q) \/ Claim(q)
                           \/ finishCompactionSuccess(q)
    BY <1>4 DEF OutboxStep
  <2>2. CASE Claim(q)
    <3> DEFINE token == CHOOSE t \in FreshTokens : TRUE
    <3>1. token \in FreshTokens /\ reqs' = reqs
      BY <2>2 DEF Claim, network
    <3>2. worker' = NoWorker \/ \E x \in Posts : worker' = Opening(x, token)
      BY <2>2 DEF Claim
    <3> HIDE DEF token
    <3> QED
      BY <1>3, <3>1, <3>2 DEF WorkerMove, Opening
  <2>3. CASE ~Claim(q)
    BY <1>2, <2>1, <2>3 DEF CreatePost, RetryFailed, Ripen, AbandonHead,
                             finishCompactionSuccess, process, network
  <2> QED
    BY <2>2, <2>3
<1>5. CASE WorkerStep \/ TransportFailure
  <2>1. CASE ApplicationFailure \/ DispatchRefused \/ TransportFailure \/ DispatchSettled
    BY <1>3, <2>1 DEF ApplicationFailure, DispatchRefused, TransportFailure, DispatchSettled,
                      WorkerMove, network
  <2>2. CASE OpenDead
    BY <1>2, <2>2 DEF OpenDead, process, network
  <2>3. CASE OpenLoaded \/ OpenSession \/ LinkSession
    BY <1>1, <2>3 DEF OpenLoaded, OpenSession, LinkSession, WorkerMove, Worker, network
  <2>4. CASE OpenRefused
    BY <1>1, <2>4 DEF OpenRefused, WorkerMove, Worker, Positive
  <2>5. CASE Send
    BY <1>1, <2>5 DEF Send, WorkerMove, Worker
  <2> QED
    BY <1>5, <2>1, <2>2, <2>3, <2>4, <2>5 DEF WorkerStep
<1>6. ASSUME NEW r \in reqs, MessageStep(r) PROVE WorkerMove
  <2>1. ASSUME NEW reply, Answer(r, reply), reply \in Positive => r.post \in accepted(branch')
        PROVE  WorkerMove
    <3>1. CASE worker' = worker
      BY <1>2, <2>1, <3>1 DEF Answer
    <3>2. CASE worker' # worker
      <4>1. /\ worker.pc = "sent" /\ worker.token = r.token /\ reqs' \subseteq reqs
            /\ worker' = [worker EXCEPT !.pc = "answered", !.reply = reply]
        BY <2>1, <3>2 DEF Answer
      <4>2. worker'.post = worker.post /\ worker'.token = worker.token /\ worker'.reply = reply
        BY <1>1, <4>1 DEF Worker
      <4> QED
        BY <2>1, <4>1, <4>2 DEF WorkerMove
    <3> QED
      BY <3>1, <3>2
  <2>2. CASE MessageRefused(r)
    BY <2>1, <2>2 DEF MessageRefused, Positive
  <2>3. CASE MessageNotReady(r)
    <3>1. branch' = branch
      BY <2>3 DEF MessageNotReady, agentd
    <3>2. inspectDispatch(branch, r.post, r.generation) = "duplicate" => r.post \in accepted(branch)
      BY DEF inspectDispatch
    <3> QED
      BY <2>1, <2>3, <3>1, <3>2 DEF MessageNotReady, Positive
  <2>4. CASE MessageAccepted(r)
    <3> DEFINE e == [kind |-> "dispatch-accepted", dispatchId |-> r.post, generation |-> r.generation]
    <3>1. e \in Entry /\ e.kind = "dispatch-accepted" /\ e.dispatchId = r.post
      BY <1>1, DispatchesArePosts DEF Request, Entry
    <3>2. branch' = Append(branch, e)
      BY <2>4 DEF MessageAccepted, acceptDispatch
    <3> HIDE DEF e
    <3>3. r.post \in accepted(branch')
      BY <1>1, <3>1, <3>2, AcceptAppends
    <3> QED
      BY <2>1, <2>4, <3>3 DEF MessageAccepted
  <2>5. CASE RequestLost(r)
    BY <1>2, <2>5 DEF RequestLost, process
  <2> QED
    BY <1>6, <2>2, <2>3, <2>4, <2>5 DEF MessageStep
<1>7. CASE StopStep
  BY <1>2, <1>7 DEF StopStep, StopLinked, StopUnlinked, AgentdRefusesStop, AgentdStops, StopReturns,
                    StopFails, AgentdCrashInStop, AgentdDies, network
<1>8. CASE ReconcileStep
  BY <1>2, <1>8 DEF ReconcileStep, ReconcileAsks, ReconcileHasNothing, ReconcileApplies,
                    ReconcileFails, AgentdReconciles, network
<1>9. CASE StreamStep
  <2>1. CASE ForumCrash
    BY <1>3, <2>1 DEF ForumCrash, WorkerMove
  <2>2. CASE ~ForumCrash
    BY <1>2, <1>9, <2>2 DEF StreamStep, SideStep, AcceptOperation, OperationEnds, DirectorWrites,
              EmitBusy, EmitTurnEnd, ReceiveEvent, CloseAsks, AgentdCloses,
              CloseReturns, CloseFails, ForumStarts, AgentdCrash, AgentdDies, AgentdUnloads,
              process, network
  <2> QED
    BY <2>1, <2>2
<1>10. CASE UNCHANGED vars
  BY <1>2, <1>10 DEF vars, process, network
<1> QED
  BY <1>4, <1>5, <1>6, <1>7, <1>8, <1>9, <1>10, NextSplits

OwnRequests ==
    \A r \in reqs : worker.pc # "idle" /\ r.token = worker.token => r.post = worker.post

AnswersAreTrue ==
    worker.pc = "answered" /\ worker.reply \in Positive => worker.post \in accepted(branch)

DeliveryInv == OwnRequests /\ AnswersAreTrue /\ DispatchedWasAccepted

\* DeliveryInv is an invariant.
LEMMA DeliveryInvariant == Spec => []DeliveryInv
<1>1. Init => DeliveryInv
  BY DEF Init, DeliveryInv, OwnRequests, AnswersAreTrue, DispatchedWasAccepted, NoWorker, NoRow
<1>2. TypeInv /\ DeliveryInv /\ [Next]_vars => DeliveryInv'
  <2> SUFFICES ASSUME TypeInv, DeliveryInv, [Next]_vars PROVE DeliveryInv'
    OBVIOUS
  <2>1. WorkerMove /\ BranchMove /\ accepted(branch) \subseteq accepted(branch')
    BY WorkerMoves, BranchMoves, AcceptedGrows
  <2>2. OwnRequests'
    <3>1. \A r \in reqs : r.token \notin FreshTokens
      BY DEF FreshTokens
    <3> QED
      BY <2>1, <3>1 DEF WorkerMove, DeliveryInv, OwnRequests
  <2>3. AnswersAreTrue'
    BY <2>1 DEF WorkerMove, DeliveryInv, OwnRequests, AnswersAreTrue
  <2>4. DispatchedWasAccepted'
    <3> SUFFICES ASSUME NEW p \in Posts, rows'[p].status = "dispatched" PROVE p \in accepted(branch')
      BY DEF DispatchedWasAccepted
    <3>1. RowMove(p)
      BY RowMoves
    <3> QED
      BY <2>1, <3>1 DEF RowMove, Kept, DeliveryInv, AnswersAreTrue, DispatchedWasAccepted
  <2> QED
    BY <2>2, <2>3, <2>4 DEF DeliveryInv
<1> QED
  BY <1>1, <1>2, TypeInvariant, PTL DEF Spec

\* Whatever was lost, repeated or restarted: a row the forum shows as
\* dispatched names an identity in agentd's canonical session.
THEOREM DispatchedMeansAccepted == Spec => []DispatchedWasAccepted
<1>1. DeliveryInv => DispatchedWasAccepted
  BY DEF DeliveryInv
<1> QED
  BY <1>1, DeliveryInvariant, PTL

-----------------------------------------------------------------------------
(***************************************************************************)
(* Generations.  Nothing anywhere is of a later generation than the        *)
(* topic's, and active rows are of exactly that one.                       *)
(***************************************************************************)

GenerationInv ==
    /\ ActiveIsCurrent
    /\ \A p \in Posts : rows[p].generation <= gen
    /\ \A r \in reqs : r.generation <= gen
    /\ \A c \in Stops : stops[c].generation <= gen
    /\ FenceNotAhead

\* A stop keeps its generation from the moment it is called, and one that had
\* nobody to ask is over.
StopMove(c) ==
    /\ stops'[c].generation = stops[c].generation \/ stops'[c].generation = gen'
    /\ stops[c].st = "unasked" => stops'[c] = stops[c]

\* No step does anything else to a stop that has been called.
LEMMA StopMoves ==
  ASSUME TypeInv, [Next]_vars, NEW c \in Stops
  PROVE  StopMove(c)
<1>1. stops \in [Stops -> Stop]
  BY DEF TypeInv, TypeOK
<1>2. ASSUME stops' = stops PROVE StopMove(c)
  BY <1>2 DEF StopMove
<1>3. CASE OutboxStep
  BY <1>2, <1>3 DEF OutboxStep, CreatePost, RetryFailed, Ripen, AbandonHead, Claim,
              finishCompactionSuccess, process
<1>4. CASE WorkerStep \/ TransportFailure
  BY <1>2, <1>4 DEF WorkerStep, OpenDead, OpenLoaded, OpenSession, LinkSession, OpenRefused, Send,
              ApplicationFailure, DispatchSettled, DispatchRefused, TransportFailure, process
<1>5. ASSUME NEW r \in reqs, MessageStep(r) PROVE StopMove(c)
  BY <1>2, <1>5 DEF MessageStep, MessageRefused, MessageNotReady, MessageAccepted, RequestLost, process
<1>6. ASSUME AgentdDies PROVE StopMove(c)
  BY <1>1, <1>6 DEF AgentdDies, Stop, StopMove
<1>7. CASE StopStep
  <2>1. PICK d \in Stops : \/ StopLinked(d) \/ StopUnlinked(d) \/ AgentdRefusesStop(d)
                           \/ \E s \in Cancelled : AgentdStops(d, s)
                           \/ StopReturns(d) \/ StopFails(d) \/ AgentdCrashInStop(d)
    BY <1>7 DEF StopStep
  <2>2. CASE StopLinked(d)
    BY <1>1, <2>2 DEF StopLinked, NextStop, StopMove
  <2>3. CASE StopUnlinked(d)
    BY <1>1, <2>3 DEF StopUnlinked, NextStop, StopMove
  <2>4. ASSUME NEW s \in Cancelled, stops' = StopServed(d, s), stops[d].st \in {"sent", "orphan"}
        PROVE  StopMove(c)
    BY <1>1, <2>4, ServedStop DEF StopServed, StopMove
  <2>5. CASE StopReturns(d)
    BY <1>1, <2>5 DEF StopReturns, Stop, StopMove
  <2>6. CASE StopFails(d)
    BY <1>1, <2>6, GivenUpStop DEF StopFails, StopMove
  <2>7. CASE AgentdCrashInStop(d)
    BY <1>6, <2>7 DEF AgentdCrashInStop
  <2> QED
    BY <2>1, <2>2, <2>3, <2>4, <2>5, <2>6, <2>7 DEF AgentdStops, AgentdRefusesStop, Cancelled, Unresolved
<1>8. CASE ReconcileStep
  BY <1>2, <1>8 DEF ReconcileStep, ReconcileAsks, ReconcileHasNothing, ReconcileApplies,
                    ReconcileFails, AgentdReconciles
<1>9. CASE StreamStep
  <2>1. CASE ForumCrash
    BY <1>1, <2>1 DEF ForumCrash, Stop, StopMove
  <2>2. CASE AgentdCrash
    BY <1>6, <2>2 DEF AgentdCrash
  <2>3. CASE ~ForumCrash /\ ~AgentdCrash
    BY <1>2, <1>9, <2>3 DEF StreamStep, SideStep, AcceptOperation, OperationEnds, DirectorWrites,
              EmitBusy, EmitTurnEnd, ReceiveEvent, CloseAsks, AgentdCloses,
              CloseReturns, CloseFails, ForumStarts, AgentdUnloads, process
  <2> QED
    BY <2>1, <2>2, <2>3
<1>10. CASE UNCHANGED vars
  BY <1>2, <1>10 DEF vars, process
<1> QED
  BY <1>3, <1>4, <1>5, <1>7, <1>8, <1>9, <1>10, NextSplits

\* The generation never decreases.
LEMMA GenMoves ==
  ASSUME TypeInv, [Next]_vars
  PROVE  gen' = gen \/ gen' = gen + 1
<1>1. CASE OutboxStep
  BY <1>1 DEF OutboxStep, CreatePost, RetryFailed, Ripen, AbandonHead, Claim,
              finishCompactionSuccess
<1>2. CASE WorkerStep \/ TransportFailure
  BY <1>2 DEF WorkerStep, OpenDead, OpenLoaded, OpenSession, LinkSession, OpenRefused, Send,
              ApplicationFailure, DispatchSettled, DispatchRefused, TransportFailure, forumDb
<1>3. ASSUME NEW r \in reqs, MessageStep(r) PROVE gen' = gen
  BY <1>3 DEF MessageStep, MessageRefused, MessageNotReady, MessageAccepted, RequestLost, forumDb
<1>4. CASE StopStep
  BY <1>4 DEF StopStep, StopLinked, StopUnlinked, FenceForStop, AgentdRefusesStop, AgentdStops,
              StopReturns, StopFails, AgentdCrashInStop, AgentdDies, forumDb
<1>5. CASE ReconcileStep
  BY <1>5 DEF ReconcileStep, ReconcileAsks, ReconcileHasNothing, ReconcileApplies,
              ReconcileFails, AgentdReconciles, forumDb
<1>6. CASE StreamStep
  BY <1>6 DEF StreamStep, SideStep, AcceptOperation, OperationEnds, DirectorWrites,
              EmitBusy, EmitTurnEnd, ReceiveEvent, CloseAsks, AgentdCloses, CloseReturns,
              CloseFails, ForumCrash, ForumStarts, AgentdCrash, AgentdDies, AgentdUnloads, forumDb
<1>7. CASE UNCHANGED vars
  BY <1>7 DEF vars, forumDb
<1> QED
  BY <1>1, <1>2, <1>3, <1>4, <1>5, <1>6, <1>7, NextSplits

\* A step keeps the generations in order.
LEMMA GenerationStep ==
  ASSUME TypeInv, TypeInv', FenceInv, GenerationInv, [Next]_vars
  PROVE  GenerationInv' /\ gen' >= gen
<1>1. WorkerMove /\ BranchMove /\ (\A p \in Posts : RowMove(p)) /\ (\A c \in Stops : StopMove(c))
  BY WorkerMoves, BranchMoves, RowMoves, StopMoves
<1>2. gen \in Nat /\ gen' \in Nat
  BY DispatchBounds DEF TypeInv, TypeOK, Generations
<1>3. \A p \in Posts : rows[p].generation \in Nat /\ rows'[p].generation \in Nat
  BY DEF TypeInv, TypeOK, Rows, Row
<1>4. \A c \in Stops : stops[c].generation \in Nat /\ stops'[c].generation \in Nat
  BY DispatchBounds DEF TypeInv, TypeOK, Stop, Generations
<1>5. gen' >= gen
  BY <1>2, GenMoves
<1>6. ActiveIsCurrent' /\ \A p \in Posts : rows'[p].generation <= gen'
  BY <1>1, <1>2, <1>3, <1>5 DEF RowMove, Kept, GenerationInv, ActiveIsCurrent
<1>7. \A r \in reqs' : r.generation <= gen'
  <2>1. \A r \in reqs : r.generation \in Nat
    BY DEF TypeInv, TypeOK, Request
  <2>2. worker.pc # "idle" => worker.post \in Posts
    BY DEF TypeInv, WorkerBusy
  <2> QED
    BY <1>1, <1>2, <1>3, <1>5, <2>1, <2>2 DEF WorkerMove, GenerationInv
<1>8. \A c \in Stops : stops'[c].generation <= gen'
  BY <1>1, <1>2, <1>4, <1>5 DEF StopMove, GenerationInv
<1>9. FenceNotAhead'
  <2>1. branch \in Seq(Entry) /\ Ordered(branch)
    BY DEF TypeInv, TypeOK, FenceInv, NothingBehindFence, Ordered
  <2>2. fenceGeneration(branch) \in Nat /\ fenceGeneration(branch) <= gen
    BY <2>1, FenceIsLast DEF GenerationInv, FenceNotAhead
  <2>3. CASE branch' = branch
    BY <1>2, <1>5, <2>2, <2>3 DEF FenceNotAhead
  <2>4. ASSUME NEW r \in reqs, inspectDispatch(branch, r.post, r.generation) = "ready",
               branch' = acceptDispatch(branch, r.post, r.generation)
        PROVE  FenceNotAhead'
    <3> DEFINE e == [kind |-> "dispatch-accepted", dispatchId |-> r.post, generation |-> r.generation]
    <3>1. r.post \in Dispatches /\ r.generation \in Nat /\ r.generation <= gen
      BY DispatchesArePosts DEF TypeInv, TypeOK, Request, GenerationInv
    <3>2. e \in Entry /\ e.generation = r.generation
      BY <3>1 DEF Entry
    <3>3. branch' = Append(branch, e)
      BY <2>4 DEF acceptDispatch
    <3>4. r.generation >= fenceGeneration(branch)
      BY <2>2, <2>4, <3>1, ReadyMeans
    <3> HIDE DEF e
    <3>5. fenceGeneration(branch') = r.generation
      BY <2>1, <3>2, <3>3, <3>4, FenceAfterAppend
    <3> QED
      BY <1>2, <1>5, <3>1, <3>5 DEF FenceNotAhead
  <2>5. ASSUME NEW c \in Stops, branch' = advanceDispatchFence(branch, stops[c].generation)
        PROVE  FenceNotAhead'
    <3>1. fenceGeneration(branch') \in {fenceGeneration(branch), stops[c].generation}
      BY <1>4, <2>1, <2>5, FenceAfterAdvance
    <3> QED
      BY <1>2, <1>4, <1>5, <2>2, <3>1 DEF FenceNotAhead, GenerationInv
  <2> QED
    BY <1>1, <2>3, <2>4, <2>5 DEF BranchMove
<1> QED
  BY <1>5, <1>6, <1>7, <1>8, <1>9 DEF GenerationInv

\* GenerationInv is an invariant.
LEMMA GenerationInvariant == Spec => []GenerationInv
<1>1. Init => GenerationInv
  <2> SUFFICES ASSUME Init PROVE GenerationInv
    OBVIOUS
  <2>1. branch = <<>> /\ branch \in Seq(Entry) /\ Ordered(branch)
    BY DEF Init, Ordered
  <2>2. fenceGeneration(branch) = 0
    BY <2>1, FenceIsLast
  <2> QED
    BY <2>2 DEF Init, GenerationInv, ActiveIsCurrent, FenceNotAhead, NoRow, Active
<1>2. TypeInv /\ TypeInv' /\ FenceInv /\ GenerationInv /\ [Next]_vars => GenerationInv'
  BY GenerationStep
<1> QED
  BY <1>1, <1>2, TypeInvariant, FenceInvariant, PTL DEF Spec

\* A stop leaves no active row of an older generation, and agentd's fence
\* never refuses the posts of the current one.
THEOREM GenerationsAgree == Spec => []GenerationsMatch
<1>1. GenerationInv => GenerationsMatch
  BY DEF GenerationInv, GenerationsMatch
<1> QED
  BY <1>1, GenerationInvariant, PTL

-----------------------------------------------------------------------------
(***************************************************************************)
(* Stopped.  Every source of "stopped" carries a generation the fence has *)
(* reached, but for the answer that is made up for a topic without a       *)
(* session.                                                                *)
(***************************************************************************)

\* A step shows "stopped" only if it was shown already, or on a stop's answer,
\* a stream event or a reconciliation of the current generation, or on an
\* answer it made up.
StoppedMove ==
    activity' = "stopped" =>
        \/ StopWasUnasked'
        \/ /\ gen' = gen
           /\ \/ activity = "stopped"
              \/ \E c \in Stops : stops[c].st = "answered" /\ stops[c].state = "stopped"
                                    /\ stops[c].generation = gen
              \/ evts # <<>> /\ Head(evts).kind = "interrupted" /\ Head(evts).generation = gen
              \/ recon.st = "answered" /\ recon.state # "none" /\ recon.generation = gen

\* Nothing else shows "stopped".
LEMMA StoppedMoves == TypeInv /\ [Next]_vars => StoppedMove
<1> SUFFICES ASSUME TypeInv, [Next]_vars, activity' = "stopped"
             PROVE StoppedMove
  BY DEF StoppedMove
<1> USE DEF forumDb, freeze, process
<1>1. CASE OutboxStep
  BY <1>1 DEF StoppedMove, OutboxStep, CreatePost, RetryFailed, Ripen, AbandonHead, Claim,
              finishCompactionSuccess
<1>2. CASE WorkerStep \/ TransportFailure
  BY <1>2 DEF StoppedMove, WorkerStep, OpenDead, OpenLoaded, OpenSession, LinkSession, OpenRefused, Send,
              ApplicationFailure, DispatchSettled, DispatchRefused, TransportFailure,
              Quieted, setRobotActivity
<1>3. ASSUME NEW r \in reqs, MessageStep(r) PROVE StoppedMove
  BY <1>3 DEF StoppedMove, MessageStep, MessageRefused, MessageNotReady, MessageAccepted, RequestLost
<1>4. CASE StopStep
  <2> PICK c \in Stops :
        \/ StopLinked(c) \/ StopUnlinked(c) \/ AgentdRefusesStop(c)
        \/ \E s \in Cancelled : AgentdStops(c, s)
        \/ StopReturns(c) \/ StopFails(c) \/ AgentdCrashInStop(c)
    BY <1>4 DEF StopStep
  <2>1. CASE StopLinked(c)
    BY <2>1 DEF StopLinked, setRobotActivity
  <2>2. CASE StopUnlinked(c)
    <3>1. /\ stops \in [Stops -> Stop]
          /\ stops' = [stops EXCEPT ![c] = [st |-> "unasked", generation |-> gen',
                                            state |-> "stopped"]]
      BY <2>2 DEF TypeInv, TypeOK, StopUnlinked, setRobotActivity
    <3>2. StopWasUnasked'
      BY <3>1 DEF StopWasUnasked
    <3> QED
      BY <3>2 DEF StoppedMove
  <2>3. CASE StopReturns(c)
    BY <2>3 DEF StoppedMove, StopReturns, setRobotActivity
  <2>4. CASE StopFails(c)
    BY <2>4 DEF StoppedMove, StopFails, setRobotActivity
  <2>5. CASE AgentdRefusesStop(c) \/ (\E s \in Cancelled : AgentdStops(c, s)) \/ AgentdCrashInStop(c)
    BY <2>5 DEF StoppedMove, AgentdRefusesStop, AgentdStops, AgentdCrashInStop, AgentdDies
  <2> QED
    BY <2>1, <2>2, <2>3, <2>4, <2>5
<1>5. CASE ReconcileStep
  BY <1>5 DEF StoppedMove, ReconcileStep, ReconcileAsks, ReconcileHasNothing, ReconcileApplies,
              ReconcileFails, ApplyReconciliation, AgentdReconciles
<1>6. CASE StreamStep
  <2>1. CASE ReceiveEvent
    BY <2>1 DEF StoppedMove, ReceiveEvent, ProcessEvent, setRobotActivity
  <2>2. CASE ~ReceiveEvent
    BY <1>6, <2>2 DEF StoppedMove, StreamStep, SideStep, AcceptOperation, OperationEnds, DirectorWrites,
              EmitBusy, EmitTurnEnd, CloseAsks, AgentdCloses,
              CloseReturns, CloseFails, ForumCrash, ForumStarts, AgentdCrash, AgentdDies,
              AgentdUnloads, Quieted, setRobotActivity
  <2> QED
    BY <2>1, <2>2
<1>7. CASE UNCHANGED vars
  BY <1>7 DEF StoppedMove, vars
<1> QED
  BY <1>1, <1>2, <1>3, <1>4, <1>5, <1>6, <1>7, NextSplits

\* What agentd, the calls of Stop Robot, the stream and the reconciliation
\* pass know of a cancellation, the fence has reached.
Reached(g) == g <= fenceGeneration(branch)

EvidenceInv ==
    /\ \A g \in Generations : canc[g] # "none" => Reached(g)
    /\ \A c \in Stops : stops[c].st = "answered" /\ stops[c].state = "stopped"
                          => Reached(stops[c].generation)
    /\ \A i \in DOMAIN evts : evts[i].kind = "interrupted" => Reached(evts[i].generation)
    /\ recon.st = "asked" => recon.state = "none"
    /\ recon.st = "answered" /\ recon.state # "none" => Reached(recon.generation)

\* This step serves a stop of generation g, or dies in it.
ServedNow(g) ==
    \E c \in Stops : /\ stops[c].generation = g /\ g >= fenceGeneration(branch)
                     /\ branch' = advanceDispatchFence(branch, g)

\* The fence only moves forward, and a stop that is served moves it there.
LEMMA FenceReaches ==
  ASSUME TypeInv, FenceInv, [Next]_vars
  PROVE  /\ fenceGeneration(branch) \in Nat /\ fenceGeneration(branch') \in Nat
         /\ fenceGeneration(branch') >= fenceGeneration(branch)
         /\ \A g : ServedNow(g) => g \in Nat /\ g <= fenceGeneration(branch')
<1>1. branch \in Seq(Entry) /\ Ordered(branch)
  BY DEF TypeInv, TypeOK, FenceInv, NothingBehindFence, Ordered
<1>2. /\ fenceGeneration(branch) \in Nat /\ fenceGeneration(branch') \in Nat
      /\ fenceGeneration(branch') >= fenceGeneration(branch)
  BY BranchMoves, FenceStep
<1>3. ASSUME NEW c \in Stops, branch' = advanceDispatchFence(branch, stops[c].generation)
      PROVE  stops[c].generation \in Nat /\ stops[c].generation <= fenceGeneration(branch')
  <2>1. stops[c].generation \in Nat
    BY DispatchBounds DEF TypeInv, TypeOK, Stop, Generations
  <2>2. fenceGeneration(branch') = IF stops[c].generation <= fenceGeneration(branch)
                                   THEN fenceGeneration(branch) ELSE stops[c].generation
    BY <1>1, <1>3, <2>1, FenceAfterAdvance
  <2> QED
    BY <1>2, <2>1, <2>2
<1> QED
  BY <1>2, <1>3 DEF ServedNow

\* A cancellation is recorded by serving a stop.
LEMMA CancellationMoves ==
  ASSUME TypeInv, [Next]_vars, NEW g \in Generations, canc'[g] # "none"
  PROVE  canc[g] # "none" \/ ServedNow(g)
<1>1. canc \in [Generations -> Cancelled \cup {"none"}] /\ stops \in [Stops -> Stop]
  BY DEF TypeInv, TypeOK
<1> USE DEF agentd
<1>2. CASE OutboxStep
  BY <1>2 DEF OutboxStep, CreatePost, RetryFailed, Ripen, AbandonHead, Claim,
              finishCompactionSuccess
<1>3. CASE WorkerStep \/ TransportFailure
  BY <1>3 DEF WorkerStep, OpenDead, OpenLoaded, OpenSession, LinkSession, OpenRefused, Send,
              ApplicationFailure, DispatchSettled, DispatchRefused, TransportFailure
<1>4. ASSUME NEW r \in reqs, MessageStep(r) PROVE canc[g] # "none"
  BY <1>4 DEF MessageStep, MessageRefused, MessageNotReady, MessageAccepted, RequestLost
<1>5. CASE StopStep
  <2>1. PICK c \in Stops :
        \/ StopLinked(c) \/ StopUnlinked(c) \/ AgentdRefusesStop(c)
        \/ \E s \in Cancelled : AgentdStops(c, s)
        \/ StopReturns(c) \/ StopFails(c) \/ AgentdCrashInStop(c)
    BY <1>5 DEF StopStep
  <2>2. CASE (\E s \in Cancelled : AgentdStops(c, s)) \/ AgentdCrashInStop(c)
    <3>1. /\ stops[c].generation >= fenceGeneration(branch)
          /\ branch' = advanceDispatchFence(branch, stops[c].generation)
      BY <2>2 DEF AgentdStops, AgentdCrashInStop
    <3>2. canc' = canc \/ \E s \in Cancelled : canc' = [canc EXCEPT ![stops[c].generation] = s]
      BY <2>2 DEF AgentdStops, AgentdCrashInStop, Cancelled, Unresolved
    <3>3. canc'[g] = canc[g] \/ g = stops[c].generation
      BY <1>1, <3>2
    <3> QED
      BY <3>1, <3>3 DEF ServedNow
  <2>3. CASE ~((\E s \in Cancelled : AgentdStops(c, s)) \/ AgentdCrashInStop(c))
    BY <2>1, <2>3 DEF StopLinked, StopUnlinked, AgentdRefusesStop, StopReturns, StopFails
  <2> QED
    BY <2>2, <2>3
<1>6. CASE ReconcileStep
  <2>1. CASE \E s \in Cancelled : AgentdReconciles(s)
    BY <1>1, <2>1 DEF AgentdReconciles, Latest
  <2>2. CASE ~\E s \in Cancelled : AgentdReconciles(s)
    BY <1>6, <2>2 DEF ReconcileStep, ReconcileAsks, ReconcileHasNothing, ReconcileApplies, ReconcileFails
  <2> QED
    BY <2>1, <2>2
<1>7. CASE StreamStep
  BY <1>7 DEF StreamStep, SideStep, AcceptOperation, OperationEnds, DirectorWrites,
              EmitBusy, EmitTurnEnd, ReceiveEvent, CloseAsks, AgentdCloses,
              CloseReturns, CloseFails, ForumCrash, ForumStarts, AgentdCrash, AgentdUnloads
<1>8. CASE UNCHANGED vars
  BY <1>8 DEF vars
<1> QED
  BY <1>2, <1>3, <1>4, <1>5, <1>6, <1>7, <1>8, NextSplits

\* A crash answers no stop.
LEMMA CrashAnswersNone ==
  ASSUME TypeInv, ForumCrash \/ AgentdDies, NEW c \in Stops, stops'[c].st = "answered"
  PROVE  stops'[c].generation = stops[c].generation /\ stops'[c].state = stops[c].state
           /\ stops[c].st = "answered"
<1>1. stops \in [Stops -> Stop]
  BY DEF TypeInv, TypeOK
<1>2. CASE ForumCrash
  BY <1>1, <1>2 DEF ForumCrash, Stop
<1>3. CASE AgentdDies
  BY <1>1, <1>3 DEF AgentdDies, Stop
<1> QED
  BY <1>2, <1>3

\* "Stopped" is answered by serving the stop.
LEMMA AnswerMoves ==
  ASSUME TypeInv, [Next]_vars, NEW c \in Stops,
         stops'[c].st = "answered", stops'[c].state = "stopped"
  PROVE  \/ /\ stops[c].st = "answered" /\ stops[c].state = "stopped"
            /\ stops'[c].generation = stops[c].generation
         \/ ServedNow(stops'[c].generation)
<1>1. stops \in [Stops -> Stop]
  BY DEF TypeInv, TypeOK
<1> USE DEF process
<1>2. CASE OutboxStep
  BY <1>2 DEF OutboxStep, CreatePost, RetryFailed, Ripen, AbandonHead, Claim,
              finishCompactionSuccess
<1>3. CASE WorkerStep \/ TransportFailure
  BY <1>3 DEF WorkerStep, OpenDead, OpenLoaded, OpenSession, LinkSession, OpenRefused, Send,
              ApplicationFailure, DispatchSettled, DispatchRefused, TransportFailure
<1>4. ASSUME NEW r \in reqs, MessageStep(r) PROVE stops' = stops
  BY <1>4 DEF MessageStep, MessageRefused, MessageNotReady, MessageAccepted, RequestLost
<1>5. CASE StopStep
  <2>1. PICK d \in Stops :
        \/ StopLinked(d) \/ StopUnlinked(d) \/ AgentdRefusesStop(d)
        \/ \E s \in Cancelled : AgentdStops(d, s)
        \/ StopReturns(d) \/ StopFails(d) \/ AgentdCrashInStop(d)
    BY <1>5 DEF StopStep
  <2>2. CASE StopLinked(d) \/ StopUnlinked(d)
    BY <1>1, <2>2 DEF StopLinked, StopUnlinked
  <2>3. CASE AgentdRefusesStop(d)
    <3>1. Served(stops[d], "uncertain").state = "uncertain"
      BY <1>1, ServedStop DEF Cancelled, Unresolved
    <3> QED
      BY <1>1, <2>3, <3>1 DEF AgentdRefusesStop, StopServed
  <2>4. ASSUME NEW s \in Cancelled, AgentdStops(d, s)
        PROVE  stops'[c] = stops[c] \/ ServedNow(stops'[c].generation)
    <3>1. Served(stops[d], s).generation = stops[d].generation
      BY <1>1, ServedStop
    <3>2. stops'[c] = stops[c] \/ (c = d /\ stops'[c].generation = stops[d].generation)
      BY <1>1, <2>4, <3>1 DEF AgentdStops, StopServed
    <3>3. ServedNow(stops[d].generation)
      BY <2>4 DEF AgentdStops, ServedNow
    <3> QED
      BY <3>2, <3>3
  <2>5. CASE StopReturns(d)
    BY <1>1, <2>5 DEF StopReturns, Stop
  <2>6. CASE StopFails(d)
    BY <1>1, <2>6, GivenUpStop DEF StopFails
  <2>7. CASE AgentdCrashInStop(d)
    BY <2>7, CrashAnswersNone DEF AgentdCrashInStop
  <2> QED
    BY <2>1, <2>2, <2>3, <2>4, <2>5, <2>6, <2>7
<1>6. CASE ReconcileStep
  BY <1>6 DEF ReconcileStep, ReconcileAsks, ReconcileHasNothing, ReconcileApplies,
                    ReconcileFails, AgentdReconciles
<1>7. CASE StreamStep
  <2>1. CASE ForumCrash \/ AgentdCrash
    BY <2>1, CrashAnswersNone DEF AgentdCrash
  <2>2. CASE ~(ForumCrash \/ AgentdCrash)
    BY <1>7, <2>2 DEF StreamStep, SideStep, AcceptOperation, OperationEnds, DirectorWrites,
              EmitBusy, EmitTurnEnd, ReceiveEvent, CloseAsks, AgentdCloses,
              CloseReturns, CloseFails, ForumStarts, AgentdUnloads
  <2> QED
    BY <2>1, <2>2
<1>8. CASE UNCHANGED vars
  BY <1>8 DEF vars
<1> QED
  BY <1>2, <1>3, <1>4, <1>5, <1>6, <1>7, <1>8, NextSplits

\* What the stream can become.
LEMMA EmittedEvents ==
  ASSUME evts \in Seq(Event), NEW e \in Event, evts' = Emitted(e) \/ evts' = Append(evts, e),
         NEW i \in DOMAIN evts'
  PROVE  (i \in DOMAIN evts /\ evts'[i] = evts[i]) \/ evts'[i] = e
  BY DEF Emitted

\* An interruption is told by serving the stop.
LEMMA EventMoves ==
  ASSUME TypeInv, [Next]_vars, NEW i \in DOMAIN evts', evts'[i].kind = "interrupted"
  PROVE  (\E j \in DOMAIN evts : evts[j] = evts'[i]) \/ ServedNow(evts'[i].generation)
<1>1. evts \in Seq(Event) /\ stops \in [Stops -> Stop]
  BY DEF TypeInv, TypeOK
<1> USE DEF network
<1>2. CASE OutboxStep
  BY <1>2 DEF OutboxStep, CreatePost, RetryFailed, Ripen, AbandonHead, Claim,
              finishCompactionSuccess
<1>3. CASE WorkerStep \/ TransportFailure
  BY <1>3 DEF WorkerStep, OpenDead, OpenLoaded, OpenSession, LinkSession, OpenRefused, Send,
              ApplicationFailure, DispatchSettled, DispatchRefused, TransportFailure
<1>4. ASSUME NEW r \in reqs, MessageStep(r) PROVE evts' = evts
  BY <1>4 DEF MessageStep, MessageRefused, MessageNotReady, MessageAccepted, RequestLost
<1>5. CASE StopStep
  <2>1. PICK d \in Stops :
        \/ StopLinked(d) \/ StopUnlinked(d) \/ AgentdRefusesStop(d)
        \/ \E s \in Cancelled : AgentdStops(d, s)
        \/ StopReturns(d) \/ StopFails(d) \/ AgentdCrashInStop(d)
    BY <1>5 DEF StopStep
  <2>2. ASSUME NEW s \in Cancelled, AgentdStops(d, s)
        PROVE  (i \in DOMAIN evts /\ evts'[i] = evts[i]) \/ ServedNow(evts'[i].generation)
    <3> DEFINE e == [kind |-> "interrupted", generation |-> stops[d].generation, state |-> s]
    <3>1. e \in Event /\ e.generation = stops[d].generation
      BY <1>1 DEF Event, Stop
    <3>2. evts' = Emitted(e)
      BY <2>2 DEF AgentdStops
    <3>3. ServedNow(stops[d].generation)
      BY <2>2 DEF AgentdStops, ServedNow
    <3> HIDE DEF e
    <3> QED
      BY <1>1, <3>1, <3>2, <3>3, EmittedEvents
  <2>3. CASE AgentdCrashInStop(d)
    BY <2>3 DEF AgentdCrashInStop, AgentdDies
  <2>4. CASE \/ StopLinked(d) \/ StopUnlinked(d) \/ AgentdRefusesStop(d) \/ StopReturns(d)
             \/ StopFails(d)
    BY <2>4 DEF StopLinked, StopUnlinked, AgentdRefusesStop, StopReturns, StopFails
  <2> QED
    BY <2>1, <2>2, <2>3, <2>4
<1>6. CASE ReconcileStep
  BY <1>6 DEF ReconcileStep, ReconcileAsks, ReconcileHasNothing, ReconcileApplies,
                    ReconcileFails, AgentdReconciles
<1>7. CASE StreamStep
  <2>1. \A k \in {"busy", "completed", "error"} : TurnEvent(k) \in Event /\ TurnEvent(k).kind = k
    BY DispatchBounds DEF TurnEvent, Event, Generations
  <2>2. CASE EmitBusy \/ EmitTurnEnd \/ AgentdCloses \/ AgentdUnloads
    <3>1. PICK k \in {"busy", "completed", "error"} :
             evts' = Emitted(TurnEvent(k)) \/ evts' = Append(evts, TurnEvent(k))
      BY <2>2 DEF EmitBusy, EmitTurnEnd, AgentdCloses, AgentdUnloads
    <3> QED
      BY <1>1, <2>1, <3>1, EmittedEvents
  <2>3. CASE ReceiveEvent
    <3>1. evts # <<>> /\ evts' = Tail(evts)
      BY <2>3 DEF ReceiveEvent
    <3>2. i + 1 \in DOMAIN evts /\ evts'[i] = evts[i + 1]
      BY <1>1, <3>1
    <3> QED
      BY <3>2
  <2>4. CASE AgentdCrash
    BY <2>4 DEF AgentdCrash, AgentdDies
  <2>5. CASE CloseAsks \/ CloseReturns \/ CloseFails \/ ForumCrash \/ ForumStarts \/ SideStep
    BY <2>5 DEF CloseAsks, CloseReturns, CloseFails, ForumCrash, ForumStarts,
                SideStep, AcceptOperation, OperationEnds, DirectorWrites
  <2> QED
    BY <1>7, <2>2, <2>3, <2>4, <2>5 DEF StreamStep
<1>8. CASE UNCHANGED vars
  BY <1>8 DEF vars
<1> QED
  BY <1>2, <1>3, <1>4, <1>5, <1>6, <1>7, <1>8, NextSplits

\* A reconciliation reports a cancellation that is recorded.
ReconMove ==
    \/ recon' = recon
    \/ recon'.st \in {"idle", "due"}
    \/ recon'.st = "asked" /\ recon'.state = "none"
    \/ recon'.st = "answered" /\ recon.st = "asked" /\ recon'.state = recon.state
    \/ recon'.st = "answered" /\ recon'.generation \in Generations /\ canc[recon'.generation] # "none"

\* Nothing else happens to the reconciliation pass.
LEMMA ReconMoves == TypeInv /\ [Next]_vars => ReconMove
<1> SUFFICES ASSUME TypeInv, [Next]_vars PROVE ReconMove
  OBVIOUS
<1>1. recon \in Recon
  BY DEF TypeInv, TypeOK
<1> USE DEF process, ReconMove
<1>2. CASE OutboxStep
  BY <1>2 DEF OutboxStep, CreatePost, RetryFailed, Ripen, AbandonHead, Claim,
              finishCompactionSuccess
<1>3. CASE WorkerStep \/ TransportFailure
  BY <1>3 DEF WorkerStep, OpenDead, OpenLoaded, OpenSession, LinkSession, OpenRefused, Send,
              ApplicationFailure, DispatchSettled, DispatchRefused, TransportFailure
<1>4. ASSUME NEW r \in reqs, MessageStep(r) PROVE recon' = recon
  BY <1>4 DEF MessageStep, MessageRefused, MessageNotReady, MessageAccepted, RequestLost
<1>5. CASE StopStep
  BY <1>5 DEF StopStep, StopLinked, StopUnlinked, AgentdRefusesStop, AgentdStops, StopReturns,
              StopFails, AgentdCrashInStop, AgentdDies
<1>6. CASE ReconcileStep
  <2>1. ASSUME NEW s \in Cancelled, AgentdReconciles(s) PROVE ReconMove
    <3>1. CASE recon' = [recon EXCEPT !.st = "answered"]
      BY <1>1, <2>1, <3>1 DEF AgentdReconciles, Recon
    <3>2. ASSUME NEW g \in Generations, Latest(g),
                 recon' = [recon EXCEPT !.st = "answered", !.generation = g, !.state = s]
          PROVE  ReconMove
      BY <1>1, <3>2 DEF Latest, Recon
    <3> QED
      BY <2>1, <3>1, <3>2 DEF AgentdReconciles
  <2>2. CASE ~\E s \in Cancelled : AgentdReconciles(s)
    BY <1>6, <2>2 DEF ReconcileStep, ReconcileAsks, ReconcileHasNothing, ReconcileApplies,
              ReconcileFails, NoRecon
  <2> QED
    BY <2>1, <2>2
<1>7. CASE StreamStep
  BY <1>7 DEF StreamStep, SideStep, AcceptOperation, OperationEnds, DirectorWrites,
              EmitBusy, EmitTurnEnd, ReceiveEvent, CloseAsks, AgentdCloses,
              CloseReturns, CloseFails, ForumCrash, ForumStarts, AgentdCrash, AgentdDies,
              AgentdUnloads, NoRecon
<1>8. CASE UNCHANGED vars
  BY <1>8 DEF vars
<1> QED
  BY <1>2, <1>3, <1>4, <1>5, <1>6, <1>7, <1>8, NextSplits

\* EvidenceInv is an invariant.
LEMMA EvidenceInvariant == Spec => []EvidenceInv
<1>1. Init => EvidenceInv
  BY DEF Init, EvidenceInv, NoRecon
<1>2. TypeInv /\ TypeInv' /\ FenceInv /\ EvidenceInv /\ [Next]_vars => EvidenceInv'
  <2> SUFFICES ASSUME TypeInv, TypeInv', FenceInv, EvidenceInv, [Next]_vars PROVE EvidenceInv'
    OBVIOUS
  <2>1. /\ fenceGeneration(branch) \in Nat /\ fenceGeneration(branch') \in Nat
        /\ fenceGeneration(branch') >= fenceGeneration(branch)
        /\ \A g : ServedNow(g) => g \in Nat /\ g <= fenceGeneration(branch')
    BY FenceReaches
  <2>2. \A g \in Nat : Reached(g) => g <= fenceGeneration(branch')
    BY <2>1 DEF Reached
  <2>3. Generations \subseteq Nat
    BY DispatchBounds DEF Generations
  <2>4. ASSUME NEW g \in Generations, canc'[g] # "none" PROVE g <= fenceGeneration(branch')
    BY <2>1, <2>2, <2>3, <2>4, CancellationMoves DEF EvidenceInv
  <2>5. ASSUME NEW c \in Stops, stops'[c].st = "answered", stops'[c].state = "stopped"
        PROVE  stops'[c].generation <= fenceGeneration(branch')
    <3>1. stops[c].generation \in Nat
      BY <2>3 DEF TypeInv, TypeOK, Stop
    <3> QED
      BY <2>1, <2>2, <2>5, <3>1, AnswerMoves DEF EvidenceInv
  <2>6. ASSUME NEW i \in DOMAIN evts', evts'[i].kind = "interrupted"
        PROVE  evts'[i].generation <= fenceGeneration(branch')
    <3>1. evts' \in Seq(Event)
      BY DEF TypeInv, TypeOK
    <3>2. evts'[i] \in Event
      BY <3>1
    <3>3. evts'[i].generation \in Nat
      BY <2>3, <3>2 DEF Event
    <3> QED
      BY <2>1, <2>2, <2>6, <3>3, EventMoves DEF EvidenceInv
  <2>7. /\ recon'.st = "asked" => recon'.state = "none"
        /\ recon'.st = "answered" /\ recon'.state # "none"
             => recon'.generation <= fenceGeneration(branch')
    <3>1. recon.generation \in Nat
      BY <2>3 DEF TypeInv, TypeOK, Recon
    <3> QED
      BY <2>2, <2>3, <3>1, ReconMoves DEF ReconMove, EvidenceInv
  <2> QED
    BY <2>4, <2>5, <2>6, <2>7 DEF EvidenceInv, Reached
<1> QED
  BY <1>1, <1>2, TypeInvariant, FenceInvariant, PTL DEF Spec

\* The forum shows "stopped" only once the canonical fence has reached the
\* topic's generation, whoever reported it, for any number of stops, retries,
\* crashes and late events; or after a stop that found no session to ask,
\* whose answer interruptTopic made up and which fenced nothing.
THEOREM StoppedMeansFenced == Spec => []StoppedIsFenced
<1>1. Init => StoppedIsFenced
  <2>1. Init => activity \in {"none", "idle"}
    BY DEF Init
  <2> QED
    BY <2>1 DEF StoppedIsFenced
<1>2. TypeInv /\ TypeInv' /\ FenceInv /\ GenerationInv /\ GenerationInv' /\ EvidenceInv
        /\ StoppedIsFenced /\ [Next]_vars => StoppedIsFenced'
  <2> SUFFICES ASSUME TypeInv, TypeInv', FenceInv, GenerationInv, GenerationInv', EvidenceInv,
                      StoppedIsFenced, [Next]_vars, activity' = "stopped", ~StopWasUnasked'
               PROVE  fenceGeneration(branch') = gen'
    BY DEF StoppedIsFenced
  <2>1. gen \in Nat /\ fenceGeneration(branch') <= gen'
    BY DispatchBounds DEF TypeInv, TypeOK, Generations, GenerationInv, FenceNotAhead
  <2>2. /\ fenceGeneration(branch) \in Nat /\ fenceGeneration(branch') \in Nat
        /\ fenceGeneration(branch') >= fenceGeneration(branch)
    BY FenceReaches
  <2>3. StoppedMove
    BY StoppedMoves
  <2>4. evts # <<>> => 1 \in DOMAIN evts /\ Head(evts) = evts[1]
    BY DEF TypeInv, TypeOK
  <2>5. gen' = gen
    BY <2>3 DEF StoppedMove
  <2>6. ~StopWasUnasked
    BY <2>5, StopMoves DEF StopMove, StopWasUnasked
  <2>7. gen <= fenceGeneration(branch)
    <3>1. CASE activity = "stopped"
      <4>1. fenceGeneration(branch) = gen
        BY <2>6, <3>1, Zenon DEF StoppedIsFenced
      <4> QED
        BY <2>1, <4>1
    <3>2. CASE activity # "stopped"
      BY <2>3, <2>4, <2>5, <3>2 DEF StoppedMove, EvidenceInv, Reached
    <3> QED
      BY <3>1, <3>2
  <2> QED
    BY <2>1, <2>2, <2>5, <2>7
<1> QED
  BY <1>1, <1>2, TypeInvariant, FenceInvariant, GenerationInvariant,
     EvidenceInvariant, PTL DEF Spec

\* Calling Stop Robot again while a stop is unresolved leaves every row of the
\* outbox alone.
THEOREM RetriesKeepPosts == Spec => RetryKeepsPosts
<1> DEFINE A == (\E c \in Stops : stops[c].st = "unused" /\ stops'[c].st # "unused")
                  /\ activity \in Unresolved => rows' = rows
<1>1. TypeInv /\ [Next]_vars => A
  <2> SUFFICES ASSUME TypeInv, [Next]_vars, activity \in Unresolved,
                      NEW c \in Stops, stops[c].st = "unused", stops'[c].st # "unused"
               PROVE  rows' = rows
    OBVIOUS
  <2> USE DEF forumDb, freeze, process
  <2>1. stops \in [Stops -> Stop]
    BY DEF TypeInv, TypeOK
  <2>2. stops' # stops
    OBVIOUS
  <2>3. CASE OutboxStep
    BY <2>2, <2>3 DEF OutboxStep, CreatePost, RetryFailed, Ripen, AbandonHead, Claim,
              finishCompactionSuccess
  <2>4. CASE WorkerStep \/ TransportFailure
    BY <2>2, <2>4 DEF WorkerStep, OpenDead, OpenLoaded, OpenSession, LinkSession, OpenRefused, Send,
              ApplicationFailure, DispatchSettled, DispatchRefused, TransportFailure
  <2>5. ASSUME NEW r \in reqs, MessageStep(r) PROVE rows' = rows
    BY <2>5 DEF MessageStep, MessageRefused, MessageNotReady, MessageAccepted, RequestLost
  <2>6. CASE StopStep
    BY <2>6 DEF StopStep, StopLinked, StopUnlinked, FenceForStop, AgentdRefusesStop, AgentdStops,
              StopReturns, StopFails, AgentdCrashInStop, AgentdDies
  <2>7. CASE ReconcileStep
    BY <2>7 DEF ReconcileStep, ReconcileAsks, ReconcileHasNothing, ReconcileApplies,
              ReconcileFails, AgentdReconciles
  <2>8. CASE StreamStep
    BY <2>2, <2>8 DEF StreamStep, SideStep, AcceptOperation, OperationEnds, DirectorWrites,
              EmitBusy, EmitTurnEnd, ReceiveEvent, CloseAsks, AgentdCloses,
              CloseReturns, CloseFails, ForumCrash, ForumStarts, AgentdCrash, AgentdDies, AgentdUnloads
  <2>9. CASE UNCHANGED vars
    BY <2>9 DEF vars
  <2> QED
    BY <2>3, <2>4, <2>5, <2>6, <2>7, <2>8, <2>9, NextSplits
<1> QED
  BY <1>1, TypeInvariant, PTL DEF Spec, RetryKeepsPosts

-----------------------------------------------------------------------------
(***************************************************************************)
(* Groups.  A row keeps its origin and its solitude, and whom it sends     *)
(* along changes only in a claim, so a group is uniform because Group made *)
(* it so; a post that was claimed exists, and is not created again.        *)
(***************************************************************************)

\* n is the row r, with another status, token or clock.
Same(r, n) ==
    /\ n.origin = r.origin /\ n.solo = r.solo /\ n.contributors = r.contributors
    /\ r.status # "none" => n.status # "none"

SameRows(R, N) == \A q \in Posts : Same(R[q], N[q])

\* GroupsAreUniform, of existing posts.
Uniform(R) ==
    \A p \in Posts : \A q \in R[p].contributors :
        /\ R[q].status # "none" /\ R[q].origin = R[p].origin
        /\ R[p].solo \/ R[q].solo => p = q

\* Settling a row leaves it the same.
LEMMA SettledSame ==
  ASSUME NEW r \in Row, NEW st \in Statuses \ {"none"}
  PROVE  Same(r, Settled(r, st)) /\ Same(r, r)
  BY DEF Same, Settled, Row

\* So does every operation of the outbox but the creation and the claim.
LEMMA OperationsSame ==
  ASSUME NEW R \in Rows, NEW g \in Nat, NEW p \in Posts, NEW t, NEW b
  PROVE  /\ SameRows(R, R)
         /\ SameRows(R, markPostDispatchDispatched(R, g, p, t))
         /\ SameRows(R, markPostDispatchFailed(R, g, p, t, b))
         /\ SameRows(R, markPostDispatchAbandoned(R, g, p))
         /\ SameRows(R, retryTerminalPostDispatch(R, g, p))
         /\ SameRows(R, supersedeActive(R))
         /\ SameRows(R, reconcilePostDispatchGenerations(R, g))
<1>1. \A q \in Posts : /\ R[q] \in Row /\ Same(R[q], R[q])
                       /\ \A st \in Statuses \ {"none"} : Same(R[q], Settled(R[q], st))
  BY SettledSame DEF Rows, Same
<1>2. {"dispatched", "pending", "failed", "abandoned", "superseded"} \subseteq Statuses \ {"none"}
  BY DEF Statuses
<1>3. \A q \in Posts : Same(R[q], Requeued(R[q]))
  BY <1>1 DEF Same, Requeued, Row
<1>4. SameRows(R, markPostDispatchDispatched(R, g, p, t))
  BY <1>1, <1>2 DEF SameRows, markPostDispatchDispatched, Rows
<1>5. SameRows(R, markPostDispatchFailed(R, g, p, t, b))
  BY <1>1, <1>2 DEF SameRows, markPostDispatchFailed, Rows
<1>6. SameRows(R, markPostDispatchAbandoned(R, g, p))
  BY <1>1, <1>2 DEF SameRows, markPostDispatchAbandoned, Rows
<1>7. SameRows(R, retryTerminalPostDispatch(R, g, p))
  BY <1>1, <1>3 DEF SameRows, retryTerminalPostDispatch, Rows
<1>8. SameRows(R, supersedeActive(R)) /\ SameRows(R, reconcilePostDispatchGenerations(R, g))
  BY <1>1, <1>2 DEF SameRows, supersedeActive, reconcilePostDispatchGenerations
<1> QED
  BY <1>1, <1>4, <1>5, <1>6, <1>7, <1>8 DEF SameRows

\* And a table that is the same row by row is as uniform.
LEMMA SameUniform ==
  ASSUME NEW R \in Rows, NEW N \in Rows, Uniform(R), SameRows(R, N)
  PROVE  Uniform(N)
<1> SUFFICES ASSUME NEW p \in Posts, NEW q \in N[p].contributors
             PROVE  /\ N[q].status # "none" /\ N[q].origin = N[p].origin
                    /\ N[p].solo \/ N[q].solo => p = q
  BY DEF Uniform
<1>1. q \in R[p].contributors /\ q \in Posts
  BY DEF SameRows, Same, Rows, Row
<1> QED
  BY <1>1 DEF Uniform, SameRows, Same

\* What Group collects: active posts of the head's origin, and the head alone
\* when one of them must stand alone.
LEMMA GroupMembers ==
  ASSUME NEW R \in Rows, NEW g \in Nat, NEW head \in Posts, NEW x \in Group(R, g, head)
  PROVE  /\ x \in Posts /\ Active(R[x]) /\ R[x].origin = R[head].origin
         /\ R[x].solo \/ R[head].solo => x = head
<1> DEFINE candidates == {p \in pendingForTopic(R, g) : p >= head}
           boundary == {p \in candidates \ {head} : \/ R[p].origin # R[head].origin
                                                    \/ R[p].solo \/ R[head].solo}
<1>1. x \in candidates /\ \A b \in boundary : x < b
  BY DEF Group
<1>2. x \in Posts /\ Active(R[x])
  BY <1>1 DEF pendingForTopic
<1>3. x \notin boundary
  <2>1. ~(x < x)
    BY <1>2 DEF Posts
  <2> QED
    BY <1>1, <2>1
<1> QED
  BY <1>1, <1>2, <1>3

\* A claim keeps the groups uniform.
LEMMA ClaimUniform ==
  ASSUME NEW R \in Rows, NEW g \in Nat, NEW head \in Posts, NEW t \in Tokens,
         NEW x \in Group(R, g, head), Uniform(R)
  PROVE  Uniform(claimPostDispatchGroup(R, Group(R, g, head), x, t))
<1>1. PICK a : a = IF R[x].status = "pending" THEN Group(R, g, head) \ {x} ELSE {}
  OBVIOUS
<1>2. PICK N : N = claimPostDispatchGroup(R, Group(R, g, head), x, t)
  OBVIOUS
<1>3. /\ x \in Posts /\ a \subseteq Posts
      /\ \A y \in a : R[y].status # "none" /\ R[y].origin = R[x].origin /\ ~R[y].solo /\ ~R[x].solo
  <2>1. x \in Posts /\ R[x].origin = R[head].origin /\ (R[x].solo \/ R[head].solo => x = head)
    BY GroupMembers
  <2>2. ASSUME NEW y \in a
        PROVE  y \in Posts /\ R[y].status # "none" /\ R[y].origin = R[x].origin /\ ~R[y].solo /\ ~R[x].solo
    <3>1. y \in Group(R, g, head) /\ y # x
      BY <1>1
    <3>2. /\ y \in Posts /\ Active(R[y]) /\ R[y].origin = R[head].origin
          /\ R[y].solo \/ R[head].solo => y = head
      BY <3>1, GroupMembers
    <3> QED
      BY <2>1, <3>1, <3>2 DEF Active
  <2> QED
    BY <2>1, <2>2
<1>4. \A q \in Posts : N[q] = IF q = x THEN Claimed(R[q], t, R[q].contributors \cup a)
                              ELSE IF q \in a THEN Settled(R[q], "superseded") ELSE R[q]
  BY <1>1, <1>2 DEF claimPostDispatchGroup
<1>5. ASSUME NEW q \in Posts
      PROVE  /\ N[q].origin = R[q].origin /\ N[q].solo = R[q].solo
             /\ R[q].status # "none" => N[q].status # "none"
             /\ N[q].contributors \subseteq R[q].contributors \cup (IF q = x THEN a ELSE {})
  <2>1. R[q] \in Row /\ "superseded" \in Statuses \ {"none"}
    BY DEF Rows, Statuses
  <2>2. CASE q = x
    <3>1. N[q] = Claimed(R[q], t, R[q].contributors \cup a)
      BY <1>4, <2>2
    <3> QED
      BY <2>1, <2>2, <3>1 DEF Claimed, Row
  <2>3. CASE q # x
    <3>1. N[q] = R[q] \/ N[q] = Settled(R[q], "superseded")
      BY <1>4, <2>3
    <3> QED
      BY <2>1, <2>3, <3>1, SettledSame DEF Same
  <2> QED
    BY <2>2, <2>3
<1>6. ASSUME NEW p \in Posts, NEW q \in N[p].contributors
      PROVE  /\ N[q].status # "none" /\ N[q].origin = N[p].origin
             /\ N[p].solo \/ N[q].solo => p = q
  <2>1. q \in R[p].contributors \/ (p = x /\ q \in a)
    BY <1>5
  <2>2. CASE q \in R[p].contributors
    <3>1. q \in Posts
      BY <2>2 DEF Rows, Row
    <3> QED
      BY <1>5, <2>2, <3>1 DEF Uniform
  <2>3. CASE p = x /\ q \in a
    BY <1>3, <1>5, <2>3
  <2> QED
    BY <2>1, <2>2, <2>3
<1>7. Uniform(N)
  BY <1>6 DEF Uniform
<1> QED
  BY <1>2, <1>7

\* So does a new post, which nobody sends along yet.
LEMMA CreateUniform ==
  ASSUME NEW R \in Rows, NEW g \in Nat, NEW p \in Posts, NEW o \in Origins, NEW solo \in BOOLEAN,
         R[p].status = "none", Uniform(R)
  PROVE  Uniform(createPostDispatch(R, g, p, o, solo))
<1>1. PICK N : N = createPostDispatch(R, g, p, o, solo)
  OBVIOUS
<1>2. /\ N[p].contributors = {p} /\ N[p].status = "pending"
      /\ \A q \in Posts : q # p => N[q] = R[q]
  BY <1>1 DEF createPostDispatch, Rows
<1>3. \A q \in Posts : p \notin R[q].contributors
  BY DEF Uniform
<1>4. ASSUME NEW x \in Posts, NEW q \in N[x].contributors
      PROVE  /\ N[q].status # "none" /\ N[q].origin = N[x].origin
             /\ N[x].solo \/ N[q].solo => x = q
  <2>1. CASE x = p
    BY <1>2, <2>1
  <2>2. CASE x # p
    <3>1. q \in R[x].contributors /\ q \in Posts /\ q # p
      BY <1>2, <1>3, <2>2 DEF Rows, Row
    <3> QED
      BY <1>2, <2>2, <3>1 DEF Uniform
  <2> QED
    BY <2>1, <2>2
<1> QED
  BY <1>1, <1>4 DEF Uniform

\* Every step keeps the groups uniform.
LEMMA UniformStep ==
  ASSUME TypeInv, TypeInv', [Next]_vars, Uniform(rows)
  PROVE  Uniform(rows')
<1>1. rows \in Rows /\ rows' \in Rows /\ gen \in Nat /\ (worker.pc # "idle" => worker.post \in Posts)
  BY DispatchBounds DEF TypeInv, TypeOK, WorkerBusy, Generations
<1>2. ASSUME SameRows(rows, rows') PROVE Uniform(rows')
  BY <1>1, <1>2, SameUniform
<1>3. ASSUME rows' = rows PROVE Uniform(rows')
  BY <1>3
<1>4. CASE OutboxStep
  <2>1. PICK q \in Posts : \/ \E o \in Origins, solo \in SoloChoices : CreatePost(q, o, solo)
                           \/ RetryFailed(q) \/ Ripen(q) \/ AbandonHead(q) \/ Claim(q)
                           \/ finishCompactionSuccess(q)
    BY <1>4 DEF OutboxStep
  <2>2. ASSUME NEW o \in Origins, NEW solo \in SoloChoices, CreatePost(q, o, solo) PROVE Uniform(rows')
    <3>1. rows[q].status = "none" /\ rows' = createPostDispatch(rows, gen, q, o, solo) /\ solo \in BOOLEAN
      BY <2>2, SoloIsBoolean DEF CreatePost, IsNextPost
    <3> QED
      BY <1>1, <3>1, CreateUniform
  <2>3. CASE RetryFailed(q)
    BY <1>1, <1>2, <2>3, OperationsSame DEF RetryFailed
  <2>4. CASE Ripen(q)
    <3>1. rows' = [rows EXCEPT ![q].ripe = TRUE]
      BY <2>4 DEF Ripen
    <3>2. SameRows(rows, rows')
      BY <1>1, <3>1 DEF SameRows, Same, Rows, Row
    <3> QED
      BY <1>2, <3>2
  <2>5. CASE AbandonHead(q)
    BY <1>1, <1>2, <2>5, OperationsSame DEF AbandonHead
  <2>6. CASE Claim(q)
    <3>1. PICK t : t = CHOOSE z \in FreshTokens : TRUE
      OBVIOUS
    <3>2. t \in Tokens
      BY <2>6, <3>1 DEF Claim, FreshTokens
    <3>3. PICK x \in Group(rows, gen, q) : \E b :
                \/ rows' = claimPostDispatchGroup(rows, Group(rows, gen, q), x, t)
                \/ rows' = markPostDispatchFailed(
                              claimPostDispatchGroup(rows, Group(rows, gen, q), x, t), gen, x, t, b)
      BY <2>6, <3>1 DEF Claim, IsTrigger
    <3>4. PICK N : N = claimPostDispatchGroup(rows, Group(rows, gen, q), x, t)
      OBVIOUS
    <3>5. Uniform(N)
      BY <1>1, <3>2, <3>4, ClaimUniform
    <3>6. Group(rows, gen, q) \in SUBSET Posts /\ x \in Posts
      BY DEF Group, pendingForTopic
    <3>7. N \in Rows
      BY <1>1, <3>2, <3>4, <3>6, ClaimTyped
    <3>8. rows' = N \/ \E b : rows' = markPostDispatchFailed(N, gen, x, t, b)
      BY <3>3, <3>4
    <3>9. SameRows(N, rows')
      BY <1>1, <3>6, <3>7, <3>8, OperationsSame
    <3> QED
      BY <1>1, <3>5, <3>7, <3>9, SameUniform
  <2>7. CASE finishCompactionSuccess(q)
    <3>1. PICK o \in Origins :
            rows[q].status = "none" /\ rows' = createPostDispatch(rows, gen, q, o, TRUE)
      BY <2>7 DEF finishCompactionSuccess, IsNextPost
    <3> QED
      BY <1>1, <3>1, CreateUniform
  <2> QED
    BY <2>1, <2>2, <2>3, <2>4, <2>5, <2>6, <2>7
<1>5. CASE WorkerStep \/ TransportFailure
  <2>1. CASE ApplicationFailure \/ DispatchRefused \/ TransportFailure
    <3>1. worker.post \in Posts
      BY <1>1, <2>1 DEF ApplicationFailure, DispatchRefused, TransportFailure
    <3>2. \E b : rows' = markPostDispatchFailed(rows, gen, worker.post, worker.token, b)
      BY <2>1 DEF ApplicationFailure, DispatchRefused, TransportFailure
    <3> QED
      BY <1>1, <1>2, <3>1, <3>2, OperationsSame
  <2>2. CASE DispatchSettled
    <3>1. /\ worker.post \in Posts
          /\ rows' = markPostDispatchDispatched(rows, gen, worker.post, worker.token)
      BY <1>1, <2>2 DEF DispatchSettled
    <3> QED
      BY <1>1, <1>2, <3>1, OperationsSame
  <2>3. CASE OpenDead \/ OpenLoaded \/ OpenSession \/ LinkSession \/ OpenRefused \/ Send
    BY <1>3, <2>3 DEF OpenDead, OpenLoaded, OpenSession, LinkSession, OpenRefused, Send, forumDb
  <2> QED
    BY <1>5, <2>1, <2>2, <2>3 DEF WorkerStep
<1>6. ASSUME NEW r \in reqs, MessageStep(r) PROVE Uniform(rows')
  BY <1>3, <1>6 DEF MessageStep, MessageRefused, MessageNotReady, MessageAccepted, RequestLost, forumDb
<1>7. CASE StopStep
  <2>1. PICK c \in Stops : \/ StopLinked(c) \/ StopUnlinked(c) \/ AgentdRefusesStop(c)
                           \/ \E s \in Cancelled : AgentdStops(c, s)
                           \/ StopReturns(c) \/ StopFails(c) \/ AgentdCrashInStop(c)
    BY <1>7 DEF StopStep
  <2>2. CASE StopLinked(c) \/ StopUnlinked(c)
    <3>1. rows' = rows \/ rows' = supersedeActive(rows)
      BY <2>2 DEF StopLinked, StopUnlinked, FenceForStop
    <3>2. SameRows(rows, supersedeActive(rows)) \/ Posts = {}
      BY <1>1, OperationsSame
    <3> QED
      BY <1>2, <1>3, <3>1, <3>2 DEF SameRows
  <2>3. CASE ~(StopLinked(c) \/ StopUnlinked(c))
    BY <1>3, <2>1, <2>3 DEF AgentdRefusesStop, AgentdStops, StopReturns, StopFails,
                             AgentdCrashInStop, AgentdDies, forumDb
  <2> QED
    BY <2>2, <2>3
<1>8. CASE ReconcileStep
  BY <1>3, <1>8 DEF ReconcileStep, ReconcileAsks, ReconcileHasNothing, ReconcileApplies,
                    ReconcileFails, AgentdReconciles, forumDb
<1>9. CASE StreamStep
  <2>1. CASE ForumStarts
    <3>1. SameRows(rows, reconcilePostDispatchGenerations(rows, gen)) \/ Posts = {}
      BY <1>1, OperationsSame
    <3> QED
      BY <1>2, <2>1, <3>1 DEF ForumStarts, SameRows
  <2>2. CASE ~ForumStarts
    BY <1>3, <1>9, <2>2 DEF StreamStep, SideStep, AcceptOperation, OperationEnds, DirectorWrites,
              EmitBusy, EmitTurnEnd, ReceiveEvent, CloseAsks, AgentdCloses,
              CloseReturns, CloseFails, ForumCrash, AgentdCrash, AgentdDies, AgentdUnloads, forumDb
  <2> QED
    BY <2>1, <2>2
<1>10. CASE UNCHANGED vars
  BY <1>3, <1>10 DEF vars, forumDb
<1> QED
  BY <1>4, <1>5, <1>6, <1>7, <1>8, <1>9, <1>10, NextSplits

\* Posts sent together share their origin, and a post that must stand alone is
\* sent alone, for any number of posts, claims, stops and faults.
THEOREM GroupsUniform == Spec => []GroupsAreUniform
<1>1. Init => Uniform(rows)
  <2> SUFFICES ASSUME Init PROVE Uniform(rows)
    OBVIOUS
  <2>1. \A p \in Posts : rows[p].contributors = {}
    BY DEF Init, NoRow
  <2> QED
    BY <2>1 DEF Uniform
<1>2. TypeInv /\ TypeInv' /\ [Next]_vars /\ Uniform(rows) => Uniform(rows)'
  BY UniformStep DEF Uniform
<1>3. Uniform(rows) => GroupsAreUniform
  BY DEF Uniform, GroupsAreUniform
<1> QED
  BY <1>1, <1>2, <1>3, TypeInvariant, PTL DEF Spec
=============================================================================
