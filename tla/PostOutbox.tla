------------------------------ MODULE PostOutbox ------------------------------
(***************************************************************************)
(* The forum's durable dispatch outbox: the rows of post_dispatches of one *)
(* topic and the store operations that change them (store.ts), each one    *)
(* SQLite transaction.  A post has at most one dispatch row, so a post     *)
(* number is its dispatch id as well; numbers are in creation order.       *)
(***************************************************************************)
EXTENDS Integers

CONSTANTS
    MaxPosts,       \* bound: posts of the topic that are dispatched
    Origins,        \* normalised origin keys (channel, surface, scope)
    Tokens,         \* claim tokens (random UUIDs in the code)
    NoToken,        \* claim_token = null
    MaxAttempts     \* attempts of a post that fails for application reasons

ASSUME OutboxBounds == MaxPosts \in Nat /\ MaxAttempts \in Nat
ASSUME OriginsExist == Origins # {}
ASSUME NoTokenIsNone == NoToken \notin Tokens

Posts == 1..MaxPosts

Statuses == {"none", "pending", "dispatching", "dispatched", "superseded", "abandoned", "failed"}

(***************************************************************************)
(* A row.  solo stands for auto_compact # null or a fork's opening post:   *)
(* such a post is never grouped.  ripe says that the row's own clock has   *)
(* run out: next_attempt_at for a pending row, DISPATCHING_STALE_MS since  *)
(* last_attempt_at for a dispatching one.  attempts saturates at           *)
(* MaxAttempts, beyond which no decision looks at it.  A row that is no    *)
(* longer active drops its token and clock, which nothing reads again.     *)
(* Status "none" is a post that does not exist yet.                        *)
(***************************************************************************)
Row == [status : Statuses, origin : Origins, solo : BOOLEAN, generation : Nat,
        token : Tokens \cup {NoToken}, attempts : 0..MaxAttempts, ripe : BOOLEAN,
        contributors : SUBSET Posts]

Rows == [Posts -> Row]

NoRow == [status |-> "none", origin |-> CHOOSE o \in Origins : TRUE, solo |-> FALSE,
          generation |-> 0, token |-> NoToken, attempts |-> 0, ripe |-> FALSE,
          contributors |-> {}]

Active(r) == r.status \in {"pending", "dispatching"}

\* listPendingPostDispatchesForTopic
pendingForTopic(rows, gen) == {p \in Posts : Active(rows[p]) /\ rows[p].generation = gen}

createPostDispatch(rows, gen, p, origin, solo) ==
    [rows EXCEPT ![p] = [status |-> "pending", origin |-> origin, solo |-> solo,
                         generation |-> gen, token |-> NoToken, attempts |-> 0,
                         ripe |-> TRUE, contributors |-> {p}]]

\* Mutant: only the origin ends a group.
Group_OriginOnly(rows, gen, head) ==
    LET candidates == {p \in pendingForTopic(rows, gen) : p >= head}
        boundary == {p \in candidates : rows[p].origin # rows[head].origin}
    IN  {p \in candidates : \A b \in boundary : p < b}

(***************************************************************************)
(* The posts dispatched together with the head: the following ones up to   *)
(* the first of another origin or the first that must stand alone.  The    *)
(* last of them is the trigger.                                            *)
(***************************************************************************)
Group(rows, gen, head) ==
    LET candidates == {p \in pendingForTopic(rows, gen) : p >= head}
        boundary == {p \in candidates \ {head} :
                        \/ rows[p].origin # rows[head].origin
                        \/ rows[p].solo \/ rows[head].solo}
    IN  {p \in candidates : \A b \in boundary : p < b}

Settled(r, status) == [r EXCEPT !.status = status, !.token = NoToken, !.ripe = FALSE]

Claimed(r, token, contributors) ==
    [r EXCEPT !.status = "dispatching", !.token = token, !.ripe = FALSE,
              !.attempts = IF @ < MaxAttempts THEN @ + 1 ELSE @,
              !.contributors = contributors]

\* A pending trigger absorbs the rest of its group; a trigger that is already
\* dispatching is claimed again and leaves the others as they are.
claimPostDispatchGroup(rows, group, trigger, token) ==
    LET absorbed == IF rows[trigger].status = "pending" THEN group \ {trigger} ELSE {}
    IN  [p \in Posts |->
            IF p = trigger
            THEN Claimed(rows[p], token, rows[p].contributors \cup absorbed)
            ELSE IF p \in absorbed THEN Settled(rows[p], "superseded")
            ELSE rows[p]]

\* The compare-and-set of a claimant: its token, and the current generation.
HoldsClaim(rows, gen, p, token) ==
    rows[p].status = "dispatching" /\ rows[p].token = token /\ rows[p].generation = gen

\* Mutant: a claimant settles its row whatever happened to it meanwhile.
markPostDispatchDispatched_Unconditional(rows, gen, p, token) ==
    [rows EXCEPT ![p] = Settled(@, "dispatched")]

markPostDispatchDispatched(rows, gen, p, token) ==
    IF HoldsClaim(rows, gen, p, token)
    THEN [rows EXCEPT ![p] = Settled(@, "dispatched")]
    ELSE rows

\* retry: a next attempt is scheduled, otherwise the failure is terminal.
markPostDispatchFailed(rows, gen, p, token, retry) ==
    IF HoldsClaim(rows, gen, p, token)
    THEN [rows EXCEPT ![p] = Settled(@, IF retry THEN "pending" ELSE "failed")]
    ELSE rows

\* retryAtForAttempt of an application failure.
retryAtForAttempt(r) == r.attempts < MaxAttempts

markPostDispatchAbandoned(rows, gen, p) ==
    IF Active(rows[p]) /\ rows[p].generation = gen
    THEN [rows EXCEPT ![p] = Settled(@, "abandoned")]
    ELSE rows

Requeued(r) == [r EXCEPT !.status = "pending", !.attempts = 0, !.ripe = TRUE]

retryTerminalPostDispatch(rows, gen, p) ==
    IF rows[p].status = "failed" /\ rows[p].generation = gen
    THEN [rows EXCEPT ![p] = Requeued(@)]
    ELSE rows

\* Mutant: a stop cancels what is queued and forgets what is being sent.
supersedeActive_OnlyPending(rows) ==
    [p \in Posts |-> IF rows[p].status = "pending"
                     THEN Settled(rows[p], "superseded")
                     ELSE rows[p]]

\* advanceTopicDispatchGeneration, on the rows.
supersedeActive(rows) ==
    [p \in Posts |-> IF Active(rows[p])
                     THEN Settled(rows[p], "superseded")
                     ELSE rows[p]]

reconcilePostDispatchGenerations(rows, gen) ==
    [p \in Posts |-> IF Active(rows[p]) /\ rows[p].generation # gen
                     THEN Settled(rows[p], "superseded")
                     ELSE rows[p]]
=============================================================================
