--------------------------- MODULE SessionOwnership ---------------------------
(***************************************************************************)
(* Who may write one Pi session: agentd, which runs the forum's turns on   *)
(* it, or an interactive Pi process, which asks agentd for a lease         *)
(* (agentd's session-ownership.mjs and server.mjs, and the Pi extension    *)
(* 00-session-ownership.ts).                                               *)
(*                                                                         *)
(* Time is relative: a deadline is the number of ticks left until it, and  *)
(* Tick shortens all of them.  Agentd's two maps (claimed leases, pending  *)
(* reservations) hold at most one record for a session and are one         *)
(* variable here; they are saved with every change and survive a restart.  *)
(* A request is answered when it is served; an answer that is lost looks   *)
(* to the process like an agentd that cannot be reached.                   *)
(***************************************************************************)
EXTENDS Naturals, FiniteSets

CONSTANTS
    Clients,        \* Pi processes; each has a client id of its own
    FreshClient,    \* the process whose new session this is, if it is new
    LeaseTicks,     \* duration of a lease (90 s)
    PreparedTicks,  \* how long a prepared lease waits for its switch (30 s)
    MaxTokens,      \* bound on the leases ever granted
    MaxFaults       \* bound on lost or late requests, crashes, unreachable agentd

ASSUME OwnershipConstants ==
    /\ FreshClient \in Clients
    /\ LeaseTicks \in Nat \ {0} /\ PreparedTicks \in Nat \ {0}
    /\ MaxTokens \in Nat \ {0} /\ MaxFaults \in Nat

VARIABLES
    lease,      \* agentd's ownership record
    nextToken,  \* the next token createToken returns
    releases,   \* tokens whose release was requested; served at any time or never
    file,       \* the session's JSONL exists
    conv,       \* agentd's conversation: not loaded, idle or in a turn
    op,         \* a takeover that holds the session's operation lock
    orphans,    \* aborted requests that are still under way
    cli,        \* the processes
    faults

agentd == <<lease, nextToken, conv, op>>
vars == <<lease, nextToken, releases, file, conv, op, orphans, cli, faults>>

Tokens == 1..MaxTokens
NoLease == [client |-> FreshClient, token |-> 0, pending |-> FALSE,
            promoted |-> FALSE, left |-> 0]
NoCap == [token |-> 0, pending |-> FALSE, left |-> 0]
NoOp == [client |-> FreshClient, kind |-> "none", stage |-> "free"]

\* What a process may ask of agentd: to claim, with or without interrupting the
\* forum's turn, to reserve a session that is not on disk yet, to promote the
\* reservation once it is.
Claims == {"claim", "takeover", "force"}
Kinds == Claims \cup {"reserve", "promote"}
Answers == {"none", "asking", "active", "timeout", "leased", "unavailable"}
Gates == {"none", "start", "switch", "recovery", "reservation", "promotion", "boundary"}

LeaseRecord == [client : Clients, token : 0..MaxTokens, pending : BOOLEAN,
                promoted : BOOLEAN, left : 0..LeaseTicks]
Cap == [token : 0..MaxTokens, pending : BOOLEAN, left : 0..LeaseTicks]
Process == [st : {"away", "launcher", "starting", "protected", "blocked", "unprotected", "dead"},
            cap : Cap, prep : Cap, due : 0..PreparedTicks,
            gate : Gates, ask : Answers, kind : Kinds]

Away == [st |-> "away", cap |-> NoCap, prep |-> NoCap, due |-> 0,
         gate |-> "none", ask |-> "none", kind |-> "claim"]

TypeOK ==
    /\ lease \in LeaseRecord
    /\ nextToken \in 1..(MaxTokens + 1)
    /\ releases \in SUBSET Tokens
    /\ file \in BOOLEAN
    /\ conv \in {"none", "idle", "turn"}
    /\ op \in [client : Clients, kind : Kinds \cup {"none"}, stage : {"free", "settling", "closed"}]
    /\ orphans \in SUBSET [client : Clients, kind : Kinds, token : 0..MaxTokens]
    /\ cli \in [Clients -> Process]
    /\ faults \in 0..MaxFaults

Init ==
    /\ lease = NoLease /\ nextToken = 1 /\ releases = {}
    /\ op = NoOp /\ orphans = {} /\ faults = 0
    /\ \/ file = TRUE /\ conv \in {"none", "idle", "turn"}
          /\ cli = [c \in Clients |-> Away]
       \/ file = FALSE /\ conv = "none"
          /\ cli = [c \in Clients |-> [Away EXCEPT !.st = IF c = FreshClient THEN "launcher" ELSE "away"]]

Fault == faults < MaxFaults /\ faults' = faults + 1

----------------------------------------------------------------------------
(* The registry (session-ownership.mjs).                                   *)

\* get: a record whose time has run out counts for nothing (Tick).
Live == lease.token # 0
byToken(t) == Live /\ lease.token = t

\* claim: the record after it, if it succeeds; the same client keeps its token.
Claimable(c) == ~Live \/ (lease.client = c /\ ~lease.pending)
Claimed(c) == IF Live THEN [lease EXCEPT !.left = LeaseTicks]
              ELSE [client |-> c, token |-> nextToken, pending |-> FALSE,
                    promoted |-> FALSE, left |-> LeaseTicks]

Reservable(c) == ~Live \/ (lease.client = c /\ lease.pending)
Reserved(c) == IF Live THEN [lease EXCEPT !.left = LeaseTicks]
               ELSE [client |-> c, token |-> nextToken, pending |-> TRUE,
                     promoted |-> FALSE, left |-> LeaseTicks]

\* promote: the holder of the reservation, or of the lease it already became.
Promotable(t) == byToken(t) /\ (lease.pending \/ lease.promoted)
Promoted == [lease EXCEPT !.pending = FALSE, !.promoted = TRUE, !.left = LeaseTicks]

\* A grant takes a new token unless the record is kept.
TokenFree == Live \/ nextToken \in Tokens
TakeToken == nextToken' = IF Live THEN nextToken ELSE nextToken + 1

\* Mutant: a heartbeat answers with a new deadline that it does not store.
Renewed_Unstored(t) == lease

\* heartbeat, release
Renewed(t) == IF byToken(t) THEN [lease EXCEPT !.left = LeaseTicks] ELSE lease

----------------------------------------------------------------------------
(* Processes: the extension's gate and its timers.                         *)

Capability(l) == [token |-> l.token, pending |-> l.pending, left |-> l.left]
Set(c, p) == cli' = [cli EXCEPT ![c] = p]

\* startHeartbeat: the process owns the session under this capability.
Protected(p, l) == [p EXCEPT !.st = "protected", !.cap = Capability(l),
                             !.gate = "none", !.ask = "none", !.kind = "claim"]

\* attemptClaim: the gate sends its request; one that is under way is aborted,
\* and either never arrives or is served later.
Request(c) == [client |-> c, kind |-> cli[c].kind, token |-> cli[c].cap.token]
Abort(c) ==
    \/ UNCHANGED <<orphans, faults>>
    \/ cli[c].ask = "asking" /\ Fault /\ orphans' = orphans \cup {Request(c)}
GateKind(mode) == IF mode = "reservation" THEN "reserve"
                  ELSE IF mode \in {"promotion", "boundary"} THEN "promote" ELSE "claim"
Opened(p, mode) == [p EXCEPT !.gate = mode, !.ask = "asking", !.kind = GateKind(mode)]

\* session_start on a session that is on disk and was not prepared.
StartExisting(c) ==
    /\ file /\ cli[c].st = "away" /\ cli[c].gate = "none" /\ cli[c].prep = NoCap
    /\ Set(c, Opened([cli[c] EXCEPT !.st = "starting"], "start"))
    /\ UNCHANGED <<agentd, releases, file, orphans, faults>>

\* session_before_switch: /resume of this session from another one.
Switch(c) ==
    /\ file /\ cli[c].st = "away" /\ cli[c].gate = "none"
    /\ Set(c, Opened(cli[c], "switch"))
    /\ UNCHANGED <<agentd, releases, file, orphans, faults>>

\* The first input of a launcher.
FirstInput(c) ==
    /\ cli[c].st = "launcher" /\ cli[c].gate = "none"
    /\ Set(c, Opened(cli[c], "reservation"))
    /\ UNCHANGED <<agentd, releases, file, orphans, faults>>

\* The user asks again, or goes further, after an answer that is not a grant.
Ask(c, kind) ==
    /\ cli[c].gate \notin {"none", "boundary"} /\ cli[c].ask \notin {"none", "asking"}
    /\ \/ kind = GateKind(cli[c].gate)
       \/ /\ GateKind(cli[c].gate) = "claim"
          /\ \/ kind = "takeover" /\ cli[c].ask = "active"
             \/ kind = "force" /\ cli[c].ask = "timeout"
    /\ Set(c, [cli[c] EXCEPT !.ask = "asking", !.kind = kind])
    /\ UNCHANGED <<agentd, releases, file, orphans, faults>>

\* releaseLease of the capabilities in S.  The timer and prepareLease do not
\* wait for it; session_shutdown does, for five seconds.
Release(S) == releases' = releases \cup ({x.token : x \in S} \ {0})
AwaitRelease(S) ==
    /\ lease' = IF \E x \in S : byToken(x.token) THEN NoLease ELSE lease
    /\ UNCHANGED releases
Leave(c) ==
    /\ \/ Abort(c) /\ AwaitRelease({cli[c].cap, cli[c].prep})
       \/ Fault /\ Release({cli[c].cap, cli[c].prep}) /\ UNCHANGED <<lease, orphans>>
    /\ Set(c, Away)
    /\ UNCHANGED <<nextToken, conv, op, file>>

\* finish({kind: "cancel"}): a switch returns to the other session, everything
\* else shuts the process's session down (session_shutdown).
CancelGate(c) ==
    /\ cli[c].gate \notin {"none", "boundary", "switch"}
    /\ Leave(c)
CancelSwitch(c) ==
    /\ cli[c].gate = "switch"
    /\ Abort(c)
    /\ Set(c, [cli[c] EXCEPT !.gate = "none", !.ask = "none", !.kind = "claim"])
    /\ UNCHANGED <<agentd, releases, file>>

\* "Continue without protection", offered when agentd cannot be reached and the
\* session is not a reservation.
ContinueUnprotected(c) ==
    /\ cli[c].gate \in {"start", "recovery"} /\ cli[c].ask = "unavailable"
    /\ Set(c, [cli[c] EXCEPT !.st = "unprotected", !.cap = NoCap, !.gate = "none", !.ask = "none", !.kind = "claim"])
    /\ \/ AwaitRelease({cli[c].cap}) /\ UNCHANGED faults
       \/ Fault /\ Release({cli[c].cap}) /\ UNCHANGED lease
    /\ UNCHANGED <<nextToken, conv, op, file, orphans>>

\* The same choice before a switch lets session_start begin unprotected.
SwitchUnprotected(c) ==
    /\ cli[c].gate = "switch" /\ cli[c].ask = "unavailable" /\ cli[c].prep = NoCap
    /\ Set(c, [cli[c] EXCEPT !.st = "unprotected", !.gate = "none", !.ask = "none", !.kind = "claim"])
    /\ UNCHANGED <<agentd, releases, file, orphans, faults>>

\* The answer of a grant at the process that still waits for it.
Granted(c, l) ==
    IF cli[c].gate = "switch"
    THEN \* prepareLease; what was prepared before is released
         [cli[c] EXCEPT !.prep = Capability(l), !.due = IF PreparedTicks < l.left THEN PreparedTicks ELSE l.left,
                        !.gate = "none", !.ask = "none", !.kind = "claim"]
    ELSE IF cli[c].gate = "boundary"
    THEN [cli[c] EXCEPT !.cap = Capability(l), !.gate = "none", !.ask = "none", !.kind = "claim"]
    ELSE Protected(cli[c], l)
PreviouslyPrepared(c) == IF cli[c].gate = "switch" THEN {cli[c].prep} ELSE {}

\* session_start after a switch that was prepared.
StartPrepared(c) ==
    /\ cli[c].st = "away" /\ cli[c].gate = "none" /\ cli[c].prep # NoCap
    /\ Set(c, [Protected(cli[c], cli[c].prep) EXCEPT !.prep = NoCap, !.due = 0])
    /\ UNCHANGED <<agentd, releases, file, orphans, faults>>

\* The prepared lease's timer: the switch did not happen.
PreparedExpires(c) ==
    /\ cli[c].prep # NoCap /\ cli[c].due = 0
    /\ Set(c, [cli[c] EXCEPT !.prep = NoCap])
    /\ Release({cli[c].prep})
    /\ UNCHANGED <<agentd, file, orphans, faults>>

\* Pi writes the new session's first entries.
Materialize(c) ==
    /\ cli[c].st = "protected" /\ cli[c].cap.pending /\ ~file
    /\ file' = TRUE
    /\ UNCHANGED <<agentd, releases, orphans, cli, faults>>

\* promoteAtPersistedBoundary, and a heartbeat that finds the file.
PromoteAtBoundary(c) ==
    /\ cli[c].st = "protected" /\ cli[c].cap.pending /\ file /\ cli[c].gate = "none"
    /\ Set(c, Opened(cli[c], "boundary"))
    /\ UNCHANGED <<agentd, releases, file, orphans, faults>>

\* recoverOwnership: input is blocked until the gate is passed again.
RecoveryMode(c) == IF ~cli[c].cap.pending THEN "recovery"
                   ELSE IF file THEN "promotion" ELSE "reservation"
Recovering(c) == Opened([cli[c] EXCEPT !.st = "blocked"], RecoveryMode(c))

\* scheduleExpiry: the capability's time has run out.
ExpiryTimer(c) ==
    /\ cli[c].st = "protected" /\ cli[c].cap.left = 0
    /\ Set(c, Recovering(c))
    /\ Abort(c)
    /\ UNCHANGED <<agentd, releases, file>>

\* A heartbeat that agentd refuses because the token is gone.
HeartbeatRefused(c) ==
    /\ cli[c].st = "protected" /\ ~byToken(cli[c].cap.token)
    /\ Set(c, Recovering(c))
    /\ Abort(c)
    /\ UNCHANGED <<agentd, releases, file>>

Heartbeat(c) ==
    /\ cli[c].st = "protected" /\ byToken(cli[c].cap.token)
    /\ lease' = Renewed(cli[c].cap.token)
    /\ Set(c, [cli[c] EXCEPT !.cap.left = LeaseTicks])
    /\ UNCHANGED <<nextToken, releases, file, conv, op, orphans, faults>>

\* One whose answer is lost, or that is served after recovery aborted it.
HeartbeatUnheard(c) ==
    /\ Fault
    /\ cli[c].st \in {"protected", "blocked"} /\ byToken(cli[c].cap.token)
    /\ lease' = Renewed(cli[c].cap.token)
    /\ UNCHANGED <<nextToken, releases, file, conv, op, orphans, cli>>

\* session_shutdown: the user leaves the session, or the other session from
\* which this one was prepared.
Shutdown(c) ==
    /\ cli[c].st # "dead" /\ cli[c].gate \in {"none", "boundary"} /\ cli[c] # Away
    /\ Leave(c)

Dies(c) ==
    /\ Fault
    /\ cli[c].st # "dead"
    /\ Set(c, [Away EXCEPT !.st = "dead"])
    /\ orphans' \in {orphans} \cup (IF cli[c].ask = "asking" THEN {orphans \cup {Request(c)}} ELSE {})
    /\ UNCHANGED <<agentd, releases, file>>

----------------------------------------------------------------------------
(* Agentd's ownership routes.  op is the lock of the session's operations. *)

Refuse(c, answer) ==
    Set(c, IF cli[c].gate = "boundary" THEN Recovering(c) ELSE [cli[c] EXCEPT !.ask = answer])

\* claimExternalSession publishes the lease.
Publish(c) ==
    /\ TokenFree
    /\ lease' = Claimed(c) /\ TakeToken
    /\ conv' = "none"

\* A request of c with capability token t, as it reaches agentd; "started" is a
\* takeover that has yet to settle.
ClaimGranted(c, kind) ==
    /\ kind \in Claims /\ file /\ Claimable(c) /\ conv # "turn"
    /\ Publish(c)
ReserveGranted(c, kind) ==
    /\ kind = "reserve" /\ ~file /\ conv = "none" /\ Reservable(c) /\ TokenFree
    /\ lease' = Reserved(c) /\ TakeToken
    /\ UNCHANGED conv
PromoteGranted(kind, t) ==
    /\ kind = "promote" /\ file /\ conv = "none" /\ Promotable(t)
    /\ lease' = Promoted
    /\ UNCHANGED <<nextToken, conv>>
Grants(c, kind, t) ==
    op = NoOp /\ (ClaimGranted(c, kind) \/ ReserveGranted(c, kind) \/ PromoteGranted(kind, t))

ServeGrant(c) ==
    /\ cli[c].ask = "asking"
    /\ Grants(c, cli[c].kind, cli[c].cap.token)
    /\ cli' = [cli EXCEPT ![c] = Granted(c, lease')]
    /\ Release(PreviouslyPrepared(c))
    /\ UNCHANGED <<file, op, orphans, faults>>

\* The request is granted and nobody learns of it.
ServeUnheard(r) ==
    /\ Grants(r.client, r.kind, r.token)
    /\ orphans' = orphans \ {r}
    /\ UNCHANGED <<releases, file, op, cli, faults>>
ServeLost(c) ==
    /\ Fault
    /\ cli[c].ask = "asking"
    /\ Grants(c, cli[c].kind, cli[c].cap.token)
    /\ Refuse(c, "unavailable")
    /\ UNCHANGED <<releases, file, op, orphans>>

\* What agentd answers when it does not grant.
Refusal(c, kind, t) ==
    IF kind = "reserve" THEN IF ~file /\ conv = "none" /\ ~Reservable(c) THEN "leased" ELSE "unavailable"
    ELSE IF ~file THEN "unavailable"
    ELSE IF kind # "promote" /\ conv = "turn" /\ ~(Live /\ lease.client # c) THEN "active"
    ELSE "leased"
Refused(c, kind, t) ==
    /\ op = NoOp
    /\ IF kind = "reserve" THEN file \/ conv # "none" \/ ~Reservable(c)
       ELSE IF kind = "promote" THEN ~file \/ conv # "none" \/ ~Promotable(t)
       ELSE ~file \/ ~Claimable(c) \/ (conv = "turn" /\ kind = "claim")

ServeRefusal(c) ==
    /\ cli[c].ask = "asking"
    /\ Refused(c, cli[c].kind, cli[c].cap.token)
    /\ Refuse(c, Refusal(c, cli[c].kind, cli[c].cap.token))
    /\ UNCHANGED <<agentd, releases, file, orphans, faults>>

\* Draining, a fork fence, a restart, a network error: the process only learns
\* that ownership is unavailable.
Unreachable(c) ==
    /\ Fault
    /\ cli[c].ask = "asking"
    /\ Refuse(c, "unavailable")
    /\ UNCHANGED <<agentd, releases, file, orphans>>

\* Nothing comes of an aborted request that agentd refuses.
OrphanRefused(r) ==
    /\ Refused(r.client, r.kind, r.token)
    /\ orphans' = orphans \ {r}
    /\ UNCHANGED <<agentd, releases, file, cli, faults>>

\* Takeover of a running turn: the turn is interrupted and the lock is held
\* until it settles or the deadline passes.
TakeoverStarts(c, kind) ==
    /\ op = NoOp /\ kind \in {"takeover", "force"} /\ file
    /\ ~(Live /\ lease.client # c) /\ conv = "turn"
    /\ op' = [client |-> c, kind |-> kind, stage |-> "settling"]
    /\ UNCHANGED <<lease, nextToken, conv, file, releases, cli, faults>>
ServeTakeover(c) == cli[c].ask = "asking" /\ TakeoverStarts(c, cli[c].kind) /\ UNCHANGED orphans
OrphanTakeover(r) == TakeoverStarts(r.client, r.kind) /\ orphans' = orphans \ {r}

\* Whether the process behind the takeover still waits for its answer.
Waits == cli[op.client].ask = "asking" /\ cli[op.client].kind = op.kind

\* The turn has settled, or force has thrown it away and every counted mutation
\* has ended: the conversation is closed and ownership published.
TakeoverGrants ==
    /\ \/ op.stage = "settling" /\ conv # "turn"
       \/ op.stage = "closed"
    /\ op' = NoOp
    /\ IF Claimable(op.client)
       THEN /\ Publish(op.client)
            /\ IF Waits
               THEN /\ cli' = [cli EXCEPT ![op.client] = Granted(op.client, lease')]
                    /\ Release(PreviouslyPrepared(op.client))
               ELSE UNCHANGED <<cli, releases>>
       ELSE /\ conv' = "none" /\ UNCHANGED <<lease, nextToken, releases>>
            /\ IF Waits THEN Refuse(op.client, "leased") ELSE UNCHANGED cli
    /\ UNCHANGED <<file, orphans, faults>>
TakeoverTimesOut ==
    /\ op.stage = "settling" /\ op.kind = "takeover" /\ conv = "turn"
    /\ op' = NoOp
    /\ IF Waits THEN Refuse(op.client, "timeout") ELSE UNCHANGED cli
    /\ UNCHANGED <<lease, nextToken, conv, releases, file, orphans, faults>>
TakeoverForces ==
    /\ op.stage = "settling" /\ op.kind = "force" /\ conv = "turn"
    /\ op' = [op EXCEPT !.stage = "closed"]
    /\ conv' = "none"
    /\ UNCHANGED <<lease, nextToken, releases, file, orphans, cli, faults>>

\* release(sessionId, token)
ServeRelease(t) ==
    /\ t \in releases /\ byToken(t)
    /\ lease' = NoLease
    /\ UNCHANGED <<nextToken, releases, file, conv, op, orphans, cli, faults>>

\* The process restarts: conversations and locks are gone, the leases are read
\* back from their file.
AgentdRestart ==
    /\ Fault
    /\ conv' = "none" /\ op' = NoOp
    /\ cli' = [c \in Clients |->
                 IF cli[c].ask # "asking" THEN cli[c]
                 ELSE IF cli[c].gate = "boundary" THEN Recovering(c)
                 ELSE [cli[c] EXCEPT !.ask = "unavailable"]]
    /\ UNCHANGED <<lease, nextToken, releases, file, orphans>>

----------------------------------------------------------------------------
(* Agentd's writers.                                                       *)

\* openConversation
OpenConversation ==
    /\ file /\ conv = "none" /\ op = NoOp /\ ~Live
    /\ conv' = "idle"
    /\ UNCHANGED <<lease, nextToken, releases, file, op, orphans, cli, faults>>

\* The message handler up to the accepted prompt; it holds the lock throughout.
Dispatch ==
    /\ conv = "idle" /\ op = NoOp /\ ~Live
    /\ conv' = "turn"
    /\ UNCHANGED <<lease, nextToken, releases, file, op, orphans, cli, faults>>

TurnEnds ==
    /\ conv = "turn"
    /\ conv' = "idle"
    /\ UNCHANGED <<lease, nextToken, releases, file, op, orphans, cli, faults>>

\* The close route and the idle reaper.
CloseConversation ==
    /\ conv # "none" /\ op = NoOp
    /\ conv' = "none"
    /\ UNCHANGED <<lease, nextToken, releases, file, op, orphans, cli, faults>>

Less(n) == IF n = 0 THEN 0 ELSE n - 1
Tick ==
    /\ lease' = IF lease.left > 1 THEN [lease EXCEPT !.left = @ - 1] ELSE NoLease
    /\ cli' = [c \in Clients |-> [cli[c] EXCEPT !.cap.left = Less(@), !.prep.left = Less(@), !.due = Less(@)]]
    /\ UNCHANGED <<nextToken, releases, file, conv, op, orphans, faults>>

----------------------------------------------------------------------------
ClientStep(c) ==
    \/ StartExisting(c) \/ Switch(c) \/ FirstInput(c)
    \/ \E kind \in Kinds : Ask(c, kind)
    \/ CancelGate(c) \/ CancelSwitch(c) \/ ContinueUnprotected(c) \/ SwitchUnprotected(c)
    \/ StartPrepared(c) \/ PreparedExpires(c)
    \/ Materialize(c) \/ PromoteAtBoundary(c)
    \/ ExpiryTimer(c) \/ HeartbeatRefused(c) \/ Heartbeat(c) \/ HeartbeatUnheard(c)
    \/ Shutdown(c) \/ Dies(c)

ServeStep(c) == ServeGrant(c) \/ ServeLost(c) \/ ServeRefusal(c) \/ Unreachable(c) \/ ServeTakeover(c)
OrphanStep(r) == ServeUnheard(r) \/ OrphanTakeover(r) \/ OrphanRefused(r)
TakeoverStep == TakeoverGrants \/ TakeoverTimesOut \/ TakeoverForces

Next ==
    \/ \E c \in Clients : ClientStep(c) \/ ServeStep(c)
    \/ \E r \in orphans : OrphanStep(r)
    \/ TakeoverStep \/ AgentdRestart
    \/ \E t \in releases : ServeRelease(t)
    \/ OpenConversation \/ Dispatch \/ TurnEnds \/ CloseConversation
    \/ Tick

Spec == Init /\ [][Next]_vars

----------------------------------------------------------------------------
(* Properties.                                                             *)

Owns(c) == Live /\ lease.client = c /\ lease.token = cli[c].cap.token

\* A Pi process that shows "ownership: protected", whose capability has time
\* left and which nobody asked agentd to release, holds agentd's only record for
\* the session, and agentd runs no turn on it (claimExternalSession, the lease
\* checks of openConversation and of the message handler).
ProtectedIsAlone ==
    \A c \in Clients :
        cli[c].st = "protected" /\ cli[c].cap.left > 0 /\ cli[c].cap.token \notin releases
        => Owns(c) /\ conv # "turn"

\* The same without regard to releases under way: what a process shows as
\* protected keeps agentd from writing the session.
ProtectedKeepsAgentdOut ==
    \A c \in Clients : cli[c].st = "protected" /\ cli[c].cap.left > 0 => conv # "turn"
=============================================================================
