----------------------- MODULE SessionOwnershipProofs -----------------------
(***************************************************************************)
(* Proofs about SessionOwnership, for any number of Pi processes, any      *)
(* durations of the leases and any number of grants and faults.            *)
(***************************************************************************)
EXTENDS SessionOwnership, TLAPS

(* The inductive invariant.                                                *)

\* A process has prepared a lease only while it is not on the session, and a gate
\* for a switch is open only then.
ProcInv(p) ==
    /\ p.prep.left > 0 => p.st = "away"
    /\ p.st = "away" => p.gate \in {"none", "switch"}
    /\ p.gate = "switch" => p.st = "away"
    /\ p.ask = "asking" => p.gate # "none"

\* What capability x of process d says of agentd's record l, when the tokens in rel
\* are to be released and those below next were granted: a token is of one process,
\* and a capability never outlasts the record.
OkCap(d, x, l, rel, next) ==
    /\ x.token < next
    /\ x.token # 0 /\ x.token = l.token => l.client = d
    /\ x.left > 0 /\ x.token \notin rel =>
          l.token # 0 /\ l.client = d /\ l.token = x.token /\ x.left <= l.left

Caps(d, p, l, rel, next) == OkCap(d, p.cap, l, rel, next) /\ OkCap(d, p.prep, l, rel, next)

\* Agentd has no conversation while the record stands.
IInv ==
    /\ TypeOK
    /\ Live => conv = "none"
    /\ lease.token < nextToken
    /\ \A d \in Clients : ProcInv(cli[d]) /\ Caps(d, cli[d], lease, releases, nextToken)

-----------------------------------------------------------------------------
(* Capabilities.                                                           *)

\* The types of what is not the record, the tokens or the processes.
RestOK ==
    /\ releases \in SUBSET Tokens /\ file \in BOOLEAN /\ conv \in {"none", "idle", "turn"}
    /\ op \in [client : Clients, kind : Kinds \cup {"none"}, stage : {"free", "settling", "closed"}]
    /\ orphans \in SUBSET [client : Clients, kind : Kinds, token : 0..MaxTokens]
    /\ faults \in 0..MaxFaults

\* The record stays with its owner, or a new token is granted where there was none.
Keeps ==
    \/ /\ lease'.token = lease.token /\ lease'.client = lease.client /\ lease.left <= lease'.left
       /\ nextToken' = nextToken
    \/ lease.token = 0 /\ lease'.token = nextToken /\ nextToken' = nextToken + 1

\* What the types say of the numbers in the records.
LEMMA Numbers ==
    ASSUME TypeOK
    PROVE  /\ lease.token \in Nat /\ lease.left \in Nat /\ nextToken \in Nat /\ nextToken >= 1
           /\ \A d \in Clients : /\ cli[d] \in Process /\ cli[d].cap \in Cap /\ cli[d].prep \in Cap
                                 /\ cli[d].cap.token \in Nat /\ cli[d].cap.left \in Nat
                                 /\ cli[d].prep.token \in Nat /\ cli[d].prep.left \in Nat
BY OwnershipConstants DEF TypeOK, LeaseRecord, Process, Cap

\* A capability stays good under such a change of the record.
LEMMA CapKept ==
    ASSUME IInv, TypeOK', Keeps, releases \subseteq releases',
           NEW d, NEW x \in Cap, OkCap(d, x, lease, releases, nextToken)
    PROVE  OkCap(d, x, lease', releases', nextToken')
<1>1. lease.token \in Nat /\ lease.left \in Nat /\ nextToken \in Nat /\ x.token \in Nat /\ x.left \in Nat
      /\ lease'.left \in Nat
  BY OwnershipConstants DEF IInv, TypeOK, LeaseRecord, Cap
<1> QED BY <1>1 DEF Keeps, OkCap

\* So is the one a grant gives, and none at all.
LEMMA CapGranted ==
    ASSUME NEW d, NEW l \in LeaseRecord, NEW rel, NEW next \in Nat, l.token # 0, l.token < next, l.client = d
    PROVE  OkCap(d, Capability(l), l, rel, next) /\ Capability(l) \in Cap
BY OwnershipConstants DEF OkCap, Capability, LeaseRecord, Cap

\* No capability is good with any record.
LEMMA CapNone ==
    ASSUME NEW d, NEW l, NEW rel, NEW next \in Nat, next >= 1
    PROVE  OkCap(d, NoCap, l, rel, next) /\ NoCap \in Cap /\ NoCap.left = 0
BY OwnershipConstants DEF OkCap, NoCap, Cap

-----------------------------------------------------------------------------
(* Steps, by what they do to the record and to the processes.              *)

\* A process changes, the record does not.
LEMMA ClientInv ==
    ASSUME IInv, NEW c \in Clients, NEW p \in Process, ProcInv(p), cli' = [cli EXCEPT ![c] = p],
           p.cap \in {cli[c].cap, cli[c].prep, NoCap}, p.prep \in {cli[c].prep, NoCap},
           UNCHANGED <<lease, nextToken>>, RestOK', releases \subseteq releases', conv' \in {conv, "none"}
    PROVE  IInv'
<1> USE DEF IInv
<1>1. cli' \in [Clients -> Process] /\ cli'[c] = p /\ \A d \in Clients : d # c => cli'[d] = cli[d]
  BY DEF TypeOK
<1>2. TypeOK'
  BY <1>1 DEF TypeOK, RestOK
<1>3. Keeps
  BY Numbers DEF Keeps
<1>4. ASSUME NEW d \in Clients PROVE ProcInv(cli'[d]) /\ Caps(d, cli'[d], lease', releases', nextToken')
  <2>1. /\ OkCap(d, cli[d].cap, lease', releases', nextToken') /\ OkCap(d, cli[d].prep, lease', releases', nextToken')
        /\ OkCap(d, NoCap, lease', releases', nextToken')
    BY <1>2, <1>3, Numbers, CapKept, CapNone DEF Caps
  <2>2. CASE d = c
    BY <2>1, <2>2, <1>1 DEF Caps
  <2>3. CASE d # c
    BY <2>1, <2>3, <1>1 DEF Caps
  <2> QED BY <2>2, <2>3
<1>5. lease'.token < nextToken' /\ (Live' => conv' = "none")
  BY DEF Live
<1> QED BY <1>2, <1>4, <1>5

\* Neither changes.
LEMMA QuietInv ==
    ASSUME IInv, UNCHANGED <<lease, nextToken, cli, releases>>, RestOK', Live => conv' = "none"
    PROVE  IInv'
<1> USE DEF IInv
<1>1. TypeOK'
  BY DEF TypeOK, RestOK
<1> QED BY <1>1 DEF Live

\* The record goes to its owner again or to a new one; a process may learn of it.
LEMMA GrantInv ==
    ASSUME IInv, RestOK', Keeps, lease' \in LeaseRecord, nextToken' \in 1..(MaxTokens + 1),
           releases \subseteq releases', lease'.token < nextToken', Live' => conv' = "none",
           cli' \in [Clients -> Process],
           \A d \in Clients :
              /\ ProcInv(cli'[d])
              /\ cli'[d].cap = cli[d].cap \/ OkCap(d, cli'[d].cap, lease', releases', nextToken')
              /\ cli'[d].prep = cli[d].prep \/ OkCap(d, cli'[d].prep, lease', releases', nextToken')
    PROVE  IInv'
<1> USE DEF IInv
<1>1. TypeOK'
  BY DEF TypeOK, RestOK
<1>2. ASSUME NEW d \in Clients PROVE Caps(d, cli'[d], lease', releases', nextToken')
  <2>1. OkCap(d, cli[d].cap, lease', releases', nextToken') /\ OkCap(d, cli[d].prep, lease', releases', nextToken')
    BY <1>1, Numbers, CapKept DEF Caps
  <2> QED BY <2>1 DEF Caps
<1> QED BY <1>1, <1>2

\* The record is gone: no capability that is still good has its token.
LEMMA DropInv ==
    ASSUME IInv, RestOK', lease' = NoLease, UNCHANGED nextToken, releases \subseteq releases',
           cli' \in [Clients -> Process],
           \A d \in Clients :
              /\ ProcInv(cli'[d])
              /\ cli'[d].cap \in {cli[d].cap, NoCap} /\ cli'[d].prep \in {cli[d].prep, NoCap}
              /\ \A x \in {cli'[d].cap, cli'[d].prep} :
                    x.token = lease.token /\ x.left > 0 => x.token \in releases'
    PROVE  IInv'
<1> USE DEF IInv
<1>1. NoLease \in LeaseRecord /\ NoLease.token = 0
  BY OwnershipConstants DEF NoLease, LeaseRecord
<1>2. TypeOK'
  BY <1>1 DEF TypeOK, RestOK
<1>3. ASSUME NEW d \in Clients PROVE Caps(d, cli'[d], lease', releases', nextToken')
  <2>1. ASSUME NEW x \in {cli'[d].cap, cli'[d].prep} PROVE OkCap(d, x, lease', releases', nextToken')
    <3>1. x \in {cli[d].cap, cli[d].prep, NoCap}
      BY <2>1
    <3>2. OkCap(d, x, lease, releases, nextToken)
      BY <3>1, Numbers, CapNone DEF Caps
    <3> QED BY <3>2, <1>1 DEF OkCap
  <2> QED BY <2>1 DEF Caps
<1>4. lease'.token < nextToken' /\ ~Live'
  BY <1>1, Numbers DEF Live
<1> QED BY <1>2, <1>3, <1>4

-----------------------------------------------------------------------------
(* What becomes of a process.                                              *)

States == {"away", "launcher", "starting", "protected", "blocked", "unprotected", "dead"}

\* Process q is p but for its state, its gate and its request.
Same(p, q) == q \in Process /\ q.cap = p.cap /\ q.prep = p.prep

\* A process that only moves keeps its capabilities, its gate and its question.
LEMMA StateFacts ==
    ASSUME NEW p \in Process, NEW st \in States
    PROVE  Same(p, [p EXCEPT !.st = st]) /\ [p EXCEPT !.st = st].st = st
           /\ [p EXCEPT !.st = st].gate = p.gate /\ [p EXCEPT !.st = st].ask = p.ask
BY DEF Same, Process, States

\* A gate that opens asks at once.
LEMMA OpenedFacts ==
    ASSUME NEW p \in Process, NEW mode \in Gates
    PROVE  Same(p, Opened(p, mode)) /\ Opened(p, mode).st = p.st /\ Opened(p, mode).gate = mode
           /\ Opened(p, mode).ask = "asking"
<1>1. GateKind(mode) \in Kinds /\ "asking" \in Answers
  BY DEF GateKind, Kinds, Claims, Answers
<1> QED BY <1>1 DEF Same, Process, Opened

\* A gate that is left.
LEMMA ClosedFacts ==
    ASSUME NEW p \in Process
    PROVE  LET q == [p EXCEPT !.gate = "none", !.ask = "none", !.kind = "claim"]
           IN Same(p, q) /\ q.st = p.st /\ q.gate = "none" /\ q.ask = "none"
<1>1. "claim" \in Kinds /\ "none" \in Answers /\ "none" \in Gates
  BY DEF Kinds, Claims, Answers, Gates
<1> QED BY <1>1 DEF Same, Process

\* A process that has to pass the gate again, and one whose request is refused.
LEMMA RecoveringFacts ==
    ASSUME IInv, NEW c \in Clients, cli[c].st # "away"
    PROVE  Same(cli[c], Recovering(c)) /\ ProcInv(Recovering(c))
<1> DEFINE b == [cli[c] EXCEPT !.st = "blocked"]
<1>1. cli[c] \in Process /\ "blocked" \in States
  BY DEF IInv, TypeOK, States
<1>2. Same(cli[c], b) /\ b.st = "blocked"
  BY <1>1, StateFacts
<1>3. RecoveryMode(c) \in Gates /\ RecoveryMode(c) # "switch" /\ RecoveryMode(c) # "none"
  BY DEF RecoveryMode, Gates
<1> HIDE DEF b
<1>4. Same(b, Opened(b, RecoveryMode(c))) /\ Opened(b, RecoveryMode(c)).st = b.st
      /\ Opened(b, RecoveryMode(c)).gate = RecoveryMode(c)
  BY <1>2, <1>3, OpenedFacts DEF Same
<1>5. Recovering(c) = Opened(b, RecoveryMode(c))
  BY DEF Recovering, b
<1>6. ~(cli[c].prep.left > 0)
  BY DEF IInv, ProcInv
<1> QED BY <1>2, <1>3, <1>4, <1>5, <1>6 DEF Same, ProcInv

Answered(c, answer) == IF cli[c].gate = "boundary" THEN Recovering(c) ELSE [cli[c] EXCEPT !.ask = answer]

\* A process that hears no keeps its capabilities; at a boundary it recovers.
LEMMA RefuseFacts ==
    ASSUME IInv, NEW c \in Clients, NEW answer \in Answers, answer # "asking"
    PROVE  Same(cli[c], Answered(c, answer)) /\ ProcInv(Answered(c, answer))
<1>1. CASE cli[c].gate = "boundary"
  <2>1. cli[c].st # "away"
    BY <1>1 DEF IInv, ProcInv
  <2> QED BY <2>1, <1>1, RecoveringFacts DEF Answered
<1>2. CASE cli[c].gate # "boundary"
  <2> DEFINE q == [cli[c] EXCEPT !.ask = answer]
  <2>1. cli[c] \in Process /\ ProcInv(cli[c])
    BY DEF IInv, TypeOK
  <2>2. Same(cli[c], q) /\ q.st = cli[c].st /\ q.gate = cli[c].gate /\ q.ask = answer
    BY <2>1 DEF Same, Process
  <2>3. Answered(c, answer) = q
    BY <1>2 DEF Answered
  <2> HIDE DEF q
  <2> QED BY <2>1, <2>2, <2>3 DEF ProcInv, Same
<1> QED BY <1>1, <1>2

\* A process that has been granted record l.
LEMMA GrantedFacts ==
    ASSUME IInv, NEW c \in Clients, cli[c].ask = "asking", NEW l \in LeaseRecord
    PROVE  LET q == Granted(c, l)
           IN /\ q \in Process /\ ProcInv(q)
              /\ \/ q.cap = Capability(l) /\ q.prep = cli[c].prep
                 \/ q.prep = Capability(l) /\ q.cap = cli[c].cap
<1>1. cli[c] \in Process /\ ProcInv(cli[c])
  BY DEF IInv, TypeOK
<1>2. "claim" \in Kinds /\ "none" \in Answers /\ "none" \in Gates
  BY DEF Kinds, Claims, Answers, Gates
<1>3. Capability(l) \in Cap
  BY OwnershipConstants DEF Capability, LeaseRecord, Cap
<1> DEFINE k == Capability(l)
<1>4. CASE cli[c].gate = "switch"
  <2> DEFINE due == IF PreparedTicks < l.left THEN PreparedTicks ELSE l.left
             q == [cli[c] EXCEPT !.prep = k, !.due = due, !.gate = "none", !.ask = "none", !.kind = "claim"]
  <2>1. due \in 0..PreparedTicks
    BY OwnershipConstants DEF LeaseRecord
  <2>2. Granted(c, l) = q
    BY <1>4 DEF Granted
  <2> HIDE DEF due, k
  <2>3. q \in Process /\ q.prep = k /\ q.cap = cli[c].cap /\ q.st = cli[c].st /\ q.gate = "none" /\ q.ask = "none"
    BY <2>1, <1>1, <1>2, <1>3 DEF Process, k
  <2> HIDE DEF q
  <2>4. ProcInv(q)
    BY <2>3, <1>1, <1>4 DEF ProcInv
  <2> QED BY <2>2, <2>3, <2>4 DEF k
<1>5. CASE cli[c].gate = "boundary"
  <2> DEFINE q == [cli[c] EXCEPT !.cap = k, !.gate = "none", !.ask = "none", !.kind = "claim"]
  <2>1. Granted(c, l) = q
    BY <1>5 DEF Granted
  <2> HIDE DEF k
  <2>2. q \in Process /\ q.prep = cli[c].prep /\ q.cap = k /\ q.st = cli[c].st /\ q.gate = "none" /\ q.ask = "none"
    BY <1>1, <1>2, <1>3 DEF Process, k
  <2> HIDE DEF q
  <2>3. ProcInv(q)
    BY <2>2, <1>1, <1>5 DEF ProcInv
  <2> QED BY <2>1, <2>2, <2>3 DEF k
<1>6. CASE cli[c].gate \notin {"switch", "boundary"}
  <2> DEFINE q == [cli[c] EXCEPT !.st = "protected", !.cap = k, !.gate = "none", !.ask = "none", !.kind = "claim"]
  <2>1. Granted(c, l) = q
    BY <1>6 DEF Granted, Protected
  <2> HIDE DEF k
  <2>2. q \in Process /\ q.prep = cli[c].prep /\ q.cap = k /\ q.st = "protected" /\ q.gate = "none" /\ q.ask = "none"
    BY <1>1, <1>2, <1>3 DEF Process, k
  <2> HIDE DEF q
  <2>3. ProcInv(q)
    BY <2>2, <1>1, <1>6 DEF ProcInv
  <2> QED BY <2>1, <2>2, <2>3 DEF k
<1> QED BY <1>4, <1>5, <1>6

\* A process that is on no session of ours.
LEMMA AwayFacts ==
    /\ Away \in Process /\ ProcInv(Away) /\ Away.cap = NoCap /\ Away.prep = NoCap
    /\ [Away EXCEPT !.st = "dead"] \in Process /\ ProcInv([Away EXCEPT !.st = "dead"])
    /\ [Away EXCEPT !.st = "dead"].cap = NoCap /\ [Away EXCEPT !.st = "dead"].prep = NoCap
<1>1. "claim" \in Kinds /\ "none" \in Answers /\ "none" \in Gates /\ 0 \in 0..PreparedTicks
  BY OwnershipConstants DEF Kinds, Claims, Answers, Gates
<1>2. NoCap \in Cap /\ NoCap.left = 0
  BY OwnershipConstants DEF NoCap, Cap
<1>3. Away \in Process /\ Away.cap = NoCap /\ Away.prep = NoCap /\ Away.gate = "none" /\ Away.ask = "none"
  BY <1>1, <1>2 DEF Away, Process
<1> DEFINE q == [Away EXCEPT !.st = "dead"]
<1>4. q \in Process /\ q.cap = NoCap /\ q.prep = NoCap /\ q.gate = "none" /\ q.ask = "none"
  BY <1>3 DEF Process
<1> HIDE DEF q
<1>5. ProcInv(Away) /\ ProcInv(q)
  BY <1>2, <1>3, <1>4 DEF ProcInv
<1> QED BY <1>3, <1>4, <1>5 DEF q

-----------------------------------------------------------------------------
(* The rest of the state.                                                  *)

\* The types of the rest hold now.
LEMMA RestNow == ASSUME IInv PROVE RestOK
BY DEF IInv, TypeOK, RestOK

\* A fault is counted within its bound; an aborted request may stay under way.
LEMMA FaultFacts == ASSUME IInv, Fault PROVE faults' \in 0..MaxFaults
BY OwnershipConstants DEF IInv, TypeOK, Fault

\* A request that goes astray is one of the requests.
LEMMA RequestFacts ==
    ASSUME IInv, NEW c \in Clients
    PROVE  orphans \cup {Request(c)} \in SUBSET [client : Clients, kind : Kinds, token : 0..MaxTokens]
<1>1. cli[c] \in Process /\ cli[c].cap \in Cap
  BY Numbers DEF IInv
<1>2. cli[c].kind \in Kinds /\ cli[c].cap.token \in 0..MaxTokens
  BY <1>1 DEF Process, Cap
<1> QED BY <1>2, RestNow DEF Request, RestOK

\* Aborting a request keeps the types of what is under way.
LEMMA AbortFacts ==
    ASSUME IInv, NEW c \in Clients, Abort(c)
    PROVE  /\ orphans' \in SUBSET [client : Clients, kind : Kinds, token : 0..MaxTokens]
           /\ faults' \in 0..MaxFaults
<1>1. CASE UNCHANGED <<orphans, faults>>
  BY <1>1, RestNow DEF RestOK
<1>2. CASE Fault /\ orphans' = orphans \cup {Request(c)}
  BY <1>2, FaultFacts, RequestFacts
<1> QED BY <1>1, <1>2 DEF Abort

\* Releases are of tokens that were granted.
LEMMA ReleaseFacts ==
    ASSUME IInv, NEW S \in SUBSET Cap, Release(S)
    PROVE  releases' \in SUBSET Tokens /\ releases \subseteq releases'
           /\ \A x \in S : x.token # 0 => x.token \in releases'
<1>1. \A x \in S : x.token \in 0..MaxTokens
  BY DEF Cap
<1>2. releases' = releases \cup ({x.token : x \in S} \ {0})
  BY DEF Release
<1>3. \A k \in 0..MaxTokens : k # 0 => k \in Tokens
  BY OwnershipConstants DEF Tokens
<1> QED BY <1>1, <1>2, <1>3, RestNow DEF RestOK

-----------------------------------------------------------------------------
(* The processes' own steps.                                               *)

\* StartExisting, Switch, FirstInput, PromoteAtBoundary: a gate opens.
LEMMA OpenInv ==
    ASSUME IInv, NEW c \in Clients, NEW st \in States, NEW mode \in Gates, mode # "none",
           cli[c].prep.left > 0 => st = "away", mode = "switch" <=> st = "away",
           Set(c, Opened([cli[c] EXCEPT !.st = st], mode)),
           UNCHANGED <<agentd, releases, file, orphans, faults>>
    PROVE  IInv'
<1> DEFINE q == [cli[c] EXCEPT !.st = st]
           p == Opened(q, mode)
<1>1. cli[c] \in Process
  BY DEF IInv, TypeOK
<1>2. Same(cli[c], q) /\ q.st = st
  BY <1>1, StateFacts
<1>3. cli' = [cli EXCEPT ![c] = p]
  BY DEF Set
<1> HIDE DEF q
<1>4. Same(q, p) /\ p.st = st /\ p.gate = mode /\ p.ask = "asking"
  BY <1>2, OpenedFacts DEF Same
<1> HIDE DEF p
<1>5. p \in Process /\ ProcInv(p) /\ p.cap = cli[c].cap /\ p.prep = cli[c].prep
  BY <1>2, <1>4 DEF Same, ProcInv
<1>6. UNCHANGED <<lease, nextToken, conv>> /\ RestOK' /\ releases' = releases
  BY RestNow DEF agentd, RestOK
<1> QED BY <1>3, <1>5, <1>6, ClientInv

\* A process that opens a session that exists asks for it.
LEMMA StartExistingInv == ASSUME IInv, NEW c \in Clients, StartExisting(c) PROVE IInv'
<1>1. ~(cli[c].prep.left > 0)
  BY DEF StartExisting, NoCap
<1>2. Set(c, Opened([cli[c] EXCEPT !.st = "starting"], "start")) /\ UNCHANGED <<agentd, releases, file, orphans, faults>>
  BY DEF StartExisting
<1>3. "starting" \in States /\ "start" \in Gates
  BY DEF States, Gates
<1> QED BY <1>1, <1>2, <1>3, OpenInv

\* A process that switches to the session asks for it first.
LEMMA SwitchInv == ASSUME IInv, NEW c \in Clients, Switch(c) PROVE IInv'
<1>1. cli[c] \in Process /\ cli[c].st = "away"
  BY DEF Switch, IInv, TypeOK
<1>2. [cli[c] EXCEPT !.st = "away"] = cli[c]
  BY <1>1 DEF Process
<1>3. Set(c, Opened([cli[c] EXCEPT !.st = "away"], "switch")) /\ UNCHANGED <<agentd, releases, file, orphans, faults>>
  BY <1>2 DEF Switch
<1>4. "away" \in States /\ "switch" \in Gates
  BY DEF States, Gates
<1> QED BY <1>3, <1>4, OpenInv

\* The first input to a new session asks for a reservation.
LEMMA FirstInputInv == ASSUME IInv, NEW c \in Clients, FirstInput(c) PROVE IInv'
<1>1. cli[c] \in Process /\ cli[c].st = "launcher" /\ ~(cli[c].prep.left > 0)
  BY DEF FirstInput, IInv, TypeOK, ProcInv
<1>2. [cli[c] EXCEPT !.st = "launcher"] = cli[c]
  BY <1>1 DEF Process
<1>3. Set(c, Opened([cli[c] EXCEPT !.st = "launcher"], "reservation")) /\ UNCHANGED <<agentd, releases, file, orphans, faults>>
  BY <1>2 DEF FirstInput
<1>4. "launcher" \in States /\ "reservation" \in Gates
  BY DEF States, Gates
<1> QED BY <1>1, <1>3, <1>4, OpenInv

\* A protected process asks to promote its reservation between turns.
LEMMA PromoteAtBoundaryInv == ASSUME IInv, NEW c \in Clients, PromoteAtBoundary(c) PROVE IInv'
<1>1. cli[c] \in Process /\ cli[c].st = "protected" /\ ~(cli[c].prep.left > 0)
  BY DEF PromoteAtBoundary, IInv, TypeOK, ProcInv
<1>2. [cli[c] EXCEPT !.st = "protected"] = cli[c]
  BY <1>1 DEF Process
<1>3. Set(c, Opened([cli[c] EXCEPT !.st = "protected"], "boundary")) /\ UNCHANGED <<agentd, releases, file, orphans, faults>>
  BY <1>2 DEF PromoteAtBoundary
<1>4. "protected" \in States /\ "boundary" \in Gates
  BY DEF States, Gates
<1> QED BY <1>1, <1>3, <1>4, OpenInv

\* Ask.
LEMMA AskInv == ASSUME IInv, NEW c \in Clients, NEW kind \in Kinds, Ask(c, kind) PROVE IInv'
<1> DEFINE p == [cli[c] EXCEPT !.ask = "asking", !.kind = kind]
<1>1. cli[c] \in Process /\ ProcInv(cli[c]) /\ cli[c].gate # "none" /\ "asking" \in Answers
  BY DEF IInv, TypeOK, Ask, Answers
<1>2. p \in Process /\ p.cap = cli[c].cap /\ p.prep = cli[c].prep /\ p.st = cli[c].st /\ p.gate = cli[c].gate
  BY <1>1 DEF Process
<1>3. cli' = [cli EXCEPT ![c] = p]
  BY DEF Ask, Set
<1> HIDE DEF p
<1>4. ProcInv(p)
  BY <1>1, <1>2 DEF ProcInv
<1>5. UNCHANGED <<lease, nextToken, conv>> /\ RestOK' /\ releases' = releases
  BY RestNow DEF agentd, RestOK, Ask
<1> QED BY <1>2, <1>3, <1>4, <1>5, ClientInv

\* CancelSwitch, SwitchUnprotected.
LEMMA CancelSwitchInv == ASSUME IInv, NEW c \in Clients, CancelSwitch(c) PROVE IInv'
<1> DEFINE p == [cli[c] EXCEPT !.gate = "none", !.ask = "none", !.kind = "claim"]
<1>1. cli[c] \in Process /\ ProcInv(cli[c])
  BY DEF IInv, TypeOK
<1>2. Same(cli[c], p) /\ p.st = cli[c].st /\ p.gate = "none" /\ p.ask = "none" /\ cli' = [cli EXCEPT ![c] = p]
  BY <1>1, ClosedFacts DEF CancelSwitch, Set
<1> HIDE DEF p
<1>3. p \in Process /\ ProcInv(p) /\ p.cap = cli[c].cap /\ p.prep = cli[c].prep
  BY <1>1, <1>2 DEF ProcInv, Same
<1>4. UNCHANGED <<lease, nextToken, conv>> /\ RestOK' /\ releases' = releases
  BY RestNow, AbortFacts DEF agentd, RestOK, CancelSwitch
<1> QED BY <1>2, <1>3, <1>4, ClientInv

\* A process that switches although it was not protected has no capability ready.
LEMMA SwitchUnprotectedInv == ASSUME IInv, NEW c \in Clients, SwitchUnprotected(c) PROVE IInv'
<1> DEFINE p == [cli[c] EXCEPT !.st = "unprotected", !.gate = "none", !.ask = "none", !.kind = "claim"]
<1>1. cli[c] \in Process /\ cli[c].prep = NoCap
  BY DEF IInv, TypeOK, SwitchUnprotected
<1>2. "claim" \in Kinds /\ "none" \in Answers /\ "none" \in Gates
  BY DEF Kinds, Claims, Answers, Gates
<1>3. p \in Process /\ p.cap = cli[c].cap /\ p.prep = cli[c].prep /\ p.st = "unprotected" /\ p.gate = "none" /\ p.ask = "none"
  BY <1>1, <1>2 DEF Process
<1>4. cli' = [cli EXCEPT ![c] = p]
  BY DEF SwitchUnprotected, Set
<1> HIDE DEF p
<1>5. ProcInv(p)
  BY <1>1, <1>3 DEF ProcInv, NoCap
<1>6. UNCHANGED <<lease, nextToken, conv>> /\ RestOK' /\ releases' = releases
  BY RestNow DEF agentd, RestOK, SwitchUnprotected
<1> QED BY <1>3, <1>4, <1>5, <1>6, ClientInv

\* StartPrepared.
LEMMA StartPreparedInv == ASSUME IInv, NEW c \in Clients, StartPrepared(c) PROVE IInv'
<1> DEFINE k == Capability(cli[c].prep)
           p == [cli[c] EXCEPT !.st = "protected", !.cap = k, !.gate = "none", !.ask = "none", !.kind = "claim",
                               !.prep = NoCap, !.due = 0]
<1>1. cli[c] \in Process /\ cli[c].prep \in Cap
  BY Numbers DEF IInv
<1>2. "claim" \in Kinds /\ "none" \in Answers /\ "none" \in Gates /\ 0 \in 0..PreparedTicks
  BY OwnershipConstants DEF Kinds, Claims, Answers, Gates
<1>3. k = cli[c].prep /\ NoCap \in Cap /\ NoCap.left = 0
  BY <1>1, OwnershipConstants DEF Capability, Cap, NoCap
<1>4. [Protected(cli[c], cli[c].prep) EXCEPT !.prep = NoCap, !.due = 0] = p
  BY <1>1 DEF Protected, Process
<1>5. cli' = [cli EXCEPT ![c] = p]
  BY <1>4 DEF StartPrepared, Set
<1> HIDE DEF k
<1>6. p \in Process /\ p.cap = k /\ p.prep = NoCap /\ p.st = "protected" /\ p.gate = "none" /\ p.ask = "none"
  BY <1>1, <1>2, <1>3 DEF Process
<1> HIDE DEF p
<1>7. ProcInv(p)
  BY <1>3, <1>6 DEF ProcInv
<1>8. UNCHANGED <<lease, nextToken, conv>> /\ RestOK' /\ releases' = releases
  BY RestNow DEF agentd, RestOK, StartPrepared
<1> QED BY <1>3, <1>5, <1>6, <1>7, <1>8, ClientInv

\* PreparedExpires.
LEMMA PreparedExpiresInv == ASSUME IInv, NEW c \in Clients, PreparedExpires(c) PROVE IInv'
<1> DEFINE p == [cli[c] EXCEPT !.prep = NoCap]
<1>1. cli[c] \in Process /\ ProcInv(cli[c]) /\ {cli[c].prep} \in SUBSET Cap
  BY Numbers DEF IInv
<1>2. NoCap \in Cap /\ NoCap.left = 0
  BY OwnershipConstants DEF Cap, NoCap
<1>3. p \in Process /\ p.cap = cli[c].cap /\ p.prep = NoCap /\ p.st = cli[c].st /\ p.gate = cli[c].gate /\ p.ask = cli[c].ask
  BY <1>1, <1>2 DEF Process
<1>4. cli' = [cli EXCEPT ![c] = p]
  BY DEF PreparedExpires, Set
<1> HIDE DEF p
<1>5. ProcInv(p)
  BY <1>1, <1>2, <1>3 DEF ProcInv
<1>6. releases' \in SUBSET Tokens /\ releases \subseteq releases'
  BY <1>1, ReleaseFacts DEF PreparedExpires
<1>7. UNCHANGED <<lease, nextToken, conv>> /\ RestOK'
  BY <1>6, RestNow DEF agentd, RestOK, PreparedExpires
<1> QED BY <1>3, <1>4, <1>5, <1>6, <1>7, ClientInv

\* ExpiryTimer, HeartbeatRefused: the process has to pass the gate again.
LEMMA RecoverInv ==
    ASSUME IInv, NEW c \in Clients, ExpiryTimer(c) \/ HeartbeatRefused(c) PROVE IInv'
<1>1. cli[c].st # "away" /\ cli' = [cli EXCEPT ![c] = Recovering(c)] /\ Abort(c) /\ UNCHANGED <<agentd, releases, file>>
  BY DEF ExpiryTimer, HeartbeatRefused, Set
<1>2. Same(cli[c], Recovering(c)) /\ ProcInv(Recovering(c))
  BY <1>1, RecoveringFacts
<1>3. UNCHANGED <<lease, nextToken, conv>> /\ RestOK' /\ releases' = releases
  BY <1>1, RestNow, AbortFacts DEF agentd, RestOK
<1> QED BY <1>1, <1>2, <1>3, ClientInv DEF Same

\* Dies.
LEMMA DiesInv == ASSUME IInv, NEW c \in Clients, Dies(c) PROVE IInv'
<1> DEFINE p == [Away EXCEPT !.st = "dead"]
<1>1. p \in Process /\ ProcInv(p) /\ p.cap = NoCap /\ p.prep = NoCap
  BY AwayFacts
<1>2. cli' = [cli EXCEPT ![c] = p] /\ UNCHANGED <<agentd, releases, file>> /\ Fault
      /\ orphans' \in {orphans, orphans \cup {Request(c)}}
  BY DEF Dies, Set
<1> HIDE DEF p
<1>3. UNCHANGED <<lease, nextToken, conv>> /\ RestOK' /\ releases' = releases
  BY <1>2, RestNow, FaultFacts, RequestFacts DEF agentd, RestOK
<1> QED BY <1>1, <1>2, <1>3, ClientInv

\* Materialize.
LEMMA MaterializeInv == ASSUME IInv, NEW c \in Clients, Materialize(c) PROVE IInv'
<1>1. UNCHANGED <<lease, nextToken, cli, releases>> /\ RestOK' /\ conv' = conv
  BY RestNow DEF agentd, RestOK, Materialize
<1> QED BY <1>1, QuietInv DEF IInv

\* A capability with the record's token is of the record's client.
LEMMA TokenIsOf ==
    ASSUME IInv, NEW d \in Clients, NEW x \in {cli[d].cap, cli[d].prep}, Live, lease.token = x.token
    PROVE  lease.client = d
BY DEF IInv, Caps, OkCap, Live

\* Heartbeat.
LEMMA HeartbeatInv == ASSUME IInv, NEW c \in Clients, Heartbeat(c) PROVE IInv'
<1> USE DEF IInv
<1> DEFINE p == [cli[c] EXCEPT !.cap.left = LeaseTicks]
           k == [cli[c].cap EXCEPT !.left = LeaseTicks]
           l == [lease EXCEPT !.left = LeaseTicks]
<1>1. cli[c] \in Process /\ cli[c].cap \in Cap /\ ProcInv(cli[c]) /\ lease \in LeaseRecord
  BY Numbers DEF TypeOK
<1>2. Live /\ lease.token = cli[c].cap.token /\ cli' = [cli EXCEPT ![c] = p] /\ lease' = l
      /\ UNCHANGED <<nextToken, releases, file, conv, op, orphans, faults>>
  BY DEF Heartbeat, byToken, Renewed, Set
<1>3. k \in Cap /\ k.token = cli[c].cap.token /\ k.left = LeaseTicks
  BY <1>1, OwnershipConstants DEF Cap
<1>4. l \in LeaseRecord /\ l.token = lease.token /\ l.client = lease.client /\ l.left = LeaseTicks /\ lease.left <= LeaseTicks
  BY <1>1, OwnershipConstants DEF LeaseRecord
<1>5. p = [cli[c] EXCEPT !.cap = k]
  BY <1>1 DEF Process
<1> HIDE DEF k, l
<1>6. p \in Process /\ p.cap = k /\ p.prep = cli[c].prep /\ p.st = cli[c].st /\ p.gate = cli[c].gate /\ p.ask = cli[c].ask
  BY <1>1, <1>3, <1>5 DEF Process
<1> HIDE DEF p
<1>7. lease.client = c
  BY <1>2, TokenIsOf
<1>8. cli' \in [Clients -> Process] /\ cli'[c] = p /\ \A d \in Clients : d # c => cli'[d] = cli[d]
  BY <1>2, <1>6 DEF TypeOK
<1>9. OkCap(c, k, lease', releases', nextToken')
  BY <1>2, <1>3, <1>4, <1>7, OwnershipConstants DEF OkCap, Live
<1>10. ASSUME NEW d \in Clients
       PROVE  /\ ProcInv(cli'[d])
              /\ cli'[d].cap = cli[d].cap \/ OkCap(d, cli'[d].cap, lease', releases', nextToken')
              /\ cli'[d].prep = cli[d].prep \/ OkCap(d, cli'[d].prep, lease', releases', nextToken')
  <2>1. CASE d = c
    BY <2>1, <1>1, <1>6, <1>8, <1>9 DEF ProcInv
  <2>2. CASE d # c
    BY <2>2, <1>8
  <2> QED BY <2>1, <2>2
<1>11. Keeps /\ RestOK' /\ lease'.token < nextToken' /\ conv' = "none" /\ nextToken' \in 1..(MaxTokens + 1)
  BY <1>2, <1>4, RestNow DEF Keeps, RestOK, TypeOK
<1> QED BY <1>2, <1>4, <1>8, <1>10, <1>11, GrantInv

\* HeartbeatUnheard.
LEMMA HeartbeatUnheardInv == ASSUME IInv, NEW c \in Clients, HeartbeatUnheard(c) PROVE IInv'
<1> USE DEF IInv
<1> DEFINE l == [lease EXCEPT !.left = LeaseTicks]
<1>1. lease \in LeaseRecord /\ Live /\ lease' = l /\ Fault
      /\ UNCHANGED <<nextToken, releases, file, conv, op, orphans, cli>>
  BY DEF TypeOK, HeartbeatUnheard, byToken, Renewed
<1>2. l \in LeaseRecord /\ l.token = lease.token /\ l.client = lease.client /\ lease.left <= l.left
  BY <1>1, OwnershipConstants DEF LeaseRecord
<1> HIDE DEF l
<1>3. Keeps /\ RestOK' /\ lease'.token < nextToken' /\ conv' = "none" /\ nextToken' \in 1..(MaxTokens + 1)
      /\ cli' \in [Clients -> Process]
  BY <1>1, <1>2, RestNow, FaultFacts DEF Keeps, RestOK, TypeOK
<1> QED BY <1>1, <1>2, <1>3, GrantInv

\* CancelGate, Shutdown: the process leaves, and asks for the release of what it has.
LEMMA LeaveInv == ASSUME IInv, NEW c \in Clients, Leave(c) PROVE IInv'
<1> USE DEF IInv
<1> DEFINE S == {cli[c].cap, cli[c].prep}
<1>1. cli' = [cli EXCEPT ![c] = Away] /\ UNCHANGED <<nextToken, conv, op, file>>
  BY DEF Leave, Set
<1>2. S \in SUBSET Cap /\ cli \in [Clients -> Process]
  BY Numbers DEF TypeOK
<1>3. Away \in Process /\ ProcInv(Away) /\ Away.cap = NoCap /\ Away.prep = NoCap /\ NoCap.left = 0
  BY AwayFacts DEF NoCap
<1>4. CASE Fault /\ Release(S) /\ UNCHANGED <<lease, orphans>>
  <2>1. releases' \in SUBSET Tokens /\ releases \subseteq releases'
    BY <1>2, <1>4, ReleaseFacts
  <2>2. RestOK'
    BY <2>1, <1>1, <1>4, RestNow, FaultFacts DEF RestOK
  <2> QED BY <2>1, <2>2, <1>1, <1>3, <1>4, ClientInv
<1>5. CASE Abort(c) /\ AwaitRelease(S)
  <2>1. RestOK' /\ releases' = releases
    BY <1>1, <1>5, RestNow, AbortFacts DEF RestOK, AwaitRelease
  <2>2. CASE ~\E x \in S : byToken(x.token)
    <3>1. lease' = lease
      BY <2>2, <1>5 DEF AwaitRelease
    <3> QED BY <3>1, <2>1, <1>1, <1>3, ClientInv
  <2>3. CASE \E x \in S : byToken(x.token)
    <3>1. lease' = NoLease
      BY <2>3, <1>5 DEF AwaitRelease
    <3>2. lease.client = c /\ lease.token # 0
      BY <2>3, TokenIsOf DEF byToken, Live
    <3>3. cli' \in [Clients -> Process] /\ cli'[c] = Away /\ \A d \in Clients : d # c => cli'[d] = cli[d]
      BY <1>1, <1>2, <1>3
    <3>4. ASSUME NEW d \in Clients
          PROVE  /\ ProcInv(cli'[d])
                 /\ cli'[d].cap \in {cli[d].cap, NoCap} /\ cli'[d].prep \in {cli[d].prep, NoCap}
                 /\ \A x \in {cli'[d].cap, cli'[d].prep} :
                       x.token = lease.token /\ x.left > 0 => x.token \in releases'
      <4>1. CASE d = c
        BY <4>1, <3>3, <1>3
      <4>2. CASE d # c
        <5>1. \A x \in {cli[d].cap, cli[d].prep} : x.token # lease.token
          BY <4>2, <3>2, TokenIsOf DEF Live
        <5> QED BY <4>2, <5>1, <3>3
      <4> QED BY <4>1, <4>2
    <3> QED BY <3>1, <3>3, <3>4, <2>1, <1>1, DropInv
  <2> QED BY <2>2, <2>3
<1> QED BY <1>4, <1>5 DEF Leave

\* ContinueUnprotected.
LEMMA ContinueInv == ASSUME IInv, NEW c \in Clients, ContinueUnprotected(c) PROVE IInv'
<1> USE DEF IInv
<1> DEFINE S == {cli[c].cap}
           p == [cli[c] EXCEPT !.st = "unprotected", !.cap = NoCap, !.gate = "none", !.ask = "none", !.kind = "claim"]
<1>1. cli' = [cli EXCEPT ![c] = p] /\ UNCHANGED <<nextToken, conv, op, file, orphans>>
  BY DEF ContinueUnprotected, Set
<1>2. S \in SUBSET Cap /\ cli \in [Clients -> Process] /\ cli[c] \in Process /\ cli[c].prep.left \in Nat
  BY Numbers DEF TypeOK
<1>3. "claim" \in Kinds /\ "none" \in Answers /\ "none" \in Gates
  BY DEF Kinds, Claims, Answers, Gates
<1>4. ~(cli[c].prep.left > 0)
  BY DEF ContinueUnprotected, ProcInv
<1>5. NoCap \in Cap /\ NoCap.left = 0
  BY OwnershipConstants DEF NoCap, Cap
<1>6. p \in Process /\ p.cap = NoCap /\ p.prep = cli[c].prep /\ p.st = "unprotected" /\ p.gate = "none" /\ p.ask = "none"
  BY <1>2, <1>3, <1>5 DEF Process
<1> HIDE DEF p
<1>7. ProcInv(p)
  BY <1>4, <1>6 DEF ProcInv
<1>8. CASE Fault /\ Release(S) /\ UNCHANGED lease
  <2>1. releases' \in SUBSET Tokens /\ releases \subseteq releases'
    BY <1>2, <1>8, ReleaseFacts
  <2>2. RestOK'
    BY <2>1, <1>1, <1>8, RestNow, FaultFacts DEF RestOK
  <2> QED BY <2>1, <2>2, <1>1, <1>6, <1>7, <1>8, ClientInv
<1>9. CASE AwaitRelease(S) /\ UNCHANGED faults
  <2>1. RestOK' /\ releases' = releases
    BY <1>1, <1>9, RestNow DEF RestOK, AwaitRelease
  <2>2. CASE ~\E x \in S : byToken(x.token)
    <3>1. lease' = lease
      BY <2>2, <1>9 DEF AwaitRelease
    <3> QED BY <3>1, <2>1, <1>1, <1>6, <1>7, ClientInv
  <2>3. CASE \E x \in S : byToken(x.token)
    <3>1. lease' = NoLease
      BY <2>3, <1>9 DEF AwaitRelease
    <3>2. lease.client = c /\ lease.token # 0
      BY <2>3, TokenIsOf DEF byToken, Live
    <3>3. cli' \in [Clients -> Process] /\ cli'[c] = p /\ \A d \in Clients : d # c => cli'[d] = cli[d]
      BY <1>1, <1>2, <1>6
    <3>4. ASSUME NEW d \in Clients
          PROVE  /\ ProcInv(cli'[d])
                 /\ cli'[d].cap \in {cli[d].cap, NoCap} /\ cli'[d].prep \in {cli[d].prep, NoCap}
                 /\ \A x \in {cli'[d].cap, cli'[d].prep} :
                       x.token = lease.token /\ x.left > 0 => x.token \in releases'
      <4>1. CASE d = c
        BY <4>1, <3>3, <1>4, <1>5, <1>6, <1>7
      <4>2. CASE d # c
        <5>1. \A x \in {cli[d].cap, cli[d].prep} : x.token # lease.token
          BY <4>2, <3>2, TokenIsOf DEF Live
        <5> QED BY <4>2, <5>1, <3>3
      <4> QED BY <4>1, <4>2
    <3> QED BY <3>1, <3>3, <3>4, <2>1, <1>1, DropInv
  <2> QED BY <2>2, <2>3
<1> QED BY <1>8, <1>9 DEF ContinueUnprotected

\* Every step of a process.
LEMMA ClientStepInv == ASSUME IInv, NEW c \in Clients, ClientStep(c) PROVE IInv'
<1>1. CASE StartExisting(c) \/ Switch(c) \/ FirstInput(c) \/ PromoteAtBoundary(c)
  BY <1>1, StartExistingInv, SwitchInv, FirstInputInv, PromoteAtBoundaryInv
<1>2. CASE \E kind \in Kinds : Ask(c, kind)
  BY <1>2, AskInv
<1>3. CASE CancelSwitch(c) \/ SwitchUnprotected(c) \/ StartPrepared(c) \/ PreparedExpires(c) \/ Materialize(c)
  BY <1>3, CancelSwitchInv, SwitchUnprotectedInv, StartPreparedInv, PreparedExpiresInv, MaterializeInv
<1>4. CASE CancelGate(c) \/ Shutdown(c)
  BY <1>4, LeaveInv DEF CancelGate, Shutdown
<1>5. CASE ExpiryTimer(c) \/ HeartbeatRefused(c) \/ Heartbeat(c) \/ HeartbeatUnheard(c)
  BY <1>5, RecoverInv, HeartbeatInv, HeartbeatUnheardInv
<1>6. CASE ContinueUnprotected(c) \/ Dies(c)
  BY <1>6, ContinueInv, DiesInv
<1> QED BY <1>1, <1>2, <1>3, <1>4, <1>5, <1>6 DEF ClientStep

-----------------------------------------------------------------------------
(* Agentd's routes.                                                        *)

\* What agentd writes when it publishes ownership, whoever asks.
LEMMA PublishFacts ==
    ASSUME IInv, NEW c \in Clients, Claimable(c), Publish(c)
    PROVE  /\ lease' \in LeaseRecord /\ nextToken' \in 1..(MaxTokens + 1) /\ lease'.token # 0
           /\ lease'.token < nextToken' /\ Keeps /\ lease'.client = c /\ conv' = "none"
<1>1. lease \in LeaseRecord /\ nextToken \in 1..(MaxTokens + 1) /\ lease.token < nextToken
      /\ MaxTokens \in Nat /\ LeaseTicks \in Nat \ {0}
  BY OwnershipConstants DEF IInv, TypeOK
<1>2. CASE Live
  <2> DEFINE l == [lease EXCEPT !.left = LeaseTicks]
  <2>1. l \in LeaseRecord /\ l.token = lease.token /\ l.client = lease.client /\ l.left = LeaseTicks /\ lease.left <= LeaseTicks
    BY <1>1 DEF LeaseRecord
  <2>2. lease' = l /\ nextToken' = nextToken /\ lease.client = c /\ conv' = "none"
    BY <1>2 DEF Publish, Claimed, TakeToken, Claimable
  <2> HIDE DEF l
  <2> QED BY <2>1, <2>2, <1>1, <1>2 DEF Live, Keeps
<1>3. CASE ~Live
  <2> DEFINE l == [client |-> c, token |-> nextToken, pending |-> FALSE, promoted |-> FALSE, left |-> LeaseTicks]
  <2>1. nextToken \in Tokens /\ lease' = l /\ nextToken' = nextToken + 1 /\ conv' = "none"
    BY <1>3 DEF Publish, Claimed, TakeToken, TokenFree
  <2>2. l \in LeaseRecord /\ l.token = nextToken /\ l.client = c
    BY <2>1, <1>1 DEF LeaseRecord, Tokens
  <2> HIDE DEF l
  <2> QED BY <2>1, <2>2, <1>1, <1>3 DEF Live, Keeps, Tokens
<1> QED BY <1>2, <1>3

\* What a grant writes; a promotion is of the owner of the token it was asked with.
LEMMA GrantsFacts ==
    ASSUME IInv, NEW c \in Clients, NEW kind, NEW t, Grants(c, kind, t)
    PROVE  /\ lease' \in LeaseRecord /\ nextToken' \in 1..(MaxTokens + 1) /\ lease'.token # 0
           /\ lease'.token < nextToken' /\ Keeps /\ conv' = "none"
           /\ lease'.client = c \/ (Live /\ lease.token = t /\ lease'.client = lease.client)
<1>1. lease \in LeaseRecord /\ nextToken \in 1..(MaxTokens + 1) /\ lease.token < nextToken
      /\ MaxTokens \in Nat /\ LeaseTicks \in Nat \ {0}
  BY OwnershipConstants DEF IInv, TypeOK
<1>2. CASE ClaimGranted(c, kind)
  BY <1>2, PublishFacts DEF ClaimGranted
<1>3. CASE ReserveGranted(c, kind)
  <2>1. CASE Live
    <3> DEFINE l == [lease EXCEPT !.left = LeaseTicks]
    <3>1. l \in LeaseRecord /\ l.token = lease.token /\ l.client = lease.client /\ l.left = LeaseTicks /\ lease.left <= LeaseTicks
      BY <1>1 DEF LeaseRecord
    <3>2. lease' = l /\ nextToken' = nextToken /\ lease.client = c /\ conv' = "none"
      BY <1>3, <2>1 DEF ReserveGranted, Reserved, TakeToken, Reservable
    <3> HIDE DEF l
    <3> QED BY <3>1, <3>2, <2>1, <1>1 DEF Live, Keeps
  <2>2. CASE ~Live
    <3> DEFINE l == [client |-> c, token |-> nextToken, pending |-> TRUE, promoted |-> FALSE, left |-> LeaseTicks]
    <3>1. nextToken \in Tokens /\ lease' = l /\ nextToken' = nextToken + 1 /\ conv' = "none"
      BY <1>3, <2>2 DEF ReserveGranted, Reserved, TakeToken, TokenFree
    <3>2. l \in LeaseRecord /\ l.token = nextToken /\ l.client = c
      BY <3>1, <1>1 DEF LeaseRecord, Tokens
    <3> HIDE DEF l
    <3> QED BY <3>1, <3>2, <2>2, <1>1 DEF Live, Keeps, Tokens
  <2> QED BY <2>1, <2>2
<1>4. CASE PromoteGranted(kind, t)
  <2> DEFINE l == [lease EXCEPT !.pending = FALSE, !.promoted = TRUE, !.left = LeaseTicks]
  <2>1. l \in LeaseRecord /\ l.token = lease.token /\ l.client = lease.client /\ l.left = LeaseTicks /\ lease.left <= LeaseTicks
    <3>1. LeaseTicks \in 0..LeaseTicks /\ TRUE \in BOOLEAN /\ FALSE \in BOOLEAN /\ lease.left <= LeaseTicks
      BY <1>1 DEF LeaseRecord
    <3>2. l \in LeaseRecord
      BY <3>1, <1>1 DEF LeaseRecord
    <3>3. l.token = lease.token /\ l.client = lease.client /\ l.left = LeaseTicks
      BY <1>1 DEF LeaseRecord
    <3> QED BY <3>1, <3>2, <3>3
  <2>2. lease' = l /\ UNCHANGED <<nextToken, conv>> /\ conv = "none" /\ Live /\ lease.token = t
    BY <1>4 DEF PromoteGranted, Promoted, Promotable, byToken
  <2> HIDE DEF l
  <2> QED BY <2>1, <2>2, <1>1 DEF Live, Keeps
<1> QED BY <1>2, <1>3, <1>4 DEF Grants

\* A grant, and the process that learns of it.
LEMMA HeardInv ==
    ASSUME IInv, NEW c \in Clients, cli[c].ask = "asking", lease' \in LeaseRecord, nextToken' \in 1..(MaxTokens + 1),
           lease'.token # 0, lease'.token < nextToken', Keeps, lease'.client = c, conv' = "none",
           cli' = [cli EXCEPT ![c] = Granted(c, lease')], Release(PreviouslyPrepared(c)),
           UNCHANGED <<file, orphans, faults>>, op' = op \/ op' = NoOp
    PROVE  IInv'
<1> USE DEF IInv
<1>1. PICK l \in LeaseRecord : l = lease'
  OBVIOUS
<1> DEFINE q == Granted(c, l)
<1>2. /\ q \in Process /\ ProcInv(q)
      /\ \/ q.cap = Capability(l) /\ q.prep = cli[c].prep
         \/ q.prep = Capability(l) /\ q.cap = cli[c].cap
  BY GrantedFacts
<1>3. cli' = [cli EXCEPT ![c] = q]
  BY <1>1
<1> HIDE DEF q
<1>4. cli' \in [Clients -> Process] /\ cli'[c] = q /\ \A d \in Clients : d # c => cli'[d] = cli[d]
  BY <1>2, <1>3 DEF TypeOK
<1>5. nextToken' \in Nat
  BY OwnershipConstants
<1>6. OkCap(c, Capability(l), lease', releases', nextToken')
  BY <1>1, <1>5, CapGranted
<1>7. PreviouslyPrepared(c) \in SUBSET Cap
  BY Numbers DEF PreviouslyPrepared
<1>8. releases' \in SUBSET Tokens /\ releases \subseteq releases'
  BY <1>7, ReleaseFacts
<1>9. RestOK'
  BY <1>8, RestNow, OwnershipConstants DEF RestOK, NoOp
<1>10. ASSUME NEW d \in Clients
       PROVE  /\ ProcInv(cli'[d])
              /\ cli'[d].cap = cli[d].cap \/ OkCap(d, cli'[d].cap, lease', releases', nextToken')
              /\ cli'[d].prep = cli[d].prep \/ OkCap(d, cli'[d].prep, lease', releases', nextToken')
  <2>1. CASE d = c
    BY <2>1, <1>2, <1>4, <1>6
  <2>2. CASE d # c
    BY <2>2, <1>4
  <2> QED BY <2>1, <2>2
<1> QED BY <1>4, <1>8, <1>9, <1>10, GrantInv

\* A grant that no process learns of.
LEMMA UnheardInv ==
    ASSUME IInv, lease' \in LeaseRecord, nextToken' \in 1..(MaxTokens + 1), lease'.token < nextToken',
           Keeps, conv' = "none", RestOK', releases' = releases, cli' \in [Clients -> Process],
           \A d \in Clients : ProcInv(cli'[d]) /\ cli'[d].cap = cli[d].cap /\ cli'[d].prep = cli[d].prep
    PROVE  IInv'
BY GrantInv

\* A refusal changes the request of c and nothing else of it.
LEMMA RefusedSet ==
    ASSUME IInv, NEW c \in Clients, NEW answer \in Answers, answer # "asking", Refuse(c, answer)
    PROVE  /\ cli' \in [Clients -> Process]
           /\ \A d \in Clients : ProcInv(cli'[d]) /\ cli'[d].cap = cli[d].cap /\ cli'[d].prep = cli[d].prep
<1>1. cli' = [cli EXCEPT ![c] = Answered(c, answer)] /\ cli \in [Clients -> Process]
  BY DEF Refuse, Answered, Set, IInv, TypeOK
<1>2. Same(cli[c], Answered(c, answer)) /\ ProcInv(Answered(c, answer))
  BY RefuseFacts
<1>3. /\ cli' \in [Clients -> Process] /\ cli'[c] = Answered(c, answer)
      /\ \A d \in Clients : d # c => cli'[d] = cli[d]
  BY <1>1, <1>2 DEF Same
<1>4. ASSUME NEW d \in Clients PROVE ProcInv(cli'[d]) /\ cli'[d].cap = cli[d].cap /\ cli'[d].prep = cli[d].prep
  <2>1. CASE d = c
    BY <2>1, <1>2, <1>3 DEF Same
  <2>2. CASE d # c
    BY <2>2, <1>3 DEF IInv
  <2> QED BY <2>1, <2>2
<1> QED BY <1>3, <1>4

\* So the invariant is kept when only that happens.
LEMMA RefuseInv ==
    ASSUME IInv, NEW c \in Clients, NEW answer \in Answers, answer # "asking", Refuse(c, answer),
           UNCHANGED <<lease, nextToken, releases>>, conv' \in {conv, "none"}, RestOK'
    PROVE  IInv'
<1>1. cli' = [cli EXCEPT ![c] = Answered(c, answer)]
  BY DEF Refuse, Answered, Set
<1>2. Same(cli[c], Answered(c, answer)) /\ ProcInv(Answered(c, answer))
  BY RefuseFacts
<1> QED BY <1>1, <1>2, ClientInv DEF Same

\* ServeGrant, ServeLost, ServeRefusal, Unreachable, ServeTakeover.
LEMMA ServeStepInv == ASSUME IInv, NEW c \in Clients, ServeStep(c) PROVE IInv'
<1>1. CASE ServeGrant(c)
  <2> DEFINE t == cli[c].cap.token
  <2>1. Grants(c, cli[c].kind, t) /\ cli[c].ask = "asking" /\ cli' = [cli EXCEPT ![c] = Granted(c, lease')]
        /\ Release(PreviouslyPrepared(c)) /\ UNCHANGED <<file, op, orphans, faults>>
    BY <1>1 DEF ServeGrant
  <2>2. /\ lease' \in LeaseRecord /\ nextToken' \in 1..(MaxTokens + 1) /\ lease'.token # 0
        /\ lease'.token < nextToken' /\ Keeps /\ conv' = "none"
        /\ lease'.client = c \/ (Live /\ lease.token = t /\ lease'.client = lease.client)
    BY <2>1, GrantsFacts
  <2>3. lease'.client = c
    BY <2>2, TokenIsOf
  <2> QED BY <2>1, <2>2, <2>3, HeardInv
<1>2. CASE ServeLost(c)
  <2>1. Grants(c, cli[c].kind, cli[c].cap.token) /\ Refuse(c, "unavailable") /\ Fault
        /\ UNCHANGED <<releases, file, op, orphans>>
    BY <1>2 DEF ServeLost
  <2>2. "unavailable" \in Answers
    BY DEF Answers
  <2>3. /\ lease' \in LeaseRecord /\ nextToken' \in 1..(MaxTokens + 1)
        /\ lease'.token < nextToken' /\ Keeps /\ conv' = "none"
    BY <2>1, GrantsFacts
  <2>4. RestOK'
    BY <2>1, <2>3, RestNow, FaultFacts DEF RestOK
  <2>5. /\ cli' \in [Clients -> Process]
        /\ \A d \in Clients : ProcInv(cli'[d]) /\ cli'[d].cap = cli[d].cap /\ cli'[d].prep = cli[d].prep
    BY <2>1, <2>2, RefusedSet
  <2> QED BY <2>1, <2>3, <2>4, <2>5, UnheardInv
<1>3. CASE ServeRefusal(c)
  <2> DEFINE answer == Refusal(c, cli[c].kind, cli[c].cap.token)
  <2>1. Refuse(c, answer) /\ UNCHANGED <<agentd, releases, file, orphans, faults>>
    BY <1>3 DEF ServeRefusal
  <2>2. answer \in Answers /\ answer # "asking"
    BY DEF Refusal, Answers
  <2> HIDE DEF answer
  <2>3. UNCHANGED <<lease, nextToken, conv>> /\ RestOK' /\ releases' = releases
    BY <2>1, RestNow DEF agentd, RestOK
  <2> QED BY <2>1, <2>2, <2>3, RefuseInv
<1>4. CASE Unreachable(c)
  <2>1. Refuse(c, "unavailable") /\ Fault /\ UNCHANGED <<agentd, releases, file, orphans>>
    BY <1>4 DEF Unreachable
  <2>2. "unavailable" \in Answers
    BY DEF Answers
  <2>3. UNCHANGED <<lease, nextToken, conv>> /\ RestOK' /\ releases' = releases
    BY <2>1, RestNow, FaultFacts DEF agentd, RestOK
  <2> QED BY <2>1, <2>2, <2>3, RefuseInv
<1>5. CASE ServeTakeover(c)
  <2>1. op' = [client |-> c, kind |-> cli[c].kind, stage |-> "settling"] /\ cli[c].kind \in Kinds
        /\ UNCHANGED <<lease, nextToken, conv, file, releases, cli, faults, orphans>>
    BY <1>5 DEF ServeTakeover, TakeoverStarts, Kinds, Claims
  <2>2. RestOK'
    BY <2>1, RestNow DEF RestOK
  <2> QED BY <2>1, <2>2, QuietInv DEF IInv
<1> QED BY <1>1, <1>2, <1>3, <1>4, <1>5 DEF ServeStep

\* ServeUnheard, OrphanTakeover, OrphanRefused.
LEMMA OrphanStepInv == ASSUME IInv, NEW r \in orphans, OrphanStep(r) PROVE IInv'
<1>1. r.client \in Clients /\ orphans \ {r} \in SUBSET [client : Clients, kind : Kinds, token : 0..MaxTokens]
  BY RestNow DEF RestOK
<1>2. CASE ServeUnheard(r)
  <2>1. Grants(r.client, r.kind, r.token) /\ orphans' = orphans \ {r} /\ UNCHANGED <<releases, file, op, cli, faults>>
    BY <1>2 DEF ServeUnheard
  <2>2. /\ lease' \in LeaseRecord /\ nextToken' \in 1..(MaxTokens + 1)
        /\ lease'.token < nextToken' /\ Keeps /\ conv' = "none"
    BY <1>1, <2>1, GrantsFacts
  <2>3. RestOK'
    BY <1>1, <2>1, <2>2, RestNow DEF RestOK
  <2> QED BY <2>1, <2>2, <2>3, UnheardInv DEF IInv, TypeOK
<1>3. CASE OrphanTakeover(r)
  <2>1. op' = [client |-> r.client, kind |-> r.kind, stage |-> "settling"] /\ r.kind \in Kinds
        /\ orphans' = orphans \ {r} /\ UNCHANGED <<lease, nextToken, conv, file, releases, cli, faults>>
    BY <1>3 DEF OrphanTakeover, TakeoverStarts, Kinds, Claims
  <2>2. RestOK'
    BY <1>1, <2>1, RestNow DEF RestOK
  <2> QED BY <2>1, <2>2, QuietInv DEF IInv
<1>4. CASE OrphanRefused(r)
  <2>1. orphans' = orphans \ {r} /\ UNCHANGED <<agentd, releases, file, cli, faults>>
    BY <1>4 DEF OrphanRefused
  <2>2. UNCHANGED <<lease, nextToken, conv, op>> /\ RestOK'
    BY <1>1, <2>1, RestNow DEF RestOK, agentd
  <2> QED BY <2>1, <2>2, QuietInv DEF IInv
<1> QED BY <1>2, <1>3, <1>4 DEF OrphanStep

\* TakeoverGrants, TakeoverTimesOut, TakeoverForces.
LEMMA TakeoverStepInv == ASSUME IInv, TakeoverStep PROVE IInv'
<1> DEFINE c == op.client
<1>1. c \in Clients /\ NoOp \in [client : Clients, kind : Kinds \cup {"none"}, stage : {"free", "settling", "closed"}]
  BY RestNow, OwnershipConstants DEF RestOK, NoOp
<1>2. "leased" \in Answers /\ "timeout" \in Answers
  BY DEF Answers
<1>3. CASE TakeoverGrants
  <2>1. op' = NoOp /\ UNCHANGED <<file, orphans, faults>>
    BY <1>3 DEF TakeoverGrants
  <2>2. CASE Claimable(c)
    <3>1. Publish(c)
      BY <1>3, <2>2 DEF TakeoverGrants
    <3>2. /\ lease' \in LeaseRecord /\ nextToken' \in 1..(MaxTokens + 1) /\ lease'.token # 0
          /\ lease'.token < nextToken' /\ Keeps /\ lease'.client = c /\ conv' = "none"
      BY <1>1, <2>2, <3>1, PublishFacts
    <3>3. CASE Waits
      <4>1. cli' = [cli EXCEPT ![c] = Granted(c, lease')] /\ Release(PreviouslyPrepared(c)) /\ cli[c].ask = "asking"
        BY <1>3, <2>2, <3>3 DEF TakeoverGrants, Waits
      <4> HIDE DEF c
      <4> QED BY <4>1, <3>2, <2>1, <1>1, HeardInv
    <3>4. CASE ~Waits
      <4>1. UNCHANGED <<cli, releases>>
        BY <1>3, <2>2, <3>4 DEF TakeoverGrants
      <4>2. RestOK'
        BY <4>1, <3>2, <2>1, <1>1, RestNow DEF RestOK
      <4> QED BY <4>1, <4>2, <3>2, UnheardInv DEF IInv, TypeOK
    <3> QED BY <3>3, <3>4
  <2>3. CASE ~Claimable(c)
    <3>1. conv' = "none" /\ UNCHANGED <<lease, nextToken, releases>>
      BY <1>3, <2>3 DEF TakeoverGrants
    <3>2. RestOK'
      BY <3>1, <2>1, <1>1, RestNow DEF RestOK
    <3>3. CASE Waits
      <4>1. Refuse(c, "leased")
        BY <1>3, <2>3, <3>3 DEF TakeoverGrants
      <4> HIDE DEF c
      <4> QED BY <4>1, <3>1, <3>2, <1>1, <1>2, RefuseInv
    <3>4. CASE ~Waits
      <4>1. UNCHANGED cli
        BY <1>3, <2>3, <3>4 DEF TakeoverGrants
      <4> QED BY <4>1, <3>1, <3>2, QuietInv DEF IInv
    <3> QED BY <3>3, <3>4
  <2> QED BY <2>2, <2>3
<1>4. CASE TakeoverTimesOut
  <2>1. op' = NoOp /\ UNCHANGED <<lease, nextToken, conv, releases, file, orphans, faults>>
    BY <1>4 DEF TakeoverTimesOut
  <2>2. RestOK'
    BY <2>1, <1>1, RestNow DEF RestOK
  <2>3. CASE Waits
    <3>1. Refuse(c, "timeout")
      BY <1>4, <2>3 DEF TakeoverTimesOut
    <3> HIDE DEF c
    <3> QED BY <3>1, <2>1, <2>2, <1>1, <1>2, RefuseInv
  <2>4. CASE ~Waits
    <3>1. UNCHANGED cli
      BY <1>4, <2>4 DEF TakeoverTimesOut
    <3> QED BY <3>1, <2>1, <2>2, QuietInv DEF IInv
  <2> QED BY <2>3, <2>4
<1>5. CASE TakeoverForces
  <2>1. op' = [op EXCEPT !.stage = "closed"] /\ conv' = "none"
        /\ UNCHANGED <<lease, nextToken, releases, file, orphans, cli, faults>>
    BY <1>5 DEF TakeoverForces
  <2>2. op' \in [client : Clients, kind : Kinds \cup {"none"}, stage : {"free", "settling", "closed"}]
    BY <2>1, RestNow DEF RestOK
  <2>3. RestOK'
    BY <2>1, <2>2, RestNow DEF RestOK
  <2> QED BY <2>1, <2>3, QuietInv DEF IInv
<1> QED BY <1>3, <1>4, <1>5 DEF TakeoverStep

\* ServeRelease.
LEMMA ServeReleaseInv == ASSUME IInv, NEW t \in releases, ServeRelease(t) PROVE IInv'
<1>1. lease' = NoLease /\ lease.token = t /\ UNCHANGED <<nextToken, releases, file, conv, op, orphans, cli, faults>>
  BY DEF ServeRelease, byToken
<1>2. RestOK'
  BY <1>1, RestNow DEF RestOK
<1>3. cli' \in [Clients -> Process] /\ \A d \in Clients : ProcInv(cli'[d])
  BY <1>1 DEF IInv, TypeOK
<1> QED BY <1>1, <1>2, <1>3, DropInv

\* AgentdRestart.
LEMMA RestartInv == ASSUME IInv, AgentdRestart PROVE IInv'
<1>1. op' = NoOp /\ conv' = "none" /\ Fault /\ UNCHANGED <<lease, nextToken, releases, file, orphans>>
      /\ cli' = [d \in Clients |-> IF cli[d].ask # "asking" THEN cli[d] ELSE Answered(d, "unavailable")]
  BY DEF AgentdRestart, Answered
<1>2. NoOp \in [client : Clients, kind : Kinds \cup {"none"}, stage : {"free", "settling", "closed"}]
  BY OwnershipConstants DEF NoOp
<1>3. RestOK'
  BY <1>1, <1>2, RestNow, FaultFacts DEF RestOK
<1>4. ASSUME NEW d \in Clients
      PROVE  cli'[d] \in Process /\ ProcInv(cli'[d]) /\ cli'[d].cap = cli[d].cap /\ cli'[d].prep = cli[d].prep
  <2>1. "unavailable" \in Answers
    BY DEF Answers
  <2>2. Same(cli[d], Answered(d, "unavailable")) /\ ProcInv(Answered(d, "unavailable"))
    BY <2>1, RefuseFacts
  <2>3. cli[d] \in Process /\ ProcInv(cli[d])
    BY DEF IInv, TypeOK
  <2> QED BY <2>2, <2>3, <1>1 DEF Same
<1>5. cli' \in [Clients -> Process]
  BY <1>1, <1>4
<1>6. Keeps /\ lease' \in LeaseRecord /\ nextToken' \in 1..(MaxTokens + 1) /\ lease'.token < nextToken'
  BY <1>1, Numbers DEF Keeps, IInv, TypeOK
<1> QED BY <1>1, <1>3, <1>4, <1>5, <1>6, UnheardInv

\* OpenConversation, Dispatch, TurnEnds, CloseConversation: agentd begins nothing
\* under a lease, and what ends only makes room.
LEMMA WriterInv ==
    ASSUME IInv, OpenConversation \/ Dispatch \/ TurnEnds \/ CloseConversation
    PROVE  IInv'
<1>1. UNCHANGED <<lease, nextToken, releases, file, op, orphans, cli, faults>> /\ conv' \in {"none", "idle", "turn"}
      /\ (Live => conv' = "none")
  BY DEF OpenConversation, Dispatch, TurnEnds, CloseConversation, IInv
<1>2. RestOK'
  BY <1>1, RestNow DEF RestOK
<1> QED BY <1>1, <1>2, QuietInv

\* Tick: the record's time runs out no sooner than a capability's.
LEMMA TickInv == ASSUME IInv, Tick PROVE IInv'
<1> USE DEF IInv
<1>1. UNCHANGED <<nextToken, releases, file, conv, op, orphans, faults>>
  BY DEF Tick
<1>2. RestOK'
  BY <1>1, RestNow DEF RestOK
<1>3. ASSUME NEW d \in Clients
      PROVE  /\ cli'[d] \in Process
             /\ cli'[d].cap.token = cli[d].cap.token /\ cli'[d].cap.left = Less(cli[d].cap.left)
             /\ cli'[d].prep.token = cli[d].prep.token /\ cli'[d].prep.left = Less(cli[d].prep.left)
             /\ cli'[d].st = cli[d].st /\ cli'[d].gate = cli[d].gate /\ cli'[d].ask = cli[d].ask
  <2> DEFINE p == cli[d]
             k == [p.cap EXCEPT !.left = Less(@)]
             q == [p.prep EXCEPT !.left = Less(@)]
             due == Less(p.due)
  <2>1. p \in Process /\ p.cap \in Cap /\ p.prep \in Cap /\ p.due \in 0..PreparedTicks
    BY Numbers DEF Process
  <2>2. k \in Cap /\ k.token = p.cap.token /\ k.left = Less(p.cap.left)
    BY <2>1, OwnershipConstants DEF Cap, Less
  <2>3. q \in Cap /\ q.token = p.prep.token /\ q.left = Less(p.prep.left)
    BY <2>1, OwnershipConstants DEF Cap, Less
  <2>4. due \in 0..PreparedTicks
    BY <2>1, OwnershipConstants DEF Less
  <2>5. cli'[d] = [p EXCEPT !.cap.left = Less(@), !.prep.left = Less(@), !.due = Less(@)]
    BY DEF Tick
  <2>6. cli'[d] = [p EXCEPT !.cap = k, !.prep = q, !.due = due]
    BY <2>1, <2>5 DEF Process
  <2> HIDE DEF p, k, q, due
  <2>7. cli'[d] \in Process /\ cli'[d].cap = k /\ cli'[d].prep = q /\ cli'[d].st = p.st
        /\ cli'[d].gate = p.gate /\ cli'[d].ask = p.ask
    BY <2>1, <2>2, <2>3, <2>4, <2>6 DEF Process
  <2> QED BY <2>2, <2>3, <2>7 DEF p
<1>4. cli' \in [Clients -> Process]
  BY <1>3 DEF Tick
<1>5. /\ lease' \in LeaseRecord
      /\ \/ lease.left > 1 /\ lease'.token = lease.token /\ lease'.client = lease.client /\ lease'.left = lease.left - 1
         \/ ~(lease.left > 1) /\ lease'.token = 0
  <2>1. lease \in LeaseRecord /\ NoLease \in LeaseRecord /\ NoLease.token = 0
    BY OwnershipConstants DEF TypeOK, NoLease, LeaseRecord
  <2> DEFINE l == [lease EXCEPT !.left = @ - 1]
  <2>2. lease.left > 1 => l \in LeaseRecord /\ l.token = lease.token /\ l.client = lease.client /\ l.left = lease.left - 1
    BY <2>1, OwnershipConstants DEF LeaseRecord
  <2>3. lease' = IF lease.left > 1 THEN l ELSE NoLease
    BY DEF Tick
  <2> HIDE DEF l
  <2> QED BY <2>1, <2>2, <2>3
<1>6. TypeOK'
  BY <1>1, <1>2, <1>4, <1>5 DEF TypeOK, RestOK
<1>7. ASSUME NEW d \in Clients PROVE ProcInv(cli'[d]) /\ Caps(d, cli'[d], lease', releases', nextToken')
  <2>1. /\ lease.token \in Nat /\ lease.left \in Nat /\ nextToken \in Nat /\ nextToken >= 1
        /\ cli[d].cap.token \in Nat /\ cli[d].cap.left \in Nat /\ cli[d].prep.token \in Nat /\ cli[d].prep.left \in Nat
    BY Numbers
  <2>2. ProcInv(cli'[d])
    BY <2>1, <1>3 DEF ProcInv, Less
  <2>3. OkCap(d, cli'[d].cap, lease', releases', nextToken')
    <3>1. OkCap(d, cli[d].cap, lease, releases, nextToken)
      BY DEF Caps
    <3> QED BY <3>1, <2>1, <1>1, <1>3, <1>5 DEF OkCap, Less
  <2>4. OkCap(d, cli'[d].prep, lease', releases', nextToken')
    <3>1. OkCap(d, cli[d].prep, lease, releases, nextToken)
      BY DEF Caps
    <3> QED BY <3>1, <2>1, <1>1, <1>3, <1>5 DEF OkCap, Less
  <2> QED BY <2>2, <2>3, <2>4 DEF Caps
<1>8. lease'.token < nextToken' /\ (Live' => conv' = "none")
  BY <1>1, <1>5, Numbers DEF Live
<1> QED BY <1>6, <1>7, <1>8

-----------------------------------------------------------------------------
(* The theorems.                                                           *)

\* The invariant holds when nobody has asked for the session yet.
LEMMA InitInv == Init => IInv
<1> SUFFICES ASSUME Init PROVE IInv
  OBVIOUS
<1>1. lease = NoLease /\ nextToken = 1 /\ NoLease \in LeaseRecord /\ NoLease.token = 0 /\ 1 \in 1..(MaxTokens + 1)
  BY OwnershipConstants DEF Init, NoLease, LeaseRecord
<1>2. RestOK
  <2>1. "none" \in Kinds \cup {"none"} /\ "free" \in {"free", "settling", "closed"} /\ FreshClient \in Clients
    BY OwnershipConstants
  <2>2. op \in [client : Clients, kind : Kinds \cup {"none"}, stage : {"free", "settling", "closed"}]
    BY <2>1 DEF Init, NoOp
  <2>3. releases \in SUBSET Tokens /\ orphans \in SUBSET [client : Clients, kind : Kinds, token : 0..MaxTokens]
    BY DEF Init
  <2>4. file \in BOOLEAN /\ conv \in {"none", "idle", "turn"}
    BY DEF Init
  <2>5. faults \in 0..MaxFaults
    BY OwnershipConstants DEF Init
  <2> QED BY <2>2, <2>3, <2>4, <2>5 DEF RestOK
<1>3. Away \in Process /\ ProcInv(Away) /\ Away.cap = NoCap /\ Away.prep = NoCap
  BY AwayFacts
<1>4. ASSUME NEW d \in Clients PROVE cli[d] \in Process /\ ProcInv(cli[d]) /\ cli[d].cap = NoCap /\ cli[d].prep = NoCap
  <2> DEFINE q == [Away EXCEPT !.st = "launcher"]
             r == [Away EXCEPT !.st = "away"]
  <2>1. Same(Away, q) /\ q.st = "launcher" /\ q.gate = Away.gate /\ q.ask = Away.ask
    BY <1>3, StateFacts DEF States
  <2>2. Same(Away, r) /\ r.st = "away" /\ r.gate = Away.gate /\ r.ask = Away.ask
    BY <1>3, StateFacts DEF States
  <2>3. cli[d] = Away \/ cli[d] = q \/ cli[d] = r
    BY DEF Init
  <2>4. NoCap.left = 0 /\ Away.gate = "none" /\ Away.ask = "none"
    BY DEF NoCap, Away
  <2> HIDE DEF q, r
  <2> QED BY <1>3, <2>1, <2>2, <2>3, <2>4 DEF Same, ProcInv
<1>5. cli \in [Clients -> Process]
  <2>1. CASE cli = [c \in Clients |-> Away]
    BY <2>1, <1>3
  <2>2. CASE cli = [c \in Clients |-> [Away EXCEPT !.st = IF c = FreshClient THEN "launcher" ELSE "away"]]
    <3>1. ASSUME NEW d \in Clients
          PROVE  [Away EXCEPT !.st = IF d = FreshClient THEN "launcher" ELSE "away"] \in Process
      <4>1. cli[d] = [Away EXCEPT !.st = IF d = FreshClient THEN "launcher" ELSE "away"]
        BY <2>2
      <4> QED BY <4>1, <1>4
    <3> QED BY <2>2, <3>1
  <2> QED BY <2>1, <2>2 DEF Init
<1>6. TypeOK
  BY <1>1, <1>2, <1>5 DEF TypeOK, RestOK
<1>7. \A d \in Clients : OkCap(d, NoCap, lease, releases, nextToken)
  BY <1>1, CapNone
<1> QED BY <1>1, <1>4, <1>6, <1>7 DEF IInv, Live, Caps

\* Every request, answer, timer, fault and writer keeps the invariant.
LEMMA NextInv == IInv /\ [Next]_vars => IInv'
<1> SUFFICES ASSUME IInv, [Next]_vars PROVE IInv'
  OBVIOUS
<1>1. ASSUME NEW c \in Clients, ClientStep(c) \/ ServeStep(c) PROVE IInv'
  BY <1>1, ClientStepInv, ServeStepInv
<1>2. ASSUME NEW r \in orphans, OrphanStep(r) PROVE IInv'
  BY <1>2, OrphanStepInv
<1>3. ASSUME NEW t \in releases, ServeRelease(t) PROVE IInv'
  BY <1>3, ServeReleaseInv
<1>4. CASE TakeoverStep \/ AgentdRestart \/ Tick
  BY <1>4, TakeoverStepInv, RestartInv, TickInv
<1>5. CASE OpenConversation \/ Dispatch \/ TurnEnds \/ CloseConversation
  BY <1>5, WriterInv
<1>6. CASE UNCHANGED vars
  <2>1. UNCHANGED <<lease, nextToken, cli, releases, conv>> /\ RestOK'
    BY <1>6, RestNow DEF vars, RestOK
  <2> QED BY <2>1, QuietInv DEF IInv
<1> QED BY <1>1, <1>2, <1>3, <1>4, <1>5, <1>6 DEF Next

\* The invariant holds always.
THEOREM Inductive == Spec => []IInv
<1>1. Init => IInv
  BY InitInv
<1>2. IInv /\ [Next]_vars => IInv'
  BY NextInv
<1> QED BY <1>1, <1>2, PTL DEF Spec

\* The ownership record, the tokens, the processes and the requests under way have
\* their types in every state.
THEOREM TypeCorrect == Spec => []TypeOK
<1>1. IInv => TypeOK
  BY DEF IInv
<1> QED BY <1>1, Inductive, PTL

\* A protected Pi process whose capability has time left, and whose token nobody
\* asked to release, holds agentd's only record, and agentd runs no turn on the
\* session (claimExternalSession, openConversation, the message handler).
THEOREM ProtectedAlone == Spec => []ProtectedIsAlone
<1>1. IInv => ProtectedIsAlone
  BY DEF IInv, ProtectedIsAlone, Caps, OkCap, Owns, Live
<1> QED BY <1>1, Inductive, PTL
=============================================================================
