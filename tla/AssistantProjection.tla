------------------------ MODULE AssistantProjection ------------------------
(***************************************************************************)
(* How the robot's canonical messages of one session become posts of one   *)
(* topic: rows of assistant_projections, the handoff of the attachments a  *)
(* message refers to, and the callback that announces a post (to the       *)
(* Director, to the web clients).                                          *)
(*                                                                         *)
(* Three passes of the forum work on the same rows: "live" projects what   *)
(* the stream or the history brings, one message after the other; "sync"   *)
(* projects what the session export holds, without a callback; "due" is    *)
(* the two-second timer and, first of all, the recovery at startup.  Every *)
(* SQLite transaction is one action and the process may die between any    *)
(* two of them.  A claim token is the pass that holds the claim; a claim   *)
(* whose process died has the token "dead" until its lease is over, then   *)
(* "stale".                                                                *)
(***************************************************************************)
EXTENDS Naturals, Sequences, FiniteSets, SequencesExt

CONSTANTS
    Messages,       \* canonical assistant messages of the session
    Refs,           \* the attachment references of a message, in order
    Sources,        \* pending attachments
    MaxTries,       \* claims after which a failure is terminal (RETRY_MS.length + 1)
    MaxFaults,      \* bound on crashes and failing callbacks
    None

Passes == {"live", "sync", "due"}
Kinds == {"structured", "marker", "artifact"}

ASSUME ProjectionConstants ==
    /\ Refs \in [Messages -> Seq([entry : Nat, kind : Kinds, src : Sources])]
    /\ MaxTries \in Nat \ {0} /\ MaxFaults \in Nat /\ None \notin Messages

(***************************************************************************)
(* The references that become handoffs: one per entry, and one per pending *)
(* attachment, a structured reference before a compatibility marker.  An   *)
(* artifact names a path and has no pending attachment yet.                *)
(***************************************************************************)
Dedupe(refs) ==
    LET named(i) == refs[i].kind # "artifact"
        better(i) == refs[i].kind = "marker"
                     /\ \E j \in DOMAIN refs : refs[j].kind = "structured" /\ refs[j].src = refs[i].src
        keep(kept, i) ==
            IF \/ \E j \in kept : refs[j].entry = refs[i].entry
               \/ named(i) /\ (better(i) \/ \E j \in kept : named(j) /\ refs[j].src = refs[i].src)
            THEN kept ELSE kept \cup {i}
    IN FoldLeft(keep, {}, [i \in DOMAIN refs |-> i])

Handoffs == UNION {{<<m, i>> : i \in Dedupe(Refs[m])} : m \in Messages}
Of(h) == h[1]
Ref(h) == Refs[h[1]][h[2]]
Src(h) == Ref(h).src
OwnHandoffs(m) == {h \in Handoffs : Of(h) = m}

(***************************************************************************)
(* No two handoffs of a message are of one source: of a pending attachment *)
(* because Dedupe leaves one reference to it, of an artifact because       *)
(* stageLegacyArtifact makes a pending attachment of its own for each.     *)
(***************************************************************************)
ASSUME HandoffsAreKeyed ==
    /\ \A m \in Messages : Dedupe(Refs[m]) \subseteq DOMAIN Refs[m]
    /\ \A h, g \in Handoffs : Of(h) = Of(g) /\ Src(h) = Src(g) => h = g

VARIABLES
    order,      \* the messages that have a row, by rowid
    proj,       \* assistant_projections
    hand,       \* attachment_handoffs
    pend,       \* pending_attachments: "staged", or "gone" when there is no row
    resv,       \* pending_attachment_reservations: the message that owns the source
    pubs,       \* the posts, in the order they became visible
    attached,   \* how many attachment rows were made of a source
    notes,      \* callbacks begun for a message
    pass,       \* the passes in progress
    recover,    \* messages the startup recovery has yet to look at
    faults

store == <<order, proj, hand, pend, resv, pubs, attached>>
vars == <<store, notes, pass, recover, faults>>

Tokens == Passes \cup {"none", "dead", "stale"}
Idle == [at |-> "idle", todo |-> {}, h |-> None, m |-> None]

ProjectionRow == [st : {"absent", "pending", "linking", "failed", "review", "projected"},
                  payload : BOOLEAN, cst : 0..2, tok : Tokens]
HandoffRow == [st : {"absent", "pending", "linking", "failed", "review", "linked"},
               tok : Tokens, ripe : BOOLEAN, tries : 0..MaxTries]
Pass == [at : {"idle", "links", "staging", "deliver", "callback"}, todo : SUBSET Handoffs,
         h : Handoffs \cup {None}, m : Messages \cup {None}]

TypeOK ==
    /\ order \in Seq(Messages) /\ pubs \in Seq(Messages)
    /\ proj \in [Messages -> ProjectionRow] /\ hand \in [Handoffs -> HandoffRow]
    /\ pend \in [Sources -> {"staged", "gone"}] /\ resv \in [Sources -> Messages \cup {None}]
    /\ attached \in [Sources -> Nat] /\ notes \in [Messages -> Nat]
    /\ pass \in [Passes -> Pass]
    /\ recover \subseteq Messages /\ faults \in 0..MaxFaults

Init ==
    /\ order = <<>> /\ pubs = <<>>
    /\ proj = [m \in Messages |-> [st |-> "absent", payload |-> FALSE, cst |-> 0, tok |-> "none"]]
    /\ hand = [h \in Handoffs |-> [st |-> "absent", tok |-> "none", ripe |-> TRUE, tries |-> 0]]
    /\ pend = [s \in Sources |->
                IF \E h \in Handoffs : Src(h) = s /\ Ref(h).kind = "artifact" THEN "gone" ELSE "staged"]
    /\ resv = [s \in Sources |-> None] /\ attached = [s \in Sources |-> 0]
    /\ notes = [m \in Messages |-> 0]
    /\ pass = [x \in Passes |-> Idle] /\ recover = {} /\ faults = 0

Rank(m) == CHOOSE i \in DOMAIN order : order[i] = m
Earlier(m) == {order[i] : i \in 1..(Rank(m) - 1)}
Rows == Range(order)
Incomplete == {m \in Rows : proj[m].st \in {"pending", "linking", "failed"}}
First(ms) == CHOOSE m \in ms : \A n \in ms : Rank(m) <= Rank(n)
FirstHandoff(hs) ==
    CHOOSE h \in hs : \A g \in hs : \/ Rank(Of(h)) < Rank(Of(g))
                                    \/ Of(h) = Of(g) /\ h[2] <= g[2]
Open(h) == hand[h].st \in {"pending", "failed"}

-----------------------------------------------------------------------------
(* Beginning a projection.                                                 *)

Adopted_LeavesState(row) == [row EXCEPT !.payload = TRUE]                              \* Mutant

(* A row that had no callback yet gets the one this call brings.           *)
Adopted(row) ==
    IF row.payload THEN row
    ELSE [row EXCEPT !.payload = TRUE, !.cst = IF row.st = "projected" THEN 1 ELSE @]

(* project: beginAssistantProjection, then processProjection lists the     *)
(* handoffs of the row.  That a row without handoffs is finalized at once  *)
(* is the finalization which follows in the same pass.  A repeated call    *)
(* that brings nothing new only does what the next due pass does, and is   *)
(* left to it.                                                             *)
project(x, m) ==
    /\ pass[x].at = "idle" /\ x \in {"live", "sync"}
    /\ proj[m].st = "absent" \/ (x = "live" /\ ~proj[m].payload)
    /\ IF proj[m].st = "absent"
         THEN /\ order' = Append(order, m)
              /\ proj' = [proj EXCEPT ![m].st = IF OwnHandoffs(m) = {} THEN "pending" ELSE "linking",
                                      ![m].payload = (x = "live")]
              /\ hand' = [h \in Handoffs |-> IF Of(h) = m THEN [hand[h] EXCEPT !.st = "pending"] ELSE hand[h]]
         ELSE /\ proj' = [proj EXCEPT ![m] = IF x = "live" THEN Adopted(@) ELSE @]
              /\ UNCHANGED <<order, hand>>
    /\ pass' = [pass EXCEPT ![x].at = "links",
                            ![x].todo = {h \in OwnHandoffs(m) : hand'[h].st \notin {"linked", "review"}}]
    /\ UNCHANGED <<pend, resv, pubs, attached, notes, recover, faults>>

(* recover: processProjection of one row that was incomplete at startup.   *)
Recover ==
    /\ pass["due"].at = "idle" /\ recover # {}
    /\ LET m == First(recover) IN
         /\ recover' = recover \ {m}
         /\ pass' = [pass EXCEPT !["due"].at = "links",
                                 !["due"].todo = {h \in OwnHandoffs(m) : hand[h].st \notin {"linked", "review"}}]
    /\ UNCHANGED <<store, notes, faults>>

Reclaimable_AnyClaim(tok) == tok # "none"                                              \* Mutant

(* A lease that ran out and is not held by a pass of this process.         *)
Reclaimable(tok) == tok = "stale"

(* reclaimStaleAttachmentHandoffs.                                         *)
ReclaimedHandoffs(h) ==
    IF hand[h].st = "linking" /\ Reclaimable(hand[h].tok)
    THEN [hand[h] EXCEPT !.st = "failed", !.tok = "none", !.ripe = TRUE] ELSE hand[h]

(* reclaimStaleAssistantProjectionCompletions.                             *)
ReclaimedCompletions(m) ==
    IF proj[m].cst = 2 /\ Reclaimable(proj[m].tok)
    THEN [proj[m] EXCEPT !.cst = 1, !.tok = "none"] ELSE proj[m]

(* runDue: stale claims are taken back, then the due handoffs are listed.  *)
runDue ==
    /\ pass["due"].at = "idle" /\ recover = {} /\ order # <<>>
    /\ hand' = [h \in Handoffs |-> ReclaimedHandoffs(h)]
    /\ proj' = [m \in Messages |-> ReclaimedCompletions(m)]
    /\ pass' = [pass EXCEPT !["due"].at = "links",
            !["due"].todo = {h \in Handoffs : hand'[h].st \in {"pending", "failed"} /\ hand'[h].ripe}]
    /\ UNCHANGED <<order, pend, resv, pubs, attached, notes, recover, faults>>

-----------------------------------------------------------------------------
(* Attachment custody.                                                     *)

(* Tries are counted up to MaxTries; beyond it nothing depends on them.    *)
Least(n) == IF n < MaxTries THEN n ELSE MaxTries

Owner_Replaces(h) == Of(h)                                                              \* Mutant

(* reservePendingAttachment: who owns the source once h asked for it.      *)
Owner(h) == IF resv[Src(h)] = None THEN Of(h) ELSE resv[Src(h)]

(* markAttachmentReservationConflict.                                      *)
Conflict(h) ==
    /\ hand' = [hand EXCEPT ![h].st = "review", ![h].tok = "none"]
    /\ proj' = [proj EXCEPT ![Of(h)].st = "review"]

(* claimAttachmentHandoff on the next handoff of the pass's list.          *)
claimAttachmentHandoff(x) ==
    /\ pass[x].at = "links" /\ pass[x].todo # {}
    /\ LET h == FirstHandoff(pass[x].todo)
           claimed == [hand[h] EXCEPT !.st = "linking", !.tok = x, !.tries = Least(@ + 1)]
           named == Ref(h).kind # "artifact"
           owner == IF named /\ pend[Src(h)] = "staged" THEN Owner(h) ELSE resv[Src(h)]
           rest == [pass EXCEPT ![x].todo = @ \ {h}]
       IN IF ~(Open(h) /\ hand[h].ripe)
            THEN pass' = rest /\ UNCHANGED store
            ELSE /\ resv' = IF named THEN [resv EXCEPT ![Src(h)] = owner] ELSE resv
                 /\ IF named /\ owner \notin {None, Of(h)}
                      THEN /\ hand' = [hand EXCEPT ![h] = [claimed EXCEPT !.st = "review", !.tok = "none"]]
                           /\ proj' = [proj EXCEPT ![Of(h)].st = "review"]
                           /\ pass' = rest
                      ELSE /\ hand' = [hand EXCEPT ![h] = claimed]
                           /\ pass' = [rest EXCEPT ![x].at = "staging", ![x].h = h]
                           /\ UNCHANGED proj
                 /\ UNCHANGED <<order, pend, pubs, attached>>
    /\ UNCHANGED <<notes, recover, faults>>

Claims(x) == hand[pass[x].h].st = "linking" /\ hand[pass[x].h].tok = x
BackToLinks(x) == pass' = [pass EXCEPT ![x].at = "links", ![x].h = None]

(* processClaim succeeds: the bytes validate (an artifact has been staged) *)
(* and completeAttachmentHandoff reserves and links.                       *)
completeAttachmentHandoff(x) ==
    /\ pass[x].at = "staging"
    /\ LET h == pass[x].h IN
         /\ Ref(h).kind = "artifact" \/ pend[Src(h)] = "staged"
         /\ pend' = [pend EXCEPT ![Src(h)] = "staged"]
         /\ resv' = IF Claims(x) THEN [resv EXCEPT ![Src(h)] = Owner(h)] ELSE resv
         /\ IF ~Claims(x) THEN UNCHANGED <<hand, proj>>
            ELSE IF Owner(h) # Of(h) THEN Conflict(h)
            ELSE hand' = [hand EXCEPT ![h].st = "linked", ![h].tok = "none"] /\ UNCHANGED proj
    /\ BackToLinks(x)
    /\ UNCHANGED <<order, pubs, attached, notes, recover, faults>>

(* processClaim fails and failAttachmentHandoff records it: for good when  *)
(* the source is missing, expired or does not match, or the tries are used *)
(* up; else to be retried after a delay.                                   *)
failAttachmentHandoff(x) ==
    /\ pass[x].at = "staging"
    /\ LET h == pass[x].h
           missing == Ref(h).kind # "artifact" /\ pend[Src(h)] = "gone"
       IN IF ~Claims(x) THEN UNCHANGED <<hand, proj>>
          ELSE \E terminal \in {TRUE} \cup {missing \/ hand[h].tries = MaxTries} :
                 /\ hand' = [hand EXCEPT ![h].st = IF terminal THEN "review" ELSE "failed",
                                         ![h].tok = "none", ![h].ripe = terminal]
                 /\ proj' = [proj EXCEPT ![Of(h)].st = IF terminal THEN "review" ELSE "failed"]
    /\ BackToLinks(x)
    /\ UNCHANGED <<order, pend, resv, pubs, attached, notes, recover, faults>>

(* The retry delay of a handoff is over.                                   *)
Ripen(h) ==
    /\ hand[h].st = "failed" /\ ~hand[h].ripe
    /\ hand' = [hand EXCEPT ![h].ripe = TRUE]
    /\ UNCHANGED <<order, proj, pend, resv, pubs, attached, notes, pass, recover, faults>>

Protected_Unlinked(s) ==                                                               \* Mutant
    \E h \in Handoffs : Src(h) = s /\ hand[h].st \in {"pending", "linking", "failed", "review"}

(* What deleteExpiredPendingAttachments leaves alone.                      *)
Protected(s) ==
    \/ resv[s] # None
    \/ \E h \in Handoffs : /\ Src(h) = s /\ Ref(h).kind # "artifact"
                           /\ hand[h].st \in {"pending", "linking", "failed", "review"}

(* A pending attachment expires and housekeeping deletes it.               *)
deleteExpiredPendingAttachments(s) ==
    /\ pend[s] = "staged" /\ ~Protected(s)
    /\ pend' = [pend EXCEPT ![s] = "gone"]
    /\ UNCHANGED <<order, proj, hand, resv, pubs, attached, notes, pass, recover, faults>>

-----------------------------------------------------------------------------
(* Publication and callbacks.                                              *)

AllLinked(m) == \A h \in OwnHandoffs(m) : hand[h].st = "linked"

Finalizable_AnyOrder(m) == m \in Incomplete /\ AllLinked(m)                             \* Mutant
(* finalizeAssistantProjection publishes: no earlier row is incomplete,    *)
(* and every handoff is linked.                                            *)
Finalizable(m) == m \in Incomplete /\ AllLinked(m) /\ Earlier(m) \cap Incomplete = {}

(* One row of finalizeReadyProjections, in rowid order.                    *)
finalizeAssistantProjection(x) ==
    /\ pass[x].at = "links" /\ pass[x].todo = {} /\ \E m \in Messages : Finalizable(m)
    /\ LET m == First({n \in Messages : Finalizable(n)})
           made(s) == Cardinality({h \in OwnHandoffs(m) : Src(h) = s})
       IN /\ pubs' = Append(pubs, m)
          /\ attached' = [s \in Sources |-> attached[s] + made(s)]
          /\ pend' = [s \in Sources |-> IF made(s) > 0 THEN "gone" ELSE pend[s]]
          /\ proj' = [proj EXCEPT ![m].st = "projected", ![m].tok = "none",
                                  ![m].cst = IF proj[m].payload THEN 1 ELSE 0]
    /\ UNCHANGED <<order, hand, resv, notes, pass, recover, faults>>

Claimable(m) ==
    /\ proj[m].st = "projected" /\ proj[m].cst = 1
    /\ \A n \in Earlier(m) : ~(proj[n].st = "projected" /\ proj[n].cst \in {1, 2})

(* deliverPendingCompletions, once nothing is left to finalize: claim the  *)
(* first callback that may run, or end the pass.                           *)
claimAssistantProjectionCompletion(x) ==
    /\ \/ pass[x].at = "deliver"
       \/ pass[x].at = "links" /\ pass[x].todo = {} /\ \A m \in Messages : ~Finalizable(m)
    /\ IF \E m \in Rows : Claimable(m)
         THEN LET m == First({n \in Rows : Claimable(n)}) IN
                /\ proj' = [proj EXCEPT ![m].cst = 2, ![m].tok = x]
                /\ notes' = [notes EXCEPT ![m] = @ + 1]
                /\ pass' = [pass EXCEPT ![x].at = "callback", ![x].m = m]
         ELSE pass' = [pass EXCEPT ![x] = Idle] /\ UNCHANGED <<proj, notes>>
    /\ UNCHANGED <<order, hand, pend, resv, pubs, attached, recover, faults>>

Settled(x, cst) ==
    LET m == pass[x].m
    IN proj' = [proj EXCEPT ![m] = IF @.cst = 2 /\ @.tok = x THEN [@ EXCEPT !.cst = cst, !.tok = "none"] ELSE @]

(* The callback returned; the pass looks for the next one.                 *)
completeAssistantProjectionCompletion(x) ==
    /\ pass[x].at = "callback" /\ Settled(x, 0)
    /\ pass' = [pass EXCEPT ![x].at = "deliver", ![x].m = None]
    /\ UNCHANGED <<order, hand, pend, resv, pubs, attached, notes, recover, faults>>

(* The callback threw; the pass ends.                                      *)
releaseAssistantProjectionCompletion(x) ==
    /\ pass[x].at = "callback" /\ faults < MaxFaults /\ Settled(x, 1)
    /\ pass' = [pass EXCEPT ![x] = Idle]
    /\ faults' = faults + 1
    /\ UNCHANGED <<order, hand, pend, resv, pubs, attached, notes, recover>>

-----------------------------------------------------------------------------
(* The forum dies and starts again.                                        *)
Crash ==
    /\ faults < MaxFaults /\ faults' = faults + 1
    /\ hand' = [h \in Handoffs |-> [hand[h] EXCEPT !.tok = IF @ \in Passes THEN "dead" ELSE @]]
    /\ proj' = [m \in Messages |-> [proj[m] EXCEPT !.tok = IF @ \in Passes THEN "dead" ELSE @]]
    /\ pass' = [x \in Passes |-> Idle]
    /\ recover' = Incomplete
    /\ UNCHANGED <<order, pend, resv, pubs, attached, notes>>

(* The lease of a dead process's claim is over.                            *)
LeaseEnds ==
    /\ \/ \E h \in Handoffs : /\ hand[h].tok = "dead" /\ hand' = [hand EXCEPT ![h].tok = "stale"]
                              /\ UNCHANGED proj
       \/ \E m \in Messages : /\ proj[m].tok = "dead" /\ proj' = [proj EXCEPT ![m].tok = "stale"]
                              /\ UNCHANGED hand
    /\ UNCHANGED <<order, pend, resv, pubs, attached, notes, pass, recover, faults>>

Work(x) ==
    \/ claimAttachmentHandoff(x) \/ completeAttachmentHandoff(x) \/ failAttachmentHandoff(x)
    \/ finalizeAssistantProjection(x) \/ claimAssistantProjectionCompletion(x)
    \/ completeAssistantProjectionCompletion(x)

Next ==
    \/ \E x \in Passes, m \in Messages : project(x, m)
    \/ Recover \/ runDue
    \/ \E x \in Passes : Work(x) \/ releaseAssistantProjectionCompletion(x)
    \/ \E h \in Handoffs : Ripen(h)
    \/ \E s \in Sources : deleteExpiredPendingAttachments(s)
    \/ Crash \/ LeaseEnds

Spec == Init /\ [][Next]_vars

(***************************************************************************)
(* The timer runs, a pass goes on (the artifact request and the Director   *)
(* have timeouts), delays and leases end.  Nothing is assumed of arrivals. *)
(***************************************************************************)
FairSpec ==
    /\ Spec
    /\ WF_vars(Recover \/ runDue)
    /\ WF_vars(LeaseEnds \/ \E h \in Handoffs : Ripen(h))
    /\ \A x \in Passes : WF_vars(Work(x))

-----------------------------------------------------------------------------
(* A handoff was given up on, then another one of the same row failed: the *)
(* row says "failed", is never finalized, and holds back what came later.  *)
Torn(m) == proj[m].st = "failed" /\ \E h \in OwnHandoffs(m) : hand[h].st = "review"

(***************************************************************************)
(* Posts become visible, and are announced, in the order their messages    *)
(* arrived, each once; a message that came earlier is by then published,   *)
(* left for review or torn, whichever of the three passes finalizes and    *)
(* whatever is retried in between (finalizeAssistantProjection).           *)
(***************************************************************************)
PostsInArrivalOrder ==
    /\ \A i, j \in DOMAIN pubs : i < j => Rank(pubs[i]) < Rank(pubs[j])
    /\ \A m \in Range(pubs) : \A n \in Earlier(m) : n \notin Incomplete \/ Torn(n)

(***************************************************************************)
(* A source becomes one attachment of one post, of the message that        *)
(* reserved it, and a visible post has all of its attachments: no two      *)
(* projections, retries or restarts make a second one.                     *)
(***************************************************************************)
AttachedOnce ==
    /\ \A s \in Sources : attached[s] <= 1
    /\ \A h \in Handoffs : Of(h) \in Range(pubs) => attached[Src(h)] = 1 /\ resv[Src(h)] = Of(h)

(***************************************************************************)
(* While a projection waits for its publication, every handoff that is     *)
(* linked still has its source and its reservation, so that finalization   *)
(* does not find custody lost (it would throw, and every later post and    *)
(* callback would wait behind it).                                         *)
(***************************************************************************)
LinkedKeepsCustody ==
    \A h \in Handoffs :
        hand[h].st = "linked" /\ Of(h) \notin Range(pubs)
            => pend[Src(h)] = "staged" /\ resv[Src(h)] = Of(h)

(***************************************************************************)
(* A callback is begun again only after the forum died or the callback     *)
(* failed: the three passes never announce the same post twice by racing.  *)
(***************************************************************************)
NotifiedOnce == \A m \in Messages : notes[m] <= 1 + faults

Done(m) ==
    \/ proj[m].st = "review"
    \/ proj[m].st = "projected" /\ (proj[m].payload => notes[m] > 0 /\ proj[m].cst = 0)

(***************************************************************************)
(* Once messages have arrived, there comes a time when each is published   *)
(* and announced (also one that the session export had projected before    *)
(* the stream brought its callback) or left for review: no lease, retry,   *)
(* crash or race leaves one pending, unless it or one before it is torn.   *)
(***************************************************************************)
MessagesSettle == order # <<>> ~> \A m \in Rows : Done(m) \/ \E n \in Earlier(m) \cup {m} : Torn(n)

(***************************************************************************)
(* docs/forum.md: "Terminal `needs_manual_review` projections are a        *)
(* documented projection gap/anomaly and do not deadlock later canonical   *)
(* items": every row is eventually published or left for review.           *)
(***************************************************************************)
GapsDoNotBlock == order # <<>> ~> \A m \in Rows : proj[m].st \in {"projected", "review"}
=============================================================================
