----------------------- MODULE MCAssistantProjection -----------------------
EXTENDS AssistantProjection
CONSTANTS m1, m2, a, b
ref(e, k, s) == [entry |-> e, kind |-> k, src |-> s]

(* The first message names a source twice and an artifact, the second one  *)
(* competes for the source.                                                *)
MCRefs ==
    [m \in Messages |->
        IF m = m1 THEN <<ref(1, "structured", a), ref(2, "marker", a), ref(3, "artifact", b)>>
        ELSE <<ref(1, "structured", a)>>]

(* One message with two attachments, one without.                          *)
MCTwoRefs ==
    [m \in Messages |->
        IF m = m1 THEN <<ref(1, "structured", a), ref(2, "artifact", b)>> ELSE <<>>]
(* dedupeAttachmentHandoffs, over every list of at most three references:  *)
(* no two of those it keeps share an entry, or a pending attachment.       *)
ASSUME \A k \in 0..3 :
         \A refs \in [1..k -> [entry : 1..2, kind : Kinds, src : {a, b}]] :
           LET kept == Dedupe(refs) IN
             /\ kept \subseteq 1..k
             /\ \A i, j \in kept :
                  \/ refs[i].entry = refs[j].entry
                  \/ refs[i].src = refs[j].src /\ "artifact" \notin {refs[i].kind, refs[j].kind}
                  => i = j
=============================================================================
