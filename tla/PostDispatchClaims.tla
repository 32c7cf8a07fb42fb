-------------------------- MODULE PostDispatchClaims --------------------------
(***************************************************************************)
(* What the repository's documentation and comments say of PostDispatch's  *)
(* behaviour and the code does not guarantee.  TLC refutes each on a small *)
(* instance; the README lists the counterexamples.                         *)
(***************************************************************************)
EXTENDS PostDispatch

\* docs/forum.md: an ambiguous transport outcome keeps the durable dispatch
\* "pending with the same ID, generation, and ordered contributors".  A
\* dispatch that agentd has accepted is not absorbed by a later post.
AcceptedKeepsIdentity ==
    [][\A p \in Posts : p \in accepted(branch) /\ Active(rows[p]) /\ gen' = gen
                          => rows'[p].status # "superseded"]_vars

\* docs/forum.md: "the complete ordered contributor set is retained in
\* provenance": a post that grouping superseded is a contributor of a row that
\* was not superseded itself.
ContributorsKept ==
    \A p \in Posts : rows[p].status = "superseded" /\ rows[p].generation = gen
        => \E q \in Posts : p \in rows[q].contributors
                               /\ rows[q].status # "superseded" /\ rows[q].generation = gen

\* echsBridge.ts, interruptTopic: "A concurrently delayed dispatch carries the
\* older generation and agentd rejects it".  Once a stop has been reported as
\* stopped, agentd accepts no dispatch of an older generation.
StopFencesDelayed ==
    [][\A p \in Posts, c \in Stops :
          stops[c].st \in {"done", "unasked"} /\ stops[c].state = "stopped"
            /\ p \notin accepted(branch) /\ p \in accepted(branch')
          => rows[p].generation >= stops[c].generation]_vars

\* docs/redeployment.md: "dispatch is fenced before agentd performs" the
\* cancellation, and a response says "proven-local `stopped`".  The forum shows
\* "stopped" only when the canonical session is fenced.
StoppedIsShownFenced == activity = "stopped" => fenceGeneration(branch) = gen

\* postDispatchService.ts: "do not claim or cross the robot boundary until
\* canonical cancellation is resolved".  Nothing is claimed while agentd holds
\* the current generation's cancellation as unresolved.
UnresolvedStopHolds ==
    [][canc[gen] \in Unresolved => ~(worker.pc = "idle" /\ worker'.pc = "opening")]_vars

\* postDispatchService.ts: "Agentd marks only failures proven to precede
\* prompt-dispatch acceptance".  An answer that says "not accepted" is true.
NotAcceptedIsTrue ==
    worker.reply \in {"refused", "refusedSafe"} => worker.post \notin accepted(branch)
=============================================================================
