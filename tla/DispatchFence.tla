---------------------------- MODULE DispatchFence ----------------------------
(***************************************************************************)
(* agentd's dispatch fence (dispatch-fence.mjs): custom entries appended   *)
(* to the branch of a canonical Pi session.  The branch is durable, so the *)
(* fence is what survives a restart of agentd or of the forum.  Only the   *)
(* fence entries of the branch are modelled, and of each only what         *)
(* readDispatchFence uses: its kind, its generation and the dispatch id.   *)
(***************************************************************************)
EXTENDS Integers, Sequences

CONSTANTS
    Dispatches,     \* dispatch ids
    NoDispatch      \* the dispatchId an interrupt-fence entry does not have

ASSUME NoDispatchIsNone == NoDispatch \notin Dispatches

Entry == [kind : {"dispatch-accepted"}, dispatchId : Dispatches, generation : Nat]
           \cup [kind : {"interrupt-fence"}, dispatchId : {NoDispatch}, generation : Nat]

\* readDispatchFence(...).accepted
accepted(branch) ==
    {d \in Dispatches :
        \E i \in DOMAIN branch : branch[i].kind = "dispatch-accepted" /\ branch[i].dispatchId = d}

\* readDispatchFence(...).generation: the largest one of the branch, or 0.
fenceGeneration(branch) ==
    CHOOSE g \in {0} \cup {branch[i].generation : i \in DOMAIN branch} :
        \A i \in DOMAIN branch : branch[i].generation <= g

\* Mutant: an accepted identity is not remembered.
inspectDispatch_NoDuplicates(branch, dispatchId, generation) ==
    IF generation < fenceGeneration(branch) THEN "stale" ELSE "ready"

\* Mutant: a dispatch behind the fence is let through.
inspectDispatch_NoFence(branch, dispatchId, generation) ==
    IF dispatchId \in accepted(branch) THEN "duplicate" ELSE "ready"

\* An accepted identity is a duplicate whatever its generation; another one
\* behind the fence is stale.
inspectDispatch(branch, dispatchId, generation) ==
    CASE dispatchId \in accepted(branch) -> "duplicate"
      [] dispatchId \notin accepted(branch) /\ generation < fenceGeneration(branch) -> "stale"
      [] OTHER -> "ready"

\* What acceptDispatch appends for a dispatch that inspects "ready".
acceptDispatch(branch, dispatchId, generation) ==
    Append(branch, [kind |-> "dispatch-accepted", dispatchId |-> dispatchId,
                    generation |-> generation])

\* Mutant: a stop that does not move the fence is reported as one that did.
advanceDispatchFence_Noop(branch, generation) == branch

advanceDispatchFence(branch, generation) ==
    IF generation <= fenceGeneration(branch) THEN branch
    ELSE Append(branch, [kind |-> "interrupt-fence", dispatchId |-> NoDispatch,
                         generation |-> generation])
=============================================================================
