--------------------------- MODULE DispatchDelivery ---------------------------
(***************************************************************************)
(* What forum and agentd together promise of the posts of a topic, seen    *)
(* from the canonical session: each is delivered at most once, and none    *)
(* after a stop of a later generation has been served.  PostDispatch       *)
(* implements it with retries, claims, crashes and late requests.          *)
(***************************************************************************)
EXTENDS Integers

CONSTANT Dispatches

VARIABLES
    delivered,  \* the posts whose prompt has been run, each with its generation
    fence       \* the generation below which nothing is delivered any more

Init == delivered = {} /\ fence = 0

\* A delivery moves the fence to the generation of the post.
Deliver(d) ==
    /\ \A x \in delivered : x[1] # d
    /\ fence' \in Nat /\ fence' >= fence
    /\ delivered' = delivered \cup {<<d, fence'>>}

Stop ==
    /\ fence' \in Nat /\ fence' > fence
    /\ UNCHANGED delivered

Next == Stop \/ \E d \in Dispatches : Deliver(d)

Spec == Init /\ [][Next]_<<delivered, fence>>
=============================================================================
