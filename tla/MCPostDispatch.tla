-------------------------- MODULE MCPostDispatch --------------------------
(* Instance for TLC.  A dispatch id is the number of its post. *)
EXTENDS PostDispatchClaims

MCDispatches == 1..MaxPosts
===========================================================================
