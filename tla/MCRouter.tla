------------------------------ MODULE MCRouter ------------------------------
(* Small instances of Router: all sends on one session. *)
EXTENDS Router

CONSTANTS t1, t2, t3, s1, o1

OneSession == [t \in Sends |-> s1]
=============================================================================
