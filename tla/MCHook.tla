------------------------------- MODULE MCHook -------------------------------
(* Small instances of Hook. *)
EXTENDS Hook, TLC

CONSTANTS r1, r2, r3, c1, s1, p1, p2

\* Two requests of one tool call; the third has no tool use id.
OneCall == [r \in Requests |-> IF r = r3 THEN None ELSE c1]
OneSession == [r \in Requests |-> s1]

=============================================================================
