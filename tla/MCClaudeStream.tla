--------------------------- MODULE MCClaudeStream ---------------------------
(* Small instances of ClaudeStream. *)
EXTENDS ClaudeStream

CONSTANTS r1, r2, r3, s1, s2
=============================================================================
