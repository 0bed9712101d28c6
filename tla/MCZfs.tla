------------------------------- MODULE MCZfs --------------------------------
(* Small instances of ZfsStore for TLC. *)
EXTENDS ZfsStore

CONSTANTS k1, k2, d1, v1, v2, b1, b2, m1, c1, c2

\* Nothing goes wrong, or a few things do.
CalmAndRough == {{}, {"overlap"}, {"busy"}, {"crash", "io", "busy"}}
Calm == {{}}
=============================================================================
