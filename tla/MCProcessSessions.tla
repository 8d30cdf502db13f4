--------------------------- MODULE MCProcessSessions ---------------------------
(* A small instance of ProcessSessions for TLC: two callers race on one session. *)
(* Sessions meet only in the tables, entry by entry, so one of them, on a pty,   *)
(* shows every interleaving of its threads with two callers and with pruning.    *)
EXTENDS ProcessSessions

CONSTANTS s1, c1, c2

MCSessions == {s1}
MCCallers == {c1, c2}
MCPty == {s1}
MCVisible == {c1, c2} \X {s1}
=============================================================================
