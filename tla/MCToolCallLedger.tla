---------------------------- MODULE MCToolCallLedger ----------------------------
(* A small instance of ToolCallLedger for TLC: three attempts of one tool call,   *)
(* in sequence or at once, with one crash of the Node.                            *)
EXTENDS ToolCallLedger

CONSTANTS k1, a1, a2, a3

MCKeys == {k1}
MCAttempts == {a1, a2, a3}
MCKeyOf == [a \in MCAttempts |-> k1]
=============================================================================
