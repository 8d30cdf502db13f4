------------------------------ MODULE MCRunEvents ------------------------------
(* A small instance of RunEvents for TLC: two clients follow a Run of three       *)
(* events and connections break twice.                                            *)
EXTENDS RunEvents

CONSTANTS c1, c2

MCClients == {c1, c2}
=============================================================================
