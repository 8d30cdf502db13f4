----------------------------- MODULE MCRunSupervisor -----------------------------
(* A small instance of RunSupervisor for TLC: two Runs, started, stopped and   *)
(* shut down at any time.                                                      *)
EXTENDS RunSupervisor

CONSTANTS r1, r2

MCRuns == {r1, r2}
=============================================================================
