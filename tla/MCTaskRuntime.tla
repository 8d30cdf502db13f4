----------------------------- MODULE MCTaskRuntime -----------------------------
(* A small instance of TaskRuntime for TLC: one Task that the scheduler, one      *)
(* remediation call and one user control work on, with one crash of the Node.     *)
EXTENDS TaskRuntime

CONSTANTS t1, r1, u1

MCTasks == {t1}
MCRemediators == {r1}
MCUsers == {u1}
=============================================================================
