------------------------------ MODULE MCAutomations ------------------------------
(* A small instance of Automations for TLC: two triggers, of one occurrence or of *)
(* two, a limit of one run and one crash.                                         *)
EXTENDS Automations

CONSTANTS t1, t2, r1, r2

MCTriggers == {t1, t2}
MCRuns == {r1, r2}
=============================================================================
