--------------------------------- MODULE MCGoals ---------------------------------
(* A small instance of Goals for TLC: a session with one Goal and two Runs, each  *)
(* with up to two invocations; the user and the Agents undertake two things in    *)
(* all, which is enough for two transitions to meet, or for one to meet a retry,  *)
(* a plan that is moved or a completion that is asked for; one crash.             *)
EXTENDS Goals, TLC

CONSTANTS g1, r1, r2

MCGoalIds == {g1}
MCRuns == {r1, r2}
MCAgentTargets == {"waiting"}
MCSymmetry == Permutations(MCRuns)
=============================================================================
