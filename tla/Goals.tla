---------------------------------- MODULE Goals ----------------------------------
(***************************************************************************)
(* The Goals of one session: GoalStore in                                  *)
(* src/openppx/runtime/goal_store.py, the Actions of a user on it in       *)
(* src/openppx/control_plane/goal_actions.py, and the worker threads of    *)
(* Runs in src/openppx/runtime/node_runtime.py.                            *)
(*                                                                         *)
(* A Goal is a row and its TaskFlow another.  Two GoalStore objects, with  *)
(* a lock each, work on the same database, so only the statements of one   *)
(* transaction are together: between a read and the update that rests on   *)
(* it, and between the two transactions of a transition, anybody comes in. *)
(* What a writer relies on is the revision of the row it has read.  Here a *)
(* revision is who may still rely on it: a write of a row takes it from    *)
(* everybody who has read the row.                                         *)
(***************************************************************************)
EXTENDS Naturals

CONSTANTS
    GoalIds,           \* the Goals the session may have, one after the other
    Runs,              \* Runs of the session; nothing keeps them one at a time
    User,              \* the user, with one Action at a time
    None,              \* "no Goal", "no Run" and "no invocation"
    AgentTargets,      \* bound: the statuses the tool update_goal is called with
    MaxActs,           \* bound: what the user and the Agents undertake
    MaxContinuations,  \* of the budget policy
    MaxCrashes         \* bound: crashes of the Node

Actors == Runs \cup {User}
Invocations == Runs \X (0..MaxContinuations)

ASSUME GoalAssumption ==
    /\ MaxActs \in Nat /\ MaxContinuations \in Nat /\ MaxCrashes \in Nat
    /\ User \notin Runs
    /\ None \notin GoalIds \cup Runs \cup Invocations

VARIABLES
    \* goals and task_flows
    goal,          \* status of a Goal; "none" without a row
    flow,          \* status of its TaskFlow, as far as the code tells them apart
    pending,       \* recovery_state.pendingCompletion: the invocation that asked
    \* transition_goal, retry_blocked_step and request_completion
    op,            \* where an actor is in one of them, with the Goal whose row it
                   \* has read and the status it is bringing the Goal to
    goalSeen,      \* actors that may rely on the revision of the Goal's row
    flowSeen,      \* actors that may rely on the revision of the Flow's row
    run,           \* the worker thread of a Run and its local variables
    \* history
    byRun,         \* Goals that a Run's success completed
    torn,          \* Goals of which a transition lost its second half
    acts, crashes

rowVars == <<goal, flow, pending>>
opVars == <<op, goalSeen, flowSeen>>
historyVars == <<byRun, torn, acts, crashes>>
vars == <<rowVars, opVars, run, historyVars>>

GOAL_ACTIVE_STATUSES == {"active", "waiting", "paused", "blocked"}
GOAL_TERMINAL_STATUSES == {"completed", "cancelled", "failed"}
Statuses == GOAL_ACTIVE_STATUSES \cup GOAL_TERMINAL_STATUSES

GOAL_TRANSITIONS ==
    [s \in Statuses |->
        CASE s = "active" -> Statuses \ {"active"}
          [] s = "waiting" -> Statuses \ {"waiting"}
          [] s = "paused" -> {"active", "cancelled"}
          [] s = "blocked" -> {"active", "completed", "cancelled", "failed"}
          [] OTHER -> {}]

Idle == [at |-> "idle", on |-> None, to |-> "active"]
Steps == {"idle", "goal", "flowRead", "flow", "retryFlow", "retry", "stageFlow", "stage"}
WorkPCs == {"none", "begin", "slice", "observe", "observeLimit", "check", "continue",
            "wait", "block", "halting", "end", "endFact", "after", "settling", "done"}

FlowStatus(status) == CASE status = "active" -> "active"
                        [] status \in GOAL_TERMINAL_STATUSES -> "ended"
                        [] OTHER -> "halted"

NewRun ==
    [work |-> "none",
     began |-> "without",       \* whether it found a Goal when it began
     held |-> None,             \* the Goal it is about to record a fact for
     slice |-> 0,               \* continuation_index
     invocation |-> None,       \* last_invocation_id
     asked |-> None,            \* history: the last invocation that asked for completion
     outcome |-> "completed"]   \* what it ends with

Ended == [NewRun EXCEPT !.work = "done"]

OpRecord == [at : Steps, on : GoalIds \cup {None}, to : Statuses]
RunRecord == [work : WorkPCs,
              began : {"with", "without"},
              held : GoalIds \cup {None},
              slice : 0..MaxContinuations,
              invocation : Invocations \cup {None},
              asked : Invocations \cup {None},
              outcome : {"completed", "failed", "cancelled"}]

TypeOK ==
    /\ goal \in [GoalIds -> Statuses \cup {"none"}]
    /\ flow \in [GoalIds -> {"none", "active", "halted", "ended"}]
    /\ pending \in [GoalIds -> Invocations \cup {None}]
    /\ op \in [Actors -> OpRecord]
    /\ goalSeen \subseteq Actors /\ flowSeen \subseteq Actors
    /\ run \in [Runs -> RunRecord]
    /\ byRun \subseteq GoalIds /\ torn \subseteq GoalIds
    /\ acts \in 0..MaxActs /\ crashes \in 0..MaxCrashes

Init ==
    /\ goal = [g \in GoalIds |-> "none"]
    /\ flow = [g \in GoalIds |-> "none"]
    /\ pending = [g \in GoalIds |-> None]
    /\ op = [a \in Actors |-> Idle]
    /\ goalSeen = {} /\ flowSeen = {}
    /\ run = [r \in Runs |-> NewRun]
    /\ byRun = {} /\ torn = {}
    /\ acts = 0 /\ crashes = 0

\* current_goal: the index of unfinished Goals admits one for each session.
Unfinished == {g \in GoalIds : goal[g] \in GOAL_ACTIVE_STATUSES}
Current == IF Unfinished = {} THEN None ELSE CHOOSE g \in Unfinished : TRUE

\* The write of a row moves its revision.
GoalMoves(g) == goalSeen' = {a \in goalSeen : op[a].on # g}
FlowMoves(g) == flowSeen' = {a \in flowSeen : op[a].on # g}

\* The worker is at one place and, with its local variables, goes to the next.
At(r, work) == run[r].work = work /\ op[r] = Idle
Becomes(r, new) == run' = [run EXCEPT ![r] = new]
Goes(r, work) == run' = [run EXCEPT ![r].work = work]
Ends(r, outcome) == Becomes(r, [run[r] EXCEPT !.work = "end", !.outcome = outcome])

\* Somebody undertakes something.
Acts == acts < MaxActs /\ acts' = acts + 1

-----------------------------------------------------------------------------
(* transition_goal *)

\* Where the worker of a Run goes when its transition is over: a conflict is an
\* exception in the body of the Run, and swallowed behind its end.
WorkAfter(a, ok) ==
    CASE a = User -> run' = run
      [] a \in Runs /\ run[a].work = "slice" -> run' = run
      [] a \in Runs /\ run[a].work = "settling" -> Becomes(a, Ended)
      [] OTHER -> Ends(a, IF ok THEN "completed" ELSE "failed")

\* The row is read, with a status the table lets the target follow; the revision
\* the caller expects is the one of this row.
Reads(a, g, status) ==
    /\ op[a] = Idle
    /\ status \in GOAL_TRANSITIONS[goal[g]]
    /\ op' = [op EXCEPT ![a] = [at |-> "goal", on |-> g, to |-> status]]
    /\ goalSeen' = goalSeen \cup {a}
    /\ UNCHANGED flowSeen

\* Mutant of MoveGoal: the update does not ask for the revision.
MoveAnyGoal(a) ==
    LET g == op[a].on
    IN /\ op[a].at = "goal"
       /\ op' = [op EXCEPT ![a].at = "flowRead"]
       /\ goal' = [goal EXCEPT ![g] = op[a].to]
       /\ GoalMoves(g)
       /\ UNCHANGED <<flow, pending, flowSeen, run, historyVars>>

\* _update_goal_row, the first transaction.
MoveGoal(a) ==
    LET g == op[a].on
    IN /\ op[a].at = "goal"
       /\ IF a \in goalSeen
          THEN /\ op' = [op EXCEPT ![a].at = "flowRead"]
               /\ goal' = [goal EXCEPT ![g] = op[a].to]
               /\ GoalMoves(g)
               /\ run' = run
          ELSE /\ op' = [op EXCEPT ![a] = Idle]
               /\ UNCHANGED <<goal, goalSeen>>
               /\ WorkAfter(a, FALSE)
       /\ UNCHANGED <<flow, pending, flowSeen, historyVars>>

\* Mutant of ReadFlow: it does not ask whether the Flow has ended.
ReadAnyFlow(a) ==
    /\ op[a].at = "flowRead"
    /\ op' = [op EXCEPT ![a].at = "flow"]
    /\ flowSeen' = flowSeen \cup {a}
    /\ UNCHANGED <<rowVars, goalSeen, run, historyVars>>

\* flow_for_goal: a Flow that has ended is left alone.
ReadFlow(a) ==
    /\ op[a].at = "flowRead"
    /\ IF flow[op[a].on] = "ended"
       THEN op' = [op EXCEPT ![a] = Idle] /\ WorkAfter(a, TRUE) /\ flowSeen' = flowSeen
       ELSE /\ op' = [op EXCEPT ![a].at = "flow"]
            /\ flowSeen' = flowSeen \cup {a}
            /\ run' = run
    /\ UNCHANGED <<rowVars, goalSeen, historyVars>>

\* Mutant of MoveFlow: the update does not ask for the revision.
MoveAnyFlow(a) ==
    LET g == op[a].on
    IN /\ op[a].at = "flow"
       /\ op' = [op EXCEPT ![a] = Idle]
       /\ flow' = [flow EXCEPT ![g] = FlowStatus(op[a].to)]
       /\ FlowMoves(g)
       /\ WorkAfter(a, TRUE)
       /\ UNCHANGED <<goal, pending, goalSeen, historyVars>>

\* _update_flow_row, the second transaction.  After a conflict the Goal has moved,
\* its Flow has not, and a user's Action does not get to stopping the Run.
MoveFlow(a) ==
    LET g == op[a].on
    IN /\ op[a].at = "flow"
       /\ IF a \in flowSeen
          THEN /\ op' = [op EXCEPT ![a] = Idle]
               /\ flow' = [flow EXCEPT ![g] = FlowStatus(op[a].to)]
               /\ FlowMoves(g)
               /\ torn' = torn
          ELSE /\ op' = [op EXCEPT ![a] = Idle]
               /\ torn' = torn \cup {g}
               /\ UNCHANGED <<flow, flowSeen>>
       /\ WorkAfter(a, a \in flowSeen)
       /\ UNCHANGED <<goal, pending, goalSeen, byRun, acts, crashes>>

-----------------------------------------------------------------------------
(* The user *)

\* create_goal, by a user or by the Agent of a Run.
CreateGoal(g) ==
    /\ \/ op[User] = Idle
       \/ \E r \in Runs : run[r].work = "slice" /\ op[r] = Idle
    /\ goal[g] = "none" /\ Current = None
    /\ goal' = [goal EXCEPT ![g] = "active"]
    /\ flow' = [flow EXCEPT ![g] = "active"]
    /\ UNCHANGED <<pending, opVars, run, historyVars>>

\* goal.pause, goal.resume, goal.cancel and goal.complete.
UserTransitions(g) ==
    /\ Acts
    /\ goal[g] \in Statuses
    /\ \E status \in {"paused", "active", "cancelled", "completed"} : Reads(User, g, status)
    /\ UNCHANGED <<rowVars, run, byRun, torn, crashes>>

\* retry_blocked_step reads the Goal, then its Flow, and moves both at once.
RetryBegins(g) ==
    /\ Acts
    /\ op[User] = Idle /\ goal[g] = "blocked"
    /\ op' = [op EXCEPT ![User] = [at |-> "retryFlow", on |-> g, to |-> "active"]]
    /\ goalSeen' = goalSeen \cup {User}
    /\ UNCHANGED <<rowVars, flowSeen, run, byRun, torn, crashes>>

RetryReadsFlow ==
    /\ op[User].at = "retryFlow"
    /\ op' = [op EXCEPT ![User].at = "retry"]
    /\ flowSeen' = flowSeen \cup {User}
    /\ UNCHANGED <<rowVars, goalSeen, run, historyVars>>

Retry ==
    LET g == op[User].on
    IN /\ op[User].at = "retry"
       /\ op' = [op EXCEPT ![User] = Idle]
       /\ IF User \in goalSeen \cap flowSeen
          THEN /\ goal' = [goal EXCEPT ![g] = "active"]
               /\ flow' = [flow EXCEPT ![g] = "active"]
               /\ GoalMoves(g) /\ FlowMoves(g)
          ELSE /\ goalSeen' = goalSeen \ {User} /\ flowSeen' = flowSeen \ {User}
               /\ UNCHANGED <<goal, flow>>
       /\ UNCHANGED <<pending, run, historyVars>>

\* update_goal edits the Goal on its revision, and then the step that its plan was
\* given, on the revision of the Flow, if there is one and nobody came in between.
EditGoal(g) ==
    /\ Acts
    /\ goal[g] \in GOAL_ACTIVE_STATUSES
    /\ GoalMoves(g)
    /\ FlowMoves(g) \/ UNCHANGED flowSeen
    /\ UNCHANGED <<rowVars, op, run, byRun, torn, crashes>>

\* update_flow, advance_flow_step, bind_task, record_artifact_fact and finish_flow, by a
\* user or by the tools of an Agent: each is one update of a Flow, and all but the
\* artifact's are on its revision, so either as if in one step or not at all.
MovePlan(g) ==
    /\ Acts
    /\ goal[g] \in Statuses
    /\ \E status \in {"ended"} \cup (IF flow[g] = "ended" THEN {} ELSE {"active", "halted"}) :
           flow' = [flow EXCEPT ![g] = status]
    /\ FlowMoves(g)
    /\ UNCHANGED <<goal, pending, op, goalSeen, run, byRun, torn, crashes>>

-----------------------------------------------------------------------------
(* The worker thread of a Run *)

\* create_run starts a Run of the session, with or without a Goal.
StartRun(r) ==
    /\ At(r, "none")
    /\ Goes(r, "begin")
    /\ UNCHANGED <<rowVars, opVars, historyVars>>

\* The Run cannot be started; create_run records that itself.
StartFails(r) ==
    /\ At(r, "none")
    /\ Becomes(r, [NewRun EXCEPT !.work = "end", !.began = "with", !.outcome = "failed"])
    /\ UNCHANGED <<rowVars, opVars, historyVars>>

\* The Run looks once whether the session has a Goal, and records "running" for it.
\* That update asks for no revision, but nothing it writes back here can have been
\* changed since its transaction read it.
BeginRun(r) ==
    /\ At(r, "begin")
    /\ Becomes(r, [run[r] EXCEPT !.work = "slice",
                                 !.began = IF Current = None THEN "without" ELSE "with"])
    /\ IF Current = None THEN UNCHANGED flowSeen ELSE FlowMoves(Current)
    /\ UNCHANGED <<rowVars, op, goalSeen, historyVars>>

\* The tools update_goal and complete_goal (with evidence) of the Agent.
AgentTransitions(r) ==
    /\ Acts
    /\ At(r, "slice") /\ Current # None
    /\ \E status \in AgentTargets : Reads(r, Current, status)
    /\ UNCHANGED <<rowVars, run, byRun, torn, crashes>>

\* The tool complete_goal without evidence: request_completion reads the Goal and
\* its Flow, and then asks on the revision of the Flow.
AgentAsks(r) ==
    /\ Acts
    /\ At(r, "slice") /\ Current # None
    /\ op' = [op EXCEPT ![r] = [Idle EXCEPT !.at = "stageFlow", !.on = Current]]
    /\ UNCHANGED <<rowVars, goalSeen, flowSeen, run, byRun, torn, crashes>>

StageReadsFlow(r) ==
    /\ op[r].at = "stageFlow"
    /\ op' = [op EXCEPT ![r].at = "stage"]
    /\ flowSeen' = flowSeen \cup {r}
    /\ UNCHANGED <<rowVars, goalSeen, run, historyVars>>

Stage(r) ==
    LET g == op[r].on
        this == <<r, run[r].slice>>
    IN /\ op[r].at = "stage"
       /\ op' = [op EXCEPT ![r] = Idle]
       /\ IF r \in flowSeen
          THEN /\ pending' = [pending EXCEPT ![g] = this]
               /\ run' = [run EXCEPT ![r].asked = this]
               /\ FlowMoves(g)
          ELSE UNCHANGED <<pending, run, flowSeen>>
       /\ UNCHANGED <<goal, flow, goalSeen, historyVars>>

\* The invocation ends: with a reply, at its limit of LLM calls, with an error, or
\* because somebody stopped the Run, which anybody may do at any time.
EndSlice(r) ==
    /\ At(r, "slice")
    /\ \/ Goes(r, "observe")
       \/ Goes(r, "observeLimit")
       \/ Ends(r, "failed")
       \/ Ends(r, "cancelled")
    /\ UNCHANGED <<rowVars, opVars, historyVars>>

Observed(r) == [run[r] EXCEPT !.invocation = <<r, run[r].slice>>]

\* A Run without a Goal is over after one invocation, which the limit makes fail.
ObserveNothing(r) ==
    /\ run[r].began = "without"
    /\ \/ At(r, "observe") /\ Becomes(r, [Observed(r) EXCEPT !.work = "end"])
       \/ At(r, "observeLimit")
          /\ Becomes(r, [Observed(r) EXCEPT !.work = "end", !.outcome = "failed"])
    /\ UNCHANGED <<rowVars, opVars, historyVars>>

\* record_progress_observation: an active Goal with an active Flow is noted to have
\* moved on, or blocked together with its Flow; both on their revisions, and when
\* somebody comes in between the Run fails.
Observe(r) ==
    LET g == Current
        next == IF run[r].work = "observe" THEN "check" ELSE "continue"
        observed == g # None /\ goal[g] = "active" /\ flow[g] = "active"
        blocked == g # None /\ goal[g] = "blocked"
    IN /\ run[r].began = "with"
       /\ At(r, "observe") \/ At(r, "observeLimit")
       /\ \/ /\ ~observed
             /\ Becomes(r, [Observed(r) EXCEPT !.work = IF blocked THEN "end" ELSE next])
             /\ UNCHANGED <<goal, flow, goalSeen, flowSeen>>
          \/ /\ observed
             /\ Becomes(r, [Observed(r) EXCEPT !.work = next])
             /\ FlowMoves(g)
             /\ UNCHANGED <<goal, flow, goalSeen>>
          \/ /\ observed
             /\ Becomes(r, [Observed(r) EXCEPT !.work = "end"])
             /\ goal' = [goal EXCEPT ![g] = "blocked"]
             /\ flow' = [flow EXCEPT ![g] = "halted"]
             /\ GoalMoves(g) /\ FlowMoves(g)
          \/ /\ observed
             /\ Becomes(r, [Observed(r) EXCEPT !.work = "end", !.outcome = "failed"])
             /\ UNCHANGED <<goal, flow, goalSeen, flowSeen>>
       /\ UNCHANGED <<pending, op, historyVars>>

\* Whether to go on: not when the policy continues nothing by itself, when the Goal
\* is not active any more or when its completion has been asked for.
Check(r) ==
    LET g == Current
        goesOn == g # None /\ goal[g] = "active" /\ pending[g] = None
    IN /\ At(r, "check")
       /\ \/ Goes(r, "wait")
          \/ Goes(r, IF goesOn THEN "continue" ELSE "end")
       /\ UNCHANGED <<rowVars, opVars, historyVars>>

\* Mutant of Continue: the budget is exhausted one invocation too late.
ContinueOnceMore(r) ==
    /\ At(r, "continue")
    /\ IF run[r].slice > MaxContinuations
       THEN Goes(r, "wait") \/ Goes(r, "block")
       ELSE Becomes(r, [run[r] EXCEPT !.work = "slice", !.slice = @ + 1])
    /\ UNCHANGED <<rowVars, opVars, historyVars>>

\* record_continuation_fact, and the next invocation or the end of the budget; a Run
\* without text at its limit of LLM calls blocks the Goal instead of waiting.
Continue(r) ==
    LET g == Current
    IN /\ At(r, "continue")
       /\ IF run[r].slice = MaxContinuations
          THEN Goes(r, "wait") \/ Goes(r, "block")
          ELSE Becomes(r, [run[r] EXCEPT !.work = "slice", !.slice = @ + 1])
       /\ IF g = None THEN UNCHANGED <<goalSeen, flowSeen>> ELSE GoalMoves(g) /\ FlowMoves(g)
       /\ UNCHANGED <<rowVars, op, historyVars>>

\* wait_current_goal, block_current_goal and pause_current_goal begin a transition
\* of the session's Goal, whichever that is, if its status is one of these.
Halts(r, during, after, statuses, status) ==
    IF Current # None /\ goal[Current] \in statuses
    THEN Goes(r, during) /\ Reads(r, Current, status)
    ELSE Becomes(r, after) /\ UNCHANGED opVars

Halt(r) ==
    LET after == [run[r] EXCEPT !.work = "end"]
    IN /\ \/ At(r, "wait") /\ Halts(r, "halting", after, {"active"}, "waiting")
          \/ At(r, "block") /\ Halts(r, "halting", after, {"active", "waiting"}, "blocked")
       /\ UNCHANGED <<rowVars, historyVars>>

\* _record_terminal_goal_fact: the fact is for the Goal the session has now.  A Run
\* that has no reply to give fails.
EndRun(r) ==
    LET recorded == run[r].began = "with" /\ Current # None
    IN /\ At(r, "end")
       /\ \E o \in {run[r].outcome, "failed"} :
              /\ o # run[r].outcome => run[r].outcome = "completed"
              /\ Becomes(r, [run[r] EXCEPT !.work = IF recorded THEN "endFact" ELSE "after",
                                           !.held = Current, !.outcome = o])
       /\ UNCHANGED <<rowVars, opVars, historyVars>>

\* Mutant of Matches: any request is taken for one of this invocation.
MatchesAny(r) == pending[run[r].held] # None

\* A request of the Run's last invocation is on the Flow.
Matches(r) == run[r].invocation # None /\ pending[run[r].held] = run[r].invocation

\* record_run_fact with the status the Run ends with.  A matching request completes
\* Goal and Flow, or is dropped when the Run did not succeed.  If the Goal has ended
\* meanwhile the transaction is rolled back and the Run fails.
RecordEnd(r) ==
    LET g == run[r].held
        completes == Matches(r) /\ run[r].outcome = "completed"
        recorded == [run[r] EXCEPT !.work = "after", !.held = None]
    IN /\ At(r, "endFact")
       /\ \/ /\ completes /\ goal[g] \notin GOAL_ACTIVE_STATUSES
             /\ Ends(r, "failed")
             /\ UNCHANGED <<rowVars, goalSeen, flowSeen, byRun>>
          \/ /\ completes /\ goal[g] \in GOAL_ACTIVE_STATUSES
             /\ Becomes(r, recorded)
             /\ goal' = [goal EXCEPT ![g] = "completed"]
             /\ flow' = [flow EXCEPT ![g] = "ended"]
             /\ pending' = [pending EXCEPT ![g] = None]
             /\ byRun' = byRun \cup {g}
             /\ GoalMoves(g) /\ FlowMoves(g)
          \/ /\ ~completes
             /\ Becomes(r, recorded)
             /\ pending' = [pending EXCEPT ![g] =
                    IF Matches(r) /\ run[r].outcome # "completed" THEN None ELSE @]
             /\ FlowMoves(g)
             /\ UNCHANGED <<goal, flow, goalSeen, byRun>>
       /\ UNCHANGED <<op, torn, acts, crashes>>

\* _fail_node_run blocks, and _cancel_node_run pauses, the session's Goal.
AfterRun(r) ==
    /\ At(r, "after")
    /\ CASE run[r].outcome = "completed" -> Becomes(r, Ended) /\ UNCHANGED opVars
         [] run[r].outcome = "failed" ->
                Halts(r, "settling", Ended, {"active", "waiting"}, "blocked")
         [] run[r].outcome = "cancelled" -> Halts(r, "settling", Ended, {"active"}, "paused")
    /\ UNCHANGED <<rowVars, historyVars>>

-----------------------------------------------------------------------------
(* The environment and the specification *)

\* The Node dies and is started again: reconcile_runtime moves every active Goal to
\* "waiting" with its Flow before anybody else comes in.
Restart ==
    /\ crashes < MaxCrashes
    /\ crashes' = crashes + 1
    /\ goal' = [g \in GoalIds |-> IF goal[g] = "active" THEN "waiting" ELSE goal[g]]
    /\ flow' = [g \in GoalIds |-> IF goal[g] = "active" THEN "halted" ELSE flow[g]]
    /\ torn' = torn \cup {op[a].on : a \in {b \in Actors : op[b].at \in {"flowRead", "flow"}}}
    /\ op' = [a \in Actors |-> Idle]
    /\ goalSeen' = {} /\ flowSeen' = {}
    /\ run' = [r \in Runs |-> IF run[r].work = "none" THEN NewRun ELSE Ended]
    /\ UNCHANGED <<pending, byRun, acts>>

Transition(a) == MoveGoal(a) \/ ReadFlow(a) \/ MoveFlow(a)

UserActs ==
    \/ \E g \in GoalIds :
           CreateGoal(g) \/ UserTransitions(g) \/ RetryBegins(g) \/ EditGoal(g)
           \/ MovePlan(g)
    \/ Transition(User) \/ RetryReadsFlow \/ Retry

RunActs(r) ==
    \/ StartRun(r) \/ StartFails(r) \/ BeginRun(r)
    \/ AgentTransitions(r) \/ Transition(r) \/ AgentAsks(r) \/ StageReadsFlow(r) \/ Stage(r)
    \/ EndSlice(r) \/ ObserveNothing(r) \/ Observe(r) \/ Check(r) \/ Continue(r) \/ Halt(r)
    \/ EndRun(r) \/ RecordEnd(r) \/ AfterRun(r)

Next == UserActs \/ (\E r \in Runs : RunActs(r)) \/ Restart

Spec == Init /\ [][Next]_vars

-----------------------------------------------------------------------------
(* Properties *)

\* A Run's success completes a Goal only if the last invocation of that Run had asked
\* for it: no request of an earlier invocation, of another Run or from before a
\* restart is taken up.
CompletionWasAsked ==
    [][\A g \in byRun' \ byRun :
           \E r \in Runs :
               /\ run'[r] # run[r] /\ run[r].held = g
               /\ run[r].outcome = "completed"
               /\ run[r].asked # None /\ run[r].asked = run[r].invocation]_vars

\* What a Run's success completed stays completed, Goal and Flow, whatever half of a
\* transition is still to come.
CompletedByRunStays ==
    \A g \in byRun : goal[g] = "completed" /\ flow[g] = "ended"

\* A Goal that has ended has a Flow that has ended, unless somebody is still at its
\* second half or was told of a conflict there: no transition, retry, observation or
\* restart that began before the end opens the Flow again.
EndedGoalHasEndedFlow ==
    \A g \in GoalIds :
        /\ goal[g] \in GOAL_TERMINAL_STATUSES
        /\ g \notin torn
        /\ \A a \in Actors : op[a].on = g => op[a].at \notin {"flowRead", "flow"}
        => flow[g] = "ended"

\* Every change of a Goal's status is one the table of transitions has, whoever read
\* the row how long ago; only a Run's success also completes a paused Goal.
GoalFollowsTransitions ==
    [][\A g \in GoalIds :
           goal[g] \in Statuses /\ goal'[g] # goal[g] =>
               \/ goal'[g] \in GOAL_TRANSITIONS[goal[g]]
               \/ goal[g] = "paused" /\ goal'[g] = "completed" /\ g \in byRun']_vars
=============================================================================
