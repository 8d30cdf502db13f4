------------------------------- MODULE GoalsProofs -------------------------------
(***************************************************************************)
(* Theorems of Goals, for any Goals, Runs, statuses an Agent may ask for   *)
(* and bounds.  IInv is the inductive invariant.                           *)
(***************************************************************************)
EXTENDS Goals, TLAPS

\* What an actor relies on while it relies on a revision: that the table has the
\* step it is about to take, or that the Flow is still open.
SeenInv ==
    \A a \in Actors :
        /\ op[a].at # "idle" => op[a].on \in GoalIds
        /\ op[a].at = "goal" /\ a \in goalSeen =>
               /\ goal[op[a].on] \in Statuses
               /\ op[a].to \in GOAL_TRANSITIONS[goal[op[a].on]]
        /\ op[a].at \in {"retryFlow", "retry"} /\ a \in goalSeen =>
               goal[op[a].on] = "blocked"
        /\ op[a].at = "flow" /\ a \in flowSeen => flow[op[a].on] # "ended"

\* Somebody is on the way to end the Flow of a Goal.
Ending(g) ==
    \E a \in Actors :
        /\ op[a].on = g
        /\ op[a].at \in {"flowRead", "flow"}
        /\ op[a].to \in GOAL_TERMINAL_STATUSES

\* The open Flow of an ended Goal is about to be ended, or a conflict or a crash came
\* in between.
EndInv ==
    \A g \in GoalIds :
        goal[g] \in GOAL_TERMINAL_STATUSES /\ flow[g] # "ended" => g \in torn \/ Ending(g)

\* What a worker x of the Run r has recorded when it comes to its places.
WorkOK(r, x) ==
    /\ x.work = "endFact" => x.held \in GoalIds
    /\ x.work = "none" => x = NewRun
    /\ x.work \in {"check", "continue", "wait", "block", "halting"}
           => x.invocation = <<r, x.slice>>
    /\ x.work \in {"end", "endFact"} /\ x.outcome = "completed"
           => x.invocation = <<r, x.slice>>

\* Where a worker may be in the middle of a transition.
OpOK(r) == op[r].at # "idle" => run[r].work \in {"slice", "halting", "settling"}

WorkInv == \A r \in Runs : WorkOK(r, run[r]) /\ OpOK(r)

\* A request on record is not younger than the last one its Run remembers, and that
\* one not younger than the invocation the Run is in.
AskedInv ==
    \A r \in Runs :
        /\ run[r].asked # None => run[r].asked[1] = r /\ run[r].asked[2] <= run[r].slice
        /\ run[r].work # "done" =>
               \A g \in GoalIds :
                   pending[g] # None /\ pending[g][1] = r =>
                       run[r].asked # None /\ pending[g][2] <= run[r].asked[2]

IInv == TypeOK /\ SeenInv /\ EndInv /\ WorkInv /\ AskedInv /\ CompletedByRunStays

-----------------------------------------------------------------------------
(* The operators *)

\* What the table of transitions says of a status it may begin or end with.
LEMMA TransitionFacts ==
    /\ \A s \in Statuses : GOAL_TRANSITIONS[s] \subseteq Statuses
    /\ \A s \in GOAL_TERMINAL_STATUSES : GOAL_TRANSITIONS[s] = {}
    /\ {"waiting", "blocked", "completed"} \subseteq GOAL_TRANSITIONS["active"]
    /\ "completed" \in GOAL_TRANSITIONS["waiting"]
    /\ {"active", "completed"} \subseteq GOAL_TRANSITIONS["blocked"]
BY DEF GOAL_TRANSITIONS, Statuses, GOAL_ACTIVE_STATUSES, GOAL_TERMINAL_STATUSES

\* The current Goal of the session, if it has one, is unfinished.
LEMMA CurrentFact ==
    Current # None => Current \in GoalIds /\ goal[Current] \in GOAL_ACTIVE_STATUSES
<1> SUFFICES ASSUME Unfinished # {}
             PROVE  Current \in Unfinished
  BY DEF Current, Unfinished
<1> QED
  BY DEF Current

Outcomes == {"completed", "failed", "cancelled"}

\* The records of workers and actors keep their types when fields are set.
LEMMA RunTypes ==
    /\ NewRun \in RunRecord
    /\ Ended \in RunRecord
    /\ [NewRun EXCEPT !.work = "end", !.began = "with", !.outcome = "failed"] \in RunRecord
<1>1. NewRun \in RunRecord /\ Ended \in RunRecord
  BY GoalAssumption DEF RunRecord, NewRun, Ended, WorkPCs
<1>2. [NewRun EXCEPT !.work = "end", !.began = "with", !.outcome = "failed"] \in RunRecord
  BY <1>1 DEF RunRecord, WorkPCs
<1> QED
  BY <1>1, <1>2

\* The parts of a worker's record that bounds and cases rest on.
LEMMA RunParts ==
    \A x \in RunRecord : x.slice \in 0..MaxContinuations /\ x.outcome \in Outcomes
BY DEF RunRecord, Outcomes

\* Setting the place of a worker, and one or two variables with it, keeps its type.
LEMMA RunExcept ==
    ASSUME NEW x \in RunRecord, NEW w \in WorkPCs
    PROVE  /\ [x EXCEPT !.work = w] \in RunRecord
           /\ \A b \in {"with", "without"} : [x EXCEPT !.work = w, !.began = b] \in RunRecord
           /\ \A n \in 0..MaxContinuations : [x EXCEPT !.work = w, !.slice = n] \in RunRecord
           /\ \A h \in GoalIds \cup {None} : [x EXCEPT !.work = w, !.held = h] \in RunRecord
           /\ \A o \in Outcomes : [x EXCEPT !.work = w, !.outcome = o] \in RunRecord
           /\ \A o \in Outcomes, h \in GoalIds \cup {None} :
                  [x EXCEPT !.work = w, !.held = h, !.outcome = o] \in RunRecord
BY DEF RunRecord, Outcomes

\* Setting where an actor is in a transition keeps its type.
LEMMA OpTypes ==
    /\ Idle \in OpRecord
    /\ \A x \in OpRecord, s \in Steps : [x EXCEPT !.at = s] \in OpRecord
    /\ \A s \in Steps, g \in GoalIds, t \in Statuses :
           /\ [at |-> s, on |-> g, to |-> t] \in OpRecord
           /\ [Idle EXCEPT !.at = s, !.on = g] \in OpRecord
BY DEF OpRecord, Idle, Steps, Statuses, GOAL_ACTIVE_STATUSES

\* A worker that remembers its invocation keeps its type.
LEMMA ObservedType ==
    ASSUME run \in [Runs -> RunRecord], NEW r \in Runs PROVE Observed(r) \in RunRecord
BY DEF RunRecord, Observed, Invocations

\* The worker goes to a record of its type.
LEMMA BecomesType ==
    ASSUME run \in [Runs -> RunRecord], NEW r \in Runs, NEW x \in RunRecord, Becomes(r, x)
    PROVE  run' \in [Runs -> RunRecord]
BY DEF Becomes

\* The worker goes to another place.
LEMMA GoesType ==
    ASSUME run \in [Runs -> RunRecord], NEW r \in Runs, NEW w \in WorkPCs, Goes(r, w)
    PROVE  run' \in [Runs -> RunRecord]
BY DEF Goes, RunRecord

\* The body of the Run ends with an outcome.
LEMMA EndsType ==
    ASSUME run \in [Runs -> RunRecord], NEW r \in Runs, NEW o \in Outcomes, Ends(r, o)
    PROVE  run' \in [Runs -> RunRecord]
BY RunExcept, BecomesType DEF Ends, WorkPCs

\* A transition is over and the worker that made it goes on.
LEMMA WorkAfterType ==
    ASSUME run \in [Runs -> RunRecord], NEW a \in Actors, NEW ok, WorkAfter(a, ok)
    PROVE  run' \in [Runs -> RunRecord]
<1> USE GoalAssumption DEF WorkAfter, Actors
<1>1. CASE a = User \/ run[a].work = "slice"
  BY <1>1
<1>2. CASE a # User /\ run[a].work = "settling"
  BY <1>2, RunTypes, BecomesType
<1>3. CASE a # User /\ run[a].work \notin {"slice", "settling"}
  <2>1. \E o \in Outcomes : Ends(a, o)
    BY <1>3 DEF Outcomes
  <2> QED
    BY <1>3, <2>1, EndsType
<1> QED
  BY <1>1, <1>2, <1>3

\* The next invocation is still within the bound.
LEMMA ContinueType ==
    ASSUME run \in [Runs -> RunRecord], NEW r \in Runs, Continue(r)
    PROVE  run' \in [Runs -> RunRecord]
<1>1. CASE run[r].slice = MaxContinuations
  BY <1>1, GoesType DEF Continue, WorkPCs
<1>2. CASE run[r].slice # MaxContinuations
  <2>1. run[r].slice + 1 \in 0..MaxContinuations
    BY <1>2, RunParts, GoalAssumption
  <2>2. [run[r] EXCEPT !.work = "slice", !.slice = @ + 1] \in RunRecord
    BY <2>1, RunExcept DEF WorkPCs
  <2> QED
    BY <1>2, <2>2, BecomesType DEF Continue
<1> QED
  BY <1>1, <1>2

\* A transition begins with a status of a Goal.
LEMMA ReadsType ==
    ASSUME op \in [Actors -> OpRecord], goal \in [GoalIds -> Statuses \cup {"none"}],
           NEW a \in Actors, NEW g \in GoalIds, goal[g] \in Statuses, NEW status,
           Reads(a, g, status)
    PROVE  op' \in [Actors -> OpRecord] /\ goalSeen' = goalSeen \cup {a}
<1>1. status \in Statuses
  BY TransitionFacts DEF Reads
<1> QED
  BY <1>1 DEF Reads, OpRecord, Steps

\* A worker halts the current Goal, if there is one.
LEMMA HaltsType ==
    ASSUME run \in [Runs -> RunRecord], op \in [Actors -> OpRecord],
           goal \in [GoalIds -> Statuses \cup {"none"}],
           goalSeen \subseteq Actors, flowSeen \subseteq Actors,
           NEW r \in Runs, NEW w \in WorkPCs, NEW x \in RunRecord, NEW s, NEW status,
           Halts(r, w, x, s, status)
    PROVE  /\ run' \in [Runs -> RunRecord] /\ op' \in [Actors -> OpRecord]
           /\ goalSeen' \subseteq Actors /\ flowSeen' \subseteq Actors
<1> r \in Actors
  BY DEF Actors
<1>1. CASE Current # None /\ goal[Current] \in s
  <2>1. Goes(r, w) /\ Reads(r, Current, status)
    BY <1>1 DEF Halts
  <2>2. Current \in GoalIds /\ goal[Current] \in Statuses
    BY <1>1, CurrentFact DEF Statuses
  <2> QED
    BY <2>1, <2>2, GoesType, ReadsType DEF Reads
<1>2. CASE ~(Current # None /\ goal[Current] \in s)
  BY <1>2, BecomesType DEF Halts, opVars
<1> QED
  BY <1>1, <1>2

\* The initial states satisfy the invariant.
LEMMA InitIInv == Init => IInv
<1> SUFFICES ASSUME Init PROVE IInv
  OBVIOUS
<1> USE GoalAssumption DEF Init
<1>1. TypeOK
  <2>1. run \in [Runs -> RunRecord] /\ op \in [Actors -> OpRecord]
    BY RunTypes, OpTypes
  <2>2. acts \in 0..MaxActs /\ crashes \in 0..MaxCrashes
    OBVIOUS
  <2> QED
    BY <2>1, <2>2 DEF TypeOK
<1>2. SeenInv /\ EndInv /\ CompletedByRunStays
  BY DEF Idle, SeenInv, EndInv, CompletedByRunStays, GOAL_TERMINAL_STATUSES
<1>3. WorkInv /\ AskedInv
  BY DEF Idle, NewRun, WorkInv, WorkOK, OpOK, AskedInv, Actors
<1> QED
  BY <1>1, <1>2, <1>3 DEF IInv

-----------------------------------------------------------------------------
(* The steps *)

\* Every step keeps the types.
LEMMA TypeStep == TypeOK /\ SeenInv /\ WorkInv /\ [Next]_vars => TypeOK'
<1> SUFFICES ASSUME TypeOK, SeenInv, WorkInv, [Next]_vars PROVE TypeOK'
  OBVIOUS
<1>a. \A a \in Actors : op[a].at # "idle" => op[a].on \in GoalIds
  BY DEF SeenInv
<1>b. \A r \in Runs : run[r].work = "endFact" => run[r].held \in GoalIds
  BY DEF WorkInv, WorkOK
<1>c. Current # None => Current \in GoalIds /\ goal[Current] \in Statuses
  BY CurrentFact DEF Statuses
<1>d. \A s \in Statuses : GOAL_TRANSITIONS[s] \subseteq Statuses
  BY TransitionFacts
<1>e. {"active", "waiting", "paused", "blocked", "completed", "cancelled"} \subseteq Statuses
  BY DEF Statuses, GOAL_ACTIVE_STATUSES, GOAL_TERMINAL_STATUSES
<1>f. User \in Actors /\ Runs \subseteq Actors
  BY DEF Actors
<1>g. run \in [Runs -> RunRecord] /\ op \in [Actors -> OpRecord]
  BY DEF TypeOK
<1>h. \A a \in Actors : op[a].to \in Statuses
  BY <1>g DEF OpRecord
<1> USE GoalAssumption, <1>a, <1>b, <1>c, <1>d, <1>e, <1>f, <1>g, <1>h
<1>1. ASSUME NEW g \in GoalIds, CreateGoal(g) PROVE TypeOK'
  BY <1>1 DEF CreateGoal, TypeOK, rowVars, opVars, historyVars
<1>2. ASSUME NEW g \in GoalIds, UserTransitions(g) PROVE TypeOK'
  <2>1. PICK status : Reads(User, g, status)
    BY <1>2 DEF UserTransitions
  <2>2. op' \in [Actors -> OpRecord] /\ goalSeen' \subseteq Actors
    BY <1>2, <2>1, ReadsType DEF UserTransitions, TypeOK
  <2> QED
    BY <1>2, <2>1, <2>2 DEF UserTransitions, Acts, Reads, TypeOK, rowVars
<1>3. ASSUME NEW g \in GoalIds, RetryBegins(g) PROVE TypeOK'
  <2>1. op' \in [Actors -> OpRecord]
    BY <1>3, OpTypes DEF RetryBegins, Steps
  <2> QED
    BY <1>3, <2>1 DEF RetryBegins, Acts, TypeOK, rowVars, opVars, historyVars
<1>4. ASSUME NEW g \in GoalIds, EditGoal(g) PROVE TypeOK'
  BY <1>4 DEF EditGoal, Acts, GoalMoves, FlowMoves, TypeOK, rowVars, opVars, historyVars
<1>5. ASSUME NEW g \in GoalIds, MovePlan(g) PROVE TypeOK'
  BY <1>5 DEF MovePlan, Acts, FlowMoves, TypeOK, rowVars, opVars, historyVars
<1>6. ASSUME NEW a \in Actors, MoveGoal(a) PROVE TypeOK'
  <2> USE DEF MoveGoal, TypeOK, historyVars
  <2>1. CASE a \in goalSeen
    <3>1. op' \in [Actors -> OpRecord]
      BY <1>6, <2>1 DEF OpRecord, Steps
    <3> QED
      BY <1>6, <2>1, <3>1 DEF GoalMoves
  <2>2. CASE a \notin goalSeen
    BY <1>6, <2>2, OpTypes, WorkAfterType
  <2> QED
    BY <2>1, <2>2
<1>7. ASSUME NEW a \in Actors, ReadFlow(a) PROVE TypeOK'
  <2> USE DEF ReadFlow, TypeOK, rowVars, historyVars
  <2>1. CASE flow[op[a].on] = "ended"
    BY <1>7, <2>1, OpTypes, WorkAfterType
  <2>2. CASE flow[op[a].on] # "ended"
    <3>1. op' \in [Actors -> OpRecord]
      BY <1>7, <2>2 DEF OpRecord, Steps
    <3> QED
      BY <1>7, <2>2, <3>1
  <2> QED
    BY <2>1, <2>2
<1>8. ASSUME NEW a \in Actors, MoveFlow(a) PROVE TypeOK'
  <2>1. WorkAfter(a, a \in flowSeen)
    BY <1>8 DEF MoveFlow
  <2>2. run' \in [Runs -> RunRecord]
    BY <2>1, WorkAfterType
  <2>3. op' \in [Actors -> OpRecord]
    BY <1>8, OpTypes DEF MoveFlow
  <2> QED
    BY <1>8, <2>2, <2>3 DEF MoveFlow, FlowMoves, FlowStatus, TypeOK
<1>9. CASE RetryReadsFlow
  <2>1. op' \in [Actors -> OpRecord]
    BY <1>9, OpTypes DEF RetryReadsFlow, Steps
  <2> QED
    BY <1>9, <2>1 DEF RetryReadsFlow, TypeOK, rowVars, opVars, historyVars
<1>10. CASE Retry
  <2>1. op' \in [Actors -> OpRecord]
    BY <1>10, OpTypes DEF Retry, Steps
  <2> QED
    BY <1>10, <2>1 DEF Retry, GoalMoves, FlowMoves, TypeOK, rowVars, opVars, historyVars
<1>11. ASSUME NEW r \in Runs, StartRun(r) PROVE TypeOK'
  <2>1. run' \in [Runs -> RunRecord]
    BY <1>11, GoesType DEF StartRun, WorkPCs
  <2> QED
    BY <1>11, <2>1 DEF StartRun, TypeOK, rowVars, opVars, historyVars
<1>12. ASSUME NEW r \in Runs, StartFails(r) PROVE TypeOK'
  <2>1. run' \in [Runs -> RunRecord]
    BY <1>12, RunTypes, BecomesType DEF StartFails
  <2> QED
    BY <1>12, <2>1 DEF StartFails, TypeOK, rowVars, opVars, historyVars
<1>13. ASSUME NEW r \in Runs, BeginRun(r) PROVE TypeOK'
  <2>1. run' \in [Runs -> RunRecord]
    BY <1>13, RunExcept, BecomesType DEF BeginRun, WorkPCs
  <2> QED
    BY <1>13, <2>1 DEF BeginRun, FlowMoves, TypeOK, rowVars, opVars, historyVars
<1>14. ASSUME NEW r \in Runs, AgentTransitions(r) PROVE TypeOK'
  <2>1. PICK status : Reads(r, Current, status)
    BY <1>14 DEF AgentTransitions
  <2>2. op' \in [Actors -> OpRecord] /\ goalSeen' \subseteq Actors
    BY <1>14, <2>1, ReadsType DEF AgentTransitions, TypeOK
  <2> QED
    BY <1>14, <2>1, <2>2 DEF AgentTransitions, Acts, Reads, TypeOK, rowVars
<1>15. ASSUME NEW r \in Runs, AgentAsks(r) PROVE TypeOK'
  <2>1. op' \in [Actors -> OpRecord]
    BY <1>15, OpTypes DEF AgentAsks, At, Steps
  <2> QED
    BY <1>15, <2>1 DEF AgentAsks, Acts, TypeOK, rowVars, opVars, historyVars
<1>16. ASSUME NEW r \in Runs, StageReadsFlow(r) PROVE TypeOK'
  <2>1. op' \in [Actors -> OpRecord]
    BY <1>16, OpTypes DEF StageReadsFlow, Steps
  <2> QED
    BY <1>16, <2>1 DEF StageReadsFlow, TypeOK, rowVars, opVars, historyVars
<1>17. ASSUME NEW r \in Runs, Stage(r) PROVE TypeOK'
  <2>1. run' \in [Runs -> RunRecord]
    BY <1>17 DEF Stage, RunRecord, Invocations
  <2>2. op' \in [Actors -> OpRecord]
    BY <1>17, OpTypes DEF Stage, Steps
  <2> QED
    BY <1>17, <2>1, <2>2 DEF Stage, FlowMoves, Invocations, RunRecord, TypeOK, rowVars,
           opVars, historyVars
<1>18. ASSUME NEW r \in Runs, EndSlice(r) PROVE TypeOK'
  <2>1. run' \in [Runs -> RunRecord]
    BY <1>18, GoesType, EndsType DEF EndSlice, WorkPCs, Outcomes
  <2> QED
    BY <1>18, <2>1 DEF EndSlice, TypeOK, rowVars, opVars, historyVars
<1>19. ASSUME NEW r \in Runs, ObserveNothing(r) PROVE TypeOK'
  <2>1. run' \in [Runs -> RunRecord]
    BY <1>19, RunExcept, ObservedType, BecomesType DEF ObserveNothing, WorkPCs, Outcomes
  <2> QED
    BY <1>19, <2>1 DEF ObserveNothing, TypeOK, rowVars, opVars, historyVars
<1>20. ASSUME NEW r \in Runs, Observe(r) PROVE TypeOK'
  <2>1. run' \in [Runs -> RunRecord]
    BY <1>20, RunExcept, ObservedType, BecomesType DEF Observe, WorkPCs, Outcomes
  <2> QED
    BY <1>20, <2>1 DEF Observe, GoalMoves, FlowMoves, TypeOK, rowVars, opVars, historyVars
<1>21. ASSUME NEW r \in Runs, Check(r) PROVE TypeOK'
  <2>1. run' \in [Runs -> RunRecord]
    BY <1>21, GoesType DEF Check, WorkPCs
  <2> QED
    BY <1>21, <2>1 DEF Check, TypeOK, rowVars, opVars, historyVars
<1>22. ASSUME NEW r \in Runs, Continue(r) PROVE TypeOK'
  <2>1. run' \in [Runs -> RunRecord]
    BY <1>22, ContinueType
  <2> QED
    BY <1>22, <2>1 DEF Continue, GoalMoves, FlowMoves, TypeOK, rowVars, opVars,
           historyVars
<1>23. ASSUME NEW r \in Runs, Halt(r) PROVE TypeOK'
  <2>1. [run[r] EXCEPT !.work = "end"] \in RunRecord
    BY RunExcept DEF WorkPCs
  <2> QED
    BY <1>23, <2>1, HaltsType DEF Halt, TypeOK, WorkPCs, rowVars, historyVars
<1>24. ASSUME NEW r \in Runs, EndRun(r) PROVE TypeOK'
  <2>1. run' \in [Runs -> RunRecord]
    BY <1>24, RunExcept, RunParts, BecomesType DEF EndRun, WorkPCs, Outcomes
  <2> QED
    BY <1>24, <2>1 DEF EndRun, TypeOK, rowVars, opVars, historyVars
<1>25. ASSUME NEW r \in Runs, RecordEnd(r) PROVE TypeOK'
  <2>1. run' \in [Runs -> RunRecord]
    BY <1>25, RunExcept, RunParts, BecomesType, EndsType DEF RecordEnd, WorkPCs, Outcomes
  <2>2. run[r].held \in GoalIds
    BY <1>25 DEF RecordEnd, At
  <2> QED
    <3>1. pending' \in [GoalIds -> Invocations \cup {None}]
      BY <1>25, <2>2 DEF RecordEnd, TypeOK, rowVars
    <3>2. /\ goal' \in [GoalIds -> Statuses \cup {"none"}]
          /\ flow' \in [GoalIds -> {"none", "active", "halted", "ended"}]
          /\ byRun' \subseteq GoalIds
      BY <1>25, <2>2 DEF RecordEnd, TypeOK, rowVars
    <3>3. goalSeen' \subseteq Actors /\ flowSeen' \subseteq Actors
      BY <1>25 DEF RecordEnd, TypeOK, GoalMoves, FlowMoves
    <3> QED
      BY <1>25, <2>1, <3>1, <3>2, <3>3 DEF RecordEnd, TypeOK
<1>26. ASSUME NEW r \in Runs, AfterRun(r) PROVE TypeOK'
  <2> {"settling"} \subseteq WorkPCs
    BY DEF WorkPCs
  <2>1. CASE run[r].outcome = "completed"
    BY <1>26, <2>1, RunTypes, BecomesType DEF AfterRun, TypeOK, opVars, rowVars, historyVars
  <2>2. CASE run[r].outcome = "failed"
    BY <1>26, <2>2, RunTypes, HaltsType DEF AfterRun, TypeOK, rowVars, historyVars
  <2>3. CASE run[r].outcome = "cancelled"
    BY <1>26, <2>3, RunTypes, HaltsType DEF AfterRun, TypeOK, rowVars, historyVars
  <2> QED
    BY <2>1, <2>2, <2>3, RunParts DEF Outcomes
<1>27. CASE Restart
  <2>1. run' \in [Runs -> RunRecord]
    BY <1>27, RunTypes DEF Restart
  <2>2. op' \in [Actors -> OpRecord]
    BY <1>27, OpTypes DEF Restart, Steps
  <2> QED
    BY <1>27, <2>1, <2>2 DEF Restart, TypeOK, rowVars, opVars, historyVars
<1>28. CASE UNCHANGED vars
  BY <1>28 DEF TypeOK, vars, rowVars, opVars, historyVars
<1> QED
  BY <1>1, <1>2, <1>3, <1>4, <1>5, <1>6, <1>7, <1>8, <1>9, <1>10, <1>11, <1>12, <1>13, <1>14,
     <1>15, <1>16, <1>17, <1>18, <1>19, <1>20, <1>21, <1>22, <1>23, <1>24, <1>25, <1>26,
     <1>27, <1>28
     DEF Next, UserActs, RunActs, Transition

\* Every step keeps what Goal and Flow rows promise.
LEMMA RowStep ==
    TypeOK /\ SeenInv /\ EndInv /\ WorkInv /\ CompletedByRunStays /\ [Next]_vars
        => SeenInv' /\ EndInv' /\ CompletedByRunStays'
<1> DEFINE Rows == SeenInv /\ EndInv /\ CompletedByRunStays
<1> SUFFICES ASSUME TypeOK, Rows, WorkInv, [Next]_vars
             PROVE  Rows'
  OBVIOUS
<1>a. /\ goal \in [GoalIds -> Statuses \cup {"none"}]
      /\ flow \in [GoalIds -> {"none", "active", "halted", "ended"}]
      /\ op \in [Actors -> OpRecord]
      /\ goalSeen \subseteq Actors /\ flowSeen \subseteq Actors
      /\ byRun \subseteq GoalIds
  BY DEF TypeOK
<1>b. \A r \in Runs : run[r].work = "endFact" => run[r].held \in GoalIds
  BY DEF WorkInv, WorkOK
<1>c. User \in Actors /\ Runs \subseteq Actors
  BY DEF Actors
<1> USE GoalAssumption, CurrentFact, TransitionFacts, <1>a, <1>b, <1>c
    DEF SeenInv, EndInv, Ending, CompletedByRunStays, GOAL_ACTIVE_STATUSES,
        GOAL_TERMINAL_STATUSES, Statuses
<1>d. ASSUME NEW a \in Actors, NEW g \in GoalIds, goal[g] \in Statuses, NEW status,
             Reads(a, g, status), UNCHANGED <<rowVars, byRun, torn>>
      PROVE  Rows'
  BY <1>d DEF Reads, OpRecord, Idle, rowVars
<1>e. ASSUME UNCHANGED <<rowVars, opVars, byRun, torn>> PROVE Rows'
  BY <1>e DEF rowVars, opVars
<1>f. ASSUME NEW r \in Runs, NEW w, NEW x, NEW s, NEW status, Halts(r, w, x, s, status),
             UNCHANGED <<rowVars, byRun, torn>>
      PROVE  Rows'
  <2>1. CASE Current # None /\ goal[Current] \in s
    BY <1>d, <1>f, <2>1 DEF Halts
  <2>2. CASE ~(Current # None /\ goal[Current] \in s)
    BY <1>e, <1>f, <2>2 DEF Halts
  <2> QED
    BY <2>1, <2>2
<1>1. ASSUME NEW g \in GoalIds, CreateGoal(g) PROVE Rows'
  BY <1>1 DEF CreateGoal, OpRecord, Idle, rowVars, opVars, historyVars
<1>2. ASSUME NEW g \in GoalIds, UserTransitions(g) PROVE Rows'
  BY <1>2 DEF UserTransitions, Reads, OpRecord, Idle, rowVars, opVars, historyVars
<1>3. ASSUME NEW g \in GoalIds, RetryBegins(g) PROVE Rows'
  BY <1>3 DEF RetryBegins, OpRecord, Idle, rowVars, opVars, historyVars
<1>4. ASSUME NEW g \in GoalIds, EditGoal(g) PROVE Rows'
  BY <1>4 DEF EditGoal, GoalMoves, FlowMoves, OpRecord, Idle, rowVars, opVars, historyVars
<1>5. ASSUME NEW g \in GoalIds, MovePlan(g) PROVE Rows'
  BY <1>5 DEF MovePlan, FlowMoves, OpRecord, Idle, rowVars, opVars, historyVars
<1>6. ASSUME NEW a \in Actors, MoveGoal(a) PROVE Rows'
  <2> USE DEF MoveGoal, OpRecord, historyVars
  <2>1. CASE a \in goalSeen
    <3>1. /\ op[a].on \in GoalIds /\ goal[op[a].on] \in GOAL_ACTIVE_STATUSES
          /\ op[a].to \in Statuses
      BY <1>6, <2>1
    <3>2. /\ op'[a].at = "flowRead" /\ op'[a].on = op[a].on /\ op'[a].to = op[a].to
          /\ \A b \in Actors \ {a} : op'[b] = op[b]
      BY <1>6, <2>1
    <3>3. SeenInv'
      BY <1>6, <2>1, <3>1, <3>2 DEF GoalMoves
    <3>4. /\ goal' = [goal EXCEPT ![op[a].on] = op[a].to]
          /\ flow' = flow /\ torn' = torn /\ byRun' = byRun
      BY <1>6, <2>1
    <3>5. ASSUME NEW g \in GoalIds, goal'[g] \in GOAL_TERMINAL_STATUSES, flow'[g] # "ended"
          PROVE  g \in torn' \/ Ending(g)'
      <4>1. CASE g = op[a].on
        <5>1. a \in Actors /\ op'[a].on = g /\ op'[a].at = "flowRead"
          BY <3>2, <4>1
        <5>2. op'[a].to \in GOAL_TERMINAL_STATUSES
          BY <3>2, <3>4, <3>5, <4>1, <1>a
        <5> QED
          BY <5>1, <5>2
      <4>2. CASE g # op[a].on
        <5>1. g \in torn \/ Ending(g)
          BY <3>4, <3>5, <4>2, <1>a
        <5>2. \A b \in Actors : op[b].on = g => op'[b] = op[b]
          BY <3>2, <4>2
        <5> QED
          BY <3>4, <5>1, <5>2
      <4> QED
        BY <4>1, <4>2
    <3>6. CompletedByRunStays'
      BY <3>1, <3>4
    <3> QED
      BY <3>3, <3>5, <3>6
  <2>2. CASE a \notin goalSeen
    BY <1>6, <2>2 DEF Idle
  <2> QED
    BY <2>1, <2>2
<1>7. ASSUME NEW a \in Actors, ReadFlow(a) PROVE Rows'
  <2> USE DEF ReadFlow, OpRecord, rowVars, historyVars
  <2>1. CASE flow[op[a].on] = "ended"
    BY <1>7, <2>1 DEF Idle
  <2>2. CASE flow[op[a].on] # "ended"
    <3>1. /\ op'[a].at = "flow" /\ op'[a].on = op[a].on /\ op'[a].to = op[a].to
          /\ \A b \in Actors \ {a} : op'[b] = op[b]
      BY <1>7, <2>2
    <3>2. SeenInv'
      BY <1>7, <2>2, <3>1
    <3>3. EndInv' /\ CompletedByRunStays'
      BY <1>7, <2>2, <3>1
    <3> QED
      BY <3>2, <3>3
  <2> QED
    BY <2>1, <2>2
<1>8. ASSUME NEW a \in Actors, MoveFlow(a) PROVE Rows'
  <2>1. op'[a] = Idle /\ \A b \in Actors \ {a} : op'[b] = op[b]
    BY <1>8 DEF MoveFlow
  <2>2. op[a].at = "flow" /\ op[a].on \in GoalIds /\ goal' = goal /\ goalSeen' = goalSeen
    BY <1>8 DEF MoveFlow
  <2>3. CASE a \in flowSeen
    <3>1. /\ flow' = [flow EXCEPT ![op[a].on] = FlowStatus(op[a].to)]
          /\ torn' = torn /\ byRun' = byRun /\ FlowMoves(op[a].on)
          /\ flow[op[a].on] # "ended"
      BY <1>8, <2>3 DEF MoveFlow
    <3>2. SeenInv'
      BY <2>1, <2>2, <3>1 DEF FlowMoves, Idle
    <3>3. EndInv'
      BY <2>1, <2>2, <3>1 DEF FlowStatus
    <3> QED
      BY <2>2, <3>1, <3>2, <3>3
  <2>4. CASE a \notin flowSeen
    <3>1. torn' = torn \cup {op[a].on} /\ flow' = flow /\ flowSeen' = flowSeen /\ byRun' = byRun
      BY <1>8, <2>4 DEF MoveFlow
    <3> QED
      BY <2>1, <2>2, <3>1 DEF Idle
  <2> QED
    BY <2>3, <2>4
<1>9. CASE RetryReadsFlow
  BY <1>9 DEF RetryReadsFlow, OpRecord, Idle, rowVars, opVars, historyVars
<1>10. CASE Retry
  <2>1. op'[User] = Idle /\ \A b \in Actors \ {User} : op'[b] = op[b]
    BY <1>10 DEF Retry
  <2>2. op[User].at = "retry" /\ op[User].on \in GoalIds /\ byRun' = byRun /\ torn' = torn
    BY <1>10 DEF Retry, historyVars
  <2>3. CASE User \in goalSeen \cap flowSeen
    <3>1. /\ goal' = [goal EXCEPT ![op[User].on] = "active"]
          /\ flow' = [flow EXCEPT ![op[User].on] = "active"]
          /\ GoalMoves(op[User].on) /\ FlowMoves(op[User].on)
          /\ goal[op[User].on] = "blocked"
      BY <1>10, <2>2, <2>3 DEF Retry
    <3>2. SeenInv'
      BY <2>1, <2>2, <3>1 DEF GoalMoves, FlowMoves, Idle
    <3> QED
      BY <2>1, <2>2, <3>1, <3>2
  <2>4. CASE User \notin goalSeen \cap flowSeen
    <3>1. /\ goal' = goal /\ flow' = flow
          /\ goalSeen' \subseteq goalSeen /\ flowSeen' \subseteq flowSeen
      BY <1>10, <2>4 DEF Retry
    <3> QED
      BY <2>1, <2>2, <3>1 DEF Idle
  <2> QED
    BY <2>3, <2>4
<1>11. ASSUME NEW r \in Runs, StartRun(r) PROVE Rows'
  BY <1>11 DEF StartRun, At, OpRecord, Idle, rowVars, opVars, historyVars
<1>12. ASSUME NEW r \in Runs, StartFails(r) PROVE Rows'
  BY <1>12 DEF StartFails, At, OpRecord, Idle, rowVars, opVars, historyVars
<1>13. ASSUME NEW r \in Runs, BeginRun(r) PROVE Rows'
  BY <1>13 DEF BeginRun, At, FlowMoves, OpRecord, Idle, rowVars, opVars, historyVars
<1>14. ASSUME NEW r \in Runs, AgentTransitions(r) PROVE Rows'
  BY <1>14 DEF AgentTransitions, At, Reads, OpRecord, Idle, rowVars, opVars, historyVars
<1>15. ASSUME NEW r \in Runs, AgentAsks(r) PROVE Rows'
  BY <1>15 DEF AgentAsks, At, OpRecord, Idle, rowVars, opVars, historyVars
<1>16. ASSUME NEW r \in Runs, StageReadsFlow(r) PROVE Rows'
  BY <1>16 DEF StageReadsFlow, OpRecord, Idle, rowVars, opVars, historyVars
<1>17. ASSUME NEW r \in Runs, Stage(r) PROVE Rows'
  BY <1>17 DEF Stage, FlowMoves, OpRecord, Idle, rowVars, opVars, historyVars
<1>18. ASSUME NEW r \in Runs, EndSlice(r) PROVE Rows'
  BY <1>18 DEF EndSlice, At, OpRecord, Idle, rowVars, opVars, historyVars
<1>19. ASSUME NEW r \in Runs, ObserveNothing(r) PROVE Rows'
  BY <1>19 DEF ObserveNothing, At, OpRecord, Idle, rowVars, opVars, historyVars
<1>20. ASSUME NEW r \in Runs, Observe(r) PROVE Rows'
  <2>1. op' = op /\ byRun' = byRun /\ torn' = torn
    BY <1>20 DEF Observe, historyVars
  <2>2. CASE goal' = goal /\ flow' = flow
    <3>1. goalSeen' \subseteq goalSeen /\ flowSeen' \subseteq flowSeen
      BY <1>20 DEF Observe, GoalMoves, FlowMoves
    <3> QED
      BY <2>1, <2>2, <3>1
  <2>3. CASE ~(goal' = goal /\ flow' = flow)
    <3>1. PICK g \in GoalIds : /\ goal[g] = "active"
                               /\ goal' = [goal EXCEPT ![g] = "blocked"]
                               /\ flow' = [flow EXCEPT ![g] = "halted"]
                               /\ GoalMoves(g) /\ FlowMoves(g)
      BY <1>20, <2>3 DEF Observe
    <3>2. SeenInv'
      BY <2>1, <3>1 DEF GoalMoves, FlowMoves
    <3> QED
      BY <2>1, <3>1, <3>2
  <2> QED
    BY <2>2, <2>3
<1>21. ASSUME NEW r \in Runs, Check(r) PROVE Rows'
  BY <1>21 DEF Check, At, OpRecord, Idle, rowVars, opVars, historyVars
<1>22. ASSUME NEW r \in Runs, Continue(r) PROVE Rows'
  BY <1>22 DEF Continue, At, GoalMoves, FlowMoves, OpRecord, Idle, rowVars, opVars,
         historyVars
<1>23. ASSUME NEW r \in Runs, Halt(r) PROVE Rows'
  BY <1>23, <1>f DEF Halt, historyVars
<1>24. ASSUME NEW r \in Runs, EndRun(r) PROVE Rows'
  BY <1>24 DEF EndRun, At, OpRecord, Idle, rowVars, opVars, historyVars
<1>25. ASSUME NEW r \in Runs, RecordEnd(r) PROVE Rows'
  <2>1. op' = op /\ torn' = torn /\ run[r].held \in GoalIds
    BY <1>25 DEF RecordEnd, At
  <2>2. CASE goal' = goal /\ flow' = flow /\ byRun' = byRun
    <3>1. goalSeen' \subseteq goalSeen /\ flowSeen' \subseteq flowSeen
      BY <1>25 DEF RecordEnd, GoalMoves, FlowMoves, rowVars
    <3> QED
      BY <2>1, <2>2, <3>1
  <2>3. CASE ~(goal' = goal /\ flow' = flow /\ byRun' = byRun)
    <3> DEFINE g == run[r].held
    <3>1. /\ goal' = [goal EXCEPT ![g] = "completed"]
          /\ flow' = [flow EXCEPT ![g] = "ended"]
          /\ byRun' = byRun \cup {g}
          /\ GoalMoves(g) /\ FlowMoves(g)
      BY <1>25, <2>3 DEF RecordEnd, rowVars
    <3>2. SeenInv'
      BY <2>1, <3>1 DEF GoalMoves, FlowMoves
    <3> QED
      BY <2>1, <3>1, <3>2
  <2> QED
    BY <2>2, <2>3
<1>26. ASSUME NEW r \in Runs, AfterRun(r) PROVE Rows'
  <2>1. CASE run[r].outcome = "completed"
    BY <1>26, <2>1, <1>e DEF AfterRun, historyVars
  <2>2. CASE run[r].outcome = "failed"
    BY <1>26, <2>2, <1>f DEF AfterRun, historyVars
  <2>3. CASE run[r].outcome = "cancelled"
    BY <1>26, <2>3, <1>f DEF AfterRun, historyVars
  <2>4. run[r].outcome \in Outcomes
    BY RunParts DEF TypeOK
  <2> QED
    BY <2>1, <2>2, <2>3, <2>4 DEF Outcomes
<1>27. CASE Restart
  <2>1. /\ \A a \in Actors : op'[a] = Idle
        /\ \A a \in Actors : op[a].at \in {"flowRead", "flow"} => op[a].on \in torn'
        /\ torn \subseteq torn' /\ byRun' = byRun
    BY <1>27 DEF Restart
  <2>2. \A g \in GoalIds : IF goal[g] = "active"
                             THEN goal'[g] = "waiting" /\ flow'[g] = "halted"
                             ELSE goal'[g] = goal[g] /\ flow'[g] = flow[g]
    BY <1>27 DEF Restart
  <2>3. SeenInv'
    BY <2>1 DEF Idle
  <2>4. EndInv'
    BY <2>1, <2>2
  <2>5. CompletedByRunStays'
    BY <2>1, <2>2
  <2> QED
    BY <2>3, <2>4, <2>5
<1>28. CASE UNCHANGED vars
  BY <1>28 DEF vars, rowVars, opVars, historyVars
<1> QED
  BY <1>1, <1>2, <1>3, <1>4, <1>5, <1>6, <1>7, <1>8, <1>9, <1>10, <1>11, <1>12, <1>13, <1>14,
     <1>15, <1>16, <1>17, <1>18, <1>19, <1>20, <1>21, <1>22, <1>23, <1>24, <1>25, <1>26,
     <1>27, <1>28
     DEF Next, UserActs, RunActs, Transition

\* How a step may change the worker of a Run: it is over, or the invocations do not
\* count back and what it last asked for stays.
Later(x, y) ==
    \/ y = Ended
    \/ y.asked = x.asked /\ x.slice <= y.slice /\ x.work # "done"

\* A step of one worker alone.
Moves(r) ==
    /\ \A q \in Runs \ {r} : run'[q] = run[q] /\ op'[q] = op[q]
    /\ WorkOK(r, run'[r]) /\ OpOK(r)' /\ Later(run[r], run'[r])

\* A step of one worker that puts no request on record keeps the promises.
LEMMA OneMoves ==
    ASSUME TypeOK, TypeOK', WorkInv, AskedInv, NEW r \in Runs, Moves(r),
           \A g \in GoalIds : pending'[g] \in {pending[g], None}
    PROVE  WorkInv' /\ AskedInv'
<1>1. WorkInv'
  BY DEF WorkInv, Moves, OpOK
<1>2. /\ run[r] \in RunRecord /\ run'[r] \in RunRecord
      /\ \A g \in GoalIds : pending[g] \in Invocations \cup {None}
  BY DEF TypeOK
<1>3. /\ run[r].slice \in Nat /\ run'[r].slice \in Nat
      /\ run[r].asked # None => run[r].asked[2] \in Nat
  BY <1>2, GoalAssumption DEF RunRecord, Invocations
<1>4. ASSUME NEW q \in Runs
      PROVE  /\ run'[q].asked # None =>
                    run'[q].asked[1] = q /\ run'[q].asked[2] <= run'[q].slice
             /\ run'[q].work # "done" =>
                    \A g \in GoalIds :
                        pending'[g] # None /\ pending'[g][1] = q =>
                            run'[q].asked # None /\ pending'[g][2] <= run'[q].asked[2]
  <2>1. CASE q # r
    BY <2>1 DEF Moves, AskedInv
  <2>2. CASE q = r /\ run'[r] = Ended
    BY <2>2 DEF Ended, NewRun
  <2>3. CASE q = r /\ run'[r] # Ended
    <3>1. run'[r].asked = run[r].asked /\ run[r].slice <= run'[r].slice /\ run[r].work # "done"
      BY <2>3 DEF Moves, Later
    <3>2. /\ run[r].asked # None => run[r].asked[1] = r /\ run[r].asked[2] <= run[r].slice
          /\ \A g \in GoalIds :
                 pending[g] # None /\ pending[g][1] = r =>
                     run[r].asked # None /\ pending[g][2] <= run[r].asked[2]
      BY <3>1 DEF AskedInv
    <3> QED
      BY <1>3, <2>3, <3>1, <3>2
  <2> QED
    BY <2>1, <2>2, <2>3
<1> QED
  BY <1>1, <1>4 DEF AskedInv

\* Every step keeps what the workers promise.
LEMMA WorkStep ==
    TypeOK /\ TypeOK' /\ SeenInv /\ WorkInv /\ AskedInv /\ [Next]_vars => WorkInv' /\ AskedInv'
<1> DEFINE Work == WorkInv /\ AskedInv
<1> SUFFICES ASSUME TypeOK, TypeOK', Work, [Next]_vars
             PROVE  Work'
  OBVIOUS
<1>a. /\ run \in [Runs -> RunRecord] /\ op \in [Actors -> OpRecord]
      /\ run' \in [Runs -> RunRecord] /\ op' \in [Actors -> OpRecord]
  BY DEF TypeOK
<1>b. \A r \in Runs : WorkOK(r, run[r]) /\ OpOK(r)
  BY DEF WorkInv
<1>c. Runs \subseteq Actors /\ User \in Actors /\ User \notin Runs
  BY GoalAssumption DEF Actors
<1>d. ASSUME NEW r \in Runs, Moves(r), pending' = pending PROVE Work'
  BY <1>d, OneMoves
<1>e. ASSUME run' = run, pending' = pending,
             \A r \in Runs : op'[r].at # "idle" => run[r].work = "slice" \/ op[r].at # "idle"
      PROVE  Work'
  BY <1>b, <1>e DEF WorkInv, AskedInv, OpOK
<1>f. ASSUME NEW a \in Actors, op[a].at # "idle", op' = [op EXCEPT ![a] = Idle],
             NEW ok, WorkAfter(a, ok), pending' = pending
      PROVE  Work'
  <2>1. CASE a = User \/ run[a].work = "slice"
    <3>1. run' = run
      BY <1>f, <2>1, <1>c DEF WorkAfter, Actors
    <3>2. \A r \in Runs : op'[r].at # "idle" => op[r].at # "idle"
      BY <1>f, <1>a DEF Idle
    <3> QED
      BY <1>e, <1>f, <3>1, <3>2
  <2>2. CASE a # User /\ run[a].work = "settling"
    <3>1. a \in Runs /\ Becomes(a, Ended)
      BY <1>f, <2>2 DEF WorkAfter, Actors
    <3>2. Moves(a)
      BY <3>1, <1>a, <1>c, <1>f DEF Moves, Becomes, WorkOK, OpOK, Later, Ended, NewRun, Idle
    <3> QED
      BY <1>d, <1>f, <3>1, <3>2
  <2>3. CASE a # User /\ run[a].work \notin {"slice", "settling"}
    <3>1. a \in Runs /\ \E o \in Outcomes : Ends(a, o)
      BY <1>f, <2>3 DEF WorkAfter, Actors, Outcomes
    <3>2. run[a].work = "halting" /\ run[a].invocation = <<a, run[a].slice>>
      BY <1>b, <1>f, <2>3, <3>1 DEF OpOK, WorkOK
    <3>3. Moves(a)
      BY <3>1, <3>2, <1>a, <1>c, <1>f
      DEF Moves, Ends, Becomes, WorkOK, OpOK, Later, RunRecord, Idle
    <3> QED
      BY <1>d, <1>f, <3>1, <3>3
  <2> QED
    BY <2>1, <2>2, <2>3
<1>g. ASSUME NEW r \in Runs, op[r] = Idle, run[r].work # "done", pending' = pending,
             NEW w \in {"halting", "settling"}, NEW x, NEW s, NEW status,
             Halts(r, w, x, s, status), WorkOK(r, x), Later(run[r], x),
             w = "halting" => run[r].invocation = <<r, run[r].slice>>
      PROVE  Work'
  <2>1. CASE Current # None /\ goal[Current] \in s
    <3>1. /\ run' = [run EXCEPT ![r].work = w]
          /\ \A q \in Runs \ {r} : op'[q] = op[q]
      BY <1>a, <1>c, <1>g, <2>1 DEF Halts, Goes, Reads
    <3>2. Moves(r)
      BY <3>1, <1>a, <1>g DEF Moves, WorkOK, OpOK, Later, RunRecord
    <3> QED
      BY <1>d, <1>g, <3>2
  <2>2. CASE ~(Current # None /\ goal[Current] \in s)
    <3>1. Becomes(r, x) /\ op' = op
      BY <1>g, <2>2 DEF Halts, opVars
    <3>2. Moves(r)
      BY <3>1, <1>a, <1>g DEF Moves, Becomes, OpOK, Idle
    <3> QED
      BY <1>d, <1>g, <3>2
  <2> QED
    BY <2>1, <2>2
<1>h. ASSUME NEW r \in Runs, NEW x, Becomes(r, x), op' = op, op[r] = Idle,
             WorkOK(r, x), Later(run[r], x)
      PROVE  Moves(r)
  BY <1>a, <1>h DEF Becomes, Moves, OpOK, Idle
<1>i. ASSUME NEW r \in Runs, NEW w, Goes(r, w), op' = op, op[r] = Idle,
             WorkOK(r, [run[r] EXCEPT !.work = w]), Later(run[r], [run[r] EXCEPT !.work = w])
      PROVE  Moves(r)
  <2>1. Becomes(r, [run[r] EXCEPT !.work = w])
    BY <1>a, <1>i DEF Goes, Becomes
  <2> QED
    BY <1>h, <1>i, <2>1
<1>j. \A r \in Runs : run[r] \in RunRecord /\ run[r].slice \in Nat
  BY <1>a DEF RunRecord
<1>k. ASSUME NEW r \in Runs, run[r].work \in {"observe", "observeLimit"},
             NEW w \in {"check", "continue", "end"}, NEW o \in Outcomes
      PROVE  /\ WorkOK(r, [Observed(r) EXCEPT !.work = w])
             /\ Later(run[r], [Observed(r) EXCEPT !.work = w])
             /\ WorkOK(r, [Observed(r) EXCEPT !.work = w, !.outcome = o])
             /\ Later(run[r], [Observed(r) EXCEPT !.work = w, !.outcome = o])
  BY <1>j, <1>k DEF Observed, WorkOK, Later, RunRecord
<1> HIDE DEF Work
<1> USE <1>a, <1>b, <1>c
<1>1. ASSUME NEW g \in GoalIds, CreateGoal(g) PROVE Work'
  BY <1>1, <1>e DEF CreateGoal, opVars
<1>2. ASSUME NEW g \in GoalIds, UserTransitions(g) PROVE Work'
  BY <1>2, <1>e DEF UserTransitions, Reads, rowVars
<1>3. ASSUME NEW g \in GoalIds, RetryBegins(g) PROVE Work'
  BY <1>3, <1>e DEF RetryBegins, rowVars
<1>4. ASSUME NEW g \in GoalIds, EditGoal(g) PROVE Work'
  BY <1>4, <1>e DEF EditGoal, rowVars
<1>5. ASSUME NEW g \in GoalIds, MovePlan(g) PROVE Work'
  BY <1>5, <1>e DEF MovePlan
<1>6. ASSUME NEW a \in Actors, MoveGoal(a) PROVE Work'
  <2>1. CASE a \in goalSeen
    <3>1. /\ run' = run /\ pending' = pending /\ op[a].at = "goal"
          /\ \A b \in Actors \ {a} : op'[b] = op[b]
      BY <1>6, <2>1 DEF MoveGoal
    <3> QED
      BY <1>e, <3>1
  <2>2. CASE a \notin goalSeen
    BY <1>6, <2>2, <1>f DEF MoveGoal
  <2> QED
    BY <2>1, <2>2
<1>7. ASSUME NEW a \in Actors, ReadFlow(a) PROVE Work'
  <2>1. CASE flow[op[a].on] = "ended"
    BY <1>7, <2>1, <1>f DEF ReadFlow, rowVars
  <2>2. CASE flow[op[a].on] # "ended"
    <3>1. /\ run' = run /\ pending' = pending /\ op[a].at = "flowRead"
          /\ \A b \in Actors \ {a} : op'[b] = op[b]
      BY <1>7, <2>2 DEF ReadFlow, rowVars
    <3> QED
      BY <1>e, <3>1
  <2> QED
    BY <2>1, <2>2
<1>8. ASSUME NEW a \in Actors, MoveFlow(a) PROVE Work'
  BY <1>8, <1>f DEF MoveFlow
<1>9. CASE RetryReadsFlow
  BY <1>9, <1>e DEF RetryReadsFlow, rowVars
<1>10. CASE Retry
  BY <1>10, <1>e DEF Retry, Idle
<1>11. ASSUME NEW r \in Runs, StartRun(r) PROVE Work'
  <2>1. op' = op /\ op[r] = Idle /\ pending' = pending
    BY <1>11 DEF StartRun, At, rowVars, opVars
  <2> DEFINE x == [run[r] EXCEPT !.work = "begin"]
  <2>2. Moves(r)
    <3>1. WorkOK(r, x) /\ Later(run[r], x)
      BY <1>11, <1>j DEF StartRun, At, WorkOK, Later, RunRecord
    <3> QED
      BY <1>11, <1>i, <2>1, <3>1 DEF StartRun
  <2> QED
    BY <1>d, <2>1, <2>2
<1>12. ASSUME NEW r \in Runs, StartFails(r) PROVE Work'
  <2>1. op' = op /\ op[r] = Idle /\ pending' = pending
    BY <1>12 DEF StartFails, At, rowVars, opVars
  <2> DEFINE x == [NewRun EXCEPT !.work = "end", !.began = "with", !.outcome = "failed"]
  <2>2. Moves(r)
    <3>1. run[r] = NewRun
      BY <1>12 DEF StartFails, At, WorkOK
    <3>2. WorkOK(r, x) /\ Later(NewRun, x)
      BY DEF WorkOK, Later, NewRun
    <3> QED
      BY <1>12, <1>h, <2>1, <3>1, <3>2 DEF StartFails
  <2> QED
    BY <1>d, <2>1, <2>2
<1>13. ASSUME NEW r \in Runs, BeginRun(r) PROVE Work'
  <2>1. op' = op /\ op[r] = Idle /\ pending' = pending
    BY <1>13 DEF BeginRun, At, rowVars
  <2> DEFINE x(b) == [run[r] EXCEPT !.work = "slice", !.began = b]
  <2>2. ASSUME NEW b PROVE WorkOK(r, x(b)) /\ Later(run[r], x(b))
    BY <1>13, <1>j DEF BeginRun, At, WorkOK, Later, RunRecord
  <2>3. Moves(r)
    BY <1>13, <1>h, <2>1, <2>2 DEF BeginRun
  <2> QED
    BY <1>d, <2>1, <2>3
<1>14. ASSUME NEW r \in Runs, AgentTransitions(r) PROVE Work'
  BY <1>14, <1>e DEF AgentTransitions, Reads, At, rowVars
<1>15. ASSUME NEW r \in Runs, AgentAsks(r) PROVE Work'
  BY <1>15, <1>e DEF AgentAsks, At, rowVars
<1>16. ASSUME NEW r \in Runs, StageReadsFlow(r) PROVE Work'
  BY <1>16, <1>e DEF StageReadsFlow, rowVars
<1>17. ASSUME NEW r \in Runs, Stage(r) PROVE Work'
  <2>1. /\ op[r].at = "stage" /\ op' = [op EXCEPT ![r] = Idle]
        /\ run[r].work \in {"slice", "halting", "settling"}
    BY <1>17 DEF Stage, OpOK
  <2>2. CASE r \notin flowSeen
    BY <1>17, <1>e, <2>1, <2>2 DEF Stage, Idle
  <2>3. CASE r \in flowSeen
    <3> DEFINE this == <<r, run[r].slice>>
    <3>1. /\ pending' = [pending EXCEPT ![op[r].on] = this]
          /\ run' = [run EXCEPT ![r].asked = this]
      BY <1>17, <2>3 DEF Stage
    <3>2. WorkInv'
      BY <2>1, <3>1 DEF WorkInv, WorkOK, OpOK, RunRecord, Idle
    <3>3. AskedInv'
      <4>1. \A g \in GoalIds : /\ pending[g] \in Invocations \cup {None}
                               /\ pending'[g] \in {pending[g], this}
        BY <3>1 DEF TypeOK
      <4>2. \A q \in Runs \ {r} : run'[q] = run[q]
        BY <3>1
      <4>3. run'[r].asked = this /\ run'[r].slice = run[r].slice /\ run[r].slice \in Nat
        BY <3>1, <1>j DEF RunRecord
      <4>4. this # None /\ this[1] = r /\ this[2] = run[r].slice
        BY <1>j, GoalAssumption DEF Invocations, RunRecord
      <4>5. \A q \in Runs \ {r}, g \in GoalIds :
                pending'[g] # None /\ pending'[g][1] = q => pending'[g] = pending[g]
        BY <4>1, <4>4
      <4>6. \A g \in GoalIds :
                pending[g] # None /\ pending[g][1] = r => pending[g][2] <= run[r].slice
        <5>1. run[r].asked # None => run[r].asked[2] \in Nat
          BY <1>j, GoalAssumption DEF RunRecord, Invocations
        <5>2. \A g \in GoalIds : pending[g] # None => pending[g][2] \in Nat
          BY <4>1, GoalAssumption DEF Invocations
        <5> QED
          BY <1>j, <2>1, <5>1, <5>2 DEF AskedInv, Work
      <4>7. ASSUME NEW q \in Runs, q # r
            PROVE  /\ run'[q].asked # None =>
                          run'[q].asked[1] = q /\ run'[q].asked[2] <= run'[q].slice
                   /\ run'[q].work # "done" =>
                          \A g \in GoalIds :
                              pending'[g] # None /\ pending'[g][1] = q =>
                                  run'[q].asked # None /\ pending'[g][2] <= run'[q].asked[2]
        BY <4>2, <4>5, <4>7 DEF AskedInv, Work
      <4>8. \A g \in GoalIds :
                pending'[g] # None /\ pending'[g][1] = r => pending'[g][2] <= run[r].slice
        BY <4>1, <4>3, <4>4, <4>6
      <4>9. /\ run'[r].asked # None /\ run'[r].asked[1] = r
            /\ run'[r].asked[2] = run[r].slice /\ run'[r].asked[2] <= run'[r].slice
        BY <4>3, <4>4
      <4> QED
        BY <4>7, <4>8, <4>9 DEF AskedInv
    <3> QED
      BY <3>2, <3>3 DEF Work
  <2> QED
    BY <2>2, <2>3
<1>18. ASSUME NEW r \in Runs, EndSlice(r) PROVE Work'
  <2>1. op' = op /\ op[r] = Idle /\ pending' = pending
    BY <1>18 DEF EndSlice, At, rowVars, opVars
  <2>2. CASE Goes(r, "observe") \/ Goes(r, "observeLimit")
    <3>1. \A w \in {"observe", "observeLimit"} :
              WorkOK(r, [run[r] EXCEPT !.work = w]) /\ Later(run[r], [run[r] EXCEPT !.work = w])
      BY <1>18, <1>j DEF EndSlice, At, WorkOK, Later, RunRecord
    <3>2. Moves(r)
      BY <1>i, <2>1, <2>2, <3>1
    <3> QED
      BY <1>d, <2>1, <3>2
  <2>3. CASE Ends(r, "failed") \/ Ends(r, "cancelled")
    <3> DEFINE x(o) == [run[r] EXCEPT !.work = "end", !.outcome = o]
    <3>1. \A o \in {"failed", "cancelled"} : WorkOK(r, x(o)) /\ Later(run[r], x(o))
      BY <1>18, <1>j DEF EndSlice, At, WorkOK, Later, RunRecord
    <3> QED
      BY <1>d, <1>h, <2>1, <2>3, <3>1 DEF Ends
  <2> QED
    BY <1>18, <2>2, <2>3 DEF EndSlice
<1>19. ASSUME NEW r \in Runs, ObserveNothing(r) PROVE Work'
  <2>1. op' = op /\ op[r] = Idle /\ pending' = pending
    BY <1>19 DEF ObserveNothing, At, rowVars, opVars
  <2>2. run[r].work \in {"observe", "observeLimit"}
    BY <1>19 DEF ObserveNothing, At
  <2>3. Moves(r)
    BY <1>19, <1>h, <1>k, <2>1, <2>2 DEF ObserveNothing, Outcomes
  <2> QED
    BY <1>d, <2>1, <2>3
<1>20. ASSUME NEW r \in Runs, Observe(r) PROVE Work'
  <2>1. op' = op /\ op[r] = Idle /\ pending' = pending
    BY <1>20 DEF Observe, At, rowVars
  <2>2. run[r].work \in {"observe", "observeLimit"}
    BY <1>20 DEF Observe, At
  <2>3. PICK w \in {"check", "continue", "end"}, o \in Outcomes :
            \/ Becomes(r, [Observed(r) EXCEPT !.work = w])
            \/ Becomes(r, [Observed(r) EXCEPT !.work = w, !.outcome = o])
    BY <1>20 DEF Observe, Outcomes
  <2>4. Moves(r)
    BY <1>h, <1>k, <2>1, <2>2, <2>3
  <2> QED
    BY <1>d, <2>1, <2>4
<1>21. ASSUME NEW r \in Runs, Check(r) PROVE Work'
  <2>1. op' = op /\ op[r] = Idle /\ pending' = pending
    BY <1>21 DEF Check, At, rowVars, opVars
  <2>2. ASSUME NEW w \in {"wait", "continue", "end"}
        PROVE  /\ WorkOK(r, [run[r] EXCEPT !.work = w])
               /\ Later(run[r], [run[r] EXCEPT !.work = w])
    BY <1>21, <1>j DEF Check, At, WorkOK, Later, RunRecord
  <2>3. PICK w \in {"wait", "continue", "end"} : Goes(r, w)
    BY <1>21 DEF Check
  <2>4. Moves(r)
    BY <1>i, <2>1, <2>2, <2>3
  <2> QED
    BY <1>d, <2>1, <2>4
<1>22. ASSUME NEW r \in Runs, Continue(r) PROVE Work'
  <2>1. op' = op /\ op[r] = Idle /\ pending' = pending
    BY <1>22 DEF Continue, At, rowVars
  <2>2. CASE run[r].slice = MaxContinuations
    <3>1. ASSUME NEW w \in {"wait", "block"}
          PROVE  /\ WorkOK(r, [run[r] EXCEPT !.work = w])
                 /\ Later(run[r], [run[r] EXCEPT !.work = w])
      BY <1>22, <1>j DEF Continue, At, WorkOK, Later, RunRecord
    <3>2. PICK w \in {"wait", "block"} : Goes(r, w)
      BY <1>22, <2>2 DEF Continue
    <3>3. Moves(r)
      BY <1>i, <2>1, <3>1, <3>2
    <3> QED
      BY <1>d, <2>1, <3>3
  <2>3. CASE run[r].slice # MaxContinuations
    <3> DEFINE x == [run[r] EXCEPT !.work = "slice", !.slice = @ + 1]
    <3>1. WorkOK(r, x) /\ Later(run[r], x)
      BY <1>22, <1>j DEF Continue, At, WorkOK, Later, RunRecord
    <3>2. Moves(r)
      BY <1>22, <1>h, <2>1, <2>3, <3>1 DEF Continue
    <3> QED
      BY <1>d, <2>1, <3>2
  <2> QED
    BY <2>2, <2>3
<1>23. ASSUME NEW r \in Runs, Halt(r) PROVE Work'
  <2>1. /\ op[r] = Idle /\ run[r].work \in {"wait", "block"} /\ pending' = pending
        /\ run[r].invocation = <<r, run[r].slice>>
    BY <1>23 DEF Halt, At, WorkOK, rowVars
  <2> DEFINE x == [run[r] EXCEPT !.work = "end"]
  <2>2. WorkOK(r, x) /\ Later(run[r], x)
    BY <2>1 DEF WorkOK, Later, RunRecord
  <2>3. \E s, status : Halts(r, "halting", x, s, status)
    BY <1>23 DEF Halt
  <2> QED
    BY <1>g, <2>1, <2>2, <2>3
<1>24. ASSUME NEW r \in Runs, EndRun(r) PROVE Work'
  <2>1. op' = op /\ op[r] = Idle /\ pending' = pending
    BY <1>24 DEF EndRun, At, rowVars, opVars
  <2> DEFINE x(w, h, o) == [run[r] EXCEPT !.work = w, !.held = h, !.outcome = o]
  <2>2. PICK o : /\ o # run[r].outcome => o = "failed"
                 /\ \/ Becomes(r, x("after", Current, o))
                    \/ Current # None /\ Becomes(r, x("endFact", Current, o))
    BY <1>24 DEF EndRun
  <2>3. ASSUME NEW w \in {"after", "endFact"}, w = "endFact" => Current # None
        PROVE  WorkOK(r, x(w, Current, o)) /\ Later(run[r], x(w, Current, o))
    BY <1>24, <1>j, <2>2, <2>3, CurrentFact DEF EndRun, At, WorkOK, Later, RunRecord
  <2>4. Moves(r)
    BY <1>h, <2>1, <2>2, <2>3
  <2> QED
    BY <1>d, <2>1, <2>4
<1>25. ASSUME NEW r \in Runs, RecordEnd(r) PROVE Work'
  <2>1. op' = op /\ op[r] = Idle /\ run[r].work = "endFact"
    BY <1>25 DEF RecordEnd, At
  <2>2. \A g \in GoalIds : pending'[g] \in {pending[g], None}
    BY <1>25 DEF RecordEnd, rowVars, TypeOK
  <2>3. CASE Ends(r, "failed")
    <3> DEFINE x == [run[r] EXCEPT !.work = "end", !.outcome = "failed"]
    <3>1. WorkOK(r, x) /\ Later(run[r], x)
      BY <1>j, <2>1 DEF WorkOK, Later, RunRecord
    <3> QED
      BY <1>h, <2>1, <2>2, <2>3, <3>1, OneMoves DEF Ends, Work
  <2> DEFINE x == [run[r] EXCEPT !.work = "after", !.held = None]
  <2>4. CASE Becomes(r, x)
    <3>1. WorkOK(r, x) /\ Later(run[r], x)
      BY <1>j, <2>1 DEF WorkOK, Later, RunRecord
    <3> QED
      BY <1>h, <2>1, <2>2, <2>4, <3>1, OneMoves DEF Work
  <2> QED
    BY <1>25, <2>3, <2>4 DEF RecordEnd
<1>26. ASSUME NEW r \in Runs, AfterRun(r) PROVE Work'
  <2>1. op[r] = Idle /\ run[r].work = "after" /\ pending' = pending
    BY <1>26 DEF AfterRun, At, rowVars
  <2>2. WorkOK(r, Ended) /\ Later(run[r], Ended)
    BY DEF WorkOK, Later, Ended, NewRun
  <2>3. CASE run[r].outcome = "completed"
    <3>1. Becomes(r, Ended) /\ op' = op
      BY <1>26, <2>3 DEF AfterRun, opVars
    <3>2. Moves(r)
      BY <2>1, <2>2, <3>1 DEF Moves, Becomes, OpOK, Idle
    <3> QED
      BY <1>d, <2>1, <3>2
  <2>4. CASE run[r].outcome = "failed"
    BY <1>26, <1>g, <2>1, <2>2, <2>4 DEF AfterRun
  <2>5. CASE run[r].outcome = "cancelled"
    BY <1>26, <1>g, <2>1, <2>2, <2>5 DEF AfterRun
  <2> QED
    BY <2>3, <2>4, <2>5, RunParts DEF Outcomes
<1>27. CASE Restart
  <2>1. /\ pending' = pending /\ \A r \in Runs : op'[r] = Idle
        /\ \A r \in Runs : run'[r] = IF run[r].work = "none" THEN NewRun ELSE Ended
    BY <1>27 DEF Restart
  <2>2. \A r \in Runs : run[r].work = "none" => run'[r] = run[r]
    BY <2>1 DEF WorkOK
  <2>3. WorkInv'
    BY <2>1 DEF WorkInv, WorkOK, OpOK, Ended, NewRun, Idle
  <2>4. AskedInv'
    BY <2>1, <2>2 DEF AskedInv, Work, Ended, NewRun
  <2> QED
    BY <2>3, <2>4 DEF Work
<1>28. CASE UNCHANGED vars
  BY <1>28 DEF vars, rowVars, opVars, Work, WorkInv, OpOK, AskedInv
<1> QED
  BY <1>1, <1>2, <1>3, <1>4, <1>5, <1>6, <1>7, <1>8, <1>9, <1>10, <1>11, <1>12, <1>13, <1>14,
     <1>15, <1>16, <1>17, <1>18, <1>19, <1>20, <1>21, <1>22, <1>23, <1>24, <1>25, <1>26,
     <1>27, <1>28
     DEF Next, UserActs, RunActs, Transition

-----------------------------------------------------------------------------
(* The theorems *)

\* The invariant holds in every reachable state.
LEMMA Invariance == Spec => []IInv
<1>1. IInv /\ [Next]_vars => IInv'
  BY TypeStep, RowStep, WorkStep DEF IInv
<1> QED
  BY InitIInv, <1>1, PTL DEF Spec

\* Goals, Flows, actors and worker threads keep their types, however many Runs of the
\* session work on its Goal at once.
THEOREM TypeCorrect == Spec => []TypeOK
<1>1. IInv => TypeOK
  BY DEF IInv
<1> QED
  BY <1>1, Invariance, PTL

\* What record_run_fact completed stays completed, with its Flow, whatever half of a
\* transition, observation or retry is still on its way.
THEOREM CompletedStays == Spec => []CompletedByRunStays
<1>1. IInv => CompletedByRunStays
  BY DEF IInv
<1> QED
  BY <1>1, Invariance, PTL

\* The two transactions of transition_goal leave no ended Goal with an open Flow once
\* nobody is between them any more, except where one was told of a conflict or died.
THEOREM EndedTogether == Spec => []EndedGoalHasEndedFlow
<1>1. IInv => EndedGoalHasEndedFlow
  BY DEF IInv, EndInv, Ending, EndedGoalHasEndedFlow
<1> QED
  BY <1>1, Invariance, PTL

\* No writer takes a Goal where the table of transitions does not lead from the status
\* it has at that moment: the revision stands for the status that was read.
THEOREM TransitionsFollowed == Spec => GoalFollowsTransitions
<1> DEFINE Follows ==
      \A g \in GoalIds :
          goal[g] \in Statuses /\ goal'[g] # goal[g] =>
              \/ goal'[g] \in GOAL_TRANSITIONS[goal[g]]
              \/ goal[g] = "paused" /\ goal'[g] = "completed" /\ g \in byRun'
<1>1. ASSUME IInv, [Next]_vars PROVE Follows
  <2> USE <1>1, TransitionFacts DEF IInv
  <2> USE DEF GOAL_ACTIVE_STATUSES, GOAL_TERMINAL_STATUSES, Statuses
  <2>a. goal \in [GoalIds -> Statuses \cup {"none"}]
    BY DEF TypeOK
  <2> HIDE DEF IInv
  <2>b. CASE goal' = goal
    BY <2>b
  <2>1. ASSUME NEW g \in GoalIds, CreateGoal(g) PROVE Follows
    BY <2>1, <2>a DEF CreateGoal
  <2>2. ASSUME NEW a \in Actors, MoveGoal(a) PROVE Follows
    <3>1. CASE a \in goalSeen
      <4>1. /\ op[a].on \in GoalIds /\ op[a].to \in GOAL_TRANSITIONS[goal[op[a].on]]
            /\ goal' = [goal EXCEPT ![op[a].on] = op[a].to]
        BY <2>2, <3>1 DEF MoveGoal, SeenInv, IInv
      <4> QED
        BY <4>1, <2>a
    <3>2. CASE a \notin goalSeen
      BY <2>2, <3>2 DEF MoveGoal
    <3> QED
      BY <3>1, <3>2
  <2>3. CASE Retry
    <3>1. CASE User \in goalSeen \cap flowSeen
      <4>1. /\ op[User].on \in GoalIds /\ goal[op[User].on] = "blocked"
            /\ goal' = [goal EXCEPT ![op[User].on] = "active"]
        BY <2>3, <3>1 DEF Retry, SeenInv, IInv, Actors
      <4> QED
        BY <4>1, <2>a
    <3>2. CASE User \notin goalSeen \cap flowSeen
      BY <2>3, <3>2 DEF Retry
    <3> QED
      BY <3>1, <3>2
  <2>4. ASSUME NEW r \in Runs, Observe(r) PROVE Follows
    <3> DEFINE g == Current
    <3>1. \/ goal' = goal
          \/ goal[g] = "active" /\ goal' = [goal EXCEPT ![g] = "blocked"]
      BY <2>4 DEF Observe
    <3> QED
      BY <3>1, <2>a
  <2>5. ASSUME NEW r \in Runs, RecordEnd(r) PROVE Follows
    <3>1. PICK g : goal' = goal \/ /\ goal[g] \in GOAL_ACTIVE_STATUSES
                                   /\ goal' = [goal EXCEPT ![g] = "completed"]
                                   /\ byRun' = byRun \cup {g}
      BY <2>5 DEF RecordEnd, rowVars
    <3> QED
      BY <3>1, <2>a
  <2>6. CASE Restart
    BY <2>6, <2>a DEF Restart
  <2>7. CASE ~(\/ \E g \in GoalIds : CreateGoal(g)
               \/ \E a \in Actors : MoveGoal(a)
               \/ Retry \/ Restart
               \/ \E r \in Runs : Observe(r) \/ RecordEnd(r))
    <3>1. goal' = goal
      BY <1>1, <2>7
      DEF Next, UserActs, RunActs, Transition, UserTransitions, RetryBegins, EditGoal,
          MovePlan, ReadFlow, MoveFlow, RetryReadsFlow, StartRun, StartFails, BeginRun,
          AgentTransitions, AgentAsks, StageReadsFlow, Stage, EndSlice, ObserveNothing,
          Check, Continue, Halt, EndRun, AfterRun, rowVars, vars, Actors
    <3> QED
      BY <2>b, <3>1
  <2> QED
    BY <2>1, <2>2, <2>3, <2>4, <2>5, <2>6, <2>7
<1>2. IInv /\ [Next]_vars => [Follows]_vars
  BY <1>1
<1> QED
  BY <1>2, Invariance, PTL DEF Spec, GoalFollowsTransitions

\* A Goal is completed by a Run's success only on the request of that Run's last
\* invocation, whatever requests other Runs and earlier lives of the Node have left.
THEOREM AskedFor == Spec => CompletionWasAsked
<1> DEFINE Asked ==
      \A g \in byRun' \ byRun :
          \E r \in Runs :
              /\ run'[r] # run[r] /\ run[r].held = g
              /\ run[r].outcome = "completed"
              /\ run[r].asked # None /\ run[r].asked = run[r].invocation
<1>1. ASSUME IInv, [Next]_vars PROVE Asked
  <2>1. ASSUME NEW r \in Runs, RecordEnd(r) PROVE Asked
    <3> DEFINE g == run[r].held
    <3>1. CASE byRun' = byRun
      BY <3>1
    <3>2. CASE byRun' # byRun
      <4>1. /\ Matches(r) /\ run[r].outcome = "completed" /\ run[r].work = "endFact"
            /\ byRun' = byRun \cup {g}
            /\ run' = [run EXCEPT ![r] = [run[r] EXCEPT !.work = "after", !.held = None]]
        BY <2>1, <3>2 DEF RecordEnd, At, Becomes
      <4>2. /\ run[r] \in RunRecord /\ run'[r].work = "after"
            /\ g \in GoalIds /\ run[r].invocation = <<r, run[r].slice>>
        BY <1>1, <4>1 DEF IInv, TypeOK, RunRecord, WorkInv, WorkOK
      <4>3. /\ pending[g] # None
            /\ pending[g][1] = r /\ pending[g][2] = run[r].slice
        BY <4>1, <4>2 DEF Matches
      <4>4. /\ run[r].asked # None /\ run[r].slice <= run[r].asked[2]
            /\ run[r].asked[1] = r /\ run[r].asked[2] <= run[r].slice
        <5>1. AskedInv /\ run[r].work # "done"
          BY <1>1, <4>1 DEF IInv
        <5>2. run[r].asked # None /\ pending[g][2] <= run[r].asked[2]
          BY <4>2, <4>3, <5>1 DEF AskedInv
        <5> QED
          BY <4>3, <5>1, <5>2 DEF AskedInv
      <4>5. run[r].slice \in Nat /\ run[r].asked \in Runs \X Nat
        BY <4>2, <4>4, GoalAssumption DEF RunRecord, Invocations
      <4>6. run[r].asked = <<r, run[r].slice>>
        BY <4>4, <4>5
      <4> QED
        BY <4>1, <4>2, <4>4, <4>6
    <3> QED
      BY <3>1, <3>2
  <2>2. CASE ~ \E r \in Runs : RecordEnd(r)
    <3>1. byRun' = byRun
      BY <1>1, <2>2
      DEF Next, UserActs, RunActs, Transition, CreateGoal, UserTransitions, RetryBegins,
          EditGoal, MovePlan, MoveGoal, ReadFlow, MoveFlow, RetryReadsFlow, Retry, StartRun,
          StartFails, BeginRun, AgentTransitions, AgentAsks, StageReadsFlow, Stage, EndSlice,
          ObserveNothing, Observe, Check, Continue, Halt, EndRun, AfterRun, Restart,
          historyVars, vars
    <3> QED
      BY <3>1
  <2> QED
    BY <2>1, <2>2
<1>2. IInv /\ [Next]_vars => [Asked]_vars
  BY <1>1
<1> QED
  BY <1>2, Invariance, PTL DEF Spec, CompletionWasAsked
=============================================================================
