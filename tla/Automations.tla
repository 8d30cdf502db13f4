------------------------------- MODULE Automations -------------------------------
(***************************************************************************)
(* The runs of one Automation: AutomationService in                        *)
(* src/openppx/automation/service.py over AutomationStore in               *)
(* src/openppx/automation/store.py and the Task store.                     *)
(*                                                                         *)
(* Triggers are threads: a user's "run now", a local event, a Cron tick.   *)
(* Each prepares a run and a Task for its occurrence; coroutines on the    *)
(* one event loop of the Node execute runs.  A coroutine gives the loop    *)
(* away only while it awaits the Agent, so between two awaits only the     *)
(* threads of triggers and users come in.  The run row and the Task row    *)
(* are in two databases and are written one after the other.               *)
(***************************************************************************)
EXTENDS Naturals, Sequences, SequencesExt, FiniteSets

CONSTANTS
    Triggers,      \* trigger threads, each with the Task it creates
    Runs,          \* occurrences; a run is known by its occurrence
    Limit,         \* the limit of mode "parallel-with-limit"
    MaxCrashes,    \* bound: crashes of the Node
    Nobody         \* "no trigger" and "no coroutine"

ASSUME AutomationAssumption ==
    /\ Limit \in Nat \ {0}
    /\ MaxCrashes \in Nat
    /\ Nobody \notin Triggers \cup Runs

VARIABLES
    \* automation_definitions
    mode,          \* concurrency_policy.mode
    active,        \* whether the definition's status is "active"
    \* automation_runs
    run,           \* status by occurrence; "none" without a row
    owner,         \* the trigger whose Task the row refers to
    created,       \* the runs in the order of created_at_ms
    \* task_runs
    task,          \* status of the Task of a trigger; "none" without a row
    \* trigger threads, in _prepare_run
    trigger,       \* where the trigger is
    occurrence,    \* what it was triggered by
    decision,      \* what the number of active runs made it decide
    \* coroutines in _execute_run, named by the run they were made for
    coroutine,     \* where the coroutine is
    executes,      \* the run it executes now
    outcome,       \* what came of it
    retried,       \* coroutines that ask the Agent again for a run they have settled
                   \* (bound: once for each run)
    loop,          \* the coroutine that has the event loop
    \* history
    executions,    \* times a coroutine began to execute the run
    unresumed,     \* whether a restart found the definition paused
    crashes

runVars == <<run, owner, created>>
triggerVars == <<trigger, occurrence, decision>>
loopVars == <<coroutine, executes, outcome, retried, loop>>
historyVars == <<executions, unresumed, crashes>>
vars == <<mode, active, runVars, task, triggerVars, loopVars, historyVars>>

Modes == {"skip", "queue-one", "parallel-with-limit"}
RunTerminal == {"completed", "failed", "blocked", "skipped"}
TaskTerminal == {"completed", "failed", "blocked", "cancelled"}
Decisions == {"execute", "skip", "queue"}
TriggerPCs == {"idle", "count", "createTask", "createRun", "cancelTask", "skipTask",
               "skipRun", "queueTask", "submit", "done"}
CoroutinePCs == {"none", "start", "failTask", "blockRun", "markRun", "markTask", "await",
                 "settleTask", "settleRun", "stopCondition", "drain"}

TypeOK ==
    /\ mode \in Modes
    /\ active \in BOOLEAN
    /\ run \in [Runs -> {"none", "queued", "running"} \cup RunTerminal]
    /\ owner \in [Runs -> Triggers \cup {Nobody}]
    /\ created \in Seq(Runs) /\ IsInjective(created)
    /\ task \in [Triggers -> {"none", "queued", "running"} \cup TaskTerminal]
    /\ trigger \in [Triggers -> TriggerPCs]
    /\ occurrence \in [Triggers -> Runs]
    /\ decision \in [Triggers -> Decisions]
    /\ coroutine \in [Runs -> CoroutinePCs]
    /\ executes \in [Runs -> Runs]
    /\ outcome \in [Runs -> {"completed", "failed"}]
    /\ retried \subseteq Runs
    /\ loop \in Runs \cup {Nobody}
    /\ executions \in [Runs -> Nat]
    /\ unresumed \in BOOLEAN
    /\ crashes \in 0..MaxCrashes

Init ==
    /\ mode \in Modes
    /\ active = TRUE
    /\ run = [r \in Runs |-> "none"]
    /\ owner = [r \in Runs |-> Nobody]
    /\ created = <<>>
    /\ task = [t \in Triggers |-> "none"]
    /\ trigger = [t \in Triggers |-> "idle"]
    /\ occurrence \in [Triggers -> Runs]
    /\ decision = [t \in Triggers |-> "execute"]
    /\ coroutine = [r \in Runs |-> "none"]
    /\ executes = [r \in Runs |-> r]
    /\ outcome = [r \in Runs |-> "failed"]
    /\ retried = {}
    /\ loop = Nobody
    /\ executions = [r \in Runs |-> 0]
    /\ unresumed = FALSE
    /\ crashes = 0

\* update_run leaves an ended run as it is.
UpdateRun(r, status) ==
    run' = [run EXCEPT ![r] = IF @ \in RunTerminal THEN @ ELSE status]

\* update_task asks nothing.
UpdateTask(t, status) == task' = [task EXCEPT ![t] = status]

-----------------------------------------------------------------------------
(* _prepare_run: a trigger thread *)

TriggerGoes(t, from, to) ==
    /\ trigger[t] = from
    /\ trigger' = [trigger EXCEPT ![t] = to]
    /\ UNCHANGED <<mode, active, occurrence, loopVars, historyVars>>

\* The definition is active and run_for_occurrence finds no run.
Begin(t) ==
    /\ active
    /\ TriggerGoes(t, "idle", IF run[occurrence[t]] = "none" THEN "count" ELSE "done")
    /\ UNCHANGED <<runVars, task, decision>>

\* active_run_count, and what the concurrency policy says to it.
CountRuns(t) ==
    LET active_count == Cardinality({r \in Runs : run[r] \in {"queued", "running"}})
    IN /\ TriggerGoes(t, "count", "createTask")
       /\ decision' = [decision EXCEPT ![t] =
              CASE mode = "skip" /\ active_count > 0 -> "skip"
                [] mode = "parallel-with-limit" /\ active_count >= Limit -> "skip"
                [] mode = "queue-one" /\ active_count >= 2 -> "skip"
                [] mode = "queue-one" /\ active_count = 1 -> "queue"
                [] OTHER -> "execute"]
       /\ UNCHANGED <<runVars, task>>

CreateTask(t) ==
    /\ TriggerGoes(t, "createTask", "createRun")
    /\ UpdateTask(t, "queued")
    /\ UNCHANGED <<runVars, decision>>

AfterCreate(t) == CASE decision[t] = "execute" -> "submit"
                    [] decision[t] = "skip" -> "skipTask"
                    [] decision[t] = "queue" -> "queueTask"

\* Mutant of CreateRun: the row of the occurrence is replaced.
ReplaceRun(t) ==
    /\ TriggerGoes(t, "createRun", AfterCreate(t))
    /\ run' = [run EXCEPT ![occurrence[t]] = "queued"]
    /\ owner' = [owner EXCEPT ![occurrence[t]] = t]
    /\ created' = IF owner[occurrence[t]] = Nobody THEN Append(created, occurrence[t])
                                                   ELSE created
    /\ UNCHANGED <<task, decision>>

\* Mutant of CreateRun: the row is filed a second time.
FileTwice(t) ==
    /\ TriggerGoes(t, "createRun", AfterCreate(t))
    /\ run' = [run EXCEPT ![occurrence[t]] = "queued"]
    /\ owner' = [owner EXCEPT ![occurrence[t]] = t]
    /\ created' = Append(created, occurrence[t])
    /\ UNCHANGED <<task, decision>>

\* create_run: one run for each occurrence.
CreateRun(t) ==
    /\ IF run[occurrence[t]] = "none"
       THEN /\ TriggerGoes(t, "createRun", AfterCreate(t))
            /\ run' = [run EXCEPT ![occurrence[t]] = "queued"]
            /\ owner' = [owner EXCEPT ![occurrence[t]] = t]
            /\ created' = Append(created, occurrence[t])
       ELSE /\ TriggerGoes(t, "createRun", "cancelTask")
            /\ UNCHANGED runVars
    /\ UNCHANGED <<task, decision>>

\* The occurrence had its run already, or the policy skips this one.
CancelTask(t) ==
    /\ \/ TriggerGoes(t, "cancelTask", "done")
       \/ TriggerGoes(t, "skipTask", "skipRun")
    /\ UpdateTask(t, "cancelled")
    /\ UNCHANGED <<runVars, decision>>

SkipRun(t) ==
    /\ TriggerGoes(t, "skipRun", "done")
    /\ UpdateRun(occurrence[t], "skipped")
    /\ UNCHANGED <<owner, created, task, decision>>

QueueTask(t) ==
    /\ TriggerGoes(t, "queueTask", "done")
    /\ UpdateTask(t, "queued")
    /\ UNCHANGED <<runVars, decision>>

\* The execution is submitted to the loop; a Cron tick is on the loop and awaits
\* it there.
Submit(t) ==
    /\ trigger[t] = "submit"
    /\ trigger' = [trigger EXCEPT ![t] = "done"]
    /\ coroutine' = [coroutine EXCEPT ![occurrence[t]] = "start"]
    /\ executes' = [executes EXCEPT ![occurrence[t]] = occurrence[t]]
    /\ UNCHANGED <<mode, active, runVars, task, occurrence, decision, outcome, retried,
                   loop, historyVars>>

-----------------------------------------------------------------------------
(* _execute_run: coroutines on the loop *)

\* Between two awaits a coroutine keeps the loop; it takes it when nobody has it.
Goes(c, from, to) ==
    /\ coroutine[c] = from
    /\ loop = c
    /\ coroutine' = [coroutine EXCEPT ![c] = to]
    /\ UNCHANGED <<mode, owner, created, triggerVars, executes, retried, loop, unresumed,
                   crashes>>

Wakes(c, from) ==
    /\ coroutine[c] = from
    /\ loop = Nobody
    /\ loop' = c
    /\ UNCHANGED <<mode, active, runVars, task, triggerVars, executes, retried, historyVars>>

\* It asks the Agent and gives the loop away.
Asks(c, from) ==
    /\ coroutine[c] = from
    /\ loop = c
    /\ coroutine' = [coroutine EXCEPT ![c] = "await"]
    /\ loop' = Nobody
    /\ UNCHANGED <<mode, active, runVars, triggerVars, executes, outcome, historyVars>>

\* The loop turns to a coroutine that has not begun.
Turn(c) ==
    /\ Wakes(c, "start")
    /\ UNCHANGED <<coroutine, outcome>>

\* readiness: the definition must still be active.
CheckReady(c) ==
    /\ Goes(c, "start", IF active THEN "markRun" ELSE "failTask")
    /\ executions' = [executions EXCEPT ![executes[c]] = @ + 1]
    /\ UNCHANGED <<active, run, task, outcome>>

FailTask(c) ==
    /\ Goes(c, "failTask", "blockRun")
    /\ UpdateTask(owner[executes[c]], "failed")
    /\ UNCHANGED <<active, run, outcome, executions>>

BlockRun(c) ==
    /\ Goes(c, "blockRun", "drain")
    /\ UpdateRun(executes[c], "blocked")
    /\ UNCHANGED <<active, task, outcome, executions>>

MarkRun(c) ==
    /\ Goes(c, "markRun", "markTask")
    /\ UpdateRun(executes[c], "running")
    /\ UNCHANGED <<active, task, outcome, executions>>

MarkTask(c) ==
    /\ Asks(c, "markTask")
    /\ UpdateTask(owner[executes[c]], "running")
    /\ UNCHANGED retried

\* The last attempt, or a successful one, is over.
AgentAnswers(c) ==
    /\ Wakes(c, "await")
    /\ \E how \in {"completed", "failed"} : outcome' = [outcome EXCEPT ![c] = how]
    /\ coroutine' = [coroutine EXCEPT ![c] = "settleTask"]

\* The session cannot be had, or the task of the Cron timer is cancelled in the
\* middle of its tick: nothing settles the run, and the finally block drains.
ExecutionDies(c) ==
    /\ Wakes(c, "await")
    /\ coroutine' = [coroutine EXCEPT ![c] = "drain"]
    /\ UNCHANGED outcome

\* Mutant of SettleTask: only the run is settled.
SettleNoTask(c) ==
    /\ Goes(c, "settleTask", "settleRun")
    /\ UNCHANGED <<active, run, task, outcome, executions>>

SettleTask(c) ==
    /\ Goes(c, "settleTask", "settleRun")
    /\ UpdateTask(owner[executes[c]], outcome[c])
    /\ UNCHANGED <<active, run, outcome, executions>>

SettleRun(c) ==
    /\ Goes(c, "settleRun", IF outcome[c] = "completed" THEN "stopCondition" ELSE "drain")
    /\ UpdateRun(executes[c], outcome[c])
    /\ UNCHANGED <<active, task, outcome, executions>>

\* A monitor pauses its definition when its condition is met.  If a user changes
\* the definition at that moment, the conflict counts as a failed attempt of the
\* run that has been settled: its Task is settled once more, at once or, if there
\* is an attempt left, after the Agent has been asked again.
StopCondition(c) ==
    \/ /\ Goes(c, "stopCondition", "drain")
       /\ active' \in {active, FALSE}
       /\ UNCHANGED <<run, task, outcome, executions>>
    \/ /\ Goes(c, "stopCondition", "settleTask")
       /\ outcome' = [outcome EXCEPT ![c] = "failed"]
       /\ UNCHANGED <<active, run, task, executions>>
    \/ /\ Asks(c, "stopCondition")
       /\ c \notin retried
       /\ retried' = retried \cup {c}
       /\ UNCHANGED task

\* The queued runs, by their place in the order of creation.
Queued == {n \in DOMAIN created : run[created[n]] = "queued"}

\* Mutant of Drain: the coroutine ends without looking for a successor.
DrainNever(c) ==
    /\ coroutine[c] = "drain"
    /\ loop = c
    /\ loop' = Nobody
    /\ coroutine' = [coroutine EXCEPT ![c] = "none"]
    /\ retried' = retried \ {c}
    /\ UNCHANGED <<mode, active, runVars, task, triggerVars, executes, outcome, historyVars>>

\* _drain_queued_run: the coroutine goes on with the oldest queued run, unless
\* some run is running, and keeps the loop until that run is marked.
Drain(c) ==
    /\ coroutine[c] = "drain"
    /\ loop = c
    /\ LET others == {n \in Queued : created[n] # executes[c]}
       IN IF (\E r \in Runs : run[r] = "running") \/ others = {}
          THEN /\ coroutine' = [coroutine EXCEPT ![c] = "none"]
               /\ loop' = Nobody
               /\ executes' = executes
          ELSE /\ coroutine' = [coroutine EXCEPT ![c] = "start"]
               /\ loop' = c
               /\ \E oldest \in others :
                      /\ \A n \in others : oldest <= n
                      /\ executes' = [executes EXCEPT ![c] = created[oldest]]
    /\ retried' = retried \ {c}
    /\ UNCHANGED <<mode, active, runVars, task, triggerVars, outcome, historyVars>>

-----------------------------------------------------------------------------
(* The environment *)

\* A user pauses or resumes the definition.
ChangeDefinition ==
    /\ active' = ~active
    /\ UNCHANGED <<mode, runVars, task, triggerVars, loopVars, historyVars>>

\* reconcile_runtime resumes the oldest queued runs of an active definition.
Resumable ==
    LET some == IF mode = "parallel-with-limit" THEN Limit ELSE 1
        oldest == {n \in Queued : Cardinality({m \in Queued : m < n}) < some}
    IN IF active THEN {created[n] : n \in oldest} ELSE {}

\* The Node dies and is started again.  reconcile_runtime is a startup hook,
\* which is over before anybody else can come in: a run that was running is
\* blocked, with its Task.
Restart ==
    /\ crashes < MaxCrashes
    /\ crashes' = crashes + 1
    /\ unresumed' = (unresumed \/ ~active)
    /\ task' = [t \in Triggers |->
                   IF \E r \in Runs : run[r] = "running" /\ owner[r] = t THEN "blocked"
                                                                         ELSE task[t]]
    /\ run' = [r \in Runs |-> IF run[r] = "running" THEN "blocked" ELSE run[r]]
    /\ trigger' = [t \in Triggers |-> IF trigger[t] = "idle" THEN "idle" ELSE "done"]
    /\ coroutine' = [r \in Runs |-> IF r \in Resumable THEN "start" ELSE "none"]
    /\ executes' = [r \in Runs |-> r]
    /\ retried' = {}
    /\ loop' = Nobody
    /\ UNCHANGED <<mode, active, owner, created, occurrence, decision, outcome, executions>>

-----------------------------------------------------------------------------
(* The specification *)

Preparing(t) ==
    \/ CountRuns(t) \/ CreateTask(t) \/ CreateRun(t) \/ CancelTask(t) \/ SkipRun(t)
    \/ QueueTask(t) \/ Submit(t)

Settling(c) ==
    \/ CheckReady(c) \/ FailTask(c) \/ BlockRun(c) \/ MarkRun(c) \/ MarkTask(c)
    \/ SettleTask(c) \/ SettleRun(c) \/ StopCondition(c) \/ Drain(c)

Executing(c) == Turn(c) \/ AgentAnswers(c) \/ Settling(c)

Next ==
    \/ \E t \in Triggers : Begin(t) \/ Preparing(t)
    \/ \E c \in Runs : Executing(c) \/ ExecutionDies(c)
    \/ ChangeDefinition
    \/ Restart

\* Threads run, the loop turns to every coroutine that is ready, and the timeout
\* of the budget policy ends every attempt of an Agent.
Fairness ==
    /\ \A t \in Triggers : WF_vars(Preparing(t))
    /\ \A c \in Runs : /\ SF_vars(Turn(c))
                       /\ SF_vars(AgentAnswers(c))
                       /\ WF_vars(Settling(c))

Spec == Init /\ [][Next]_vars /\ Fairness

-----------------------------------------------------------------------------
(* Properties *)

ExecutedBy(c, r) == coroutine[c] # "none" /\ executes[c] = r

\* A run that was to be executed and has ended has an ended Task, at every moment, in
\* whatever order the two stores were written and wherever the Node died in between.
\* A second execution may leave the Task open when the Node dies, and so may the
\* execution of a run that its trigger had put aside, since the trigger writes the
\* Task after the run can be drained.
EndedRunHasEndedTask ==
    \A r \in Runs :
        run[r] \in RunTerminal /\ decision[owner[r]] = "execute" /\ executions[r] <= 1
            => task[owner[r]] \in TaskTerminal

\* Two triggers of one occurrence leave one Task to be worked on, that of the run.
DuplicateTaskIsCancelled ==
    crashes = 0 =>
        \A t \in Triggers :
            trigger[t] = "done" /\ owner[occurrence[t]] # t
                => task[t] \in {"none", "cancelled"}

\* What keeps a queued run where it is for good: a definition that is paused, or
\* was when the Node was restarted, or a run that says "running" and that nobody
\* executes.
Held ==
    \/ ~active
    \/ unresumed
    \/ \E r \in Runs : run[r] = "running" /\ \A c \in Runs : ~ExecutedBy(c, r)

\* A queued run leaves the queue, also the one a restart did not resume.  In mode
\* "queue-one" there is the race that QueueOneMoves is about.
QueueMoves ==
    \A r \in Runs :
        (mode # "queue-one" /\ run[r] = "queued") ~> (run[r] # "queued" \/ Held)

\* What _drain_queued_run says of itself: the successor of the active run is
\* executed when that one has settled.
QueueOneMoves ==
    \A r \in Runs :
        (mode = "queue-one" /\ run[r] = "queued") ~> (run[r] # "queued" \/ Held)
=============================================================================
