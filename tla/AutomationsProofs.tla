--------------------------- MODULE AutomationsProofs ---------------------------
(***************************************************************************)
(* Theorems of Automations, for any triggers, occurrences and crashes.     *)
(* The run row and the Task row are written one after the other, by a      *)
(* trigger and by whoever executes the run; what keeps them together is    *)
(* that a run has one Task, whose trigger writes it before the run can be  *)
(* executed, and that the execution writes the Task before the run.        *)
(***************************************************************************)
EXTENDS Automations, SequenceTheorems, TLAPS

\* A coroutine that has begun to execute a run.
Past(c, r) == coroutine[c] \notin {"none", "start"} /\ executes[c] = r

\* A run has a row if it has an owner, which was triggered by its occurrence, and only
\* such runs are executed.
RowInv ==
    /\ ToSet(created) = {r \in Runs : run[r] # "none"}
    /\ \A r \in Runs :
           /\ run[r] = "none" <=> owner[r] = Nobody
           /\ owner[r] # Nobody => occurrence[owner[r]] = r
           /\ coroutine[r] # "none" => run[executes[r]] # "none"

\* A trigger that goes on from createRun owns the run of its occurrence, and one that
\* has not come so far does not.
TriggerInv ==
    \A t \in Triggers :
        /\ trigger[t] \in {"submit", "skipTask", "skipRun", "queueTask"} =>
               owner[occurrence[t]] = t
        /\ trigger[t] \in {"idle", "count", "createTask", "createRun", "cancelTask"} =>
               owner[occurrence[t]] # t
        /\ trigger[t] \in {"idle", "count", "createTask"} => task[t] = "none"
        /\ trigger[t] = "submit" => decision[t] = "execute"
        /\ trigger[t] \in {"skipTask", "skipRun"} => decision[t] = "skip"
        /\ trigger[t] = "queueTask" => decision[t] = "queue"

\* A run that was to be executed is not running or ended without an execution that has
\* been counted, and two that have begun are counted as two.
CountInv ==
    /\ \A c, r \in Runs : Past(c, r) => executions[r] >= 1
    /\ \A c, d, r \in Runs : c # d /\ Past(c, r) /\ Past(d, r) => executions[r] >= 2
    /\ \A r \in Runs :
           run[r] \notin {"none", "queued"} /\ decision[owner[r]] = "execute" =>
               executions[r] >= 1

\* A run that was to be executed and has been executed once at most.
Once(r) == run[r] # "none" /\ decision[owner[r]] = "execute" /\ executions[r] <= 1

\* Its execution finds it open, and writes its Task before it.
OnceInv ==
    \A c, r \in Runs :
        Past(c, r) /\ Once(r) =>
            /\ coroutine[c] \in {"failTask", "markRun", "markTask"} =>
                   run[r] \notin RunTerminal
            /\ coroutine[c] \in {"blockRun", "settleRun"} =>
                   task[owner[r]] \in TaskTerminal

IInv ==
    /\ TypeOK /\ RowInv /\ TriggerInv /\ CountInv /\ OnceInv
    /\ DuplicateTaskIsCancelled /\ EndedRunHasEndedTask

-----------------------------------------------------------------------------
(* Lemmas *)

\* A sequence without repetition stays one when something new is appended.
LEMMA AppendOnce ==
    ASSUME NEW S, NEW s \in Seq(S), NEW x \in S, x \notin ToSet(s), IsInjective(s)
    PROVE  /\ Append(s, x) \in Seq(S) /\ IsInjective(Append(s, x))
           /\ ToSet(Append(s, x)) = ToSet(s) \cup {x}
BY AppendProperties, LenProperties DEF ToSet, IsInjective

\* The places of queued runs are those of runs, and only queued runs are resumed.
LEMMA QueuedAreRuns ==
    ASSUME TypeOK
    PROVE  /\ \A n \in Queued : created[n] \in Runs /\ run[created[n]] = "queued"
           /\ \A r \in Resumable : r \in Runs /\ run[r] = "queued"
<1>1. \A n \in DOMAIN created : created[n] \in Runs
  BY ElementOfSeq, LenProperties DEF TypeOK
<1>2. \A n \in Queued : created[n] \in Runs /\ run[created[n]] = "queued"
  BY <1>1 DEF Queued
<1>3. \A r \in Resumable : \E n \in Queued : r = created[n]
  BY DEF Resumable
<1> QED
  BY <1>2, <1>3

\* No trigger has been fired.
LEMMA InitIInv == Init => IInv
<1> SUFFICES ASSUME Init PROVE IInv
  OBVIOUS
<1>1. <<>> \in Seq(Runs) /\ IsInjective(<<>>) /\ ToSet(<<>>) = {}
  BY EmptySeq DEF IsInjective, ToSet
<1>2. crashes \in 0..MaxCrashes
  BY AutomationAssumption DEF Init
<1>3. TypeOK
  BY <1>1, <1>2 DEF Init, TypeOK, TriggerPCs, CoroutinePCs, Decisions
<1>4. RowInv
  BY <1>1 DEF Init, RowInv
<1>5. TriggerInv
  BY AutomationAssumption DEF Init, TriggerInv
<1>6. CountInv /\ OnceInv
  BY DEF Init, CountInv, OnceInv, Past
<1>7. DuplicateTaskIsCancelled /\ EndedRunHasEndedTask
  BY DEF Init, DuplicateTaskIsCancelled, EndedRunHasEndedTask, RunTerminal
<1> QED
  BY <1>3, <1>4, <1>5, <1>6, <1>7 DEF IInv

\* What createRun does when the occurrence has no run yet: it files one, as the newest.
Files(t) ==
    /\ created' \in Seq(Runs) /\ IsInjective(created')
    /\ ToSet(created') = ToSet(created) \cup {occurrence[t]}
    /\ run' = [run EXCEPT ![occurrence[t]] = "queued"]
    /\ owner' = [owner EXCEPT ![occurrence[t]] = t]
    /\ trigger[t] = "createRun"
    /\ \E to \in {"submit", "skipTask", "queueTask"} :
           /\ trigger' = [trigger EXCEPT ![t] = to]
           /\ to = "submit" => decision[t] = "execute"
           /\ to = "skipTask" => decision[t] = "skip"
           /\ to = "queueTask" => decision[t] = "queue"
    /\ UNCHANGED <<mode, active, task, occurrence, decision, coroutine, executes, outcome,
                   retried, loop, executions, unresumed, crashes>>

\* createRun files a run when the occurrence has none.
LEMMA CreateFiles ==
    ASSUME IInv, NEW t \in Triggers, CreateRun(t), run[occurrence[t]] = "none"
    PROVE  Files(t)
<1>1. /\ created \in Seq(Runs) /\ IsInjective(created) /\ occurrence[t] \in Runs
      /\ decision[t] \in Decisions
  BY DEF IInv, TypeOK
<1>2. occurrence[t] \notin ToSet(created)
  BY DEF IInv, RowInv
<1>3. /\ created' = Append(created, occurrence[t]) /\ trigger[t] = "createRun"
      /\ trigger' = [trigger EXCEPT ![t] = AfterCreate(t)]
      /\ run' = [run EXCEPT ![occurrence[t]] = "queued"]
      /\ owner' = [owner EXCEPT ![occurrence[t]] = t]
      /\ UNCHANGED <<mode, active, task, occurrence, decision, loopVars, historyVars>>
  BY DEF CreateRun, TriggerGoes
<1>4. /\ AfterCreate(t) \in {"submit", "skipTask", "queueTask"}
      /\ AfterCreate(t) = "submit" => decision[t] = "execute"
      /\ AfterCreate(t) = "skipTask" => decision[t] = "skip"
      /\ AfterCreate(t) = "queueTask" => decision[t] = "queue"
  BY <1>1 DEF AfterCreate, Decisions
<1>5. /\ created' \in Seq(Runs) /\ IsInjective(created')
      /\ ToSet(created') = ToSet(created) \cup {occurrence[t]}
  BY <1>1, <1>2, <1>3, AppendOnce
<1> QED
  BY <1>3, <1>4, <1>5 DEF Files, loopVars, historyVars

\* What a coroutine does when it drains: it ends or goes on with a queued run.
Drains(c, to, next) ==
    /\ coroutine[c] = "drain" /\ coroutine' = [coroutine EXCEPT ![c] = to]
    /\ executes' = [executes EXCEPT ![c] = next]
    /\ retried' = retried \ {c} /\ loop' = IF to = "none" THEN Nobody ELSE c
    /\ UNCHANGED <<mode, active, run, owner, created, task, trigger, occurrence, decision,
                   outcome, executions, unresumed, crashes>>

\* Draining ends the coroutine or gives it a queued run.
LEMMA DrainDrains ==
    ASSUME TypeOK, NEW c \in Runs, Drain(c)
    PROVE  \/ Drains(c, "none", executes[c])
           \/ \E r \in Runs : run[r] = "queued" /\ Drains(c, "start", r)
<1> USE DEF Drains, TypeOK, runVars, triggerVars, historyVars
<1> DEFINE others == {n \in Queued : created[n] # executes[c]}
<1>1. CASE (\E r \in Runs : run[r] = "running") \/ others = {}
  <2>1. executes' = executes /\ executes = [executes EXCEPT ![c] = executes[c]]
    BY <1>1 DEF Drain
  <2> QED
    BY <1>1, <2>1 DEF Drain
<1>2. CASE ~((\E r \in Runs : run[r] = "running") \/ others = {})
  <2>1. PICK oldest \in others : executes' = [executes EXCEPT ![c] = created[oldest]]
    BY <1>2 DEF Drain
  <2>2. created[oldest] \in Runs /\ run[created[oldest]] = "queued"
    BY <2>1, QueuedAreRuns
  <2> QED
    BY <1>2, <2>1, <2>2 DEF Drain
<1> QED
  BY <1>1, <1>2

\* What the stop condition does: it takes a coroutine to the end of its run, or back to
\* settle the Task once more, at once or when the Agent has answered.
Leads(c) ==
    /\ coroutine[c] = "stopCondition"
    /\ \E to \in {"drain", "settleTask", "await"} : coroutine' = [coroutine EXCEPT ![c] = to]
    /\ active' \in BOOLEAN /\ outcome' \in [Runs -> {"completed", "failed"}]
    /\ retried' \subseteq Runs /\ loop' \in Runs \cup {Nobody}
    /\ UNCHANGED <<mode, run, owner, created, task, trigger, occurrence, decision, executes,
                   executions, unresumed, crashes>>

\* The stop condition does nothing else.
LEMMA StopLeads ==
    ASSUME TypeOK, NEW c \in Runs, StopCondition(c)
    PROVE  Leads(c)
<1> USE DEF TypeOK, Goes, Asks, Leads, runVars, triggerVars, historyVars
<1>1. CASE Goes(c, "stopCondition", "drain") /\ active' \in {active, FALSE}
           /\ UNCHANGED <<run, task, outcome, executions>>
  BY <1>1
<1>2. CASE Goes(c, "stopCondition", "settleTask")
           /\ outcome' = [outcome EXCEPT ![c] = "failed"]
           /\ UNCHANGED <<active, run, task, executions>>
  BY <1>2
<1>3. CASE Asks(c, "stopCondition") /\ retried' = retried \cup {c} /\ UNCHANGED task
  BY <1>3
<1> QED
  BY <1>1, <1>2, <1>3 DEF StopCondition

\* A step of a coroutine that writes to the run it executes and to its Task at most.
Writes(c, to) ==
    /\ coroutine[c] \notin {"none", "start"} /\ to \notin {"none", "start"}
    /\ coroutine' = [coroutine EXCEPT ![c] = to]
    /\ UNCHANGED <<owner, executions, decision, executes>>
    /\ \A s \in Runs \ {executes[c]} : run'[s] = run[s]
    /\ \A t \in Triggers \ {owner[executes[c]]} : task'[t] = task[t]

\* Nobody else executes a run that is executed once, and no other run has its Task.
LEMMA WritesOnce ==
    ASSUME IInv, NEW c \in Runs, NEW to, Writes(c, to),
           LET r == executes[c] IN
               /\ run'[r] # "none"
               /\ Once(r) =>
                      /\ to \in {"failTask", "markRun", "markTask"} =>
                             run'[r] \notin RunTerminal
                      /\ to \in {"blockRun", "settleRun"} => task'[owner[r]] \in TaskTerminal
                      /\ run'[r] \in RunTerminal => task'[owner[r]] \in TaskTerminal
    PROVE  OnceInv' /\ EndedRunHasEndedTask'
<1> DEFINE r == executes[c]
<1>1. /\ r \in Runs /\ run[r] # "none" /\ executes \in [Runs -> Runs]
      /\ coroutine \in [Runs -> CoroutinePCs] /\ executions[r] \in Nat
  BY DEF IInv, TypeOK, RowInv, Writes
<1>2. \A s \in Runs : Once(s)' => Once(s)
  BY <1>1 DEF Writes, Once
<1>3. ASSUME Once(r), NEW d \in Runs, d # c PROVE ~Past(d, r)
  BY <1>1, <1>3 DEF IInv, CountInv, Once, Past, Writes
<1>4. ASSUME NEW s \in Runs, s # r, run[s] # "none"
      PROVE  run'[s] = run[s] /\ task'[owner[s]] = task[owner[s]]
  <2>1. owner[s] \in Triggers /\ occurrence[owner[s]] = s
    BY <1>4 DEF IInv, TypeOK, RowInv
  <2>2. owner[r] \in Triggers /\ occurrence[owner[r]] = r
    BY <1>1 DEF IInv, TypeOK, RowInv
  <2> QED
    BY <1>4, <2>1, <2>2 DEF Writes
<1>5. \A d, s \in Runs : Past(d, s)' => Past(d, s) /\ (d # c => coroutine'[d] = coroutine[d])
  BY <1>1 DEF Past, Writes
<1>6. EndedRunHasEndedTask'
  <2> SUFFICES ASSUME NEW s \in Runs, run'[s] \in RunTerminal, decision'[owner'[s]] = "execute",
                      executions'[s] <= 1
               PROVE  task'[owner'[s]] \in TaskTerminal
    BY DEF EndedRunHasEndedTask
  <2>1. run'[s] # "none" /\ owner'[s] = owner[s] /\ Once(s)'
    BY DEF Writes, RunTerminal, Once
  <2>2. CASE s = r
    BY <1>2, <2>1, <2>2
  <2>3. CASE s # r
    BY <1>2, <1>4, <2>1, <2>3 DEF IInv, EndedRunHasEndedTask, Once
  <2> QED
    BY <2>2, <2>3
<1>7. ASSUME NEW d \in Runs, NEW s \in Runs, Past(d, s)', Once(s)'
      PROVE  /\ coroutine'[d] \in {"failTask", "markRun", "markTask"} =>
                    run'[s] \notin RunTerminal
             /\ coroutine'[d] \in {"blockRun", "settleRun"} =>
                    task'[owner'[s]] \in TaskTerminal
  <2>1. Past(d, s) /\ Once(s) /\ owner'[s] = owner[s]
    BY <1>2, <1>5, <1>7 DEF Writes
  <2>2. CASE d = c
    <3>1. s = r /\ coroutine'[d] = to
      BY <1>1, <2>1, <2>2 DEF Past, Writes
    <3> QED
      BY <2>1, <3>1
  <2>3. CASE d # c
    <3>1. s # r /\ coroutine'[d] = coroutine[d] /\ run[s] # "none"
      BY <1>3, <1>5, <1>7, <2>1, <2>3 DEF Once
    <3> QED
      BY <1>4, <2>1, <3>1 DEF IInv, OnceInv
  <2> QED
    BY <2>2, <2>3
<1> QED
  BY <1>6, <1>7 DEF OnceInv

-----------------------------------------------------------------------------
(* The steps *)

\* A run is filed once, and what a coroutine executes next is a run.
LEMMA TypeStep ==
    ASSUME IInv, [Next]_vars
    PROVE  TypeOK'
<1> USE AutomationAssumption
    DEF IInv, TypeOK, RunTerminal, TaskTerminal, Decisions, TriggerPCs, CoroutinePCs,
        TriggerGoes, Goes, Wakes, Asks, UpdateRun, UpdateTask, runVars,
        triggerVars, loopVars, historyVars
<1>1. ASSUME NEW t \in Triggers, Begin(t) PROVE TypeOK'
  BY <1>1 DEF Begin
<1>2. ASSUME NEW t \in Triggers, CountRuns(t) PROVE TypeOK'
  BY <1>2 DEF CountRuns
<1>3. ASSUME NEW t \in Triggers, CreateTask(t) PROVE TypeOK'
  BY <1>3 DEF CreateTask
<1>4. ASSUME NEW t \in Triggers, CreateRun(t) PROVE TypeOK'
  <2>1. CASE run[occurrence[t]] = "none"
    <3>1. Files(t)
      BY <1>4, <2>1, CreateFiles
    <3> QED
      BY <2>1, <3>1 DEF Files
  <2>2. CASE run[occurrence[t]] # "none"
    BY <1>4, <2>2 DEF CreateRun
  <2> QED
    BY <2>1, <2>2
<1>5. ASSUME NEW t \in Triggers, CancelTask(t) PROVE TypeOK'
  BY <1>5 DEF CancelTask
<1>6. ASSUME NEW t \in Triggers, SkipRun(t) PROVE TypeOK'
  BY <1>6 DEF SkipRun
<1>7. ASSUME NEW t \in Triggers, QueueTask(t) PROVE TypeOK'
  BY <1>7 DEF QueueTask
<1>8. ASSUME NEW t \in Triggers, Submit(t) PROVE TypeOK'
  BY <1>8 DEF Submit
<1>9. ASSUME NEW c \in Runs, Turn(c) PROVE TypeOK'
  BY <1>9 DEF Turn
<1>10. ASSUME NEW c \in Runs, CheckReady(c) PROVE TypeOK'
  BY <1>10 DEF CheckReady
<1>11. ASSUME NEW c \in Runs, FailTask(c) PROVE TypeOK'
  BY <1>11 DEF FailTask
<1>12. ASSUME NEW c \in Runs, BlockRun(c) PROVE TypeOK'
  BY <1>12 DEF BlockRun
<1>13. ASSUME NEW c \in Runs, MarkRun(c) PROVE TypeOK'
  BY <1>13 DEF MarkRun
<1>14. ASSUME NEW c \in Runs, MarkTask(c) PROVE TypeOK'
  BY <1>14 DEF MarkTask
<1>15. ASSUME NEW c \in Runs, AgentAnswers(c) PROVE TypeOK'
  BY <1>15 DEF AgentAnswers
<1>16. ASSUME NEW c \in Runs, ExecutionDies(c) PROVE TypeOK'
  BY <1>16 DEF ExecutionDies
<1>17. ASSUME NEW c \in Runs, SettleTask(c) PROVE TypeOK'
  BY <1>17 DEF SettleTask
<1>18. ASSUME NEW c \in Runs, SettleRun(c) PROVE TypeOK'
  BY <1>18 DEF SettleRun
<1>19. ASSUME NEW c \in Runs, StopCondition(c) PROVE TypeOK'
  <2>1. Leads(c)
    BY <1>19, StopLeads
  <2>2. PICK to \in {"drain", "settleTask", "await"} :
           coroutine' = [coroutine EXCEPT ![c] = to]
    BY <2>1 DEF Leads
  <2> QED
    BY <2>1, <2>2 DEF Leads
<1>20. ASSUME NEW c \in Runs, Drain(c) PROVE TypeOK'
  <2>1. CASE Drains(c, "none", executes[c])
    BY <2>1 DEF Drains
  <2>2. ASSUME NEW r \in Runs, run[r] = "queued", Drains(c, "start", r)
        PROVE  TypeOK'
    BY <2>2 DEF Drains
  <2> QED
    BY <1>20, <2>1, <2>2, DrainDrains
<1>21. CASE ChangeDefinition
  BY <1>21 DEF ChangeDefinition
<1>22. CASE Restart
  BY <1>22 DEF Restart
<1>23. CASE UNCHANGED vars
  BY <1>23 DEF vars
<1> QED
  BY <1>1, <1>2, <1>3, <1>4, <1>5, <1>6, <1>7, <1>8, <1>9, <1>10, <1>11, <1>12, <1>13, <1>14,
     <1>15, <1>16, <1>17, <1>18, <1>19, <1>20, <1>21, <1>22, <1>23
  DEF Next, Preparing, Executing, Settling

\* A run gets its row and its owner in one step and keeps them.
LEMMA RowStep ==
    ASSUME IInv, [Next]_vars
    PROVE  RowInv'
<1> USE AutomationAssumption
    DEF IInv, TypeOK, RowInv, TriggerInv, RunTerminal,
        TriggerGoes, Goes, Wakes, Asks, UpdateRun, UpdateTask, runVars,
        triggerVars, loopVars, historyVars
<1>1. ASSUME NEW t \in Triggers, Begin(t) PROVE RowInv'
  BY <1>1 DEF Begin
<1>2. ASSUME NEW t \in Triggers, CountRuns(t) PROVE RowInv'
  BY <1>2 DEF CountRuns
<1>3. ASSUME NEW t \in Triggers, CreateTask(t) PROVE RowInv'
  BY <1>3 DEF CreateTask
<1>4. ASSUME NEW t \in Triggers, CreateRun(t) PROVE RowInv'
  <2>1. CASE run[occurrence[t]] = "none"
    <3>1. Files(t)
      BY <1>4, <2>1, CreateFiles
    <3> QED
      BY <2>1, <3>1 DEF Files
  <2>2. CASE run[occurrence[t]] # "none"
    BY <1>4, <2>2 DEF CreateRun
  <2> QED
    BY <2>1, <2>2
<1>5. ASSUME NEW t \in Triggers, CancelTask(t) PROVE RowInv'
  BY <1>5 DEF CancelTask
<1>6. ASSUME NEW t \in Triggers, SkipRun(t) PROVE RowInv'
  BY <1>6 DEF SkipRun
<1>7. ASSUME NEW t \in Triggers, QueueTask(t) PROVE RowInv'
  BY <1>7 DEF QueueTask
<1>8. ASSUME NEW t \in Triggers, Submit(t) PROVE RowInv'
  BY <1>8 DEF Submit
<1>9. ASSUME NEW c \in Runs, Turn(c) PROVE RowInv'
  BY <1>9 DEF Turn
<1>10. ASSUME NEW c \in Runs, CheckReady(c) PROVE RowInv'
  BY <1>10 DEF CheckReady
<1>11. ASSUME NEW c \in Runs, FailTask(c) PROVE RowInv'
  BY <1>11 DEF FailTask
<1>12. ASSUME NEW c \in Runs, BlockRun(c) PROVE RowInv'
  BY <1>12 DEF BlockRun
<1>13. ASSUME NEW c \in Runs, MarkRun(c) PROVE RowInv'
  BY <1>13 DEF MarkRun
<1>14. ASSUME NEW c \in Runs, MarkTask(c) PROVE RowInv'
  BY <1>14 DEF MarkTask
<1>15. ASSUME NEW c \in Runs, AgentAnswers(c) PROVE RowInv'
  BY <1>15 DEF AgentAnswers
<1>16. ASSUME NEW c \in Runs, ExecutionDies(c) PROVE RowInv'
  BY <1>16 DEF ExecutionDies
<1>17. ASSUME NEW c \in Runs, SettleTask(c) PROVE RowInv'
  BY <1>17 DEF SettleTask
<1>18. ASSUME NEW c \in Runs, SettleRun(c) PROVE RowInv'
  BY <1>18 DEF SettleRun
<1>19. ASSUME NEW c \in Runs, StopCondition(c) PROVE RowInv'
  <2>1. Leads(c)
    BY <1>19, StopLeads
  <2>2. PICK to \in {"drain", "settleTask", "await"} :
           coroutine' = [coroutine EXCEPT ![c] = to]
    BY <2>1 DEF Leads
  <2> QED
    BY <2>1, <2>2 DEF Leads
<1>20. ASSUME NEW c \in Runs, Drain(c) PROVE RowInv'
  <2>1. CASE Drains(c, "none", executes[c])
    BY <2>1 DEF Drains
  <2>2. ASSUME NEW r \in Runs, run[r] = "queued", Drains(c, "start", r)
        PROVE  RowInv'
    BY <2>2 DEF Drains
  <2> QED
    BY <1>20, <2>1, <2>2, DrainDrains
<1>21. CASE ChangeDefinition
  BY <1>21 DEF ChangeDefinition
<1>22. CASE Restart
  BY <1>22, QueuedAreRuns DEF Restart
<1>23. CASE UNCHANGED vars
  BY <1>23 DEF vars
<1> QED
  BY <1>1, <1>2, <1>3, <1>4, <1>5, <1>6, <1>7, <1>8, <1>9, <1>10, <1>11, <1>12, <1>13, <1>14,
     <1>15, <1>16, <1>17, <1>18, <1>19, <1>20, <1>21, <1>22, <1>23
  DEF Next, Preparing, Executing, Settling

\* A trigger owns the run of its occurrence from createRun on, and cancels its Task
\* when it does not.
LEMMA TriggerStep ==
    ASSUME IInv, [Next]_vars
    PROVE  TriggerInv' /\ DuplicateTaskIsCancelled'
<1> USE AutomationAssumption
    DEF IInv, TypeOK, RowInv, TriggerInv, DuplicateTaskIsCancelled, RunTerminal,
        TriggerGoes, Goes, Wakes, Asks, UpdateRun, UpdateTask, runVars,
        triggerVars, loopVars, historyVars
<1>1. ASSUME NEW t \in Triggers, Begin(t) PROVE TriggerInv' /\ DuplicateTaskIsCancelled'
  BY <1>1 DEF Begin
<1>2. ASSUME NEW t \in Triggers, CountRuns(t) PROVE TriggerInv' /\ DuplicateTaskIsCancelled'
  BY <1>2 DEF CountRuns
<1>3. ASSUME NEW t \in Triggers, CreateTask(t) PROVE TriggerInv' /\ DuplicateTaskIsCancelled'
  BY <1>3 DEF CreateTask
<1>4. ASSUME NEW t \in Triggers, CreateRun(t) PROVE TriggerInv' /\ DuplicateTaskIsCancelled'
  <2>1. CASE run[occurrence[t]] = "none"
    <3>1. Files(t)
      BY <1>4, <2>1, CreateFiles
    <3> QED
      BY <2>1, <3>1 DEF Files
  <2>2. CASE run[occurrence[t]] # "none"
    BY <1>4, <2>2 DEF CreateRun
  <2> QED
    BY <2>1, <2>2
<1>5. ASSUME NEW t \in Triggers, CancelTask(t) PROVE TriggerInv' /\ DuplicateTaskIsCancelled'
  BY <1>5 DEF CancelTask
<1>6. ASSUME NEW t \in Triggers, SkipRun(t) PROVE TriggerInv' /\ DuplicateTaskIsCancelled'
  BY <1>6 DEF SkipRun
<1>7. ASSUME NEW t \in Triggers, QueueTask(t) PROVE TriggerInv' /\ DuplicateTaskIsCancelled'
  BY <1>7 DEF QueueTask
<1>8. ASSUME NEW t \in Triggers, Submit(t) PROVE TriggerInv' /\ DuplicateTaskIsCancelled'
  BY <1>8 DEF Submit
<1>9. ASSUME NEW c \in Runs, Turn(c) PROVE TriggerInv' /\ DuplicateTaskIsCancelled'
  BY <1>9 DEF Turn
<1>10. ASSUME NEW c \in Runs, CheckReady(c) PROVE TriggerInv' /\ DuplicateTaskIsCancelled'
  BY <1>10 DEF CheckReady
<1>11. ASSUME NEW c \in Runs, FailTask(c) PROVE TriggerInv' /\ DuplicateTaskIsCancelled'
  BY <1>11 DEF FailTask
<1>12. ASSUME NEW c \in Runs, BlockRun(c) PROVE TriggerInv' /\ DuplicateTaskIsCancelled'
  BY <1>12 DEF BlockRun
<1>13. ASSUME NEW c \in Runs, MarkRun(c) PROVE TriggerInv' /\ DuplicateTaskIsCancelled'
  BY <1>13 DEF MarkRun
<1>14. ASSUME NEW c \in Runs, MarkTask(c) PROVE TriggerInv' /\ DuplicateTaskIsCancelled'
  BY <1>14 DEF MarkTask
<1>15. ASSUME NEW c \in Runs, AgentAnswers(c) PROVE TriggerInv' /\ DuplicateTaskIsCancelled'
  BY <1>15 DEF AgentAnswers
<1>16. ASSUME NEW c \in Runs, ExecutionDies(c) PROVE TriggerInv' /\ DuplicateTaskIsCancelled'
  BY <1>16 DEF ExecutionDies
<1>17. ASSUME NEW c \in Runs, SettleTask(c) PROVE TriggerInv' /\ DuplicateTaskIsCancelled'
  BY <1>17 DEF SettleTask
<1>18. ASSUME NEW c \in Runs, SettleRun(c) PROVE TriggerInv' /\ DuplicateTaskIsCancelled'
  BY <1>18 DEF SettleRun
<1>19. ASSUME NEW c \in Runs, StopCondition(c) PROVE TriggerInv' /\ DuplicateTaskIsCancelled'
  <2>1. Leads(c)
    BY <1>19, StopLeads
  <2>2. PICK to \in {"drain", "settleTask", "await"} :
           coroutine' = [coroutine EXCEPT ![c] = to]
    BY <2>1 DEF Leads
  <2> QED
    BY <2>1, <2>2 DEF Leads
<1>20. ASSUME NEW c \in Runs, Drain(c) PROVE TriggerInv' /\ DuplicateTaskIsCancelled'
  <2>1. CASE Drains(c, "none", executes[c])
    BY <2>1 DEF Drains
  <2>2. ASSUME NEW r \in Runs, run[r] = "queued", Drains(c, "start", r)
        PROVE  TriggerInv' /\ DuplicateTaskIsCancelled'
    BY <2>2 DEF Drains
  <2> QED
    BY <1>20, <2>1, <2>2, DrainDrains
<1>21. CASE ChangeDefinition
  BY <1>21 DEF ChangeDefinition
<1>22. CASE Restart
  <2>1. crashes' \in Nat /\ crashes' # 0 /\ UNCHANGED <<owner, occurrence, decision>>
    BY <1>22 DEF Restart
  <2>2. ASSUME NEW t \in Triggers
        PROVE  /\ trigger'[t] = IF trigger[t] = "idle" THEN "idle" ELSE "done"
               /\ trigger[t] = "idle" => task'[t] = task[t]
    <3>1. ASSUME trigger[t] = "idle", NEW r \in Runs PROVE owner[r] # t
      <4> SUFFICES ASSUME owner[r] = t PROVE FALSE
        OBVIOUS
      <4>1. t # Nobody
        OBVIOUS
      <4>2. occurrence[t] = r
        BY <4>1
      <4> QED
        BY <3>1, <4>2
    <3> QED
      BY <1>22, <3>1 DEF Restart
  <2> QED
    BY <2>1, <2>2
<1>23. CASE UNCHANGED vars
  BY <1>23 DEF vars
<1> QED
  BY <1>1, <1>2, <1>3, <1>4, <1>5, <1>6, <1>7, <1>8, <1>9, <1>10, <1>11, <1>12, <1>13, <1>14,
     <1>15, <1>16, <1>17, <1>18, <1>19, <1>20, <1>21, <1>22, <1>23
  DEF Next, Preparing, Executing, Settling

\* An execution is counted when it begins.
LEMMA CountStep ==
    ASSUME IInv, [Next]_vars
    PROVE  CountInv'
<1> USE AutomationAssumption
    DEF IInv, TypeOK, RowInv, TriggerInv, CountInv, Past, RunTerminal,
        TriggerGoes, Goes, Wakes, Asks, UpdateRun, UpdateTask, runVars,
        triggerVars, loopVars, historyVars
<1>1. ASSUME NEW t \in Triggers, Begin(t) PROVE CountInv'
  BY <1>1 DEF Begin
<1>2. ASSUME NEW t \in Triggers, CountRuns(t) PROVE CountInv'
  BY <1>2 DEF CountRuns
<1>3. ASSUME NEW t \in Triggers, CreateTask(t) PROVE CountInv'
  BY <1>3 DEF CreateTask
<1>4. ASSUME NEW t \in Triggers, CreateRun(t) PROVE CountInv'
  <2>1. CASE run[occurrence[t]] = "none"
    <3>1. Files(t)
      BY <1>4, <2>1, CreateFiles
    <3> QED
      BY <2>1, <3>1 DEF Files
  <2>2. CASE run[occurrence[t]] # "none"
    BY <1>4, <2>2 DEF CreateRun
  <2> QED
    BY <2>1, <2>2
<1>5. ASSUME NEW t \in Triggers, CancelTask(t) PROVE CountInv'
  BY <1>5 DEF CancelTask
<1>6. ASSUME NEW t \in Triggers, SkipRun(t) PROVE CountInv'
  BY <1>6 DEF SkipRun
<1>7. ASSUME NEW t \in Triggers, QueueTask(t) PROVE CountInv'
  BY <1>7 DEF QueueTask
<1>8. ASSUME NEW t \in Triggers, Submit(t) PROVE CountInv'
  BY <1>8 DEF Submit
<1>9. ASSUME NEW c \in Runs, Turn(c) PROVE CountInv'
  BY <1>9 DEF Turn
<1>10. ASSUME NEW c \in Runs, CheckReady(c) PROVE CountInv'
  BY <1>10 DEF CheckReady
<1>11. ASSUME NEW c \in Runs, FailTask(c) PROVE CountInv'
  BY <1>11 DEF FailTask
<1>12. ASSUME NEW c \in Runs, BlockRun(c) PROVE CountInv'
  BY <1>12 DEF BlockRun
<1>13. ASSUME NEW c \in Runs, MarkRun(c) PROVE CountInv'
  BY <1>13 DEF MarkRun
<1>14. ASSUME NEW c \in Runs, MarkTask(c) PROVE CountInv'
  BY <1>14 DEF MarkTask
<1>15. ASSUME NEW c \in Runs, AgentAnswers(c) PROVE CountInv'
  BY <1>15 DEF AgentAnswers
<1>16. ASSUME NEW c \in Runs, ExecutionDies(c) PROVE CountInv'
  BY <1>16 DEF ExecutionDies
<1>17. ASSUME NEW c \in Runs, SettleTask(c) PROVE CountInv'
  BY <1>17 DEF SettleTask
<1>18. ASSUME NEW c \in Runs, SettleRun(c) PROVE CountInv'
  BY <1>18 DEF SettleRun
<1>19. ASSUME NEW c \in Runs, StopCondition(c) PROVE CountInv'
  <2>1. Leads(c)
    BY <1>19, StopLeads
  <2>2. PICK to \in {"drain", "settleTask", "await"} :
           coroutine' = [coroutine EXCEPT ![c] = to]
    BY <2>1 DEF Leads
  <2> QED
    BY <2>1, <2>2 DEF Leads
<1>20. ASSUME NEW c \in Runs, Drain(c) PROVE CountInv'
  <2>1. CASE Drains(c, "none", executes[c])
    BY <2>1 DEF Drains
  <2>2. ASSUME NEW r \in Runs, run[r] = "queued", Drains(c, "start", r)
        PROVE  CountInv'
    BY <2>2 DEF Drains
  <2> QED
    BY <1>20, <2>1, <2>2, DrainDrains
<1>21. CASE ChangeDefinition
  BY <1>21 DEF ChangeDefinition
<1>22. CASE Restart
  BY <1>22 DEF Restart
<1>23. CASE UNCHANGED vars
  BY <1>23 DEF vars
<1> QED
  BY <1>1, <1>2, <1>3, <1>4, <1>5, <1>6, <1>7, <1>8, <1>9, <1>10, <1>11, <1>12, <1>13, <1>14,
     <1>15, <1>16, <1>17, <1>18, <1>19, <1>20, <1>21, <1>22, <1>23
  DEF Next, Preparing, Executing, Settling

\* The first execution of a run writes its Task before it writes the run.
LEMMA OnceStep ==
    ASSUME IInv, [Next]_vars
    PROVE  OnceInv' /\ EndedRunHasEndedTask'
<1> USE AutomationAssumption
    DEF IInv, TypeOK, RowInv, TriggerInv, CountInv, Past, Once, OnceInv,
        EndedRunHasEndedTask, RunTerminal, TaskTerminal,
        TriggerGoes, Goes, Wakes, Asks, UpdateRun, UpdateTask, runVars,
        triggerVars, loopVars, historyVars
<1>1. ASSUME NEW t \in Triggers, Begin(t) PROVE OnceInv' /\ EndedRunHasEndedTask'
  BY <1>1 DEF Begin
<1>2. ASSUME NEW t \in Triggers, CountRuns(t) PROVE OnceInv' /\ EndedRunHasEndedTask'
  BY <1>2 DEF CountRuns
<1>3. ASSUME NEW t \in Triggers, CreateTask(t) PROVE OnceInv' /\ EndedRunHasEndedTask'
  BY <1>3 DEF CreateTask
<1>4. ASSUME NEW t \in Triggers, CreateRun(t) PROVE OnceInv' /\ EndedRunHasEndedTask'
  <2>1. CASE run[occurrence[t]] = "none"
    <3>1. Files(t)
      BY <1>4, <2>1, CreateFiles
    <3> QED
      BY <2>1, <3>1 DEF Files
  <2>2. CASE run[occurrence[t]] # "none"
    BY <1>4, <2>2 DEF CreateRun
  <2> QED
    BY <2>1, <2>2
<1>5. ASSUME NEW t \in Triggers, CancelTask(t) PROVE OnceInv' /\ EndedRunHasEndedTask'
  BY <1>5 DEF CancelTask
<1>6. ASSUME NEW t \in Triggers, SkipRun(t) PROVE OnceInv' /\ EndedRunHasEndedTask'
  BY <1>6 DEF SkipRun
<1>7. ASSUME NEW t \in Triggers, QueueTask(t) PROVE OnceInv' /\ EndedRunHasEndedTask'
  BY <1>7 DEF QueueTask
<1>8. ASSUME NEW t \in Triggers, Submit(t) PROVE OnceInv' /\ EndedRunHasEndedTask'
  BY <1>8 DEF Submit
<1>9. ASSUME NEW c \in Runs, Turn(c) PROVE OnceInv' /\ EndedRunHasEndedTask'
  BY <1>9 DEF Turn
<1>10. ASSUME NEW c \in Runs, CheckReady(c) PROVE OnceInv' /\ EndedRunHasEndedTask'
  <2> DEFINE r == executes[c]
  <2>1. /\ coroutine[c] = "start" /\ r \in Runs /\ run[r] # "none"
        /\ \E to \in {"markRun", "failTask"} : coroutine' = [coroutine EXCEPT ![c] = to]
        /\ executions' = [executions EXCEPT ![r] = executions[r] + 1]
        /\ UNCHANGED <<run, owner, task, decision, executes>>
    BY <1>10 DEF CheckReady
  <2>2. \A s \in Runs : Once(s)' => Once(s)
    BY <2>1
  <2>3. \A d, s \in Runs : d # c /\ Past(d, s)' => Past(d, s) /\ coroutine'[d] = coroutine[d]
    BY <2>1
  <2>4. Once(r)' => run[r] \notin RunTerminal /\ \A d \in Runs : d # c => ~Past(d, r)
    BY <2>1
  <2>5. EndedRunHasEndedTask'
    BY <2>1, <2>2
  <2>6. ASSUME NEW d \in Runs, NEW s \in Runs, Past(d, s)', Once(s)'
        PROVE  /\ coroutine'[d] \in {"failTask", "markRun", "markTask"} =>
                      run'[s] \notin RunTerminal
               /\ coroutine'[d] \in {"blockRun", "settleRun"} =>
                      task'[owner'[s]] \in TaskTerminal
    <3>1. CASE d = c
      BY <2>1, <2>4, <2>6, <3>1
    <3>2. CASE d # c
      BY <2>1, <2>2, <2>3, <2>6, <3>2
    <3> QED
      BY <3>1, <3>2
  <2> QED
    BY <2>5, <2>6
<1>11. ASSUME NEW c \in Runs, FailTask(c) PROVE OnceInv' /\ EndedRunHasEndedTask'
  BY <1>11 DEF FailTask
<1>12. ASSUME NEW c \in Runs, BlockRun(c) PROVE OnceInv' /\ EndedRunHasEndedTask'
  <2> DEFINE r == executes[c]
  <2>1. /\ Writes(c, "drain") /\ run'[r] # "none"
        /\ Once(r) => task'[owner[r]] \in TaskTerminal
    BY <1>12 DEF BlockRun, Writes
  <2> HIDE DEF IInv, Once, OnceInv, EndedRunHasEndedTask, TaskTerminal
  <2> QED
    BY <2>1, WritesOnce
<1>13. ASSUME NEW c \in Runs, MarkRun(c) PROVE OnceInv' /\ EndedRunHasEndedTask'
  BY <1>13 DEF MarkRun
<1>14. ASSUME NEW c \in Runs, MarkTask(c) PROVE OnceInv' /\ EndedRunHasEndedTask'
  <2> DEFINE r == executes[c]
  <2>1. /\ Writes(c, "await") /\ run'[r] # "none"
        /\ Once(r) => run'[r] \notin RunTerminal
    BY <1>14 DEF MarkTask, Writes
  <2> HIDE DEF IInv, Once, OnceInv, EndedRunHasEndedTask, TaskTerminal
  <2> QED
    BY <2>1, WritesOnce
<1>15. ASSUME NEW c \in Runs, AgentAnswers(c) PROVE OnceInv' /\ EndedRunHasEndedTask'
  BY <1>15 DEF AgentAnswers
<1>16. ASSUME NEW c \in Runs, ExecutionDies(c) PROVE OnceInv' /\ EndedRunHasEndedTask'
  BY <1>16 DEF ExecutionDies
<1>17. ASSUME NEW c \in Runs, SettleTask(c) PROVE OnceInv' /\ EndedRunHasEndedTask'
  BY <1>17 DEF SettleTask
<1>18. ASSUME NEW c \in Runs, SettleRun(c) PROVE OnceInv' /\ EndedRunHasEndedTask'
  BY <1>18 DEF SettleRun
<1>19. ASSUME NEW c \in Runs, StopCondition(c) PROVE OnceInv' /\ EndedRunHasEndedTask'
  <2>1. Leads(c)
    BY <1>19, StopLeads
  <2>2. PICK to \in {"drain", "settleTask", "await"} :
           coroutine' = [coroutine EXCEPT ![c] = to]
    BY <2>1 DEF Leads
  <2> QED
    BY <2>1, <2>2 DEF Leads
<1>20. ASSUME NEW c \in Runs, Drain(c) PROVE OnceInv' /\ EndedRunHasEndedTask'
  <2>1. CASE Drains(c, "none", executes[c])
    BY <2>1 DEF Drains
  <2>2. ASSUME NEW r \in Runs, run[r] = "queued", Drains(c, "start", r)
        PROVE  OnceInv' /\ EndedRunHasEndedTask'
    BY <2>2 DEF Drains
  <2> QED
    BY <1>20, <2>1, <2>2, DrainDrains
<1>21. CASE ChangeDefinition
  BY <1>21 DEF ChangeDefinition
<1>22. CASE Restart
  BY <1>22 DEF Restart
<1>23. CASE UNCHANGED vars
  BY <1>23 DEF vars
<1> QED
  BY <1>1, <1>2, <1>3, <1>4, <1>5, <1>6, <1>7, <1>8, <1>9, <1>10, <1>11, <1>12, <1>13, <1>14,
     <1>15, <1>16, <1>17, <1>18, <1>19, <1>20, <1>21, <1>22, <1>23
  DEF Next, Preparing, Executing, Settling

\* The invariant holds of every state of every behaviour.
LEMMA Invariance == Spec => []IInv
<1>1. IInv /\ [Next]_vars => IInv'
  BY TypeStep, RowStep, TriggerStep, CountStep, OnceStep DEF IInv
<1> QED
  BY InitIInv, <1>1, PTL DEF Spec

-----------------------------------------------------------------------------
(* The theorems *)

\* Every variable keeps its type; in particular no run is filed twice.
THEOREM TypeCorrect == Spec => []TypeOK
BY Invariance, PTL DEF IInv

\* Two triggers of one occurrence leave one Task to be worked on, that of the run.
THEOREM DuplicateCancelled == Spec => []DuplicateTaskIsCancelled
BY Invariance, PTL DEF IInv

\* A run that was to be executed and has ended has an ended Task, in whatever order
\* triggers and coroutines wrote the two stores and wherever the Node died.
THEOREM EndedTogether == Spec => []EndedRunHasEndedTask
BY Invariance, PTL DEF IInv
================================================================================
