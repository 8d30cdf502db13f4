----------------------------- MODULE ToolCallLedger -----------------------------
(***************************************************************************)
(* The idempotency ledger of effectful tool calls and the recipe runner    *)
(* that writes it: ProcessExecutionSupervisor.invoke_skill_api and         *)
(* _run_process_recipe in src/openppx/runtime/task_execution.py on         *)
(* ToolCallRecordStore in src/openppx/runtime/task_store.py.               *)
(*                                                                         *)
(* An attempt is one call of invoke_skill_api.  Attempts with the same     *)
(* invocation and function-call ids share a ledger key; a framework that   *)
(* resumes an invocation makes several of them, at once or after a crash.  *)
(* A call without ids gets a random key and never meets another, so it is  *)
(* an attempt with a key of its own.  The Task an attempt leaves behind is *)
(* named by the attempt; its later life is TaskRuntime's subject.          *)
(***************************************************************************)
EXTENDS Integers, FiniteSets

CONSTANTS
    Keys,          \* idempotency keys
    Attempts,      \* calls of invoke_skill_api
    KeyOf,         \* the key of each attempt
    NoTask,        \* an empty task_id
    MaxCrashes     \* bound: crashes of the Node

ASSUME KeyAssumption == KeyOf \in [Attempts -> Keys]
ASSUME NoTaskAssumption == NoTask \notin Attempts
ASSUME CrashAssumption == MaxCrashes \in Nat

VARIABLES
    recStatus,     \* tool_call_records.status by key; "none" without a row
    recTask,       \* tool_call_records.task_id by key
    task,          \* the Task row of an attempt: "none", "kept" or "purged"
    proc,          \* the attempt's process session: "none", "alive", "ok", "bad"
    pc,            \* where each attempt is
    seen,          \* the record an attempt found: its status and task id
    crashes,       \* history: crashes of the Node so far
    runs,          \* history: processes started, by key
    failures,      \* history: attempts settled as failed, by key
    overlaps       \* history: attempts begun while another was in flight

ledgerVars == <<recStatus, recTask>>
historyVars == <<runs, failures, overlaps>>
vars == <<ledgerVars, task, proc, pc, seen, crashes, historyVars>>

InFlight == {"checkTask", "spawn", "started", "discard", "background", "create",
             "link", "inline", "settleOk", "settleBad", "raised"}

\* "aborted" is an attempt whose Node died: nobody gets its answer.
Finished == {"replyTask", "replyResult", "replyError", "aborted"}

RecStatuses == {"none", "pending", "running", "completed", "failed"}

TypeOK ==
    /\ recStatus \in [Keys -> RecStatuses]
    /\ recTask \in [Keys -> Attempts \cup {NoTask}]
    /\ task \in [Attempts -> {"none", "kept", "purged"}]
    /\ proc \in [Attempts -> {"none", "alive", "ok", "bad"}]
    /\ pc \in [Attempts -> {"new"} \cup InFlight \cup Finished]
    /\ seen \in [Attempts -> [status : RecStatuses,
                              task : Attempts \cup {NoTask}]]
    /\ crashes \in 0..MaxCrashes
    /\ runs \in [Keys -> Nat]
    /\ failures \in [Keys -> Nat]
    /\ overlaps \in [Keys -> Nat]

Init ==
    /\ recStatus = [k \in Keys |-> "none"]
    /\ recTask = [k \in Keys |-> NoTask]
    /\ task = [a \in Attempts |-> "none"]
    /\ proc = [a \in Attempts |-> "none"]
    /\ pc = [a \in Attempts |-> "new"]
    /\ seen = [a \in Attempts |-> [status |-> "none", task |-> NoTask]]
    /\ crashes = 0
    /\ runs = [k \in Keys |-> 0]
    /\ failures = [k \in Keys |-> 0]
    /\ overlaps = [k \in Keys |-> 0]

Goto(a, point) == pc' = [pc EXCEPT ![a] = point]

-----------------------------------------------------------------------------
(* invoke_skill_api *)

\* What follows from the record once no retained Task answers the call: replay
\* a completed inline result, or run the recipe.
WithoutTask(recordStatus) ==
    IF recordStatus = "completed" THEN "replyResult" ELSE "spawn"

\* create_or_get: insert a pending record, or read the one there is.
Begin(a) ==
    LET k == KeyOf[a]
        others == {b \in Attempts : KeyOf[b] = k /\ pc[b] \in InFlight}
    IN
    /\ pc[a] = "new"
    /\ seen' = [seen EXCEPT ![a] = [status |-> recStatus[k],
                                    task |-> recTask[k]]]
    /\ recStatus' = [recStatus EXCEPT ![k] = IF @ = "none" THEN "pending" ELSE @]
    /\ Goto(a, IF recTask[k] # NoTask THEN "checkTask"
                                      ELSE WithoutTask(recStatus[k]))
    /\ overlaps' = [overlaps EXCEPT ![k] = IF others = {} THEN @ ELSE @ + 1]
    /\ UNCHANGED <<recTask, task, proc, crashes, runs, failures>>

\* Mutant of CheckTask: the linked Task does not answer the call.
CheckTaskUnused(a) ==
    /\ pc[a] = "checkTask"
    /\ Goto(a, WithoutTask(seen[a].status))
    /\ UNCHANGED <<ledgerVars, task, proc, seen, crashes, historyVars>>

\* get_task on the linked Task, whose row retention may have deleted.
CheckTask(a) ==
    /\ pc[a] = "checkTask"
    /\ Goto(a, IF task[seen[a].task] = "kept" THEN "replyTask"
                                              ELSE WithoutTask(seen[a].status))
    /\ UNCHANGED <<ledgerVars, task, proc, seen, crashes, historyVars>>

\* The except clause: whatever _run_process_recipe raised, settle as failed.
Raised(a) ==
    LET k == KeyOf[a] IN
    /\ pc[a] = "raised"
    /\ recStatus' = [recStatus EXCEPT ![k] = "failed"]
    /\ failures' = [failures EXCEPT ![k] = @ + 1]
    /\ Goto(a, "replyError")
    /\ UNCHANGED <<recTask, task, proc, seen, crashes, runs, overlaps>>

-----------------------------------------------------------------------------
(* _run_process_recipe *)

\* start_session.
Spawn(a) ==
    LET k == KeyOf[a] IN
    /\ pc[a] = "spawn"
    /\ proc' = [proc EXCEPT ![a] = "alive"]
    /\ runs' = [runs EXCEPT ![k] = @ + 1]
    /\ Goto(a, "started")
    /\ UNCHANGED <<ledgerVars, task, seen, crashes, failures, overlaps>>

\* The process cannot be started, or a statement finds the database locked.
RecipeRaises(a) ==
    /\ pc[a] \in {"spawn", "create", "link", "settleOk", "settleBad"}
    /\ Goto(a, "raised")
    /\ UNCHANGED <<ledgerVars, task, proc, seen, crashes, historyVars>>

\* _send_initial_stdin reports an error, or _poll_until_budget returns: with the
\* exit of the process, or with the budget used up.
SendStdinFails(a) ==
    /\ pc[a] = "started"
    /\ Goto(a, "discard")
    /\ UNCHANGED <<ledgerVars, task, proc, seen, crashes, historyVars>>

PollUntilBudget(a) ==
    /\ pc[a] = "started"
    /\ Goto(a, IF proc[a] = "alive" THEN "background" ELSE "inline")
    /\ UNCHANGED <<ledgerVars, task, proc, seen, crashes, historyVars>>

\* remove_session ends the process and forgets it.
RemoveSession(a) ==
    /\ pc[a] \in {"discard", "inline"}
    /\ proc' = [proc EXCEPT ![a] = "none"]
    /\ Goto(a, IF pc[a] = "inline" /\ proc[a] = "ok" THEN "settleOk"
                                                     ELSE "settleBad")
    /\ UNCHANGED <<ledgerVars, task, seen, crashes, historyVars>>

\* The record is settled and the result returned inline.
SettleCompleted(a) ==
    /\ pc[a] = "settleOk"
    /\ recStatus' = [recStatus EXCEPT ![KeyOf[a]] = "completed"]
    /\ Goto(a, "replyResult")
    /\ UNCHANGED <<recTask, task, proc, seen, crashes, historyVars>>

\* Mutant of SettleFailed: a status get_task and replay do not know.
SettleErrored(a) ==
    LET k == KeyOf[a] IN
    /\ pc[a] = "settleBad"
    /\ recStatus' = [recStatus EXCEPT ![k] = "error"]
    /\ failures' = [failures EXCEPT ![k] = @ + 1]
    /\ Goto(a, "replyError")
    /\ UNCHANGED <<recTask, task, proc, seen, crashes, runs, overlaps>>

SettleFailed(a) ==
    LET k == KeyOf[a] IN
    /\ pc[a] = "settleBad"
    /\ recStatus' = [recStatus EXCEPT ![k] = "failed"]
    /\ failures' = [failures EXCEPT ![k] = @ + 1]
    /\ Goto(a, "replyError")
    /\ UNCHANGED <<recTask, task, proc, seen, crashes, runs, overlaps>>

\* Mutants of MarkBackgrounded: the call is answered before the Task exists; the
\* record is linked before the Task exists.
ReplyBeforeTask(a) ==
    /\ pc[a] = "background"
    /\ Goto(a, "settleOk")
    /\ UNCHANGED <<ledgerVars, task, proc, seen, crashes, historyVars>>

LinkBeforeTask(a) ==
    /\ pc[a] = "background"
    /\ Goto(a, "link")
    /\ UNCHANGED <<ledgerVars, task, proc, seen, crashes, historyVars>>

\* mark_backgrounded; from here on only the Task leads to the process.
MarkBackgrounded(a) ==
    /\ pc[a] = "background"
    /\ Goto(a, "create")
    /\ UNCHANGED <<ledgerVars, task, proc, seen, crashes, historyVars>>

\* create_task and the "task.started" event.
CreateTask(a) ==
    /\ pc[a] = "create"
    /\ task' = [task EXCEPT ![a] = "kept"]
    /\ Goto(a, "link")
    /\ UNCHANGED <<ledgerVars, proc, seen, crashes, historyVars>>

LinkTask(a) ==
    LET k == KeyOf[a] IN
    /\ pc[a] = "link"
    /\ recTask' = [recTask EXCEPT ![k] = a]
    /\ recStatus' = [recStatus EXCEPT ![k] = "running"]
    /\ Goto(a, "replyTask")
    /\ UNCHANGED <<task, proc, seen, crashes, historyVars>>

-----------------------------------------------------------------------------
(* The environment *)

ProcessEnds(a) ==
    /\ proc[a] = "alive"
    /\ \E how \in {"ok", "bad"} : proc' = [proc EXCEPT ![a] = how]
    /\ UNCHANGED <<ledgerVars, task, pc, seen, crashes, historyVars>>

\* cleanup_terminal_tasks deletes the row of a Task that ended long ago; the
\* ledger row stays.  A Task whose kill failed is terminal too ("lost"), so its
\* process may still run.
Purge(a) ==
    /\ task[a] = "kept"
    /\ pc[a] \in Finished
    /\ task' = [task EXCEPT ![a] = "purged"]
    /\ UNCHANGED <<ledgerVars, proc, pc, seen, crashes, historyVars>>

\* The Node dies: its sessions are unknown to the next one and the attempts in
\* flight never answer.
Crash ==
    /\ crashes < MaxCrashes
    /\ crashes' = crashes + 1
    /\ proc' = [a \in Attempts |-> "none"]
    /\ pc' = [a \in Attempts |-> IF pc[a] \in InFlight THEN "aborted" ELSE pc[a]]
    /\ UNCHANGED <<ledgerVars, task, seen, historyVars>>

-----------------------------------------------------------------------------
(* The specification *)

AttemptStep(a) ==
    \/ Begin(a) \/ CheckTask(a) \/ Raised(a)
    \/ Spawn(a) \/ RecipeRaises(a) \/ SendStdinFails(a)
    \/ PollUntilBudget(a) \/ RemoveSession(a)
    \/ SettleCompleted(a) \/ SettleFailed(a)
    \/ MarkBackgrounded(a) \/ CreateTask(a) \/ LinkTask(a)

Next ==
    \/ \E a \in Attempts : AttemptStep(a) \/ ProcessEnds(a) \/ Purge(a)
    \/ Crash

Spec == Init /\ [][Next]_vars

-----------------------------------------------------------------------------
(* Properties *)

Purged(k) == {a \in Attempts : KeyOf[a] = k /\ task[a] = "purged"}

\* The effect of a tool call is repeated only for a cause: an attempt settled as
\* failed, a crash before the outcome was recorded, a Task deleted by retention,
\* or a second attempt made while the first was in flight.  A call that was
\* answered with a Task or a result is replayed, not run again.
EveryRerunHasCause ==
    \A k \in Keys :
        runs[k] <= 1 + failures[k] + crashes + Cardinality(Purged(k))
                     + overlaps[k]

\* A process the Node still has running belongs to an attempt that is under way
\* or to a Task that was created for it, so that somebody can stop it; the
\* exception is an attempt that raised after its process was started.
LiveProcessHasOwner ==
    \A a \in Attempts :
        proc[a] = "alive" =>
            pc[a] \in InFlight \cup {"replyError"} \/ task[a] # "none"

\* A task_id in the ledger always names a Task that was really created, in
\* whatever order concurrent attempts link, settle and crash.
LinkedTaskExisted ==
    \A k \in Keys :
        recTask[k] # NoTask => /\ task[recTask[k]] # "none"
                               /\ KeyOf[recTask[k]] = k

\* "ToolCallRecord rows are intentionally retained because they are the
\* execution-level idempotency ledger for external side effects": a call whose
\* Task was deleted by retention is not executed again.
PurgedTaskIsNotRerun ==
    [][\A a \in Attempts :
          CheckTask(a) /\ task[seen[a].task] = "purged"
              => pc'[a] # "spawn"]_vars
=============================================================================
