------------------------------ MODULE RunSupervisor ------------------------------
(***************************************************************************)
(* The Runs of one Node: NodeRuntimeSupervisor in                          *)
(* src/openppx/runtime/node_runtime.py, and the part of ClientApiCoordinator *)
(* in src/openppx/runtime/client_api_service.py that starts a Run for a    *)
(* client and tells it how the Run ended.                                  *)
(*                                                                         *)
(* A Run is started by a request thread and carried by a worker thread of  *)
(* its own; other request threads stop it, and the main thread closes the  *)
(* supervisor.  They meet in two tables under one lock, and in the         *)
(* _RunTaskControl of the Run, whose task lives on an event loop that      *)
(* begins and ends with the worker.  All Runs here belong to one Agent and *)
(* one configuration, so that they compete for one place in the table of   *)
(* runtimes.  What the stream of events does is RunEvents' subject.        *)
(***************************************************************************)
EXTENDS Naturals

CONSTANTS
    Runs,          \* Runs, each with the request thread that starts it
    NoRun          \* "no Run"

ASSUME RunAssumption == NoRun \notin Runs

VARIABLES
    \* NodeRuntimeSupervisor
    stopped,         \* _stopped
    state,           \* _runs: the state of a registered Run, else "none"
    cache,           \* _runtimes: the Run whose start assembled the runtime kept
    runtime,         \* the runtime that a Run's start assembled
    \* ClientApiCoordinator
    handle,          \* the RunHandle: "open" until finish() gives its status
    \* threads
    starter,         \* where the request thread that starts the Run is
    uses,            \* the runtime it was given, named as in cache
    worker,          \* where the worker thread is
    outcome,         \* how asyncio.run ended
    cancelRequested, \* _RunTaskControl._cancel_requested
    taskCancelled,   \* task.cancel has been called or scheduled
    stopper,         \* the one stop_run call that was accepted
    closer,          \* where close() is
    toCancel,        \* the Runs it has still to cancel
    toClose          \* the runtimes it has still to close

supervisorVars == <<stopped, state, cache, runtime>>
starterVars == <<starter, uses, handle>>
workerVars == <<worker, outcome>>
controlVars == <<cancelRequested, taskCancelled>>
closerVars == <<closer, toCancel, toClose>>
vars == <<supervisorVars, starterVars, workerVars, controlVars, stopper, closerVars>>

Active == {"running", "cancelling"}
Terminal == {"completed", "failed", "cancelled"}

StarterPCs == {"idle", "check", "lookup", "assemble", "retain", "dispose",
               "recheck", "register", "launch", "launched", "refused", "answered"}
WorkerPCs == {"none", "attach", "body", "fact", "complete", "tell", "finish", "done",
              "died"}
CloserPCs == {"idle", "cancel", "schedule", "runtimes", "closed", "raised"}

TypeOK ==
    /\ stopped \in BOOLEAN
    /\ state \in [Runs -> {"none"} \cup Active \cup Terminal]
    /\ cache \in Runs \cup {NoRun}
    /\ runtime \in [Runs -> {"none", "made", "closed"}]
    /\ handle \in [Runs -> {"none", "open", "dropped"} \cup Terminal]
    /\ starter \in [Runs -> StarterPCs]
    /\ uses \in [Runs -> Runs \cup {NoRun}]
    /\ worker \in [Runs -> WorkerPCs]
    /\ outcome \in [Runs -> {"none"} \cup Terminal]
    /\ cancelRequested \in [Runs -> BOOLEAN]
    /\ taskCancelled \in [Runs -> BOOLEAN]
    /\ stopper \in [Runs -> {"idle", "cancel", "schedule", "returned", "raised"}]
    /\ closer \in CloserPCs
    /\ toCancel \in SUBSET Runs
    /\ toClose \in SUBSET Runs

Init ==
    /\ stopped = FALSE
    /\ state = [r \in Runs |-> "none"]
    /\ cache = NoRun
    /\ runtime = [r \in Runs |-> "none"]
    /\ handle = [r \in Runs |-> "none"]
    /\ starter = [r \in Runs |-> "idle"]
    /\ uses = [r \in Runs |-> NoRun]
    /\ worker = [r \in Runs |-> "none"]
    /\ outcome = [r \in Runs |-> "none"]
    /\ cancelRequested = [r \in Runs |-> FALSE]
    /\ taskCancelled = [r \in Runs |-> FALSE]
    /\ stopper = [r \in Runs |-> "idle"]
    /\ closer = "idle"
    /\ toCancel = {}
    /\ toClose = {}

-----------------------------------------------------------------------------
(* create_run and start_run: the request thread *)

StarterGoes(r, from, to) ==
    /\ starter[r] = from
    /\ starter' = [starter EXCEPT ![r] = to]

\* create_run files the handle and publishes the first events before anything
\* can be refused.
CreateRun(r) ==
    /\ StarterGoes(r, "idle", "check")
    /\ handle' = [handle EXCEPT ![r] = "open"]
    /\ UNCHANGED <<supervisorVars, uses, workerVars, controlVars, stopper, closerVars>>

\* _ensure_running, at the head of runtime_for and again of register_run.
EnsureRunning(r) ==
    /\ \/ StarterGoes(r, "check", IF stopped THEN "refused" ELSE "lookup")
       \/ StarterGoes(r, "recheck", IF stopped THEN "refused" ELSE "register")
    /\ UNCHANGED <<supervisorVars, uses, handle, workerVars, controlVars, stopper,
                   closerVars>>

\* runtime_for looks for a runtime of this configuration.
Lookup(r) ==
    /\ StarterGoes(r, "lookup", IF cache = NoRun THEN "assemble" ELSE "recheck")
    /\ uses' = [uses EXCEPT ![r] = cache]
    /\ UNCHANGED <<supervisorVars, handle, workerVars, controlVars, stopper, closerVars>>

Assemble(r) ==
    /\ StarterGoes(r, "assemble", "retain")
    /\ runtime' = [runtime EXCEPT ![r] = "made"]
    /\ UNCHANGED <<stopped, state, cache, uses, handle, workerVars, controlVars, stopper,
                   closerVars>>

\* Mutant of Retain: the table's entry is overwritten.
RetainLatest(r) ==
    /\ StarterGoes(r, "retain", "recheck")
    /\ cache' = r
    /\ uses' = [uses EXCEPT ![r] = r]
    /\ UNCHANGED <<stopped, state, runtime, handle, workerVars, controlVars, stopper,
                   closerVars>>

\* Mutant of Retain: the loser of the race keeps the runtime it disposes of.
RetainOwn(r) ==
    /\ StarterGoes(r, "retain", IF cache = NoRun THEN "recheck" ELSE "dispose")
    /\ cache' = IF cache = NoRun THEN r ELSE cache
    /\ uses' = [uses EXCEPT ![r] = r]
    /\ UNCHANGED <<stopped, state, runtime, handle, workerVars, controlVars, stopper,
                   closerVars>>

\* setdefault: of two threads that assembled at the same time one keeps its
\* runtime and the other takes that one.
Retain(r) ==
    /\ StarterGoes(r, "retain", IF cache = NoRun THEN "recheck" ELSE "dispose")
    /\ cache' = IF cache = NoRun THEN r ELSE cache
    /\ uses' = [uses EXCEPT ![r] = cache']
    /\ UNCHANGED <<stopped, state, runtime, handle, workerVars, controlVars, stopper,
                   closerVars>>

Dispose(r) ==
    /\ StarterGoes(r, "dispose", "recheck")
    /\ runtime' = [runtime EXCEPT ![r] = "closed"]
    /\ UNCHANGED <<stopped, state, cache, uses, handle, workerVars, controlVars, stopper,
                   closerVars>>

Register(r) ==
    /\ StarterGoes(r, "register", "launch")
    /\ state' = [state EXCEPT ![r] = "running"]
    /\ UNCHANGED <<stopped, cache, runtime, uses, handle, workerVars, controlVars,
                   stopper, closerVars>>

Launch(r) ==
    /\ StarterGoes(r, "launch", "launched")
    /\ worker' = [worker EXCEPT ![r] = "attach"]
    /\ UNCHANGED <<supervisorVars, uses, handle, outcome, controlVars, stopper, closerVars>>

\* create_run forgets the handle of a Run that start_run refused.
Refuse(r) ==
    /\ StarterGoes(r, "refused", "answered")
    /\ handle' = [handle EXCEPT ![r] = "dropped"]
    /\ UNCHANGED <<supervisorVars, uses, workerVars, controlVars, stopper, closerVars>>

-----------------------------------------------------------------------------
(* The worker thread *)

WorkerGoes(r, from, to) ==
    /\ worker[r] = from
    /\ worker' = [worker EXCEPT ![r] = to]

\* Mutant of Attach: an earlier request is forgotten.
AttachOnly(r) ==
    /\ WorkerGoes(r, "attach", "body")
    /\ UNCHANGED <<supervisorVars, starterVars, outcome, controlVars, stopper, closerVars>>

\* _RunTaskControl.attach honours a cancellation requested before it.
Attach(r) ==
    /\ WorkerGoes(r, "attach", "body")
    /\ taskCancelled' = [taskCancelled EXCEPT ![r] = cancelRequested[r]]
    /\ UNCHANGED <<supervisorVars, starterVars, outcome, cancelRequested, stopper,
                   closerVars>>

\* The coroutine returns or raises, and asyncio.run closes the loop.  A
\* cancellation that comes after the coroutine's last await, or that some callee
\* swallows, changes nothing about how it ends.
RunEnds(r, how) ==
    /\ how = "cancelled" => taskCancelled[r]
    /\ WorkerGoes(r, "body", IF how = "completed" THEN "complete" ELSE "fact")
    /\ outcome' = [outcome EXCEPT ![r] = how]
    /\ UNCHANGED <<supervisorVars, starterVars, controlVars, stopper, closerVars>>

\* _record_terminal_goal_fact of a failed or cancelled Run; an exception of the
\* Goal store ends the thread there.
RecordFact(r) ==
    /\ \/ WorkerGoes(r, "fact", "complete")
       \/ WorkerGoes(r, "fact", "died")
    /\ UNCHANGED <<supervisorVars, starterVars, outcome, controlVars, stopper, closerVars>>

\* Mutant of CompleteRun: a Run that is being cancelled is taken for cancelled.
CompleteAsAsked(r) ==
    /\ WorkerGoes(r, "complete", "tell")
    /\ state' = [state EXCEPT ![r] = IF @ = "cancelling" THEN "cancelled" ELSE outcome[r]]
    /\ UNCHANGED <<stopped, cache, runtime, starterVars, outcome, controlVars, stopper,
                   closerVars>>

\* complete_run overwrites the state, whatever it is.
CompleteRun(r) ==
    /\ WorkerGoes(r, "complete", "tell")
    /\ state' = [state EXCEPT ![r] = outcome[r]]
    /\ UNCHANGED <<stopped, cache, runtime, starterVars, outcome, controlVars, stopper,
                   closerVars>>

\* _complete_node_run, _fail_node_run, _cancel_node_run: the last events are
\* published; recording the login's activity may raise, and the handle stays open.
TellClients(r) ==
    /\ \/ WorkerGoes(r, "tell", "finish")
       \/ WorkerGoes(r, "tell", "died")
    /\ UNCHANGED <<supervisorVars, starterVars, outcome, controlVars, stopper, closerVars>>

\* Mutant of FinishHandle: a Run that was to stop ends with a status of its own.
FinishStopped(r) ==
    /\ WorkerGoes(r, "finish", "done")
    /\ handle' = [handle EXCEPT ![r] = IF cancelRequested[r] THEN "stopped" ELSE outcome[r]]
    /\ UNCHANGED <<supervisorVars, starter, uses, outcome, controlVars, stopper,
                   closerVars>>

\* finish() takes the three terminal statuses and no other.
FinishHandle(r) ==
    /\ WorkerGoes(r, "finish", "done")
    /\ handle' = [handle EXCEPT ![r] = outcome[r]]
    /\ UNCHANGED <<supervisorVars, starter, uses, outcome, controlVars, stopper,
                   closerVars>>

-----------------------------------------------------------------------------
(* stop_run and close *)

\* _RunTaskControl.cancel is two steps for its caller: the request under the
\* control's lock, and call_soon_threadsafe if there was a loop by then, which
\* raises when that loop has been closed.
Attached(r) == worker[r] \notin {"none", "attach"}
LoopClosed(r) == worker[r] \in {"fact", "complete", "tell", "finish", "done", "died"}

\* Mutant of StopRun: anything but a Run already asked may be stopped.
StopAnyRun(r) ==
    /\ stopper[r] = "idle"
    /\ state[r] \notin {"none", "cancelling"}
    /\ state' = [state EXCEPT ![r] = "cancelling"]
    /\ stopper' = [stopper EXCEPT ![r] = "cancel"]
    /\ UNCHANGED <<stopped, cache, runtime, starterVars, workerVars, controlVars,
                   closerVars>>

StopRun(r) ==
    /\ stopper[r] = "idle"
    /\ state[r] = "running"
    /\ state' = [state EXCEPT ![r] = "cancelling"]
    /\ stopper' = [stopper EXCEPT ![r] = "cancel"]
    /\ UNCHANGED <<stopped, cache, runtime, starterVars, workerVars, controlVars,
                   closerVars>>

StopRequests(r) ==
    /\ stopper[r] = "cancel"
    /\ cancelRequested' = [cancelRequested EXCEPT ![r] = TRUE]
    /\ stopper' = [stopper EXCEPT ![r] = IF Attached(r) THEN "schedule" ELSE "returned"]
    /\ UNCHANGED <<supervisorVars, starterVars, workerVars, taskCancelled, closerVars>>

StopSchedules(r) ==
    /\ stopper[r] = "schedule"
    /\ stopper' = [stopper EXCEPT ![r] = IF LoopClosed(r) THEN "raised" ELSE "returned"]
    /\ taskCancelled' = [taskCancelled EXCEPT ![r] = @ \/ ~LoopClosed(r)]
    /\ UNCHANGED <<supervisorVars, starterVars, workerVars, cancelRequested, closerVars>>

\* close() stops the supervisor, marks the running Runs and takes the runtimes.
Close ==
    /\ closer = "idle"
    /\ stopped' = TRUE
    /\ toCancel' = {r \in Runs : state[r] = "running"}
    /\ state' = [r \in Runs |-> IF r \in toCancel' THEN "cancelling" ELSE state[r]]
    /\ toClose' = {cache} \cap Runs
    /\ cache' = NoRun
    /\ closer' = "cancel"
    /\ UNCHANGED <<runtime, starterVars, workerVars, controlVars, stopper>>

CloseRequests(r) ==
    /\ closer = "cancel"
    /\ r \in toCancel
    /\ cancelRequested' = [cancelRequested EXCEPT ![r] = TRUE]
    /\ IF Attached(r)
       THEN closer' = "schedule" /\ toCancel' = toCancel
       ELSE closer' = "cancel" /\ toCancel' = toCancel \ {r}
    /\ UNCHANGED <<supervisorVars, starterVars, workerVars, taskCancelled, stopper, toClose>>

\* An exception leaves the rest of the Runs, and the runtimes, as they are.
CloseSchedules(r) ==
    /\ closer = "schedule"
    /\ r \in toCancel
    /\ cancelRequested[r]
    /\ closer' = IF LoopClosed(r) THEN "raised" ELSE "cancel"
    /\ taskCancelled' = [taskCancelled EXCEPT ![r] = @ \/ ~LoopClosed(r)]
    /\ toCancel' = toCancel \ {r}
    /\ UNCHANGED <<supervisorVars, starterVars, workerVars, cancelRequested, stopper, toClose>>

CloseRuntimes ==
    /\ closer = "cancel"
    /\ toCancel = {}
    /\ runtime' = [r \in Runs |-> IF r \in toClose THEN "closed" ELSE runtime[r]]
    /\ toClose' = {}
    /\ closer' = "closed"
    /\ UNCHANGED <<stopped, state, cache, starterVars, workerVars, controlVars, stopper,
                   toCancel>>

-----------------------------------------------------------------------------
(* The specification *)

Starting(r) ==
    \/ EnsureRunning(r) \/ Lookup(r) \/ Assemble(r) \/ Retain(r) \/ Dispose(r)
    \/ Register(r) \/ Launch(r) \/ Refuse(r)

Winding(r) ==
    \/ RecordFact(r) \/ CompleteRun(r) \/ TellClients(r) \/ FinishHandle(r)

Stopping(r) == StopRequests(r) \/ StopSchedules(r)

Next ==
    \/ \E r \in Runs :
          \/ CreateRun(r) \/ Starting(r)
          \/ Attach(r) \/ Winding(r)
          \/ \E how \in Terminal : RunEnds(r, how)
          \/ StopRun(r) \/ Stopping(r)
          \/ CloseRequests(r) \/ CloseSchedules(r)
    \/ Close
    \/ CloseRuntimes

\* Threads that are ready run.  Of the body of a Run nothing is assumed but that
\* it gives way to a cancellation that has reached its task.
Fairness ==
    \A r \in Runs : /\ WF_vars(Starting(r))
                    /\ WF_vars(Attach(r))
                    /\ WF_vars(\E how \in Terminal : taskCancelled[r] /\ RunEnds(r, how))
                    /\ WF_vars(Winding(r))
                    /\ WF_vars(Stopping(r))

Spec == Init /\ [][Next]_vars /\ Fairness

-----------------------------------------------------------------------------
(* Properties *)

\* The state a Run ended in is its last: neither a stop that races with the end
\* nor the shutdown takes it back, though complete_run itself looks at nothing.
EndIsFinal ==
    [][\A r \in Runs : state[r] \in Terminal => state'[r] = state[r]]_vars

\* What the clients of a Run are told is what the supervisor recorded, also when
\* a stop was accepted a moment before the Run completed; and they are told
\* only after the Run has ceased to count as active.
StatusAgrees ==
    \A r \in Runs : handle[r] \in Terminal => handle[r] = state[r]

\* A stop that was accepted reaches the task, whether it comes before the task
\* exists, while it runs or after it is over, so the Run ends, unless the Goal
\* store kills the worker.
StopIsHonoured ==
    \A r \in Runs :
        (stopper[r] # "idle") ~> (state[r] \in Terminal \/ worker[r] = "died")

\* An assembled runtime is in the table, or in the hands of the thread that
\* will keep or close it, or on the list of close(), or closed: two starts at
\* once leave none behind.
RuntimeHasOwner ==
    \A r \in Runs :
        runtime[r] = "made" =>
            \/ cache = r
            \/ starter[r] \in {"retain", "dispose"}
            \/ r \in toClose

\* No Run works on a runtime that was closed under it before the shutdown.
RuntimeInUseIsOpen ==
    \A r \in Runs :
        uses[r] # NoRun /\ starter[r] \in {"recheck", "register", "launch", "launched"}
            => runtime[uses[r]] = "made" \/ stopped
=============================================================================
