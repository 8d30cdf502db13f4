---------------------------- MODULE ProcessSessions ----------------------------
(***************************************************************************)
(* The in-process table of command sessions that backs every process Task: *)
(* ProcessSessionManager in src/openppx/runtime/process_sessions.py.       *)
(*                                                                         *)
(* Threads share two tables under the manager lock and one record per      *)
(* session under the session lock.  One action is one critical section (or *)
(* one system call made outside both locks), so the interleavings TLC      *)
(* explores are those of the reader and watcher threads and of the callers *)
(* between the locks.  Output is counted in chunks: which characters a     *)
(* chunk holds is irrelevant, whether it is lost is not.  The two streams  *)
(* of a piped child are handled alike, so one stream is modelled.          *)
(***************************************************************************)
EXTENDS Integers, FiniteSets

CONSTANTS
    Sessions,      \* session ids that start_session may hand out
    Callers,       \* threads that call the manager: tools, recipes, Tasks
    PtySessions,   \* sessions spawned on a pseudo-terminal (cleanup_mode set)
    Visible,       \* pairs <<c, s>> for which _scope_allows holds
    MaxChunks,     \* bound: chunks one process writes
    PendingCap     \* _pending_max_output_chars, in chunks

ASSUME PtyAssumption == PtySessions \subseteq Sessions
ASSUME VisibleAssumption == Visible \subseteq Callers \X Sessions
ASSUME ChunkAssumption == MaxChunks \in Nat
ASSUME CapAssumption == PendingCap \in Nat \ {0}

VARIABLES
    running,       \* keys of self._running
    finished,      \* keys of self._finished
    expired,       \* exited sessions whose ended_at is older than the TTL
    proc,          \* the operating-system process: "unborn", "alive", "dead"
    watcher,       \* the exit watcher thread: "waiting", "archive", "done"
    exited,        \* session.exited
    backgrounded,  \* session.backgrounded
    reason,        \* session.termination_reason
    callbackRan,   \* session.terminate_callback_ran
    callbacks,     \* history: times the terminate callback was entered
    cleanups,      \* history: times cleanup_mode was called
    written,       \* chunks the process has written
    appended,      \* chunks a reader thread has appended to aggregated
    pending,       \* chunks in the pending buffer
    polled,        \* history: chunks handed to some poller
    truncated,     \* session.truncated
    pc,            \* where each caller is inside the method it runs
    arg            \* the session that method works on

sessionVars == <<proc, watcher, exited, backgrounded, reason>>
hookVars == <<callbackRan, callbacks>>
outputVars == <<written, appended, pending, polled, truncated>>
tableVars == <<running, finished, expired, cleanups>>
callerVars == <<pc, arg>>
vars == <<sessionVars, hookVars, outputVars, tableVars, callerVars>>

-----------------------------------------------------------------------------
(* Types *)

PCs == {"idle", "background", "poll", "kill", "terminate", "reason",
        "callback", "removeTerminate", "removeCallback", "cleanup"}

TypeOK ==
    /\ running \subseteq Sessions
    /\ finished \subseteq Sessions
    /\ expired \subseteq Sessions
    /\ proc \in [Sessions -> {"unborn", "alive", "dead"}]
    /\ watcher \in [Sessions -> {"waiting", "archive", "done"}]
    /\ exited \in [Sessions -> BOOLEAN]
    /\ backgrounded \in [Sessions -> BOOLEAN]
    /\ reason \in [Sessions -> {"none", "killed", "removed"}]
    /\ callbackRan \in [Sessions -> BOOLEAN]
    /\ callbacks \in [Sessions -> Nat]
    /\ cleanups \in [Sessions -> Nat]
    /\ written \in [Sessions -> 0..MaxChunks]
    /\ appended \in [Sessions -> 0..MaxChunks]
    /\ pending \in [Sessions -> 0..PendingCap]
    /\ polled \in [Sessions -> Nat]
    /\ truncated \in [Sessions -> BOOLEAN]
    /\ pc \in [Callers -> PCs]
    /\ arg \in [Callers -> Sessions]

Init ==
    /\ running = {}
    /\ finished = {}
    /\ expired = {}
    /\ proc = [s \in Sessions |-> "unborn"]
    /\ watcher = [s \in Sessions |-> "waiting"]
    /\ exited = [s \in Sessions |-> FALSE]
    /\ backgrounded = [s \in Sessions |-> FALSE]
    /\ reason = [s \in Sessions |-> "none"]
    /\ callbackRan = [s \in Sessions |-> FALSE]
    /\ callbacks = [s \in Sessions |-> 0]
    /\ cleanups = [s \in Sessions |-> 0]
    /\ written = [s \in Sessions |-> 0]
    /\ appended = [s \in Sessions |-> 0]
    /\ pending = [s \in Sessions |-> 0]
    /\ polled = [s \in Sessions |-> 0]
    /\ truncated = [s \in Sessions |-> FALSE]
    /\ pc = [c \in Callers |-> "idle"]
    /\ arg \in [Callers -> Sessions]

-----------------------------------------------------------------------------
(* The process, its reader and its exit watcher *)

\* start_session: spawn, register under the manager lock, start the threads.
Start(s) ==
    /\ proc[s] = "unborn"
    /\ proc' = [proc EXCEPT ![s] = "alive"]
    /\ running' = running \cup {s}
    /\ UNCHANGED <<finished, expired, cleanups, watcher, exited, backgrounded,
                   reason, hookVars, outputVars, callerVars>>

\* The process writes output, or ends by itself.
Write(s) ==
    /\ proc[s] = "alive"
    /\ written[s] < MaxChunks
    /\ written' = [written EXCEPT ![s] = @ + 1]
    /\ UNCHANGED <<appended, pending, polled, truncated, sessionVars, hookVars,
                   tableVars, callerVars>>

Exit(s) ==
    /\ proc[s] = "alive"
    /\ proc' = [proc EXCEPT ![s] = "dead"]
    /\ UNCHANGED <<watcher, exited, backgrounded, reason, hookVars, outputVars,
                   tableVars, callerVars>>

\* Mutants of Read: the pending buffer is not trimmed; it is trimmed without a
\* mark.
ReadUntrimmed(s) ==
    /\ appended[s] < written[s]
    /\ s \in PtySessions => cleanups[s] = 0
    /\ appended' = [appended EXCEPT ![s] = @ + 1]
    /\ pending' = [pending EXCEPT ![s] = @ + 1]
    /\ UNCHANGED <<truncated, written, polled, sessionVars, hookVars, tableVars,
                   callerVars>>

ReadUnmarked(s) ==
    /\ appended[s] < written[s]
    /\ s \in PtySessions => cleanups[s] = 0
    /\ appended' = [appended EXCEPT ![s] = @ + 1]
    /\ pending' = [pending EXCEPT ![s] = IF @ < PendingCap THEN @ + 1 ELSE @]
    /\ UNCHANGED <<truncated, written, polled, sessionVars, hookVars, tableVars,
                   callerVars>>

\* _append_output and _trim_pending: a full pending buffer drops its oldest
\* chunk and marks the session truncated.  Closing a pty ends its reader.
Read(s) ==
    /\ appended[s] < written[s]
    /\ s \in PtySessions => cleanups[s] = 0
    /\ appended' = [appended EXCEPT ![s] = @ + 1]
    /\ pending' = [pending EXCEPT ![s] = IF @ < PendingCap THEN @ + 1 ELSE @]
    /\ truncated' = [truncated EXCEPT ![s] = @ \/ pending[s] = PendingCap]
    /\ UNCHANGED <<written, polled, sessionVars, hookVars, tableVars,
                   callerVars>>

\* Mutant of WatchExit: the exit is recorded and nothing is archived.
WatchExitOnly(s) ==
    /\ proc[s] = "dead"
    /\ watcher[s] = "waiting"
    /\ exited' = [exited EXCEPT ![s] = TRUE]
    /\ watcher' = [watcher EXCEPT ![s] = "done"]
    /\ UNCHANGED <<proc, backgrounded, reason, hookVars, outputVars, tableVars,
                   callerVars>>

\* _watch after process.wait(): under the session lock.
WatchExit(s) ==
    /\ proc[s] = "dead"
    /\ watcher[s] = "waiting"
    /\ exited' = [exited EXCEPT ![s] = TRUE]
    /\ watcher' = [watcher EXCEPT ![s] = IF backgrounded[s] THEN "archive"
                                                            ELSE "done"]
    /\ UNCHANGED <<proc, backgrounded, reason, hookVars, outputVars, tableVars,
                   callerVars>>

\* Mutant of Archive: the session is filed whether or not it is still running.
ArchiveUnchecked(s) ==
    /\ watcher[s] = "archive"
    /\ watcher' = [watcher EXCEPT ![s] = "done"]
    /\ finished' = finished \cup {s}
    /\ running' = running \ {s}
    /\ UNCHANGED <<expired, cleanups, proc, exited, backgrounded, reason,
                   hookVars, outputVars, callerVars>>

\* _archive_finished: a session removed meanwhile is left alone.
Archive(s) ==
    /\ watcher[s] = "archive"
    /\ watcher' = [watcher EXCEPT ![s] = "done"]
    /\ finished' = IF s \in running THEN finished \cup {s} ELSE finished
    /\ running' = running \ {s}
    /\ UNCHANGED <<expired, cleanups, proc, exited, backgrounded, reason,
                   hookVars, outputVars, callerVars>>

\* Time passes until the retention of an exited session is over.
Expire(s) ==
    /\ exited[s]
    /\ expired' = expired \cup {s}
    /\ UNCHANGED <<running, finished, cleanups, sessionVars, hookVars,
                   outputVars, callerVars>>

-----------------------------------------------------------------------------
(* The methods the callers run *)

\* cleanup_mode closes the pty master of the sessions in S; None for a child.
CleanUp(S) ==
    cleanups' = [s \in Sessions |->
                    IF s \in S \cap PtySessions THEN cleanups[s] + 1
                                                ELSE cleanups[s]]

\* _prune_finished: drop the expired sessions and close their descriptors.
Prune ==
    /\ finished' = finished \ expired
    /\ CleanUp(finished \cap expired)

\* _lookup, with which every method but remove_session begins; the read-only
\* methods (list, describe, log, collect, write) end there too.
Lookup(c, s, method) ==
    /\ pc[c] = "idle"
    /\ Prune
    /\ IF s \in running \cup finished' /\ <<c, s>> \in Visible
       THEN /\ pc' = [pc EXCEPT ![c] = method]
            /\ arg' = [arg EXCEPT ![c] = s]
       ELSE UNCHANGED callerVars
    /\ UNCHANGED <<running, expired, sessionVars, hookVars, outputVars>>

\* mark_backgrounded, after its lookup.
MarkBackgrounded(c) ==
    /\ pc[c] = "background"
    /\ backgrounded' = [backgrounded EXCEPT ![arg[c]] = TRUE]
    /\ pc' = [pc EXCEPT ![c] = "idle"]
    /\ UNCHANGED <<proc, watcher, exited, reason, hookVars, outputVars,
                   tableVars, arg>>

\* poll_session, after its lookup and optional wait: drain the pending output.
Poll(c) ==
    /\ pc[c] = "poll"
    /\ polled' = [polled EXCEPT ![arg[c]] = @ + pending[arg[c]]]
    /\ pending' = [pending EXCEPT ![arg[c]] = 0]
    /\ pc' = [pc EXCEPT ![c] = "idle"]
    /\ UNCHANGED <<written, appended, truncated, sessionVars, hookVars,
                   tableVars, arg>>

\* kill_session: refused for an inline or exited session.
KillCheck(c) ==
    /\ pc[c] = "kill"
    /\ pc' = [pc EXCEPT ![c] = IF backgrounded[arg[c]] /\ ~exited[arg[c]]
                               THEN "terminate" ELSE "idle"]
    /\ UNCHANGED <<sessionVars, hookVars, outputVars, tableVars, arg>>

\* Mutant of Terminate: a failed signal counts as a kill.
TerminateUnchecked(c) ==
    /\ pc[c] = "terminate"
    /\ pc' = [pc EXCEPT ![c] = "reason"]
    /\ \/ proc' = [proc EXCEPT ![arg[c]] = "dead"]
       \/ proc' = proc
    /\ UNCHANGED <<watcher, exited, backgrounded, reason, hookVars, outputVars,
                   tableVars, arg>>

\* _terminate_process outside the locks; signalling may fail.
Terminate(c) ==
    /\ pc[c] = "terminate"
    /\ \/ /\ proc' = [proc EXCEPT ![arg[c]] = "dead"]
          /\ pc' = [pc EXCEPT ![c] = "reason"]
       \/ /\ proc[arg[c]] = "alive"
          /\ proc' = proc
          /\ pc' = [pc EXCEPT ![c] = "idle"]
    /\ UNCHANGED <<watcher, exited, backgrounded, reason, hookVars, outputVars,
                   tableVars, arg>>

SetKilled(c) ==
    /\ pc[c] = "reason"
    /\ reason' = [reason EXCEPT ![arg[c]] = "killed"]
    /\ pc' = [pc EXCEPT ![c] = "callback"]
    /\ UNCHANGED <<proc, watcher, exited, backgrounded, hookVars, outputVars,
                   tableVars, arg>>

\* Mutant of RunTerminateCallback: the flag is set and never tested.
RunCallbackUntested(s) ==
    /\ callbacks' = [callbacks EXCEPT ![s] = @ + 1]
    /\ callbackRan' = [callbackRan EXCEPT ![s] = TRUE]

\* _run_terminate_callback: the flag is tested and set under the session lock.
RunTerminateCallback(s) ==
    /\ callbacks' = [callbacks EXCEPT ![s] = IF callbackRan[s] THEN @ ELSE @ + 1]
    /\ callbackRan' = [callbackRan EXCEPT ![s] = TRUE]

KillCallback(c) ==
    /\ pc[c] = "callback"
    /\ RunTerminateCallback(arg[c])
    /\ pc' = [pc EXCEPT ![c] = "idle"]
    /\ UNCHANGED <<sessionVars, outputVars, tableVars, arg>>

\* Mutant of RemovePop: a finished session is read and left in its table.
RemovePeek(c, s) ==
    /\ pc[c] = "idle"
    /\ <<c, s>> \in Visible
    /\ s \in running \cup finished
    /\ running' = running \ {s}
    /\ pc' = [pc EXCEPT ![c] = "removeTerminate"]
    /\ arg' = [arg EXCEPT ![c] = s]
    /\ UNCHANGED <<finished, expired, cleanups, sessionVars, hookVars, outputVars>>

\* remove_session: pop the session from whichever table holds it.
RemovePop(c, s) ==
    /\ pc[c] = "idle"
    /\ <<c, s>> \in Visible
    /\ s \in running \cup finished
    /\ running' = running \ {s}
    /\ finished' = IF s \in running THEN finished ELSE finished \ {s}
    /\ pc' = [pc EXCEPT ![c] = "removeTerminate"]
    /\ arg' = [arg EXCEPT ![c] = s]
    /\ UNCHANGED <<expired, cleanups, sessionVars, hookVars, outputVars>>

\* ... and, holding its lock, terminate it when it has not exited.  The result
\* of _terminate_process is ignored here.
RemoveTerminate(c) ==
    LET s == arg[c] IN
    /\ pc[c] = "removeTerminate"
    /\ IF exited[s]
       THEN /\ pc' = [pc EXCEPT ![c] = "cleanup"]
            /\ UNCHANGED <<proc, reason>>
       ELSE /\ pc' = [pc EXCEPT ![c] = "removeCallback"]
            /\ reason' = [reason EXCEPT ![s] = "removed"]
            /\ \/ proc' = [proc EXCEPT ![s] = "dead"]
               \/ proc' = proc
    /\ UNCHANGED <<watcher, exited, backgrounded, hookVars, outputVars,
                   tableVars, arg>>

RemoveCallback(c) ==
    /\ pc[c] = "removeCallback"
    /\ RunTerminateCallback(arg[c])
    /\ pc' = [pc EXCEPT ![c] = "cleanup"]
    /\ UNCHANGED <<sessionVars, outputVars, tableVars, arg>>

RemoveCleanup(c) ==
    /\ pc[c] = "cleanup"
    /\ CleanUp({arg[c]})
    /\ pc' = [pc EXCEPT ![c] = "idle"]
    /\ UNCHANGED <<running, finished, expired, sessionVars, hookVars,
                   outputVars, arg>>

-----------------------------------------------------------------------------
(* The specification *)

SessionStep(s) ==
    \/ Start(s) \/ Write(s) \/ Exit(s) \/ Read(s)
    \/ WatchExit(s) \/ Archive(s) \/ Expire(s)

CallerStep(c) ==
    \/ \E s \in Sessions, method \in {"idle", "background", "poll", "kill"} :
          Lookup(c, s, method)
    \/ \E s \in Sessions : RemovePop(c, s)
    \/ MarkBackgrounded(c) \/ Poll(c)
    \/ KillCheck(c) \/ Terminate(c) \/ SetKilled(c) \/ KillCallback(c)
    \/ RemoveTerminate(c) \/ RemoveCallback(c) \/ RemoveCleanup(c)

Next ==
    \/ \E s \in Sessions : SessionStep(s)
    \/ \E c \in Callers : CallerStep(c)

\* The watcher and reader threads always get to run; nothing is assumed of the
\* process or of the callers.
Fairness ==
    \A s \in Sessions : WF_vars(WatchExit(s)) /\ WF_vars(Archive(s))
                        /\ WF_vars(Read(s))

Spec == Init /\ [][Next]_vars /\ Fairness

-----------------------------------------------------------------------------
(* Properties *)

Tables == running \cup finished

\* Whatever order remove_session, the exit watcher and pruning run in, a session
\* once dropped from the tables never reappears in them: _archive_finished must
\* not put back what remove_session popped while the watcher was on its way.
RemovedStaysGone ==
    [][\A s \in Sessions :
          proc[s] # "unborn" /\ s \notin Tables => s \notin Tables']_vars

\* The terminate callback (which stops an external sandbox) is entered at most
\* once, even when kill_session and remove_session race on one live session.
TerminateCallbackAtMostOnce == \A s \in Sessions : callbacks[s] <= 1

\* The pty master descriptor is closed at most once, whether removal or pruning
\* gets there first: a second close could hit a descriptor reused by then.
CleanupAtMostOnce == \A s \in Sessions : cleanups[s] <= 1

\* Output that was read is never lost silently: unless the session is marked
\* truncated, each appended chunk was handed to a poller or is still pending.
NoSilentLoss ==
    \A s \in Sessions :
        ~truncated[s] => appended[s] = polled[s] + pending[s]

\* A session that was in the background when it exited leaves the running table
\* (to be kept for the retention time and then pruned).
BackgroundExitIsArchived ==
    \A s \in Sessions : [](~exited[s] /\ backgrounded[s] /\ proc[s] = "dead"
                           => <>(s \notin running))

\* A kill that was reported as done is followed by the exit being observed.
KilledIsSeenToExit ==
    \A s \in Sessions : (reason[s] = "killed") ~> exited[s]
=============================================================================
