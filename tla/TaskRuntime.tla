------------------------------ MODULE TaskRuntime ------------------------------
(***************************************************************************)
(* Process-backed Tasks of the Node: the durable Task rows                 *)
(* (src/openppx/runtime/task_store.py), the wake scheduler that claims and *)
(* synchronizes them (task_scheduler.py), and the control operations of    *)
(* TaskController (task_execution.py) that agents and users call from      *)
(* other threads while the scheduler runs.                                 *)
(*                                                                         *)
(* One action is one SQLite statement or one call into the process session *)
(* manager: update_task is unconditional and every operation works on a    *)
(* snapshot it read earlier, so what may happen between the two is the     *)
(* point of the module.  Wall-clock time is abstracted to two facts that   *)
(* may become true at any moment: a lease has expired, a Task has not      *)
(* changed for the grace period.  Delivery records are the subject of      *)
(* TaskDeliveries.                                                         *)
(***************************************************************************)
EXTENDS Integers, FiniteSets

CONSTANTS
    Tasks,         \* Task ids
    Scheduler,     \* the scheduler thread of the running Node
    Remediators,   \* calls of remediate_stuck_tasks
    Users,         \* calls of the Task controls
    MaxControls,   \* bound: calls of the Task controls
    MaxCrashes     \* bound: crashes of the Node

Workers == {Scheduler} \cup Remediators
Actors == Workers \cup Users

ASSUME ActorAssumption ==
    /\ Scheduler \notin Remediators \cup Users
    /\ Remediators \cap Users = {}
ASSUME BoundAssumption == MaxControls \in Nat /\ MaxCrashes \in Nat

\* lease_owner and claim_token of a row no running worker claimed: no lease at
\* all, or the lease of a worker of an earlier Node process.
Free == "free"
Orphaned == "orphaned"
ASSUME LeaseAssumption == {Free, Orphaned} \cap Workers = {}

VARIABLES
    status,        \* task_runs.status ("absent" before create_task)
    lease,         \* the claim a row carries: a worker, Orphaned or Free
    live,          \* the lease has not expired
    aged,          \* the row is unchanged for the stale grace period
    proc,          \* what the session manager knows of the backing process
    crashes,       \* history: crashes of the Node so far
    controls,      \* history: calls of the Task controls so far
    pc,            \* where each actor is
    cur,           \* the Task it works on
    token,         \* the claim whose token it presents to release_claim
    seen,          \* the Task status in its latest snapshot or update
    payload,       \* what its latest poll_session returned
    goal,          \* what a user control is to achieve
    todo           \* the scheduler's remaining candidates

rowVars == <<status, lease, live, aged>>
actorVars == <<pc, cur, token, seen, payload, goal>>
bounds == <<crashes, controls>>
vars == <<rowVars, proc, bounds, actorVars, todo>>

-----------------------------------------------------------------------------
(* Statuses and types *)

Terminal == {"completed", "failed", "cancelled", "lost"}
Statuses == Terminal \cup {"absent", "running", "stale", "interrupted"}

\* _should_deliver, for the statuses a process Task can have.
Deliverable == Terminal \cup {"interrupted", "stale"}

\* What poll_session reports: no such session, not exited, or how it exited.
Payloads == {"none", "alive", "ok", "bad"}

\* A killed process is "dying" until its exit watcher has run.
ProcStates == Payloads \cup {"dying"}

PCs == {"idle", "drain", "candidate", "claimed", "reread", "poll", "apply",
        "decide", "publish", "release", "kill", "killing", "stop", "giveUp"}

TypeOK ==
    /\ status \in [Tasks -> Statuses]
    /\ lease \in [Tasks -> Workers \cup {Free, Orphaned}]
    /\ live \in [Tasks -> BOOLEAN]
    /\ aged \in [Tasks -> BOOLEAN]
    /\ proc \in [Tasks -> ProcStates]
    /\ crashes \in 0..MaxCrashes
    /\ controls \in 0..MaxControls
    /\ pc \in [Actors -> PCs]
    /\ cur \in [Actors -> Tasks]
    /\ token \in [Workers -> Workers \cup {Free, Orphaned}]
    /\ seen \in [Actors -> Statuses]
    /\ payload \in [Actors -> Payloads]
    /\ goal \in [Actors -> {"sync", "interrupted", "cancelled"}]
    /\ todo \in SUBSET Tasks

Init ==
    /\ status = [t \in Tasks |-> "absent"]
    /\ lease = [t \in Tasks |-> Free]
    /\ live = [t \in Tasks |-> FALSE]
    /\ aged = [t \in Tasks |-> FALSE]
    /\ proc = [t \in Tasks |-> "none"]
    /\ crashes = 0
    /\ controls = 0
    /\ pc = [a \in Actors |-> "idle"]
    /\ \E t \in Tasks : cur = [a \in Actors |-> t]
    /\ token = [w \in Workers |-> Free]
    /\ seen = [a \in Actors |-> "absent"]
    /\ payload = [a \in Actors |-> "none"]
    /\ goal = [a \in Actors |-> "sync"]
    /\ todo = {}

-----------------------------------------------------------------------------
(* The stores *)

\* update_task without expected_version: whatever the row holds is overwritten
\* and updated_at_ms is set to now.
UpdateStatus(t, new) ==
    /\ status' = [status EXCEPT ![t] = new]
    /\ aged' = [aged EXCEPT ![t] = FALSE]

\* Mutant of Unleased: an expired lease is still respected.
NeverLeased(t) == lease[t] = Free

\* The lease column permits a claim: NULL or expired.
Unleased(t) == lease[t] = Free \/ ~live[t]

\* lease_owner is one string per kind of worker and process, so two calls of
\* remediate_stuck_tasks share theirs and differ in the token only.
SameOwner(v, w) == v = w \/ {v, w} \subseteq Remediators

\* The SELECTs of drain_due_tasks.
Claimable(t) ==
    /\ Unleased(t)
    /\ status[t] = "running" \/ (status[t] = "stale" /\ aged[t])

\* Go on at the point next with st as the latest snapshot; a method that
\* returns drops its local variables.
Continue(a, next, st) ==
    /\ pc' = [pc EXCEPT ![a] = next]
    /\ seen' = [seen EXCEPT ![a] = IF next = "idle" THEN "absent" ELSE st]
    /\ goal' = [goal EXCEPT ![a] = IF next = "idle" THEN "sync" ELSE @]

-----------------------------------------------------------------------------
(* The environment: processes, the clock, crashes *)

\* A recipe outlived its inline budget: its session is in the background and
\* create_task inserts the row.
Create(t) ==
    /\ status[t] = "absent"
    /\ UpdateStatus(t, "running")
    /\ proc' = [proc EXCEPT ![t] = "alive"]
    /\ UNCHANGED <<lease, live, bounds, actorVars,
                   todo>>

\* The process ends and the exit watcher records how; one that was killed is
\* recorded as such.
ProcessEnds(t) ==
    /\ proc[t] = "alive"
    /\ \E how \in {"ok", "bad"} : proc' = [proc EXCEPT ![t] = how]
    /\ UNCHANGED <<rowVars, bounds, actorVars, todo>>

Reap(t) ==
    /\ proc[t] = "dying"
    /\ proc' = [proc EXCEPT ![t] = "bad"]
    /\ UNCHANGED <<rowVars, bounds, actorVars, todo>>

\* The process tool works on the same sessions: it kills one, or removes it so
\* that the manager knows it no more, as pruning does with an exited one.
ToolKills(t) ==
    /\ proc[t] = "alive"
    /\ proc' = [proc EXCEPT ![t] = "dying"]
    /\ UNCHANGED <<rowVars, bounds, actorVars, todo>>

SessionRemoved(t) ==
    /\ proc[t] # "none"
    /\ proc' = [proc EXCEPT ![t] = "none"]
    /\ UNCHANGED <<rowVars, bounds, actorVars, todo>>

LeaseExpires(t) ==
    /\ live[t]
    /\ live' = [live EXCEPT ![t] = FALSE]
    /\ UNCHANGED <<status, lease, aged, proc, bounds,
                   actorVars, todo>>

GraceElapses(t) ==
    /\ status[t] = "stale"
    /\ aged' = [aged EXCEPT ![t] = TRUE]
    /\ UNCHANGED <<status, lease, live, proc, bounds,
                   actorVars, todo>>

\* The Node process dies and is started again: threads and the session table
\* are gone, the database stays, leases included.
Crash ==
    /\ crashes < MaxCrashes
    /\ crashes' = crashes + 1
    /\ proc' = [t \in Tasks |-> "none"]
    /\ lease' = [t \in Tasks |-> IF lease[t] = Free THEN Free ELSE Orphaned]
    /\ pc' = [a \in Actors |-> "idle"]
    /\ token' = [w \in Workers |-> Free]
    /\ seen' = [a \in Actors |-> "absent"]
    /\ payload' = [a \in Actors |-> "none"]
    /\ goal' = [a \in Actors |-> "sync"]
    /\ todo' = {}
    /\ UNCHANGED <<status, live, aged, controls, cur>>

-----------------------------------------------------------------------------
(* Claiming: shared by the scheduler and remediate_stuck_tasks *)

\* claim_task's UPDATE.
Claim(w, t) ==
    /\ status[t] \notin Terminal
    /\ Unleased(t)
    /\ lease' = [lease EXCEPT ![t] = w]
    /\ live' = [live EXCEPT ![t] = TRUE]
    /\ pc' = [pc EXCEPT ![w] = "claimed"]
    /\ cur' = [cur EXCEPT ![w] = t]
    /\ UNCHANGED <<status, aged, proc, bounds, token,
                   seen, payload, goal>>

\* claim_task's closing get_task, a statement of its own, and the branch on
\* the snapshot it returns.  The scheduler then reads the row once more.
ReadClaim(w) ==
    LET t == cur[w]
        work == status[t] = "running"
                \/ (status[t] = "stale" /\ (w = Scheduler \/ aged[t]))
    IN
    /\ pc[w] = "claimed"
    /\ token' = [token EXCEPT ![w] = lease[t]]
    /\ Continue(w, IF w = Scheduler THEN IF work THEN "reread" ELSE "decide"
                                    ELSE IF work THEN "poll" ELSE "release",
                status[t])
    /\ UNCHANGED <<rowVars, proc, bounds, cur, payload,
                   todo>>

\* Mutants of Release: the claim of a Task that ended is kept; the row is freed
\* without a look at the token.
ReleaseUnlessTerminal(w) ==
    LET t == cur[w] IN
    /\ pc[w] = "release"
    /\ IF lease[t] = token[w] /\ token[w] = w /\ status[t] \notin Terminal
       THEN /\ lease' = [lease EXCEPT ![t] = Free]
            /\ live' = [live EXCEPT ![t] = FALSE]
       ELSE UNCHANGED <<lease, live>>
    /\ Continue(w, IF w = Scheduler THEN "drain" ELSE "idle", "absent")
    /\ todo' = IF w = Scheduler THEN todo \ {t} ELSE todo
    /\ token' = [token EXCEPT ![w] = Free]
    /\ UNCHANGED <<status, aged, proc, bounds, cur,
                   payload>>

ReleaseWithoutToken(w) ==
    LET t == cur[w] IN
    /\ pc[w] = "release"
    /\ lease' = [lease EXCEPT ![t] = Free]
    /\ live' = [live EXCEPT ![t] = FALSE]
    /\ Continue(w, IF w = Scheduler THEN "drain" ELSE "idle", "absent")
    /\ todo' = IF w = Scheduler THEN todo \ {t} ELSE todo
    /\ token' = [token EXCEPT ![w] = Free]
    /\ UNCHANGED <<status, aged, proc, bounds, cur,
                   payload>>

\* release_claim, in the finally blocks of both callers, after which the
\* caller's local variables are dead.
Release(w) ==
    LET t == cur[w] IN
    /\ pc[w] = "release"
    /\ IF lease[t] = token[w] /\ token[w] \in Workers /\ SameOwner(w, token[w])
       THEN /\ lease' = [lease EXCEPT ![t] = Free]
            /\ live' = [live EXCEPT ![t] = FALSE]
       ELSE UNCHANGED <<lease, live>>
    /\ Continue(w, IF w = Scheduler THEN "drain" ELSE "idle", "absent")
    /\ todo' = IF w = Scheduler THEN todo \ {t} ELSE todo
    /\ token' = [token EXCEPT ![w] = Free]
    /\ UNCHANGED <<status, aged, proc, bounds, cur,
                   payload>>

-----------------------------------------------------------------------------
(* Synchronizing with the process: shared by all actors *)

\* Where control returns to when the Task has been synchronized.
AfterSync(a) ==
    IF a = Scheduler THEN "decide"
    ELSE IF a \in Remediators THEN "release"
    ELSE IF goal[a] = "sync" THEN "idle" ELSE "giveUp"

\* get_task at the head of sync_task and reconcile_stale_task, with the early
\* returns of _sync_process_task and _reconcile_process_stale_task.  seen holds
\* the status the method is for.
Reread(a) ==
    LET t == cur[a]
        work == status[t] = seen[a] /\ (seen[a] = "stale" => aged[t])
    IN
    /\ pc[a] = "reread"
    /\ Continue(a, IF work THEN "poll" ELSE AfterSync(a), status[t])
    /\ UNCHANGED <<rowVars, proc, bounds, cur, token, payload,
                   todo>>

\* poll_session: a process whose exit was not recorded yet counts as alive.
Poll(a) ==
    /\ pc[a] = "poll"
    /\ payload' = [payload EXCEPT ![a] = IF proc[cur[a]] = "dying" THEN "alive"
                                         ELSE proc[cur[a]]]
    /\ pc' = [pc EXCEPT ![a] = "apply"]
    /\ UNCHANGED <<rowVars, proc, bounds, cur, token, seen, goal,
                   todo>>

\* Mutant of Observed: a failed process has a status of its own.
ObservedUnmapped(snapshot, polled) ==
    CASE polled = "alive" -> "running"
      [] polled = "ok" -> "completed"
      [] polled = "bad" -> "exited"
      [] polled = "none" -> IF snapshot = "running" THEN "stale" ELSE "lost"

\* The status a polled payload leads to: _apply_process_payload, or the branches
\* for a session the manager does not know.
Observed(snapshot, polled) ==
    CASE polled = "alive" -> "running"
      [] polled = "ok" -> "completed"
      [] polled = "bad" -> "failed"
      [] polled = "none" -> IF snapshot = "running" THEN "stale" ELSE "lost"

Apply(a) ==
    LET new == Observed(seen[a], payload[a]) IN
    /\ pc[a] = "apply"
    /\ UpdateStatus(cur[a], new)
    /\ payload' = [payload EXCEPT ![a] = "none"]
    /\ Continue(a, AfterSync(a), new)
    /\ UNCHANGED <<lease, live, proc, bounds, cur, token,
                   todo>>

-----------------------------------------------------------------------------
(* TaskWakeScheduler.drain_due_tasks *)

StartDrain ==
    /\ pc[Scheduler] = "idle"
    /\ todo' = {t \in Tasks : Claimable(t)}
    /\ pc' = [pc EXCEPT ![Scheduler] = "drain"]
    /\ UNCHANGED <<rowVars, proc, bounds, cur, token, seen,
                   payload, goal>>

ClaimCandidate(t) ==
    /\ pc[Scheduler] = "drain"
    /\ t \in todo
    /\ Claim(Scheduler, t)
    /\ UNCHANGED todo

SkipCandidate(t) ==
    /\ pc[Scheduler] = "drain"
    /\ t \in todo
    /\ status[t] \in Terminal \/ ~Unleased(t)
    /\ todo' = todo \ {t}
    /\ UNCHANGED <<rowVars, proc, bounds, actorVars>>

\* _should_deliver and record_once.  Only the creator of a record publishes it;
\* whether there is one for this status already is left open here.
Decide ==
    /\ pc[Scheduler] = "decide"
    /\ \/ /\ seen[Scheduler] \in Deliverable
          /\ Continue(Scheduler, "publish", seen[Scheduler])
       \/ Continue(Scheduler, "release", seen[Scheduler])
    /\ UNCHANGED <<rowVars, proc, bounds, cur, token, payload, todo>>

\* _publish_delivery takes as long as the callback does.
Publish ==
    /\ pc[Scheduler] = "publish"
    /\ Continue(Scheduler, "release", seen[Scheduler])
    /\ UNCHANGED <<rowVars, proc, bounds, cur, token, payload, todo>>

\* The candidates are done.  _retry_due_deliveries touches no Task row.
EndDrain ==
    /\ pc[Scheduler] = "drain"
    /\ todo = {}
    /\ Continue(Scheduler, "idle", "absent")
    /\ UNCHANGED <<rowVars, proc, bounds, cur, token, payload, todo>>

-----------------------------------------------------------------------------
(* TaskController.remediate_stuck_tasks, confirmed and not a dry run *)

\* list_stuck_tasks names a candidate; its age threshold is a parameter.
StartRemediation(r, t) ==
    /\ pc[r] = "idle"
    /\ status[t] \in {"running", "stale"}
    /\ cur' = [cur EXCEPT ![r] = t]
    /\ pc' = [pc EXCEPT ![r] = "candidate"]
    /\ UNCHANGED <<rowVars, proc, bounds, token, seen, payload,
                   goal, todo>>

RemediationClaims(r) ==
    /\ pc[r] = "candidate"
    /\ Claim(r, cur[r])
    /\ UNCHANGED todo

LeaseBusy(r) ==
    /\ pc[r] = "candidate"
    /\ status[cur[r]] \in Terminal \/ ~Unleased(cur[r])
    /\ pc' = [pc EXCEPT ![r] = "idle"]
    /\ UNCHANGED <<rowVars, proc, bounds, cur, token, seen,
                   payload, goal, todo>>

-----------------------------------------------------------------------------
(* Task controls: list, show and output synchronize; interrupt and cancel stop *)

StartSync(u, t) ==
    /\ pc[u] = "idle"
    /\ controls < MaxControls
    /\ status[t] # "absent"
    /\ controls' = controls + 1
    /\ cur' = [cur EXCEPT ![u] = t]
    /\ goal' = [goal EXCEPT ![u] = "sync"]
    /\ seen' = [seen EXCEPT ![u] = "running"]
    /\ pc' = [pc EXCEPT ![u] = "reread"]
    /\ UNCHANGED <<rowVars, proc, crashes, token, payload,
                   todo>>

\* interrupt_task and cancel_task read the row; a terminal Task is left alone.
StartStop(u, t, outcome) ==
    /\ pc[u] = "idle"
    /\ controls < MaxControls
    /\ status[t] \notin Terminal \cup {"absent"}
    /\ controls' = controls + 1
    /\ cur' = [cur EXCEPT ![u] = t]
    /\ goal' = [goal EXCEPT ![u] = outcome]
    /\ pc' = [pc EXCEPT ![u] = "kill"]
    /\ UNCHANGED <<rowVars, proc, crashes, token, seen, payload,
                   todo>>

\* kill_session's lookup and checks.  "Session already exited" counts as
\* stopped; an unknown session sends the control through sync_task.
KillChecks(u) ==
    LET p == proc[cur[u]] IN
    /\ pc[u] = "kill"
    /\ pc' = [pc EXCEPT ![u] = CASE p = "none" -> "reread"
                                 [] p \in {"alive", "dying"} -> "killing"
                                 [] p \in {"ok", "bad"} -> "stop"]
    /\ seen' = [seen EXCEPT ![u] = IF p = "none" THEN "running" ELSE @]
    /\ UNCHANGED <<rowVars, proc, bounds, cur, token, payload,
                   goal, todo>>

\* The signal and the termination reason: a process that ended by itself since
\* the check is relabelled as killed, and one removed since then stays unknown.
KillSignals(u) ==
    /\ pc[u] = "killing"
    /\ proc' = [proc EXCEPT ![cur[u]] =
                  CASE @ \in {"alive", "dying"} -> "dying"
                    [] @ \in {"ok", "bad"} -> "bad"
                    [] @ = "none" -> "none"]
    /\ pc' = [pc EXCEPT ![u] = "stop"]
    /\ UNCHANGED <<rowVars, bounds, cur, token, seen, payload,
                   goal, todo>>

\* Mutant of KillFails: the error of kill_session is not looked at.
KillFailsUnnoticed(u) ==
    /\ pc[u] = "killing"
    /\ proc[cur[u]] = "alive"
    /\ pc' = [pc EXCEPT ![u] = "stop"]
    /\ UNCHANGED <<rowVars, proc, bounds, cur, token, seen, payload,
                   goal, todo>>

KillFails(u) ==
    /\ pc[u] = "killing"
    /\ proc[cur[u]] = "alive"
    /\ seen' = [seen EXCEPT ![u] = "running"]
    /\ pc' = [pc EXCEPT ![u] = "reread"]
    /\ UNCHANGED <<rowVars, proc, bounds, cur, token, payload,
                   goal, todo>>

\* The closing update_task of _stop_process_task.
Stop(u) ==
    /\ pc[u] = "stop"
    /\ UpdateStatus(cur[u], goal[u])
    /\ Continue(u, "idle", "absent")
    /\ UNCHANGED <<lease, live, proc, bounds, cur, token,
                   payload, todo>>

\* The kill failed and the Task, once synchronized, is not terminal.
GiveUp(u) ==
    /\ pc[u] = "giveUp"
    /\ IF seen[u] \in Terminal THEN UNCHANGED <<status, aged>>
                               ELSE UpdateStatus(cur[u], "lost")
    /\ Continue(u, "idle", "absent")
    /\ UNCHANGED <<lease, live, proc, bounds, cur, token,
                   payload, todo>>

-----------------------------------------------------------------------------
(* The specification *)

Environment ==
    \/ \E t \in Tasks : \/ Create(t) \/ ProcessEnds(t) \/ Reap(t)
                        \/ ToolKills(t) \/ SessionRemoved(t)
                        \/ LeaseExpires(t) \/ GraceElapses(t)
    \/ Crash

SyncStep(a) == Reread(a) \/ Poll(a) \/ Apply(a)

SchedulerStep ==
    \/ StartDrain
    \/ \E t \in Tasks : ClaimCandidate(t) \/ SkipCandidate(t)
    \/ ReadClaim(Scheduler) \/ SyncStep(Scheduler)
    \/ Decide \/ Publish \/ Release(Scheduler) \/ EndDrain

RemediatorStep(r) ==
    \/ \E t \in Tasks : StartRemediation(r, t)
    \/ RemediationClaims(r) \/ LeaseBusy(r) \/ ReadClaim(r)
    \/ Poll(r) \/ Apply(r) \/ Release(r)

UserStep(u) ==
    \/ \E t \in Tasks : StartSync(u, t)
    \/ \E t \in Tasks, outcome \in {"interrupted", "cancelled"} :
          StartStop(u, t, outcome)
    \/ SyncStep(u)
    \/ KillChecks(u) \/ KillSignals(u) \/ KillFails(u) \/ Stop(u) \/ GiveUp(u)

Next ==
    \/ Environment
    \/ SchedulerStep
    \/ \E r \in Remediators : RemediatorStep(r)
    \/ \E u \in Users : UserStep(u)

\* The scheduler loop runs for as long as the Node does and its callback
\* returns, time passes, and a killed process is reaped.  Nothing is assumed of
\* users, remediation calls or processes.
Fairness ==
    /\ WF_vars(SchedulerStep)
    /\ \A t \in Tasks : /\ WF_vars(Reap(t))
                        /\ WF_vars(LeaseExpires(t))
                        /\ WF_vars(GraceElapses(t))

Spec == Init /\ [][Next]_vars /\ Fairness

-----------------------------------------------------------------------------
(* Properties *)

\* A worker that claimed a Task and has not come to release it.
Holding(w, t) ==
    /\ pc[w] \in {"claimed", "reread", "poll", "apply", "decide", "publish",
                  "release"}
    /\ cur[w] = t

\* No lease is forgotten: a row that names a worker of this Node process is
\* being worked on by it, so every path out of a drain releases its claim.
LeaseHasHolder ==
    \A t \in Tasks, w \in Workers : lease[t] = w => Holding(w, t)

\* "A terminal state is based on runner evidence": a Task that is reported as
\* completed, failed, cancelled or interrupted has no process that this Node
\* still has running.  ("lost" is also what a failed kill is reported as.)
StoppedTaskHasNoProcess ==
    \A t \in Tasks :
        status[t] \in {"completed", "failed", "cancelled", "interrupted"}
            => proc[t] # "alive"

\* While a lease has not expired only its holder, releasing it, or a restart of
\* the Node takes it away: a worker that is late with its release_claim cannot
\* free the claim another worker got after the first one's had expired.
LiveLeaseIsKept ==
    [][\A t \in Tasks, w \in Workers :
          lease[t] = w /\ live[t] /\ lease'[t] # w
              => \/ pc[w] = "release" /\ pc'[w] # "release"
                 \/ crashes' # crashes]_vars

\* When a running Task's process has ended, or vanished with its Node, the Task
\* leaves "running" and "stale" in the end, whatever leases were left behind.
FinishedTaskSettles ==
    \A t \in Tasks :
        (status[t] = "running" /\ proc[t] # "alive")
            ~> status[t] \notin {"running", "stale"}

\* "Synchronize one claimed stuck task without changing user intent": a
\* remediation does not change the status of a Task the user cancelled.
RemediationKeepsIntent ==
    [][\A r \in Remediators, t \in Tasks :
          Apply(r) /\ cur[r] = t /\ status[t] = "cancelled"
              => status'[t] = "cancelled"]_vars
=============================================================================
