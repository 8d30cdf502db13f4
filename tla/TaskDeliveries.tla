----------------------------- MODULE TaskDeliveries -----------------------------
(***************************************************************************)
(* The outbox of Task notifications: TaskDeliveryStore in                  *)
(* src/openppx/runtime/task_store.py and the publishing half of            *)
(* TaskWakeScheduler in src/openppx/runtime/task_scheduler.py.             *)
(*                                                                         *)
(* A record is created once per Task and status, published by the thread   *)
(* that created it, and published again from the database after a failed   *)
(* callback or a crash.  The scheduler is one thread, so the hazards are   *)
(* the crash between two of its statements and the batch of retryable      *)
(* records it works through after having read it.  Which Task statuses     *)
(* lead to a record is TaskRuntime's subject.                              *)
(***************************************************************************)
EXTENDS Integers

CONSTANTS
    Notices,       \* delivery keys
    MaxCrashes     \* bound: crashes of the Node

ASSUME CrashAssumption == MaxCrashes \in Nat

VARIABLES
    record,        \* task_deliveries.status by key; "none" without a row
    due,           \* failed records whose next_attempt_at_ms has passed
    published,     \* history: callbacks that succeeded, by key
    crashes,       \* history: crashes of the Node so far
    hasCallback,   \* whether the Node was built with an on_delivery callback
    pc,            \* where the scheduler thread is
    cur,           \* the record it publishes
    retry          \* the rest of the batch _retry_due_deliveries read

recordVars == <<record, due>>
vars == <<recordVars, published, crashes, hasCallback, pc, cur, retry>>

\* "publish" and the marks exist twice: for a new record, and for a retried one.
PCs == {"idle", "publish", "markDelivered", "markFailed",
        "retry", "republish", "remarkDelivered", "remarkFailed"}

TypeOK ==
    /\ record \in [Notices -> {"none", "pending", "failed", "delivered"}]
    /\ due \in SUBSET Notices
    /\ published \in [Notices -> Nat]
    /\ crashes \in 0..MaxCrashes
    /\ hasCallback \in BOOLEAN
    /\ pc \in PCs
    /\ cur \in Notices
    /\ retry \in SUBSET Notices

Init ==
    /\ record = [d \in Notices |-> "none"]
    /\ due = {}
    /\ published = [d \in Notices |-> 0]
    /\ crashes = 0
    /\ hasCallback \in BOOLEAN
    /\ pc = "idle"
    /\ cur \in Notices
    /\ retry = {}

-----------------------------------------------------------------------------
(* The scheduler thread *)

\* Mutant of RecordOnce: an existing row is replaced.
RecordAgain(d) ==
    /\ pc = "idle"
    /\ record' = [record EXCEPT ![d] = "pending"]
    /\ cur' = d
    /\ pc' = "publish"
    /\ UNCHANGED <<due, published, crashes, hasCallback, retry>>

\* record_once for a Task the drain has settled: an existing row is left as it
\* is and published by nobody here.
RecordOnce(d) ==
    /\ pc = "idle"
    /\ record[d] = "none"
    /\ record' = [record EXCEPT ![d] = "pending"]
    /\ cur' = d
    /\ pc' = "publish"
    /\ UNCHANGED <<due, published, crashes, hasCallback, retry>>

\* The callback of _publish_delivery returns; without one there is nothing to
\* call and the record is marked delivered at once.
CallbackReturns ==
    /\ pc \in {"publish", "republish"}
    /\ published' = IF hasCallback THEN [published EXCEPT ![cur] = @ + 1]
                                   ELSE published
    /\ pc' = IF pc = "publish" THEN "markDelivered" ELSE "remarkDelivered"
    /\ UNCHANGED <<recordVars, crashes, hasCallback, cur, retry>>

\* Mutant of CallbackRaises: the exception is swallowed.
CallbackFailsQuietly ==
    /\ pc \in {"publish", "republish"}
    /\ hasCallback
    /\ pc' = IF pc = "publish" THEN "markDelivered" ELSE "remarkDelivered"
    /\ UNCHANGED <<recordVars, published, crashes, hasCallback, cur, retry>>

CallbackRaises ==
    /\ pc \in {"publish", "republish"}
    /\ hasCallback
    /\ pc' = IF pc = "publish" THEN "markFailed" ELSE "remarkFailed"
    /\ UNCHANGED <<recordVars, published, crashes, hasCallback, cur, retry>>

AfterMark == IF pc \in {"markDelivered", "markFailed"} THEN "idle" ELSE "retry"

MarkDelivered ==
    /\ pc \in {"markDelivered", "remarkDelivered"}
    /\ record' = [record EXCEPT ![cur] = "delivered"]
    /\ due' = due \ {cur}
    /\ pc' = AfterMark
    /\ UNCHANGED <<published, crashes, hasCallback, cur, retry>>

\* Mutant of MarkFailed: a status of its own for records that failed again.
MarkFailedAgain ==
    /\ pc \in {"markFailed", "remarkFailed"}
    /\ record' = [record EXCEPT ![cur] = IF pc = "markFailed" THEN "failed"
                                                              ELSE "dead"]
    /\ due' = due \ {cur}
    /\ pc' = AfterMark
    /\ UNCHANGED <<published, crashes, hasCallback, cur, retry>>

\* mark_failed schedules the next attempt after a bounded backoff.
MarkFailed ==
    /\ pc \in {"markFailed", "remarkFailed"}
    /\ record' = [record EXCEPT ![cur] = "failed"]
    /\ due' = due \ {cur}
    /\ pc' = AfterMark
    /\ UNCHANGED <<published, crashes, hasCallback, cur, retry>>

\* Mutants of Retryable: every row is retried; a pending row is left to the thread
\* that created it.
RetryableAlways(d) == record[d] # "none"

RetryableFailed(d) == record[d] = "failed" /\ d \in due

\* list_retryable_deliveries.
Retryable(d) == record[d] = "pending" \/ (record[d] = "failed" /\ d \in due)

StartRetries ==
    /\ pc = "idle"
    /\ retry' = {d \in Notices : Retryable(d)}
    /\ pc' = "retry"
    /\ UNCHANGED <<recordVars, published, crashes, hasCallback, cur>>

Retry(d) ==
    /\ pc = "retry"
    /\ d \in retry
    /\ retry' = retry \ {d}
    /\ cur' = d
    /\ pc' = "republish"
    /\ UNCHANGED <<recordVars, published, crashes, hasCallback>>

EndRetries ==
    /\ pc = "retry"
    /\ retry = {}
    /\ pc' = "idle"
    /\ UNCHANGED <<recordVars, published, crashes, hasCallback, cur, retry>>

-----------------------------------------------------------------------------
(* The environment *)

RetryTimeComes(d) ==
    /\ record[d] = "failed"
    /\ due' = due \cup {d}
    /\ UNCHANGED <<record, published, crashes, hasCallback, pc, cur, retry>>

\* The Node dies and is started again; the rows are all that is left.
Crash ==
    /\ crashes < MaxCrashes
    /\ crashes' = crashes + 1
    /\ pc' = "idle"
    /\ retry' = {}
    /\ UNCHANGED <<recordVars, published, hasCallback, cur>>

-----------------------------------------------------------------------------
(* The specification *)

Publishing == CallbackReturns \/ CallbackRaises \/ MarkDelivered \/ MarkFailed

RetryStep == StartRetries \/ EndRetries \/ \E d \in Notices : Retry(d)

Next ==
    \/ \E d \in Notices : RecordOnce(d) \/ RetryTimeComes(d)
    \/ Publishing
    \/ RetryStep
    \/ Crash

\* The drain loop goes round for as long as the Node runs, time passes, and a
\* callback that is tried again and again returns at last.
Fairness ==
    /\ WF_vars(Publishing)
    /\ WF_vars(StartRetries)
    /\ WF_vars(EndRetries)
    /\ \A d \in Notices : /\ WF_vars(Retry(d))
                          /\ SF_vars(CallbackReturns /\ cur = d)
                          /\ WF_vars(RetryTimeComes(d))

Spec == Init /\ [][Next]_vars /\ Fairness

-----------------------------------------------------------------------------
(* Properties *)

\* The same notification is published again only if the Node died between the
\* callback and mark_delivered, so once per crash at most: neither the creator
\* and a retry nor two retries of one batch publish it twice.
PublishedOncePerCrash ==
    \A d \in Notices : published[d] <= 1 + crashes

\* A record says "delivered" only when the callback did return for it, whatever
\* failures and restarts came before, and then says so for ever.
DeliveredWasPublished ==
    \A d \in Notices :
        record[d] = "delivered" /\ hasCallback => published[d] > 0

DeliveredIsFinal ==
    [][\A d \in Notices :
          record[d] = "delivered" => record'[d] = "delivered"]_vars

\* A notification once recorded is delivered, through failures and crashes.
RecordedIsDelivered ==
    \A d \in Notices : (record[d] # "none") ~> (record[d] = "delivered")

\* What a row stands for: a recorded notification is owed until it says "delivered".
Notice(d) ==
    IF record[d] = "none" THEN "none"
    ELSE IF record[d] = "delivered" THEN "settled" ELSE "owed"

Promised ==
    INSTANCE Outbox WITH
        notice <- [d \in Notices |-> Notice(d)],
        told <- published,
        listening <- hasCallback

\* The scheduler with its crashes, failing callbacks and stale batches keeps what the
\* outbox promises: nobody is told of what is settled, nothing is settled untold, and
\* everything owed is told and settled.
ImplementsOutbox == Promised!Spec
=============================================================================
