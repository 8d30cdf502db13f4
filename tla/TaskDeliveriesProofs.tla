-------------------------- MODULE TaskDeliveriesProofs --------------------------
(***************************************************************************)
(* Proofs about TaskDeliveries.  A notification is published at most once  *)
(* per life of the Node because, at any moment, a key is in exactly one    *)
(* place: in the thread's hands, in the rest of the retry batch, or only   *)
(* in the database; and what is in hand or in the batch is not delivered.  *)
(***************************************************************************)
EXTENDS TaskDeliveries, TLAPS

\* The thread works on cur: it is about to publish it or to mark it.
NewInHand == pc \in {"publish", "markDelivered", "markFailed"}
OldInHand == pc \in {"republish", "remarkDelivered", "remarkFailed"}
Marking == pc \in {"markDelivered", "remarkDelivered"}

\* A key whose row exists and does not say delivered.
Open(d) == record[d] \in {"pending", "failed"}

HandInv ==
    /\ NewInHand \/ OldInHand => Open(cur)
    /\ \A d \in retry : Open(d)
    /\ OldInHand => cur \notin retry
    /\ retry # {} => OldInHand \/ pc = "retry"

\* The callback has returned for d once more than Nodes have died since.
Counted(d) == record[d] = "delivered" \/ (Marking /\ cur = d)

CountInv ==
    \A d \in Notices : published[d] <= crashes + (IF Counted(d) THEN 1 ELSE 0)

ReturnInv ==
    hasCallback => \A d \in Notices : Counted(d) => published[d] > 0

IInv == TypeOK /\ HandInv /\ CountInv /\ ReturnInv

-----------------------------------------------------------------------------

\* The initial states satisfy the invariant.
LEMMA InitIInv == Init => IInv
BY CrashAssumption DEF Init, IInv, TypeOK, HandInv, CountInv, ReturnInv, PCs,
   NewInHand, OldInHand, Marking, Open, Counted

\* Every step keeps the types.
LEMMA NextTypeOK == TypeOK /\ [Next]_vars => TypeOK'
<1> SUFFICES ASSUME TypeOK, [Next]_vars PROVE TypeOK'
  OBVIOUS
<1> USE CrashAssumption DEF TypeOK, PCs
<1>1. ASSUME NEW d \in Notices, RecordOnce(d) PROVE TypeOK'
  BY <1>1 DEF RecordOnce
<1>2. ASSUME NEW d \in Notices, RetryTimeComes(d) PROVE TypeOK'
  BY <1>2 DEF RetryTimeComes
<1>3. CASE CallbackReturns
  BY <1>3 DEF CallbackReturns, recordVars
<1>4. CASE CallbackRaises
  BY <1>4 DEF CallbackRaises, recordVars
<1>5. CASE MarkDelivered
  BY <1>5 DEF MarkDelivered, AfterMark
<1>6. CASE MarkFailed
  BY <1>6 DEF MarkFailed, AfterMark
<1>7. CASE StartRetries
  BY <1>7 DEF StartRetries, recordVars
<1>8. CASE EndRetries
  BY <1>8 DEF EndRetries, recordVars
<1>9. ASSUME NEW d \in Notices, Retry(d) PROVE TypeOK'
  BY <1>9 DEF Retry, recordVars
<1>10. CASE Crash
  BY <1>10 DEF Crash, recordVars
<1>11. CASE UNCHANGED vars
  BY <1>11 DEF vars, recordVars
<1> QED
  BY <1>1, <1>2, <1>3, <1>4, <1>5, <1>6, <1>7, <1>8, <1>9, <1>10, <1>11
     DEF Next, Publishing, RetryStep

\* One step keeps the rest of the invariant: only the thread moves a key from
\* one place to another, and a crash clears the hand and the batch.
LEMMA NextIInv == IInv /\ [Next]_vars => IInv'
<1> SUFFICES ASSUME IInv, [Next]_vars PROVE IInv'
  OBVIOUS
<1>0. TypeOK'
  BY NextTypeOK DEF IInv
<1> USE <1>0, CrashAssumption DEF IInv, TypeOK, HandInv, CountInv, ReturnInv,
        NewInHand, OldInHand, Marking, Open, Counted
<1>1. ASSUME NEW d \in Notices, RecordOnce(d) PROVE IInv'
  BY <1>1 DEF RecordOnce
<1>2. ASSUME NEW d \in Notices, RetryTimeComes(d) PROVE IInv'
  BY <1>2 DEF RetryTimeComes
<1>3. CASE CallbackReturns
  <2>1. HandInv'
    BY <1>3 DEF CallbackReturns, recordVars
  <2>2. CountInv'
    BY <1>3 DEF CallbackReturns, recordVars
  <2>3. ReturnInv'
    BY <1>3 DEF CallbackReturns, recordVars
  <2> QED
    BY <2>1, <2>2, <2>3
<1>4. CASE CallbackRaises
  BY <1>4 DEF CallbackRaises, recordVars
<1>5. CASE MarkDelivered
  <2>1. HandInv'
    BY <1>5 DEF MarkDelivered, AfterMark
  <2>2. CountInv'
    BY <1>5 DEF MarkDelivered, AfterMark
  <2>3. ReturnInv'
    BY <1>5 DEF MarkDelivered, AfterMark
  <2> QED
    BY <2>1, <2>2, <2>3
<1>6. CASE MarkFailed
  <2>1. HandInv'
    BY <1>6 DEF MarkFailed, AfterMark
  <2>2. CountInv'
    BY <1>6 DEF MarkFailed, AfterMark
  <2>3. ReturnInv'
    BY <1>6 DEF MarkFailed, AfterMark
  <2> QED
    BY <2>1, <2>2, <2>3
<1>7. CASE StartRetries
  BY <1>7 DEF StartRetries, Retryable, recordVars
<1>8. CASE EndRetries
  BY <1>8 DEF EndRetries, recordVars
<1>9. ASSUME NEW d \in Notices, Retry(d) PROVE IInv'
  BY <1>9 DEF Retry, recordVars
<1>10. CASE Crash
  BY <1>10 DEF Crash, recordVars
<1>11. CASE UNCHANGED vars
  BY <1>11 DEF vars, recordVars
<1> QED
  BY <1>1, <1>2, <1>3, <1>4, <1>5, <1>6, <1>7, <1>8, <1>9, <1>10, <1>11
     DEF Next, Publishing, RetryStep

\* The invariant holds in every behaviour.
LEMMA Invariance == Spec => []IInv
BY InitIInv, NextIInv, PTL DEF Spec

-----------------------------------------------------------------------------

\* Type correctness of the outbox.
THEOREM TypeCorrect == Spec => []TypeOK
BY Invariance, PTL DEF IInv

\* For any number of notifications and crashes, a notification is published at
\* most once more than the Node has died.
THEOREM AtMostOncePerCrash == Spec => []PublishedOncePerCrash
<1>1. ASSUME IInv, NEW d \in Notices PROVE published[d] <= 1 + crashes
  <2>1. published[d] \in Nat /\ crashes \in Nat
    BY <1>1, CrashAssumption DEF IInv, TypeOK
  <2>2. CASE Counted(d)
    BY <1>1, <2>1, <2>2 DEF IInv, CountInv
  <2>3. CASE ~Counted(d)
    BY <1>1, <2>1, <2>3 DEF IInv, CountInv
  <2> QED
    BY <2>2, <2>3
<1>2. IInv => PublishedOncePerCrash
  BY <1>1 DEF PublishedOncePerCrash
<1> QED
  BY <1>2, Invariance, PTL

\* A record that says "delivered" was handed to a callback that returned.
THEOREM DeliveredIsTrue == Spec => []DeliveredWasPublished
<1>1. IInv => DeliveredWasPublished
  BY DEF IInv, ReturnInv, Counted, DeliveredWasPublished
<1> QED
  BY <1>1, Invariance, PTL

\* No retry, failure or crash takes a record back from "delivered".
THEOREM DeliveredStays == Spec => DeliveredIsFinal
<1>1. ASSUME IInv, [Next]_vars, NEW d \in Notices, record[d] = "delivered"
      PROVE  record'[d] = "delivered"
  <2> USE <1>1 DEF IInv, TypeOK, HandInv, NewInHand, OldInHand, Open
  <2>1. CASE \E e \in Notices : RecordOnce(e)
    BY <2>1 DEF RecordOnce
  <2>2. CASE MarkDelivered
    BY <2>2 DEF MarkDelivered
  <2>3. CASE MarkFailed
    BY <2>3 DEF MarkFailed
  <2>4. CASE UNCHANGED record
    BY <2>4
  <2> QED
    BY <2>1, <2>2, <2>3, <2>4
       DEF Next, Publishing, RetryStep, RetryTimeComes, CallbackReturns,
           CallbackRaises, StartRetries, EndRetries, Retry, Crash, vars,
           recordVars
<1>2. IInv /\ [Next]_vars
        => [\A d \in Notices :
               record[d] = "delivered" => record'[d] = "delivered"]_vars
  BY <1>1
<1> QED
  BY <1>2, Invariance, PTL DEF Spec, DeliveredIsFinal

-----------------------------------------------------------------------------
(* The scheduler implements the outbox *)

\* A step that moves no row and tells nobody is a step of the outbox's stuttering.
LEMMA SilentStep ==
    ASSUME UNCHANGED <<published, hasCallback>>,
           \A d \in Notices : Notice(d)' = Notice(d)
    PROVE  UNCHANGED Promised!vars
BY DEF Promised!vars, Notice

\* A step of the scheduler records a notification, tells the listener, settles what
\* the listener was told, or is not seen from outside.
LEMMA StepOfOutbox == IInv /\ [Next]_vars => [Promised!Next]_Promised!vars
<1> SUFFICES ASSUME IInv, [Next]_vars PROVE [Promised!Next]_Promised!vars
  OBVIOUS
<1> USE DEF IInv, TypeOK
<1>1. ASSUME NEW d \in Notices, RecordOnce(d) PROVE Promised!Owe(d)
  BY <1>1 DEF RecordOnce, Notice, Promised!Owe
<1>2. CASE CallbackReturns
  <2>1. CASE hasCallback
    <3>1. Open(cur)
      BY <1>2 DEF CallbackReturns, HandInv, NewInHand, OldInHand
    <3>2. Promised!Tell(cur)
      BY <1>2, <2>1, <3>1 DEF CallbackReturns, recordVars, Open, Notice, Promised!Tell
    <3> QED
      BY <3>2 DEF Promised!Next
  <2>2. CASE ~hasCallback
    BY <1>2, <2>2, SilentStep DEF CallbackReturns, recordVars, Notice
  <2> QED
    BY <2>1, <2>2
<1>3. CASE MarkDelivered
  <2>1. Open(cur) /\ (hasCallback => published[cur] > 0)
    BY <1>3 DEF MarkDelivered, HandInv, NewInHand, OldInHand, ReturnInv, Counted, Marking
  <2>2. Promised!Settle(cur)
    BY <1>3, <2>1 DEF MarkDelivered, Open, Notice, Promised!Settle
  <2>3. cur \in Notices
    OBVIOUS
  <2> QED
    BY ONLY <2>2, <2>3 DEF Promised!Next
<1>4. CASE MarkFailed
  <2>1. Open(cur)
    BY <1>4 DEF MarkFailed, HandInv, NewInHand, OldInHand
  <2> QED
    BY <1>4, <2>1, SilentStep DEF MarkFailed, Open, Notice
<1>5. CASE UNCHANGED <<record, published, hasCallback>>
  BY <1>5, SilentStep DEF Notice
<1> QED
  BY <1>1, <1>2, <1>3, <1>4, <1>5
     DEF Next, Publishing, RetryStep, RetryTimeComes, CallbackRaises, StartRetries,
         EndRetries, Retry, Crash, vars, recordVars, Promised!Next

\* The safety part of ImplementsOutbox: for any set of notifications and any number of
\* crashes, nobody is told of a settled notification and none is settled untold.
THEOREM OutboxIsKept == Spec => Promised!SafeSpec
<1>1. Init => Promised!Init
  BY DEF Init, Notice, Promised!Init
<1> QED
  BY <1>1, StepOfOutbox, Invariance, PTL DEF Spec, Promised!SafeSpec
=============================================================================
