-------------------------- MODULE ProcessSessionsProofs --------------------------
(***************************************************************************)
(* Theorems of ProcessSessions, for any sessions, callers and visibility   *)
(* and any amount of output.  The descriptor of a session is closed once   *)
(* because, at any moment, its entry is in one table, in the hands of one  *)
(* caller of remove_session, or nowhere any more.                          *)
(***************************************************************************)
EXTENDS ProcessSessions, TLAPS

\* The caller has popped the session and has still to close its descriptor.
Removing(c, s) ==
    /\ pc[c] \in {"removeTerminate", "removeCallback", "cleanup"}
    /\ arg[c] = s

\* The entry of a session is in one place at a time.
PlaceInv ==
    \A s \in Sessions :
        /\ ~(s \in running /\ s \in finished)
        /\ \A c \in Callers :
               Removing(c, s) => /\ s \notin Tables
                                 /\ \A d \in Callers : Removing(d, s) => c = d
        /\ proc[s] = "unborn" => s \notin Tables /\ \A c \in Callers : ~Removing(c, s)

\* While the entry is somewhere, the descriptor is open.
OpenInv ==
    \A s \in Sessions :
        /\ cleanups[s] <= 1
        /\ s \in Tables => cleanups[s] = 0
        /\ \A c \in Callers : Removing(c, s) => cleanups[s] = 0
        /\ proc[s] = "unborn" => cleanups[s] = 0

\* The flag says how often the callback was entered.
CallbackInv == \A s \in Sessions : callbacks[s] = IF callbackRan[s] THEN 1 ELSE 0

IInv == TypeOK /\ PlaceInv /\ OpenInv /\ CallbackInv /\ NoSilentLoss

-----------------------------------------------------------------------------
(* The initial states and the steps *)

\* The initial states satisfy the invariant.
LEMMA InitIInv == Init => IInv
<1> SUFFICES ASSUME Init PROVE IInv
  OBVIOUS
<1> USE ChunkAssumption, CapAssumption DEF Init
<1>1. TypeOK
  BY DEF TypeOK, PCs
<1>2. PlaceInv /\ OpenInv
  BY DEF PlaceInv, OpenInv, Removing, Tables
<1>3. CallbackInv /\ NoSilentLoss
  BY DEF CallbackInv, NoSilentLoss
<1> QED
  BY <1>1, <1>2, <1>3 DEF IInv

\* Every step keeps the types.
LEMMA TypeStep == TypeOK /\ [Next]_vars => TypeOK'
<1> SUFFICES ASSUME TypeOK, [Next]_vars PROVE TypeOK'
  OBVIOUS
<1> USE ChunkAssumption, CapAssumption
    DEF TypeOK, PCs, sessionVars, hookVars, outputVars, tableVars, callerVars
<1>1. ASSUME NEW s \in Sessions, Start(s) PROVE TypeOK'
  BY <1>1 DEF Start
<1>2. ASSUME NEW s \in Sessions, Write(s) PROVE TypeOK'
  BY <1>2 DEF Write
<1>3. ASSUME NEW s \in Sessions, Exit(s) PROVE TypeOK'
  BY <1>3 DEF Exit
<1>4. ASSUME NEW s \in Sessions, Read(s) PROVE TypeOK'
  BY <1>4 DEF Read
<1>5. ASSUME NEW s \in Sessions, WatchExit(s) PROVE TypeOK'
  BY <1>5 DEF WatchExit
<1>6. ASSUME NEW s \in Sessions, Archive(s) PROVE TypeOK'
  BY <1>6 DEF Archive
<1>7. ASSUME NEW s \in Sessions, Expire(s) PROVE TypeOK'
  BY <1>7 DEF Expire
<1>8. ASSUME NEW c \in Callers, NEW s \in Sessions,
             NEW method \in {"idle", "background", "poll", "kill"}, Lookup(c, s, method)
      PROVE  TypeOK'
  BY <1>8 DEF Lookup, Prune, CleanUp
<1>9. ASSUME NEW c \in Callers, NEW s \in Sessions, RemovePop(c, s) PROVE TypeOK'
  BY <1>9 DEF RemovePop
<1>10. ASSUME NEW c \in Callers, MarkBackgrounded(c) PROVE TypeOK'
  BY <1>10 DEF MarkBackgrounded
<1>11. ASSUME NEW c \in Callers, Poll(c) PROVE TypeOK'
  BY <1>11 DEF Poll
<1>12. ASSUME NEW c \in Callers, KillCheck(c) PROVE TypeOK'
  BY <1>12 DEF KillCheck
<1>13. ASSUME NEW c \in Callers, Terminate(c) PROVE TypeOK'
  BY <1>13 DEF Terminate
<1>14. ASSUME NEW c \in Callers, SetKilled(c) PROVE TypeOK'
  BY <1>14 DEF SetKilled
<1>15. ASSUME NEW c \in Callers, KillCallback(c) PROVE TypeOK'
  BY <1>15 DEF KillCallback, RunTerminateCallback
<1>16. ASSUME NEW c \in Callers, RemoveTerminate(c) PROVE TypeOK'
  BY <1>16 DEF RemoveTerminate
<1>17. ASSUME NEW c \in Callers, RemoveCallback(c) PROVE TypeOK'
  BY <1>17 DEF RemoveCallback, RunTerminateCallback
<1>18. ASSUME NEW c \in Callers, RemoveCleanup(c) PROVE TypeOK'
  BY <1>18 DEF RemoveCleanup, CleanUp
<1>19. CASE UNCHANGED vars
  BY <1>19 DEF vars
<1> QED
  BY <1>1, <1>2, <1>3, <1>4, <1>5, <1>6, <1>7, <1>8, <1>9, <1>10, <1>11, <1>12, <1>13,
     <1>14, <1>15, <1>16, <1>17, <1>18, <1>19
     DEF Next, SessionStep, CallerStep

\* Every step keeps an entry in one place and its descriptor open there.
LEMMA PlaceStep ==
    TypeOK /\ PlaceInv /\ OpenInv /\ [Next]_vars => PlaceInv' /\ OpenInv'
<1> SUFFICES ASSUME TypeOK, PlaceInv, OpenInv, [Next]_vars PROVE PlaceInv' /\ OpenInv'
  OBVIOUS
<1> USE DEF TypeOK, PCs, PlaceInv, OpenInv, Removing, Tables,
            sessionVars, hookVars, outputVars, tableVars, callerVars
<1>1. ASSUME NEW s \in Sessions, Start(s) PROVE PlaceInv' /\ OpenInv'
  BY <1>1 DEF Start
<1>2. ASSUME NEW s \in Sessions, Write(s) PROVE PlaceInv' /\ OpenInv'
  BY <1>2 DEF Write
<1>3. ASSUME NEW s \in Sessions, Exit(s) PROVE PlaceInv' /\ OpenInv'
  BY <1>3 DEF Exit
<1>4. ASSUME NEW s \in Sessions, Read(s) PROVE PlaceInv' /\ OpenInv'
  BY <1>4 DEF Read
<1>5. ASSUME NEW s \in Sessions, WatchExit(s) PROVE PlaceInv' /\ OpenInv'
  BY <1>5 DEF WatchExit
<1>6. ASSUME NEW s \in Sessions, Archive(s) PROVE PlaceInv' /\ OpenInv'
  BY <1>6 DEF Archive
<1>7. ASSUME NEW s \in Sessions, Expire(s) PROVE PlaceInv' /\ OpenInv'
  BY <1>7 DEF Expire
<1>8. ASSUME NEW c \in Callers, NEW s \in Sessions,
             NEW method \in {"idle", "background", "poll", "kill"}, Lookup(c, s, method)
      PROVE  PlaceInv' /\ OpenInv'
  <2>1. /\ running' = running /\ finished' = finished \ expired /\ proc' = proc
        /\ \A t \in Sessions : cleanups'[t] =
              IF t \in finished \cap expired \cap PtySessions THEN cleanups[t] + 1
                                                            ELSE cleanups[t]
    BY <1>8 DEF Lookup, Prune, CleanUp
  <2>2. \A d \in Callers, t \in Sessions : Removing(d, t)' => Removing(d, t)
    BY <1>8 DEF Lookup
  <2>3. PlaceInv'
    BY <2>1, <2>2
  <2>4. OpenInv'
    BY <2>1, <2>2
  <2> QED
    BY <2>3, <2>4
<1>9. ASSUME NEW c \in Callers, NEW s \in Sessions, RemovePop(c, s) PROVE PlaceInv' /\ OpenInv'
  BY <1>9 DEF RemovePop
<1>10. ASSUME NEW c \in Callers, MarkBackgrounded(c) PROVE PlaceInv' /\ OpenInv'
  BY <1>10 DEF MarkBackgrounded
<1>11. ASSUME NEW c \in Callers, Poll(c) PROVE PlaceInv' /\ OpenInv'
  BY <1>11 DEF Poll
<1>12. ASSUME NEW c \in Callers, KillCheck(c) PROVE PlaceInv' /\ OpenInv'
  BY <1>12 DEF KillCheck
<1>13. ASSUME NEW c \in Callers, Terminate(c) PROVE PlaceInv' /\ OpenInv'
  <2>1. /\ running' = running /\ finished' = finished /\ cleanups' = cleanups
        /\ \A s \in Sessions : proc'[s] = "unborn" => proc[s] = "unborn"
    BY <1>13 DEF Terminate
  <2>2. \A d \in Callers, s \in Sessions : Removing(d, s)' => Removing(d, s)
    BY <1>13 DEF Terminate
  <2> QED
    BY <2>1, <2>2
<1>14. ASSUME NEW c \in Callers, SetKilled(c) PROVE PlaceInv' /\ OpenInv'
  BY <1>14 DEF SetKilled
<1>15. ASSUME NEW c \in Callers, KillCallback(c) PROVE PlaceInv' /\ OpenInv'
  BY <1>15 DEF KillCallback, RunTerminateCallback
<1>16. ASSUME NEW c \in Callers, RemoveTerminate(c) PROVE PlaceInv' /\ OpenInv'
  BY <1>16 DEF RemoveTerminate
<1>17. ASSUME NEW c \in Callers, RemoveCallback(c) PROVE PlaceInv' /\ OpenInv'
  BY <1>17 DEF RemoveCallback, RunTerminateCallback
<1>18. ASSUME NEW c \in Callers, RemoveCleanup(c) PROVE PlaceInv' /\ OpenInv'
  BY <1>18 DEF RemoveCleanup, CleanUp
<1>19. CASE UNCHANGED vars
  BY <1>19 DEF vars
<1> QED
  BY <1>1, <1>2, <1>3, <1>4, <1>5, <1>6, <1>7, <1>8, <1>9, <1>10, <1>11, <1>12, <1>13,
     <1>14, <1>15, <1>16, <1>17, <1>18, <1>19
     DEF Next, SessionStep, CallerStep

\* Every step keeps the count of callbacks and of output.
LEMMA CountStep ==
    TypeOK /\ CallbackInv /\ NoSilentLoss /\ [Next]_vars => CallbackInv' /\ NoSilentLoss'
<1> SUFFICES ASSUME TypeOK, CallbackInv, NoSilentLoss, [Next]_vars
             PROVE  CallbackInv' /\ NoSilentLoss'
  OBVIOUS
<1> USE CapAssumption
    DEF TypeOK, CallbackInv, NoSilentLoss,
        sessionVars, hookVars, outputVars, tableVars, callerVars
<1>1. ASSUME NEW s \in Sessions, Start(s) PROVE CallbackInv' /\ NoSilentLoss'
  BY <1>1 DEF Start
<1>2. ASSUME NEW s \in Sessions, Write(s) PROVE CallbackInv' /\ NoSilentLoss'
  BY <1>2 DEF Write
<1>3. ASSUME NEW s \in Sessions, Exit(s) PROVE CallbackInv' /\ NoSilentLoss'
  BY <1>3 DEF Exit
<1>4. ASSUME NEW s \in Sessions, Read(s) PROVE CallbackInv' /\ NoSilentLoss'
  <2>1. /\ callbacks' = callbacks /\ callbackRan' = callbackRan /\ polled' = polled
        /\ \A t \in Sessions \ {s} : /\ truncated'[t] = truncated[t]
                                      /\ appended'[t] = appended[t] /\ pending'[t] = pending[t]
        /\ appended'[s] = appended[s] + 1
    BY <1>4 DEF Read
  <2>2. ~truncated'[s] => ~truncated[s] /\ pending[s] # PendingCap
    BY <1>4 DEF Read
  <2>3. pending[s] # PendingCap => pending'[s] = pending[s] + 1
    BY <1>4 DEF Read
  <2>4. ~truncated'[s] => appended'[s] = polled'[s] + pending'[s]
    BY <2>1, <2>2, <2>3
  <2> QED
    BY <2>1, <2>4
<1>5. ASSUME NEW s \in Sessions, WatchExit(s) PROVE CallbackInv' /\ NoSilentLoss'
  BY <1>5 DEF WatchExit
<1>6. ASSUME NEW s \in Sessions, Archive(s) PROVE CallbackInv' /\ NoSilentLoss'
  BY <1>6 DEF Archive
<1>7. ASSUME NEW s \in Sessions, Expire(s) PROVE CallbackInv' /\ NoSilentLoss'
  BY <1>7 DEF Expire
<1>8. ASSUME NEW c \in Callers, NEW s \in Sessions,
             NEW method \in {"idle", "background", "poll", "kill"}, Lookup(c, s, method)
      PROVE  CallbackInv' /\ NoSilentLoss'
  BY <1>8 DEF Lookup, Prune, CleanUp
<1>9. ASSUME NEW c \in Callers, NEW s \in Sessions, RemovePop(c, s)
      PROVE  CallbackInv' /\ NoSilentLoss'
  BY <1>9 DEF RemovePop
<1>10. ASSUME NEW c \in Callers, MarkBackgrounded(c) PROVE CallbackInv' /\ NoSilentLoss'
  BY <1>10 DEF MarkBackgrounded
<1>11. ASSUME NEW c \in Callers, Poll(c) PROVE CallbackInv' /\ NoSilentLoss'
  BY <1>11 DEF Poll
<1>12. ASSUME NEW c \in Callers, KillCheck(c) PROVE CallbackInv' /\ NoSilentLoss'
  BY <1>12 DEF KillCheck
<1>13. ASSUME NEW c \in Callers, Terminate(c) PROVE CallbackInv' /\ NoSilentLoss'
  BY <1>13 DEF Terminate
<1>14. ASSUME NEW c \in Callers, SetKilled(c) PROVE CallbackInv' /\ NoSilentLoss'
  BY <1>14 DEF SetKilled
<1>15. ASSUME NEW c \in Callers, KillCallback(c) PROVE CallbackInv' /\ NoSilentLoss'
  BY <1>15 DEF KillCallback, RunTerminateCallback
<1>16. ASSUME NEW c \in Callers, RemoveTerminate(c) PROVE CallbackInv' /\ NoSilentLoss'
  BY <1>16 DEF RemoveTerminate
<1>17. ASSUME NEW c \in Callers, RemoveCallback(c) PROVE CallbackInv' /\ NoSilentLoss'
  BY <1>17 DEF RemoveCallback, RunTerminateCallback
<1>18. ASSUME NEW c \in Callers, RemoveCleanup(c) PROVE CallbackInv' /\ NoSilentLoss'
  BY <1>18 DEF RemoveCleanup, CleanUp
<1>19. CASE UNCHANGED vars
  BY <1>19 DEF vars
<1> QED
  BY <1>1, <1>2, <1>3, <1>4, <1>5, <1>6, <1>7, <1>8, <1>9, <1>10, <1>11, <1>12, <1>13,
     <1>14, <1>15, <1>16, <1>17, <1>18, <1>19
     DEF Next, SessionStep, CallerStep

-----------------------------------------------------------------------------
(* The theorems *)

\* The invariant holds in every reachable state.
LEMMA Invariance == Spec => []IInv
<1>1. IInv /\ [Next]_vars => IInv'
  BY TypeStep, PlaceStep, CountStep DEF IInv
<1> QED
  BY InitIInv, <1>1, PTL DEF Spec

\* Tables, session records and callers keep their types, for any number of sessions,
\* threads that call the manager and chunks of output.
THEOREM TypeCorrect == Spec => []TypeOK
<1>1. IInv => TypeOK
  BY DEF IInv
<1> QED
  BY <1>1, Invariance, PTL

\* cleanup_mode closes the descriptor of a session at most once, however many callers
\* of remove_session, pruning lookups and exit watchers race for the session.
THEOREM ClosedOnce == Spec => []CleanupAtMostOnce
<1>1. IInv => CleanupAtMostOnce
  BY DEF IInv, OpenInv, CleanupAtMostOnce
<1> QED
  BY <1>1, Invariance, PTL

\* The terminate callback of a session is entered at most once, however many kills and
\* removals race on it.
THEOREM CallbackOnce == Spec => []TerminateCallbackAtMostOnce
<1>1. IInv => TerminateCallbackAtMostOnce
  BY DEF IInv, CallbackInv, TerminateCallbackAtMostOnce
<1> QED
  BY <1>1, Invariance, PTL

\* Output is either handed to a poller, pending or marked as truncated, for any capacity
\* of the pending buffer and any number of pollers.
THEOREM OutputIsAccounted == Spec => []NoSilentLoss
<1>1. IInv => NoSilentLoss
  BY DEF IInv
<1> QED
  BY <1>1, Invariance, PTL

\* A session that has left the tables does not come back, whatever its watcher, pruning
\* and other callers are in the middle of.
THEOREM RemovalIsFinal == Spec => RemovedStaysGone
<1> DEFINE Gone == \A s \in Sessions :
                       proc[s] # "unborn" /\ s \notin Tables => s \notin Tables'
<1>1. ASSUME [Next]_vars PROVE Gone
  <2> USE <1>1 DEF Tables
  <2>1. ASSUME NEW s \in Sessions, Start(s) PROVE Gone
    BY <2>1 DEF Start
  <2>2. ASSUME NEW s \in Sessions, Archive(s) PROVE Gone
    BY <2>2 DEF Archive
  <2>3. CASE running' \subseteq running /\ finished' \subseteq finished
    BY <2>3
  <2>4. CASE ~ \E s \in Sessions : Start(s) \/ Archive(s)
    <3>1. running' \subseteq running /\ finished' \subseteq finished
      BY <2>4
      DEF Next, SessionStep, CallerStep, Write, Exit, Read, WatchExit, Expire, Lookup,
          Prune, RemovePop, MarkBackgrounded, Poll, KillCheck, Terminate, SetKilled,
          KillCallback, RemoveTerminate, RemoveCallback, RemoveCleanup, tableVars, vars
    <3> QED
      BY <2>3, <3>1
  <2> QED
    BY <2>1, <2>2, <2>4
<1> QED
  BY <1>1, PTL DEF Spec, RemovedStaysGone
=============================================================================
