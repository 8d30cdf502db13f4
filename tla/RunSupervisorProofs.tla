--------------------------- MODULE RunSupervisorProofs ---------------------------
(***************************************************************************)
(* Proofs about RunSupervisor.  How a Run ended is settled once, because   *)
(* complete_run, which looks at nothing, is called once in the life of a   *)
(* worker, and every other writer looks for a state that an ended Run has  *)
(* no more.  A runtime is closed once it has no user, because the thread   *)
(* that has to dispose of one took another from the table instead.         *)
(***************************************************************************)
EXTENDS RunSupervisor, TLAPS

\* Where the threads of a Run are tells what its state and its handle may say.
EndInv ==
    \A r \in Runs :
        /\ worker[r] # "none" <=> starter[r] = "launched"
        /\ state[r] = "none" <=> starter[r] \notin {"launch", "launched"}
        /\ worker[r] \in {"fact", "complete", "tell", "finish", "done"}
               => outcome[r] \in Terminal
        /\ state[r] \in Terminal => worker[r] \in {"tell", "finish", "done", "died"}
        /\ worker[r] \in {"tell", "finish", "done"} => state[r] = outcome[r]
        /\ handle[r] \in Terminal => worker[r] = "done" /\ handle[r] = state[r]

\* A runtime is somebody's if the Run that assembled it was given it, too.
Kept(r) == uses[r] = r

Choosing(r) == starter[r] \in {"idle", "check", "lookup", "assemble", "retain"}

UseInv ==
    /\ closer = "idle" => toClose = {}
    /\ closer # "idle" => stopped
    /\ cache # NoRun => Kept(cache)
    /\ \A r \in toClose : Kept(r)
    /\ \A r \in Runs :
          /\ uses[r] # NoRun => Kept(uses[r])
          /\ Choosing(r) => uses[r] \notin Runs
          /\ starter[r] = "retain" => runtime[r] = "made"
          /\ starter[r] = "dispose" => ~Kept(r) /\ uses[r] # NoRun
          /\ Kept(r) => runtime[r] = "made" \/ stopped

IInv == TypeOK /\ EndInv /\ UseInv /\ RuntimeHasOwner

-----------------------------------------------------------------------------

\* The initial states satisfy the invariant.
LEMMA InitIInv == Init => IInv
<1> SUFFICES ASSUME Init PROVE IInv
  OBVIOUS
<1> USE RunAssumption DEF Init, Active, Terminal
<1>1. TypeOK
  BY DEF TypeOK, StarterPCs, WorkerPCs, CloserPCs
<1>2. EndInv
  BY DEF EndInv
<1>3. UseInv
  BY DEF UseInv, Kept, Choosing
<1>4. RuntimeHasOwner
  BY DEF RuntimeHasOwner
<1> QED
  BY <1>1, <1>2, <1>3, <1>4 DEF IInv

\* Every step keeps the types.
LEMMA TypeStep == TypeOK /\ [Next]_vars => TypeOK'
<1> SUFFICES ASSUME TypeOK, [Next]_vars PROVE TypeOK'
  OBVIOUS
<1> USE RunAssumption DEF TypeOK, Active, Terminal, supervisorVars, starterVars,
        workerVars, controlVars, closerVars, StarterGoes, WorkerGoes, StarterPCs,
        WorkerPCs, CloserPCs
<1>1. ASSUME NEW r \in Runs, CreateRun(r) PROVE TypeOK'
  BY <1>1 DEF CreateRun
<1>2. ASSUME NEW r \in Runs, EnsureRunning(r) PROVE TypeOK'
  BY <1>2 DEF EnsureRunning
<1>3. ASSUME NEW r \in Runs, Lookup(r) PROVE TypeOK'
  BY <1>3 DEF Lookup
<1>4. ASSUME NEW r \in Runs, Assemble(r) PROVE TypeOK'
  BY <1>4 DEF Assemble
<1>5. ASSUME NEW r \in Runs, Retain(r) PROVE TypeOK'
  BY <1>5 DEF Retain
<1>6. ASSUME NEW r \in Runs, Dispose(r) PROVE TypeOK'
  BY <1>6 DEF Dispose
<1>7. ASSUME NEW r \in Runs, Register(r) PROVE TypeOK'
  BY <1>7 DEF Register
<1>8. ASSUME NEW r \in Runs, Launch(r) PROVE TypeOK'
  BY <1>8 DEF Launch
<1>9. ASSUME NEW r \in Runs, Refuse(r) PROVE TypeOK'
  BY <1>9 DEF Refuse
<1>10. ASSUME NEW r \in Runs, Attach(r) PROVE TypeOK'
  BY <1>10 DEF Attach
<1>11. ASSUME NEW r \in Runs, RecordFact(r) PROVE TypeOK'
  BY <1>11 DEF RecordFact
<1>12. ASSUME NEW r \in Runs, CompleteRun(r) PROVE TypeOK'
  BY <1>12 DEF CompleteRun
<1>13. ASSUME NEW r \in Runs, TellClients(r) PROVE TypeOK'
  BY <1>13 DEF TellClients
<1>14. ASSUME NEW r \in Runs, FinishHandle(r) PROVE TypeOK'
  BY <1>14 DEF FinishHandle
<1>15. ASSUME NEW r \in Runs, NEW how \in Terminal, RunEnds(r, how) PROVE TypeOK'
  BY <1>15 DEF RunEnds
<1>16. ASSUME NEW r \in Runs, StopRun(r) PROVE TypeOK'
  BY <1>16 DEF StopRun
<1>17. ASSUME NEW r \in Runs, StopRequests(r) PROVE TypeOK'
  BY <1>17 DEF StopRequests
<1>18. ASSUME NEW r \in Runs, StopSchedules(r) PROVE TypeOK'
  BY <1>18 DEF StopSchedules
<1>19. ASSUME NEW r \in Runs, CloseRequests(r) PROVE TypeOK'
  BY <1>19 DEF CloseRequests
<1>20. ASSUME NEW r \in Runs, CloseSchedules(r) PROVE TypeOK'
  BY <1>20 DEF CloseSchedules
<1>21. CASE Close
  BY <1>21 DEF Close
<1>22. CASE CloseRuntimes
  BY <1>22 DEF CloseRuntimes
<1>23. CASE UNCHANGED vars
  BY <1>23 DEF vars
<1> QED
  BY <1>1, <1>2, <1>3, <1>4, <1>5, <1>6, <1>7, <1>8, <1>9, <1>10, <1>11, <1>12,
     <1>13, <1>14, <1>15, <1>16, <1>17, <1>18, <1>19, <1>20, <1>21, <1>22, <1>23
     DEF Next, Starting, Winding, Stopping

\* A step keeps what the threads of each Run say about its end.
LEMMA EndStep == TypeOK /\ EndInv /\ [Next]_vars => EndInv'
<1> SUFFICES ASSUME TypeOK, EndInv, [Next]_vars PROVE EndInv'
  OBVIOUS
<1>0. TypeOK'
  BY TypeStep
<1> USE <1>0, RunAssumption DEF TypeOK, Active, Terminal, supervisorVars, starterVars,
        workerVars, controlVars, closerVars, StarterGoes, WorkerGoes, EndInv
<1>1. ASSUME NEW r \in Runs, CreateRun(r) PROVE EndInv'
  BY <1>1 DEF CreateRun
<1>2. ASSUME NEW r \in Runs, EnsureRunning(r) PROVE EndInv'
  BY <1>2 DEF EnsureRunning
<1>3. ASSUME NEW r \in Runs, Lookup(r) PROVE EndInv'
  BY <1>3 DEF Lookup
<1>4. ASSUME NEW r \in Runs, Assemble(r) PROVE EndInv'
  BY <1>4 DEF Assemble
<1>5. ASSUME NEW r \in Runs, Retain(r) PROVE EndInv'
  BY <1>5 DEF Retain
<1>6. ASSUME NEW r \in Runs, Dispose(r) PROVE EndInv'
  BY <1>6 DEF Dispose
<1>7. ASSUME NEW r \in Runs, Register(r) PROVE EndInv'
  BY <1>7 DEF Register
<1>8. ASSUME NEW r \in Runs, Launch(r) PROVE EndInv'
  BY <1>8 DEF Launch
<1>9. ASSUME NEW r \in Runs, Refuse(r) PROVE EndInv'
  BY <1>9 DEF Refuse
<1>10. ASSUME NEW r \in Runs, Attach(r) PROVE EndInv'
  BY <1>10 DEF Attach
<1>11. ASSUME NEW r \in Runs, RecordFact(r) PROVE EndInv'
  BY <1>11 DEF RecordFact
<1>12. ASSUME NEW r \in Runs, CompleteRun(r) PROVE EndInv'
  BY <1>12 DEF CompleteRun
<1>13. ASSUME NEW r \in Runs, TellClients(r) PROVE EndInv'
  BY <1>13 DEF TellClients
<1>14. ASSUME NEW r \in Runs, FinishHandle(r) PROVE EndInv'
  BY <1>14 DEF FinishHandle
<1>15. ASSUME NEW r \in Runs, NEW how \in Terminal, RunEnds(r, how) PROVE EndInv'
  BY <1>15 DEF RunEnds
<1>16. ASSUME NEW r \in Runs, StopRun(r) PROVE EndInv'
  BY <1>16 DEF StopRun
<1>17. ASSUME NEW r \in Runs, StopRequests(r) PROVE EndInv'
  BY <1>17 DEF StopRequests
<1>18. ASSUME NEW r \in Runs, StopSchedules(r) PROVE EndInv'
  BY <1>18 DEF StopSchedules
<1>19. ASSUME NEW r \in Runs, CloseRequests(r) PROVE EndInv'
  BY <1>19 DEF CloseRequests
<1>20. ASSUME NEW r \in Runs, CloseSchedules(r) PROVE EndInv'
  BY <1>20 DEF CloseSchedules
<1>21. CASE Close
  BY <1>21 DEF Close
<1>22. CASE CloseRuntimes
  BY <1>22 DEF CloseRuntimes
<1>23. CASE UNCHANGED vars
  BY <1>23 DEF vars
<1> QED
  BY <1>1, <1>2, <1>3, <1>4, <1>5, <1>6, <1>7, <1>8, <1>9, <1>10, <1>11, <1>12,
     <1>13, <1>14, <1>15, <1>16, <1>17, <1>18, <1>19, <1>20, <1>21, <1>22, <1>23
     DEF Next, Starting, Winding, Stopping

\* A step keeps every runtime with its owner and open for its users.
LEMMA UseStep ==
    TypeOK /\ UseInv /\ RuntimeHasOwner /\ [Next]_vars => UseInv' /\ RuntimeHasOwner'
<1> SUFFICES ASSUME TypeOK, UseInv, RuntimeHasOwner, [Next]_vars
             PROVE  (UseInv /\ RuntimeHasOwner)'
  OBVIOUS
<1>0. TypeOK'
  BY TypeStep
<1> USE <1>0, RunAssumption DEF TypeOK, Active, Terminal, supervisorVars, starterVars,
        workerVars, controlVars, closerVars, StarterGoes, WorkerGoes, UseInv, RuntimeHasOwner,
        Kept, Choosing
<1>1. ASSUME NEW r \in Runs, CreateRun(r) PROVE (UseInv /\ RuntimeHasOwner)'
  BY <1>1 DEF CreateRun
<1>2. ASSUME NEW r \in Runs, EnsureRunning(r) PROVE (UseInv /\ RuntimeHasOwner)'
  BY <1>2 DEF EnsureRunning
<1>3. ASSUME NEW r \in Runs, Lookup(r) PROVE (UseInv /\ RuntimeHasOwner)'
  BY <1>3 DEF Lookup
<1>4. ASSUME NEW r \in Runs, Assemble(r) PROVE (UseInv /\ RuntimeHasOwner)'
  BY <1>4 DEF Assemble
<1>5. ASSUME NEW r \in Runs, Retain(r) PROVE (UseInv /\ RuntimeHasOwner)'
  BY <1>5 DEF Retain
<1>6. ASSUME NEW r \in Runs, Dispose(r) PROVE (UseInv /\ RuntimeHasOwner)'
  BY <1>6 DEF Dispose
<1>7. ASSUME NEW r \in Runs, Register(r) PROVE (UseInv /\ RuntimeHasOwner)'
  BY <1>7 DEF Register
<1>8. ASSUME NEW r \in Runs, Launch(r) PROVE (UseInv /\ RuntimeHasOwner)'
  BY <1>8 DEF Launch
<1>9. ASSUME NEW r \in Runs, Refuse(r) PROVE (UseInv /\ RuntimeHasOwner)'
  BY <1>9 DEF Refuse
<1>10. ASSUME NEW r \in Runs, Attach(r) PROVE (UseInv /\ RuntimeHasOwner)'
  BY <1>10 DEF Attach
<1>11. ASSUME NEW r \in Runs, RecordFact(r) PROVE (UseInv /\ RuntimeHasOwner)'
  BY <1>11 DEF RecordFact
<1>12. ASSUME NEW r \in Runs, CompleteRun(r) PROVE (UseInv /\ RuntimeHasOwner)'
  BY <1>12 DEF CompleteRun
<1>13. ASSUME NEW r \in Runs, TellClients(r) PROVE (UseInv /\ RuntimeHasOwner)'
  BY <1>13 DEF TellClients
<1>14. ASSUME NEW r \in Runs, FinishHandle(r) PROVE (UseInv /\ RuntimeHasOwner)'
  BY <1>14 DEF FinishHandle
<1>15. ASSUME NEW r \in Runs, NEW how \in Terminal, RunEnds(r, how)
       PROVE  (UseInv /\ RuntimeHasOwner)'
  BY <1>15 DEF RunEnds
<1>16. ASSUME NEW r \in Runs, StopRun(r) PROVE (UseInv /\ RuntimeHasOwner)'
  BY <1>16 DEF StopRun
<1>17. ASSUME NEW r \in Runs, StopRequests(r) PROVE (UseInv /\ RuntimeHasOwner)'
  BY <1>17 DEF StopRequests
<1>18. ASSUME NEW r \in Runs, StopSchedules(r) PROVE (UseInv /\ RuntimeHasOwner)'
  BY <1>18 DEF StopSchedules
<1>19. ASSUME NEW r \in Runs, CloseRequests(r) PROVE (UseInv /\ RuntimeHasOwner)'
  BY <1>19 DEF CloseRequests
<1>20. ASSUME NEW r \in Runs, CloseSchedules(r) PROVE (UseInv /\ RuntimeHasOwner)'
  BY <1>20 DEF CloseSchedules
<1>21. CASE Close
  BY <1>21 DEF Close
<1>22. CASE CloseRuntimes
  BY <1>22 DEF CloseRuntimes
<1>23. CASE UNCHANGED vars
  BY <1>23 DEF vars
<1> QED
  BY <1>1, <1>2, <1>3, <1>4, <1>5, <1>6, <1>7, <1>8, <1>9, <1>10, <1>11, <1>12,
     <1>13, <1>14, <1>15, <1>16, <1>17, <1>18, <1>19, <1>20, <1>21, <1>22, <1>23
     DEF Next, Starting, Winding, Stopping

\* The invariant holds in every behaviour.
LEMMA Invariance == Spec => []IInv
<1>1. IInv /\ [Next]_vars => IInv'
  BY TypeStep, EndStep, UseStep DEF IInv
<1> QED
  BY <1>1, InitIInv, PTL DEF Spec

-----------------------------------------------------------------------------

\* Type correctness of the supervisor and its threads, for any number of Runs.
THEOREM TypeCorrect == Spec => []TypeOK
BY Invariance, PTL DEF IInv

\* Clients are told what the supervisor recorded, however stop_run, close() and the
\* end of a Run meet.
THEOREM ClientsAreToldTheState == Spec => []StatusAgrees
<1>1. IInv => StatusAgrees
  BY DEF IInv, EndInv, StatusAgrees
<1> QED
  BY <1>1, Invariance, PTL

\* Of any number of threads that assemble a runtime at the same time, none leaves
\* one behind.
THEOREM NoRuntimeIsLeft == Spec => []RuntimeHasOwner
BY Invariance, PTL DEF IInv

\* No Run is given a runtime that is closed before the shutdown.
THEOREM RuntimeStaysOpen == Spec => []RuntimeInUseIsOpen
<1>1. IInv => RuntimeInUseIsOpen
  BY DEF IInv, TypeOK, UseInv, Kept, RuntimeInUseIsOpen
<1> QED
  BY <1>1, Invariance, PTL

\* The state a Run has ended in is its last, though complete_run looks at nothing.
THEOREM EndIsLast == Spec => EndIsFinal
<1>1. ASSUME IInv, [Next]_vars, NEW r \in Runs, state[r] \in Terminal
      PROVE  state'[r] = state[r]
  <2> USE <1>1 DEF IInv, TypeOK, EndInv, Active, Terminal
  <2>1. ASSUME NEW s \in Runs, Register(s) PROVE state'[r] = state[r]
    BY <2>1 DEF Register, StarterGoes
  <2>2. ASSUME NEW s \in Runs, CompleteRun(s) PROVE state'[r] = state[r]
    BY <2>2 DEF CompleteRun, WorkerGoes
  <2>3. ASSUME NEW s \in Runs, StopRun(s) PROVE state'[r] = state[r]
    BY <2>3 DEF StopRun
  <2>4. CASE Close
    BY <2>4 DEF Close
  <2>5. CASE UNCHANGED state
    BY <2>5
  <2> QED
    BY <2>1, <2>2, <2>3, <2>4, <2>5
       DEF Next, Starting, Winding, Stopping, CreateRun, EnsureRunning, Lookup, Assemble,
           Retain, Dispose, Launch, Refuse, Attach, RecordFact, TellClients, FinishHandle,
           RunEnds, StopRequests, StopSchedules, CloseRequests, CloseSchedules,
           CloseRuntimes, supervisorVars, vars
<1>2. IInv /\ [Next]_vars
        => [\A r \in Runs : state[r] \in Terminal => state'[r] = state[r]]_vars
  BY <1>1
<1> QED
  BY <1>2, Invariance, PTL DEF Spec, EndIsFinal
=============================================================================
