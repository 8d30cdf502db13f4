--------------------------- MODULE TaskRuntimeProofs ---------------------------
(***************************************************************************)
(* Proofs about TaskRuntime.  A Task is never reported as ended while its  *)
(* process runs because a snapshot that says the process has ended stays   *)
(* true however late it is applied.  A lease is never forgotten or stolen  *)
(* because a worker's row can only lose its claim by expiry, and the token *)
(* the worker presents is then no longer the one in the row.               *)
(***************************************************************************)
EXTENDS TaskRuntime, TLAPS

\* A user control in the middle of a kill is an interrupt or a cancel.
GoalInv ==
    \A u \in Users : pc[u] \in {"kill", "killing", "stop"} => goal[u] # "sync"

\* A poll result that reports an exit is about to be applied, to a Task that
\* exists and whose process has not come back.
PayloadInv ==
    \A a \in Actors :
        payload[a] \in {"ok", "bad"}
            => /\ pc[a] = "apply"
               /\ proc[cur[a]] # "alive"
               /\ status[cur[a]] # "absent"

\* A control in the middle of a kill works on a Task that exists, and one about
\* to write its outcome has signalled the process or seen it exited.
StopInv ==
    \A u \in Users :
        /\ pc[u] \in {"killing", "stop"} => status[cur[u]] # "absent"
        /\ pc[u] = "stop" => proc[cur[u]] # "alive"

\* A process is started together with its Task row.
AbsentInv ==
    \A t \in Tasks : status[t] = "absent" => proc[t] = "none"

ProcessInv == PayloadInv /\ StopInv /\ AbsentInv /\ StoppedTaskHasNoProcess

\* Once a worker has read its claim, and as long as the row still carries it,
\* the token it will present is its own.
TokenInv ==
    \A t \in Tasks, w \in Workers :
        lease[t] = w /\ pc[w] # "claimed" => token[w] = w

LeaseInv == LeaseHasHolder /\ TokenInv

IInv == TypeOK /\ GoalInv /\ ProcessInv /\ LeaseInv

-----------------------------------------------------------------------------

\* The initial states satisfy the invariant.
LEMMA InitIInv == Init => IInv
<1> SUFFICES ASSUME Init PROVE IInv
  OBVIOUS
<1>1. TypeOK /\ GoalInv
  BY BoundAssumption, LeaseAssumption
     DEF Init, TypeOK, GoalInv, Actors, Workers, Statuses, Terminal, Payloads,
         ProcStates, PCs
<1>2. ProcessInv
  BY DEF Init, ProcessInv, PayloadInv, StopInv, AbsentInv,
         StoppedTaskHasNoProcess, Actors, Workers
<1>3. LeaseInv
  BY LeaseAssumption DEF Init, LeaseInv, LeaseHasHolder, TokenInv
<1> QED
  BY <1>1, <1>2, <1>3 DEF IInv

\* One step keeps the types; the goal of a control matters because it becomes
\* the status of its Task.
LEMMA TypeStep == TypeOK /\ GoalInv /\ [Next]_vars => TypeOK' /\ GoalInv'
<1> SUFFICES ASSUME TypeOK, GoalInv, [Next]_vars PROVE TypeOK' /\ GoalInv'
  OBVIOUS
<1> USE ActorAssumption, BoundAssumption, LeaseAssumption
    DEF TypeOK, GoalInv, Actors, Workers, PCs, Statuses, Terminal, Payloads,
        ProcStates, Deliverable, rowVars, actorVars, bounds
<1>1. ASSUME NEW w \in Workers, ReadClaim(w)
      PROVE  TypeOK' /\ GoalInv'
  BY <1>1 DEF ReadClaim, Continue
<1>2. ASSUME NEW w \in Workers, Release(w)
      PROVE  TypeOK' /\ GoalInv'
  BY <1>2 DEF Release, Continue, SameOwner
<1>3. ASSUME NEW a \in Actors, Reread(a)
      PROVE  TypeOK' /\ GoalInv'
  BY <1>3 DEF Reread, Continue, AfterSync
<1>4. ASSUME NEW a \in Actors, Poll(a)
      PROVE  TypeOK' /\ GoalInv'
  BY <1>4 DEF Poll
<1>5. ASSUME NEW a \in Actors, Apply(a)
      PROVE  TypeOK' /\ GoalInv'
  BY <1>5 DEF Apply, Continue, UpdateStatus, AfterSync, Observed
<1>6. CASE Environment
  <2>1. ASSUME NEW t \in Tasks, Create(t)
        PROVE  TypeOK' /\ GoalInv'
    BY <2>1 DEF Create, UpdateStatus
  <2>2. ASSUME NEW t \in Tasks, ProcessEnds(t)
        PROVE  TypeOK' /\ GoalInv'
    BY <2>2 DEF ProcessEnds
  <2>3. ASSUME NEW t \in Tasks, Reap(t)
        PROVE  TypeOK' /\ GoalInv'
    BY <2>3 DEF Reap
  <2>4. ASSUME NEW t \in Tasks, LeaseExpires(t)
        PROVE  TypeOK' /\ GoalInv'
    BY <2>4 DEF LeaseExpires
  <2>5. ASSUME NEW t \in Tasks, GraceElapses(t)
        PROVE  TypeOK' /\ GoalInv'
    BY <2>5 DEF GraceElapses
  <2>7. ASSUME NEW t \in Tasks, ToolKills(t)
        PROVE  TypeOK' /\ GoalInv'
    BY <2>7 DEF ToolKills
  <2>8. ASSUME NEW t \in Tasks, SessionRemoved(t)
        PROVE  TypeOK' /\ GoalInv'
    BY <2>8 DEF SessionRemoved
  <2>6. CASE Crash
    BY <2>6 DEF Crash
  <2> QED
    BY <1>6, <2>1, <2>2, <2>3, <2>4, <2>5, <2>6, <2>7, <2>8
       DEF Environment
<1>7. CASE SchedulerStep
  <2>1. CASE StartDrain
    BY <2>1 DEF StartDrain
  <2>2. ASSUME NEW t \in Tasks, ClaimCandidate(t)
        PROVE  TypeOK' /\ GoalInv'
    BY <2>2 DEF ClaimCandidate, Claim, Unleased
  <2>3. ASSUME NEW t \in Tasks, SkipCandidate(t)
        PROVE  TypeOK' /\ GoalInv'
    BY <2>3 DEF SkipCandidate
  <2>4. CASE Decide
    BY <2>4 DEF Decide, Continue
  <2>5. CASE Publish
    BY <2>5 DEF Publish, Continue
  <2>6. CASE EndDrain
    BY <2>6 DEF EndDrain, Continue
  <2> QED
    BY <1>7, <2>1, <2>2, <2>3, <2>4, <2>5, <2>6, <1>1, <1>2, <1>3, <1>4, <1>5
       DEF SchedulerStep, SyncStep
<1>8. ASSUME NEW r \in Remediators, RemediatorStep(r)
      PROVE  TypeOK' /\ GoalInv'
  <2>1. ASSUME NEW t \in Tasks, StartRemediation(r, t)
        PROVE  TypeOK' /\ GoalInv'
    BY <2>1 DEF StartRemediation
  <2>2. CASE RemediationClaims(r)
    BY <2>2 DEF RemediationClaims, Claim, Unleased
  <2>3. CASE LeaseBusy(r)
    BY <2>3 DEF LeaseBusy
  <2> QED
    BY <1>8, <2>1, <2>2, <2>3, <1>1, <1>2, <1>3, <1>4, <1>5
       DEF RemediatorStep
<1>9. ASSUME NEW u \in Users, UserStep(u)
      PROVE  TypeOK' /\ GoalInv'
  <2>1. ASSUME NEW t \in Tasks, StartSync(u, t)
        PROVE  TypeOK' /\ GoalInv'
    BY <2>1 DEF StartSync
  <2>2. ASSUME NEW t \in Tasks,
                  NEW outcome \in {"interrupted", "cancelled"}, StartStop(u, t, outcome)
        PROVE  TypeOK' /\ GoalInv'
    BY <2>2 DEF StartStop
  <2>3. CASE KillChecks(u)
    BY <2>3 DEF KillChecks
  <2>4. CASE KillSignals(u)
    BY <2>4 DEF KillSignals
  <2>5. CASE KillFails(u)
    BY <2>5 DEF KillFails
  <2>6. CASE Stop(u)
    BY <2>6 DEF Stop, Continue, UpdateStatus
  <2>7. CASE GiveUp(u)
    BY <2>7 DEF GiveUp, Continue, UpdateStatus
  <2> QED
    BY <1>9, <2>1, <2>2, <2>3, <2>4, <2>5, <2>6, <2>7, <1>1, <1>2, <1>3, <1>4,
       <1>5
       DEF UserStep, SyncStep
<1>10. CASE UNCHANGED vars
  BY <1>10 DEF vars
<1> QED
  BY <1>6, <1>7, <1>8, <1>9, <1>10 DEF Next

\* One step keeps what is known of processes: an exit is for good until the Node
\* crashes, and then every snapshot of it is gone too.
LEMMA ProcessStep ==
    TypeOK /\ GoalInv /\ ProcessInv /\ [Next]_vars => ProcessInv'
<1> SUFFICES ASSUME TypeOK, GoalInv, ProcessInv, [Next]_vars PROVE ProcessInv'
  OBVIOUS
<1> USE ActorAssumption
    DEF TypeOK, GoalInv, ProcessInv, PayloadInv, StopInv, AbsentInv,
        StoppedTaskHasNoProcess, Actors, Workers, Statuses, Terminal, Payloads,
        ProcStates, rowVars, actorVars, bounds
<1>1. ASSUME NEW w \in Workers, ReadClaim(w)
      PROVE  ProcessInv'
  BY <1>1 DEF ReadClaim, Continue
<1>2. ASSUME NEW w \in Workers, Release(w)
      PROVE  ProcessInv'
  BY <1>2 DEF Release, Continue, SameOwner
<1>3. ASSUME NEW a \in Actors, Reread(a)
      PROVE  ProcessInv'
  BY <1>3 DEF Reread, Continue, AfterSync
<1>4. ASSUME NEW a \in Actors, Poll(a)
      PROVE  ProcessInv'
  BY <1>4 DEF Poll
<1>5. ASSUME NEW a \in Actors, Apply(a)
      PROVE  ProcessInv'
  BY <1>5 DEF Apply, Continue, UpdateStatus, AfterSync, Observed
<1>6. CASE Environment
  <2>1. ASSUME NEW t \in Tasks, Create(t)
        PROVE  ProcessInv'
    BY <2>1 DEF Create, UpdateStatus
  <2>2. ASSUME NEW t \in Tasks, ProcessEnds(t)
        PROVE  ProcessInv'
    BY <2>2 DEF ProcessEnds
  <2>3. ASSUME NEW t \in Tasks, Reap(t)
        PROVE  ProcessInv'
    BY <2>3 DEF Reap
  <2>4. ASSUME NEW t \in Tasks, LeaseExpires(t)
        PROVE  ProcessInv'
    BY <2>4 DEF LeaseExpires
  <2>5. ASSUME NEW t \in Tasks, GraceElapses(t)
        PROVE  ProcessInv'
    BY <2>5 DEF GraceElapses
  <2>7. ASSUME NEW t \in Tasks, ToolKills(t)
        PROVE  ProcessInv'
    BY <2>7 DEF ToolKills
  <2>8. ASSUME NEW t \in Tasks, SessionRemoved(t)
        PROVE  ProcessInv'
    BY <2>8 DEF SessionRemoved
  <2>6. CASE Crash
    BY <2>6 DEF Crash
  <2> QED
    BY <1>6, <2>1, <2>2, <2>3, <2>4, <2>5, <2>6, <2>7, <2>8
       DEF Environment
<1>7. CASE SchedulerStep
  <2>1. CASE StartDrain
    BY <2>1 DEF StartDrain
  <2>2. ASSUME NEW t \in Tasks, ClaimCandidate(t)
        PROVE  ProcessInv'
    BY <2>2 DEF ClaimCandidate, Claim, Unleased
  <2>3. ASSUME NEW t \in Tasks, SkipCandidate(t)
        PROVE  ProcessInv'
    BY <2>3 DEF SkipCandidate
  <2>4. CASE Decide
    BY <2>4 DEF Decide, Continue
  <2>5. CASE Publish
    BY <2>5 DEF Publish, Continue
  <2>6. CASE EndDrain
    BY <2>6 DEF EndDrain, Continue
  <2> QED
    BY <1>7, <2>1, <2>2, <2>3, <2>4, <2>5, <2>6, <1>1, <1>2, <1>3, <1>4, <1>5
       DEF SchedulerStep, SyncStep
<1>8. ASSUME NEW r \in Remediators, RemediatorStep(r)
      PROVE  ProcessInv'
  <2>1. ASSUME NEW t \in Tasks, StartRemediation(r, t)
        PROVE  ProcessInv'
    BY <2>1 DEF StartRemediation
  <2>2. CASE RemediationClaims(r)
    BY <2>2 DEF RemediationClaims, Claim, Unleased
  <2>3. CASE LeaseBusy(r)
    BY <2>3 DEF LeaseBusy
  <2> QED
    BY <1>8, <2>1, <2>2, <2>3, <1>1, <1>2, <1>3, <1>4, <1>5
       DEF RemediatorStep
<1>9. ASSUME NEW u \in Users, UserStep(u)
      PROVE  ProcessInv'
  <2>1. ASSUME NEW t \in Tasks, StartSync(u, t)
        PROVE  ProcessInv'
    BY <2>1 DEF StartSync
  <2>2. ASSUME NEW t \in Tasks,
                  NEW outcome \in {"interrupted", "cancelled"}, StartStop(u, t, outcome)
        PROVE  ProcessInv'
    BY <2>2 DEF StartStop
  <2>3. CASE KillChecks(u)
    BY <2>3 DEF KillChecks
  <2>4. CASE KillSignals(u)
    BY <2>4 DEF KillSignals
  <2>5. CASE KillFails(u)
    BY <2>5 DEF KillFails
  <2>6. CASE Stop(u)
    BY <2>6 DEF Stop, Continue, UpdateStatus
  <2>7. CASE GiveUp(u)
    BY <2>7 DEF GiveUp, Continue, UpdateStatus
  <2> QED
    BY <1>9, <2>1, <2>2, <2>3, <2>4, <2>5, <2>6, <2>7, <1>1, <1>2, <1>3, <1>4,
       <1>5
       DEF UserStep, SyncStep
<1>10. CASE UNCHANGED vars
  BY <1>10 DEF vars
<1> QED
  BY <1>6, <1>7, <1>8, <1>9, <1>10 DEF Next

\* One step keeps leases with their holders.
LEMMA LeaseStep == TypeOK /\ LeaseInv /\ [Next]_vars => LeaseInv'
<1> SUFFICES ASSUME TypeOK, LeaseInv, [Next]_vars PROVE LeaseInv'
  OBVIOUS
<1> USE ActorAssumption, LeaseAssumption
    DEF TypeOK, LeaseInv, LeaseHasHolder, TokenInv, Holding, Actors, Workers,
        rowVars, actorVars, bounds
<1>1. ASSUME NEW w \in Workers, ReadClaim(w)
      PROVE  LeaseInv'
  BY <1>1 DEF ReadClaim, Continue
<1>2. ASSUME NEW w \in Workers, Release(w)
      PROVE  LeaseInv'
  BY <1>2 DEF Release, Continue, SameOwner
<1>3. ASSUME NEW a \in Actors, Reread(a)
      PROVE  LeaseInv'
  BY <1>3 DEF Reread, Continue, AfterSync
<1>4. ASSUME NEW a \in Actors, Poll(a)
      PROVE  LeaseInv'
  BY <1>4 DEF Poll
<1>5. ASSUME NEW a \in Actors, Apply(a)
      PROVE  LeaseInv'
  BY <1>5 DEF Apply, Continue, UpdateStatus, AfterSync, Observed
<1>6. CASE Environment
  <2>1. ASSUME NEW t \in Tasks, Create(t)
        PROVE  LeaseInv'
    BY <2>1 DEF Create, UpdateStatus
  <2>2. ASSUME NEW t \in Tasks, ProcessEnds(t)
        PROVE  LeaseInv'
    BY <2>2 DEF ProcessEnds
  <2>3. ASSUME NEW t \in Tasks, Reap(t)
        PROVE  LeaseInv'
    BY <2>3 DEF Reap
  <2>4. ASSUME NEW t \in Tasks, LeaseExpires(t)
        PROVE  LeaseInv'
    BY <2>4 DEF LeaseExpires
  <2>5. ASSUME NEW t \in Tasks, GraceElapses(t)
        PROVE  LeaseInv'
    BY <2>5 DEF GraceElapses
  <2>7. ASSUME NEW t \in Tasks, ToolKills(t)
        PROVE  LeaseInv'
    BY <2>7 DEF ToolKills
  <2>8. ASSUME NEW t \in Tasks, SessionRemoved(t)
        PROVE  LeaseInv'
    BY <2>8 DEF SessionRemoved
  <2>6. CASE Crash
    BY <2>6 DEF Crash
  <2> QED
    BY <1>6, <2>1, <2>2, <2>3, <2>4, <2>5, <2>6, <2>7, <2>8
       DEF Environment
<1>7. CASE SchedulerStep
  <2>1. CASE StartDrain
    BY <2>1 DEF StartDrain
  <2>2. ASSUME NEW t \in Tasks, ClaimCandidate(t)
        PROVE  LeaseInv'
    BY <2>2 DEF ClaimCandidate, Claim, Unleased
  <2>3. ASSUME NEW t \in Tasks, SkipCandidate(t)
        PROVE  LeaseInv'
    BY <2>3 DEF SkipCandidate
  <2>4. CASE Decide
    BY <2>4 DEF Decide, Continue
  <2>5. CASE Publish
    BY <2>5 DEF Publish, Continue
  <2>6. CASE EndDrain
    BY <2>6 DEF EndDrain, Continue
  <2> QED
    BY <1>7, <2>1, <2>2, <2>3, <2>4, <2>5, <2>6, <1>1, <1>2, <1>3, <1>4, <1>5
       DEF SchedulerStep, SyncStep
<1>8. ASSUME NEW r \in Remediators, RemediatorStep(r)
      PROVE  LeaseInv'
  <2>1. ASSUME NEW t \in Tasks, StartRemediation(r, t)
        PROVE  LeaseInv'
    BY <2>1 DEF StartRemediation
  <2>2. CASE RemediationClaims(r)
    BY <2>2 DEF RemediationClaims, Claim, Unleased
  <2>3. CASE LeaseBusy(r)
    BY <2>3 DEF LeaseBusy
  <2> QED
    BY <1>8, <2>1, <2>2, <2>3, <1>1, <1>2, <1>3, <1>4, <1>5
       DEF RemediatorStep
<1>9. ASSUME NEW u \in Users, UserStep(u)
      PROVE  LeaseInv'
  <2>1. ASSUME NEW t \in Tasks, StartSync(u, t)
        PROVE  LeaseInv'
    BY <2>1 DEF StartSync
  <2>2. ASSUME NEW t \in Tasks,
                  NEW outcome \in {"interrupted", "cancelled"}, StartStop(u, t, outcome)
        PROVE  LeaseInv'
    BY <2>2 DEF StartStop
  <2>3. CASE KillChecks(u)
    BY <2>3 DEF KillChecks
  <2>4. CASE KillSignals(u)
    BY <2>4 DEF KillSignals
  <2>5. CASE KillFails(u)
    BY <2>5 DEF KillFails
  <2>6. CASE Stop(u)
    BY <2>6 DEF Stop, Continue, UpdateStatus
  <2>7. CASE GiveUp(u)
    BY <2>7 DEF GiveUp, Continue, UpdateStatus
  <2> QED
    BY <1>9, <2>1, <2>2, <2>3, <2>4, <2>5, <2>6, <2>7, <1>1, <1>2, <1>3, <1>4,
       <1>5
       DEF UserStep, SyncStep
<1>10. CASE UNCHANGED vars
  BY <1>10 DEF vars
<1> QED
  BY <1>6, <1>7, <1>8, <1>9, <1>10 DEF Next

\* The invariant holds in every behaviour.
LEMMA Invariance == Spec => []IInv
<1>1. IInv /\ [Next]_vars => IInv'
  BY TypeStep, ProcessStep, LeaseStep DEF IInv
<1> QED
  BY <1>1, InitIInv, PTL DEF Spec

-----------------------------------------------------------------------------

\* Type correctness of the Task runtime.
THEOREM TypeCorrect == Spec => []TypeOK
<1>1. IInv => TypeOK
  BY DEF IInv
<1> QED
  BY <1>1, Invariance, PTL

\* For any number of Tasks, remediation calls, controls and crashes, a Task is
\* never reported as ended or stopped while its process runs.
THEOREM StoppedIsStopped == Spec => []StoppedTaskHasNoProcess
<1>1. IInv => StoppedTaskHasNoProcess
  BY DEF IInv, ProcessInv
<1> QED
  BY <1>1, Invariance, PTL

\* A row that carries a claim of a running worker is being worked on by it.
THEOREM NoForgottenLease == Spec => []LeaseHasHolder
<1>1. IInv => LeaseHasHolder
  BY DEF IInv, LeaseInv
<1> QED
  BY <1>1, Invariance, PTL

\* Only a claim, a release and a restart of the Node touch the lease columns.
LEMMA LeaseChanges ==
    ASSUME TypeOK, [Next]_vars
    PROVE  \/ UNCHANGED lease
           \/ \E w \in Workers, t \in Tasks : Claim(w, t)
           \/ \E w \in Workers : Release(w)
           \/ Crash
<1>1. Scheduler \in Workers /\ Remediators \subseteq Workers
  BY DEF Workers
<1>2. ASSUME NEW a, SyncStep(a) PROVE UNCHANGED lease
  BY <1>2 DEF SyncStep, Reread, Poll, Apply, UpdateStatus, rowVars
<1>3. ASSUME NEW w, ReadClaim(w) PROVE UNCHANGED lease
  BY <1>3 DEF ReadClaim, rowVars
<1>4. ASSUME Environment, ~Crash PROVE UNCHANGED lease
  BY <1>4 DEF Environment, Create, ProcessEnds, Reap, ToolKills, SessionRemoved,
     LeaseExpires, GraceElapses, rowVars
<1>5. CASE SchedulerStep
  BY <1>1, <1>2, <1>3, <1>5 DEF SchedulerStep, StartDrain, ClaimCandidate,
     SkipCandidate, Decide, Publish, EndDrain, rowVars
<1>6. ASSUME NEW r \in Remediators, RemediatorStep(r)
      PROVE  \/ UNCHANGED lease
             \/ \E w \in Workers, t \in Tasks : Claim(w, t)
             \/ Release(r)
  <2>1. cur[r] \in Tasks
    BY DEF TypeOK, Actors, Workers
  <2>2. ASSUME NEW t \in Tasks, StartRemediation(r, t) PROVE UNCHANGED lease
    BY <2>2 DEF StartRemediation, rowVars
  <2>3. CASE RemediationClaims(r)
    BY <1>1, <2>1, <2>3 DEF RemediationClaims
  <2>4. CASE LeaseBusy(r)
    BY <2>4 DEF LeaseBusy, rowVars
  <2> QED
    BY <1>2, <1>3, <1>6, <2>2, <2>3, <2>4 DEF RemediatorStep, SyncStep
<1>7. ASSUME NEW u \in Users, UserStep(u) PROVE UNCHANGED lease
  BY <1>2, <1>7 DEF UserStep, StartSync, StartStop, KillChecks, KillSignals,
     KillFails, Stop, GiveUp, rowVars
<1>8. CASE UNCHANGED vars
  BY <1>8 DEF vars, rowVars
<1> QED
  BY <1>1, <1>4, <1>5, <1>6, <1>7, <1>8 DEF Next

\* As long as remediate_stuck_tasks is not called concurrently with itself, an
\* unexpired lease ends only by its holder's release or with the Node.
THEOREM LeaseIsKept ==
    ASSUME \A q, r \in Remediators : q = r
    PROVE  Spec => LiveLeaseIsKept
<1>1. ASSUME IInv, [Next]_vars, NEW t \in Tasks, NEW w \in Workers,
             lease[t] = w, live[t], lease'[t] # w
      PROVE  (pc[w] = "release" /\ pc'[w] # "release") \/ crashes' # crashes
  <2> USE <1>1, LeaseAssumption DEF IInv, TypeOK
  <2>1. CASE UNCHANGED lease
    BY <2>1
  <2>2. ASSUME NEW v \in Workers, NEW s \in Tasks, Claim(v, s) PROVE FALSE
    BY <2>2 DEF Claim, Unleased, Workers, Free
  <2>3. ASSUME NEW v \in Workers, Release(v)
        PROVE  pc[w] = "release" /\ pc'[w] # "release"
    <3>1. lease[cur[v]] = token[v] /\ SameOwner(v, token[v]) /\ t = cur[v]
      BY <2>3 DEF Release, Workers, Actors
    <3>2. v = w
      BY <3>1 DEF SameOwner
    <3> QED
      BY <2>3, <3>2 DEF Release, Continue, Workers, Actors
  <2>4. CASE Crash
    BY <2>4 DEF Crash
  <2> QED
    BY <2>1, <2>2, <2>3, <2>4, LeaseChanges
<1>2. IInv /\ [Next]_vars
        => [\A t \in Tasks, w \in Workers :
               lease[t] = w /\ live[t] /\ lease'[t] # w
                   => \/ pc[w] = "release" /\ pc'[w] # "release"
                      \/ crashes' # crashes]_vars
  BY <1>1
<1> QED
  BY <1>2, Invariance, PTL DEF Spec, LiveLeaseIsKept
=============================================================================
