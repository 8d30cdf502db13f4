--------------------------- MODULE ToolCallLedgerProofs ---------------------------
(***************************************************************************)
(* Theorems of ToolCallLedger, for any attempts, keys and crashes.         *)
(*                                                                         *)
(* That every repeated effect has a cause is a matter of accounts.  A key  *)
(* is allowed one run, and one more for each failure, crash, purged Task   *)
(* and overlap.  An attempt that is going to start a process is counted as *)
(* if it had; what remains of the allowance is the slack of the key.  An   *)
(* attempt that begins while another is in flight brings its own           *)
(* allowance, so only one that begins alone takes from the slack, and the  *)
(* record has an answer for it when there is none left.                    *)
(***************************************************************************)
EXTENDS ToolCallLedger, FiniteSetTheorems, TLAPS

\* The points at which an attempt may have a process, and a Task.
WithProcess == {"started", "discard", "background", "create", "link", "inline", "raised",
                "replyError", "replyTask"}

WithTask == {"link", "raised", "replyError", "replyTask", "aborted"}

\* The Task of an attempt is created before it is linked and purged after the attempt
\* has finished; nobody leaves a process behind without it.
TaskInv ==
    \A a \in Attempts :
        /\ task[a] # "none" => pc[a] \in WithTask
        /\ pc[a] = "link" => task[a] = "kept"
        /\ proc[a] # "none" => pc[a] \in WithProcess
        /\ pc[a] = "replyTask" /\ proc[a] # "none" => task[a] # "none"

\* Attempts that look at the linked Task, and those that have gone on from there.
Checking(k) == {a \in Attempts : KeyOf[a] = k /\ pc[a] = "checkTask"}
Working(k) == {a \in Attempts : KeyOf[a] = k /\ pc[a] \in InFlight \ {"checkTask"}}

\* Attempts that are going to start a process, for all the record says.
Owes(a) == pc[a] = "spawn" \/ (pc[a] = "checkTask" /\ seen[a].status # "completed")
Owed(k) == {a \in Attempts : KeyOf[a] = k /\ Owes(a)}

Slack(k) ==
    1 + failures[k] + crashes + Cardinality(Purged(k)) + overlaps[k]
      - runs[k] - Cardinality(Owed(k))

\* The linked Task answers a call.
Kept(k) == recTask[k] # NoTask /\ task[recTask[k]] = "kept"

\* The slack is overdrawn by one at most, while everybody in flight is about to be
\* answered by the linked Task; and when it is used up the record has the answer.
Cause(k) ==
    /\ IsFiniteSet(Owed(k)) /\ IsFiniteSet(Purged(k))
    /\ Slack(k) >= -1
    /\ Slack(k) = -1 =>
           /\ Working(k) = {} /\ Owed(k) # {} /\ Kept(k) /\ recStatus[k] # "completed"
           /\ \A a \in Checking(k) : seen[a].task = recTask[k] /\ seen[a].status # "completed"
    /\ Slack(k) = 0 /\ Working(k) = {} /\ Owed(k) = {} =>
           recStatus[k] = "completed" \/ Kept(k)

CauseInv == \A k \in Keys : Cause(k)

IInv == TypeOK /\ TaskInv /\ LinkedTaskExisted /\ CauseInv

-----------------------------------------------------------------------------
(* Types, Tasks and processes *)

\* No call has been made.
LEMMA InitIInv == Init => IInv
<1> SUFFICES ASSUME Init PROVE IInv
  OBVIOUS
<1>1. TypeOK
  BY CrashAssumption DEF Init, TypeOK, RecStatuses
<1>2. TaskInv /\ LinkedTaskExisted
  BY DEF Init, TaskInv, LinkedTaskExisted
<1>3. ASSUME NEW k \in Keys PROVE Cause(k)
  <2>1. Owed(k) = {} /\ Purged(k) = {}
    BY DEF Init, Owed, Owes, Purged
  <2>2. IsFiniteSet({}) /\ Cardinality({}) = 0
    BY FS_EmptySet
  <2>3. Slack(k) = 1
    BY <2>1, <2>2 DEF Slack, Init
  <2> QED
    BY <2>1, <2>2, <2>3 DEF Cause
<1> QED
  BY <1>1, <1>2, <1>3 DEF IInv, CauseInv

\* Every step keeps the types.
LEMMA TypeStep ==
    ASSUME TypeOK, TaskInv, [Next]_vars
    PROVE  TypeOK'
<1> USE KeyAssumption DEF TypeOK, Goto, InFlight, Finished, RecStatuses, WithoutTask,
                          ledgerVars, historyVars
<1>1. ASSUME NEW a \in Attempts, Begin(a) PROVE TypeOK'
  BY <1>1 DEF Begin
<1>2. ASSUME NEW a \in Attempts, CheckTask(a) PROVE TypeOK'
  BY <1>2 DEF CheckTask
<1>3. ASSUME NEW a \in Attempts, Raised(a) PROVE TypeOK'
  BY <1>3 DEF Raised
<1>4. ASSUME NEW a \in Attempts, Spawn(a) PROVE TypeOK'
  BY <1>4 DEF Spawn
<1>5. ASSUME NEW a \in Attempts, RecipeRaises(a) PROVE TypeOK'
  BY <1>5 DEF RecipeRaises
<1>6. ASSUME NEW a \in Attempts, SendStdinFails(a) PROVE TypeOK'
  BY <1>6 DEF SendStdinFails
<1>7. ASSUME NEW a \in Attempts, PollUntilBudget(a) PROVE TypeOK'
  BY <1>7 DEF PollUntilBudget
<1>8. ASSUME NEW a \in Attempts, RemoveSession(a) PROVE TypeOK'
  BY <1>8 DEF RemoveSession
<1>9. ASSUME NEW a \in Attempts, SettleCompleted(a) PROVE TypeOK'
  BY <1>9 DEF SettleCompleted
<1>10. ASSUME NEW a \in Attempts, SettleFailed(a) PROVE TypeOK'
  BY <1>10 DEF SettleFailed
<1>11. ASSUME NEW a \in Attempts, MarkBackgrounded(a) PROVE TypeOK'
  BY <1>11 DEF MarkBackgrounded
<1>12. ASSUME NEW a \in Attempts, CreateTask(a) PROVE TypeOK'
  BY <1>12 DEF CreateTask
<1>13. ASSUME NEW a \in Attempts, LinkTask(a) PROVE TypeOK'
  BY <1>13 DEF LinkTask
<1>14. ASSUME NEW a \in Attempts, ProcessEnds(a) PROVE TypeOK'
  BY <1>14 DEF ProcessEnds
<1>15. ASSUME NEW a \in Attempts, Purge(a) PROVE TypeOK'
  BY <1>15 DEF Purge
<1>16. CASE Crash
  BY <1>16, CrashAssumption DEF Crash
<1>17. CASE UNCHANGED vars
  BY <1>17 DEF vars
<1> QED
  BY <1>1, <1>2, <1>3, <1>4, <1>5, <1>6, <1>7, <1>8, <1>9, <1>10, <1>11, <1>12, <1>13,
     <1>14, <1>15, <1>16, <1>17 DEF Next, AttemptStep

\* A Task is created once, while its attempt is in flight, linked after that, and
\* never forgotten by the attempt that left its process to it.
LEMMA TaskStep ==
    ASSUME TypeOK, TaskInv, LinkedTaskExisted, [Next]_vars
    PROVE  TaskInv' /\ LinkedTaskExisted'
<1> USE KeyAssumption, NoTaskAssumption
    DEF TypeOK, TaskInv, LinkedTaskExisted, WithProcess, WithTask, Goto, InFlight,
        Finished, WithoutTask, ledgerVars, historyVars
<1>1. ASSUME NEW a \in Attempts, Begin(a) PROVE TaskInv' /\ LinkedTaskExisted'
  BY <1>1 DEF Begin
<1>2. ASSUME NEW a \in Attempts, CheckTask(a) PROVE TaskInv' /\ LinkedTaskExisted'
  BY <1>2 DEF CheckTask
<1>3. ASSUME NEW a \in Attempts, Raised(a) PROVE TaskInv' /\ LinkedTaskExisted'
  BY <1>3 DEF Raised
<1>4. ASSUME NEW a \in Attempts, Spawn(a) PROVE TaskInv' /\ LinkedTaskExisted'
  BY <1>4 DEF Spawn
<1>5. ASSUME NEW a \in Attempts, RecipeRaises(a) PROVE TaskInv' /\ LinkedTaskExisted'
  BY <1>5 DEF RecipeRaises
<1>6. ASSUME NEW a \in Attempts, SendStdinFails(a) PROVE TaskInv' /\ LinkedTaskExisted'
  BY <1>6 DEF SendStdinFails
<1>7. ASSUME NEW a \in Attempts, PollUntilBudget(a) PROVE TaskInv' /\ LinkedTaskExisted'
  BY <1>7 DEF PollUntilBudget
<1>8. ASSUME NEW a \in Attempts, RemoveSession(a) PROVE TaskInv' /\ LinkedTaskExisted'
  BY <1>8 DEF RemoveSession
<1>9. ASSUME NEW a \in Attempts, SettleCompleted(a) PROVE TaskInv' /\ LinkedTaskExisted'
  BY <1>9 DEF SettleCompleted
<1>10. ASSUME NEW a \in Attempts, SettleFailed(a) PROVE TaskInv' /\ LinkedTaskExisted'
  BY <1>10 DEF SettleFailed
<1>11. ASSUME NEW a \in Attempts, MarkBackgrounded(a) PROVE TaskInv' /\ LinkedTaskExisted'
  BY <1>11 DEF MarkBackgrounded
<1>12. ASSUME NEW a \in Attempts, CreateTask(a) PROVE TaskInv' /\ LinkedTaskExisted'
  BY <1>12 DEF CreateTask
<1>13. ASSUME NEW a \in Attempts, LinkTask(a) PROVE TaskInv' /\ LinkedTaskExisted'
  BY <1>13 DEF LinkTask
<1>14. ASSUME NEW a \in Attempts, ProcessEnds(a) PROVE TaskInv' /\ LinkedTaskExisted'
  BY <1>14 DEF ProcessEnds
<1>15. ASSUME NEW a \in Attempts, Purge(a) PROVE TaskInv' /\ LinkedTaskExisted'
  BY <1>15 DEF Purge
<1>16. CASE Crash
  BY <1>16 DEF Crash
<1>17. CASE UNCHANGED vars
  BY <1>17 DEF vars
<1> QED
  BY <1>1, <1>2, <1>3, <1>4, <1>5, <1>6, <1>7, <1>8, <1>9, <1>10, <1>11, <1>12, <1>13,
     <1>14, <1>15, <1>16, <1>17 DEF Next, AttemptStep

-----------------------------------------------------------------------------
(* Accounts *)

\* The entries of an account are numbers.
LEMMA Entries ==
    ASSUME TypeOK, NEW k \in Keys, Cause(k)
    PROVE  /\ failures[k] \in Nat /\ crashes \in Nat /\ overlaps[k] \in Nat /\ runs[k] \in Nat
           /\ Cardinality(Purged(k)) \in Nat /\ Cardinality(Owed(k)) \in Nat
           /\ Slack(k) \in Int
BY CrashAssumption, FS_CardinalityType DEF TypeOK, Cause, Slack

\* A step that changes nothing of a key, its record and its attempts changes nothing of
\* its account.
LEMMA Elsewhere ==
    ASSUME LinkedTaskExisted, NEW k \in Keys, Cause(k), crashes' = crashes,
           failures'[k] = failures[k], overlaps'[k] = overlaps[k], runs'[k] = runs[k],
           recStatus'[k] = recStatus[k], recTask'[k] = recTask[k],
           recTask[k] = NoTask \/ recTask[k] \in Attempts,
           \A a \in Attempts : KeyOf[a] = k =>
               pc'[a] = pc[a] /\ seen'[a] = seen[a] /\ task'[a] = task[a]
    PROVE  Cause(k)'
<1>1. Owed(k)' = Owed(k) /\ Purged(k)' = Purged(k) /\ Working(k)' = Working(k)
      /\ Checking(k)' = Checking(k)
  BY DEF Owed, Owes, Purged, Working, Checking
<1>2. Slack(k)' = Slack(k)
  BY <1>1 DEF Slack
<1>3. Kept(k)' = Kept(k)
  BY DEF Kept, LinkedTaskExisted
<1>4. \A a \in Checking(k) : seen'[a] = seen[a]
  BY DEF Checking
<1> QED
  BY <1>1, <1>2, <1>3, <1>4 DEF Cause

\* An attempt that works on the record proves that the slack is not overdrawn.
LEMMA WorkingHasSlack ==
    ASSUME TypeOK, NEW k \in Keys, Cause(k), NEW a \in Working(k)
    PROVE  Slack(k) >= 0
BY Entries DEF Cause

\* An attempt that goes on working, without having owed anything, leaves the account as
\* it is.
LEMMA GoesOn ==
    ASSUME TypeOK, NEW a \in Attempts, NEW k \in Keys, k = KeyOf[a], Cause(k),
           a \in Working(k), pc[a] # "spawn", a \in Working(k)',
           pc'[a] # "spawn", \A b \in Attempts \ {a} : pc'[b] = pc[b],
           Purged(k)' = Purged(k), UNCHANGED <<seen, crashes, historyVars>>
    PROVE  Cause(k)'
<1>1. Owed(k)' = Owed(k)
  BY DEF Owed, Owes, Working
<1>2. Slack(k)' = Slack(k)
  BY <1>1 DEF Slack, historyVars
<1>3. Slack(k) >= 0 /\ Slack(k) \in Int
  BY WorkingHasSlack, Entries
<1> QED
  BY <1>1, <1>2, <1>3 DEF Cause

\* An attempt begins: alone, it takes from the slack or is answered.
LEMMA BeginCause ==
    ASSUME IInv, NEW a \in Attempts, Begin(a)
    PROVE  CauseInv'
<1> DEFINE k == KeyOf[a]
<1> USE DEF IInv
<1>1. k \in Keys /\ Cause(k) /\ pc[a] = "new"
  BY KeyAssumption DEF CauseInv, Begin
<1>2. ASSUME NEW j \in Keys, j # k PROVE Cause(j)'
  BY <1>1, <1>2, Elsewhere DEF Begin, Goto, TypeOK, CauseInv
<1>3. /\ Purged(k)' = Purged(k) /\ runs'[k] = runs[k] /\ failures'[k] = failures[k]
      /\ crashes' = crashes /\ Kept(k)' = Kept(k)
      /\ recStatus'[k] = (IF recStatus[k] = "none" THEN "pending" ELSE recStatus[k])
      /\ seen'[a].status = recStatus[k] /\ seen'[a].task = recTask[k]
      /\ recTask'[k] = recTask[k]
      /\ pc'[a] = IF recTask[k] # NoTask THEN "checkTask" ELSE WithoutTask(recStatus[k])
      /\ \A b \in Attempts \ {a} : pc'[b] = pc[b] /\ seen'[b] = seen[b]
  BY <1>1 DEF Begin, Goto, TypeOK, Purged, Kept
<1>4. overlaps'[k] = IF Checking(k) \cup Working(k) = {} THEN overlaps[k] ELSE overlaps[k] + 1
  <2>1. {b \in Attempts : KeyOf[b] = k /\ pc[b] \in InFlight} = Checking(k) \cup Working(k)
    BY DEF Checking, Working, InFlight
  <2> QED
    BY <1>1, <2>1 DEF Begin, TypeOK
<1> DEFINE owed == Cardinality(Owed(k))
<1>5. /\ owed \in Nat /\ Cardinality(Purged(k)) \in Nat /\ Slack(k) \in Int /\ runs[k] \in Nat
      /\ failures[k] \in Nat /\ crashes \in Nat /\ overlaps[k] \in Nat
  BY <1>1, Entries
<1>6. CASE recStatus[k] = "completed"
  <2>1. Owed(k)' = Owed(k)
    BY <1>1, <1>3, <1>6 DEF Owed, Owes, WithoutTask
  <2>2. Slack(k)' >= Slack(k) /\ Slack(k)' \in Int
    BY <1>3, <1>4, <1>5, <2>1 DEF Slack
  <2>3. Slack(k) >= 0
    BY <1>1, <1>5, <1>6 DEF Cause
  <2>4. Cause(k)'
    BY <1>1, <1>3, <1>5, <1>6, <2>1, <2>2, <2>3 DEF Cause
  <2> QED
    BY <1>2, <2>4 DEF CauseInv
<1>7. CASE recStatus[k] # "completed"
  <2>1. a \notin Owed(k) /\ Owed(k)' = Owed(k) \cup {a}
    BY <1>1, <1>3, <1>7 DEF Owed, Owes, WithoutTask
  <2>2. IsFiniteSet(Owed(k)') /\ Cardinality(Owed(k)') = owed + 1
    BY <1>1, <2>1, FS_AddElement DEF Cause
  <2>3. Owed(k)' # {} /\ recStatus'[k] # "completed"
    BY <1>3, <1>7, <2>1
  <2>4. CASE Checking(k) \cup Working(k) = {}
    <3>1. Owed(k) = {}
      BY <2>4 DEF Owed, Owes, Checking, Working, InFlight
    <3>2. Slack(k)' = Slack(k) - 1 /\ Slack(k) >= 0
      BY <1>1, <1>3, <1>4, <1>5, <2>2, <2>4, <3>1 DEF Slack, Cause
    <3>3. CASE Slack(k) = 0
      <4>1. Kept(k)
        BY <1>1, <1>7, <2>4, <3>1, <3>3 DEF Cause
      <4>2. pc'[a] = "checkTask" /\ Kept(k)'
        BY <1>3, <4>1 DEF Kept
      <4>3. Working(k)' = {} /\ Checking(k)' = {a}
        BY <1>1, <1>3, <2>4, <4>2 DEF Working, Checking
      <4> QED
        BY <1>1, <1>2, <1>3, <1>7, <2>2, <2>3, <3>2, <3>3, <4>2, <4>3 DEF Cause, CauseInv
    <3>4. CASE Slack(k) # 0
      BY <1>1, <1>2, <1>3, <1>5, <2>2, <2>3, <3>2, <3>4 DEF Cause, CauseInv
    <3> QED
      BY <3>3, <3>4
  <2>5. CASE Checking(k) \cup Working(k) # {}
    <3>1. Slack(k)' = Slack(k)
      BY <1>3, <1>4, <1>5, <2>2, <2>5 DEF Slack
    <3>2. CASE Slack(k) = -1
      <4>1. Kept(k) /\ Working(k) = {}
        BY <1>1, <3>2 DEF Cause
      <4>2. pc'[a] = "checkTask" /\ Kept(k)'
        BY <1>3, <4>1 DEF Kept
      <4>3. Working(k)' = {} /\ Checking(k)' = Checking(k) \cup {a}
        BY <1>1, <1>3, <4>1, <4>2 DEF Working, Checking
      <4>4. \A b \in Checking(k)' : seen'[b].task = recTask'[k] /\ seen'[b].status # "completed"
        <5>1. \A b \in Checking(k) : b \in Attempts \ {a}
          BY <1>1 DEF Checking
        <5> QED
          BY <1>1, <1>3, <1>7, <3>2, <4>3, <5>1 DEF Cause
      <4> QED
        BY <1>1, <1>2, <1>3, <2>2, <2>3, <3>1, <3>2, <4>2, <4>3, <4>4 DEF Cause, CauseInv
    <3>3. CASE Slack(k) # -1
      BY <1>1, <1>2, <1>3, <1>5, <2>2, <2>3, <3>1, <3>3 DEF Cause, CauseInv
    <3> QED
      BY <3>2, <3>3
  <2> QED
    BY <2>4, <2>5
<1> QED
  BY <1>6, <1>7

\* The linked Task answers, or what the record said answers, or a process is started.
LEMMA CheckTaskCause ==
    ASSUME IInv, NEW a \in Attempts, CheckTask(a)
    PROVE  CauseInv'
<1> DEFINE k == KeyOf[a]
<1> USE DEF IInv
<1>1. k \in Keys /\ Cause(k) /\ pc[a] = "checkTask" /\ a \in Checking(k)
  BY KeyAssumption DEF CauseInv, CheckTask, Checking
<1>2. ASSUME NEW j \in Keys, j # k PROVE Cause(j)'
  BY <1>1, <1>2, Elsewhere DEF CheckTask, Goto, TypeOK, CauseInv, ledgerVars, historyVars
<1>3. /\ UNCHANGED <<ledgerVars, task, seen, crashes, historyVars>>
      /\ Purged(k)' = Purged(k) /\ Kept(k)' = Kept(k)
      /\ pc'[a] = IF task[seen[a].task] = "kept" THEN "replyTask"
                                                ELSE WithoutTask(seen[a].status)
      /\ \A b \in Attempts \ {a} : pc'[b] = pc[b]
  BY <1>1 DEF CheckTask, Goto, TypeOK, Purged, Kept, ledgerVars
<1>4. /\ Cardinality(Owed(k)) \in Nat /\ Cardinality(Purged(k)) \in Nat /\ Slack(k) \in Int
      /\ failures[k] \in Nat /\ crashes \in Nat /\ overlaps[k] \in Nat /\ runs[k] \in Nat
  BY <1>1, Entries
<1>5. CASE pc'[a] = "spawn"
  <2>1. task[seen[a].task] # "kept" /\ seen[a].status # "completed"
    BY <1>3, <1>5 DEF WithoutTask
  <2>2. Owed(k)' = Owed(k) /\ Working(k)' = Working(k) \cup {a}
    BY <1>1, <1>3, <1>5, <2>1 DEF Owed, Owes, Working, InFlight
  <2>3. Slack(k)' = Slack(k) /\ Slack(k) # -1
    BY <1>1, <1>3, <2>1, <2>2 DEF Slack, Cause, Kept, historyVars
  <2> QED
    BY <1>1, <1>2, <1>3, <1>4, <2>2, <2>3 DEF Cause, CauseInv
<1>6. CASE pc'[a] # "spawn" /\ a \notin Owed(k)
  <2>1. seen[a].status = "completed" /\ pc'[a] \notin InFlight
    BY <1>1, <1>3, <1>6 DEF Owed, Owes, WithoutTask, InFlight
  <2>2. Owed(k)' = Owed(k) /\ Working(k)' = Working(k)
    BY <1>1, <1>3, <1>6, <2>1 DEF Owed, Owes, Working, InFlight
  <2>3. Slack(k)' = Slack(k) /\ Slack(k) # -1
    BY <1>1, <1>3, <2>1, <2>2 DEF Slack, Cause, historyVars
  <2> QED
    BY <1>1, <1>2, <1>3, <1>4, <2>2, <2>3 DEF Cause, CauseInv, ledgerVars
<1>7. CASE pc'[a] # "spawn" /\ a \in Owed(k)
  <2>1. pc'[a] = "replyTask"
    BY <1>1, <1>3, <1>7 DEF Owed, Owes, WithoutTask
  <2>2. Owed(k)' = Owed(k) \ {a} /\ Working(k)' = Working(k)
    BY <1>1, <1>3, <2>1 DEF Owed, Owes, Working, InFlight
  <2>3. IsFiniteSet(Owed(k)') /\ Cardinality(Owed(k)') = Cardinality(Owed(k)) - 1
    BY <1>1, <1>7, <2>2, FS_RemoveElement DEF Cause
  <2>4. Slack(k)' = Slack(k) + 1
    <3>1. /\ failures'[k] = failures[k] /\ crashes' = crashes /\ overlaps'[k] = overlaps[k]
          /\ runs'[k] = runs[k] /\ Cardinality(Purged(k)') = Cardinality(Purged(k))
      BY <1>3 DEF historyVars
    <3> QED
      BY <1>4, <2>3, <3>1 DEF Slack
  <2> QED
    BY <1>1, <1>2, <1>3, <1>4, <2>3, <2>4 DEF Cause, CauseInv
<1> QED
  BY <1>5, <1>6, <1>7

\* The process is started: what was owed is paid.
LEMMA SpawnCause ==
    ASSUME IInv, NEW a \in Attempts, Spawn(a)
    PROVE  CauseInv'
<1> DEFINE k == KeyOf[a]
<1> USE DEF IInv
<1>1. k \in Keys /\ Cause(k) /\ a \in Owed(k) /\ a \in Working(k)
  BY KeyAssumption DEF CauseInv, Spawn, Owed, Owes, Working, InFlight
<1>2. ASSUME NEW j \in Keys, j # k PROVE Cause(j)'
  BY <1>1, <1>2, Elsewhere DEF Spawn, Goto, TypeOK, CauseInv, ledgerVars
<1>3. /\ Purged(k)' = Purged(k) /\ Owed(k)' = Owed(k) \ {a} /\ a \in Working(k)'
      /\ runs'[k] = runs[k] + 1
      /\ failures'[k] = failures[k] /\ crashes' = crashes /\ overlaps'[k] = overlaps[k]
  BY <1>1 DEF Spawn, Goto, TypeOK, Purged, Owed, Owes, Working, InFlight
<1>4. IsFiniteSet(Owed(k)') /\ Cardinality(Owed(k)') = Cardinality(Owed(k)) - 1
  BY <1>1, <1>3, FS_RemoveElement DEF Cause
<1>5. /\ Cardinality(Owed(k)) \in Nat /\ Cardinality(Purged(k)) \in Nat /\ Slack(k) \in Int
      /\ failures[k] \in Nat /\ crashes \in Nat /\ overlaps[k] \in Nat /\ runs[k] \in Nat
      /\ Slack(k) >= 0
  BY <1>1, Entries, WorkingHasSlack
<1>6. Slack(k)' = Slack(k)
  BY <1>3, <1>4, <1>5 DEF Slack
<1> QED
  BY <1>1, <1>2, <1>3, <1>4, <1>5, <1>6 DEF Cause, CauseInv

\* Something raises: an attempt that has not started its process owes it no more.
LEMMA RecipeRaisesCause ==
    ASSUME IInv, NEW a \in Attempts, RecipeRaises(a)
    PROVE  CauseInv'
<1> DEFINE k == KeyOf[a]
<1> USE DEF IInv
<1>1. k \in Keys /\ Cause(k) /\ a \in Working(k) /\ a \in Working(k)'
  BY KeyAssumption DEF CauseInv, RecipeRaises, Goto, TypeOK, Working, InFlight
<1>2. ASSUME NEW j \in Keys, j # k PROVE Cause(j)'
  BY <1>1, <1>2, Elsewhere DEF RecipeRaises, Goto, TypeOK, CauseInv, ledgerVars, historyVars
<1>3. /\ Purged(k)' = Purged(k) /\ pc'[a] = "raised" /\ UNCHANGED <<seen, crashes, historyVars>>
      /\ \A b \in Attempts \ {a} : pc'[b] = pc[b]
  BY DEF RecipeRaises, Goto, TypeOK, Purged
<1>4. CASE pc[a] # "spawn"
  BY <1>1, <1>2, <1>3, <1>4, GoesOn DEF CauseInv
<1>5. CASE pc[a] = "spawn"
  <2>1. a \in Owed(k) /\ Owed(k)' = Owed(k) \ {a}
    BY <1>1, <1>3, <1>5 DEF Owed, Owes, Working
  <2>2. IsFiniteSet(Owed(k)') /\ Cardinality(Owed(k)') = Cardinality(Owed(k)) - 1
    BY <1>1, <2>1, FS_RemoveElement DEF Cause
  <2>3. /\ failures'[k] = failures[k] /\ crashes' = crashes /\ overlaps'[k] = overlaps[k]
        /\ runs'[k] = runs[k] /\ Cardinality(Purged(k)') = Cardinality(Purged(k))
    BY <1>3 DEF historyVars
  <2>4. /\ Cardinality(Owed(k)) \in Nat /\ Cardinality(Purged(k)) \in Nat /\ Slack(k) \in Int
        /\ failures[k] \in Nat /\ crashes \in Nat /\ overlaps[k] \in Nat /\ runs[k] \in Nat
        /\ Slack(k) >= 0
    BY <1>1, Entries, WorkingHasSlack
  <2>5. Slack(k)' = Slack(k) + 1
    BY <2>2, <2>3, <2>4 DEF Slack
  <2> QED
    BY <1>1, <1>2, <1>3, <2>2, <2>4, <2>5 DEF Cause, CauseInv
<1> QED
  BY <1>4, <1>5

\* A failure is a cause.
LEMMA FailureCause ==
    ASSUME IInv, NEW a \in Attempts, Raised(a) \/ SettleFailed(a)
    PROVE  CauseInv'
<1> DEFINE k == KeyOf[a]
<1> USE DEF IInv
<1>1. k \in Keys /\ Cause(k) /\ a \in Working(k)
  BY KeyAssumption DEF CauseInv, Raised, SettleFailed, Working, InFlight
<1>2. ASSUME NEW j \in Keys, j # k PROVE Cause(j)'
  BY <1>1, <1>2, Elsewhere DEF Raised, SettleFailed, Goto, TypeOK, CauseInv
<1>3. /\ Purged(k)' = Purged(k) /\ Owed(k)' = Owed(k)
      /\ failures'[k] = failures[k] + 1
      /\ runs'[k] = runs[k] /\ crashes' = crashes /\ overlaps'[k] = overlaps[k]
  BY <1>1 DEF Raised, SettleFailed, Goto, TypeOK, Purged, Owed, Owes
<1>4. /\ Cardinality(Owed(k)) \in Nat /\ Cardinality(Purged(k)) \in Nat /\ Slack(k) \in Int
      /\ failures[k] \in Nat /\ crashes \in Nat /\ overlaps[k] \in Nat /\ runs[k] \in Nat
      /\ Slack(k) >= 0
  BY <1>1, Entries, WorkingHasSlack
<1>5. Slack(k)' = Slack(k) + 1
  BY <1>3, <1>4 DEF Slack
<1> QED
  BY <1>1, <1>2, <1>3, <1>4, <1>5 DEF Cause, CauseInv

\* A result or a Task is recorded, which answers the calls to come.
LEMMA AnswerCause ==
    ASSUME IInv, NEW a \in Attempts, SettleCompleted(a) \/ LinkTask(a)
    PROVE  CauseInv'
<1> DEFINE k == KeyOf[a]
<1> USE DEF IInv
<1>1. k \in Keys /\ Cause(k) /\ a \in Working(k)
  BY KeyAssumption DEF CauseInv, SettleCompleted, LinkTask, Working, InFlight
<1>2. ASSUME NEW j \in Keys, j # k PROVE Cause(j)'
  BY <1>1, <1>2, Elsewhere DEF SettleCompleted, LinkTask, Goto, TypeOK, CauseInv, historyVars
<1>3. Purged(k)' = Purged(k) /\ Owed(k)' = Owed(k) /\ UNCHANGED <<crashes, historyVars>>
  BY <1>1 DEF SettleCompleted, LinkTask, Goto, TypeOK, Purged, Owed, Owes
<1>4. Slack(k)' = Slack(k) /\ Slack(k) >= 0 /\ Slack(k) \in Int
  BY <1>1, <1>3, Entries, WorkingHasSlack DEF Slack, historyVars
<1>5. recStatus'[k] = "completed" \/ Kept(k)'
  <2>1. CASE SettleCompleted(a)
    BY <1>1, <2>1 DEF SettleCompleted, TypeOK
  <2>2. CASE LinkTask(a)
    BY <1>1, <2>2, NoTaskAssumption DEF LinkTask, TypeOK, TaskInv, Kept
  <2> QED
    BY <2>1, <2>2
<1> QED
  BY <1>1, <1>2, <1>3, <1>4, <1>5 DEF Cause, CauseInv

\* The steps of an attempt on its way that neither settle nor link anything.
LEMMA OnTheWayCause ==
    ASSUME IInv, NEW a \in Attempts,
           \/ SendStdinFails(a) \/ PollUntilBudget(a) \/ RemoveSession(a)
           \/ MarkBackgrounded(a) \/ CreateTask(a)
    PROVE  CauseInv'
<1> DEFINE k == KeyOf[a]
<1> USE DEF IInv
<1>1. /\ k \in Keys /\ Cause(k) /\ a \in Working(k) /\ pc[a] # "spawn"
      /\ a \in Working(k)' /\ pc'[a] # "spawn"
  BY KeyAssumption DEF CauseInv, SendStdinFails, PollUntilBudget, RemoveSession,
     MarkBackgrounded, CreateTask, Goto, TypeOK, Working, InFlight
<1>2. ASSUME NEW j \in Keys, j # k PROVE Cause(j)'
  BY <1>1, <1>2, Elsewhere DEF SendStdinFails, PollUntilBudget, RemoveSession,
     MarkBackgrounded, CreateTask, Goto, TypeOK, CauseInv, ledgerVars, historyVars
<1>3. /\ UNCHANGED <<seen, crashes, historyVars>>
      /\ \A b \in Attempts \ {a} : pc'[b] = pc[b]
  BY DEF SendStdinFails, PollUntilBudget, RemoveSession, MarkBackgrounded, CreateTask, Goto,
     TypeOK
<1>4. Purged(k)' = Purged(k)
  <2>1. CASE CreateTask(a)
    BY <2>1 DEF CreateTask, TypeOK, TaskInv, WithTask, Purged
  <2>2. CASE ~CreateTask(a)
    BY <2>2 DEF SendStdinFails, PollUntilBudget, RemoveSession, MarkBackgrounded, Purged
  <2> QED
    BY <2>1, <2>2
<1>5. Cause(k)'
  BY <1>1, <1>3, <1>4, GoesOn
<1> QED
  BY <1>2, <1>5 DEF CauseInv

\* A purge is a cause.
LEMMA PurgeCause ==
    ASSUME IInv, NEW a \in Attempts, Purge(a)
    PROVE  CauseInv'
<1> DEFINE k == KeyOf[a]
<1> USE DEF IInv
<1>1. k \in Keys /\ Cause(k)
  BY KeyAssumption DEF CauseInv
<1>2. ASSUME NEW j \in Keys, j # k PROVE Cause(j)'
  BY <1>1, <1>2, Elsewhere DEF Purge, TypeOK, CauseInv, ledgerVars, historyVars
<1>3. /\ a \notin Purged(k) /\ Purged(k)' = Purged(k) \cup {a}
      /\ Owed(k)' = Owed(k) /\ UNCHANGED <<crashes, historyVars>>
  BY <1>1 DEF Purge, TypeOK, Purged, Owed, Owes
<1>4. IsFiniteSet(Purged(k)') /\ Cardinality(Purged(k)') = Cardinality(Purged(k)) + 1
  BY <1>1, <1>3, FS_AddElement DEF Cause
<1>5. /\ Cardinality(Owed(k)) \in Nat /\ Cardinality(Purged(k)) \in Nat /\ Slack(k) \in Int
      /\ failures[k] \in Nat /\ crashes \in Nat /\ overlaps[k] \in Nat /\ runs[k] \in Nat
      /\ Slack(k) >= -1
  BY <1>1, Entries DEF Cause
<1>6. Slack(k)' = Slack(k) + 1
  <2>1. /\ failures'[k] = failures[k] /\ crashes' = crashes /\ overlaps'[k] = overlaps[k]
        /\ runs'[k] = runs[k] /\ Cardinality(Owed(k)') = Cardinality(Owed(k))
    BY <1>3 DEF historyVars
  <2> QED
    BY <1>4, <1>5, <2>1 DEF Slack
<1>7. Slack(k) = -1 => Owed(k) # {}
  BY <1>1 DEF Cause
<1> QED
  BY <1>1, <1>2, <1>3, <1>4, <1>5, <1>6, <1>7 DEF Cause, CauseInv

\* A crash is a cause, for every key at once; nobody in flight owes anything after it.
LEMMA CrashCause ==
    ASSUME IInv, Crash
    PROVE  CauseInv'
<1> SUFFICES ASSUME NEW k \in Keys PROVE Cause(k)'
  BY DEF CauseInv
<1> USE DEF IInv
<1>1. Cause(k)
  BY DEF CauseInv
<1>2. /\ Owed(k)' = {} /\ Purged(k)' = Purged(k) /\ crashes' = crashes + 1
      /\ UNCHANGED historyVars
  BY DEF Crash, Owed, Owes, Purged, TypeOK, InFlight
<1>3. IsFiniteSet(Owed(k)') /\ Cardinality(Owed(k)') = 0
  BY <1>2, FS_EmptySet
<1>4. Slack(k)' = Slack(k) + Cardinality(Owed(k)) + 1 /\ Slack(k)' \in Int
  <2>1. /\ Cardinality(Owed(k)) \in Nat /\ Cardinality(Purged(k)) \in Nat /\ runs[k] \in Nat
        /\ failures[k] \in Nat /\ crashes \in Nat /\ overlaps[k] \in Nat
    BY <1>1, Entries
  <2>2. /\ failures'[k] = failures[k] /\ overlaps'[k] = overlaps[k] /\ runs'[k] = runs[k]
        /\ Cardinality(Purged(k)') = Cardinality(Purged(k))
    BY <1>2 DEF historyVars
  <2> QED
    BY <1>2, <1>3, <2>1, <2>2 DEF Slack
<1>5. Slack(k) = -1 => Cardinality(Owed(k)) > 0
  BY <1>1, FS_EmptySet, Entries DEF Cause
<1>6. Slack(k)' >= 1
  BY <1>1, <1>4, <1>5, Entries DEF Cause
<1> QED
  BY <1>1, <1>2, <1>3, <1>4, <1>6 DEF Cause

\* Every step keeps every account.
LEMMA CauseStep ==
    ASSUME IInv, [Next]_vars
    PROVE  CauseInv'
<1>1. ASSUME NEW a \in Attempts, AttemptStep(a) PROVE CauseInv'
  BY <1>1, BeginCause, CheckTaskCause, SpawnCause, RecipeRaisesCause, FailureCause,
     AnswerCause, OnTheWayCause DEF AttemptStep
<1>2. ASSUME NEW a \in Attempts, Purge(a) PROVE CauseInv'
  BY <1>2, PurgeCause
<1>3. CASE Crash
  BY <1>3, CrashCause
<1>4. CASE UNCHANGED vars \/ \E a \in Attempts : ProcessEnds(a)
  <2>1. UNCHANGED <<ledgerVars, task, pc, seen, crashes, historyVars>>
    BY <1>4 DEF vars, ProcessEnds
  <2> SUFFICES ASSUME NEW k \in Keys PROVE Cause(k)'
    BY DEF CauseInv
  <2> QED
    BY <2>1, Elsewhere DEF IInv, CauseInv, TypeOK, ledgerVars, historyVars
<1> QED
  BY <1>1, <1>2, <1>3, <1>4 DEF Next

\* The invariant holds of every state of every behaviour.
LEMMA Invariance == Spec => []IInv
<1>1. IInv /\ [Next]_vars => IInv'
  BY TypeStep, TaskStep, CauseStep DEF IInv
<1> QED
  BY InitIInv, <1>1, PTL DEF Spec

-----------------------------------------------------------------------------
(* The theorems *)

\* Every variable keeps its type.
THEOREM TypeCorrect == Spec => []TypeOK
BY Invariance, PTL DEF IInv

\* A task_id in the ledger always names a Task that was created, by an attempt with
\* that key, in whatever order attempts link, settle and crash and Tasks are purged.
THEOREM LinkNamesTask == Spec => []LinkedTaskExisted
BY Invariance, PTL DEF IInv

\* A running process has an attempt under way or a Task created for it, or its attempt
\* raised after having started it: no other order of steps leaves one unattended.
THEOREM ProcessHasOwner == Spec => []LiveProcessHasOwner
<1>1. IInv => LiveProcessHasOwner
  BY DEF IInv, TypeOK, TaskInv, WithProcess, LiveProcessHasOwner, InFlight
<1> QED
  BY Invariance, <1>1, PTL

\* The effect of a tool call is repeated only for a cause, whatever the number of
\* attempts and however they interleave, fail, crash and have their Tasks purged.
THEOREM RerunHasCause == Spec => []EveryRerunHasCause
<1>1. IInv => EveryRerunHasCause
  <2> SUFFICES ASSUME IInv, NEW k \in Keys
               PROVE  runs[k] <= 1 + failures[k] + crashes + Cardinality(Purged(k))
                                   + overlaps[k]
    BY DEF EveryRerunHasCause
  <2>1. Cause(k) /\ TypeOK
    BY DEF IInv, CauseInv
  <2>2. Slack(k) = -1 => Cardinality(Owed(k)) > 0
    BY <2>1, FS_EmptySet, Entries DEF Cause
  <2>3. /\ Cardinality(Owed(k)) \in Nat /\ Cardinality(Purged(k)) \in Nat /\ runs[k] \in Nat
        /\ failures[k] \in Nat /\ crashes \in Nat /\ overlaps[k] \in Nat
        /\ Slack(k) \in Int /\ Slack(k) >= -1
    BY <2>1, Entries DEF Cause
  <2> QED
    BY <2>2, <2>3 DEF Slack
<1> QED
  BY Invariance, <1>1, PTL
=============================================================================
