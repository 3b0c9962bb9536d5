-------------------------- MODULE AgentResumeProofs --------------------------
(* What a resumed executor finds: no result is lost or merged twice, and   *)
(* only an interruption abandons a worker.  For every set of workers,      *)
(* invocations and requests and every number of restarts.                  *)
EXTENDS AgentRuntimeProofs, FiniteSetTheorems

USE DEF vars, durable, runVars, agentVars, toolVars, frame, reqVars, procVars, history,
        At, Step, ExecutorLeaves, Moves, RequestStep, RequestLeaves, Creates, CreationLeaves,
        Agents, Checkpoint

-----------------------------------------------------------------------------
(* Observations.                                                           *)

LEMMA AppendFacts ==
  ASSUME NEW T, NEW s \in Seq(T), NEW x \in T
  PROVE  /\ ToSet(Append(s, x)) = ToSet(s) \cup {x}
         /\ IsInjective(s) /\ x \notin ToSet(s) => IsInjective(Append(s, x))
<1>1. /\ Append(s, x) \in Seq(T) /\ Len(Append(s, x)) = Len(s) + 1
      /\ Append(s, x)[Len(s) + 1] = x /\ \A k \in 1..Len(s) : Append(s, x)[k] = s[k]
      /\ DOMAIN s = 1..Len(s) /\ DOMAIN Append(s, x) = 1..(Len(s) + 1) /\ Len(s) \in Nat
  OBVIOUS
<1>2. ToSet(Append(s, x)) = ToSet(s) \cup {x}
  <2>1. \A y : y \in ToSet(s) <=> \E k \in 1..Len(s) : s[k] = y BY <1>1 DEF ToSet
  <2>2. \A y : y \in ToSet(Append(s, x)) <=> \E k \in 1..(Len(s) + 1) : Append(s, x)[k] = y
    BY <1>1 DEF ToSet
  <2>3. ASSUME NEW y \in ToSet(Append(s, x)) PROVE y \in ToSet(s) \cup {x}
    <3>1. PICK k \in 1..(Len(s) + 1) : Append(s, x)[k] = y BY <2>2
    <3>2. CASE k = Len(s) + 1 BY <1>1, <3>1, <3>2
    <3>3. CASE k \in 1..Len(s) BY <1>1, <2>1, <3>1, <3>3
    <3>4. QED BY <1>1, <3>1, <3>2, <3>3
  <2>4. ASSUME NEW y \in ToSet(s) PROVE y \in ToSet(Append(s, x))
    <3>1. PICK k \in 1..Len(s) : s[k] = y BY <2>1
    <3>2. k \in 1..(Len(s) + 1) /\ Append(s, x)[k] = y BY <1>1, <3>1
    <3>3. QED BY <2>2, <3>2
  <2>5. x \in ToSet(Append(s, x))
    <3>1. Len(s) + 1 \in 1..(Len(s) + 1) BY <1>1
    <3>2. QED BY <1>1, <2>2, <3>1
  <2>6. QED BY <2>3, <2>4, <2>5
<1>3. ASSUME IsInjective(s), x \notin ToSet(s) PROVE IsInjective(Append(s, x))
  <2>1. \A k \in 1..Len(s) : s[k] # x BY <1>1, <1>3 DEF ToSet
  <2>2. \A j, k \in 1..Len(s) : s[j] = s[k] => j = k BY <1>1, <1>3 DEF IsInjective
  <2>3. ASSUME NEW j \in 1..(Len(s) + 1), NEW k \in 1..(Len(s) + 1),
               Append(s, x)[j] = Append(s, x)[k]
        PROVE  j = k
    <3>1. CASE j \in 1..Len(s) /\ k \in 1..Len(s) BY <1>1, <2>2, <2>3, <3>1
    <3>2. CASE j = Len(s) + 1 \/ k = Len(s) + 1 BY <1>1, <2>1, <2>3, <3>2
    <3>3. QED BY <1>1, <3>1, <3>2
  <2>4. QED BY <1>1, <2>3 DEF IsInjective
<1>4. QED BY <1>2, <1>3

LEMMA MergedFacts ==
  ASSUME NEW T, NEW s \in Seq(T), NEW x \in T
  PROVE  /\ ToSet(Merged(s, x)) = ToSet(s) \cup {x}
         /\ IsInjective(s) => IsInjective(Merged(s, x))
<1>1. CASE x \in ToSet(s) BY <1>1 DEF Merged
<1>2. CASE x \notin ToSet(s) BY <1>2, AppendFacts DEF Merged
<1>3. QED BY <1>1, <1>2

-----------------------------------------------------------------------------
(* The turn in hand.                                                       *)

\* Where a model turn is under way, an approved call is being resumed, a call's
\* result is being stored, or a call waits to be checkpointed.
Turn == {"reason", "saveBeforeModel", "decide", "finish", "saveCompleted", "delegate",
         "addAgent", "addTask", "saveDispatch", "callTool", "gate", "requestApproval",
         "recordTool", "pauseAgent", "readWaiting", "setWaiting", "saveWaiting"}
Resuming == {"resumeTool", "resumeInvocation", "recordResumed"}
Completing == {"toolReady", "saveTool"}
Pausing == {"pauseAgent", "readWaiting", "setWaiting", "saveWaiting"}
Merging == {"mergeTask", "mergeAgent", "saveMerge"}
Delegating == {"delegate", "addAgent", "addTask", "saveDispatch"}

\* What the latest checkpoint of an agent says is to be resumed.
Waits(a, i) == ckpt[a].step = "waiting_for_approval" /\ ckpt[a].ref = i
Dispatched(w) == ckpt[Supervisor].step = "after_dispatch" /\ ckpt[Supervisor].ref = w
Plain(a) == ckpt[a].step \notin {"waiting_for_approval", "after_dispatch"}

\* The executor runs a worker only under the checkpoint of its dispatch, and
\* takes a turn only where no checkpoint names something to resume.
TurnInv ==
  /\ agent # Supervisor => agent = child /\ Dispatched(child)
  /\ pc \in Merging => Dispatched(child)
  /\ pc \in Delegating => agent = Supervisor
  /\ \A w \in Workers : ckpt[w].step # "after_dispatch"
  /\ pc \in Turn => Plain(agent)
  /\ pc \in Resuming => Waits(agent, cur)
  /\ pc \in Completing => Plain(agent) \/ Waits(agent, cur)

PCSets == Turn \cup Resuming \cup Completing \cup Merging

\* A step that writes no checkpoint and does not enter a turn.
LEMMA TurnLeft ==
  ASSUME TurnInv, UNCHANGED ckpt, pc' = pc \/ pc' \notin PCSets,
         UNCHANGED <<agent, child, cur>> \/ (agent' = Supervisor /\ pc' \notin PCSets)
  PROVE  TurnInv'
BY DEF TurnInv, PCSets, Dispatched, Waits, Plain, Turn, Resuming, Completing, Merging, Delegating

\* A step within a turn.
LEMMA TurnKept ==
  ASSUME TurnInv, UNCHANGED <<ckpt, agent, child>>,
         pc \in Turn /\ pc' \in Turn \cup Completing,
         pc' \in Delegating => agent = Supervisor
  PROVE  TurnInv'
BY DEF TurnInv, Dispatched, Waits, Plain, Turn, Resuming, Completing, Merging, Delegating

\* A step that writes a checkpoint of the agent in hand.
LEMMA SaveFacts ==
  ASSUME TypeOK, NEW a \in Agents, NEW c, ckpt' = [ckpt EXCEPT ![a] = c]
  PROVE  ckpt'[a] = c /\ \A b \in Agents : b # a => ckpt'[b] = ckpt[b]
BY DEF TypeOK

LEMMA TurnExecutor ==
  ASSUME TypeOK, TurnInv, Executor
  PROVE  TurnInv'
<1> USE DEF PCSets, Turn, Resuming, Completing, Merging, Delegating
<1>1. CASE ExecuteRun \/ ReadRunStatus \/ SetRunning \/ EnsureActive \/ SetCompleted \/ EmitCompleted
           \/ ModelFails \/ ToolRefused \/ ExitExecutor \/ ReadFailRun \/ CommitFailRun
           \/ DeliverCancel \/ CallRaises \/ HandleCancel
  <2>1. CASE ExecuteRun \/ EnsureActive
    BY <2>1, TurnLeft DEF ExecuteRun, EnsureActive, RequireActiveStep, AfterRequireActive
  <2>2. CASE ReadRunStatus
    BY <2>2, TurnLeft, TurnKept DEF ReadRunStatus, ReadStatusStep
  <2>3. CASE SetRunning \/ SetCompleted
    BY <2>3, TurnLeft DEF SetRunning, SetCompleted, CommitStatusStep
  <2>4. CASE EmitCompleted \/ ModelFails \/ ToolRefused
    BY <2>4, TurnLeft DEF EmitCompleted, ModelFails, ToolRefused
  <2>5. CASE ExitExecutor \/ ReadFailRun \/ CommitFailRun \/ HandleCancel
    BY <2>5, TurnLeft DEF ExitExecutor, ReadFailRun, CommitFailRun, HandleCancel, TaskDone, ClearFrame
  <2>6. CASE DeliverCancel \/ CallRaises
    BY <2>6, TurnLeft DEF DeliverCancel, CallRaises, DropTask, TaskDone, ClearFrame
  <2>7. QED BY <1>1, <2>1, <2>2, <2>3, <2>4, <2>5, <2>6
<1>2. CASE ResumeDispatch
  <2>1. /\ agent = Supervisor /\ UNCHANGED ckpt /\ Dispatched(child') /\ child' \in Workers
        /\ pc' \in {"fail", "mergeTask", "enter"} /\ agent' \in {Supervisor, child'}
    BY <1>2 DEF ResumeDispatch, DispatchPending, Dispatched, TypeOK
  <2>2. QED BY <2>1 DEF TurnInv, Dispatched, Waits, Plain
<1>3. CASE ResumeApprovedTool
  <2>1. /\ UNCHANGED <<ckpt, agent, child>> /\ Waits(agent, cur') /\ pc' \in {"resumeTool", "fail"}
    BY <1>3 DEF ResumeApprovedTool, ToolPending, Waits
  <2>2. QED BY <2>1 DEF TurnInv, Dispatched, Waits, Plain
<1>4. CASE EnterTurn
  <2>1. /\ UNCHANGED <<ckpt, agent, child, cur>> /\ pc' \in {"reason", "exit", "fail"}
        /\ ckpt[agent].step # "waiting_for_approval"
        /\ (agent = Supervisor => ckpt[agent].step # "after_dispatch")
    BY <1>4 DEF EnterTurn, RequireActiveStep, AfterRequireActive, DispatchPending, ToolPending
  <2>2. Plain(agent) BY <2>1 DEF TurnInv, Plain, TypeOK
  <2>3. QED BY <2>1, <2>2 DEF TurnInv, Dispatched, Waits, Plain
<1>5. CASE StartReasoning \/ FinishAgent \/ WaitOnWorkers \/ WaitOnTool \/ PauseAgent
  <2>1. /\ UNCHANGED <<ckpt, agent, child>> /\ pc \in Turn /\ pc' \in Turn
        /\ (pc' \in Delegating => pc \in Delegating)
    BY <1>5 DEF StartReasoning, FinishAgent, WaitOnWorkers, WaitOnTool, PauseAgent, AgentStep
  <2>2. QED BY <2>1, TurnKept DEF TurnInv
<1>6. CASE MergeAgent \/ ResumeWaitOnTool \/ ToolReady
  <2>1. UNCHANGED <<ckpt, agent, child, cur>>
        /\ \/ pc \in Merging /\ pc' \in Merging
           \/ pc \in Resuming /\ pc' \in Resuming
           \/ pc \in Completing /\ pc' \in Completing
    BY <1>6 DEF MergeAgent, ResumeWaitOnTool, ToolReady, AgentStep
  <2>2. QED BY <2>1 DEF TurnInv, Dispatched, Waits, Plain
<1>7. CASE Decide
  <2>1. /\ UNCHANGED <<ckpt, agent, child, cur>> /\ pc \in Turn
        /\ pc' \in {"finish", "callTool", "delegate", "exit", "fail"}
        /\ (pc' = "delegate" => agent = Supervisor)
    BY <1>7 DEF Decide, AfterRequireActive
  <2>2. QED BY <2>1, TurnKept, TurnLeft
<1>8. CASE SaveBeforeModel
  <2>1. /\ pc \in Turn /\ pc' \in Turn /\ pc' \notin Delegating /\ UNCHANGED <<agent, child>>
        /\ ckpt' = [ckpt EXCEPT ![agent] = Checkpoint("before_model", Observations(agent), None, None)]
    BY <1>8 DEF SaveBeforeModel, CheckpointStep
  <2>2. ckpt'[agent].step = "before_model" /\ \A b \in Agents : b # agent => ckpt'[b] = ckpt[b]
    BY <2>1, SaveFacts DEF TypeOK
  <2>3. QED BY <2>1, <2>2 DEF TurnInv, Dispatched, Waits, Plain
<1>9. CASE SaveCompleted
  <2>1. /\ pc = "saveCompleted" /\ UNCHANGED <<agent, child>>
        /\ pc' = (IF agent = Supervisor THEN "ensureActive" ELSE "mergeTask")
        /\ ckpt' = [ckpt EXCEPT ![agent] = Checkpoint("completed", Observations(agent), None, out)]
    BY <1>9 DEF SaveCompleted, CheckpointStep
  <2>2. ckpt'[agent].step = "completed" /\ \A b \in Agents : b # agent => ckpt'[b] = ckpt[b]
    BY <2>1, SaveFacts DEF TypeOK
  <2>3. QED BY <2>1, <2>2 DEF TurnInv, Dispatched, Waits, Plain
<1>10. CASE (\E w \in Workers : AddAgent(w)) \/ AddTask
  <2>1. /\ agent = Supervisor /\ UNCHANGED <<ckpt, agent>> /\ Plain(agent)
        /\ pc' \in {"addTask", "saveDispatch"}
    BY <1>10 DEF AddAgent, AddTask, TurnInv
  <2>2. QED BY <2>1 DEF TurnInv, Dispatched, Waits, Plain
<1>11. CASE SaveDispatch
  <2>1. /\ agent = Supervisor /\ pc' = "enter" /\ agent' = child /\ child' = child /\ child \in Workers
        /\ ckpt' = [ckpt EXCEPT ![Supervisor] =
                      Checkpoint("after_dispatch", Observations(Supervisor), child, None)]
    BY <1>11 DEF SaveDispatch, CheckpointStep, TurnInv, TypeOK, HoldsChild
  <2>2. /\ ckpt'[Supervisor].step = "after_dispatch" /\ ckpt'[Supervisor].ref = child
        /\ \A b \in Agents : b # Supervisor => ckpt'[b] = ckpt[b]
    BY <2>1 DEF TypeOK
  <2>3. \A w \in Workers : ckpt'[w].step # "after_dispatch" BY <2>2, IdsDistinct DEF TurnInv
  <2>4. QED BY <2>1, <2>2, <2>3 DEF TurnInv, Dispatched, Waits, Plain
<1>12. CASE MergeTask
  <2>1. pc = "mergeTask" /\ pc' = "mergeAgent" /\ agent' = Supervisor /\ UNCHANGED <<ckpt, child>>
    BY <1>12 DEF MergeTask
  <2>2. QED BY <2>1 DEF TurnInv, Dispatched, Waits, Plain
<1>13. CASE SaveMerge
  <2>1. /\ agent = Supervisor /\ agent' = Supervisor /\ pc' = "enter"
        /\ ckpt' = [ckpt EXCEPT ![Supervisor] =
             Checkpoint("after_worker_merge", Merged(Observations(Supervisor), out), None, None)]
    BY <1>13 DEF SaveMerge, CheckpointStep, TypeOK
  <2>2. \A b \in Agents : b # Supervisor => ckpt'[b] = ckpt[b] BY <2>1, SaveFacts
  <2>3. \A w \in Workers : ckpt'[w].step # "after_dispatch" BY <2>2, IdsDistinct DEF TurnInv
  <2>4. QED BY <2>1, <2>3 DEF TurnInv
<1>14. CASE (\E i \in Invocations : StoreGatedInvocation(i) \/ ExecuteTool(i)) \/ RequestApproval
  <2>1. /\ pc \in Turn /\ pc' \in Turn /\ pc' \notin Delegating /\ UNCHANGED <<ckpt, agent, child>>
    BY <1>14 DEF StoreGatedInvocation, ExecuteTool, RequestApproval
  <2>2. QED BY <2>1, TurnKept
<1>15. CASE RecordTool
  <2>1. /\ pc \in Turn /\ pc' \in {"toolReady", "fail"} /\ UNCHANGED <<ckpt, agent, child, cur>>
    BY <1>15 DEF RecordTool, StoreOutcome
  <2>2. QED BY <2>1, TurnKept, TurnLeft
<1>16. CASE ResumeInvocation \/ RecordResumed
  <2>1. /\ pc \in Resuming /\ pc' \in {"recordResumed", "toolReady", "fail"}
        /\ UNCHANGED <<ckpt, agent, child, cur>>
    BY <1>16 DEF ResumeInvocation, RecordResumed, StoreOutcome
  <2>2. QED BY <2>1 DEF TurnInv, Dispatched, Waits, Plain
<1>17. CASE SetWaiting
  <2>1. /\ pc \in Turn /\ pc' = "saveWaiting" /\ UNCHANGED <<ckpt, agent, child>>
    BY <1>17 DEF SetWaiting, CommitStatusStep
  <2>2. QED BY <2>1, TurnKept
<1>18. CASE SaveWaiting
  <2>1. /\ pc = "saveWaiting" /\ UNCHANGED <<agent, child>>
        /\ pc' = (IF agent = Supervisor THEN "exit" ELSE "mergeTask")
        /\ ckpt' = [ckpt EXCEPT ![agent] =
                      Checkpoint("waiting_for_approval", Observations(agent), cur, None)]
    BY <1>18 DEF SaveWaiting, CheckpointStep
  <2>2. ckpt'[agent].step = "waiting_for_approval" /\ \A b \in Agents : b # agent => ckpt'[b] = ckpt[b]
    BY <2>1, SaveFacts DEF TypeOK
  <2>3. QED BY <2>1, <2>2 DEF TurnInv, Dispatched, Waits, Plain
<1>19. CASE SaveTool
  <2>1. /\ pc' = "enter" /\ UNCHANGED <<agent, child>>
        /\ ckpt' = [ckpt EXCEPT ![agent] =
             Checkpoint("after_tool_completed", Append(Observations(agent), cur), cur, None)]
    BY <1>19 DEF SaveTool, CheckpointStep
  <2>2. ckpt'[agent].step = "after_tool_completed" /\ \A b \in Agents : b # agent => ckpt'[b] = ckpt[b]
    BY <2>1, SaveFacts DEF TypeOK
  <2>3. QED BY <2>1, <2>2 DEF TurnInv, Dispatched, Waits, Plain
<1>20. QED
  BY <1>1, <1>2, <1>3, <1>4, <1>5, <1>6, <1>7, <1>8, <1>9, <1>10, <1>11, <1>12, <1>13, <1>14,
     <1>15, <1>16, <1>17, <1>18, <1>19 DEF Executor

\* No other step writes a checkpoint; what it does to the executor is to start
\* or to end it.
LEMMA OutsideSteps ==
  ASSUME TypeOK, ProcInv, [Next]_vars, ~Executor
  PROVE  /\ UNCHANGED <<ckpt, task, invStatus, owner>> /\ interrupts' >= interrupts
         /\ \/ UNCHANGED <<pc, agent, child, cur, out, interrupts>>
            \/ UNCHANGED <<agent, child, cur, out, interrupts>> /\ pc = "idle" /\ pc' = "start"
            \/ /\ pc' = "idle" /\ agent' = Supervisor /\ child' = None
               /\ interrupts' = interrupts + IF pc = "idle" THEN 0 ELSE 1
<1>1. interrupts \in Nat BY DEF TypeOK
<1>2. CASE Creation \/ UNCHANGED vars
  BY <1>1, <1>2 DEF Creation, CreationProgress, PersistRun, AppendCreated, DispatchRun, LinkFails,
       FailLaunch, EmitLaunchFailed, CreationRaises, ProcInv
<1>3. ASSUME NEW r \in Requests, Request(r)
      PROVE  /\ UNCHANGED <<ckpt, task, invStatus, owner>> /\ interrupts' >= interrupts
             /\ \/ UNCHANGED <<pc, agent, child, cur, out, interrupts>>
                \/ UNCHANGED <<agent, child, cur, out, interrupts>> /\ pc = "idle" /\ pc' = "start"
  <2>1. CASE (\E i \in Invocations : ReadApproval(r, i)) \/ ResumeArrives(r) \/ CancelArrives(r)
    BY <1>1, <2>1 DEF ReadApproval, ResumeArrives, CancelArrives, Arrives
  <2>2. CASE CommitApproved(r) \/ RequestReadsRun(r) \/ RequestSetsRun(r) \/ ApproveSetAgent(r)
             \/ AwaitTask(r) \/ CommitRejected(r) \/ RejectReadsRun(r) \/ RejectFailsRun(r)
             \/ CancelTask(r) \/ RequestRaises(r)
    BY <1>1, <2>2 DEF CommitApproved, RequestReadsRun, RequestSetsRun, ApproveSetAgent, AwaitTask,
         CommitRejected, RejectReadsRun, RejectFailsRun, CancelTask, RequestRaises
  <2>3. CASE ResumeRun(r) BY <1>1, <2>3 DEF ResumeRun, ScheduleUnlessLive
  <2>4. QED BY <1>3, <2>1, <2>2, <2>3 DEF Request, RequestProgress
<1>4. CASE Process
  <2>1. CASE Crash BY <1>1, <2>1 DEF Crash, TaskDone, ClearFrame
  <2>2. CASE Shutdown \/ Stopped \/ Startup BY <1>1, <2>2 DEF Shutdown, Stopped, Startup
  <2>3. CASE RecoverRun BY <1>1, <2>3 DEF RecoverRun, ProcInv
  <2>4. QED BY <1>4, <2>1, <2>2, <2>3 DEF Process
<1>5. QED BY <1>2, <1>3, <1>4 DEF Next

LEMMA TurnStep ==
  ASSUME TypeOK, ProcInv, TurnInv, [Next]_vars
  PROVE  TurnInv'
<1>1. CASE Executor BY <1>1, TurnExecutor
<1>2. CASE ~Executor
  <2>1. /\ UNCHANGED ckpt /\ (pc' = pc \/ pc' \in {"start", "idle"})
        /\ UNCHANGED <<agent, child, cur>> \/ (agent' = Supervisor /\ pc' = "idle")
    BY <1>2, OutsideSteps
  <2>2. QED BY <2>1, TurnLeft DEF PCSets, Turn, Resuming, Completing, Merging
<1>3. QED BY <1>1, <1>2

LEMMA TurnCorrect == Spec => []TurnInv
<1>1. Init => TurnInv
  BY NoneAssumption
  DEF Init, TurnInv, NoCheckpoint, Merging, Delegating, Turn, Resuming, Completing, StepNames
<1>2. QED BY <1>1, TurnStep, TypeCorrect, ProcCorrect, PTL DEF Spec

-----------------------------------------------------------------------------
(* Results.                                                                *)

\* What the executor holds: a merged task has the result in hand, and a call in
\* hand is not yet among the agent's observations.
HandInv ==
  /\ pc \in {"mergeAgent", "saveMerge"} => task[child] = out
  /\ pc \in Completing => invStatus[cur] = "completed"
  /\ pc \in Pausing \cup {"requestApproval"} => owner[cur] = agent
  /\ pc \in Pausing => approval[cur] # None
  /\ pc \in HoldsInvocation => cur \notin ToSet(Observations(agent))

\* What the rows hold: a stored call has an owner, a checkpoint names a call of
\* its own agent that is not among the observations, which were all stored.
RowInv ==
  /\ \A i \in Invocations : invStatus[i] # None => owner[i] # None
  /\ \A a \in Agents, i \in Invocations :
       /\ Waits(a, i) => owner[i] = a /\ approval[i] # None /\ i \notin ToSet(Observations(a))
       /\ i \in ToSet(Observations(a)) => invStatus[i] # None
  /\ NoResultLost
  /\ MergedOnce

HandPC == {"mergeAgent", "saveMerge"} \cup HoldsInvocation

LEMMA HandLeft ==
  ASSUME pc' \notin HandPC
  PROVE  HandInv'
BY DEF HandInv, HandPC, HoldsInvocation, Completing, Pausing

LEMMA HandKept ==
  ASSUME TypeOK, HandInv, UNCHANGED <<agent, child, cur, out, task, invStatus, owner, ckpt>>,
         \A i \in Invocations : approval[i] # None => approval'[i] # None,
         \/ pc' = pc
         \/ pc \in {"mergeAgent", "saveMerge"} /\ pc' \in {"mergeAgent", "saveMerge"}
         \/ pc \in Pausing /\ pc' \in Pausing
         \/ pc \in Resuming /\ pc' \in Resuming
         \/ pc \in Completing /\ pc' \in Completing
  PROVE  HandInv'
BY DEF HandInv, HoldsInvocation, Completing, Pausing, Resuming, Observations, TypeOK

LEMMA HandExecutor ==
  ASSUME TypeOK, CallInv, TurnInv, HandInv, RowInv, Executor
  PROVE  HandInv'
<1> USE DEF HandPC, HoldsInvocation, Turn, Resuming, Completing, Pausing
<1>1. CASE ExecuteRun \/ SetRunning \/ EnsureActive \/ SetCompleted \/ EmitCompleted
           \/ ModelFails \/ ToolRefused \/ ExitExecutor \/ ReadFailRun \/ CommitFailRun
           \/ DeliverCancel \/ CallRaises \/ HandleCancel \/ Decide \/ ResumeDispatch \/ EnterTurn
  <2>1. CASE ExecuteRun \/ EnsureActive \/ EnterTurn
    BY <2>1, HandLeft DEF ExecuteRun, EnsureActive, EnterTurn, RequireActiveStep, AfterRequireActive
  <2>2. CASE SetRunning \/ SetCompleted
    BY <2>2, HandLeft DEF SetRunning, SetCompleted, CommitStatusStep
  <2>3. CASE EmitCompleted \/ ModelFails \/ ToolRefused \/ Decide
    BY <2>3, HandLeft DEF EmitCompleted, ModelFails, ToolRefused, Decide, AfterRequireActive
  <2>4. CASE ExitExecutor \/ ReadFailRun \/ CommitFailRun \/ DeliverCancel \/ CallRaises
             \/ HandleCancel
    BY <2>4, HandLeft DEF ExitExecutor, ReadFailRun, CommitFailRun, DeliverCancel, CallRaises,
         HandleCancel, DropTask, TaskDone
  <2>5. CASE ResumeDispatch BY <2>5, HandLeft DEF ResumeDispatch
  <2>6. QED BY <1>1, <2>1, <2>2, <2>3, <2>4, <2>5
<1>2. CASE StartReasoning \/ FinishAgent \/ WaitOnWorkers \/ WaitOnTool
           \/ SaveBeforeModel \/ SaveCompleted \/ SaveDispatch \/ SaveMerge \/ SaveWaiting \/ SaveTool
           \/ (\E w \in Workers : AddAgent(w)) \/ AddTask
  <2>1. pc' \notin HandPC
    BY <1>2 DEF StartReasoning, FinishAgent, WaitOnWorkers, WaitOnTool, SaveBeforeModel,
         SaveCompleted, SaveDispatch, SaveMerge, SaveWaiting, SaveTool, AddAgent, AddTask,
         AgentStep, CheckpointStep
  <2>2. QED BY <2>1, HandLeft
<1>3. CASE PauseAgent \/ SetWaiting \/ MergeAgent \/ ResumeWaitOnTool \/ ToolReady
  <2>1. CASE PauseAgent \/ SetWaiting
    BY <2>1, HandKept DEF PauseAgent, SetWaiting, AgentStep, CommitStatusStep
  <2>2. CASE MergeAgent \/ ResumeWaitOnTool \/ ToolReady
    BY <2>2, HandKept DEF MergeAgent, ResumeWaitOnTool, ToolReady, AgentStep
  <2>3. QED BY <1>3, <2>1, <2>2
<1>4. CASE ReadRunStatus
  <2>1. CASE pc' = "setWaiting" BY <1>4, <2>1, HandKept DEF ReadRunStatus, ReadStatusStep
  <2>2. CASE pc' # "setWaiting" BY <1>4, <2>2, HandLeft DEF ReadRunStatus, ReadStatusStep
  <2>3. QED BY <2>1, <2>2
<1>5. CASE MergeTask
  <2>1. /\ pc' = "mergeAgent" /\ child \in Workers /\ child' = child /\ out' = out
        /\ task' = [task EXCEPT ![child] = out]
    BY <1>5 DEF MergeTask, TypeOK, HoldsChild
  <2>2. task'[child'] = out' BY <2>1 DEF TypeOK
  <2>3. QED BY <2>1, <2>2 DEF HandInv
<1>6. ASSUME NEW i \in Invocations, StoreGatedInvocation(i) \/ ExecuteTool(i)
      PROVE  HandInv'
  <2>1. /\ pc' \in {"requestApproval", "recordTool"} /\ cur' = i /\ UNCHANGED <<agent, ckpt>>
        /\ invStatus[i] = None
        /\ pc' = "requestApproval" => owner' = [owner EXCEPT ![i] = agent]
    BY <1>6 DEF StoreGatedInvocation, ExecuteTool, Fresh
  <2>2. i \notin ToSet(Observations(agent)) BY <2>1 DEF RowInv, TypeOK
  <2>3. pc' = "requestApproval" => owner'[i] = agent BY <2>1 DEF TypeOK
  <2>4. QED BY <2>1, <2>2, <2>3 DEF HandInv, Observations
<1>7. CASE RecordTool \/ RecordResumed
  <2>1. CASE pc' = "fail" BY <2>1, HandLeft
  <2>2. CASE pc' = "toolReady"
    <3>1. /\ UNCHANGED <<agent, cur, ckpt>> /\ cur \in Invocations
          /\ invStatus' = [invStatus EXCEPT ![cur] = "completed"]
          /\ pc \in HoldsInvocation
      BY <1>7, <2>2 DEF RecordTool, RecordResumed, StoreOutcome, TypeOK
    <3>2. invStatus'[cur] = "completed" BY <3>1 DEF TypeOK
    <3>3. QED BY <2>2, <3>1, <3>2 DEF HandInv, Observations
  <2>3. QED BY <1>7, <2>1, <2>2 DEF RecordTool, RecordResumed, StoreOutcome
<1>8. CASE RequestApproval
  <2>1. /\ pc = "requestApproval" /\ pc' = "pauseAgent" /\ cur \in Invocations
        /\ approval' = [approval EXCEPT ![cur] = "pending"]
        /\ UNCHANGED <<agent, cur, owner, ckpt>>
    BY <1>8 DEF RequestApproval, TypeOK
  <2>2. approval'[cur] # None BY <2>1, NoneAssumption DEF TypeOK
  <2>3. QED BY <2>1, <2>2 DEF HandInv, Observations
<1>9. CASE ResumeApprovedTool
  <2>1. CASE pc' = "fail" BY <2>1, HandLeft
  <2>2. CASE pc' = "resumeTool"
    <3>1. /\ Waits(agent, cur') /\ UNCHANGED <<agent, ckpt>> /\ cur' \in Invocations
      BY <1>9 DEF ResumeApprovedTool, ToolPending, Waits, TypeOK
    <3>2. cur' \notin ToSet(Observations(agent)) BY <3>1 DEF RowInv, TypeOK
    <3>3. QED BY <2>2, <3>1, <3>2 DEF HandInv, Observations
  <2>3. QED BY <1>9, <2>1, <2>2 DEF ResumeApprovedTool
<1>10. CASE ResumeInvocation
  <2>1. CASE pc' = "fail" BY <2>1, HandLeft
  <2>2. CASE pc' \in {"toolReady", "recordResumed"}
    BY <1>10, <2>2 DEF ResumeInvocation, HandInv, Observations, HasResult
  <2>3. QED BY <1>10, <2>1, <2>2 DEF ResumeInvocation
<1>11. QED
  BY <1>1, <1>2, <1>3, <1>4, <1>5, <1>6, <1>7, <1>8, <1>9, <1>10 DEF Executor

\* Steps that leave the rows alone; resolving an approval keeps that there is one.
LEMMA RowsKept ==
  ASSUME TypeOK, RowInv, UNCHANGED <<task, invStatus, owner, ckpt>>,
         \A i \in Invocations : approval'[i] # None <=> approval[i] # None
  PROVE  RowInv'
<1>1. NoResultLost' BY DEF RowInv, NoResultLost, Observations
<1>2. MergedOnce' BY DEF RowInv, MergedOnce, Observations
<1>3. QED BY <1>1, <1>2 DEF RowInv, Waits, Observations

\* Steps that save a checkpoint of agent a: the observations grow, by stored
\* calls, and what the old checkpoint named the new one names or has observed.
LEMMA RowsSaved ==
  ASSUME TypeOK, RowInv, UNCHANGED <<task, invStatus, owner, approval>>,
         NEW a \in Agents, NEW obs, NEW step, NEW ref,
         ckpt'[a].step = step /\ ckpt'[a].ref = ref /\ ckpt'[a].obs = obs,
         \A b \in Agents : b # a => ckpt'[b] = ckpt[b],
         ToSet(Observations(a)) \subseteq ToSet(obs), IsInjective(obs),
         \A i \in Invocations :
           /\ i \in ToSet(obs) => invStatus[i] # None
           /\ Waits(a, i) => i \in ToSet(obs)
           /\ step = "waiting_for_approval" /\ ref = i
                => owner[i] = a /\ approval[i] # None /\ i \notin ToSet(obs),
         \A w \in Workers : a = Supervisor /\ Dispatched(w) => task[w] \in ToSet(obs)
  PROVE  RowInv'
<1>1. /\ ckpt'[a].step = step /\ ckpt'[a].ref = ref /\ ckpt'[a].obs = obs
      /\ \A b \in Agents : b # a => ckpt'[b] = ckpt[b]
  OBVIOUS
<1>2. ASSUME NEW b \in Agents, NEW i \in Invocations
      PROVE  /\ ckpt'[b].step = "waiting_for_approval" /\ ckpt'[b].ref = i
                  => owner[i] = b /\ approval[i] # None /\ i \notin ToSet(ckpt'[b].obs)
             /\ i \in ToSet(ckpt'[b].obs) => invStatus[i] # None
  <2>1. CASE b = a BY <1>1, <2>1
  <2>2. CASE b # a BY <1>1, <2>2 DEF RowInv, Waits, Observations
  <2>3. QED BY <2>1, <2>2
<1>3. ASSUME NEW w \in Workers, task[w] \in Results
      PROVE  task[w] \in ToSet(ckpt'[Supervisor].obs)
             \/ (ckpt'[Supervisor].step = "after_dispatch" /\ ckpt'[Supervisor].ref = w)
  <2>1. task[w] \in ToSet(Observations(Supervisor)) \/ Dispatched(w)
    BY <1>3 DEF RowInv, NoResultLost, Dispatched
  <2>2. CASE a = Supervisor BY <1>1, <2>1, <2>2
  <2>3. CASE a # Supervisor BY <1>1, <2>1, <2>3 DEF Observations, Dispatched
  <2>4. QED BY <2>2, <2>3
<1>4. ASSUME NEW i \in Invocations, approval[i] # None, invStatus[i] = "completed"
      PROVE  i \in ToSet(ckpt'[owner[i]].obs)
             \/ (ckpt'[owner[i]].step = "waiting_for_approval" /\ ckpt'[owner[i]].ref = i)
  <2>1. owner[i] \in Agents BY <1>4, NoneAssumption DEF RowInv, TypeOK, RunStatus, Terminal
  <2>2. i \in ToSet(Observations(owner[i])) \/ Waits(owner[i], i)
    BY <1>4 DEF RowInv, NoResultLost, Waits
  <2>3. CASE owner[i] = a BY <1>1, <2>2, <2>3
  <2>4. CASE owner[i] # a BY <1>1, <2>1, <2>2, <2>4 DEF Observations, Waits
  <2>5. QED BY <2>3, <2>4
<1>5. NoResultLost' BY <1>3, <1>4 DEF NoResultLost, Observations
<1>6. \A b \in Agents : IsInjective(ckpt'[b].obs) BY <1>1 DEF RowInv, MergedOnce, Observations
<1>7. MergedOnce' BY <1>6 DEF MergedOnce, Observations
<1>8. QED BY <1>2, <1>5, <1>7 DEF RowInv, Waits, Observations

LEMMA ObservationsType ==
  ASSUME TypeOK, NEW a \in Agents
  PROVE  Observations(a) \in Seq(Results \cup Invocations)
BY DEF TypeOK, CheckpointType, Observations

\* Steps that save a checkpoint.
LEMMA RowsSaving ==
  ASSUME TypeOK, TurnInv, HandInv, RowInv,
         SaveBeforeModel \/ SaveCompleted \/ SaveDispatch \/ SaveMerge \/ SaveWaiting \/ SaveTool
  PROVE  RowInv'
<1> USE DEF Turn, Resuming, Completing, Pausing, HoldsInvocation
<1>1. \A a \in Agents : IsInjective(Observations(a)) BY DEF RowInv, MergedOnce
<1>2. \A a \in Agents, i \in Invocations : i \in ToSet(Observations(a)) => invStatus[i] # None
  BY DEF RowInv
<1>3. agent \in Agents /\ Supervisor \in Agents BY DEF TypeOK
<1>4. CASE SaveBeforeModel
  <2>1. /\ Plain(agent) /\ UNCHANGED <<task, invStatus, owner, approval>>
        /\ ckpt' = [ckpt EXCEPT ![agent] = Checkpoint("before_model", Observations(agent), None, None)]
    BY <1>4 DEF SaveBeforeModel, CheckpointStep, TurnInv
  <2>2. /\ ckpt'[agent].step = "before_model" /\ ckpt'[agent].obs = Observations(agent)
        /\ \A b \in Agents : b # agent => ckpt'[b] = ckpt[b]
    BY <1>3, <2>1 DEF TypeOK
  <2>3. /\ \A i \in Invocations : ~Waits(agent, i)
        /\ \A w \in Workers : ~(agent = Supervisor /\ Dispatched(w))
    BY <2>1 DEF Plain, Waits, Dispatched
  <2>4. QED BY <1>1, <1>2, <1>3, <2>1, <2>2, <2>3, RowsSaved
<1>5. CASE SaveCompleted
  <2>1. /\ Plain(agent) /\ UNCHANGED <<task, invStatus, owner, approval>>
        /\ ckpt' = [ckpt EXCEPT ![agent] = Checkpoint("completed", Observations(agent), None, out)]
    BY <1>5 DEF SaveCompleted, CheckpointStep, TurnInv
  <2>2. /\ ckpt'[agent].step = "completed" /\ ckpt'[agent].obs = Observations(agent)
        /\ \A b \in Agents : b # agent => ckpt'[b] = ckpt[b]
    BY <1>3, <2>1 DEF TypeOK
  <2>3. /\ \A i \in Invocations : ~Waits(agent, i)
        /\ \A w \in Workers : ~(agent = Supervisor /\ Dispatched(w))
    BY <2>1 DEF Plain, Waits, Dispatched
  <2>4. QED BY <1>1, <1>2, <1>3, <2>1, <2>2, <2>3, RowsSaved
<1>6. CASE SaveDispatch
  <2>1. /\ Plain(Supervisor) /\ UNCHANGED <<task, invStatus, owner, approval>>
        /\ ckpt' = [ckpt EXCEPT ![Supervisor] =
                      Checkpoint("after_dispatch", Observations(Supervisor), child, None)]
    BY <1>6 DEF SaveDispatch, CheckpointStep, TurnInv, Delegating
  <2>2. /\ ckpt'[Supervisor].step = "after_dispatch"
        /\ ckpt'[Supervisor].obs = Observations(Supervisor)
        /\ \A b \in Agents : b # Supervisor => ckpt'[b] = ckpt[b]
    BY <1>3, <2>1 DEF TypeOK
  <2>3. /\ \A i \in Invocations : ~Waits(Supervisor, i)
        /\ \A w \in Workers : ~Dispatched(w)
    BY <2>1 DEF Plain, Waits, Dispatched
  <2>4. QED BY <1>1, <1>2, <1>3, <2>1, <2>2, <2>3, RowsSaved
<1>7. CASE SaveMerge
  <2> DEFINE obs == Merged(Observations(Supervisor), out)
  <2>1. /\ Dispatched(child) /\ task[child] = out /\ out \in Results
        /\ UNCHANGED <<task, invStatus, owner, approval>>
        /\ ckpt' = [ckpt EXCEPT ![Supervisor] = Checkpoint("after_worker_merge", obs, None, None)]
    BY <1>7 DEF SaveMerge, CheckpointStep, TurnInv, HandInv, Merging, TypeOK, HoldsResult
  <2>2. /\ ckpt'[Supervisor].step = "after_worker_merge" /\ ckpt'[Supervisor].obs = obs
        /\ \A b \in Agents : b # Supervisor => ckpt'[b] = ckpt[b]
    BY <1>3, <2>1 DEF TypeOK
  <2>3. /\ ToSet(obs) = ToSet(Observations(Supervisor)) \cup {out} /\ IsInjective(obs)
    BY <1>1, <1>3, <2>1, ObservationsType, MergedFacts
  <2>4. out \notin Invocations BY <2>1, OutputsAssumption DEF Results
  <2>5. \A w \in Workers : Dispatched(w) => task[w] \in ToSet(obs)
    BY <2>1, <2>3 DEF Dispatched
  <2>6. \A i \in Invocations : ~Waits(Supervisor, i) BY <2>1 DEF Waits, Dispatched
  <2>7. \A i \in Invocations : i \in ToSet(obs) => invStatus[i] # None
    BY <1>2, <1>3, <2>3, <2>4
  <2> HIDE DEF obs
  <2>8. QED BY <1>3, <2>1, <2>2, <2>3, <2>5, <2>6, <2>7, RowsSaved
<1>8. CASE SaveWaiting
  <2>1. /\ Plain(agent) /\ owner[cur] = agent /\ approval[cur] # None
        /\ cur \notin ToSet(Observations(agent))
        /\ UNCHANGED <<task, invStatus, owner, approval>>
        /\ ckpt' = [ckpt EXCEPT ![agent] =
                      Checkpoint("waiting_for_approval", Observations(agent), cur, None)]
    BY <1>8 DEF SaveWaiting, CheckpointStep, TurnInv, HandInv
  <2>2. /\ ckpt'[agent].step = "waiting_for_approval" /\ ckpt'[agent].obs = Observations(agent)
        /\ ckpt'[agent].ref = cur
        /\ \A b \in Agents : b # agent => ckpt'[b] = ckpt[b]
    BY <1>3, <2>1 DEF TypeOK
  <2>3. /\ \A i \in Invocations : ~Waits(agent, i)
        /\ \A w \in Workers : ~(agent = Supervisor /\ Dispatched(w))
    BY <2>1 DEF Plain, Waits, Dispatched
  <2>4. QED BY <1>1, <1>2, <1>3, <2>1, <2>2, <2>3, RowsSaved
<1>9. CASE SaveTool
  <2> DEFINE obs == Append(Observations(agent), cur)
  <2>1. /\ Plain(agent) \/ Waits(agent, cur)
        /\ invStatus[cur] = "completed" /\ cur \in Invocations
        /\ cur \notin ToSet(Observations(agent))
        /\ UNCHANGED <<task, invStatus, owner, approval>>
        /\ ckpt' = [ckpt EXCEPT ![agent] = Checkpoint("after_tool_completed", obs, cur, None)]
    BY <1>9 DEF SaveTool, CheckpointStep, TurnInv, HandInv, TypeOK
  <2>2. /\ ckpt'[agent].step = "after_tool_completed" /\ ckpt'[agent].obs = obs
        /\ \A b \in Agents : b # agent => ckpt'[b] = ckpt[b]
    BY <1>3, <2>1 DEF TypeOK
  <2>3. ToSet(obs) = ToSet(Observations(agent)) \cup {cur} /\ IsInjective(obs)
    BY <1>1, <1>3, <2>1, ObservationsType, AppendFacts
  <2>4. \A i \in Invocations : Waits(agent, i) => i \in ToSet(obs)
    BY <2>1, <2>3 DEF Waits, Plain
  <2>5. \A w \in Workers : ~(agent = Supervisor /\ Dispatched(w))
    BY <2>1 DEF Waits, Plain, Dispatched
  <2>6. \A i \in Invocations : i \in ToSet(obs) => invStatus[i] # None
    BY <1>2, <1>3, <2>1, <2>3, NoneAssumption DEF RunStatus, Terminal
  <2> HIDE DEF obs
  <2>7. QED BY <1>3, <2>1, <2>2, <2>3, <2>4, <2>5, <2>6, RowsSaved
<1>10. QED BY <1>4, <1>5, <1>6, <1>7, <1>8, <1>9

\* Steps that write the rows of the call in hand.
LEMMA RowsCalling ==
  ASSUME TypeOK, CallInv, TurnInv, HandInv, RowInv,
         \/ \E i \in Invocations : StoreGatedInvocation(i)
         \/ RecordTool \/ RecordResumed \/ RequestApproval
  PROVE  RowInv'
<1> USE NoneAssumption DEF RunStatus, Terminal
\* A call that is stored for the first time: no checkpoint knows it.
<1>1. ASSUME NEW i \in Invocations, NEW status \in {"waiting_for_approval", "completed", "failed"},
             invStatus[i] = None, invStatus' = [invStatus EXCEPT ![i] = status],
             owner' = [owner EXCEPT ![i] = agent], UNCHANGED <<task, ckpt, approval>>
      PROVE  RowInv'
  <2>1. approval[i] = None /\ \A a \in Agents : i \notin ToSet(Observations(a)) /\ ~Waits(a, i)
    BY <1>1 DEF CallInv, RowInv
  <2>2. /\ invStatus'[i] = status /\ owner'[i] = agent /\ agent # None /\ status # None
        /\ \A j \in Invocations : j # i => invStatus'[j] = invStatus[j] /\ owner'[j] = owner[j]
    BY <1>1 DEF TypeOK
  <2>3. \A j \in Invocations : invStatus'[j] # None => owner'[j] # None BY <2>2 DEF RowInv
  <2>4. \A a \in Agents, j \in Invocations :
          /\ Waits(a, j) => owner'[j] = a /\ approval[j] # None /\ j \notin ToSet(Observations(a))
          /\ j \in ToSet(Observations(a)) => invStatus'[j] # None
    BY <2>1, <2>2 DEF RowInv
  <2>5. \A j \in Invocations : approval[j] # None => invStatus'[j] = invStatus[j] /\ owner'[j] = owner[j]
    BY <2>1, <2>2
  <2>6. NoResultLost' BY <1>1, <2>5 DEF RowInv, NoResultLost, Observations
  <2>7. MergedOnce' BY <1>1 DEF RowInv, MergedOnce, Observations
  <2>8. QED BY <1>1, <2>3, <2>4, <2>6, <2>7 DEF RowInv, Waits, Observations
<1>2. CASE \E i \in Invocations : StoreGatedInvocation(i)
  BY <1>1, <1>2 DEF StoreGatedInvocation, Fresh
<1>3. CASE RecordTool
  <2>1. PICK status \in {"completed", "failed"} : invStatus' = [invStatus EXCEPT ![cur] = status]
    BY <1>3 DEF RecordTool, StoreOutcome
  <2>2. cur \in Invocations /\ invStatus[cur] = None
    BY <1>3 DEF RecordTool, StoreOutcome, TypeOK, HoldsInvocation, CallInv
  <2>3. owner' = [owner EXCEPT ![cur] = agent] /\ UNCHANGED <<task, ckpt, approval>>
    BY <1>3 DEF RecordTool, StoreOutcome
  <2>4. QED BY <1>1, <2>1, <2>2, <2>3
<1>4. CASE RecordResumed
  <2>1. PICK status \in {"completed", "failed"} : invStatus' = [invStatus EXCEPT ![cur] = status]
    BY <1>4 DEF RecordResumed, StoreOutcome
  <2>2. /\ cur \in Invocations /\ Waits(agent, cur) /\ invStatus[cur] = "waiting_for_approval"
        /\ UNCHANGED <<task, ckpt, approval, owner>>
    BY <1>4 DEF RecordResumed, StoreOutcome, TypeOK, HoldsInvocation, CallInv, TurnInv, Resuming
  <2>3. /\ invStatus'[cur] = status /\ status # None /\ owner[cur] = agent /\ invStatus[cur] # None
        /\ \A j \in Invocations : j # cur => invStatus'[j] = invStatus[j]
    <3>1. invStatus'[cur] = status /\ \A j \in Invocations : j # cur => invStatus'[j] = invStatus[j]
      BY <2>1, <2>2 DEF TypeOK
    <3>2. owner[cur] = agent BY <2>2 DEF RowInv, TypeOK
    <3>3. status # None OBVIOUS
    <3>4. QED BY <2>2, <3>1, <3>2, <3>3
  <2>4. \A j \in Invocations : invStatus'[j] # None <=> invStatus[j] # None BY <2>3
  <2>5. NoResultLost'
    <3>1. \A w \in Workers : task[w] \in Results =>
            task[w] \in ToSet(Observations(Supervisor)) \/ Dispatched(w)
      BY DEF RowInv, NoResultLost, Dispatched
    <3>2. \A j \in Invocations : approval[j] # None /\ invStatus'[j] = "completed" =>
            j \in ToSet(Observations(owner[j])) \/ Waits(owner[j], j)
      <4>1. ASSUME NEW j \in Invocations, approval[j] # None, invStatus'[j] = "completed"
            PROVE  j \in ToSet(Observations(owner[j])) \/ Waits(owner[j], j)
        <5>1. CASE j = cur BY <2>2, <2>3, <5>1
        <5>2. CASE j # cur BY <2>3, <4>1, <5>2 DEF RowInv, NoResultLost, Waits
        <5>3. QED BY <5>1, <5>2
      <4>2. QED BY <4>1
    <3>3. QED BY <2>2, <3>1, <3>2 DEF NoResultLost, Observations, Dispatched, Waits
  <2>6. MergedOnce' BY <2>2 DEF RowInv, MergedOnce, Observations
  <2>7. QED BY <2>2, <2>4, <2>5, <2>6 DEF RowInv, Waits, Observations
<1>5. CASE RequestApproval
  <2>1. /\ cur \in Invocations /\ invStatus[cur] = "waiting_for_approval"
        /\ approval' = [approval EXCEPT ![cur] = "pending"]
        /\ UNCHANGED <<task, ckpt, invStatus, owner>>
    BY <1>5 DEF RequestApproval, TypeOK, HoldsInvocation, CallInv
  <2>2. approval'[cur] # None /\ \A j \in Invocations : j # cur => approval'[j] = approval[j]
    BY <2>1 DEF TypeOK
  <2>3. \A j \in Invocations : invStatus[j] = "completed" => approval'[j] = approval[j]
    BY <2>1, <2>2
  <2>4. \A j \in Invocations : approval[j] # None => approval'[j] # None BY <2>2
  <2>5. NoResultLost' BY <2>1, <2>3 DEF RowInv, NoResultLost, Observations
  <2>6. MergedOnce' BY <2>1 DEF RowInv, MergedOnce, Observations
  <2>7. QED BY <2>1, <2>4, <2>5, <2>6 DEF RowInv, Waits, Observations
<1>6. QED BY <1>2, <1>3, <1>4, <1>5

\* Steps that write the task of the worker in hand: nothing has merged it yet.
LEMMA RowsTasking ==
  ASSUME TypeOK, TurnInv, RowInv, AddTask \/ MergeTask
  PROVE  RowInv'
<1>1. /\ UNCHANGED <<ckpt, invStatus, owner, approval>> /\ child \in Workers
      /\ \A w \in Workers : w # child => task'[w] = task[w]
  BY DEF AddTask, MergeTask, TypeOK, HoldsChild
<1>2. task'[child] \in Results => Dispatched(child)
  <2>1. CASE AddTask
    <3>1. task'[child] = "created" BY <1>1, <2>1 DEF AddTask, TypeOK
    <3>2. "created" \notin Results BY OutputsAssumption DEF Results
    <3>3. QED BY <3>1, <3>2
  <2>2. CASE MergeTask BY <2>2 DEF MergeTask, TurnInv, Merging
  <2>3. QED BY <2>1, <2>2
<1>3. NoResultLost'
  <2>1. ASSUME NEW w \in Workers, task'[w] \in Results
        PROVE  task'[w] \in ToSet(Observations(Supervisor)) \/ Dispatched(w)
    <3>1. CASE w = child BY <1>2, <2>1, <3>1
    <3>2. CASE w # child BY <1>1, <2>1, <3>2 DEF RowInv, NoResultLost, Dispatched
    <3>3. QED BY <3>1, <3>2
  <2>2. QED BY <1>1, <2>1 DEF RowInv, NoResultLost, Observations, Dispatched
<1>4. MergedOnce' BY <1>1 DEF RowInv, MergedOnce, Observations
<1>5. QED BY <1>1, <1>3, <1>4 DEF RowInv, Waits, Observations

LEMMA RowsExecutor ==
  ASSUME TypeOK, CallInv, TurnInv, HandInv, RowInv, Executor
  PROVE  RowInv'
<1>1. CASE ExecuteRun \/ ReadRunStatus \/ SetRunning \/ ResumeDispatch \/ ResumeApprovedTool
           \/ EnterTurn \/ StartReasoning \/ ModelFails \/ Decide \/ FinishAgent \/ EnsureActive
           \/ SetCompleted \/ EmitCompleted
  <2>1. UNCHANGED <<task, invStatus, owner, approval, ckpt>>
    BY <1>1 DEF ExecuteRun, ReadRunStatus, SetRunning, ResumeDispatch, ResumeApprovedTool,
         EnterTurn, StartReasoning, ModelFails, Decide, FinishAgent, EnsureActive, SetCompleted,
         EmitCompleted, RequireActiveStep, ReadStatusStep, CommitStatusStep, AgentStep
  <2>2. QED BY <2>1, RowsKept
<1>2. CASE WaitOnWorkers \/ (\E w \in Workers : AddAgent(w)) \/ MergeAgent \/ WaitOnTool
           \/ ToolRefused \/ (\E i \in Invocations : ExecuteTool(i)) \/ PauseAgent \/ SetWaiting
           \/ ResumeWaitOnTool \/ ResumeInvocation \/ ToolReady
           \/ ExitExecutor \/ ReadFailRun \/ CommitFailRun \/ DeliverCancel \/ CallRaises
           \/ HandleCancel
  <2>1. UNCHANGED <<task, invStatus, owner, approval, ckpt>>
    BY <1>2 DEF WaitOnWorkers, AddAgent, MergeAgent, WaitOnTool, ToolRefused, ExecuteTool,
         PauseAgent, SetWaiting, ResumeWaitOnTool, ResumeInvocation, ToolReady, ExitExecutor,
         ReadFailRun, CommitFailRun, DeliverCancel, CallRaises, HandleCancel, CommitStatusStep,
         AgentStep
  <2>2. QED BY <2>1, RowsKept
<1>3. QED BY <1>1, <1>2, RowsSaving, RowsCalling, RowsTasking DEF Executor

\* No other step makes or unmakes an approval.
LEMMA OutsideApprovals ==
  ASSUME TypeOK, CallInv, [Next]_vars, ~Executor
  PROVE  \A i \in Invocations : approval'[i] # None <=> approval[i] # None
<1>1. CASE UNCHANGED approval BY <1>1
<1>2. ASSUME NEW r \in Requests, CommitApproved(r) \/ CommitRejected(r)
      PROVE  \A i \in Invocations : approval'[i] # None <=> approval[i] # None
  BY <1>2, NoneAssumption DEF CommitApproved, CommitRejected, CallInv, TypeOK
<1>3. ASSUME NEW r \in Requests, Request(r)
      PROVE  UNCHANGED approval \/ CommitApproved(r) \/ CommitRejected(r)
  BY <1>3, OtherRequestSteps DEF ReadApproval, Arrives
<1>4. CASE Creation \/ Process \/ UNCHANGED vars
  BY <1>1, <1>4 DEF Creation, CreationProgress, PersistRun, AppendCreated, DispatchRun, LinkFails,
       FailLaunch, EmitLaunchFailed, CreationRaises, Process, Crash, Shutdown, Stopped, Startup,
       RecoverRun
<1>5. QED BY <1>1, <1>2, <1>3, <1>4 DEF Next

ResultInv == HandInv /\ RowInv

LEMMA ResultStep ==
  ASSUME TypeOK, ProcInv, CallInv, TurnInv, ResultInv, [Next]_vars
  PROVE  ResultInv'
<1>1. CASE Executor BY <1>1, HandExecutor, RowsExecutor DEF ResultInv
<1>2. CASE ~Executor
  <2>1. \A i \in Invocations : approval'[i] # None <=> approval[i] # None
    BY <1>2, OutsideApprovals
  <2>2. UNCHANGED <<ckpt, task, invStatus, owner>> BY <1>2, OutsideSteps
  <2>3. RowInv' BY <2>1, <2>2, RowsKept DEF ResultInv
  <2>4. UNCHANGED <<pc, agent, child, cur, out>> => HandInv'
    BY <2>1, <2>2, HandKept DEF ResultInv
  <2>5. pc' \in {"start", "idle"} => HandInv'
    BY HandLeft DEF HandPC, HoldsInvocation
  <2>6. HandInv' BY <1>2, <2>4, <2>5, OutsideSteps
  <2>7. QED BY <2>3, <2>6 DEF ResultInv
<1>3. QED BY <1>1, <1>2

LEMMA ResultCorrect == Spec => []ResultInv
<1>1. ASSUME Init PROVE ResultInv
  <2>1. HandInv BY <1>1 DEF Init, HandInv, HoldsInvocation, Completing, Pausing
  <2>2. \A a \in Agents : Observations(a) = <<>> /\ ckpt[a].step = None
    BY <1>1 DEF Init, Observations, NoCheckpoint
  <2>3. ToSet(<<>>) = {} BY DEF ToSet
  <2>4. IsInjective(<<>>) BY DEF IsInjective
  <2>5. NoResultLost BY <1>1, NoneAssumption DEF Init, NoResultLost
  <2>6. MergedOnce BY <2>2, <2>4 DEF MergedOnce
  <2>7. None # "waiting_for_approval" BY NoneAssumption DEF RunStatus
  <2>8. \A i \in Invocations : invStatus[i] = None BY <1>1 DEF Init
  <2>9. RowInv BY <2>2, <2>3, <2>5, <2>6, <2>7, <2>8 DEF RowInv, Waits
  <2>10. QED BY <2>1, <2>9 DEF ResultInv
<1>2. QED BY <1>1, ResultStep, TypeCorrect, ProcCorrect, CallCorrect, TurnCorrect, PTL DEF Spec

\* A stored result is in its agent's observations, or the agent's latest
\* checkpoint names it as what to resume.
THEOREM ResultsSurvive == Spec => []NoResultLost
BY ResultCorrect, PTL DEF ResultInv, RowInv

\* No interruption makes a result enter an agent's observations twice.
THEOREM ResultsEnterOnce == Spec => []MergedOnce
BY ResultCorrect, PTL DEF ResultInv, RowInv

-----------------------------------------------------------------------------
(* Workers.                                                                *)

Adding == {"addTask", "saveDispatch"}

\* A worker without a row has no task and is not dispatched, and only agents
\* that have a row own calls; a request that acts on an approval names it.
KnownInv ==
  /\ \A w \in Workers : agentStatus[w] = None => task[w] = None /\ ~Dispatched(w)
  /\ \A i \in Invocations : owner[i] \in Workers => agentStatus[owner[i]] # None
  /\ \A r \in Requests :
       rpc[r] \in {"approve", "readRun", "setRunning", "setAgent"} => rtarget[r] # None

\* The worker in hand has a row.
LEMMA InHandKnown ==
  ASSUME TypeOK, TurnInv, KnownInv, agent \in Workers
  PROVE  agentStatus[agent] # None
<1>1. agent # Supervisor BY IdsDistinct
<1>2. QED BY <1>1 DEF TurnInv, KnownInv

\* Setting an agent's status neither makes nor removes the row of a worker.
LEMMA StatusKnown ==
  ASSUME TypeOK, TurnInv, KnownInv, NEW a \in Agents, NEW status \in AgentStatus,
         a \in Workers => agentStatus[a] # None,
         agentStatus' = [agentStatus EXCEPT ![a] = status]
  PROVE  \A w \in Workers : agentStatus'[w] = None <=> agentStatus[w] = None
<1>1. status # None BY NoneAssumption
<1>2. QED BY <1>1 DEF TypeOK

LEMMA KnownAgents ==
  ASSUME TypeOK, TurnInv, KnownInv, [Next]_vars
  PROVE  \A w \in Workers : AddAgent(w) \/ (agentStatus'[w] = None <=> agentStatus[w] = None)
<1>1. Supervisor \in Agents /\ Supervisor \notin Workers BY IdsDistinct
<1>2. agent \in Agents /\ (agent \in Workers => agentStatus[agent] # None)
  BY InHandKnown DEF TypeOK
<1>3. CASE UNCHANGED agentStatus BY <1>3
<1>4. CASE StartReasoning \/ FinishAgent \/ WaitOnTool \/ PauseAgent \/ ResumeWaitOnTool \/ ToolReady
  <2>1. PICK status \in AgentStatus : agentStatus' = [agentStatus EXCEPT ![agent] = status]
    BY <1>4 DEF StartReasoning, FinishAgent, WaitOnTool, PauseAgent, ResumeWaitOnTool, ToolReady,
         AgentStep, AgentStatus
  <2>2. QED BY <1>2, <2>1, StatusKnown
<1>5. CASE WaitOnWorkers \/ MergeAgent \/ CommitFailRun \/ PersistRun
  <2>1. PICK status \in AgentStatus : agentStatus' = [agentStatus EXCEPT ![Supervisor] = status]
    BY <1>5 DEF WaitOnWorkers, MergeAgent, CommitFailRun, MarkRunFailed, PersistRun, AgentStep,
         AgentStatus
  <2>2. QED BY <1>1, <2>1, StatusKnown
<1>6. ASSUME NEW w \in Workers, AddAgent(w)
      PROVE  \A v \in Workers : v # w => agentStatus'[v] = agentStatus[v]
  BY <1>6 DEF AddAgent, TypeOK
<1>7. ASSUME Executor, \A w \in Workers : ~AddAgent(w)
      PROVE  \/ UNCHANGED agentStatus
             \/ StartReasoning \/ FinishAgent \/ WaitOnTool \/ PauseAgent \/ ResumeWaitOnTool
             \/ ToolReady \/ WaitOnWorkers \/ MergeAgent \/ CommitFailRun
  <2>1. CASE ExecuteRun \/ ReadRunStatus \/ SetRunning \/ ResumeDispatch \/ ResumeApprovedTool
             \/ EnterTurn \/ SaveBeforeModel \/ ModelFails \/ Decide \/ SaveCompleted
             \/ EnsureActive \/ SetCompleted \/ EmitCompleted \/ AddTask \/ SaveDispatch
    BY <2>1 DEF ExecuteRun, ReadRunStatus, SetRunning, ResumeDispatch, ResumeApprovedTool,
         EnterTurn, SaveBeforeModel, ModelFails, Decide, SaveCompleted, EnsureActive,
         SetCompleted, EmitCompleted, AddTask, SaveDispatch, RequireActiveStep, ReadStatusStep,
         CommitStatusStep, CheckpointStep
  <2>2. CASE MergeTask \/ SaveMerge \/ ToolRefused
             \/ (\E i \in Invocations : StoreGatedInvocation(i) \/ ExecuteTool(i))
             \/ RecordTool \/ RequestApproval \/ SetWaiting \/ SaveWaiting \/ ResumeInvocation
             \/ RecordResumed \/ SaveTool \/ ExitExecutor \/ ReadFailRun \/ DeliverCancel
             \/ CallRaises \/ HandleCancel
    BY <2>2 DEF MergeTask, SaveMerge, ToolRefused, StoreGatedInvocation, ExecuteTool, RecordTool,
         RequestApproval, SetWaiting, SaveWaiting, ResumeInvocation, RecordResumed, SaveTool,
         ExitExecutor, ReadFailRun, DeliverCancel, CallRaises, HandleCancel, StoreOutcome,
         CommitStatusStep, CheckpointStep
  <2>3. QED BY <1>7, <2>1, <2>2 DEF Executor
<1>8. ASSUME NEW r \in Requests, Request(r)
      PROVE  \A w \in Workers : agentStatus'[w] = None <=> agentStatus[w] = None
  <2>1. CASE UNCHANGED agentStatus BY <2>1
  <2>2. CASE ApproveSetAgent(r)
    <3>1. /\ rtarget[r] \in Invocations
          /\ agentStatus' = [agentStatus EXCEPT ![owner[rtarget[r]]] = "waiting_on_tool"]
      BY <2>2 DEF ApproveSetAgent, KnownInv, TypeOK
    <3>2. owner[rtarget[r]] \in Agents \/ owner[rtarget[r]] = None BY <3>1 DEF TypeOK
    <3>3. CASE owner[rtarget[r]] \in Agents
      <4>1. owner[rtarget[r]] \in Workers => agentStatus[owner[rtarget[r]]] # None
        BY <3>1 DEF KnownInv
      <4>2. QED BY <3>1, <3>3, <4>1, StatusKnown DEF AgentStatus
    <3>4. CASE owner[rtarget[r]] = None
      <4>1. None \notin Agents BY NoneAssumption
      <4>2. QED BY <3>1, <3>4, <4>1 DEF TypeOK
    <3>5. QED BY <3>2, <3>3, <3>4
  <2>3. CASE RejectFailsRun(r)
    <3>1. agentStatus' = [agentStatus EXCEPT ![Supervisor] = "failed"]
      BY <2>3 DEF RejectFailsRun, MarkRunFailed
    <3>2. QED BY <1>1, <3>1, StatusKnown DEF AgentStatus
  <2>4. QED
    BY <1>8, <2>1, <2>2, <2>3 DEF Request, RequestProgress, ReadApproval, ResumeArrives,
         CancelArrives, CommitApproved, RequestReadsRun, RequestSetsRun, ResumeRun, AwaitTask,
         CommitRejected, RejectReadsRun, CancelTask, RequestRaises
<1>9. CASE Process
  <2>1. UNCHANGED agentStatus \/ agentStatus' = [agentStatus EXCEPT ![Supervisor] = "failed"]
    BY <1>9 DEF Process, Crash, Shutdown, Stopped, Startup, RecoverRun, MarkRunFailed
  <2>2. QED BY <1>1, <2>1, StatusKnown DEF AgentStatus
<1>10. CASE Creation
  <2>1. UNCHANGED agentStatus \/ PersistRun
    BY <1>10 DEF Creation, CreationProgress, AppendCreated, DispatchRun, LinkFails, FailLaunch,
         EmitLaunchFailed, CreationRaises
  <2>2. QED BY <1>3, <1>5, <2>1
<1>11. QED BY <1>3, <1>4, <1>5, <1>6, <1>7, <1>8, <1>9, <1>10 DEF Next

\* Only four steps touch a task or what the supervisor has dispatched.
DispatchKept ==
  UNCHANGED task /\ \A w \in Workers : Dispatched(w)' <=> Dispatched(w)

LEMMA DispatchSteps ==
  ASSUME TypeOK, ProcInv, TurnInv, [Next]_vars
  PROVE  DispatchKept \/ AddTask \/ MergeTask \/ SaveDispatch \/ SaveMerge
<1>1. CASE UNCHANGED <<task, ckpt>> BY <1>1 DEF DispatchKept, Dispatched
<1>2. ASSUME NEW step \in StepNames \ {"after_dispatch"}, NEW obs, NEW ref, NEW result,
             Plain(agent) \/ Waits(agent, cur), UNCHANGED task,
             ckpt' = [ckpt EXCEPT ![agent] = Checkpoint(step, obs, ref, result)]
      PROVE  DispatchKept
  <2>1. agent \in Agents BY DEF TypeOK
  <2>2. ckpt'[agent].step # "after_dispatch" BY <1>2, <2>1 DEF TypeOK
  <2>3. \A b \in Agents : b # agent => ckpt'[b] = ckpt[b] BY <1>2, <2>1 DEF TypeOK
  <2>4. ckpt[agent].step # "after_dispatch" BY <1>2 DEF Plain, Waits
  <2>5. CASE agent = Supervisor BY <1>2, <2>2, <2>4, <2>5 DEF DispatchKept, Dispatched
  <2>6. CASE agent # Supervisor BY <1>2, <2>3, <2>6 DEF DispatchKept, Dispatched
  <2>7. QED BY <2>5, <2>6
<1>3. CASE SaveBeforeModel \/ SaveCompleted \/ SaveWaiting \/ SaveTool
  <2>1. Plain(agent) \/ Waits(agent, cur)
    BY <1>3 DEF SaveBeforeModel, SaveCompleted, SaveWaiting, SaveTool, CheckpointStep, TurnInv,
         Turn, Completing
  <2>2. UNCHANGED task
    BY <1>3 DEF SaveBeforeModel, SaveCompleted, SaveWaiting, SaveTool, CheckpointStep
  <2>3. CASE SaveBeforeModel
    <3>1. ckpt' = [ckpt EXCEPT ![agent] = Checkpoint("before_model", Observations(agent), None, None)]
      BY <2>3 DEF SaveBeforeModel, CheckpointStep
    <3>2. "before_model" \in StepNames \ {"after_dispatch"} BY DEF StepNames
    <3>3. QED BY <1>2, <2>1, <2>2, <3>1, <3>2
  <2>4. CASE SaveCompleted
    <3>1. ckpt' = [ckpt EXCEPT ![agent] = Checkpoint("completed", Observations(agent), None, out)]
      BY <2>4 DEF SaveCompleted, CheckpointStep
    <3>2. "completed" \in StepNames \ {"after_dispatch"} BY DEF StepNames
    <3>3. QED BY <1>2, <2>1, <2>2, <3>1, <3>2
  <2>5. CASE SaveWaiting
    <3>1. ckpt' = [ckpt EXCEPT ![agent] =
                     Checkpoint("waiting_for_approval", Observations(agent), cur, None)]
      BY <2>5 DEF SaveWaiting, CheckpointStep
    <3>2. "waiting_for_approval" \in StepNames \ {"after_dispatch"} BY DEF StepNames
    <3>3. QED BY <1>2, <2>1, <2>2, <3>1, <3>2
  <2>6. CASE SaveTool
    <3>1. ckpt' = [ckpt EXCEPT ![agent] =
                     Checkpoint("after_tool_completed", Append(Observations(agent), cur), cur, None)]
      BY <2>6 DEF SaveTool, CheckpointStep
    <3>2. "after_tool_completed" \in StepNames \ {"after_dispatch"} BY DEF StepNames
    <3>3. QED BY <1>2, <2>1, <2>2, <3>1, <3>2
  <2>7. QED BY <1>3, <2>3, <2>4, <2>5, <2>6
<1>4. ASSUME Executor
      PROVE  \/ UNCHANGED <<task, ckpt>>
             \/ SaveBeforeModel \/ SaveCompleted \/ SaveWaiting \/ SaveTool
             \/ AddTask \/ MergeTask \/ SaveDispatch \/ SaveMerge
  <2>1. CASE ExecuteRun \/ ReadRunStatus \/ SetRunning \/ ResumeDispatch \/ ResumeApprovedTool
             \/ EnterTurn \/ StartReasoning \/ ModelFails \/ Decide \/ FinishAgent \/ EnsureActive
             \/ SetCompleted \/ EmitCompleted \/ WaitOnWorkers \/ (\E w \in Workers : AddAgent(w))
    BY <2>1 DEF ExecuteRun, ReadRunStatus, SetRunning, ResumeDispatch, ResumeApprovedTool,
         EnterTurn, StartReasoning, ModelFails, Decide, FinishAgent, EnsureActive, SetCompleted,
         EmitCompleted, WaitOnWorkers, AddAgent, RequireActiveStep, ReadStatusStep,
         CommitStatusStep, AgentStep
  <2>2. CASE MergeAgent \/ WaitOnTool \/ ToolRefused
             \/ (\E i \in Invocations : StoreGatedInvocation(i) \/ ExecuteTool(i))
             \/ RecordTool \/ RequestApproval \/ PauseAgent \/ SetWaiting \/ ResumeWaitOnTool
             \/ ResumeInvocation \/ RecordResumed \/ ToolReady \/ ExitExecutor \/ ReadFailRun
             \/ CommitFailRun \/ DeliverCancel \/ CallRaises \/ HandleCancel
    BY <2>2 DEF MergeAgent, WaitOnTool, ToolRefused, StoreGatedInvocation, ExecuteTool, RecordTool,
         RequestApproval, PauseAgent, SetWaiting, ResumeWaitOnTool, ResumeInvocation,
         RecordResumed, ToolReady, ExitExecutor, ReadFailRun, CommitFailRun, DeliverCancel,
         CallRaises, HandleCancel, StoreOutcome, CommitStatusStep, AgentStep
  <2>3. QED BY <1>4, <2>1, <2>2 DEF Executor
<1>5. CASE ~Executor BY <1>1, <1>5, OutsideSteps
<1>6. QED BY <1>1, <1>3, <1>4, <1>5

LEMMA KnownStep ==
  ASSUME TypeOK, ProcInv, TurnInv, KnownInv, [Next]_vars,
         pc \in Adding => agentStatus[child] # None
  PROVE  KnownInv'
<1>1. \A w \in Workers : agentStatus[w] # None => agentStatus'[w] # None
  BY KnownAgents, NoneAssumption DEF AddAgent
<1>2. ASSUME NEW w \in Workers, agentStatus'[w] = None
      PROVE  task'[w] = None /\ ~Dispatched(w)'
  <2>1. agentStatus[w] = None /\ task[w] = None /\ ~Dispatched(w) BY <1>1, <1>2 DEF KnownInv
  <2>2. CASE DispatchKept BY <2>1, <2>2 DEF DispatchKept
  <2>3. CASE AddTask \/ MergeTask
    <3>1. /\ UNCHANGED ckpt /\ child \in Workers
          /\ \A v \in Workers : v # child => task'[v] = task[v]
      BY <2>3 DEF AddTask, MergeTask, TypeOK, HoldsChild
    <3>2. child # w
      BY <2>1, <2>3 DEF AddTask, MergeTask, Adding, TurnInv, Merging
    <3>3. QED BY <2>1, <3>1, <3>2 DEF Dispatched
  <2>4. CASE SaveDispatch
    <3>1. child # w /\ UNCHANGED task BY <2>1, <2>4 DEF SaveDispatch, CheckpointStep, Adding
    <3>2. ckpt'[Supervisor].ref = child BY <2>4 DEF SaveDispatch, CheckpointStep, TypeOK
    <3>3. QED BY <2>1, <3>1, <3>2 DEF Dispatched
  <2>5. CASE SaveMerge
    <3>1. UNCHANGED task BY <2>5 DEF SaveMerge, CheckpointStep
    <3>2. ckpt'[Supervisor].step = "after_worker_merge" BY <2>5 DEF SaveMerge, CheckpointStep, TypeOK
    <3>3. QED BY <2>1, <3>1, <3>2 DEF Dispatched
  <2>6. QED BY <2>2, <2>3, <2>4, <2>5, DispatchSteps
<1>3. ASSUME NEW i \in Invocations, owner'[i] \in Workers
      PROVE  agentStatus'[owner'[i]] # None
  <2>1. CASE owner'[i] = owner[i] BY <1>1, <1>3, <2>1 DEF KnownInv
  <2>2. CASE owner'[i] # owner[i]
    <3>1. Executor BY <2>2, OutsideSteps
    <3>2. owner'[i] = agent /\ UNCHANGED agentStatus
      <4>1. RecordTool \/ \E j \in Invocations : StoreGatedInvocation(j)
        BY <2>2, <3>1, OtherExecutorSteps
        DEF ToolStep, ResumeApprovedTool, ResumeWaitOnTool, ResumeInvocation, RecordResumed,
            ExecuteTool, RequestApproval, StoreOutcome, AgentStep
      <4>2. QED BY <2>2, <4>1 DEF RecordTool, StoreGatedInvocation, StoreOutcome, TypeOK
    <3>3. QED BY <1>3, <3>2, InHandKnown
  <2>3. QED BY <2>1, <2>2
<1>4. ASSUME NEW r \in Requests, rpc'[r] \in {"approve", "readRun", "setRunning", "setAgent"}
      PROVE  rtarget'[r] # None
  <2>1. CASE UNCHANGED <<rpc, rtarget>> BY <1>4, <2>1 DEF KnownInv
  <2>2. CASE Executor
    BY <2>1, <2>2, ExecutorIsLive, OtherExecutorSteps
    DEF ToolStep, StoreGatedInvocation, ExecuteTool, RecordTool, RequestApproval,
        ResumeApprovedTool, ResumeWaitOnTool, ResumeInvocation, RecordResumed, StoreOutcome,
        AgentStep
  <2>3. ASSUME NEW q \in Requests, Request(q) PROVE rtarget'[r] # None
    <3>1. CASE \E i \in Invocations : ReadApproval(q, i)
      BY <1>4, <3>1, NoneAssumption DEF ReadApproval, Arrives, KnownInv, TypeOK
    <3>2. CASE ResumeArrives(q) \/ CancelArrives(q)
      BY <1>4, <3>2 DEF ResumeArrives, CancelArrives, Arrives, KnownInv, TypeOK
    <3>3. CASE CommitApproved(q) \/ RequestReadsRun(q) \/ RequestSetsRun(q) \/ ApproveSetAgent(q)
      BY <1>4, <3>3 DEF CommitApproved, RequestReadsRun, RequestSetsRun, ApproveSetAgent,
           KnownInv, TypeOK
    <3>4. CASE ResumeRun(q) \/ AwaitTask(q) \/ CommitRejected(q) \/ RejectReadsRun(q)
               \/ RejectFailsRun(q) \/ CancelTask(q) \/ RequestRaises(q)
      BY <1>4, <3>4 DEF ResumeRun, AwaitTask, CommitRejected, RejectReadsRun, RejectFailsRun,
           CancelTask, RequestRaises, KnownInv, TypeOK
    <3>5. QED BY <2>3, <3>1, <3>2, <3>3, <3>4 DEF Request, RequestProgress
  <2>4. CASE Process
    <3>1. CASE Crash BY <1>4, <3>1 DEF Crash, InFlight
    <3>2. CASE ~Crash BY <2>1, <2>4, <3>2 DEF Process, Shutdown, Stopped, Startup, RecoverRun
    <3>3. QED BY <3>1, <3>2
  <2>5. CASE Creation
    BY <2>1, <2>5 DEF Creation, CreationProgress, PersistRun, AppendCreated, DispatchRun, LinkFails,
         FailLaunch, EmitLaunchFailed, CreationRaises
  <2>6. QED BY <2>1, <2>2, <2>3, <2>4, <2>5 DEF Next
<1>5. QED BY <1>2, <1>3, <1>4 DEF KnownInv

-----------------------------------------------------------------------------
(* Abandoned workers.                                                      *)

\* Workers that have a row but no result, and that no checkpoint names.  There
\* are no more of them than interruptions, and the one being added.
Lost == {w \in Workers :
           agentStatus[w] # None /\ task[w] \in {"created", None} /\ ~Dispatched(w)}

InHand == IF pc \in Adding THEN 1 ELSE 0

LostInv ==
  /\ KnownInv
  /\ pc \in Adding => child \in Lost
  /\ IsFiniteSet(Lost)
  /\ Cardinality(Lost) <= interrupts + InHand

\* The steps that add a worker and record its result.
Delegation == (\E w \in Workers : AddAgent(w)) \/ AddTask \/ SaveDispatch

\* Any other step keeps the worker being added in hand, or drops it in an
\* interruption.
LEMMA OutsideDelegation ==
  ASSUME TypeOK, ProcInv, [Next]_vars, ~Delegation
  PROVE  \/ UNCHANGED <<pc, child>> /\ interrupts' >= interrupts
         \/ pc' \notin Adding /\ interrupts' >= interrupts + InHand
<1> USE DEF Adding, InHand
<1>1. interrupts \in Nat BY DEF TypeOK
<1>2. CASE Executor /\ ~DeliverCancel /\ ~CallRaises
  <2>1. interrupts' = interrupts /\ pc \notin Adding /\ pc' \notin Adding
    <3>1. CASE ExecuteRun \/ ReadRunStatus \/ SetRunning \/ ResumeDispatch \/ ResumeApprovedTool
               \/ EnterTurn \/ StartReasoning \/ ModelFails \/ Decide \/ FinishAgent
               \/ EnsureActive \/ SetCompleted \/ EmitCompleted \/ WaitOnWorkers
               \/ SaveBeforeModel \/ SaveCompleted
      BY <3>1 DEF ExecuteRun, ReadRunStatus, SetRunning, ResumeDispatch, ResumeApprovedTool,
           EnterTurn, StartReasoning, ModelFails, Decide, FinishAgent, EnsureActive, SetCompleted,
           EmitCompleted, WaitOnWorkers, SaveBeforeModel, SaveCompleted, RequireActiveStep,
           AfterRequireActive, ReadStatusStep, CommitStatusStep, CheckpointStep, AgentStep
    <3>2. CASE MergeTask \/ MergeAgent \/ SaveMerge \/ WaitOnTool \/ ToolRefused
               \/ (\E i \in Invocations : StoreGatedInvocation(i) \/ ExecuteTool(i))
               \/ RecordTool \/ RequestApproval \/ PauseAgent \/ SetWaiting \/ SaveWaiting
               \/ ResumeWaitOnTool \/ ResumeInvocation \/ RecordResumed \/ ToolReady \/ SaveTool
      BY <3>2 DEF MergeTask, MergeAgent, SaveMerge, WaitOnTool, ToolRefused, StoreGatedInvocation,
           ExecuteTool, RecordTool, RequestApproval, PauseAgent, SetWaiting, SaveWaiting,
           ResumeWaitOnTool, ResumeInvocation, RecordResumed, ToolReady, SaveTool, StoreOutcome,
           CommitStatusStep, CheckpointStep, AgentStep
    <3>3. CASE ExitExecutor \/ ReadFailRun \/ CommitFailRun \/ HandleCancel
      BY <3>3 DEF ExitExecutor, ReadFailRun, CommitFailRun, HandleCancel, TaskDone
    <3>4. QED BY <1>2, <3>1, <3>2, <3>3 DEF Executor, Delegation
  <2>2. QED BY <1>1, <2>1
<1>3. CASE DeliverCancel \/ CallRaises
  BY <1>1, <1>3 DEF DeliverCancel, CallRaises, DropTask, TaskDone
<1>4. CASE ~Executor BY <1>1, <1>4, OutsideSteps
<1>5. QED BY <1>2, <1>3, <1>4

LEMMA LostStep ==
  ASSUME TypeOK, ProcInv, TurnInv, HandInv, LostInv, [Next]_vars
  PROVE  LostInv'
<1>1. KnownInv'
  <2>1. pc \in Adding => agentStatus[child] # None BY DEF LostInv, Lost
  <2>2. QED BY <2>1, KnownStep DEF LostInv
<1>2. interrupts \in Nat /\ IsFiniteSet(Lost) /\ Cardinality(Lost) \in Nat
  BY FS_CardinalityType DEF LostInv, TypeOK
<1>3. \A w \in Workers : w \in Lost <=>
        agentStatus[w] # None /\ task[w] \in {"created", None} /\ ~Dispatched(w)
  BY DEF Lost
<1>4. \A w \in Workers : w \in Lost' <=>
        agentStatus'[w] # None /\ task'[w] \in {"created", None} /\ ~Dispatched(w)'
  BY DEF Lost
<1>5. Lost \subseteq Workers /\ Lost' \subseteq Workers BY DEF Lost
<1>6. \A w \in Workers : AddAgent(w) \/ (agentStatus'[w] = None <=> agentStatus[w] = None)
  BY KnownAgents DEF LostInv
<1>7. CASE Delegation
  <2>1. CASE \E w \in Workers : AddAgent(w)
    <3>1. PICK w \in Workers : AddAgent(w) BY <2>1
    <3>2. /\ agentStatus[w] = None /\ task[w] = None /\ ~Dispatched(w)
          /\ agentStatus' = [agentStatus EXCEPT ![w] = "ready"] /\ UNCHANGED <<task, ckpt>>
          /\ pc = "addAgent" /\ pc' = "addTask" /\ child' = w /\ interrupts' = interrupts
      BY <3>1 DEF AddAgent, LostInv, KnownInv
    <3>3. agentStatus'[w] = "ready" /\ \A v \in Workers : v # w => agentStatus'[v] = agentStatus[v]
      BY <3>2 DEF TypeOK
    <3>4. Lost' = Lost \cup {w}
      <4>1. ~Dispatched(w)' /\ \A v \in Workers : Dispatched(v)' <=> Dispatched(v)
        BY <3>2 DEF Dispatched
      <4>2. "ready" # None BY NoneAssumption DEF AgentStatus
      <4>3. w \in Lost' BY <1>4, <3>2, <3>3, <4>1, <4>2
      <4>4. \A v \in Workers : v # w => (v \in Lost' <=> v \in Lost)
        BY <1>3, <1>4, <3>2, <3>3, <4>1
      <4>5. QED BY <1>5, <4>3, <4>4
    <3>5. IsFiniteSet(Lost') /\ Cardinality(Lost') <= Cardinality(Lost) + 1
      <4>1. /\ IsFiniteSet(Lost \cup {w})
            /\ Cardinality(Lost \cup {w}) \in {Cardinality(Lost), Cardinality(Lost) + 1}
        BY <1>2, FS_AddElement, Zenon
      <4>2. QED BY <1>2, <3>4, <4>1
    <3>6. Cardinality(Lost) <= interrupts BY <1>2, <3>2 DEF LostInv, InHand, Adding
    <3>7. Cardinality(Lost') \in Nat BY <3>5, FS_CardinalityType
    <3>8. Cardinality(Lost') <= interrupts' + InHand'
      BY <1>2, <3>2, <3>5, <3>6, <3>7 DEF InHand, Adding
    <3>9. child' \in Lost' BY <3>2, <3>4
    <3>10. QED BY <1>1, <3>5, <3>8, <3>9 DEF LostInv
  <2>2. CASE AddTask
    <3>1. /\ child \in Lost /\ child \in Workers /\ pc = "addTask" /\ pc' = "saveDispatch"
          /\ child' = child /\ interrupts' = interrupts
          /\ UNCHANGED <<agentStatus, ckpt>> /\ task' = [task EXCEPT ![child] = "created"]
      BY <2>2 DEF AddTask, LostInv, Adding, TypeOK, HoldsChild
    <3>2. /\ task'[child] = "created" /\ \A w \in Workers : w # child => task'[w] = task[w]
          /\ \A w \in Workers : Dispatched(w)' <=> Dispatched(w)
      BY <3>1 DEF TypeOK, Dispatched
    <3>3. Lost' = Lost
      <4>1. \A w \in Workers : w \in Lost' <=> w \in Lost BY <1>3, <1>4, <3>1, <3>2
      <4>2. QED BY <1>5, <4>1
    <3>4. InHand' = InHand BY <3>1 DEF InHand, Adding
    <3>5. QED BY <1>1, <1>2, <3>1, <3>3, <3>4 DEF LostInv
  <2>3. CASE SaveDispatch
    <3>1. /\ child \in Lost /\ child \in Workers /\ pc = "saveDispatch" /\ pc' = "enter"
          /\ interrupts' = interrupts /\ UNCHANGED <<agentStatus, task>> /\ Plain(Supervisor)
          /\ ckpt' = [ckpt EXCEPT ![Supervisor] =
                        Checkpoint("after_dispatch", Observations(Supervisor), child, None)]
      BY <2>3 DEF SaveDispatch, CheckpointStep, LostInv, Adding, TypeOK, HoldsChild, TurnInv,
           Turn, Delegating
    <3>2. ckpt'[Supervisor].step = "after_dispatch" /\ ckpt'[Supervisor].ref = child
      BY <3>1 DEF TypeOK
    <3>3. \A w \in Workers : Dispatched(w)' <=> w = child BY <3>2 DEF Dispatched
    <3>4. \A w \in Workers : ~Dispatched(w) BY <3>1 DEF Plain, Dispatched
    <3>5. Lost' = Lost \ {child}
      <4>1. \A w \in Workers : w \in Lost' <=> w \in Lost /\ w # child
        BY <1>3, <1>4, <3>1, <3>3, <3>4
      <4>2. QED BY <1>5, <4>1
    <3>6. IsFiniteSet(Lost') /\ Cardinality(Lost') = Cardinality(Lost) - 1
      BY <1>2, <3>1, <3>5, FS_RemoveElement
    <3>7. Cardinality(Lost) <= interrupts + 1 BY <3>1 DEF LostInv, InHand, Adding
    <3>8. Cardinality(Lost') <= interrupts' + InHand' /\ pc' \notin Adding
      BY <1>2, <3>1, <3>6, <3>7 DEF InHand, Adding
    <3>9. QED BY <1>1, <3>6, <3>8 DEF LostInv
  <2>4. QED BY <1>7, <2>1, <2>2, <2>3 DEF Delegation
<1>8. CASE ~Delegation
  <2>1. \A w \in Workers : agentStatus'[w] = None <=> agentStatus[w] = None
    BY <1>6, <1>8 DEF Delegation
  \* A merged worker has its result before its checkpoint goes.
  <2>2. Lost' \subseteq Lost /\ (DispatchKept => Lost' = Lost)
    <3>1. CASE DispatchKept
      <4>1. \A w \in Workers : w \in Lost' <=> w \in Lost BY <1>3, <1>4, <2>1, <3>1 DEF DispatchKept
      <4>2. QED BY <1>5, <4>1
    <3>2. CASE MergeTask
      <4>1. /\ UNCHANGED ckpt /\ child \in Workers /\ Dispatched(child)
            /\ \A w \in Workers : w # child => task'[w] = task[w]
        BY <3>2 DEF MergeTask, TypeOK, HoldsChild, TurnInv, Merging
      <4>2. \A w \in Workers : Dispatched(w)' <=> Dispatched(w) BY <4>1 DEF Dispatched
      <4>3. \A w \in Workers : w \in Lost' => w \in Lost BY <1>3, <1>4, <2>1, <4>1, <4>2
      <4>4. DispatchKept => Lost' = Lost
        <5>1. ASSUME DispatchKept PROVE \A w \in Workers : w \in Lost' <=> w \in Lost
          BY <1>3, <1>4, <2>1, <5>1 DEF DispatchKept
        <5>2. QED BY <1>5, <5>1
      <4>5. QED BY <1>5, <4>3, <4>4
    <3>3. CASE SaveMerge
      <4>1. /\ UNCHANGED task /\ child \in Workers /\ Dispatched(child)
            /\ task[child] = out /\ out \in Results
        BY <3>3 DEF SaveMerge, CheckpointStep, TypeOK, HoldsChild, HoldsResult, TurnInv, Merging,
             HandInv
      <4>2. \A w \in Workers : Dispatched(w) => w = child BY <4>1 DEF Dispatched
      <4>3. task[child] \notin {"created", None}
        BY <4>1, OutputsAssumption, NoneAssumption DEF Results
      <4>4. \A w \in Workers : w \in Lost' => w \in Lost BY <1>3, <1>4, <2>1, <4>1, <4>2, <4>3
      <4>5. DispatchKept => Lost' = Lost
        <5>1. ASSUME DispatchKept PROVE \A w \in Workers : w \in Lost' <=> w \in Lost
          BY <1>3, <1>4, <2>1, <5>1 DEF DispatchKept
        <5>2. QED BY <1>5, <5>1
      <4>6. QED BY <1>5, <4>4, <4>5
    <3>4. QED BY <1>8, <3>1, <3>2, <3>3, DispatchSteps DEF Delegation
  <2>3. IsFiniteSet(Lost') /\ Cardinality(Lost') <= Cardinality(Lost) /\ Cardinality(Lost') \in Nat
    BY <1>2, <2>2, FS_Subset, FS_CardinalityType
  <2>4. Cardinality(Lost) <= interrupts + InHand BY DEF LostInv
  <2>5. CASE UNCHANGED <<pc, child>> /\ interrupts' >= interrupts
    <3>1. pc' \in Adding => child' \in Lost'
      <4>1. pc \in Adding => DispatchKept
        BY <1>8, DispatchSteps DEF Delegation, MergeTask, SaveMerge, CheckpointStep, Adding
      <4>2. QED BY <2>2, <2>5, <4>1 DEF LostInv
    <3>2. InHand' = InHand BY <2>5 DEF InHand
    <3>3. interrupts' \in Nat BY TypeStep DEF TypeOK
    <3>4. Cardinality(Lost') <= interrupts' + InHand'
      BY <1>2, <2>3, <2>4, <2>5, <3>2, <3>3 DEF InHand
    <3>5. QED BY <1>1, <2>3, <3>1, <3>4 DEF LostInv
  <2>6. CASE pc' \notin Adding /\ interrupts' >= interrupts + InHand
    <3>1. interrupts' \in Nat BY TypeStep DEF TypeOK
    <3>2. Cardinality(Lost') <= interrupts' + InHand'
      BY <1>2, <2>3, <2>4, <2>6, <3>1 DEF InHand
    <3>3. QED BY <1>1, <2>3, <2>6, <3>2 DEF LostInv
  <2>7. QED BY <1>8, <2>5, <2>6, OutsideDelegation
<1>9. QED BY <1>7, <1>8

LEMMA LostCorrect == Spec => []LostInv
<1>1. ASSUME Init PROVE LostInv
  <2>1. \A w \in Workers : agentStatus[w] = None /\ task[w] = None BY <1>1 DEF Init
  <2>2. ckpt[Supervisor].step = None BY <1>1 DEF Init, NoCheckpoint
  <2>3. None # "after_dispatch" BY NoneAssumption DEF StepNames
  <2>4. None \notin Workers BY NoneAssumption
  <2>5. KnownInv BY <1>1, <2>1, <2>2, <2>3, <2>4 DEF Init, KnownInv, Dispatched
  <2>6. Lost = {} BY <2>1 DEF Lost
  <2>7. pc \notin Adding /\ interrupts = 0 BY <1>1 DEF Init, Adding
  <2>8. IsFiniteSet(Lost) /\ Cardinality(Lost) = 0 BY <2>6, FS_EmptySet
  <2>9. QED BY <2>5, <2>7, <2>8 DEF LostInv, InHand
<1>2. QED
  BY <1>1, LostStep, TypeCorrect, ProcCorrect, TurnCorrect, ResultCorrect, PTL
  DEF Spec, ResultInv

\* A dispatched worker is abandoned only by an interruption between its row and
\* the checkpoint of its dispatch, one worker per interruption.
THEOREM AbandonmentIsBounded == Spec => []OrphansNeedInterrupt
<1>1. ASSUME TypeOK, LostInv PROVE OrphansNeedInterrupt
  <2>1. /\ interrupts \in Nat /\ IsFiniteSet(Lost) /\ Cardinality(Lost) \in Nat
        /\ Cardinality(Lost) <= interrupts + InHand
    BY <1>1, FS_CardinalityType DEF LostInv, TypeOK
  <2>2. Orphans \subseteq Lost /\ child \notin Orphans BY DEF Orphans, Lost, Dispatched
  <2>3. CASE pc \notin Adding
    <3>1. Cardinality(Orphans) <= Cardinality(Lost) /\ Cardinality(Orphans) \in Nat
      BY <2>1, <2>2, FS_Subset, FS_CardinalityType
    <3>2. QED BY <2>1, <2>3, <3>1 DEF OrphansNeedInterrupt, InHand
  <2>4. CASE pc \in Adding
    <3>1. child \in Lost BY <1>1, <2>4 DEF LostInv
    <3>2. IsFiniteSet(Lost \ {child}) /\ Cardinality(Lost \ {child}) = Cardinality(Lost) - 1
      BY <2>1, <3>1, FS_RemoveElement
    <3>3. Orphans \subseteq Lost \ {child} BY <2>2
    <3>4. Cardinality(Orphans) <= Cardinality(Lost) - 1 /\ Cardinality(Orphans) \in Nat
      BY <3>2, <3>3, FS_Subset, FS_CardinalityType
    <3>5. QED BY <2>1, <2>4, <3>4 DEF OrphansNeedInterrupt, InHand
  <2>5. QED BY <2>3, <2>4
<1>2. QED BY <1>1, LostCorrect, TypeCorrect, PTL
=============================================================================
