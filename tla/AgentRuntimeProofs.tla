------------------------- MODULE AgentRuntimeProofs -------------------------
(* Theorems about AgentRuntime, for every set of workers, invocations and  *)
(* requests and every number of restarts.                                  *)
EXTENDS AgentRuntime, TLAPS

\* What every step is made of: the tuples of variables, the step shapes and
\* the sets of values.
USE DEF vars, durable, runVars, agentVars, toolVars, frame, reqVars, procVars, history,
        At, Step, ExecutorLeaves, Moves, RequestStep, RequestLeaves, Creates, CreationLeaves,
        Agents, RunStatus, Terminal, Resumable, AgentStatus, Results, StepNames,
        Checkpoint, CheckpointType

-----------------------------------------------------------------------------
(* Type correctness.                                                       *)

LEMMA TypeInit == Init => TypeOK
<1> SUFFICES ASSUME Init PROVE TypeOK OBVIOUS
<1> USE DEF Init
<1>1. /\ ckpt \in [Agents -> CheckpointType]
      /\ \A a \in Agents : ckpt[a].step = None
  <2>1. NoCheckpoint \in CheckpointType /\ NoCheckpoint.step = None
    BY DEF NoCheckpoint
  <2>2. QED BY <2>1
<1>2. QED BY <1>1, NoneAssumption
      DEF TypeOK, ExecutorPC, RequestPC, HoldsInvocation, HoldsChild, HoldsResult

LEMMA TypeExecutor ==
  ASSUME TypeOK, Executor
  PROVE  TypeOK'
<1> USE NoneAssumption DEF TypeOK, ExecutorPC, HoldsInvocation, HoldsChild, HoldsResult
<1>1. CASE ExecuteRun BY <1>1 DEF ExecuteRun, RequireActiveStep, AfterRequireActive
<1>2. CASE ReadRunStatus
  <2>1. ASSUME NEW from \in {"readRunning", "readWaiting", "readCompleted"},
               NEW to \in {"setRunning", "setWaiting", "setCompleted"},
               from = "readRunning" \/ from = "readCompleted" => to # "setWaiting",
               ReadStatusStep(from, to)
        PROVE  TypeOK'
    BY <2>1 DEF ReadStatusStep
  <2>2. QED BY <1>2, <2>1 DEF ReadRunStatus
<1>3. CASE SetRunning BY <1>3 DEF SetRunning, CommitStatusStep, CommitRunStatus
<1>4. CASE ResumeDispatch
  BY <1>4 DEF ResumeDispatch, DispatchPending, WorkerFinished, ResultMissing, WorkerResult, HasText
<1>5. CASE ResumeApprovedTool BY <1>5 DEF ResumeApprovedTool, ToolPending
<1>6. CASE EnterTurn BY <1>6 DEF EnterTurn, RequireActiveStep, AfterRequireActive
<1>7. CASE StartReasoning \/ FinishAgent \/ WaitOnWorkers \/ MergeAgent
           \/ WaitOnTool \/ PauseAgent \/ ResumeWaitOnTool \/ ToolReady
  <2>1. CASE StartReasoning BY <2>1 DEF AgentStep, StartReasoning
  <2>2. CASE FinishAgent BY <2>2 DEF AgentStep, FinishAgent
  <2>3. CASE WaitOnWorkers BY <2>3 DEF AgentStep, WaitOnWorkers
  <2>4. CASE MergeAgent BY <2>4 DEF AgentStep, MergeAgent
  <2>5. CASE WaitOnTool BY <2>5 DEF AgentStep, WaitOnTool
  <2>6. CASE PauseAgent BY <2>6 DEF AgentStep, PauseAgent
  <2>7. CASE ResumeWaitOnTool BY <2>7 DEF AgentStep, ResumeWaitOnTool
  <2>8. CASE ToolReady BY <2>8 DEF AgentStep, ToolReady
  <2>9. QED BY <1>7, <2>1, <2>2, <2>3, <2>4, <2>5, <2>6, <2>7, <2>8
<1>8. CASE SaveBeforeModel BY <1>8 DEF SaveBeforeModel, CheckpointStep, Observations
<1>9. CASE ModelFails \/ Decide
  <2>1. CASE ModelFails BY <2>1 DEF ModelFails
  <2>2. CASE Decide /\ out' \in Outputs
    BY <2>2, OutputsAssumption DEF Decide, AfterRequireActive
  <2>3. CASE Decide /\ out' = out /\ pc' \notin HoldsResult
    BY <2>3 DEF Decide, AfterRequireActive
  <2>4. Decide => out' \in Outputs \/ (out' = out /\ pc' \notin HoldsResult)
    BY DEF Decide, AfterRequireActive
  <2>5. QED BY <1>9, <2>1, <2>2, <2>3, <2>4
<1>10. CASE SaveCompleted BY <1>10 DEF SaveCompleted, CheckpointStep, Observations
<1>11. CASE EnsureActive BY <1>11 DEF EnsureActive, RequireActiveStep, AfterRequireActive
<1>12. CASE SetCompleted BY <1>12 DEF SetCompleted, CommitStatusStep, CommitRunStatus
<1>13. CASE EmitCompleted BY <1>13 DEF EmitCompleted
<1>14. CASE \E w \in Workers : AddAgent(w) BY <1>14 DEF AddAgent
<1>15. CASE AddTask BY <1>15 DEF AddTask
<1>16. CASE SaveDispatch BY <1>16 DEF SaveDispatch, CheckpointStep, Observations
<1>17. CASE MergeTask BY <1>17 DEF MergeTask
<1>18. CASE SaveMerge BY <1>18 DEF SaveMerge, CheckpointStep, Observations, Merged
<1>19. CASE ToolRefused BY <1>19 DEF ToolRefused
<1>20. CASE \E i \in Invocations : StoreGatedInvocation(i) BY <1>20 DEF StoreGatedInvocation
<1>21. CASE \E i \in Invocations : ExecuteTool(i) BY <1>21 DEF ExecuteTool
<1>22. CASE RecordTool
  <2>1. /\ invStatus' \in [Invocations -> {"waiting_for_approval", "completed", "failed", None}]
        /\ owner' \in [Invocations -> Agents \cup {None}]
        /\ pc = "recordTool" /\ pc' \in {"toolReady", "fail"}
    <3>1. /\ \E s \in {"completed", "failed"} : invStatus' = [invStatus EXCEPT ![cur] = s]
          /\ owner' = [owner EXCEPT ![cur] = agent]
          /\ pc = "recordTool" /\ pc' \in {"toolReady", "fail"}
      BY <1>22 DEF RecordTool, StoreOutcome
    <3>2. QED BY <3>1
  <2>2. UNCHANGED <<runVars, agentVars, task, approval, frame, reqVars, procVars, history>>
    BY <1>22 DEF RecordTool, StoreOutcome
  <2>3. QED BY <2>1, <2>2
<1>23. CASE RequestApproval BY <1>23 DEF RequestApproval
<1>24. CASE SetWaiting BY <1>24 DEF SetWaiting, CommitStatusStep, CommitRunStatus
<1>25. CASE SaveWaiting BY <1>25 DEF SaveWaiting, CheckpointStep, Observations
<1>26. CASE ResumeInvocation BY <1>26 DEF ResumeInvocation
<1>27. CASE RecordResumed
  <2>1. /\ invStatus' \in [Invocations -> {"waiting_for_approval", "completed", "failed", None}]
        /\ pc = "recordResumed" /\ pc' \in {"toolReady", "fail"}
    <3>1. /\ \E s \in {"completed", "failed"} : invStatus' = [invStatus EXCEPT ![cur] = s]
          /\ pc = "recordResumed" /\ pc' \in {"toolReady", "fail"}
      BY <1>27 DEF RecordResumed, StoreOutcome
    <3>2. QED BY <3>1
  <2>2. /\ UNCHANGED <<runVars, agentVars, task, approval, frame, effects>>
        /\ UNCHANGED <<owner, reqVars, procVars, grants, interrupts>>
    BY <1>27, Zenon DEF RecordResumed, StoreOutcome
  <2>3. QED BY <2>1, <2>2
<1>28. CASE SaveTool BY <1>28 DEF SaveTool, CheckpointStep, Observations
<1>29. CASE ExitExecutor BY <1>29 DEF ExitExecutor, TaskDone, ClearFrame
<1>30. CASE ReadFailRun BY <1>30 DEF ReadFailRun, TaskDone, ClearFrame
<1>31. CASE CommitFailRun BY <1>31 DEF CommitFailRun, TaskDone, ClearFrame, MarkRunFailed
<1>32. CASE DeliverCancel
  <2>1. /\ UNCHANGED <<runStatus, events, agentVars, task, toolVars, reqVars>>
        /\ UNCHANGED <<phase, creator, restarts, errors, grants, effects>>
        /\ interrupts' \in Nat
        /\ faults' \in {faults, faults \cup {"dropped"}}
        /\ TaskDone \/ (pc' = "onCancel" /\ UNCHANGED frame)
    BY <1>32 DEF DeliverCancel, DropTask
  <2>2. cancelReq' \in BOOLEAN BY <1>32, Zenon DEF DeliverCancel
  <2>3. CASE TaskDone BY <2>1, <2>2, <2>3 DEF TaskDone, ClearFrame
  <2>4. CASE pc' = "onCancel" /\ UNCHANGED frame BY <2>1, <2>2, <2>4
  <2>5. QED BY <2>1, <2>3, <2>4
<1>33. CASE HandleCancel BY <1>33 DEF HandleCancel, TaskDone, ClearFrame
<1>34. CASE CallRaises
  <2>1. /\ UNCHANGED <<runStatus, events, agentVars, task, toolVars, reqVars>>
        /\ UNCHANGED <<phase, creator, cancelReq, restarts, grants, effects>>
        /\ interrupts' \in Nat /\ errors' \in Nat
        /\ faults' \in {faults, faults \cup {"dropped"}}
        /\ TaskDone \/ (pc' = "fail" /\ UNCHANGED frame)
    BY <1>34 DEF CallRaises, DropTask
  <2>2. CASE TaskDone BY <2>1, <2>2 DEF TaskDone, ClearFrame
  <2>3. CASE pc' = "fail" /\ UNCHANGED frame BY <2>1, <2>3
  <2>4. QED BY <2>1, <2>2, <2>3
<1>35. QED
  BY <1>1, <1>2, <1>3, <1>4, <1>5, <1>6, <1>7, <1>8, <1>9, <1>10, <1>11, <1>12, <1>13,
     <1>14, <1>15, <1>16, <1>17, <1>18, <1>19, <1>20, <1>21, <1>22, <1>23, <1>24, <1>25,
     <1>26, <1>27, <1>28, <1>29, <1>30, <1>31, <1>32, <1>33, <1>34 DEF Executor

LEMMA TypeRequest ==
  ASSUME TypeOK, NEW r \in Requests, Request(r)
  PROVE  TypeOK'
<1> USE NoneAssumption DEF TypeOK, RequestPC
<1>1. CASE \E i \in Invocations : ReadApproval(r, i)
  BY <1>1 DEF ReadApproval, Arrives, HoldsInvocation, HoldsChild
<1>2. CASE ResumeArrives(r) BY <1>2 DEF ResumeArrives, Arrives
<1>3. CASE CancelArrives(r) BY <1>3 DEF CancelArrives, Arrives
<1>4. CASE CommitApproved(r) BY <1>4 DEF CommitApproved
<1>5. CASE RequestReadsRun(r)
  <2>1. rpc' \in [Requests -> RequestPC] /\ rpc'[r] \in {"setRunning", "setCancelled"}
    <3>1. PICK to \in {"setRunning", "setCancelled"} : rpc' = [rpc EXCEPT ![r] = to]
      BY <1>5 DEF RequestReadsRun
    <3>2. rpc \in [Requests -> RequestPC] /\ to \in RequestPC OBVIOUS
    <3> HIDE DEF TypeOK, RequestPC
    <3> QED BY <3>1, <3>2
  <2>2. rseen' \in [Requests -> RunStatus \cup {None}]
    BY <1>5 DEF RequestReadsRun
  <2>3. \A q \in Requests : rpc'[q] \in {"approve", "reject"} => rtarget'[q] # None
    BY <1>5, <2>1 DEF RequestReadsRun
  <2>4. QED BY <1>5, <2>1, <2>2, <2>3 DEF RequestReadsRun
<1>6. CASE RequestSetsRun(r)
  <2>1. rpc' \in [Requests -> RequestPC] /\ rpc'[r] \in {"setAgent", "emitCancelled"}
    <3>1. PICK to \in {"setAgent", "emitCancelled"} : rpc' = [rpc EXCEPT ![r] = to]
      BY <1>6 DEF RequestSetsRun
    <3>2. rpc \in [Requests -> RequestPC] /\ to \in RequestPC OBVIOUS
    <3> HIDE DEF TypeOK, RequestPC
    <3> QED BY <3>1, <3>2
  <2>2. runStatus' \in RunStatus \cup {None} /\ rseen' \in [Requests -> RunStatus \cup {None}]
    <3>1. /\ runStatus' \in {runStatus, "running", "cancelled"}
          /\ rseen' = [rseen EXCEPT ![r] = None]
      <4>1. \E status \in {"running", "cancelled"} : CommitRunStatus(rseen[r], status)
        BY <1>6 DEF RequestSetsRun
      <4>2. runStatus' \in {runStatus, "running", "cancelled"}
        BY <4>1 DEF CommitRunStatus
      <4>3. rseen' = [rseen EXCEPT ![r] = None] BY <1>6 DEF RequestSetsRun
      <4>4. QED BY <4>2, <4>3
    <3>2. QED BY <3>1
  <2>3. \A q \in Requests : rpc'[q] \in {"approve", "reject"} => rtarget'[q] # None
    BY <1>6, <2>1 DEF RequestSetsRun
  <2>4. faults' \subseteq {"revived", "dropped", "missed"}
    <3>1. \E status \in {"running", "cancelled"} : CommitRunStatus(rseen[r], status)
      BY <1>6 DEF RequestSetsRun
    <3>2. faults' \subseteq faults \cup {"revived"} BY <3>1 DEF CommitRunStatus
    <3>3. QED BY <3>2
  <2>5. QED BY <1>6, <2>1, <2>2, <2>3, <2>4 DEF RequestSetsRun
<1>7. CASE ApproveSetAgent(r)
  <2>1. agentStatus' \in [Agents -> AgentStatus \cup {None}]
    BY <1>7 DEF ApproveSetAgent
  <2>2. QED BY <1>7, <2>1 DEF ApproveSetAgent
<1>8. CASE ResumeRun(r)
  <2>1. faults' \subseteq {"revived", "dropped", "missed"} /\ pc' \in {pc, "start"}
    BY <1>8 DEF ResumeRun, ScheduleUnlessLive
  <2>2. /\ rpc' \in [Requests -> RequestPC]
        /\ \A q \in Requests : rpc'[q] \in {rpc[q], "await"}
    BY <1>8 DEF ResumeRun
  <2>3. UNCHANGED <<runStatus, events, agentVars, task, toolVars, frame, phase, creator, restarts,
                    errors, cancelReq, rtarget, rseen, grants, effects, interrupts>>
    BY <1>8 DEF ResumeRun
  <2>4. QED BY <2>1, <2>2, <2>3 DEF ExecutorPC, HoldsInvocation, HoldsChild, HoldsResult
<1>9. CASE AwaitTask(r) BY <1>9 DEF AwaitTask
<1>10. CASE CommitRejected(r) BY <1>10 DEF CommitRejected
<1>11. CASE RejectReadsRun(r) BY <1>11 DEF RejectReadsRun
<1>12. CASE RejectFailsRun(r) BY <1>12 DEF RejectFailsRun, MarkRunFailed
<1>13. CASE CancelTask(r) BY <1>13 DEF CancelTask
<1>14. CASE RequestRaises(r)
  <2>1. /\ rpc' \in [Requests -> RequestPC] /\ errors' \in Nat
        /\ \A q \in Requests : rpc'[q] \in {rpc[q], "raised"}
        /\ faults' \subseteq {"revived", "dropped", "missed"}
    BY <1>14 DEF RequestRaises
  <2>2. UNCHANGED <<runStatus, events, agentVars, task, toolVars, pc, frame, phase, creator,
                    restarts, cancelReq, rtarget, rseen, grants, effects, interrupts>>
    BY <1>14 DEF RequestRaises
  <2>3. QED BY <2>1, <2>2
<1>15. QED
  BY <1>1, <1>2, <1>3, <1>4, <1>5, <1>6, <1>7, <1>8, <1>9, <1>10, <1>11, <1>12, <1>13, <1>14
  DEF Request, RequestProgress

LEMMA TypeProcess ==
  ASSUME TypeOK, Process
  PROVE  TypeOK'
<1> USE NoneAssumption DEF TypeOK, ExecutorPC, RequestPC, HoldsInvocation, HoldsChild, HoldsResult
<1>1. CASE Crash
  <2>1. interrupts' \in Nat /\ restarts' \in Nat BY <1>1 DEF Crash
  <2>2. /\ rpc' \in [Requests -> RequestPC]
        /\ \A r \in Requests : rpc'[r] \in {"idle", "done", "raised"}
    BY <1>1 DEF Crash, InFlight
  <2>3. /\ rtarget' \in [Requests -> Invocations \cup {None}]
        /\ rseen' \in [Requests -> RunStatus \cup {None}]
    BY <1>1 DEF Crash
  <2>4. /\ UNCHANGED <<durable, errors, grants, effects>>
        /\ phase' = "down" /\ creator' \in {"done", "raised"} /\ cancelReq' = FALSE /\ TaskDone
    BY <1>1 DEF Crash
  <2>5. QED BY <2>1, <2>2, <2>3, <2>4 DEF TaskDone, ClearFrame
<1>2. CASE Shutdown BY <1>2 DEF Shutdown
<1>3. CASE Stopped BY <1>3 DEF Stopped
<1>4. CASE Startup BY <1>4 DEF Startup
<1>5. CASE RecoverRun
  <2>1. /\ UNCHANGED <<frame, reqVars, creator, cancelReq, restarts, errors, history>>
        /\ UNCHANGED <<ckpt, task, toolVars>> /\ phase' = "up"
        /\ \/ pc' = "start" /\ faults' = {} /\ UNCHANGED <<runStatus, events, agentStatus>>
           \/ pc' = pc /\ MarkRunFailed
    BY <1>5 DEF RecoverRun
  <2>2. CASE pc' = "start" /\ faults' = {} /\ UNCHANGED <<runStatus, events, agentStatus>>
    BY <2>1, <2>2
  <2>3. CASE pc' = pc /\ MarkRunFailed BY <2>1, <2>3 DEF MarkRunFailed
  <2>4. QED BY <2>1, <2>2, <2>3
<1>6. QED BY <1>1, <1>2, <1>3, <1>4, <1>5 DEF Process

LEMMA TypeCreation ==
  ASSUME TypeOK, Creation
  PROVE  TypeOK'
<1> USE DEF TypeOK, ExecutorPC, HoldsInvocation, HoldsChild, HoldsResult
<1>1. CASE PersistRun BY <1>1 DEF PersistRun
<1>2. CASE AppendCreated BY <1>2 DEF AppendCreated
<1>3. CASE DispatchRun
  <2>1. /\ creator' = "done" /\ pc' = "start"
        /\ UNCHANGED <<durable, frame, reqVars, phase, cancelReq, restarts, errors, history>>
    BY <1>3 DEF DispatchRun
  <2>2. QED BY <2>1
<1>4. CASE LinkFails BY <1>4 DEF LinkFails
<1>5. CASE FailLaunch BY <1>5 DEF FailLaunch
<1>6. CASE EmitLaunchFailed BY <1>6 DEF EmitLaunchFailed
<1>7. CASE CreationRaises BY <1>7 DEF CreationRaises
<1>8. QED BY <1>1, <1>2, <1>3, <1>4, <1>5, <1>6, <1>7 DEF Creation, CreationProgress

LEMMA TypeStep ==
  ASSUME TypeOK, [Next]_vars
  PROVE  TypeOK'
<1>1. CASE UNCHANGED vars BY <1>1 DEF TypeOK
<1>2. QED BY <1>1, TypeCreation, TypeExecutor, TypeRequest, TypeProcess DEF Next

\* Every row and every local of the runtime has a value of its type, and no
\* step of the orchestrator uses an id or a result that was never assigned.
THEOREM TypeCorrect == Spec => []TypeOK
BY TypeInit, TypeStep, PTL DEF Spec

-----------------------------------------------------------------------------
(* The process.                                                            *)

\* A run has no executor while the process is down or the run is not handed out
\* yet, a cancellation is pending only for a live one, and requests are in
\* flight only while the process serves them.
ProcInv ==
  /\ phase = "down" => pc = "idle"
  /\ creator \notin {"done", "raised"} => pc = "idle" /\ phase = "up"
  /\ phase # "up" => restarts > 0
  /\ cancelReq => pc # "idle"
  /\ \A r \in Requests : InFlight(r) => phase = "up" /\ creator = "done"

\* No executor step starts from nothing or schedules a cancellation.
LEMMA ExecutorIsLive ==
  ASSUME TypeOK, ProcInv, Executor
  PROVE  pc # "idle" /\ ~cancelReq' /\ UNCHANGED <<phase, creator, restarts, rpc>>
<1>1. CASE ExecuteRun \/ ReadRunStatus \/ SetRunning \/ ResumeDispatch \/ EnterTurn
           \/ StartReasoning \/ SaveBeforeModel \/ ModelFails \/ Decide \/ FinishAgent
           \/ SaveCompleted \/ EnsureActive \/ SetCompleted \/ EmitCompleted
           \/ ResumeApprovedTool
  BY <1>1 DEF ExecuteRun, ReadRunStatus, SetRunning, ResumeDispatch, EnterTurn,
       StartReasoning, SaveBeforeModel, ModelFails, Decide, FinishAgent, SaveCompleted,
       EnsureActive, SetCompleted, EmitCompleted, ResumeApprovedTool, RequireActiveStep,
       ReadStatusStep, CommitStatusStep, AgentStep, CheckpointStep
<1>2. CASE WaitOnWorkers \/ (\E w \in Workers : AddAgent(w)) \/ AddTask \/ SaveDispatch
           \/ MergeTask \/ MergeAgent \/ SaveMerge \/ WaitOnTool \/ ToolRefused
           \/ (\E i \in Invocations : StoreGatedInvocation(i) \/ ExecuteTool(i))
  BY <1>2 DEF WaitOnWorkers, AddAgent, AddTask, SaveDispatch, MergeTask, MergeAgent,
       SaveMerge, WaitOnTool, ToolRefused, StoreGatedInvocation, ExecuteTool,
       AgentStep, CheckpointStep
<1>3. CASE RecordTool \/ RequestApproval \/ PauseAgent \/ SetWaiting \/ SaveWaiting
           \/ ResumeWaitOnTool \/ ResumeInvocation \/ RecordResumed \/ ToolReady \/ SaveTool
  BY <1>3 DEF RecordTool, RequestApproval, PauseAgent, SetWaiting, SaveWaiting,
       ResumeWaitOnTool, ResumeInvocation, RecordResumed, ToolReady, SaveTool,
       StoreOutcome, CommitStatusStep, AgentStep, CheckpointStep
<1>4. CASE ExitExecutor \/ ReadFailRun \/ CommitFailRun \/ HandleCancel
  BY <1>4 DEF ExitExecutor, ReadFailRun, CommitFailRun, HandleCancel
<1>5. CASE DeliverCancel \/ CallRaises BY <1>5 DEF DeliverCancel, CallRaises, ProcInv
<1>6. QED BY <1>1, <1>2, <1>3, <1>4, <1>5 DEF Executor

LEMMA ProcStep ==
  ASSUME TypeOK, ProcInv, [Next]_vars
  PROVE  ProcInv'
<1> USE DEF ProcInv, InFlight
<1>1. CASE PersistRun \/ AppendCreated \/ LinkFails \/ FailLaunch \/ EmitLaunchFailed \/ CreationRaises
  BY <1>1 DEF PersistRun, AppendCreated, LinkFails, FailLaunch, EmitLaunchFailed, CreationRaises
<1>2. CASE DispatchRun BY <1>2 DEF DispatchRun
<1>3. CASE Executor BY <1>3, ExecutorIsLive
<1>4. ASSUME NEW r \in Requests, Request(r)
      PROVE  ProcInv'
  <2> USE DEF TypeOK
  <2>1. CASE (\E i \in Invocations : ReadApproval(r, i)) \/ ResumeArrives(r) \/ CancelArrives(r)
    BY <2>1 DEF ReadApproval, ResumeArrives, CancelArrives, Arrives
  <2>2. CASE CommitApproved(r) \/ RequestReadsRun(r) \/ RequestSetsRun(r) \/ ApproveSetAgent(r)
             \/ AwaitTask(r) \/ CommitRejected(r) \/ RejectReadsRun(r) \/ RejectFailsRun(r)
    <3>1. /\ InFlight(r) /\ UNCHANGED <<phase, creator, restarts, pc, cancelReq>>
          /\ \A q \in Requests \ {r} : rpc'[q] = rpc[q]
      BY <2>2 DEF CommitApproved, RequestReadsRun, RequestSetsRun, ApproveSetAgent, AwaitTask,
           CommitRejected, RejectReadsRun, RejectFailsRun
    <3>2. QED BY <3>1
  <2>3. CASE ResumeRun(r) BY <2>3 DEF ResumeRun, ScheduleUnlessLive
  <2>4. CASE CancelTask(r) BY <2>4 DEF CancelTask
  <2>5. CASE RequestRaises(r) BY <2>5 DEF RequestRaises, Calling
  <2>6. QED BY <1>4, <2>1, <2>2, <2>3, <2>4, <2>5 DEF Request, RequestProgress
<1>5. CASE Process
  <2>1. CASE Crash BY <2>1 DEF Crash, TaskDone, TypeOK
  <2>2. CASE Shutdown BY <2>2 DEF Shutdown, TypeOK
  <2>3. CASE Stopped BY <2>3 DEF Stopped
  <2>4. CASE Startup BY <2>4 DEF Startup
  <2>5. CASE RecoverRun BY <2>5 DEF RecoverRun
  <2>6. QED BY <1>5, <2>1, <2>2, <2>3, <2>4, <2>5 DEF Process
<1>6. CASE UNCHANGED vars BY <1>6
<1>7. QED BY <1>1, <1>2, <1>3, <1>4, <1>5, <1>6 DEF Next, Creation, CreationProgress

\* ... and none of this is ever violated.
THEOREM ProcCorrect == Spec => []ProcInv
<1>1. Init => ProcInv BY DEF Init, ProcInv, InFlight
<1>2. QED BY <1>1, ProcStep, TypeCorrect, PTL DEF Spec

-----------------------------------------------------------------------------
(* Tool calls.                                                             *)

\* What makes the promises of a tool call inductive: where the rows of a call
\* and the executor that has it in hand agree.  An invocation that waits has
\* been executed only by executors that were interrupted before they stored the
\* outcome, except for the one that is about to store it.
CallInv ==
  /\ GatedToolNeedsApproval
  /\ RepeatedEffectNeedsInterrupt
  /\ \A i \in Invocations :
       /\ invStatus[i] = None => approval[i] = None
       /\ approval[i] = "approved" => i \in grants
       /\ i \in grants => approval[i] # None
       /\ invStatus[i] = "waiting_for_approval" /\ ~(pc = "recordResumed" /\ cur = i)
            => effects[i] <= interrupts
  /\ pc = "requestApproval" =>
       approval[cur] = None /\ invStatus[cur] = "waiting_for_approval" /\ effects[cur] = 0
  /\ pc = "recordTool" => invStatus[cur] = None /\ effects[cur] > 0
  /\ pc \in {"resumeTool", "resumeInvocation", "recordResumed"} => cur \in grants
  /\ pc = "recordResumed" => invStatus[cur] = "waiting_for_approval" /\ effects[cur] > 0
  /\ \A r \in Requests :
       rpc[r] \in {"approve", "reject"} => approval[rtarget[r]] # None

CallPC == {"requestApproval", "recordTool", "resumeTool", "resumeInvocation", "recordResumed"}

\* Steps that leave the rows of every call alone, and with them the call in
\* hand, or let go of it: after its outcome is stored, or in an interruption.
LEMMA CallLeft ==
  ASSUME TypeOK, CallInv,
         UNCHANGED <<toolVars, grants, effects>>,
         \/ UNCHANGED <<pc, cur, interrupts>>
         \/ pc' \notin CallPC /\ pc # "recordResumed" /\ interrupts' = interrupts
         \/ pc' \notin CallPC /\ interrupts' = interrupts + 1,
         \A r \in Requests : rpc'[r] \in {"approve", "reject"} =>
           rpc'[r] = rpc[r] /\ rtarget'[r] = rtarget[r]
  PROVE  CallInv'
<1> USE DEF CallInv, CallPC, TypeOK
<1>1. GatedToolNeedsApproval' BY DEF GatedToolNeedsApproval
<1>2. RepeatedEffectNeedsInterrupt' BY DEF RepeatedEffectNeedsInterrupt
<1>3. \A i \in Invocations :
        /\ invStatus'[i] = None => approval'[i] = None
        /\ approval'[i] = "approved" => i \in grants'
        /\ i \in grants' => approval'[i] # None
  OBVIOUS
<1>4. ASSUME NEW i \in Invocations, invStatus'[i] = "waiting_for_approval",
             ~(pc' = "recordResumed" /\ cur' = i)
      PROVE  effects'[i] <= interrupts'
  <2>1. CASE UNCHANGED <<pc, cur, interrupts>> BY <1>4, <2>1
  <2>2. CASE pc # "recordResumed" /\ interrupts' = interrupts BY <1>4, <2>2
  <2>3. CASE interrupts' = interrupts + 1
    BY <1>4, <2>3 DEF RepeatedEffectNeedsInterrupt
  <2>4. QED BY <2>1, <2>2, <2>3
<1>5. \A r \in Requests : rpc'[r] \in {"approve", "reject"} => approval'[rtarget'[r]] # None
  OBVIOUS
<1>6. /\ pc' = "requestApproval" =>
           approval'[cur'] = None /\ invStatus'[cur'] = "waiting_for_approval" /\ effects'[cur'] = 0
      /\ pc' = "recordTool" => invStatus'[cur'] = None /\ effects'[cur'] > 0
      /\ pc' \in {"resumeTool", "resumeInvocation", "recordResumed"} => cur' \in grants'
      /\ pc' = "recordResumed" => invStatus'[cur'] = "waiting_for_approval" /\ effects'[cur'] > 0
  OBVIOUS
<1>7. QED BY <1>1, <1>2, <1>3, <1>4, <1>5, <1>6

\* The executor's steps that have a tool call in hand.
ToolStep ==
  \/ ResumeApprovedTool \/ ResumeWaitOnTool \/ ResumeInvocation \/ RecordResumed
  \/ (\E i \in Invocations : StoreGatedInvocation(i) \/ ExecuteTool(i))
  \/ RecordTool \/ RequestApproval

\* All its other steps leave the rows of every call alone.
LEMMA OtherExecutorSteps ==
  ASSUME Executor
  PROVE  \/ ToolStep
         \/ /\ UNCHANGED <<toolVars, grants, effects, reqVars>>
            /\ pc' \notin CallPC
            /\ \/ pc # "recordResumed" /\ interrupts' = interrupts
               \/ interrupts' = interrupts + 1
<1>1. CASE ExecuteRun \/ ReadRunStatus \/ SetRunning \/ ResumeDispatch \/ EnterTurn
           \/ StartReasoning \/ SaveBeforeModel \/ ModelFails \/ Decide \/ FinishAgent
           \/ SaveCompleted \/ EnsureActive \/ SetCompleted \/ EmitCompleted
  BY <1>1 DEF ExecuteRun, ReadRunStatus, SetRunning, ResumeDispatch, EnterTurn,
       StartReasoning, SaveBeforeModel, ModelFails, Decide, FinishAgent, SaveCompleted,
       EnsureActive, SetCompleted, EmitCompleted, RequireActiveStep, AfterRequireActive,
       ReadStatusStep, CommitStatusStep, AgentStep, CheckpointStep, CallPC
<1>2. CASE WaitOnWorkers \/ (\E w \in Workers : AddAgent(w)) \/ AddTask \/ SaveDispatch
           \/ MergeTask \/ MergeAgent \/ SaveMerge \/ WaitOnTool \/ ToolRefused
           \/ PauseAgent \/ SetWaiting \/ SaveWaiting \/ ToolReady \/ SaveTool
  BY <1>2 DEF WaitOnWorkers, AddAgent, AddTask, SaveDispatch, MergeTask, MergeAgent,
       SaveMerge, WaitOnTool, ToolRefused, PauseAgent, SetWaiting, SaveWaiting, ToolReady,
       SaveTool, CommitStatusStep, AgentStep, CheckpointStep, CallPC
<1>3. CASE ExitExecutor \/ ReadFailRun \/ CommitFailRun \/ HandleCancel \/ DeliverCancel \/ CallRaises
  BY <1>3 DEF ExitExecutor, ReadFailRun, CommitFailRun, HandleCancel, DeliverCancel, CallRaises,
       DropTask, Handler, TaskDone, ClearFrame, CallPC
<1>4. QED BY <1>1, <1>2, <1>3 DEF Executor, ToolStep

LEMMA CallExecutor ==
  ASSUME TypeOK, CallInv, Executor
  PROVE  CallInv'
<1> USE NoneAssumption
<1>1. CASE ~ToolStep BY <1>1, OtherExecutorSteps, CallLeft
<1> USE DEF TypeOK, CallInv, GatedToolNeedsApproval, RepeatedEffectNeedsInterrupt
<1>2. CASE ResumeApprovedTool
  BY <1>2 DEF ResumeApprovedTool, ToolPending, Granted
<1>3. CASE \E i \in Invocations : StoreGatedInvocation(i)
  BY <1>3 DEF StoreGatedInvocation, Fresh
<1>4. CASE \E i \in Invocations : ExecuteTool(i)
  BY <1>4 DEF ExecuteTool, Fresh
<1>5. CASE RecordTool BY <1>5 DEF RecordTool, StoreOutcome, HoldsInvocation
<1>6. CASE RequestApproval BY <1>6 DEF RequestApproval, HoldsInvocation
<1>7. CASE ResumeWaitOnTool BY <1>7 DEF ResumeWaitOnTool, AgentStep
<1>8. CASE ResumeInvocation
  <2>1. CASE pc' # "recordResumed" BY <1>8, <2>1 DEF ResumeInvocation
  <2>2. CASE pc' = "recordResumed"
    <3>1. /\ pc = "resumeInvocation" /\ cur \in Invocations
          /\ invStatus[cur] = "waiting_for_approval"
          /\ effects' = [effects EXCEPT ![cur] = @ + 1]
          /\ UNCHANGED <<durable, frame, reqVars, grants, interrupts>>
      BY <1>8, <2>2 DEF ResumeInvocation, MayExecute, HoldsInvocation
    <3>2. effects[cur] <= interrupts /\ cur \in grants BY <3>1
    <3>3. QED BY <2>2, <3>1, <3>2
  <2>3. QED BY <2>1, <2>2
<1>9. CASE RecordResumed BY <1>9 DEF RecordResumed, StoreOutcome, HoldsInvocation
<1>10. QED
  BY <1>1, <1>2, <1>3, <1>4, <1>5, <1>6, <1>7, <1>8, <1>9 DEF ToolStep

\* A request leaves the calls alone unless it resolves an approval.
LEMMA OtherRequestSteps ==
  ASSUME TypeOK, NEW r \in Requests, Request(r)
  PROVE  \/ \E i \in Invocations : ReadApproval(r, i)
         \/ CommitApproved(r) \/ CommitRejected(r)
         \/ /\ UNCHANGED <<toolVars, grants, effects, interrupts, cur>>
            /\ pc' = pc \/ (pc = "idle" /\ pc' = "start")
            /\ \A q \in Requests : rpc'[q] \in {"approve", "reject"} =>
                 rpc'[q] = rpc[q] /\ rtarget'[q] = rtarget[q]
<1>1. CASE ResumeArrives(r) \/ CancelArrives(r) \/ RequestReadsRun(r) \/ RequestSetsRun(r)
           \/ ApproveSetAgent(r) \/ AwaitTask(r) \/ RejectReadsRun(r) \/ RejectFailsRun(r)
           \/ CancelTask(r) \/ RequestRaises(r)
  BY <1>1 DEF TypeOK, ResumeArrives, CancelArrives, Arrives, RequestReadsRun, RequestSetsRun,
       ApproveSetAgent, AwaitTask, RejectReadsRun, RejectFailsRun, CancelTask, RequestRaises
<1>2. CASE ResumeRun(r) BY <1>2 DEF TypeOK, ResumeRun, ScheduleUnlessLive
<1>3. QED BY <1>1, <1>2 DEF Request, RequestProgress

LEMMA CallRequest ==
  ASSUME TypeOK, CallInv, NEW r \in Requests, Request(r)
  PROVE  CallInv'
<1> USE NoneAssumption
<1>1. CASE /\ UNCHANGED <<toolVars, grants, effects, interrupts, cur>>
           /\ pc' = pc \/ (pc = "idle" /\ pc' = "start")
           /\ \A q \in Requests : rpc'[q] \in {"approve", "reject"} =>
                rpc'[q] = rpc[q] /\ rtarget'[q] = rtarget[q]
  BY <1>1, CallLeft DEF CallPC
<1> USE DEF TypeOK, CallInv, GatedToolNeedsApproval, RepeatedEffectNeedsInterrupt
<1>2. CASE \E i \in Invocations : ReadApproval(r, i)
  BY <1>2 DEF ReadApproval, Arrives
<1>3. CASE CommitApproved(r) BY <1>3 DEF CommitApproved
<1>4. CASE CommitRejected(r) BY <1>4 DEF CommitRejected
<1>5. QED BY <1>1, <1>2, <1>3, <1>4, OtherRequestSteps

LEMMA CallProcess ==
  ASSUME TypeOK, ProcInv, CallInv, Process
  PROVE  CallInv'
<1>1. CASE Crash
  <2>1. /\ UNCHANGED <<toolVars, grants, effects>>
        /\ pc' \notin CallPC
        /\ \/ pc # "recordResumed" /\ interrupts' = interrupts
           \/ interrupts' = interrupts + 1
        /\ \A r \in Requests : rpc'[r] \notin {"approve", "reject"}
    BY <1>1 DEF TypeOK, Crash, TaskDone, InFlight, CallPC
  <2>2. QED BY <2>1, CallLeft
<1>2. CASE Shutdown \/ Stopped \/ Startup \/ RecoverRun
  <2>1. CASE UNCHANGED pc
    <3>1. UNCHANGED <<toolVars, grants, effects, pc, cur, interrupts, rpc, rtarget>>
      BY <1>2, <2>1 DEF Shutdown, Stopped, Startup, RecoverRun
    <3>2. QED BY <3>1, CallLeft
  <2>2. CASE ~UNCHANGED pc
    <3>1. UNCHANGED <<toolVars, grants, effects, interrupts, rpc, rtarget>> /\ pc' = "start"
      BY <1>2, <2>2 DEF Shutdown, Stopped, Startup, RecoverRun
    <3>2. pc = "idle" BY <1>2, <2>2 DEF Shutdown, Stopped, Startup, RecoverRun, ProcInv
    <3>3. QED BY <3>1, <3>2, CallLeft DEF CallPC
  <2>3. QED BY <2>1, <2>2
<1>3. QED BY <1>1, <1>2 DEF Process

LEMMA CallStep ==
  ASSUME TypeOK, ProcInv, CallInv, [Next]_vars
  PROVE  CallInv'
<1>1. CASE Creation /\ ~DispatchRun
  <2>1. UNCHANGED <<toolVars, grants, effects, pc, cur, interrupts, rpc, rtarget>>
    BY <1>1 DEF Creation, CreationProgress, PersistRun, AppendCreated, LinkFails, FailLaunch,
         EmitLaunchFailed, CreationRaises
  <2>2. QED BY <2>1, CallLeft
<1>2. CASE DispatchRun
  <2>1. /\ UNCHANGED <<toolVars, grants, effects, interrupts, rpc, rtarget>>
        /\ pc = "idle" /\ pc' = "start"
    BY <1>2 DEF DispatchRun, ProcInv
  <2>2. QED BY <2>1, CallLeft DEF CallPC
<1>3. CASE UNCHANGED vars BY <1>3, CallLeft
<1>4. QED BY <1>1, <1>2, <1>3, CallExecutor, CallRequest, CallProcess DEF Next

LEMMA CallCorrect == Spec => []CallInv
<1>1. Init => CallInv
  BY NoneAssumption DEF Init, CallInv, GatedToolNeedsApproval, RepeatedEffectNeedsInterrupt
<1>2. QED BY <1>1, CallStep, TypeCorrect, ProcCorrect, PTL DEF Spec

\* A tool behind the approval gate is executed only if its approval was granted.
THEOREM GateHolds == Spec => []GatedToolNeedsApproval
BY CallCorrect, PTL DEF CallInv

\* An outside effect is repeated only after an executor was killed or cancelled.
THEOREM RepetitionIsBounded == Spec => []RepeatedEffectNeedsInterrupt
BY CallCorrect, PTL DEF CallInv

-----------------------------------------------------------------------------
(* The runtime implements the contract of a tool call.                     *)

LEMMA ContractStutters ==
  ASSUME UNCHANGED <<invStatus, approval, grants, effects>>
  PROVE  UNCHANGED Contract!vars
  BY DEF Contract!vars

LEMMA ContractActs ==
  ASSUME NEW c \in Invocations,
         Contract!Ask(c) \/ Contract!Grant(c) \/ Contract!Execute(c) \/ Contract!Settle(c)
  PROVE  [Contract!Next]_(Contract!vars)
  BY DEF Contract!Next

\* What the contract calls the outcome of call i.
Outcome(i) == IF invStatus[i] \in {"completed", "failed"} THEN invStatus[i] ELSE "open"

LEMMA ContractToolStep ==
  ASSUME TypeOK, CallInv, ToolStep
  PROVE  [Contract!Next]_(Contract!vars)
<1> USE NoneAssumption DEF TypeOK, CallInv
<1>1. CASE ResumeApprovedTool \/ ResumeWaitOnTool
  BY <1>1, ContractStutters DEF ResumeApprovedTool, ResumeWaitOnTool, AgentStep
<1>2. CASE \E i \in Invocations : StoreGatedInvocation(i)
  <2>1. PICK i \in Invocations : StoreGatedInvocation(i) BY <1>2
  <2>2. QED BY <2>1 DEF StoreGatedInvocation, Fresh, Contract!vars
<1>3. CASE \E i \in Invocations : ExecuteTool(i)
  <2>1. PICK i \in Invocations : ExecuteTool(i) BY <1>3
  <2>2. Contract!Execute(i) BY <2>1 DEF ExecuteTool, Fresh, Contract!Execute
  <2>3. QED BY <2>2, ContractActs
<1>4. CASE ResumeInvocation
  <2>1. CASE UNCHANGED effects BY <1>4, <2>1, ContractStutters DEF ResumeInvocation
  <2>2. CASE ~UNCHANGED effects
    <3>1. cur \in Invocations /\ Contract!Execute(cur)
      BY <1>4, <2>2 DEF ResumeInvocation, MayExecute, HoldsInvocation, Contract!Execute
    <3>2. QED BY <3>1, ContractActs
  <2>3. QED BY <2>1, <2>2
<1>5. CASE RecordTool \/ RecordResumed
  <2>1. PICK c \in Invocations, o \in {"completed", "failed"} :
          /\ effects[c] > 0 /\ invStatus[c] \notin {"completed", "failed"}
          /\ invStatus' = [invStatus EXCEPT ![c] = o]
          /\ UNCHANGED <<approval, grants, effects>>
    BY <1>5 DEF RecordTool, RecordResumed, StoreOutcome, HoldsInvocation
  <2>2. \A i \in Invocations : Outcome(i)' = IF i = c THEN o ELSE Outcome(i)
    BY <2>1 DEF Outcome
  <2>3. [i \in Invocations |-> Outcome(i)]' = [[i \in Invocations |-> Outcome(i)] EXCEPT ![c] = o]
    BY <2>2
  <2>4. Outcome(c) = "open" BY <2>1 DEF Outcome
  <2>5. Contract!Settle(c)
    <3> HIDE DEF TypeOK, CallInv
    <3> QED BY <2>1, <2>3, <2>4 DEF Contract!Settle, Outcome
  <2>6. QED BY <2>5, ContractActs
<1>6. CASE RequestApproval
  <2>1. PICK c \in Invocations :
          /\ approval[c] = None /\ invStatus[c] = "waiting_for_approval" /\ effects[c] = 0
          /\ approval' = [approval EXCEPT ![c] = "pending"]
          /\ UNCHANGED <<invStatus, grants, effects>>
    BY <1>6 DEF RequestApproval, HoldsInvocation
  <2>2. Contract!Ask(c) BY <2>1 DEF Contract!Ask
  <2>3. QED BY <2>2, ContractActs
<1>7. QED BY <1>1, <1>2, <1>3, <1>4, <1>5, <1>6 DEF ToolStep

LEMMA ContractRequest ==
  ASSUME TypeOK, CallInv, NEW r \in Requests, Request(r)
  PROVE  [Contract!Next]_(Contract!vars)
<1>1. CASE UNCHANGED <<toolVars, grants, effects>> BY <1>1, ContractStutters
<1>2. CASE \E i \in Invocations : ReadApproval(r, i)
  BY <1>2, ContractStutters DEF ReadApproval, Arrives
<1> USE NoneAssumption DEF TypeOK, CallInv
<1>3. CASE CommitApproved(r)
  <2>1. rtarget[r] \in Invocations /\ Contract!Grant(rtarget[r])
    BY <1>3 DEF CommitApproved, Contract!Grant
  <2>2. QED BY <2>1, ContractActs
<1>4. CASE CommitRejected(r)
  BY <1>4 DEF CommitRejected, Contract!vars
<1>5. QED BY <1>1, <1>2, <1>3, <1>4, OtherRequestSteps

LEMMA ContractStep ==
  ASSUME TypeOK, CallInv, [Next]_vars
  PROVE  [Contract!Next]_(Contract!vars)
<1>1. CASE Executor BY <1>1, OtherExecutorSteps, ContractToolStep, ContractStutters
<1>2. CASE \E r \in Requests : Request(r) BY <1>2, ContractRequest
<1>3. CASE Creation
  BY <1>3, ContractStutters DEF Creation, CreationProgress, PersistRun, AppendCreated, DispatchRun,
       LinkFails, FailLaunch, EmitLaunchFailed, CreationRaises
<1>4. CASE Process
  BY <1>4, ContractStutters DEF Process, Crash, Shutdown, Stopped, Startup, RecoverRun
<1>5. CASE UNCHANGED vars BY <1>5, ContractStutters
<1>6. QED BY <1>1, <1>2, <1>3, <1>4, <1>5 DEF Next

\* Whatever races and crashes, the rows of a tool call only ever move as the
\* contract of ToolCallContract allows.
THEOREM ImplementsContract == Spec => KeepsContract
<1>1. Init => Contract!Init
  BY NoneAssumption DEF Init, Contract!Init
<1>2. QED BY <1>1, ContractStep, TypeCorrect, CallCorrect, PTL
          DEF Spec, KeepsContract, Contract!Spec

-----------------------------------------------------------------------------
(* The end of a run.                                                       *)

\* Only the executor completes a run, and it does so after its last checkpoint:
\* while the run is completed the executor is on its way out, or has yet to
\* find that there is nothing to do.
RunInv ==
  /\ CompletedRunHasCheckpoint
  /\ WaitingRunDoesNotReason
  /\ pc \in {"ensureActive", "readCompleted", "setCompleted", "emitCompleted"}
       => ckpt[Supervisor].step = "completed"
  /\ runStatus = "completed"
       => pc \in {"emitCompleted", "exit", "idle", "start", "fail", "markFailed", "onCancel"}

LEMMA RunExecutor ==
  ASSUME TypeOK, RunInv, Executor
  PROVE  RunInv'
<1> USE DEF RunInv, CompletedRunHasCheckpoint, WaitingRunDoesNotReason
<1>1. CASE ExecuteRun \/ EnterTurn \/ EnsureActive
  BY <1>1 DEF ExecuteRun, EnterTurn, EnsureActive, RequireActiveStep, AfterRequireActive
<1>2. CASE ReadRunStatus BY <1>2 DEF ReadRunStatus, ReadStatusStep
<1>3. CASE SetRunning \/ SetCompleted \/ SetWaiting
  BY <1>3 DEF SetRunning, SetCompleted, SetWaiting, CommitStatusStep, CommitRunStatus
<1>4. CASE ResumeDispatch \/ ResumeApprovedTool \/ ModelFails \/ Decide \/ ToolRefused
  BY <1>4 DEF ResumeDispatch, ResumeApprovedTool, ModelFails, Decide, ToolRefused,
       AfterRequireActive
<1>5. CASE StartReasoning \/ FinishAgent \/ WaitOnWorkers \/ MergeAgent \/ WaitOnTool
           \/ PauseAgent \/ ResumeWaitOnTool \/ ToolReady
  BY <1>5 DEF StartReasoning, FinishAgent, WaitOnWorkers, MergeAgent, WaitOnTool, PauseAgent,
       ResumeWaitOnTool, ToolReady, AgentStep
<1>6. CASE SaveBeforeModel \/ SaveDispatch \/ SaveMerge \/ SaveWaiting \/ SaveTool
  BY <1>6 DEF SaveBeforeModel, SaveDispatch, SaveMerge, SaveWaiting, SaveTool, CheckpointStep
<1>7. CASE SaveCompleted
  BY <1>7 DEF SaveCompleted, CheckpointStep, TypeOK
<1>8. CASE EmitCompleted BY <1>8 DEF EmitCompleted
<1>9. CASE (\E w \in Workers : AddAgent(w)) \/ AddTask \/ MergeTask
  BY <1>9 DEF AddAgent, AddTask, MergeTask
<1>10. CASE (\E i \in Invocations : StoreGatedInvocation(i) \/ ExecuteTool(i))
            \/ RecordTool \/ RequestApproval \/ ResumeInvocation \/ RecordResumed
  BY <1>10 DEF StoreGatedInvocation, ExecuteTool, RecordTool, RequestApproval,
       ResumeInvocation, RecordResumed, StoreOutcome
<1>11. CASE ExitExecutor \/ ReadFailRun \/ HandleCancel \/ DeliverCancel \/ CallRaises
  BY <1>11 DEF ExitExecutor, ReadFailRun, HandleCancel, DeliverCancel, CallRaises, DropTask, TaskDone
<1>12. CASE CommitFailRun BY <1>12 DEF CommitFailRun, MarkRunFailed, TaskDone
<1>13. QED
  BY <1>1, <1>2, <1>3, <1>4, <1>5, <1>6, <1>7, <1>8, <1>9, <1>10, <1>11, <1>12 DEF Executor

LEMMA RunStep ==
  ASSUME TypeOK, ProcInv, RunInv, [Next]_vars
  PROVE  RunInv'
<1> USE DEF RunInv, CompletedRunHasCheckpoint, WaitingRunDoesNotReason
<1>1. CASE Creation
  BY <1>1 DEF Creation, CreationProgress, PersistRun, AppendCreated, DispatchRun, LinkFails,
       FailLaunch, EmitLaunchFailed, CreationRaises, ProcInv
<1>2. CASE Executor BY <1>2, RunExecutor
<1>3. ASSUME NEW r \in Requests, Request(r)
      PROVE  RunInv'
  <2>1. CASE (\E i \in Invocations : ReadApproval(r, i)) \/ ResumeArrives(r) \/ CancelArrives(r)
             \/ CommitApproved(r) \/ RequestReadsRun(r) \/ ApproveSetAgent(r) \/ AwaitTask(r)
             \/ CommitRejected(r) \/ RejectReadsRun(r) \/ CancelTask(r) \/ RequestRaises(r)
    BY <2>1 DEF ReadApproval, ResumeArrives, CancelArrives, Arrives, CommitApproved,
         RequestReadsRun, ApproveSetAgent, AwaitTask, CommitRejected, RejectReadsRun, CancelTask,
         RequestRaises
  <2>2. CASE RequestSetsRun(r) BY <2>2 DEF RequestSetsRun, CommitRunStatus
  <2>3. CASE ResumeRun(r) BY <2>3 DEF ResumeRun, ScheduleUnlessLive
  <2>4. CASE RejectFailsRun(r) BY <2>4 DEF RejectFailsRun, MarkRunFailed
  <2>5. QED BY <1>3, <2>1, <2>2, <2>3, <2>4 DEF Request, RequestProgress
<1>4. CASE Process
  BY <1>4 DEF Process, Crash, Shutdown, Stopped, Startup, RecoverRun, MarkRunFailed, TaskDone,
       ProcInv
<1>5. CASE UNCHANGED vars BY <1>5
<1>6. QED BY <1>1, <1>2, <1>3, <1>4, <1>5 DEF Next

LEMMA RunCorrect == Spec => []RunInv
<1>1. Init => RunInv
  BY NoneAssumption DEF Init, RunInv, CompletedRunHasCheckpoint, WaitingRunDoesNotReason
<1>2. QED BY <1>1, RunStep, TypeCorrect, ProcCorrect, PTL DEF Spec

\* A run is completed only on top of its supervisor's durable result.
THEOREM CompletionIsDurable == Spec => []CompletedRunHasCheckpoint
BY RunCorrect, PTL DEF RunInv

\* No model turn is taken while the run waits for an approval.
THEOREM WaitingIsQuiet == Spec => []WaitingRunDoesNotReason
BY RunCorrect, PTL DEF RunInv

-----------------------------------------------------------------------------
(* The log of a run, and the executor an active run has.                   *)

\* What the executor writes of a run: its status, or "completed" just before the
\* event, or the end of an error handler with its event.  A call that raises and
\* a cancellation count as interruptions.
LEMMA ExecutorWrites ==
  ASSUME TypeOK, ProcInv, Executor
  PROVE  /\ UNCHANGED <<rpc, rtarget, restarts, phase, creator>>
         /\ events \subseteq events' /\ faults \subseteq faults'
         /\ \/ runStatus' = runStatus
            \/ runStatus' = "running" /\ pc' = "enter" /\ seen' = None
            \/ runStatus' = "waiting_for_approval" /\ pc' = "saveWaiting" /\ seen' = None
            \/ runStatus' = "completed" /\ pc' = "emitCompleted" /\ seen' = None
            \/ runStatus' = "failed" /\ "run.failed" \in events' /\ pc' = "idle"
         /\ \/ pc # "emitCompleted" \/ "run.completed" \in events'
            \/ interrupts' = interrupts + 1
         /\ interrupts' \in {interrupts, interrupts + 1}
<1>1. CASE ExecuteRun \/ ReadRunStatus \/ ResumeDispatch \/ EnterTurn \/ StartReasoning
           \/ SaveBeforeModel \/ ModelFails \/ Decide \/ FinishAgent \/ SaveCompleted
           \/ EnsureActive \/ ResumeApprovedTool
  BY <1>1 DEF ExecuteRun, ReadRunStatus, ResumeDispatch, EnterTurn, StartReasoning,
       SaveBeforeModel, ModelFails, Decide, FinishAgent, SaveCompleted, EnsureActive,
       ResumeApprovedTool, RequireActiveStep, ReadStatusStep, AgentStep, CheckpointStep
<1>2. CASE WaitOnWorkers \/ (\E w \in Workers : AddAgent(w)) \/ AddTask \/ SaveDispatch
           \/ MergeTask \/ MergeAgent \/ SaveMerge \/ WaitOnTool \/ ToolRefused
           \/ (\E i \in Invocations : StoreGatedInvocation(i) \/ ExecuteTool(i))
  BY <1>2 DEF WaitOnWorkers, AddAgent, AddTask, SaveDispatch, MergeTask, MergeAgent, SaveMerge,
       WaitOnTool, ToolRefused, StoreGatedInvocation, ExecuteTool, AgentStep, CheckpointStep
<1>3. CASE RecordTool \/ RequestApproval \/ PauseAgent \/ SaveWaiting \/ ResumeWaitOnTool
           \/ ResumeInvocation \/ RecordResumed \/ ToolReady \/ SaveTool
  BY <1>3 DEF RecordTool, RequestApproval, PauseAgent, SaveWaiting, ResumeWaitOnTool,
       ResumeInvocation, RecordResumed, ToolReady, SaveTool, StoreOutcome, AgentStep, CheckpointStep
<1>4. CASE SetRunning \/ SetCompleted \/ SetWaiting
  BY <1>4 DEF SetRunning, SetCompleted, SetWaiting, CommitStatusStep, CommitRunStatus
<1>5. CASE EmitCompleted \/ ExitExecutor \/ ReadFailRun \/ HandleCancel
  BY <1>5 DEF EmitCompleted, ExitExecutor, ReadFailRun, HandleCancel
<1>6. CASE CommitFailRun BY <1>6 DEF CommitFailRun, MarkRunFailed, TaskDone
<1>7. CASE DeliverCancel BY <1>7 DEF DeliverCancel, DropTask
<1>8. CASE CallRaises BY <1>8 DEF CallRaises, DropTask
<1>9. QED BY <1>1, <1>2, <1>3, <1>4, <1>5, <1>6, <1>7, <1>8 DEF Executor

\* A request has an approval in hand exactly if it resolves one.
ReqInv ==
  \A r \in Requests :
    /\ rpc[r] \in {"readRun", "setRunning", "setAgent"} => rtarget[r] # None
    /\ rpc[r] \in {"idle", "readCancel", "setCancelled", "emitCancelled"} => rtarget[r] = None

\* What a request writes of a run.
LEMMA RequestWrites ==
  ASSUME TypeOK, ReqInv, NEW r \in Requests, Request(r)
  PROVE  /\ ReqInv' /\ UNCHANGED <<phase, creator, restarts, interrupts>>
         /\ \A q \in Requests \ {r} : rpc'[q] = rpc[q] /\ rtarget'[q] = rtarget[q]
         /\ events \subseteq events' /\ UNCHANGED seen
         /\ \/ runStatus' = runStatus
            \/ runStatus' = "running" /\ rpc'[r] = "setAgent"
            \/ runStatus' = "cancelled" /\ rpc'[r] = "emitCancelled"
            \/ runStatus' = "failed" /\ "run.failed" \in events'
         /\ rpc[r] = "emitCancelled" =>
              "run.cancelled" \in events' \/ (rpc'[r] = "raised" /\ rtarget'[r] = None)
         /\ \/ pc' = pc /\ faults \subseteq faults'
            \/ pc = "idle" /\ pc' = "start"
         /\ rpc[r] \in {"setAgent", "resume"} /\ rtarget[r] # None =>
              \/ rpc'[r] = "resume" /\ rtarget'[r] # None
              \/ faults' # {}
              \/ pc = "idle" /\ pc' = "start"
<1> USE DEF TypeOK, ReqInv
<1>1. CASE (\E i \in Invocations : ReadApproval(r, i)) \/ ResumeArrives(r) \/ CancelArrives(r)
  BY <1>1, NoneAssumption DEF ReadApproval, ResumeArrives, CancelArrives, Arrives
<1>2. CASE CommitApproved(r) \/ CommitRejected(r) \/ RejectReadsRun(r) \/ AwaitTask(r)
  BY <1>2 DEF CommitApproved, CommitRejected, RejectReadsRun, AwaitTask
<1>3. CASE RequestReadsRun(r) BY <1>3 DEF RequestReadsRun
<1>4. CASE RequestSetsRun(r) BY <1>4 DEF RequestSetsRun, CommitRunStatus
<1>5. CASE ApproveSetAgent(r) BY <1>5 DEF ApproveSetAgent
<1>6. CASE ResumeRun(r) BY <1>6 DEF ResumeRun, ScheduleUnlessLive
<1>7. CASE RejectFailsRun(r) \/ CancelTask(r) BY <1>7 DEF RejectFailsRun, CancelTask, MarkRunFailed
<1>8. CASE RequestRaises(r)
  <2>1. /\ rpc' = [rpc EXCEPT ![r] = "raised"] /\ rpc[r] \in Calling
        /\ faults' = IF rpc[r] = "setAgent" THEN faults \cup {"missed"} ELSE faults
        /\ UNCHANGED <<runStatus, events, pc, rtarget, phase, creator, restarts, interrupts, seen>>
    BY <1>8 DEF RequestRaises
  <2>2. rpc'[r] = "raised" /\ \A q \in Requests \ {r} : rpc'[q] = rpc[q] BY <2>1
  <2>3. ReqInv' BY <2>1, <2>2
  <2>4. rpc[r] = "emitCancelled" => rpc'[r] = "raised" /\ rtarget'[r] = None BY <2>1, <2>2
  <2>5. QED BY <2>1, <2>2, <2>3, <2>4 DEF Calling
<1>9. QED BY <1>1, <1>2, <1>3, <1>4, <1>5, <1>6, <1>7, <1>8 DEF Request, RequestProgress

\* A request that has been answered takes no further step.
LEMMA Finished ==
  ASSUME TypeOK, NEW r \in Requests, Request(r)
  PROVE  rpc[r] \notin {"done", "raised"}
<1>1. CASE (\E i \in Invocations : ReadApproval(r, i)) \/ ResumeArrives(r) \/ CancelArrives(r)
           \/ CommitApproved(r) \/ RequestReadsRun(r) \/ RequestSetsRun(r) \/ ApproveSetAgent(r)
  BY <1>1 DEF ReadApproval, ResumeArrives, CancelArrives, Arrives, CommitApproved, RequestReadsRun,
       RequestSetsRun, ApproveSetAgent
<1>2. CASE ResumeRun(r) \/ AwaitTask(r) \/ CommitRejected(r) \/ RejectReadsRun(r)
           \/ RejectFailsRun(r) \/ CancelTask(r) \/ RequestRaises(r)
  BY <1>2 DEF ResumeRun, AwaitTask, CommitRejected, RejectReadsRun, RejectFailsRun, CancelTask,
       RequestRaises, Calling
<1>3. QED BY <1>1, <1>2 DEF Request, RequestProgress

LEMMA ReqStep ==
  ASSUME TypeOK, ProcInv, ReqInv, [Next]_vars
  PROVE  ReqInv'
<1>1. CASE Creation
  BY <1>1 DEF Creation, CreationProgress, PersistRun, AppendCreated, DispatchRun, LinkFails,
       FailLaunch, EmitLaunchFailed, CreationRaises, ReqInv
<1>2. CASE Executor BY <1>2, ExecutorWrites DEF ReqInv
<1>3. CASE Process
  <2>1. CASE Crash BY <2>1 DEF Crash, InFlight, ReqInv, TypeOK
  <2>2. CASE ~Crash BY <1>3, <2>2 DEF Process, Shutdown, Stopped, Startup, RecoverRun, ReqInv
  <2>3. QED BY <2>1, <2>2
<1>4. CASE UNCHANGED vars BY <1>4 DEF ReqInv
<1>5. QED BY <1>1, <1>2, <1>3, <1>4, RequestWrites DEF Next

LEMMA ReqCorrect == Spec => []ReqInv
<1>1. Init => ReqInv BY NoneAssumption DEF Init, ReqInv
<1>2. QED BY <1>1, ReqStep, TypeCorrect, ProcCorrect, PTL DEF Spec

LEMMA LoggedStep ==
  ASSUME TypeOK, ProcInv, ReqInv, EndIsLogged, [Next]_vars
  PROVE  EndIsLogged'
<1>1. CASE Creation
  BY <1>1 DEF Creation, CreationProgress, PersistRun, AppendCreated, DispatchRun, LinkFails,
       FailLaunch, EmitLaunchFailed, CreationRaises, EndIsLogged, ProcInv
<1>2. CASE Executor
  <2>1. interrupts \in Nat BY DEF TypeOK
  <2>2. QED BY <1>2, <2>1, ExecutorWrites DEF EndIsLogged
<1>3. ASSUME NEW r \in Requests, Request(r)
      PROVE  EndIsLogged'
  <2>1. runStatus' = "failed" => "run.failed" \in events' \/ creator' \in {"emitFailed", "raised"}
    BY <1>3, RequestWrites DEF EndIsLogged
  <2>2. runStatus' = "completed" =>
          "run.completed" \in events' \/ pc' = "emitCompleted" \/ interrupts' > 0
    BY <1>3, RequestWrites DEF EndIsLogged
  <2>3. runStatus' = "cancelled" =>
          \/ "run.cancelled" \in events' \/ restarts' > 0
          \/ \E q \in Requests : rpc'[q] = "emitCancelled" \/ (rpc'[q] = "raised" /\ rtarget'[q] = None)
    <3>1. CASE runStatus' # runStatus BY <1>3, <3>1, RequestWrites
    <3>2. CASE runStatus = "cancelled" /\ runStatus' = runStatus
      <4>1. CASE "run.cancelled" \in events \/ restarts > 0 BY <1>3, <4>1, RequestWrites
      <4>2. ASSUME NEW q \in Requests,
                   rpc[q] = "emitCancelled" \/ (rpc[q] = "raised" /\ rtarget[q] = None)
            PROVE  \/ "run.cancelled" \in events'
                   \/ rpc'[q] = "emitCancelled" \/ (rpc'[q] = "raised" /\ rtarget'[q] = None)
        <5>1. CASE q # r BY <1>3, <4>2, <5>1, RequestWrites
        <5>2. CASE q = r /\ rpc[q] = "emitCancelled" BY <1>3, <5>2, RequestWrites
        <5>3. rpc[r] # "raised" BY <1>3, Finished
        <5>4. QED BY <4>2, <5>1, <5>2, <5>3
      <4>3. QED BY <3>2, <4>1, <4>2 DEF EndIsLogged
    <3>3. QED BY <3>1, <3>2
  <2>4. QED BY <2>1, <2>2, <2>3 DEF EndIsLogged
<1>4. CASE Process
  <2>1. CASE Crash
    <3>1. interrupts \in Nat /\ restarts \in Nat BY DEF TypeOK
    <3>2. QED BY <2>1, <3>1 DEF Crash, TaskDone, EndIsLogged
  <2>2. CASE Shutdown \/ Stopped \/ Startup
    BY <2>2 DEF Shutdown, Stopped, Startup, EndIsLogged, TypeOK
  <2>3. CASE RecoverRun
    <3>1. CASE MarkRunFailed BY <3>1 DEF MarkRunFailed, EndIsLogged
    <3>2. CASE ~MarkRunFailed
      <4>1. runStatus' = runStatus /\ runStatus \in Resumable
        BY <2>3, <3>2 DEF RecoverRun, ListedActive
      <4>2. QED BY <4>1 DEF EndIsLogged
    <3>3. QED BY <3>1, <3>2
  <2>4. QED BY <1>4, <2>1, <2>2, <2>3 DEF Process
<1>5. CASE UNCHANGED vars BY <1>5 DEF EndIsLogged
<1>6. QED BY <1>1, <1>2, <1>3, <1>4, <1>5 DEF Next

\* A run that has ended says so in its log, or the append is about to be made or
\* did not return.
THEOREM EndReachesLog == Spec => []EndIsLogged
<1>1. Init => EndIsLogged BY NoneAssumption DEF Init, EndIsLogged
<1>2. QED BY <1>1, LoggedStep, TypeCorrect, ProcCorrect, ReqCorrect, PTL DEF Spec

\* What may leave an active run without an executor.
Excused ==
  \/ faults # {}
  \/ \E r \in Requests : rpc[r] \in {"setAgent", "resume"} /\ rtarget[r] # None
  \/ restarts > 0 /\ ~RecoverOnStartup

\* Where the executor ends without looking at the run again.
Leaving == pc \in {"exit", "emitCompleted"} \/ (pc = "saveWaiting" /\ agent = Supervisor)

\* The executor leaves no active run behind without an excuse: the decision to
\* leave rests on a status it has read or written, and from there on only an
\* excused write can make the run active again.
Settled(status) == status \in Terminal \cup {"waiting_for_approval"}
ServedInv ==
  /\ RunServed
  /\ pc = "idle" => seen = None
  /\ Settled(seen) /\ runStatus \in Resumable => Excused
  /\ Leaving /\ runStatus \in Resumable => Excused

\* How the executor comes to leave.
LEMMA ExecutorLeavesSettled ==
  ASSUME TypeOK, Executor
  PROVE  /\ seen' \in {seen, None} \/ (seen' = runStatus /\ runStatus' = runStatus)
         /\ pc' = "idle" =>
              /\ seen' = None
              /\ \/ runStatus' \notin Resumable \/ faults' # {}
                 \/ pc = "exit" /\ runStatus' = runStatus
         /\ Leaving' =>
              \/ runStatus' \notin Resumable
              \/ runStatus' = runStatus /\ (Leaving \/ Settled(seen))
<1> USE DEF Leaving, Settled
<1>1. CASE ExecuteRun \/ EnterTurn \/ EnsureActive
  BY <1>1 DEF ExecuteRun, EnterTurn, EnsureActive, RequireActiveStep, AfterRequireActive
<1>2. CASE ReadRunStatus BY <1>2 DEF ReadRunStatus, ReadStatusStep
<1>3. CASE SetRunning \/ SetCompleted \/ SetWaiting
  BY <1>3 DEF SetRunning, SetCompleted, SetWaiting, CommitStatusStep, CommitRunStatus
<1>4. CASE ResumeDispatch \/ ResumeApprovedTool \/ ModelFails \/ Decide \/ ToolRefused
  BY <1>4 DEF ResumeDispatch, ResumeApprovedTool, ModelFails, Decide, ToolRefused,
       AfterRequireActive
<1>5. CASE StartReasoning \/ FinishAgent \/ WaitOnWorkers \/ MergeAgent \/ WaitOnTool
           \/ PauseAgent \/ ResumeWaitOnTool \/ ToolReady
  BY <1>5 DEF StartReasoning, FinishAgent, WaitOnWorkers, MergeAgent, WaitOnTool, PauseAgent,
       ResumeWaitOnTool, ToolReady, AgentStep
<1>6. CASE SaveBeforeModel \/ SaveCompleted \/ SaveDispatch \/ SaveMerge \/ SaveWaiting \/ SaveTool
  BY <1>6 DEF SaveBeforeModel, SaveCompleted, SaveDispatch, SaveMerge, SaveWaiting, SaveTool,
       CheckpointStep
<1>7. CASE EmitCompleted BY <1>7 DEF EmitCompleted
<1>8. CASE (\E w \in Workers : AddAgent(w)) \/ AddTask \/ MergeTask
  BY <1>8 DEF AddAgent, AddTask, MergeTask
<1>9. CASE (\E i \in Invocations : StoreGatedInvocation(i) \/ ExecuteTool(i))
            \/ RecordTool \/ RequestApproval \/ ResumeInvocation \/ RecordResumed
  BY <1>9 DEF StoreGatedInvocation, ExecuteTool, RecordTool, RequestApproval,
       ResumeInvocation, RecordResumed, StoreOutcome
<1>10. CASE ExitExecutor \/ ReadFailRun \/ HandleCancel
  BY <1>10 DEF ExitExecutor, ReadFailRun, HandleCancel, TaskDone, ClearFrame
<1>11. CASE CommitFailRun BY <1>11 DEF CommitFailRun, MarkRunFailed, TaskDone, ClearFrame
<1>12. CASE DeliverCancel \/ CallRaises
  BY <1>12 DEF DeliverCancel, CallRaises, DropTask, TaskDone, ClearFrame
<1>13. QED
  BY <1>1, <1>2, <1>3, <1>4, <1>5, <1>6, <1>7, <1>8, <1>9, <1>10, <1>11, <1>12 DEF Executor

LEMMA ServedExecutor ==
  ASSUME TypeOK, ProcInv, ServedInv, Executor
  PROVE  ServedInv'
<1>1. Excused => Excused' BY ExecutorWrites DEF Excused
<1>2. pc' = "idle" => seen' = None BY ExecutorLeavesSettled
<1>3. Leaving' /\ runStatus' \in Resumable => Excused'
  BY <1>1, ExecutorLeavesSettled DEF ServedInv
<1>4. pc' = "idle" /\ runStatus' \in Resumable => Excused'
  <2>1. pc = "exit" => Leaving BY DEF Leaving
  <2>2. faults' # {} => Excused' BY DEF Excused
  <2>3. QED BY <1>1, <2>1, <2>2, ExecutorLeavesSettled DEF ServedInv
<1>5. Settled(seen') /\ runStatus' \in Resumable => Excused'
  <2>1. ~Settled(None) BY NoneAssumption DEF Settled
  <2>2. runStatus \in Resumable => ~Settled(runStatus) BY DEF Settled
  <2>3. runStatus' \in Resumable => runStatus' = runStatus \/ seen' = None
    BY ExecutorWrites DEF Settled
  <2>4. QED BY <1>1, <2>1, <2>2, <2>3, ExecutorLeavesSettled DEF ServedInv
<1>6. RunServed' BY <1>4 DEF RunServed, Excused
<1>7. QED BY <1>2, <1>3, <1>5, <1>6 DEF ServedInv, Settled

LEMMA ServedRequest ==
  ASSUME TypeOK, ProcInv, ReqInv, ServedInv, NEW r \in Requests, Request(r)
  PROVE  ServedInv'
<1>1. UNCHANGED <<phase, creator, restarts, seen, agent>>
  <2>1. UNCHANGED <<phase, creator, restarts, seen>> BY RequestWrites
  <2>2. UNCHANGED frame
    BY DEF Request, RequestProgress, ReadApproval, ResumeArrives, CancelArrives, Arrives,
         CommitApproved, RequestReadsRun, RequestSetsRun, ApproveSetAgent, ResumeRun, AwaitTask,
         CommitRejected, RejectReadsRun, RejectFailsRun, CancelTask, RequestRaises
  <2>3. QED BY <2>1, <2>2
<1>2. CASE pc = "idle" /\ pc' = "start"
  <2>1. seen' = None /\ ~Settled(None)
    BY <1>1, <1>2, NoneAssumption DEF ServedInv, Settled
  <2>2. QED BY <1>2, <2>1 DEF ServedInv, RunServed, Leaving, Settled
<1>3. CASE pc' = pc /\ faults \subseteq faults'
  <2>1. ASSUME Excused PROVE Excused'
    <3>1. CASE faults # {} \/ (restarts > 0 /\ ~RecoverOnStartup)
      BY <1>1, <1>3, <3>1 DEF Excused
    <3>2. ASSUME NEW q \in Requests, rpc[q] \in {"setAgent", "resume"}, rtarget[q] # None
          PROVE  Excused'
      <4>1. CASE q = r BY <1>3, <3>2, <4>1, RequestWrites DEF Excused
      <4>2. CASE q # r
        <5>1. rpc'[q] = rpc[q] /\ rtarget'[q] = rtarget[q] BY <4>2, RequestWrites
        <5>2. QED BY <3>2, <5>1 DEF Excused
      <4>3. QED BY <4>1, <4>2
    <3>3. QED BY <2>1, <3>1, <3>2 DEF Excused
  <2>2. ASSUME runStatus' \in Resumable, runStatus' # runStatus PROVE Excused'
    <3>1. rpc'[r] = "setAgent" /\ ReqInv' BY <2>2, RequestWrites
    <3>2. QED BY <3>1 DEF ReqInv, Excused
  <2>3. /\ pc' = "idle" => seen' = None
        /\ Settled(seen') /\ runStatus' \in Resumable => Excused'
        /\ Leaving' /\ runStatus' \in Resumable => Excused'
    BY <1>1, <1>3, <2>1, <2>2 DEF ServedInv, Leaving
  <2>4. RunServed' BY <1>1, <1>3, <2>1, <2>2 DEF ServedInv, RunServed, Excused
  <2>5. QED BY <2>3, <2>4 DEF ServedInv, Settled
<1>4. QED BY <1>2, <1>3, RequestWrites

LEMMA ServedStep ==
  ASSUME TypeOK, ProcInv, ReqInv, ServedInv, [Next]_vars
  PROVE  ServedInv'
<1> USE DEF ServedInv, RunServed, Excused, Leaving, Settled
<1>1. CASE Creation /\ ~DispatchRun
  <2>1. /\ creator' # "done" /\ pc = "idle" /\ UNCHANGED <<pc, seen>>
    BY <1>1 DEF Creation, CreationProgress, PersistRun, AppendCreated, LinkFails, FailLaunch,
         EmitLaunchFailed, CreationRaises, ProcInv
  <2>2. QED BY <2>1, NoneAssumption
<1>2. CASE DispatchRun
  <2>1. pc' = "start" /\ pc = "idle" /\ UNCHANGED seen
    BY <1>2 DEF DispatchRun, ProcInv
  <2>2. QED BY <2>1, NoneAssumption
<1>3. CASE Process
  <2>1. CASE Crash
    <3>1. phase' = "down" /\ pc' = "idle" /\ seen' = None
      BY <2>1 DEF Crash, TaskDone, ClearFrame
    <3>2. QED BY <3>1, NoneAssumption
  <2>2. CASE Shutdown BY <2>2 DEF Shutdown, TypeOK
  <2>3. CASE Stopped BY <2>3 DEF Stopped
  <2>4. CASE Startup
    <3>1. pc = "idle" /\ restarts > 0 BY <2>4 DEF Startup, ProcInv
    <3>2. QED BY <2>4, <3>1, NoneAssumption DEF Startup, ListedActive
  <2>5. CASE RecoverRun
    <3>1. /\ pc = "idle" /\ UNCHANGED seen
          /\ pc' = "start" \/ (pc' = pc /\ runStatus' = "failed")
      BY <2>5 DEF RecoverRun, ProcInv, MarkRunFailed
    <3>2. QED BY <3>1, NoneAssumption
  <2>6. QED BY <1>3, <2>1, <2>2, <2>3, <2>4, <2>5 DEF Process
<1>4. CASE UNCHANGED vars BY <1>4
<1>5. QED BY <1>1, <1>2, <1>3, <1>4, ServedExecutor, ServedRequest DEF Next, Creation

\* An active run has an executor, or is about to be given one, unless one of the
\* named ways to lose it was taken.
THEOREM RunsAreServed == Spec => []RunServed
<1>1. Init => ServedInv
  BY NoneAssumption DEF Init, ServedInv, RunServed, Excused, Leaving, Settled
<1>2. TypeOK /\ ProcInv /\ ReqInv /\ ServedInv /\ [Next]_vars => ServedInv' BY ServedStep
<1>3. ServedInv => RunServed BY DEF ServedInv
<1>4. QED BY <1>1, <1>2, <1>3, TypeCorrect, ProcCorrect, ReqCorrect, PTL DEF Spec
=============================================================================
