---------------------------- MODULE AgentRuntime ----------------------------
(***************************************************************************)
(* The run lifecycle of agent_runtime: one run, from the moment            *)
(* RunService persists it, through the orchestrator's supervisor and       *)
(* worker turns, the tool gateway and the approval gate, to a terminal     *)
(* status, with crashes, graceful shutdowns and startup recovery.          *)
(*                                                                         *)
(* The program is one asyncio event loop over a SQLite database.  The      *)
(* coroutines that touch a run are                                         *)
(*   - the executor: the asyncio task of RunService._execute_run, at most  *)
(*     one per run because _schedule_run_task is only reached when the     *)
(*     entry of _tasks is absent or done;                                  *)
(*   - the API requests approve, reject, cancel and resume;                *)
(*   - the creator, RunService.create_run or a workflow launch.            *)
(* A coroutine can be overtaken only at an await, and every await that     *)
(* matters here is one repository call, so an action is one repository     *)
(* call together with the synchronous code up to the next one.             *)
(* update_run_status and mark_run_failed read the row and commit it in two *)
(* awaits, hence two actions.  Any call may raise instead, which rolls its *)
(* transaction back.                                                       *)
(*                                                                         *)
(* Abstracted: objectives, prompts, tool arguments and results, and every  *)
(* event but the three terminal ones.  An entry of the observations is the *)
(* text of a worker's result, all workers having one role, or the id of    *)
(* the invocation whose result it is.  Reads that no other coroutine can   *)
(* disturb are part of the action that uses them.                          *)
(***************************************************************************)
EXTENDS Integers, Sequences, FiniteSets, SequencesExt

CONSTANTS
  Supervisor,         \* the run's supervisor agent
  Workers,            \* ids a delegation may draw its fresh worker and task from
  Invocations,        \* ids a tool call may draw its invocation and approval from
  Requests,           \* API calls that may be in flight at the same time
  Ops,                \* which of "approve", "reject", "cancel", "resume" they may be
  Outputs,            \* final_output texts the model may finish with
  RecoverOnStartup,   \* AGENT_RUNTIME_RESUME_ACTIVE_RUNS_ON_STARTUP
  MaxRestarts,        \* bound on crashes plus graceful shutdowns
  MaxErrors,          \* bound on calls that raise
  None                \* Python's None

Agents == {Supervisor} \cup Workers

ASSUME IdsDistinct ==
  /\ Supervisor \notin Workers \cup Invocations
  /\ Workers \cap Invocations = {}
ASSUME OpsAssumption == Ops \subseteq {"approve", "reject", "cancel", "resume"}
\* A worker's entry among the observations is told from a tool call's by the
\* role it begins with.
ASSUME OutputsAssumption ==
  "created" \notin Outputs /\ (Outputs \cup {"empty"}) \cap Invocations = {}
ASSUME BoundsAssumption ==
  MaxRestarts \in Nat /\ MaxErrors \in Nat /\ RecoverOnStartup \in BOOLEAN

VARIABLES
  \* Durable: the rows of the database.
  runStatus,    \* RunTable.status, None before create_run
  agentStatus,  \* AgentTable.status by agent, None when there is no row
  ckpt,         \* the latest CheckpointTable row of each agent
  task,         \* TaskTable row of each worker: None, "created" or its result
  invStatus,    \* ToolInvocationTable.status, None when there is no row
  owner,        \* ToolInvocationTable.agent_id and ApprovalRequestTable.agent_id
  approval,     \* ApprovalRequestTable.status, None when there is no row
  events,       \* terminal event types in EventTable
  \* Volatile: the process.
  phase,        \* "up", "stopping" (graceful shutdown) or "down"
  creator,      \* next call of the run's creation, "done" or "raised"
  pc,           \* next repository call of the executor, "idle" when no live task
  agent,        \* the agent whose _run_agent is executing
  child,        \* the worker whose result the supervisor is waiting for
  cur,          \* the tool invocation in hand
  seen,         \* the status that update_run_status or mark_run_failed has read
  out,          \* the result _run_agent returns to the supervisor
  cancelReq,    \* task.cancel() was called and CancelledError not delivered yet
  rpc, rtarget, rseen,  \* each request: next call, approval id, status read
  \* History and bounds.
  grants,       \* approvals that were ever committed as approved
  effects,      \* how often the tool of an invocation was executed
  interrupts,   \* executors that a crash, a cancel or a call that raised cut short
  faults,       \* what may leave the run without an executor, see RunServed
  restarts,     \* crashes and shutdowns so far
  errors        \* calls that raised so far

runVars   == <<runStatus, events, faults>>
agentVars == <<agentStatus, ckpt>>
toolVars  == <<invStatus, owner, approval>>
frame     == <<agent, child, cur, seen, out>>
reqVars   == <<rpc, rtarget, rseen>>
history   == <<grants, effects, interrupts>>
procVars  == <<phase, creator, cancelReq, restarts, errors>>
durable   == <<runVars, agentVars, task, toolVars>>

vars == <<runVars, agentVars, task, toolVars, pc, frame, reqVars, procVars, history>>

-----------------------------------------------------------------------------
(* Values.                                                                 *)

Terminal == {"completed", "failed", "cancelled"}
Resumable == {"created", "running", "paused"}
RunStatus == Terminal \cup Resumable \cup {"waiting_for_approval"}

AgentStatus == {"created", "ready", "reasoning", "waiting_on_workers",
                "waiting_on_tool", "waiting_for_approval", "completed",
                "failed", "cancelled"}

\* RunService._STARTUP_RESUMABLE_AGENT_STATUSES
StartupResumable == {"created", "ready", "reasoning", "waiting_on_workers"}

StepNames == {"before_model", "after_dispatch", "after_worker_merge",
              "waiting_for_approval", "after_tool_completed", "completed"}

\* payload of a checkpoint: observations, the worker or invocation it names,
\* and the result of a "completed" one.
Checkpoint(step, obs, ref, result) ==
  [step |-> step, obs |-> obs, ref |-> ref, result |-> result]

NoCheckpoint == Checkpoint(None, <<>>, None, None)

\* The empty text is also what a turn that pauses for an approval returns.
Results == Outputs \cup {"empty"}

ASSUME NoneAssumption ==
  None \notin Agents \cup Invocations \cup RunStatus \cup AgentStatus \cup StepNames
          \cup Results \cup {"pending", "approved", "rejected"}

-----------------------------------------------------------------------------
(* Repository calls.                                                       *)

\* The commit half of update_run_status.  It decides on the status that was
\* read, not on the one in the row; the ORM writes a column only if changed.
\* A run that had ended may so become active again.
CommitRunStatus(read, status) ==
  /\ runStatus' = IF read \in Terminal \cup {status} THEN runStatus ELSE status
  /\ faults' = IF runStatus \in Terminal /\ runStatus' \notin Terminal
               THEN faults \cup {"revived"} ELSE faults

\* Mutant: the event is left to a later transaction.
MarkRunFailed_NoEvent ==
  /\ runStatus' = "failed"
  /\ agentStatus' = [agentStatus EXCEPT ![Supervisor] = "failed"]
  /\ UNCHANGED <<events, faults>>

\* The commit half of mark_run_failed: run, supervisor and event in one
\* transaction.
MarkRunFailed ==
  /\ UNCHANGED faults
  /\ runStatus' = "failed"
  /\ agentStatus' = [agentStatus EXCEPT ![Supervisor] = "failed"]
  /\ events' = events \cup {"run.failed"}

\* restored_observations: what the latest checkpoint holds.  The executor is
\* the only writer of checkpoints, so its local copy equals this.
Observations(a) == ckpt[a].obs

\* A worker's entry already among the observations is not appended again.
Merged(obs, entry) ==
  IF entry \in ToSet(obs) THEN obs ELSE Append(obs, entry)

-----------------------------------------------------------------------------
(* Creation: RunService.create_run, or create_run_from_template_launch.    *)

\* What no step of the creation touches.
CreationLeaves ==
  UNCHANGED <<ckpt, task, toolVars, faults, frame, reqVars, phase, cancelReq, restarts, history>>

Creates(from, to) == creator = from /\ creator' = to /\ CreationLeaves

\* _persist_run: run and supervisor rows in one transaction, then RUN_CREATED.
PersistRun ==
  /\ phase = "up" /\ Creates("persist", "event")
  /\ runStatus' = "created"
  /\ agentStatus' = [agentStatus EXCEPT ![Supervisor] = "created"]
  /\ UNCHANGED <<events, pc, errors>>
AppendCreated ==
  Creates("event", "link") /\ UNCHANGED <<runStatus, events, agentStatus, pc, errors>>

\* _dispatch_run: after RUN_CREATED for a plain run, and for a launch once the
\* link to its template is stored too.
DispatchRun ==
  /\ Creates("event", "done") \/ Creates("link", "done")
  /\ pc' = "start"
  /\ UNCHANGED <<runStatus, events, agentStatus, errors>>

\* create_run_link raises: update_run_status(FAILED), RUN_FAILED and raise.
\* Nobody else knows the run yet, so the status is read and written in one step.
LinkFails ==
  /\ Creates("link", "failRun") /\ errors < MaxErrors /\ errors' = errors + 1
  /\ UNCHANGED <<runStatus, events, agentStatus, pc>>
FailLaunch ==
  /\ Creates("failRun", "emitFailed")
  /\ runStatus' = "failed"
  /\ UNCHANGED <<events, agentStatus, pc, errors>>
EmitLaunchFailed ==
  /\ Creates("emitFailed", "raised")
  /\ events' = events \cup {"run.failed"}
  /\ UNCHANGED <<runStatus, agentStatus, pc, errors>>

\* Another call of the creation raises to the caller, who never learns the id.
CreationRaises ==
  /\ \E from \in {"event", "failRun", "emitFailed"} : Creates(from, "raised")
  /\ errors < MaxErrors /\ errors' = errors + 1
  /\ UNCHANGED <<runStatus, events, agentStatus, pc>>

\* The creation goes on by itself once it has begun.
CreationProgress == AppendCreated \/ DispatchRun \/ FailLaunch \/ EmitLaunchFailed
Creation == PersistRun \/ CreationProgress \/ LinkFails \/ CreationRaises

-----------------------------------------------------------------------------
(* The executor.  Step(from, to): at the repository call `from`, make it    *)
(* and run to the call `to`.                                               *)

\* What an executor step never touches.
ExecutorLeaves == UNCHANGED <<reqVars, procVars, grants, interrupts>>

At(p) == pc = p /\ ~cancelReq

Step(from, to) == At(from) /\ pc' = to /\ ExecutorLeaves

\* A step that only calls update_agent_state.
AgentStep(from, a, status, to) ==
  /\ Step(from, to)
  /\ agentStatus' = [agentStatus EXCEPT ![a] = status]
  /\ UNCHANGED <<runVars, ckpt, task, toolVars, frame, effects>>

\* A step that calls save_checkpoint, and may assign locals.
CheckpointStep(from, a, c, to) ==
  /\ Step(from, to)
  /\ ckpt' = [ckpt EXCEPT ![a] = c]
  /\ UNCHANGED <<runVars, agentStatus, task, toolVars, seen, effects>>

\* A step that only calls _require_active_run: a cancelled run ends the
\* executor quietly, any other inactive status is an error.
AfterRequireActive_NoWaiting(next) ==   \* mutant: forgets waiting_for_approval
  IF runStatus = "cancelled" THEN "exit"
  ELSE IF runStatus \in {"completed", "failed"} THEN "fail"
  ELSE next
AfterRequireActive(next) ==
  IF runStatus = "cancelled" THEN "exit"
  ELSE IF runStatus \in {"waiting_for_approval", "completed", "failed"} THEN "fail"
  ELSE next

\* Mutant: the executor waits in place for the approval.
RequireActiveStep_Waits(from, next) ==
  /\ Step(from, IF runStatus = "waiting_for_approval" THEN from ELSE AfterRequireActive(next))
  /\ UNCHANGED <<durable, frame, effects>>

RequireActiveStep(from, next) ==
  Step(from, AfterRequireActive(next)) /\ UNCHANGED <<durable, frame, effects>>

\* update_run_status in two steps: the read, and the commit, which decides on
\* the status that was read and writes the column only if that changes it.
ReadStatusStep(from, to) ==
  /\ Step(from, to)
  /\ seen' = runStatus
  /\ UNCHANGED <<durable, agent, child, cur, out, effects>>
CommitStatusStep(from, status, to) ==
  /\ Step(from, to)
  /\ CommitRunStatus(seen, status)
  /\ seen' = None
  /\ UNCHANGED <<events, agentVars, task, toolVars, child, cur, out, effects>>

\* execute_run: _require_active_run, then the supervisor and its checkpoint.
ExecuteRun == RequireActiveStep("start", "readRunning")

ReadRunStatus ==
  \/ ReadStatusStep("readRunning", "setRunning")
  \/ ReadStatusStep("readWaiting", "setWaiting")
  \/ ReadStatusStep("readCompleted", "setCompleted")

\* update_run_status(RUNNING), RUN_STARTED, and on to the supervisor.
SetRunning == CommitStatusStep("setRunning", "running", "enter") /\ agent' = Supervisor

\* The latest checkpoint tells _run_agent where to take up: a dispatched
\* worker, a tool call behind an approval, or else a model turn.
DispatchPending_Unmerged ==             \* mutant: forgets a completed, unmerged task
  agent = Supervisor /\ ckpt[agent].step = "after_dispatch" /\ task[ckpt[agent].ref] = "created"
DispatchPending == agent = Supervisor /\ ckpt[agent].step = "after_dispatch"
ToolPending_Done ==                     \* mutant: takes a finished call for a pending one
  ckpt[agent].step \in {"waiting_for_approval", "after_tool_completed"}
ToolPending == ckpt[agent].step = "waiting_for_approval"

\* What the worker of a dispatch produced, if it is known to have finished:
\* task.result when it is truthy, else the worker's "completed" checkpoint.
WorkerFinished(w) == task[w] # "created" \/ agentStatus[w] = "completed"
HasText(w) == task[w] \in Results \ {"empty"}
WorkerResult(w) == IF HasText(w) THEN task[w] ELSE ckpt[w].result
ResultMissing_Task(w) ==                \* mutant: overlooks a worker without task result
  task[w] = "empty" /\ ckpt[w].step # "completed"
ResultMissing(w) == ~HasText(w) /\ ckpt[w].step # "completed"

\* _resume_existing_dispatch_if_present.
ResumeDispatch ==
  /\ DispatchPending
  /\ LET w == ckpt[agent].ref IN
     /\ child' = w
     /\ \/ /\ WorkerFinished(w) /\ ResultMissing(w)
           /\ Step("enter", "fail")
           /\ UNCHANGED <<agent, out>>
        \/ /\ WorkerFinished(w) /\ ~ResultMissing(w)
           /\ Step("enter", "mergeTask")
           /\ out' = WorkerResult(w)
           /\ UNCHANGED agent
        \/ /\ ~WorkerFinished(w)
           /\ Step("enter", "enter")
           /\ agent' = w
           /\ UNCHANGED out
  /\ UNCHANGED <<durable, cur, seen, effects>>

Granted_NotRejected(i) == approval[i] # "rejected"   \* mutant
Granted(i) == approval[i] = "approved"

\* _resume_waiting_tool_if_present, up to the approval check.
ResumeApprovedTool ==
  /\ ToolPending
  /\ cur' = ckpt[agent].ref
  /\ Step("enter", IF Granted(ckpt[agent].ref) THEN "resumeTool" ELSE "fail")
  /\ UNCHANGED <<durable, agent, child, seen, out, effects>>

\* _ensure_active, REASONING and the before_model checkpoint of a model turn.
EnterTurn == ~DispatchPending /\ ~ToolPending /\ RequireActiveStep("enter", "reason")
StartReasoning == AgentStep("reason", agent, "reasoning", "saveBeforeModel")
SaveBeforeModel ==
  /\ CheckpointStep("saveBeforeModel", agent,
       Checkpoint("before_model", Observations(agent), None, None), "decide")
  /\ UNCHANGED <<agent, child, cur, out>>

\* model_client.complete raises, or the decision is one the runtime refuses: an
\* unsupported worker role, a worker that delegates.
ModelFails == Step("decide", "fail") /\ UNCHANGED <<durable, frame, effects>>

\* model_client.complete, _ensure_active, and the branch on decision.kind.
Decide ==
  /\ \/ Step("decide", AfterRequireActive("finish")) /\ out' \in Outputs
     \/ Step("decide", AfterRequireActive("callTool")) /\ UNCHANGED out
     \/ /\ Step("decide", AfterRequireActive("delegate")) /\ UNCHANGED out
        /\ agent = Supervisor
        /\ \E w \in Workers : agentStatus[w] = None     \* the pool bounds delegations
  /\ UNCHANGED <<durable, agent, child, cur, seen, effects>>

\* _finish_agent.
FinishAgent_NoCheckpoint ==             \* mutant: only workers save their result
  AgentStep("finish", agent, "completed",
            IF agent = Supervisor THEN "ensureActive" ELSE "saveCompleted")
FinishAgent == AgentStep("finish", agent, "completed", "saveCompleted")
SaveCompleted ==
  /\ CheckpointStep("saveCompleted", agent,
       Checkpoint("completed", Observations(agent), None, out),
       IF agent = Supervisor THEN "ensureActive" ELSE "mergeTask")
  /\ UNCHANGED <<agent, child, cur, out>>
EnsureActive == RequireActiveStep("ensureActive", "readCompleted")
SetCompleted ==
  CommitStatusStep("setCompleted", "completed", "emitCompleted") /\ UNCHANGED agent

\* RUN_COMPLETED is emitted whether or not update_run_status wrote anything.
EmitCompleted ==
  /\ Step("emitCompleted", "exit")
  /\ events' = events \cup {"run.completed"}
  /\ UNCHANGED <<runStatus, faults, agentVars, task, toolVars, frame, effects>>

\* _delegate_from_agent.
WaitOnWorkers == AgentStep("delegate", Supervisor, "waiting_on_workers", "addAgent")
AddAgent(w) ==
  /\ Step("addAgent", "addTask")
  /\ agentStatus[w] = None
  /\ agentStatus' = [agentStatus EXCEPT ![w] = "ready"]
  /\ child' = w
  /\ UNCHANGED <<runVars, ckpt, task, toolVars, agent, cur, seen, out, effects>>
AddTask ==
  /\ Step("addTask", "saveDispatch")
  /\ task' = [task EXCEPT ![child] = "created"]
  /\ UNCHANGED <<runVars, agentVars, toolVars, frame, effects>>
SaveDispatch_NoCheckpoint ==            \* mutant: the dispatch is not checkpointed
  /\ Step("saveDispatch", "enter")
  /\ agent' = child
  /\ UNCHANGED <<durable, child, cur, seen, out, effects>>
SaveDispatch ==
  /\ CheckpointStep("saveDispatch", Supervisor,
       Checkpoint("after_dispatch", Observations(Supervisor), child, None), "enter")
  /\ agent' = child
  /\ UNCHANGED <<child, cur, out>>

\* _merge_worker_result_and_continue.
MergeTask ==
  /\ Step("mergeTask", "mergeAgent")
  /\ task' = [task EXCEPT ![child] = out]
  /\ agent' = Supervisor
  /\ UNCHANGED <<runVars, agentVars, toolVars, child, cur, seen, out, effects>>
MergeAgent == AgentStep("mergeAgent", Supervisor, "ready", "saveMerge")
SaveMerge ==
  /\ CheckpointStep("saveMerge", Supervisor,
       Checkpoint("after_worker_merge", Merged(Observations(Supervisor), out), None, None),
       "enter")
  /\ child' = None /\ out' = None
  /\ UNCHANGED <<agent, cur>>

-----------------------------------------------------------------------------
(* Tool calls: _call_tool_from_agent, ToolGateway and ApprovalService.     *)
(* Which tool is called and what the tenant policy says of it is decided   *)
(* per call: the policy can be replaced between two of them.               *)

WaitOnTool == AgentStep("callTool", agent, "waiting_on_tool", "gate")

\* The tool is not registered or the policy does not allow it.
ToolRefused == Step("gate", "fail") /\ UNCHANGED <<durable, frame, effects>>

\* Ids are fresh uuids: never seen in the database, never used by a tool call
\* that died before it was recorded.
Fresh(i) == invStatus[i] = None /\ effects[i] = 0

\* The policy asks for an approval: the invocation is stored, not executed.
StoreGatedInvocation(i) ==
  /\ Step("gate", "requestApproval") /\ Fresh(i)
  /\ invStatus' = [invStatus EXCEPT ![i] = "waiting_for_approval"]
  /\ owner' = [owner EXCEPT ![i] = agent]
  /\ cur' = i
  /\ UNCHANGED <<runVars, agentVars, task, approval, agent, child, seen, out, effects>>

\* The policy lets the tool run: executor.execute, with its outside effect.
ExecuteTool(i) ==
  /\ Step("gate", "recordTool") /\ Fresh(i)
  /\ effects' = [effects EXCEPT ![i] = @ + 1]
  /\ cur' = i
  /\ UNCHANGED <<durable, agent, child, seen, out>>

\* The outcome of an execution is stored after the effect; a tool that raised
\* is stored as failed and its exception ends the executor.
StoreOutcome(from) ==
  /\ \/ /\ Step(from, "toolReady")
        /\ invStatus' = [invStatus EXCEPT ![cur] = "completed"]
     \/ /\ Step(from, "fail")
        /\ invStatus' = [invStatus EXCEPT ![cur] = "failed"]
  /\ UNCHANGED <<runVars, agentVars, task, approval, frame, effects>>

RecordTool ==
  StoreOutcome("recordTool") /\ owner' = [owner EXCEPT ![cur] = agent]

\* ApprovalService.request_tool_approval.
RequestApproval ==
  /\ Step("requestApproval", "pauseAgent")
  /\ approval' = [approval EXCEPT ![cur] = "pending"]
  /\ UNCHANGED <<runVars, agentVars, task, invStatus, owner, frame, effects>>

\* Back in _call_tool_from_agent: pause the agent, the run, then checkpoint.
\* The turn returns the empty result, which a worker's supervisor merges.
PauseAgent == AgentStep("pauseAgent", agent, "waiting_for_approval", "readWaiting")
SetWaiting ==
  /\ CommitStatusStep("setWaiting", "waiting_for_approval", "saveWaiting")
  /\ UNCHANGED agent
SaveWaiting ==
  /\ CheckpointStep("saveWaiting", agent,
       Checkpoint("waiting_for_approval", Observations(agent), cur, None),
       IF agent = Supervisor THEN "exit" ELSE "mergeTask")
  /\ cur' = None
  /\ out' = "empty"
  /\ UNCHANGED <<agent, child>>

\* Statuses resume_approved_invocation executes the tool from, and those whose
\* stored result it returns.
MayExecute_NotFailed(status) == status # "failed"    \* mutant
MayExecute(status) == status = "waiting_for_approval"
HasResult(status) == status = "completed"

\* _resume_waiting_tool_if_present after the approval check.
ResumeWaitOnTool == AgentStep("resumeTool", agent, "waiting_on_tool", "resumeInvocation")
ResumeInvocation ==
  /\ \/ /\ Step("resumeInvocation", "toolReady") /\ UNCHANGED effects
        /\ HasResult(invStatus[cur])
     \/ /\ Step("resumeInvocation", "fail") /\ UNCHANGED effects
        /\ ~HasResult(invStatus[cur]) /\ ~MayExecute(invStatus[cur])
     \/ /\ Step("resumeInvocation", "recordResumed")
        /\ MayExecute(invStatus[cur])
        /\ effects' = [effects EXCEPT ![cur] = @ + 1]
  /\ UNCHANGED <<durable, frame>>
RecordResumed == StoreOutcome("recordResumed") /\ UNCHANGED owner

\* _complete_tool_call.
ToolReady == AgentStep("toolReady", agent, "ready", "saveTool")
SaveTool ==
  /\ CheckpointStep("saveTool", agent,
       Checkpoint("after_tool_completed", Append(Observations(agent), cur), cur, None),
       "enter")
  /\ cur' = None
  /\ UNCHANGED <<agent, child, out>>

-----------------------------------------------------------------------------
(* The end of RunService._execute_run.                                     *)

ClearFrame == agent' = Supervisor /\ child' = None /\ cur' = None
              /\ seen' = None /\ out' = None

TaskDone == pc' = "idle" /\ ClearFrame

\* execute_run returned: the metrics read, then finally pops the task.
ExitExecutor == At("exit") /\ TaskDone /\ ExecutorLeaves /\ UNCHANGED <<durable, effects>>

\* fail_run reads the run, and mark_run_failed reads it again.
ReadFailRun ==
  /\ \/ runStatus \in Terminal /\ At("fail") /\ TaskDone /\ ExecutorLeaves
     \/ runStatus \notin Terminal /\ Step("fail", "markFailed") /\ UNCHANGED frame
  /\ UNCHANGED <<durable, effects>>
CommitFailRun ==
  /\ At("markFailed") /\ TaskDone /\ ExecutorLeaves
  /\ MarkRunFailed
  /\ UNCHANGED <<ckpt, task, toolVars, effects>>

\* Inside the error handlers of _execute_run nothing is caught any more.
Handler == {"fail", "markFailed", "onCancel"}

\* The task ends without having settled the run.
DropTask == TaskDone /\ faults' = faults \cup {"dropped"}

\* The CancelledError of task.cancel() at the await the executor is in.  A task
\* that has not begun, or is inside its error handler, just ends.
DeliverCancel ==
  /\ cancelReq
  /\ cancelReq' = FALSE
  /\ interrupts' = interrupts + 1
  /\ \/ pc \in Handler \cup {"start"} /\ DropTask
     \/ pc \notin Handler /\ pc' = "onCancel" /\ UNCHANGED <<frame, faults>>
  /\ UNCHANGED <<runStatus, events, agentVars, task, toolVars, reqVars, phase, creator, restarts,
                 errors, grants, effects>>

\* except Exception: the call the executor is in raises.
CallRaises ==
  /\ pc # "idle" /\ ~cancelReq /\ errors < MaxErrors
  /\ errors' = errors + 1
  /\ interrupts' = interrupts + 1
  /\ \/ pc \in Handler /\ DropTask
     \/ pc \notin Handler /\ pc' = "fail" /\ UNCHANGED <<frame, faults>>
  /\ UNCHANGED <<runStatus, events, agentVars, task, toolVars, reqVars, phase, creator, cancelReq,
                 restarts, grants, effects>>

\* except asyncio.CancelledError: a run that is not cancelled is failed.
HandleCancel ==
  /\ \/ runStatus = "cancelled" /\ At("onCancel") /\ TaskDone /\ ExecutorLeaves
     \/ runStatus # "cancelled" /\ Step("onCancel", "fail") /\ UNCHANGED frame
  /\ UNCHANGED <<durable, effects>>

Executor ==
  \/ ExecuteRun \/ ReadRunStatus \/ SetRunning
  \/ ResumeDispatch \/ ResumeApprovedTool \/ EnterTurn
  \/ StartReasoning \/ SaveBeforeModel \/ ModelFails \/ Decide
  \/ FinishAgent \/ SaveCompleted \/ EnsureActive \/ SetCompleted \/ EmitCompleted
  \/ WaitOnWorkers \/ (\E w \in Workers : AddAgent(w)) \/ AddTask \/ SaveDispatch
  \/ MergeTask \/ MergeAgent \/ SaveMerge
  \/ WaitOnTool \/ ToolRefused
  \/ (\E i \in Invocations : StoreGatedInvocation(i) \/ ExecuteTool(i))
  \/ RecordTool \/ RequestApproval \/ PauseAgent \/ SetWaiting \/ SaveWaiting
  \/ ResumeWaitOnTool \/ ResumeInvocation \/ RecordResumed \/ ToolReady \/ SaveTool
  \/ ExitExecutor \/ ReadFailRun \/ CommitFailRun \/ HandleCancel
  \/ DeliverCancel \/ CallRaises

-----------------------------------------------------------------------------
(* API requests.                                                           *)

RequestLeaves == UNCHANGED <<frame, phase, creator, restarts, effects, interrupts>>

Moves(r, from, to) == rpc[r] = from /\ rpc' = [rpc EXCEPT ![r] = to] /\ RequestLeaves
RequestStep(r, from, to) == Moves(r, from, to) /\ UNCHANGED errors

\* A request on the run arrives once create_run has handed out its id.
Arrives(r, op, to) ==
  phase = "up" /\ creator = "done" /\ op \in Ops /\ RequestStep(r, "idle", to)

\* What _ensure_pending_approval lets through; anything else is a 409.
IsPending(status) == status = "pending"

ReadApproval(r, i) ==
  /\ approval[i] # None
  /\ \E op \in {"approve", "reject"} :
       Arrives(r, op, IF IsPending(approval[i]) THEN op ELSE "done")
  /\ rtarget' = [rtarget EXCEPT ![r] = i]
  /\ UNCHANGED <<durable, pc, cancelReq, rseen, grants>>

\* approve_approval: update_approval_request.
CommitApproved(r) ==
  /\ RequestStep(r, "approve", "readRun")
  /\ approval' = [approval EXCEPT ![rtarget[r]] = "approved"]
  /\ grants' = grants \cup {rtarget[r]}
  /\ UNCHANGED <<runVars, agentVars, task, invStatus, owner, pc, cancelReq, rtarget, rseen>>

\* The read half of update_run_status, then its commit half: RUNNING for an
\* approval, CANCELLED for a cancel.
RequestReadsRun(r) ==
  /\ RequestStep(r, "readRun", "setRunning") \/ RequestStep(r, "readCancel", "setCancelled")
  /\ rseen' = [rseen EXCEPT ![r] = runStatus]
  /\ UNCHANGED <<durable, pc, cancelReq, rtarget, grants>>
RequestSetsRun(r) ==
  /\ \/ RequestStep(r, "setRunning", "setAgent") /\ CommitRunStatus(rseen[r], "running")
     \/ RequestStep(r, "setCancelled", "emitCancelled") /\ CommitRunStatus(rseen[r], "cancelled")
  /\ rseen' = [rseen EXCEPT ![r] = None]
  /\ UNCHANGED <<events, agentVars, task, toolVars, pc, cancelReq, rtarget, grants>>

\* update_agent_state of the agent the approval names.
ApproveSetAgent_NoResume(r) ==          \* mutant: the run is not resumed
  /\ RequestStep(r, "setAgent", "done")
  /\ agentStatus' = [agentStatus EXCEPT ![owner[rtarget[r]]] = "waiting_on_tool"]
  /\ UNCHANGED <<runVars, ckpt, task, toolVars, pc, cancelReq, rtarget, rseen, grants>>
ApproveSetAgent(r) ==
  /\ RequestStep(r, "setAgent", "resume")
  /\ agentStatus' = [agentStatus EXCEPT ![owner[rtarget[r]]] = "waiting_on_tool"]
  /\ UNCHANGED <<runVars, ckpt, task, toolVars, pc, cancelReq, rtarget, rseen, grants>>

ResumeArrives(r) ==
  Arrives(r, "resume", "resume") /\ UNCHANGED <<durable, pc, cancelReq, rtarget, rseen, grants>>

\* resume_run: wait for the live task, or schedule one and wait for that.
ScheduleAlways == pc' = "start"         \* mutant: ignores the live task
ScheduleUnlessLive == pc' = IF pc = "idle" THEN "start" ELSE pc
ResumeRun(r) ==
  /\ RequestStep(r, "resume", "await")
  /\ ScheduleUnlessLive
  /\ faults' = IF pc = "idle" THEN {}
               ELSE IF rtarget[r] # None THEN faults \cup {"missed"} ELSE faults
  /\ UNCHANGED <<runStatus, events, agentVars, task, toolVars, cancelReq, rtarget, rseen, grants>>
AwaitTask(r) ==
  /\ pc = "idle" /\ RequestStep(r, "await", "done")
  /\ UNCHANGED <<durable, pc, cancelReq, rtarget, rseen, grants>>

\* reject_approval: update_approval_request, then fail_run.
CommitRejected(r) ==
  /\ RequestStep(r, "reject", "readFailRun")
  /\ approval' = [approval EXCEPT ![rtarget[r]] = "rejected"]
  /\ UNCHANGED <<runVars, agentVars, task, invStatus, owner, pc, cancelReq, rtarget, rseen, grants>>
RejectReadsRun(r) ==
  /\ RequestStep(r, "readFailRun", IF runStatus \in Terminal THEN "done" ELSE "markFailed")
  /\ UNCHANGED <<durable, pc, cancelReq, rtarget, rseen, grants>>
RejectFailsRun(r) ==
  /\ RequestStep(r, "markFailed", "done")
  /\ MarkRunFailed
  /\ UNCHANGED <<ckpt, task, toolVars, pc, cancelReq, rtarget, rseen, grants>>

\* cancel_run: a terminal run is left alone.
CancelArrives(r) ==
  /\ Arrives(r, "cancel", IF runStatus \in Terminal THEN "done" ELSE "readCancel")
  /\ UNCHANGED <<durable, pc, cancelReq, rtarget, rseen, grants>>

\* RUN_CANCELLED, then task.cancel() on the live task.
CancelTask(r) ==
  /\ RequestStep(r, "emitCancelled", "done")
  /\ events' = events \cup {"run.cancelled"}
  /\ cancelReq' = (cancelReq \/ pc # "idle")
  /\ UNCHANGED <<runStatus, faults, agentVars, task, toolVars, pc, rtarget, rseen, grants>>

\* A call of the request raises: its transaction is rolled back and the client
\* gets an error.  An approval has then been committed without its resume.
Calling == {"approve", "readRun", "setRunning", "setAgent", "reject", "readFailRun",
            "markFailed", "readCancel", "setCancelled", "emitCancelled"}
RequestRaises(r) ==
  /\ \E from \in Calling : Moves(r, from, "raised")
  /\ errors < MaxErrors /\ errors' = errors + 1
  /\ faults' = IF rpc[r] = "setAgent" THEN faults \cup {"missed"} ELSE faults
  /\ UNCHANGED <<runStatus, events, agentVars, task, toolVars, pc, cancelReq, rtarget, rseen, grants>>

\* A request under way; its arrival is the client's choice.
RequestProgress(r) ==
  \/ CommitApproved(r) \/ RequestReadsRun(r) \/ RequestSetsRun(r) \/ ApproveSetAgent(r)
  \/ ResumeRun(r) \/ AwaitTask(r)
  \/ CommitRejected(r) \/ RejectReadsRun(r) \/ RejectFailsRun(r) \/ CancelTask(r)

Request(r) ==
  \/ \E i \in Invocations : ReadApproval(r, i)
  \/ ResumeArrives(r) \/ CancelArrives(r)
  \/ RequestProgress(r) \/ RequestRaises(r)

-----------------------------------------------------------------------------
(* The process.                                                            *)

InFlight(r) == rpc[r] \notin {"idle", "done", "raised"}

\* The process dies: the database stays, everything else is gone.  A launch that
\* was failing stays unfinished; the run of any other creation may be met again.
Crash ==
  /\ phase # "down" /\ runStatus # None /\ restarts < MaxRestarts
  /\ restarts' = restarts + 1
  /\ phase' = "down"
  /\ creator' = IF creator \in {"failRun", "emitFailed", "raised"} THEN "raised" ELSE "done"
  /\ cancelReq' = FALSE
  /\ TaskDone
  /\ rpc' = [r \in Requests |-> IF InFlight(r) THEN "done" ELSE rpc[r]]
  /\ rtarget' = [r \in Requests |-> None]
  /\ rseen' = [r \in Requests |-> None]
  /\ interrupts' = interrupts + IF pc = "idle" THEN 0 ELSE 1
  /\ UNCHANGED <<durable, errors, grants, effects>>

\* RunService.shutdown, which the server calls once no request is in flight.
Shutdown ==
  /\ phase = "up" /\ creator \in {"done", "raised"} /\ restarts < MaxRestarts
  /\ \A r \in Requests : ~InFlight(r)
  /\ restarts' = restarts + 1
  /\ phase' = "stopping"
  /\ cancelReq' = (pc # "idle")
  /\ UNCHANGED <<durable, pc, frame, reqVars, creator, errors, history>>

Stopped ==
  /\ phase = "stopping" /\ pc = "idle"
  /\ phase' = "down"
  /\ UNCHANGED <<durable, pc, frame, reqVars, creator, cancelReq, restarts, errors, history>>

\* The runs list_active_runs returns.
ListedActive_Running == runStatus = "running"        \* mutant: forgets created runs
ListedActive == runStatus \in Resumable

\* Startup without a run to recover: recovery is off, or list_active_runs does
\* not list this run.
Startup ==
  /\ phase = "down" /\ ~(RecoverOnStartup /\ ListedActive)
  /\ phase' = "up"
  /\ UNCHANGED <<durable, pc, frame, reqVars, creator, cancelReq, restarts, errors, history>>

\* resume_active_runs_in_background, which runs before any request is served.
RecoverRun ==
  /\ phase = "down" /\ RecoverOnStartup /\ ListedActive
  /\ phase' = "up"
  /\ \/ /\ agentStatus[Supervisor] \in StartupResumable
        /\ pc' = "start" /\ faults' = {}
        /\ UNCHANGED <<runStatus, events, agentVars, task, toolVars>>
     \/ /\ agentStatus[Supervisor] \notin StartupResumable
        /\ MarkRunFailed
        /\ UNCHANGED <<pc, ckpt, task, toolVars>>
  /\ UNCHANGED <<frame, reqVars, creator, cancelReq, restarts, errors, history>>

Process == Crash \/ Shutdown \/ Stopped \/ Startup \/ RecoverRun

-----------------------------------------------------------------------------
Init ==
  /\ runStatus = None
  /\ agentStatus = [a \in Agents |-> None]
  /\ ckpt = [a \in Agents |-> NoCheckpoint]
  /\ task = [w \in Workers |-> None]
  /\ invStatus = [i \in Invocations |-> None]
  /\ owner = [i \in Invocations |-> None]
  /\ approval = [i \in Invocations |-> None]
  /\ events = {}
  /\ phase = "up" /\ creator = "persist" /\ pc = "idle"
  /\ agent = Supervisor /\ child = None /\ cur = None /\ seen = None /\ out = None
  /\ cancelReq = FALSE
  /\ rpc = [r \in Requests |-> "idle"]
  /\ rtarget = [r \in Requests |-> None]
  /\ rseen = [r \in Requests |-> None]
  /\ grants = {} /\ effects = [i \in Invocations |-> 0]
  /\ interrupts = 0 /\ faults = {} /\ restarts = 0 /\ errors = 0

Next ==
  \/ Creation
  \/ Executor
  \/ \E r \in Requests : Request(r)
  \/ Process

Spec == Init /\ [][Next]_vars

\* The event loop runs every ready coroutine, every awaited call of the
\* executor returns (calls to the model time out, AddAgent never lacks an id),
\* and a stopped process is started again.  Nobody has to send a request, and
\* nothing has to crash.
Fairness ==
  /\ WF_vars(CreationProgress)
  /\ WF_vars(Executor)
  /\ \A r \in Requests : WF_vars(RequestProgress(r))
  /\ WF_vars(Stopped \/ Startup \/ RecoverRun)

FairSpec == Spec /\ Fairness

-----------------------------------------------------------------------------
(* Properties.                                                             *)

ExecutorPC ==
  {"idle", "start", "readRunning", "setRunning", "enter", "reason",
   "saveBeforeModel", "decide", "finish", "saveCompleted", "ensureActive",
   "readCompleted", "setCompleted", "emitCompleted", "delegate", "addAgent",
   "addTask", "saveDispatch", "mergeTask", "mergeAgent", "saveMerge",
   "callTool", "gate", "requestApproval", "recordTool", "pauseAgent",
   "readWaiting", "setWaiting", "saveWaiting", "resumeTool",
   "resumeInvocation", "recordResumed", "toolReady", "saveTool",
   "exit", "fail", "markFailed", "onCancel"}

RequestPC ==
  {"idle", "approve", "readRun", "setRunning", "setAgent", "resume", "await",
   "reject", "readFailRun", "markFailed", "readCancel", "setCancelled",
   "emitCancelled", "done", "raised"}

CheckpointType ==
  [step : StepNames \cup {None}, obs : Seq(Results \cup Invocations),
   ref : Workers \cup Invocations \cup {None}, result : Results \cup {None}]

\* Where the executor has a tool invocation in hand, awaits a worker, or holds
\* a worker's result to merge.
HoldsInvocation ==
  {"requestApproval", "recordTool", "pauseAgent", "readWaiting", "setWaiting",
   "saveWaiting", "resumeTool", "resumeInvocation", "recordResumed",
   "toolReady", "saveTool"}
HoldsChild == {"addTask", "saveDispatch", "mergeTask", "mergeAgent", "saveMerge"}
HoldsResult == {"finish", "saveCompleted", "mergeTask", "mergeAgent", "saveMerge"}

\* Every row and local has a value of its type, and the locals the next step
\* relies on are set: no step of the orchestrator uses an id or a result that
\* was never assigned.
TypeOK ==
  /\ runStatus \in RunStatus \cup {None}
  /\ agentStatus \in [Agents -> AgentStatus \cup {None}]
  /\ ckpt \in [Agents -> CheckpointType]
  /\ task \in [Workers -> Results \cup {"created", None}]
  /\ invStatus \in [Invocations -> {"waiting_for_approval", "completed", "failed", None}]
  /\ owner \in [Invocations -> Agents \cup {None}]
  /\ approval \in [Invocations -> {"pending", "approved", "rejected", None}]
  /\ events \subseteq {"run.completed", "run.failed", "run.cancelled"}
  /\ phase \in {"up", "stopping", "down"}
  /\ creator \in {"persist", "event", "link", "failRun", "emitFailed", "done", "raised"}
  /\ pc \in ExecutorPC
  /\ agent \in Agents
  /\ child \in Workers \cup {None}
  /\ cur \in Invocations \cup {None}
  /\ seen \in RunStatus \cup {None}
  /\ out \in Results \cup {None}
  /\ cancelReq \in BOOLEAN
  /\ rpc \in [Requests -> RequestPC]
  /\ rtarget \in [Requests -> Invocations \cup {None}]
  /\ rseen \in [Requests -> RunStatus \cup {None}]
  /\ grants \subseteq Invocations
  /\ effects \in [Invocations -> Nat]
  /\ interrupts \in Nat /\ restarts \in Nat /\ errors \in Nat
  /\ faults \subseteq {"revived", "dropped", "missed"}
  /\ pc \in HoldsInvocation => cur # None
  /\ pc \in HoldsChild \/ agent # Supervisor => child # None
  /\ pc \in {"mergeAgent", "saveMerge"} => agent = Supervisor
  /\ pc \in HoldsResult => out # None
  /\ \A a \in Agents :
       /\ ckpt[a].step = "after_dispatch" => ckpt[a].ref \in Workers
       /\ ckpt[a].step = "waiting_for_approval" => ckpt[a].ref \in Invocations
       /\ ckpt[a].step = "completed" => ckpt[a].result # None
  /\ \A r \in Requests : rpc[r] \in {"approve", "reject"} => rtarget[r] # None

\* A tool behind the approval gate is executed only if its approval was
\* committed as approved, however approve, reject, cancel, resume and crashes
\* interleave with the executor (ToolGateway.execute and
\* resume_approved_invocation never run it on another path).
GatedToolNeedsApproval ==
  \A i \in Invocations : effects[i] > 0 /\ approval[i] # None => i \in grants

\* The runtime keeps the contract of a tool call: the database rows, whatever
\* races and crashes produced them, only ever move as the contract allows.  In
\* particular an outcome is final and a call that has one is not executed again.
Contract == INSTANCE ToolCallContract WITH
  Calls   <- Invocations,
  asked   <- {i \in Invocations : approval[i] # None},
  granted <- grants,
  runs    <- effects,
  outcome <- [i \in Invocations |->
                IF invStatus[i] \in {"completed", "failed"} THEN invStatus[i] ELSE "open"]

KeepsContract == Contract!Spec

\* Repeated resumes and double approvals alone never repeat an outside effect:
\* each repetition needs an executor that was killed, cancelled or ended by a call
\* that raised, midway.
RepeatedEffectNeedsInterrupt ==
  \A i \in Invocations : effects[i] <= 1 + interrupts

\* A run that has ended says so in the log a client follows it by, whoever ended
\* it.  The status and the event are committed together by mark_run_failed only:
\* everywhere else the event is about to be appended, or the append did not
\* return.  A cancel that found its run ended by the executor is no exception.
EndIsLogged ==
  /\ runStatus = "failed" =>
       "run.failed" \in events \/ creator \in {"emitFailed", "raised"}
  /\ runStatus = "completed" =>
       "run.completed" \in events \/ pc = "emitCompleted" \/ interrupts > 0
  /\ runStatus = "cancelled" =>
       \/ "run.cancelled" \in events \/ restarts > 0
       \/ \E r \in Requests : rpc[r] = "emitCancelled" \/ (rpc[r] = "raised" /\ rtarget[r] = None)

\* A run is completed only on top of the supervisor's durable "completed"
\* checkpoint, the one its result is read from.
CompletedRunHasCheckpoint ==
  runStatus = "completed" => ckpt[Supervisor].step = "completed"

\* The model is never asked for a turn of a run that waits for an approval.
WaitingRunDoesNotReason ==
  pc \in {"reason", "saveBeforeModel", "decide"} => runStatus # "waiting_for_approval"

\* A stored result is not lost to a crash, cancel or resume: the result of a
\* completed task, or of a completed invocation that had to be approved, is in
\* the observations of its agent, or the agent's latest checkpoint still names
\* it as what to resume.
NoResultLost ==
  /\ \A w \in Workers : task[w] \in Results =>
       task[w] \in ToSet(Observations(Supervisor))
       \/ (ckpt[Supervisor].step = "after_dispatch" /\ ckpt[Supervisor].ref = w)
  /\ \A i \in Invocations : approval[i] # None /\ invStatus[i] = "completed" =>
       i \in ToSet(Observations(owner[i]))
       \/ (ckpt[owner[i]].step = "waiting_for_approval" /\ ckpt[owner[i]].ref = i)

\* Re-running a merge or a tool completion after an interruption does not put
\* the same result into an agent's observations twice.
MergedOnce ==
  \A a \in Agents : IsInjective(Observations(a))

\* Workers that were added but that no checkpoint and no live executor knows.
Orphans ==
  {w \in Workers :
     /\ agentStatus[w] # None /\ task[w] \in {"created", None}
     /\ child # w
     /\ ~(ckpt[Supervisor].step = "after_dispatch" /\ ckpt[Supervisor].ref = w)}

\* A dispatched worker is abandoned only by an interruption (a crash, a cancel, a
\* repository call that raises) between add_agent and the after_dispatch
\* checkpoint, one worker per interruption.
OrphansNeedInterrupt == Cardinality(Orphans) <= interrupts

\* An active run has an executor, or an approve is about to schedule one.  What
\* may take it away is named: since an executor was last scheduled, a stale write
\* of update_run_status made an ended run active again ("revived"), the executor
\* ended inside its own error handler or before its first step ("dropped"), or an
\* approve that had written RUNNING did not resume the run, because it found the
\* executor of the pause still live or one of its calls raised ("missed"); or the
\* process was restarted with recovery off.
RunServed ==
  phase = "up" /\ creator = "done" /\ runStatus \in Resumable /\ pc = "idle" =>
    \/ faults # {}
    \/ \E r \in Requests : rpc[r] \in {"setAgent", "resume"} /\ rtarget[r] # None
    \/ restarts > 0 /\ ~RecoverOnStartup

\* Every request is answered, with an error if one of its calls raised: a resume
\* or an approve awaits the run's executor, which some other request may have
\* scheduled, cancelled or failed, and no executor waits for a request.  Its turns
\* end: the finite ids stand for that, the code has no turn limit.
RequestsReturn == \A r \in Requests : InFlight(r) ~> ~InFlight(r)

-----------------------------------------------------------------------------
(* Statements of the repository's documents and tests that the code does   *)
(* not keep; each is the property of a run that TLC ends with a            *)
(* counterexample.                                                         *)

\* A cancelled run stays cancelled
\* (tests/integration/test_run_lifecycle.py, test_cancelled_run_does_not_later_complete).
CancelledIsFinal == [][runStatus = "cancelled" => runStatus' = "cancelled"]_vars

\* With nobody rejecting, cancelling or crashing, a run that waits for an
\* approval is not failed under the approver's hands.
WaitingRunNotFailed ==
  [][runStatus = "waiting_for_approval" => runStatus' # "failed"]_vars

\* Resume may be triggered repeatedly without duplicating external effects.
EffectAtMostOnce == \A i \in Invocations : effects[i] <= 1

\* An approved run resumes: the approved tool runs, unless the run has ended.
ApprovedRunResumes ==
  \A i \in Invocations :
    i \in grants ~> (effects[i] > 0 \/ runStatus \in Terminal)
=============================================================================
