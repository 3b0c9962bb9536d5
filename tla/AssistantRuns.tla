--------------------------- MODULE AssistantRuns ---------------------------
(***************************************************************************)
(* One request to the assistant, from its message to the run it starts,    *)
(* the links that lead to the run, and the reply: AssistantService over    *)
(* RunService and WorkflowService.  Requests share nothing but the         *)
(* process, so one stands for all.                                         *)
(*                                                                         *)
(* A request is cut at its awaits: a step is the commit of one repository  *)
(* call with the code up to the next.  update_run_status reads the row and *)
(* writes in a later transaction, and only if the status it read is not    *)
(* terminal and not the new one.                                           *)
(*                                                                         *)
(* Abstracted: what an executor does between its updates of the run's      *)
(* status (module AgentRuntime), events, and reject_approval, which fails  *)
(* the run.  Bounds: one approval is being granted at a time, and clients  *)
(* of a run that was resumed early make one call at a time.                *)
(***************************************************************************)
EXTENDS Integers, FiniteSets

CONSTANTS
  Kinds,       \* of requests, among "chat", "task" and "workflow"
  MaxTasks,    \* bound on the executors that anybody works in or waits for
  MaxCrashes,  \* bound on the crashes
  RecoverOnStartup,  \* settings of RESUME_ACTIVE_RUNS_ON_STARTUP it may start with
  None         \* Python's None

ASSUME KindsAssumption == Kinds \subseteq {"chat", "task", "workflow"}
ASSUME BoundsAssumption == MaxTasks \in Nat \ {0} /\ MaxCrashes \in Nat
ASSUME RecoveryAssumption == RecoverOnStartup \subseteq BOOLEAN

VARIABLES
  kind,          \* of the request
  \* The database.
  message,       \* the user's message is stored
  run,           \* status of the run, None without a row
  workflowLink,  \* WorkflowRunLinkTable has the run
  assistantLink, \* AssistantRunLinkTable has the run
  reply,         \* run_status in the assistant's message, None without one
  pending,       \* an approval waits for a decision
  \* The process.
  up,            \* it runs
  pc,            \* what the request awaits
  local,         \* the request's locals: the executor it waits for, the status it read
  task,          \* the executors: where they are, the status to set, whether they will
  entry,         \* RunService._tasks[run_id], 0 without one
  cancel,        \* calls of cancel_run: where they are, whether they will set it
  approve,       \* a call of approve_approval, in the same way
  crashes,       \* how often the process died
  \* History.
  faults,        \* what went wrong; of the Stalls, since an executor was started
  early          \* the run was resumed before its request dispatched it

rows == <<message, run, workflowLink, assistantLink, reply>>
process == <<up, crashes>>
request == <<pc, local>>
approval == <<pending, approve>>
history == <<faults, early>>
vars == <<kind, rows, process, request, task, entry, cancel, approval, history>>

Tasks == 1..MaxTasks
Callers == {"client", "request"}     \* of cancel_run
Terminal == {"completed", "failed", "cancelled"}
Statuses == Terminal \cup {"created", "running", "waiting_for_approval"}
Active == {"created", "running"}
Over == {"done", "raised"}

ASSUME NoneAssumption == None \notin Statuses

TaskAt(at) == [at |-> at, to |-> None, writes |-> FALSE]
NoTask == TaskAt("done")
NoCall == [at |-> "idle", writes |-> FALSE]
Live(i) == task[i].at \notin Over
Executing == {i \in Tasks : Live(i)}

\* update_run_status: it will write unless the status that it reads is terminal
\* or the new one, and then it does.  A terminal status that was set in between
\* is lost.
Writes(to) == run \notin Terminal \cup {to}
Updated_Anyway(writes, to) == to               \* mutant: whatever it read
Updated(writes, to) == IF writes THEN to ELSE run
Update(writes, to) ==
  /\ run' = Updated(writes, to)
  /\ faults' = IF writes /\ run \in Terminal \ {to} THEN faults \cup {"lost"} ELSE faults

\* What leaves a run without an executor until somebody starts one.
Stalls == {"dropped", "unresumed", "unrecovered"}

\* _schedule_run_task.  The name of an executor that is over, and that the
\* request does not wait for, is used again.
Unused == {i \in Tasks : ~Live(i) /\ ~(pc = "await" /\ local.task = i)}
Schedule_Unrecorded(i) ==                      \* mutant: _tasks does not have it
  /\ i \in Unused /\ \A j \in Unused : i <= j
  /\ task' = [task EXCEPT ![i] = TaskAt("start")]
  /\ entry' = entry
  /\ faults' = faults \ Stalls
Schedule(i) ==
  /\ i \in Unused /\ \A j \in Unused : i <= j
  /\ task' = [task EXCEPT ![i] = TaskAt("start")]
  /\ entry' = i
  /\ faults' = faults \ Stalls

\* resume_run's and cancel_run's test.
InFlight_Never == FALSE                        \* mutant: never looks
InFlight == entry # 0 /\ Live(entry)

-----------------------------------------------------------------------------
(* The request.                                                            *)

At(from, to) == up /\ pc = from /\ pc' = to

\* A step that leaves the executors alone.
Quiet == UNCHANGED <<kind, process, task, entry, cancel, approval, early>>

NoLocal == [task |-> 0, seen |-> None]
Raises(from, fault) ==
  /\ At(from, "raised") /\ Quiet
  /\ faults' = faults \cup fault
  /\ local' = NoLocal
  /\ UNCHANGED rows

\* The user's message.
AddMessage ==
  \/ /\ At("message", "run") /\ Quiet
     /\ message' = TRUE
     /\ UNCHANGED <<run, workflowLink, assistantLink, reply, local, faults>>
  \/ Raises("message", {})

\* _persist_run: the run, then its event.
CreateRun ==
  \/ /\ At("run", "event") /\ Quiet
     /\ run' = "created"
     /\ UNCHANGED <<message, workflowLink, assistantLink, reply, local, faults>>
  \/ Raises("run", {})

\* create_run dispatches the run as soon as its event is stored.
Dispatches(from) ==
  /\ At(from, "link")
  /\ \E i \in Tasks : Schedule(i)
  /\ UNCHANGED <<kind, rows, process, local, cancel, approval, early>>

AppendEvent ==
  \/ kind # "workflow" /\ Dispatches("event")
  \/ kind = "workflow" /\ At("event", "workflow") /\ Quiet /\ UNCHANGED <<rows, local, faults>>
  \/ Raises("event", {"event"})

\* create_run_from_template_launch stores its link before it dispatches.
LinkWorkflow ==
  \/ /\ At("workflow", "dispatch") /\ Quiet
     /\ workflowLink' = TRUE
     /\ UNCHANGED <<message, run, assistantLink, reply, local, faults>>
  \/ At("workflow", "fail") /\ Quiet /\ UNCHANGED <<rows, local, faults>>

DispatchWorkflow_Skips ==                      \* mutant: no link is needed
  Dispatches("dispatch") \/ Dispatches("workflow")
DispatchWorkflow == Dispatches("dispatch")

\* The link failed: the run is failed too.  Nobody else knows of it.
FailRun ==
  \/ /\ At("fail", "raised") /\ Quiet
     /\ run' = "failed"
     /\ UNCHANGED <<message, workflowLink, assistantLink, reply, local, faults>>
  \/ Raises("fail", {"cleanup"})

\* AssistantRepository.create_run_link; if it fails the run is cancelled.
Compensates_Not == Raises("link", {})          \* mutant: the run is left alone
Compensates ==
  /\ At("link", "cleanup")
  /\ cancel' = [cancel EXCEPT !["request"].at = "arrive"]
  /\ UNCHANGED <<kind, rows, process, local, task, entry, approval, history>>

LinkRun ==
  \/ /\ At("link", IF kind = "chat" THEN "resume" ELSE "done") /\ Quiet
     /\ assistantLink' = TRUE
     /\ UNCHANGED <<message, run, workflowLink, reply, local, faults>>
  \/ Compensates

\* _cancel_run_best_effort has returned.
CleanedUp == cancel["request"].at = "idle" /\ Raises("cleanup", {})

\* resume_run: wait for the executor, or for a new one.
ResumeOwn ==
  /\ At("resume", "await")
  /\ \/ InFlight /\ UNCHANGED <<task, entry, faults>>
     \/ ~InFlight /\ \E i \in Tasks : Schedule(i)
  /\ local' = [local EXCEPT !.task = entry']
  /\ UNCHANGED <<kind, rows, process, cancel, approval, early>>

\* It returned, and get_run reads the run; or it was cancelled before its first
\* step, or its handler broke off, and the exception is passed on.  get_run may
\* fail too.
AwaitOwn_Done ==                               \* mutant: the exception is lost
  /\ At("await", "reply") /\ Quiet
  /\ task[local.task].at = "done"
  /\ local' = [task |-> 0, seen |-> run]
  /\ UNCHANGED <<rows, faults>>
AwaitOwn ==
  \/ /\ At("await", "reply") /\ Quiet
     /\ task[local.task].at = "done"
     /\ local' = [task |-> 0, seen |-> run]
     /\ UNCHANGED <<rows, faults>>
  \/ Raises("await", {}) /\ ~Live(local.task)

AddReply ==
  \/ /\ At("reply", "done") /\ Quiet
     /\ reply' = local.seen
     /\ local' = NoLocal
     /\ UNCHANGED <<message, run, workflowLink, assistantLink, faults>>
  \/ Raises("reply", {})

Request ==
  \/ AddMessage \/ CreateRun \/ AppendEvent \/ LinkWorkflow \/ DispatchWorkflow
  \/ FailRun \/ LinkRun \/ CleanedUp \/ ResumeOwn \/ AwaitOwn \/ AddReply

-----------------------------------------------------------------------------
(* Executors: _execute_run.                                                *)

\* The call that asks for an approval stores it.  The last thing an executor does
\* is to take itself out of _tasks.
Goes(i, from, to) ==
  /\ up /\ task[i].at = from
  /\ task' = [task EXCEPT ![i] = TaskAt(to)]
  /\ pending' = (pending \/ to = "ask")
  /\ entry' = IF to \in Over /\ entry = i THEN 0 ELSE entry
  /\ UNCHANGED <<kind, message, workflowLink, assistantLink, reply, process, request,
                 cancel, approve, early>>

\* _require_active_run raises for a run that waits or is over.
RequireActiveRun(i, from, to) ==
  /\ UNCHANGED <<run, faults>>
  /\ \/ run = "cancelled" /\ Goes(i, from, "done")
     \/ run \in Active /\ Goes(i, from, to)
     \/ run \notin Active \cup {"cancelled"} /\ Goes(i, from, "fail")

StartExecutor(i) == RequireActiveRun(i, "start", "begin")

\* It reads the row that it is to set to RUNNING, and later to what came out.
ReadRun(i, from, to) ==
  /\ up /\ task[i].at = from
  /\ task' = [task EXCEPT ![i] = [at |-> "set", to |-> to, writes |-> Writes(to)]]
  /\ UNCHANGED <<kind, rows, process, request, entry, cancel, approval, history>>

After(to) ==
  CASE to = "running" -> "work" [] to = "waiting_for_approval" -> "paused" [] OTHER -> "done"
SetRun(i) ==
  /\ Goes(i, "set", After(task[i].to))
  /\ Update(task[i].writes, task[i].to)

\* A turn asks for an approval, or finds the run cancelled.
LeaveWork(i) ==
  /\ UNCHANGED <<run, faults>>
  /\ \/ Goes(i, "work", "ask")
     \/ run = "cancelled" /\ Goes(i, "work", "done")

\* The supervisor's pause ends the executor; a worker's returns to the
\* supervisor, which takes its text and goes on.
LeavePause(i) ==
  \/ Goes(i, "paused", "done") /\ UNCHANGED <<run, faults>>
  \/ RequireActiveRun(i, "paused", "work")

\* The handlers of _execute_run, and what may fail before them: any call.
Handling(t) == t.at \in {"cancelling", "fail"} \/ (t.at = "set" /\ t.to = "failed")
CallRaises(i) ==
  /\ Live(i) /\ ~Handling(task[i])
  /\ Goes(i, task[i].at, "fail") /\ UNCHANGED <<run, faults>>

\* except asyncio.CancelledError.
HandleCancel(i) ==
  /\ UNCHANGED <<run, faults>>
  /\ \/ run = "cancelled" /\ Goes(i, "cancelling", "done")
     \/ run # "cancelled" /\ Goes(i, "cancelling", "fail")

\* fail_run: mark_run_failed leaves a run that is over.
FailOwn(i) ==
  \/ run \in Terminal /\ Goes(i, "fail", "done") /\ UNCHANGED <<run, faults>>
  \/ run \notin Terminal /\ ReadRun(i, "fail", "failed")

\* A call of a handler fails: the run keeps its status.
DropTask(i) ==
  /\ Handling(task[i])
  /\ Goes(i, task[i].at, "raised")
  /\ faults' = faults \cup {"dropped"} /\ UNCHANGED run

Executor(i) ==
  \/ StartExecutor(i) \/ ReadRun(i, "begin", "running") \/ LeaveWork(i)
  \/ ReadRun(i, "ask", "waiting_for_approval") \/ ReadRun(i, "work", "completed")
  \/ SetRun(i) \/ LeavePause(i) \/ CallRaises(i)
  \/ HandleCancel(i) \/ FailOwn(i) \/ DropTask(i)

\* task.cancel(): a task that has not begun, or is in a handler, just ends.
Interrupted(t) ==
  TaskAt(IF t.at = "start" \/ Handling(t) THEN "raised" ELSE "cancelling")

-----------------------------------------------------------------------------
(* cancel_run, called by a client or by the request itself.                *)

CancelStep(c, from, to, writes) ==
  /\ up /\ cancel[c].at = from
  /\ cancel' = [cancel EXCEPT ![c] = [at |-> to, writes |-> writes]]
  /\ UNCHANGED <<kind, message, workflowLink, assistantLink, reply, process, request, entry,
                 approval, early>>

CheckRun(c) ==
  /\ CancelStep(c, "arrive", IF run \in Terminal THEN "idle" ELSE "read", FALSE)
  /\ UNCHANGED <<run, task, faults>>
ReadForCancel(c) == CancelStep(c, "read", "set", Writes("cancelled")) /\ UNCHANGED <<run, task, faults>>
SetCancelled(c) ==
  /\ CancelStep(c, "set", "task", FALSE)
  /\ Update(cancel[c].writes, "cancelled")
  /\ UNCHANGED task
CancelTask(c) ==
  /\ CancelStep(c, "task", "idle", FALSE)
  /\ task' = IF InFlight THEN [task EXCEPT ![entry] = Interrupted(@)] ELSE task
  /\ UNCHANGED <<run, faults>>

CancelRun(c) == CheckRun(c) \/ ReadForCancel(c) \/ SetCancelled(c) \/ CancelTask(c)

\* One of its calls fails.  The request does not mind.
CancelFails(c) ==
  /\ cancel[c].at # "idle"
  /\ CancelStep(c, cancel[c].at, "idle", FALSE)
  /\ faults' = IF c = "request" THEN faults \cup {"cleanup"} ELSE faults
  /\ UNCHANGED <<run, task>>

-----------------------------------------------------------------------------
(* Clients and the process.                                                *)

\* A client has the run's id from the list of workflow runs, from the
\* session's activity or from the response.
Known == workflowLink \/ assistantLink \/ pc = "done"

\* The bound.
OneCall == early => cancel["client"].at = "idle" /\ approve.at = "idle"

ClientCancels ==
  /\ Known /\ OneCall /\ run \notin Terminal
  /\ CancelStep("client", "idle", "read", FALSE) /\ UNCHANGED <<run, task, faults>>

\* resume_run starts an executor.
Resumes ==
  /\ up /\ ~InFlight
  /\ \E i \in Tasks : Schedule(i)
  /\ early' = (early \/ pc = "dispatch")
  /\ UNCHANGED <<kind, rows, process, request, cancel, pending>>

\* That it waits for one changes nothing.
ClientResumes == Known /\ Resumes /\ UNCHANGED approve

\* approve_approval stores the approval, sets the run to RUNNING and resumes it.
ClientApproves ==
  /\ up /\ pending /\ OneCall /\ approve.at = "idle"
  /\ pending' = FALSE
  /\ approve' = [approve EXCEPT !.at = "read"]
  /\ UNCHANGED <<kind, rows, process, request, task, entry, cancel, history>>

ApproveStep(from, to, writes) ==
  /\ up /\ approve.at = from
  /\ approve' = [at |-> to, writes |-> writes]
  /\ UNCHANGED <<kind, message, workflowLink, assistantLink, reply, process, request, task,
                 entry, cancel, pending, early>>

ReadForApprove == ApproveStep("read", "set", Writes("running")) /\ UNCHANGED <<run, faults>>
SetApproved == ApproveStep("set", "resume", FALSE) /\ Update(approve.writes, "running")

\* An executor that has paused, or found the run waiting as it pauses, may end
\* without another look at it.
Pausing(t) ==
  \/ t.at = "paused"
  \/ t.at = "set" /\ t.to = "waiting_for_approval" /\ ~t.writes

ResumeApproved ==
  \/ approve.at = "resume" /\ Resumes /\ approve' = NoCall
  \/ /\ ApproveStep("resume", "idle", FALSE) /\ InFlight /\ UNCHANGED run
     /\ faults' = IF Pausing(task[entry]) THEN faults \cup {"unresumed"} ELSE faults

\* One of its calls fails.
ApproveFails ==
  /\ approve.at # "idle"
  /\ ApproveStep(approve.at, "idle", FALSE) /\ UNCHANGED run
  /\ faults' = IF approve.at = "resume" THEN faults \cup {"unresumed"} ELSE faults

Approve == ReadForApprove \/ SetApproved \/ ResumeApproved \/ ApproveFails

\* The process dies.
Crash ==
  /\ up /\ crashes < MaxCrashes
  /\ up' = FALSE /\ crashes' = crashes + 1
  /\ pc' = IF pc = "done" THEN "done" ELSE "raised"
  /\ task' = [i \in Tasks |-> NoTask]
  /\ entry' = 0
  /\ cancel' = [c \in Callers |-> NoCall]
  /\ approve' = NoCall
  /\ faults' = IF pc = "done" THEN faults ELSE faults \cup {"crash"}
  /\ local' = NoLocal
  /\ UNCHANGED <<kind, rows, pending, early>>

\* It starts again.  Where it is set to, resume_active_runs_in_background takes
\* up the run, or fails it if its supervisor was caught at work.
Recovered_Created == run = "created"           \* mutant: running ones are forgotten
Recovered == run \in Active
Restart ==
  /\ ~up /\ up' = TRUE
  /\ \/ ~Recovered /\ UNCHANGED <<run, task, entry, faults>>
     \/ /\ Recovered /\ FALSE \in RecoverOnStartup
        /\ faults' = faults \cup {"unrecovered"} /\ UNCHANGED <<run, task, entry>>
     \/ /\ Recovered /\ TRUE \in RecoverOnStartup
        /\ \/ UNCHANGED run /\ \E i \in Tasks : Schedule(i)
           \/ run' = "failed" /\ UNCHANGED <<task, entry, faults>>
  /\ UNCHANGED <<kind, message, workflowLink, assistantLink, reply, request, cancel, crashes,
                 approval, early>>

-----------------------------------------------------------------------------
Init ==
  /\ kind \in Kinds
  /\ message = FALSE /\ run = None /\ workflowLink = FALSE /\ assistantLink = FALSE
  /\ reply = None
  /\ up = TRUE /\ pc = "message" /\ local = NoLocal
  /\ task = [i \in Tasks |-> NoTask] /\ entry = 0
  /\ cancel = [c \in Callers |-> NoCall]
  /\ pending = FALSE /\ approve = NoCall
  /\ crashes = 0 /\ faults = {} /\ early = FALSE

Next ==
  \/ Request
  \/ \E i \in Tasks : Executor(i)
  \/ \E c \in Callers : CancelRun(c) \/ CancelFails(c)
  \/ ClientCancels \/ ClientResumes \/ ClientApproves \/ Approve
  \/ Crash \/ Restart

\* The event loop serves the request and what it waits for; the turns and the
\* pauses of an executor come to an end.
Fairness ==
  /\ WF_vars(Request) /\ WF_vars(CancelRun("request"))
  /\ WF_vars(pc = "await" /\ Executor(local.task))
  /\ SF_vars(pc = "await" /\ ReadRun(local.task, "work", "completed"))

Spec == Init /\ [][Next]_vars /\ Fairness

-----------------------------------------------------------------------------
(* Properties.                                                             *)

PCs == {"message", "run", "event", "workflow", "dispatch", "fail", "link", "cleanup",
        "resume", "await", "reply"} \cup Over

RunStatus == {None} \cup Statuses
Written == {"running", "waiting_for_approval", "completed", "failed"}   \* by an executor
Local == [task : 0..MaxTasks, seen : RunStatus]
TaskState ==
  [at : {"start", "begin", "work", "ask", "set", "paused", "cancelling", "fail"} \cup Over,
   to : {None} \cup Written, writes : BOOLEAN]
CancelState == [at : {"idle", "arrive", "read", "set", "task"}, writes : BOOLEAN]
ApproveState == [at : {"idle", "read", "set", "resume"}, writes : BOOLEAN]
Faults == {"event", "cleanup", "crash", "lost"} \cup Stalls

\* Every variable has its type, the request waits for an executor, and only a
\* task that has read the row has something to write.
TypeOK ==
  /\ kind \in Kinds
  /\ message \in BOOLEAN /\ workflowLink \in BOOLEAN /\ assistantLink \in BOOLEAN
  /\ run \in RunStatus /\ reply \in RunStatus
  /\ up \in BOOLEAN /\ crashes \in 0..MaxCrashes /\ pc \in PCs
  /\ local \in Local /\ entry \in 0..MaxTasks
  /\ task \in [Tasks -> TaskState] /\ cancel \in [Callers -> CancelState]
  /\ pending \in BOOLEAN /\ approve \in ApproveState
  /\ faults \subseteq Faults
  /\ early \in BOOLEAN
  /\ pc = "await" => local.task # 0
  /\ \A i \in Tasks : task[i].at = "set" <=> task[i].to # None

\* A request that is over leaves no run behind that goes on without being
\* shown in its session, unless the process died, the run's first event or
\* the clean-up itself failed, or the cancellation was overwritten.
NoOrphan ==
  pc \in Over /\ run \notin Terminal \cup {None} /\ ~assistantLink =>
    faults \cap {"crash", "event", "cleanup", "lost"} # {}

\* Two executors work on a run only if a client resumed it before its request
\* dispatched it.
SoleExecutor == Cardinality(Executing) > 1 => early

\* A workflow's run is executed under its workflow link, unless the process
\* died before the link was stored.
LinkedFirst == kind = "workflow" /\ Executing # {} => workflowLink \/ "crash" \in faults

\* An outcome that the reply tells the user stays the run's outcome, and the
\* reply's run is linked to the message, unless a terminal status was overwritten.
ReplyStands ==
  reply # None => assistantLink /\ (reply \in Terminal => run = reply \/ "lost" \in faults)

\* What the request awaits before anybody else can know of its run.
Private == {"message", "run", "event", "workflow", "fail"}

\* A run that was dispatched, is not over and does not wait for an approval has
\* an executor that is not about to pause, or an approval is about to resume it.
\* The ways it loses both: the request broke off before the dispatch or could
\* not clean up, a terminal status was overwritten, the executor's own fail_run
\* failed, the approval found an executor that was pausing or broke off, or the
\* process died and was not set to recover.
NotStranded ==
  up /\ run \in Active /\ pc \notin Private \cup {"dispatch"} =>
    \/ \E i \in Tasks : Live(i) /\ ~Pausing(task[i])
    \/ approve.at = "resume"
    \/ faults \cap ({"event", "cleanup", "lost"} \cup Stalls) # {}

\* Every request comes to an end: the reply is stored, or it raises.
RequestEnds == <>(pc \in Over)
=============================================================================
