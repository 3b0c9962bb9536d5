------------------------ MODULE AssistantRunsProofs ------------------------
(* Theorems about AssistantRuns, for every number of executors and of      *)
(* crashes.                                                                *)
EXTENDS AssistantRuns, FiniteSetTheorems, TLAPS

\* What every step is made of.
USE NoneAssumption, BoundsAssumption
    DEF vars, rows, process, request, approval, history, At, Quiet, Tasks, Callers,
        Terminal, Statuses, Active, Over, TaskAt, NoTask, NoCall, NoLocal, RunStatus, Written

-----------------------------------------------------------------------------
(* Type correctness.                                                       *)

LEMMA TypeInit == Init => TypeOK
<1> SUFFICES ASSUME Init PROVE TypeOK OBVIOUS
<1>1. /\ local \in Local /\ task \in [Tasks -> TaskState] /\ cancel \in [Callers -> CancelState]
      /\ approve \in ApproveState
  BY DEF Init, Local, TaskState, CancelState, ApproveState
<1>2. \A i \in Tasks : task[i].at # "set" /\ task[i].to = None BY DEF Init
<1>3. /\ pc \in PCs /\ pc # "await" /\ entry \in 0..MaxTasks /\ crashes \in 0..MaxCrashes
      /\ run \in RunStatus /\ reply \in RunStatus /\ faults \subseteq Faults /\ kind \in Kinds
  BY DEF Init, PCs
<1>4. up \in BOOLEAN /\ early \in BOOLEAN /\ message \in BOOLEAN /\ workflowLink \in BOOLEAN
      /\ assistantLink \in BOOLEAN /\ pending \in BOOLEAN
  BY DEF Init
<1>5. QED BY <1>1, <1>2, <1>3, <1>4 DEF TypeOK

\* The shapes of the steps: a request that writes rows or raises, an executor
\* that starts, moves or reads the row, and a call of cancel_run that moves.
LEMMA TypeWrites ==
  ASSUME TypeOK, Quiet, UNCHANGED local, pc' \in PCs, pc' # "await",
         message' \in BOOLEAN, workflowLink' \in BOOLEAN, assistantLink' \in BOOLEAN,
         run' \in RunStatus, reply' \in RunStatus, faults' \in SUBSET Faults
  PROVE  TypeOK'
BY DEF TypeOK

LEMMA TypeParts ==
  ASSUME TypeOK
  PROVE  /\ message \in BOOLEAN /\ workflowLink \in BOOLEAN /\ assistantLink \in BOOLEAN
         /\ run \in RunStatus /\ reply \in RunStatus /\ faults \in SUBSET Faults
BY DEF TypeOK

LEMMA TypeRaises ==
  ASSUME TypeOK, NEW from, NEW fault \in SUBSET Faults, Raises(from, fault)
  PROVE  TypeOK'
<1>1. [task |-> 0, seen |-> None] \in Local BY DEF Local
<1>2. QED BY <1>1 DEF Raises, TypeOK, PCs

LEMMA TaskStarts ==
  ASSUME TypeOK, NEW i \in Tasks, Schedule(i)
  PROVE  /\ ~Live(i) /\ entry' = i /\ entry' # 0 /\ faults' = faults \ Stalls
         /\ task' = [task EXCEPT ![i] = [at |-> "start", to |-> None, writes |-> FALSE]]
         /\ task' \in [Tasks -> TaskState]
         /\ \A j \in Tasks : task'[j].at = "set" <=> task'[j].to # None
<1>1. ~Live(i) /\ entry' = i /\ entry' # 0 /\ faults' = faults \ Stalls BY DEF Schedule, Unused
<1>2. task' = [task EXCEPT ![i] = [at |-> "start", to |-> None, writes |-> FALSE]]
  BY DEF Schedule
<1>3. [at |-> "start", to |-> None, writes |-> FALSE] \in TaskState BY DEF TaskState
<1>4. QED BY <1>1, <1>2, <1>3 DEF TypeOK

Stops == {"begin", "work", "ask", "paused", "cancelling", "fail"} \cup Over
LEMMA TaskMoves ==
  ASSUME TypeOK, NEW i \in Tasks, NEW from, NEW to \in Stops, Goes(i, from, to)
  PROVE  /\ task' = [task EXCEPT ![i] = [at |-> to, to |-> None, writes |-> FALSE]]
         /\ run' \in RunStatus /\ faults' \in SUBSET Faults => TypeOK'
<1>1. task' = [task EXCEPT ![i] = [at |-> to, to |-> None, writes |-> FALSE]]
  BY DEF Goes
<1>2. [at |-> to, to |-> None, writes |-> FALSE] \in TaskState BY DEF TaskState, Stops
<1>3. \A j \in Tasks : task'[j].at = "set" <=> task'[j].to # None
  BY <1>1 DEF TypeOK, Stops
<1>4. ASSUME run' \in RunStatus, faults' \in SUBSET Faults PROVE TypeOK'
  <2>1. task' \in [Tasks -> TaskState] BY <1>1, <1>2 DEF TypeOK
  <2>2. UNCHANGED <<kind, message, workflowLink, assistantLink, reply, up, crashes, pc, local,
                    cancel, approve, early>>
    BY DEF Goes
  <2>3. pending' \in BOOLEAN /\ entry' \in 0..MaxTasks BY DEF Goes, TypeOK
  <2>4. QED BY <1>3, <1>4, <2>1, <2>2, <2>3 DEF TypeOK
<1>5. QED BY <1>1, <1>4

LEMMA TypeReadRun ==
  ASSUME TypeOK, NEW i \in Tasks, NEW from, NEW to \in Written, ReadRun(i, from, to)
  PROVE  TypeOK'
<1>1. [at |-> "set", to |-> to, writes |-> Writes(to)] \in TaskState BY DEF TaskState, Writes
<1>2. \A j \in Tasks : task'[j].at = "set" <=> task'[j].to # None BY DEF ReadRun, TypeOK
<1>3. QED BY <1>1, <1>2 DEF ReadRun, TypeOK

LEMMA CancelMoves ==
  ASSUME TypeOK, NEW c \in Callers, NEW from, NEW to \in {"idle", "arrive", "read", "set", "task"},
         NEW writes \in BOOLEAN, CancelStep(c, from, to, writes)
  PROVE  /\ run' \in RunStatus /\ faults' \in SUBSET Faults /\ task' \in [Tasks -> TaskState]
            /\ (\A j \in Tasks : task'[j].at = "set" <=> task'[j].to # None) => TypeOK'
         /\ run' \in RunStatus /\ faults' \in SUBSET Faults /\ task' = task => TypeOK'
<1>1. [at |-> to, writes |-> writes] \in CancelState BY DEF CancelState
<1>2. QED BY <1>1 DEF CancelStep, TypeOK

LEMMA TypeUpdate ==
  ASSUME TypeOK, NEW writes \in BOOLEAN, NEW to \in Statuses, Update(writes, to)
  PROVE  run' \in RunStatus /\ faults' \in SUBSET Faults
BY DEF TypeOK, Update, Updated, Faults

LEMMA TypeRequest ==
  ASSUME TypeOK, Request
  PROVE  TypeOK'
<1>1. ASSUME NEW from, Dispatches(from) PROVE TypeOK'
  <2>1. PICK i \in Tasks : Schedule(i) BY <1>1 DEF Dispatches
  <2>2. /\ UNCHANGED <<kind, rows, process, local, cancel, approval, early>> /\ pc' = "link"
    BY <1>1 DEF Dispatches
  <2>3. QED BY <2>1, <2>2, TaskStarts DEF TypeOK, PCs
<1>2. ASSUME NEW from, NEW fault \in SUBSET Faults, Raises(from, fault) PROVE TypeOK'
  BY <1>2, TypeRaises
<1>3. CASE AddMessage
  <2>1. CASE /\ Quiet /\ pc' = "run" /\ message' = TRUE
             /\ UNCHANGED <<run, workflowLink, assistantLink, reply, local, faults>>
    BY <2>1, TypeParts, TypeWrites DEF PCs
  <2>2. CASE Raises("message", {}) BY <1>2, <2>2
  <2>3. QED BY <1>3, <2>1, <2>2 DEF AddMessage
<1>4. CASE CreateRun
  <2>1. CASE /\ Quiet /\ pc' = "event" /\ run' = "created"
             /\ UNCHANGED <<message, workflowLink, assistantLink, reply, local, faults>>
    BY <2>1, TypeParts, TypeWrites DEF PCs
  <2>2. CASE Raises("run", {}) BY <1>2, <2>2
  <2>3. QED BY <1>4, <2>1, <2>2 DEF CreateRun
<1>5. CASE AppendEvent
  <2>1. CASE Dispatches("event") \/ Raises("event", {"event"}) BY <1>1, <1>2, <2>1 DEF Faults
  <2>2. CASE At("event", "workflow") /\ Quiet /\ UNCHANGED <<rows, local, faults>>
    BY <2>2 DEF TypeOK, PCs
  <2>3. QED BY <1>5, <2>1, <2>2 DEF AppendEvent
<1>6. CASE LinkWorkflow
  <2>1. /\ Quiet /\ pc' \in {"dispatch", "fail"} /\ workflowLink' \in {TRUE, workflowLink}
        /\ UNCHANGED <<message, run, assistantLink, reply, local, faults>>
    BY <1>6 DEF LinkWorkflow
  <2>2. workflowLink' \in BOOLEAN BY <2>1, TypeParts
  <2>3. QED BY <2>1, <2>2, TypeParts, TypeWrites DEF PCs
<1>7. CASE DispatchWorkflow BY <1>1, <1>7 DEF DispatchWorkflow
<1>8. CASE FailRun
  <2>1. CASE /\ Quiet /\ pc' = "raised" /\ run' = "failed"
             /\ UNCHANGED <<message, workflowLink, assistantLink, reply, local, faults>>
    BY <2>1, TypeParts, TypeWrites DEF PCs
  <2>2. CASE Raises("fail", {"cleanup"}) BY <1>2, <2>2 DEF Faults
  <2>3. QED BY <1>8, <2>1, <2>2 DEF FailRun
<1>9. CASE LinkRun
  <2>1. CASE Compensates
    <3>1. cancel' \in [Callers -> CancelState] BY <2>1 DEF Compensates, TypeOK, CancelState
    <3>2. QED BY <2>1, <3>1 DEF Compensates, TypeOK, PCs
  <2>2. CASE ~Compensates
    <3>1. /\ Quiet /\ pc' \in {"resume", "done"} /\ assistantLink' = TRUE
          /\ UNCHANGED <<message, run, workflowLink, reply, local, faults>>
      BY <1>9, <2>2 DEF LinkRun
    <3>2. QED BY <3>1, TypeParts, TypeWrites DEF PCs
  <2>3. QED BY <2>1, <2>2
<1>10. CASE CleanedUp BY <1>2, <1>10 DEF CleanedUp, Faults
<1>11. CASE ResumeOwn
  <2>1. /\ local' = [local EXCEPT !.task = entry'] /\ pc' = "await"
        /\ UNCHANGED <<kind, rows, process, cancel, approval, early>>
    BY <1>11 DEF ResumeOwn
  <2>2. ASSUME entry' \in 1..MaxTasks PROVE local' \in Local /\ local'.task # 0
    BY <2>1, <2>2 DEF Local, TypeOK
  <2>3. CASE InFlight /\ UNCHANGED <<task, entry, faults>>
    BY <2>1, <2>2, <2>3 DEF InFlight, TypeOK, PCs
  <2>4. ASSUME NEW i \in Tasks, Schedule(i) PROVE TypeOK'
    BY <2>1, <2>2, <2>4, TaskStarts DEF TypeOK, PCs
  <2>5. QED BY <1>11, <2>3, <2>4 DEF ResumeOwn
<1>12. CASE AwaitOwn
  <2>1. CASE Raises("await", {}) BY <1>2, <2>1
  <2>2. CASE /\ Quiet /\ pc' = "reply" /\ local' = [task |-> 0, seen |-> run]
             /\ UNCHANGED <<rows, faults>>
    <3>1. [task |-> 0, seen |-> run] \in Local BY DEF Local, TypeOK
    <3>2. QED BY <2>2, <3>1 DEF TypeOK, PCs
  <2>3. QED BY <1>12, <2>1, <2>2 DEF AwaitOwn
<1>13. CASE AddReply
  <2>1. local.seen \in RunStatus /\ [task |-> 0, seen |-> None] \in Local BY DEF Local, TypeOK
  <2>2. CASE /\ Quiet /\ pc' = "done" /\ reply' = local.seen /\ local' = NoLocal
             /\ UNCHANGED <<message, run, workflowLink, assistantLink, faults>>
    BY <2>1, <2>2 DEF TypeOK, PCs
  <2>3. CASE Raises("reply", {}) BY <1>2, <2>3
  <2>4. QED BY <1>13, <2>2, <2>3 DEF AddReply
<1>14. QED
  BY <1>3, <1>4, <1>5, <1>6, <1>7, <1>8, <1>9, <1>10, <1>11, <1>12, <1>13 DEF Request

LEMMA TypeExecutor ==
  ASSUME TypeOK, NEW i \in Tasks, Executor(i)
  PROVE  TypeOK'
<1>1. ASSUME NEW from, NEW to \in Stops, Goes(i, from, to), UNCHANGED <<run, faults>>
      PROVE  TypeOK'
  BY <1>1, TaskMoves DEF TypeOK
<1>2. ASSUME NEW from, NEW to \in Written, ReadRun(i, from, to) PROVE TypeOK'
  BY <1>2, TypeReadRun
<1>10. ASSUME NEW from, NEW to \in Stops, RequireActiveRun(i, from, to) PROVE TypeOK'
  BY <1>1, <1>10 DEF RequireActiveRun, Stops
<1>3. CASE StartExecutor(i) BY <1>3, <1>10 DEF StartExecutor, Stops
<1>4. CASE SetRun(i)
  <2>1. task[i].writes \in BOOLEAN /\ task[i].to \in Statuses
    BY <1>4 DEF SetRun, Goes, TypeOK, TaskState
  <2>2. run' \in RunStatus /\ faults' \in SUBSET Faults BY <1>4, <2>1, TypeUpdate DEF SetRun
  <2>3. After(task[i].to) \in Stops BY DEF After, Stops
  <2>4. QED BY <1>4, <2>2, <2>3, TaskMoves DEF SetRun
<1>5. CASE LeaveWork(i) BY <1>1, <1>5 DEF LeaveWork, Stops
<1>6. CASE HandleCancel(i) BY <1>1, <1>6 DEF HandleCancel, Stops
<1>7. CASE FailOwn(i) BY <1>1, <1>2, <1>7 DEF FailOwn, Stops
<1>8. CASE LeavePause(i) \/ CallRaises(i)
  BY <1>1, <1>8, <1>10 DEF LeavePause, CallRaises, Stops
<1>9. CASE DropTask(i)
  <2>1. run' \in RunStatus /\ faults' \in SUBSET Faults
    BY <1>9 DEF DropTask, TypeOK, Faults, Stalls
  <2>2. QED BY <1>9, <2>1, TaskMoves DEF DropTask, Stops
<1>11. QED BY <1>2, <1>3, <1>4, <1>5, <1>6, <1>7, <1>8, <1>9 DEF Executor

LEMMA TypeCancel ==
  ASSUME TypeOK, (\E c \in Callers : CancelRun(c) \/ CancelFails(c)) \/ ClientCancels
  PROVE  TypeOK'
<1>1. run \in RunStatus /\ faults \in SUBSET Faults BY DEF TypeOK
<1>2. ASSUME NEW c \in Callers, CancelRun(c) PROVE TypeOK'
  <2>1. CASE CheckRun(c) BY <1>1, <2>1, CancelMoves DEF CheckRun
  <2>2. CASE ReadForCancel(c) BY <1>1, <2>2, CancelMoves DEF ReadForCancel, Writes
  <2>3. CASE SetCancelled(c)
    <3>1. cancel[c].writes \in BOOLEAN BY DEF TypeOK, CancelState
    <3>2. run' \in RunStatus /\ faults' \in SUBSET Faults
      BY <2>3, <3>1, TypeUpdate DEF SetCancelled
    <3>3. QED BY <2>3, <3>2, CancelMoves DEF SetCancelled
  <2>4. CASE CancelTask(c)
    <3>1. \A t \in TaskState : Interrupted(t) \in TaskState /\ Interrupted(t).at # "set"
                               /\ Interrupted(t).to = None
      BY DEF Interrupted, TaskState
    <3>2. task' = task \/ \E i \in Tasks : task' = [task EXCEPT ![i] = Interrupted(@)]
      BY <2>4 DEF CancelTask, InFlight, TypeOK
    <3>3. /\ task' \in [Tasks -> TaskState]
          /\ \A j \in Tasks : task'[j].at = "set" <=> task'[j].to # None
      BY <3>1, <3>2 DEF TypeOK
    <3>4. QED BY <1>1, <2>4, <3>3, CancelMoves DEF CancelTask
  <2>5. QED BY <1>2, <2>1, <2>2, <2>3, <2>4 DEF CancelRun
<1>3. ASSUME NEW c \in Callers, CancelFails(c) PROVE TypeOK'
  <2>1. faults' \in SUBSET Faults BY <1>1, <1>3 DEF CancelFails, Faults
  <2>2. QED BY <1>1, <1>3, <2>1, CancelMoves DEF CancelFails
<1>4. CASE ClientCancels BY <1>1, <1>4, CancelMoves DEF ClientCancels
<1>5. QED BY <1>2, <1>3, <1>4

LEMMA TypeResumes ==
  ASSUME TypeOK, Resumes, approve' \in {approve, NoCall}
  PROVE  TypeOK'
<1>1. PICK i \in Tasks : Schedule(i) BY DEF Resumes
<1>2. UNCHANGED <<kind, rows, process, request, cancel, pending>> /\ early' \in BOOLEAN
  BY DEF Resumes, TypeOK
<1>3. approve' \in ApproveState
  <2>1. approve \in ApproveState BY DEF TypeOK
  <2>2. NoCall \in ApproveState BY DEF ApproveState
  <2>3. QED BY <2>1, <2>2
<1>4. QED BY <1>1, <1>2, <1>3, TaskStarts DEF TypeOK

LEMMA TypeApproval ==
  ASSUME TypeOK, pending' \in BOOLEAN, approve' \in ApproveState,
         UNCHANGED <<kind, rows, process, request, task, entry, cancel, history>>
  PROVE  TypeOK'
BY DEF TypeOK

LEMMA TypeApprove ==
  ASSUME TypeOK, ClientApproves \/ Approve
  PROVE  TypeOK'
<1>1. run \in RunStatus /\ faults \in SUBSET Faults /\ approve \in ApproveState BY DEF TypeOK
<1>2. ASSUME NEW from, NEW to \in {"idle", "read", "set", "resume"}, NEW writes \in BOOLEAN,
             ApproveStep(from, to, writes), run' \in RunStatus, faults' \in SUBSET Faults
      PROVE  TypeOK'
  <2>1. approve' \in ApproveState BY <1>2 DEF ApproveStep, ApproveState
  <2>2. QED BY <1>2, <2>1 DEF ApproveStep, TypeOK
<1>3. CASE ClientApproves
  <2>1. approve' \in ApproveState BY <1>1, <1>3 DEF ClientApproves, ApproveState
  <2>2. pending' \in BOOLEAN /\ UNCHANGED <<kind, rows, process, request, task, entry, cancel, history>>
    BY <1>3 DEF ClientApproves
  <2>3. QED BY <2>1, <2>2, TypeApproval
<1>4. CASE ReadForApprove BY <1>1, <1>2, <1>4 DEF ReadForApprove, Writes
<1>5. CASE SetApproved
  <2>1. approve.writes \in BOOLEAN BY <1>1 DEF ApproveState
  <2>2. run' \in RunStatus /\ faults' \in SUBSET Faults
    BY <1>5, <2>1, TypeUpdate DEF SetApproved
  <2>3. QED BY <1>2, <1>5, <2>2 DEF SetApproved
<1>6. CASE ResumeApproved \/ ApproveFails
  <2>1. CASE Resumes /\ approve' = NoCall BY <2>1, TypeResumes
  <2>2. ASSUME NEW from, ApproveStep(from, "idle", FALSE), UNCHANGED run,
               faults' \in {faults, faults \cup {"unresumed"}}
        PROVE  TypeOK'
    <3>1. faults' \in SUBSET Faults BY <1>1, <2>2 DEF Faults, Stalls
    <3>2. QED BY <1>1, <1>2, <2>2, <3>1
  <2>3. QED BY <1>6, <2>1, <2>2 DEF ResumeApproved, ApproveFails
<1>7. QED BY <1>3, <1>4, <1>5, <1>6 DEF Approve

LEMMA TypeSurroundings ==
  ASSUME TypeOK, ClientResumes \/ Crash \/ Restart
  PROVE  TypeOK'
<1>1. CASE ClientResumes BY <1>1, TypeResumes DEF ClientResumes, TypeOK
<1>2. CASE Crash
  <2>1. /\ [at |-> "done", to |-> None, writes |-> FALSE] \in TaskState
        /\ [at |-> "idle", writes |-> FALSE] \in CancelState
        /\ [at |-> "idle", writes |-> FALSE] \in ApproveState
        /\ [task |-> 0, seen |-> None] \in Local
    BY DEF TaskState, CancelState, ApproveState, Local
  <2>2. /\ task' \in [Tasks -> TaskState]
        /\ \A j \in Tasks : task'[j].at = "set" <=> task'[j].to # None
    BY <1>2, <2>1 DEF Crash
  <2>3. /\ cancel' \in [Callers -> CancelState] /\ approve' \in ApproveState
        /\ entry' = 0 /\ local' \in Local
    BY <1>2, <2>1 DEF Crash
  <2>4. /\ pc' \in PCs /\ pc' # "await" /\ up' \in BOOLEAN
        /\ UNCHANGED <<kind, rows, pending, early>>
    BY <1>2 DEF Crash, PCs
  <2>5. crashes' \in 0..MaxCrashes BY <1>2 DEF Crash, TypeOK
  <2>6. faults' \in SUBSET Faults BY <1>2 DEF Crash, TypeOK, Faults
  <2>7. QED BY <2>2, <2>3, <2>4, <2>5, <2>6 DEF TypeOK
<1>3. CASE Restart
  <2>1. /\ up' = TRUE
        /\ UNCHANGED <<kind, message, workflowLink, assistantLink, reply, request, cancel, crashes,
                       approval, early>>
    BY <1>3 DEF Restart
  <2>2. ASSUME NEW i \in Tasks, Schedule(i), UNCHANGED run PROVE TypeOK'
    BY <2>1, <2>2, TaskStarts DEF TypeOK
  <2>3. CASE /\ UNCHANGED <<task, entry>> /\ run' \in {run, "failed"}
             /\ faults' \in {faults, faults \cup {"unrecovered"}}
    <3>1. faults' \in SUBSET Faults /\ run' \in RunStatus BY <2>3 DEF TypeOK, Faults, Stalls
    <3>2. QED BY <2>1, <2>3, <3>1 DEF TypeOK
  <2>4. QED BY <1>3, <2>2, <2>3 DEF Restart
<1>4. QED BY <1>1, <1>2, <1>3

LEMMA TypeStep == TypeOK /\ [Next]_vars => TypeOK'
<1> SUFFICES ASSUME TypeOK, [Next]_vars PROVE TypeOK' OBVIOUS
<1>1. CASE UNCHANGED vars BY <1>1 DEF TypeOK
<1>2. QED
  BY <1>1, TypeRequest, TypeExecutor, TypeCancel, TypeApprove, TypeSurroundings DEF Next

\* Every variable keeps its type, and the request has an executor to wait for.
THEOREM TypeCorrect == Spec => []TypeOK
BY TypeInit, TypeStep, PTL DEF Spec

-----------------------------------------------------------------------------
(* The inductive invariant.                                                *)

\* Nobody works on a run that its request has not made known.
Unshared ==
  /\ pc \in Private \/ run = None =>
       /\ Executing = {} /\ ~workflowLink /\ ~assistantLink
       /\ \A c \in Callers : cancel[c].at = "idle"
       /\ ~pending /\ approve.at = "idle"
  /\ pc \in {"message", "run"} => run = None
  /\ pc \in {"event", "workflow", "fail"} => run = "created"
  /\ run = None => pc \in {"message", "run", "raised"}

\* Where the request is tells which links are stored.
Linked ==
  /\ pc \in {"resume", "await", "reply", "done"} => assistantLink
  /\ assistantLink => pc \in {"resume", "await", "reply", "done", "raised"}
  /\ kind = "workflow" /\ (assistantLink \/ pc \in {"dispatch", "link", "cleanup"}) => workflowLink
  /\ cancel["request"].at # "idle" => pc = "cleanup"

\* An approval was asked for by an executor, and so under the workflow link.
Asked ==
  kind = "workflow" /\ (pending \/ approve.at # "idle") => workflowLink \/ "crash" \in faults

\* A process that is down executes nothing, and it took the request with it.
Down == ~up => Executing = {} /\ (pc = "done" \/ (pc = "raised" /\ "crash" \in faults))

\* RunService._tasks has the only executor, which is why looking there before
\* another one is started is enough.
Alone == ~early => Executing \subseteq {entry} /\ (pc = "dispatch" => Executing = {})

\* A terminal status that the request has read is still the run's, and so is one
\* that an update_run_status has found.
Kept(s) == s \in Terminal => run = s \/ "lost" \in faults
Ended == run \in Terminal \/ "lost" \in faults
Outcome ==
  /\ Kept(local.seen) /\ Kept(reply)
  /\ \A i \in Tasks :
       task[i].at = "set" /\ task[i].to \in Terminal /\ ~task[i].writes => Ended
  /\ \A c \in Callers :
       cancel[c].at = "task" \/ (cancel[c].at = "set" /\ ~cancel[c].writes) => Ended
  /\ reply # None => assistantLink

\* The clean-up after a link that failed has ended the run.
Compensated ==
  pc = "cleanup" /\ cancel["request"].at = "idle" => Ended \/ "cleanup" \in faults

IInv ==
  /\ TypeOK /\ Unshared /\ Linked /\ Down /\ Alone /\ Outcome /\ Compensated /\ NotStranded
  /\ Asked /\ NoOrphan /\ LinkedFirst

LEMMA InvInit == Init => IInv
<1> SUFFICES ASSUME Init PROVE IInv OBVIOUS
<1>1. TypeOK BY TypeInit
<1>2. Executing = {} BY DEF Init, Executing, Live
<1>3. QED
  BY <1>1, <1>2, NoneAssumption
  DEF Init, IInv, Private, Asked, Unshared, Linked, Down, Alone, Kept, Ended, Outcome, Compensated, NotStranded,
      NoOrphan, LinkedFirst

-----------------------------------------------------------------------------
(* Steps that keep it.                                                     *)

\* A terminal status stays, or its loss is on record.
Settles ==
  /\ faults \subseteq faults'
  /\ run \in Terminal => run' = run \/ "lost" \in faults'

LEMMA KeptStays ==
  ASSUME NEW s, Kept(s), Settles
  PROVE  s \in Terminal => run' = s \/ "lost" \in faults'
BY DEF Kept, Settles

LEMMA EndedStays ==
  ASSUME Ended, Settles
  PROVE  Ended'
BY DEF Ended, Settles

\* update_run_status: a terminal status, or the one it read, is what the run has.
LEMMA UpdateSettles ==
  ASSUME NEW writes \in BOOLEAN, NEW to \in Statuses, Update(writes, to)
  PROVE  /\ Settles
         /\ run' = (IF writes THEN to ELSE run)
         /\ to \in Terminal /\ (writes \/ Ended) => Ended'
<1>1. /\ run' = (IF writes THEN to ELSE run)
      /\ faults' = (IF writes /\ run \in Terminal \ {to} THEN faults \cup {"lost"} ELSE faults)
  BY DEF Update, Updated
<1>2. QED BY <1>1 DEF Settles, Ended

LEMMA OutcomeStays ==
  ASSUME IInv, Settles, UNCHANGED <<local, reply, assistantLink>>,
         \A i \in Tasks :
            task'[i].at = "set" /\ task'[i].to \in Terminal /\ ~task'[i].writes =>
              Ended' \/ task'[i] = task[i],
         \A c \in Callers :
            cancel'[c].at = "task" \/ (cancel'[c].at = "set" /\ ~cancel'[c].writes) =>
              Ended' \/ cancel'[c] = cancel[c]
  PROVE  Outcome'
<1>1. \A s : Kept(s) => (s \in Terminal => run' = s \/ "lost" \in faults') BY KeptStays
<1>2. Ended => Ended' BY EndedStays
<1>3. (Kept(local.seen) /\ Kept(reply))' BY <1>1 DEF IInv, Outcome, Kept
<1>4. ASSUME NEW i \in Tasks
      PROVE  task'[i].at = "set" /\ task'[i].to \in Terminal /\ ~task'[i].writes => Ended'
  BY <1>2 DEF IInv, Outcome
<1>5. ASSUME NEW c \in Callers
      PROVE  cancel'[c].at = "task" \/ (cancel'[c].at = "set" /\ ~cancel'[c].writes) => Ended'
  BY <1>2 DEF IInv, Outcome
<1>6. (reply # None => assistantLink)' BY DEF IInv, Outcome
<1>7. QED BY <1>3, <1>4, <1>5, <1>6 DEF Outcome

\* A step of an executor changes nothing of the request: what remains to be
\* shown is that a run that is not over still has an executor.
LEMMA ExecutorKeeps ==
  ASSUME IInv, TypeOK', Settles, run' \in Statuses, NEW i \in Tasks, Live(i),
         UNCHANGED <<kind, workflowLink, assistantLink, reply, up, request, cancel, early>>,
         \A j \in Tasks \ {i} : task'[j] = task[j],
         entry' = entry \/ (entry = i /\ ~Live(i)'),
         task'[i].at = "set" /\ task'[i].to \in Terminal /\ ~task'[i].writes => Ended',
         NotStranded'
  PROVE  IInv'
<1>1. Executing' \subseteq Executing /\ i \in Executing BY DEF Executing, Live
<1>2. pc \notin Private /\ run # None BY <1>1 DEF IInv, Unshared
<1>3. faults \subseteq faults' BY DEF Settles
<1>4. Unshared' BY <1>1, <1>2 DEF IInv, Unshared, Private
<1>5. Linked' BY DEF IInv, Linked
<1>6. Down' BY <1>1 DEF IInv, Down
<1>7. Alone'
  <2>1. CASE entry' = entry BY <1>1, <2>1 DEF IInv, Alone
  <2>2. CASE entry = i /\ ~Live(i)'
    <3>1. i \notin Executing' BY <2>2 DEF Executing
    <3>2. QED BY <1>1, <2>2, <3>1 DEF IInv, Alone
  <2>3. QED BY <2>1, <2>2
<1>8. Outcome' BY OutcomeStays
<1>9. Compensated' BY EndedStays, <1>3 DEF IInv, Compensated
<1>10. NoOrphan' BY <1>2, <1>3 DEF IInv, NoOrphan, Settles
<1>11. LinkedFirst' /\ Asked' BY <1>1, <1>3 DEF IInv, LinkedFirst, Asked
<1>12. QED BY <1>4, <1>5, <1>6, <1>7, <1>8, <1>9, <1>10, <1>11 DEF IInv

\* Where an executor goes, and that it leaves _tasks when it is over.
LEMMA GoesKeeps ==
  ASSUME IInv, NEW i \in Tasks, NEW from, from \notin Over, NEW to \in Stops, Goes(i, from, to),
         TypeOK', Settles, run' \in Statuses, NotStranded'
  PROVE  IInv'
<1>1. TypeOK BY DEF IInv
<1>2. Live(i) BY DEF Goes, Live
<1>3. task' = [task EXCEPT ![i] = [at |-> to, to |-> None, writes |-> FALSE]]
  BY <1>1, TaskMoves
<1>4. task'[i] = [at |-> to, to |-> None, writes |-> FALSE]
      /\ \A j \in Tasks \ {i} : task'[j] = task[j]
  BY <1>1, <1>3 DEF TypeOK
<1>5. UNCHANGED <<kind, workflowLink, assistantLink, reply, up, request, cancel, early>>
  BY DEF Goes
<1>6. entry' = entry \/ (entry = i /\ ~Live(i)') BY <1>4 DEF Goes, Live
<1>7. QED BY <1>1, <1>2, <1>4, <1>5, <1>6, ExecutorKeeps DEF Stops

\* An executor that pauses does not count: without it the run is as well served.
LEMMA OthersServe ==
  ASSUME IInv, NEW i \in Tasks, up' = up, pc' = pc, approve' = approve, faults \subseteq faults',
         run' = run, Pausing(task[i]), \A j \in Tasks \ {i} : task'[j] = task[j]
  PROVE  NotStranded'
<1>1. \A j \in Tasks : Live(j) /\ ~Pausing(task[j]) => Live(j)' /\ ~Pausing(task'[j])
  BY DEF Live
<1>2. NotStranded BY DEF IInv
<1>3. QED BY <1>1, <1>2 DEF NotStranded

LEMMA InvExecutor ==
  ASSUME IInv, NEW i \in Tasks, Executor(i)
  PROVE  IInv'
<1>1. TypeOK /\ TypeOK' BY TypeExecutor DEF IInv
<1>2. ASSUME NEW from, NEW to \in Stops \ {"paused"}, Goes(i, from, to), run' = run,
             faults \subseteq faults', from \notin Over,
             to \in Over => run \in Terminal \/ "dropped" \in faults' \/ from = "paused"
      PROVE  IInv'
  <2>1. Live(i) BY <1>2 DEF Goes, Live
  <2>2. task' = [task EXCEPT ![i] = [at |-> to, to |-> None, writes |-> FALSE]]
    BY <1>1, <1>2, TaskMoves
  <2>3. task'[i] = [at |-> to, to |-> None, writes |-> FALSE]
        /\ \A j \in Tasks \ {i} : task'[j] = task[j]
    BY <1>1, <2>2 DEF TypeOK
  <2>4. Settles BY <1>2 DEF Settles
  <2>5. run' \in Statuses BY <1>1, <1>2, <2>1 DEF TypeOK, IInv, Unshared, Executing
  <2>6. NotStranded'
    <3>1. CASE run \in Terminal BY <1>2, <3>1 DEF NotStranded
    <3>2. CASE "dropped" \in faults' BY <3>2 DEF NotStranded, Stalls
    <3>3. CASE from = "paused"
      <4>1. Pausing(task[i]) BY <1>2, <3>3 DEF Goes, Pausing
      <4>2. up' = up /\ pc' = pc /\ approve' = approve BY <1>2 DEF Goes
      <4>3. QED BY <1>2, <2>3, <4>1, <4>2, OthersServe
    <3>4. CASE to \notin Over
      <4>1. Live(i)' /\ ~Pausing(task'[i]) BY <1>2, <2>3, <3>4 DEF Live, Pausing, Stops
      <4>2. QED BY <4>1 DEF NotStranded
    <3>5. QED BY <1>2, <3>1, <3>2, <3>3, <3>4
  <2>7. QED BY <1>1, <1>2, <2>4, <2>5, <2>6, GoesKeeps
<1>3. ASSUME NEW from \in Stops \ Over, NEW to \in Written, ReadRun(i, from, to)
      PROVE  IInv'
  <2>1. Live(i) BY <1>3 DEF ReadRun, Live, Stops
  <2>2. task'[i] = [at |-> "set", to |-> to, writes |-> Writes(to)]
        /\ \A j \in Tasks \ {i} : task'[j] = task[j]
    BY <1>1, <1>3 DEF ReadRun, TypeOK
  <2>3. UNCHANGED <<run, faults>> /\ Settles BY <1>3 DEF ReadRun, Settles
  <2>4. run \in Statuses BY <1>1, <2>1 DEF TypeOK, IInv, Unshared, Executing
  <2>5. NotStranded'
    <3>1. Live(i)' BY <2>2 DEF Live
    <3>2. Pausing(task'[i]) => to = "waiting_for_approval" /\ ~Writes(to) BY <2>2 DEF Pausing
    <3>4. Pausing(task'[i]) => run' \notin Active BY <2>3, <3>2 DEF Writes
    <3>3. QED BY <3>1, <3>4 DEF NotStranded
  <2>6. to \in Terminal /\ ~Writes(to) => Ended' BY <2>3 DEF Writes, Ended
  <2>7. UNCHANGED <<kind, workflowLink, assistantLink, reply, up, request, cancel, early, entry>>
    BY <1>3 DEF ReadRun
  <2>8. QED BY <1>1, <2>1, <2>2, <2>3, <2>4, <2>5, <2>6, <2>7, ExecutorKeeps
<1>4. ASSUME NEW from \in Stops \cup {"start"}, from \notin Over, NEW to \in {"begin", "work"},
             RequireActiveRun(i, from, to)
      PROVE  IInv'
  BY <1>2, <1>4 DEF RequireActiveRun, Stops
<1>5. CASE SetRun(i)
  <2> DEFINE writes == task[i].writes
             to == task[i].to
  <2>1. task[i].at = "set" /\ Goes(i, "set", After(to)) /\ Update(writes, to)
    BY <1>5 DEF SetRun, Goes
  <2>2. writes \in BOOLEAN /\ to \in Written /\ (to \in Terminal /\ ~writes => Ended)
    BY <1>1, <2>1 DEF TypeOK, TaskState, IInv, Outcome
  <2>3. Live(i) BY <2>1 DEF Live
  <2>4. After(to) \in Stops BY DEF After, Stops
  <2>5. task'[i] = [at |-> After(to), to |-> None, writes |-> FALSE]
        /\ \A j \in Tasks \ {i} : task'[j] = task[j]
    <3>1. task' = [task EXCEPT ![i] = [at |-> After(to), to |-> None, writes |-> FALSE]]
      BY <1>1, <2>1, <2>4, TaskMoves
    <3>2. QED BY <1>1, <3>1 DEF TypeOK
  <2>6. /\ Settles /\ run' = (IF writes THEN to ELSE run)
        /\ to \in Terminal /\ (writes \/ Ended) => Ended'
    BY <2>1, <2>2, UpdateSettles
  <2>7. run' \in Statuses
    BY <1>1, <2>2, <2>3, <2>6 DEF TypeOK, IInv, Unshared, Executing
  <2>8. NotStranded'
    <3>1. CASE to = "running"
      <4>1. Live(i)' /\ ~Pausing(task'[i]) BY <2>5, <3>1 DEF Live, Pausing, After
      <4>2. QED BY <4>1 DEF NotStranded
    <3>2. CASE to \in Terminal
      <4>1. Ended' BY <2>2, <2>6, <3>2
      <4>2. QED BY <4>1 DEF NotStranded, Ended
    <3>3. CASE to = "waiting_for_approval" /\ writes
      BY <2>6, <3>3 DEF NotStranded
    <3>4. CASE to = "waiting_for_approval" /\ ~writes
      <4>1. Pausing(task[i]) /\ run' = run BY <2>1, <2>6, <3>4 DEF Pausing
      <4>2. up' = up /\ pc' = pc /\ approve' = approve /\ faults \subseteq faults'
        BY <2>1, <2>6 DEF Goes, Settles
      <4>3. QED BY <2>5, <4>1, <4>2, OthersServe
    <3>5. QED BY <2>2, <3>1, <3>2, <3>3, <3>4
  <2>9. QED BY <1>1, <2>1, <2>4, <2>6, <2>7, <2>8, GoesKeeps
<1>6. CASE StartExecutor(i) BY <1>4, <1>6 DEF StartExecutor, Stops
<1>7. CASE LeaveWork(i) BY <1>2, <1>7 DEF LeaveWork, Stops
<1>8. CASE LeavePause(i)
  <2>1. CASE Goes(i, "paused", "done") /\ UNCHANGED <<run, faults>> BY <1>2, <2>1 DEF Stops
  <2>2. CASE RequireActiveRun(i, "paused", "work") BY <1>4, <2>2 DEF Stops
  <2>3. QED BY <1>8, <2>1, <2>2 DEF LeavePause
<1>9. CASE CallRaises(i) BY <1>2, <1>9 DEF CallRaises, Live, Stops
<1>10. CASE HandleCancel(i) BY <1>2, <1>10 DEF HandleCancel, Stops
<1>11. CASE FailOwn(i) BY <1>2, <1>3, <1>11 DEF FailOwn, Stops
<1>12. CASE DropTask(i)
  <2>1. task[i].at \notin Over BY <1>12 DEF DropTask, Handling
  <2>2. QED BY <1>2, <1>12, <2>1 DEF DropTask, Stops
<1>13. QED BY <1>3, <1>5, <1>6, <1>7, <1>8, <1>9, <1>10, <1>11, <1>12 DEF Executor, Stops

\* A call of cancel_run: besides the call itself it changes the run's status,
\* and it interrupts the executor that _tasks has.
LEMMA CancelKeeps ==
  ASSUME IInv, TypeOK', NEW c \in Callers, cancel[c].at # "idle", NEW from, NEW to, NEW writes,
         CancelStep(c, from, to, writes),
         Settles, run' \in RunStatus, run # None => run' # None,
         to = "task" \/ (to = "set" /\ ~writes) => Ended',
         to = "idle" /\ c = "request" => Ended' \/ "cleanup" \in faults',
         Executing' \subseteq Executing,
         \A i \in Tasks : task'[i] = task[i] \/ task'[i].to = None,
         NotStranded'
  PROVE  IInv'
<1>1. /\ up /\ up' = up
      /\ UNCHANGED <<kind, workflowLink, assistantLink, reply, request, entry, approval, early>>
      /\ \A d \in Callers \ {c} : cancel'[d] = cancel[d]
      /\ cancel'[c] = [at |-> to, writes |-> writes]
  BY DEF CancelStep, IInv, TypeOK
<1>2. pc \notin Private /\ run # None /\ run' # None BY DEF IInv, Unshared
<1>3. faults \subseteq faults' BY DEF Settles
<1>4. Unshared' BY <1>1, <1>2 DEF IInv, Unshared, Private
<1>5. Linked' BY <1>1 DEF IInv, Linked
<1>6. Down' BY <1>1 DEF IInv, Down
<1>7. Alone' BY <1>1 DEF IInv, Alone
<1>8. Outcome'
  <2>1. \A d \in Callers :
           cancel'[d].at = "task" \/ (cancel'[d].at = "set" /\ ~cancel'[d].writes) =>
             Ended' \/ cancel'[d] = cancel[d]
    BY <1>1
  <2>2. \A i \in Tasks :
           task'[i].at = "set" /\ task'[i].to \in Terminal /\ ~task'[i].writes =>
             Ended' \/ task'[i] = task[i]
    OBVIOUS
  <2>3. QED BY <1>1, <2>1, <2>2, OutcomeStays
<1>9. Compensated'
  <2>1. ASSUME cancel'["request"].at = "idle", pc = "cleanup" PROVE Ended' \/ "cleanup" \in faults'
    <3>1. CASE c = "request" BY <1>1, <2>1, <3>1
    <3>2. CASE c # "request"
      BY <1>1, <1>3, <2>1, <3>2, EndedStays DEF IInv, Compensated
    <3>3. QED BY <3>1, <3>2
  <2>2. QED BY <1>1, <2>1 DEF Compensated
<1>10. NoOrphan' BY <1>1, <1>2, <1>3 DEF IInv, NoOrphan, Settles
<1>11. LinkedFirst' /\ Asked' BY <1>1, <1>3 DEF IInv, LinkedFirst, Asked
<1>12. QED BY <1>4, <1>5, <1>6, <1>7, <1>8, <1>9, <1>10, <1>11 DEF IInv

\* A run that has ended, or whose executors go on, is served.
LEMMA ServedStays ==
  ASSUME IInv, Settles, up, pc' = pc, approve' = approve,
         Ended' \/ (UNCHANGED task /\ run' \in {run} \cup Terminal)
  PROVE  NotStranded'
<1>1. CASE Ended' BY <1>1 DEF Ended, NotStranded
<1>2. CASE UNCHANGED task /\ run' \in {run} \cup Terminal
  BY <1>2 DEF IInv, NotStranded, Settles, Live, Pausing
<1>3. QED BY <1>1, <1>2

LEMMA InvCancel ==
  ASSUME IInv, NEW c \in Callers, CancelRun(c)
  PROVE  IInv'
<1>1. TypeOK /\ TypeOK' BY TypeCancel DEF IInv
<1>2. cancel[c].at # "idle" /\ up
  BY DEF CancelRun, CheckRun, ReadForCancel, SetCancelled, CancelTask, CancelStep
<1>3. run \in Statuses BY <1>1, <1>2 DEF TypeOK, IInv, Unshared
<1>4. ASSUME NEW from, NEW to \in {"idle", "read", "set"}, NEW writes \in BOOLEAN,
             CancelStep(c, from, to, writes), UNCHANGED <<run, task, faults>>,
             to = "idle" \/ (to = "set" /\ ~writes) => Ended
      PROVE  IInv'
  <2>1. Settles /\ pc' = pc /\ approve' = approve /\ (Ended => Ended')
    BY <1>4, EndedStays DEF Settles, CancelStep
  <2>2. Executing' \subseteq Executing /\ \A i \in Tasks : task'[i] = task[i]
    BY <1>4 DEF Executing, Live
  <2>3. NotStranded' BY <1>2, <1>4, <2>1, ServedStays
  <2>4. QED BY <1>1, <1>2, <1>3, <1>4, <2>1, <2>2, <2>3, CancelKeeps
<1>5. CASE CheckRun(c) BY <1>4, <1>5 DEF CheckRun, Ended
<1>6. CASE ReadForCancel(c)
  <2>1. ~Writes("cancelled") => Ended BY DEF Writes, Ended
  <2>2. Writes("cancelled") \in BOOLEAN BY DEF Writes
  <2>3. QED BY <1>4, <1>6, <2>1, <2>2 DEF ReadForCancel
<1>7. CASE SetCancelled(c)
  <2>1. CancelStep(c, "set", "task", FALSE) /\ Update(cancel[c].writes, "cancelled") /\ UNCHANGED task
    BY <1>7 DEF SetCancelled
  <2>2. cancel[c].writes \in BOOLEAN /\ (cancel[c].writes \/ Ended)
    BY <1>1, <2>1 DEF TypeOK, CancelState, IInv, Outcome, CancelStep
  <2>3. Settles /\ Ended' /\ run' \in {run, "cancelled"} BY <2>1, <2>2, UpdateSettles
  <2>4. Executing' \subseteq Executing /\ \A i \in Tasks : task'[i] = task[i]
    BY <2>1 DEF Executing, Live
  <2>5. NotStranded' BY <1>2, <2>1, <2>3, ServedStays DEF CancelStep
  <2>6. QED BY <1>1, <1>2, <1>3, <2>1, <2>3, <2>4, <2>5, CancelKeeps
<1>8. CASE CancelTask(c)
  <2>1. /\ CancelStep(c, "task", "idle", FALSE) /\ UNCHANGED <<run, faults>>
        /\ task' = IF InFlight THEN [task EXCEPT ![entry] = Interrupted(@)] ELSE task
    BY <1>8 DEF CancelTask
  <2>2. Settles /\ Ended /\ Ended'
    BY <2>1 DEF Settles, CancelStep, IInv, Outcome, Ended
  <2>3. \A t : Interrupted(t).to = None BY DEF Interrupted
  <2>4. \A i \in Tasks : task'[i] = task[i] \/ (Live(i) /\ task'[i].to = None)
    <3>1. InFlight => Live(entry) BY DEF InFlight
    <3>2. QED BY <1>1, <2>1, <2>3, <3>1 DEF TypeOK
  <2>5. Executing' \subseteq Executing BY <2>4 DEF Executing, Live
  <2>6. NotStranded' BY <1>2, <2>1, <2>2, ServedStays DEF CancelStep
  <2>7. QED BY <1>1, <1>2, <1>3, <2>1, <2>2, <2>4, <2>5, <2>6, CancelKeeps
<1>9. QED BY <1>5, <1>6, <1>7, <1>8 DEF CancelRun

LEMMA InvCancelFails ==
  ASSUME IInv, NEW c \in Callers, CancelFails(c)
  PROVE  IInv'
<1>1. TypeOK /\ TypeOK' BY TypeCancel DEF IInv
<1>2. /\ cancel[c].at # "idle" /\ up
      /\ CancelStep(c, cancel[c].at, "idle", FALSE)
      /\ faults' = (IF c = "request" THEN faults \cup {"cleanup"} ELSE faults)
      /\ UNCHANGED <<run, task>>
  BY DEF CancelFails, CancelStep
<1>3. Settles BY <1>2 DEF Settles
<1>4. Executing' \subseteq Executing /\ \A i \in Tasks : task'[i] = task[i]
  BY <1>2 DEF Executing, Live
<1>5. run \in RunStatus BY <1>1 DEF TypeOK
<1>6. NotStranded' BY <1>2, <1>3, ServedStays DEF CancelStep
<1>7. QED BY <1>1, <1>2, <1>3, <1>4, <1>5, <1>6, CancelKeeps

\* Who can know of a run finds its row.
LEMMA KnownRun ==
  ASSUME IInv, Known
  PROVE  pc \notin Private /\ run # None
BY DEF IInv, Unshared, Known, Private

LEMMA InvClientCancels ==
  ASSUME IInv, ClientCancels
  PROVE  IInv'
<1>1. TypeOK /\ TypeOK' BY TypeCancel DEF IInv
<1>2. CancelStep("client", "idle", "read", FALSE) /\ UNCHANGED <<run, task, faults>>
  BY DEF ClientCancels
<1>3. pc \notin Private /\ run # None BY KnownRun DEF ClientCancels
<1>4. /\ UNCHANGED <<kind, workflowLink, assistantLink, reply, up, request, entry, approval, early>>
      /\ cancel'["request"] = cancel["request"] /\ cancel'["client"] = [at |-> "read", writes |-> FALSE]
  BY <1>1, <1>2 DEF CancelStep, TypeOK
<1>5. Executing' = Executing /\ \A i \in Tasks : Live(i)' <=> Live(i)
  BY <1>2 DEF Executing, Live
<1>6. Settles BY <1>2 DEF Settles
<1>7. Unshared' /\ Linked' /\ Down' /\ Alone'
  BY <1>2, <1>3, <1>4, <1>5 DEF IInv, Unshared, Private, Linked, Down, Alone
<1>8. Outcome' BY <1>2, <1>4, <1>6, OutcomeStays
<1>9. Compensated' BY <1>2, <1>4 DEF IInv, Compensated, Ended
<1>10. NotStranded' BY <1>2, <1>4, <1>5 DEF IInv, NotStranded
<1>11. NoOrphan' /\ LinkedFirst' /\ Asked'
  BY <1>2, <1>4, <1>5 DEF IInv, NoOrphan, LinkedFirst, Asked
<1>12. QED BY <1>1, <1>7, <1>8, <1>9, <1>10, <1>11 DEF IInv

-----------------------------------------------------------------------------
(* The request.                                                            *)

\* The executors and the calls of cancel_run stay where they are.
LEMMA QuietKeeps ==
  ASSUME IInv, TypeOK', UNCHANGED <<kind, task, entry, cancel, approval, up, early>>,
         up, Settles, Unshared', Linked', Alone',
         reply' \in {reply, local.seen}, local'.seen \in {local.seen, run', None},
         assistantLink => assistantLink', reply' # None => assistantLink',
         workflowLink => workflowLink',
         pc' # "cleanup",
         NotStranded', NoOrphan'
  PROVE  IInv'
<1>1. Executing' = Executing BY DEF Executing, Live
<1>2. Down' BY DEF Down
<1>3. Outcome'
  <2>1. \A s : Kept(s) => (s \in Terminal => run' = s \/ "lost" \in faults') BY KeptStays
  <2>2. Kept(local.seen) /\ Kept(reply) BY DEF IInv, Outcome
  <2>3. Ended => Ended' BY EndedStays
  <2>4. (Kept(local.seen) /\ Kept(reply))' BY <2>1, <2>2 DEF Kept
  <2>5. QED BY <2>3, <2>4 DEF IInv, Outcome
<1>4. Compensated' BY DEF Compensated
<1>5. LinkedFirst' /\ Asked' BY <1>1 DEF IInv, LinkedFirst, Asked, Settles
<1>6. QED BY <1>2, <1>3, <1>4, <1>5 DEF IInv

LEMMA InvRaises ==
  ASSUME IInv, TypeOK', NEW from, NEW fault, Raises(from, fault),
         \/ from \in {"message", "run", "await", "reply"}
         \/ from # "cleanup" /\ fault \cap {"event", "cleanup"} # {}
         \/ from = "cleanup" /\ cancel["request"].at = "idle"
  PROVE  IInv'
<1>1. /\ UNCHANGED <<rows, kind, task, entry, cancel, approval, up, early>> /\ local' = NoLocal
      /\ up /\ pc = from /\ pc' = "raised" /\ faults' = faults \cup fault
  BY DEF Raises
<1>2. Executing' = Executing /\ \A i \in Tasks : Live(i)' <=> Live(i)
  BY <1>1 DEF Executing, Live
<1>3. Unshared' BY <1>1, <1>2 DEF IInv, Unshared, Private
<1>4. Linked' BY <1>1 DEF IInv, Linked
<1>5. Alone' BY <1>1, <1>2 DEF IInv, Alone
<1>6. NotStranded' BY <1>1, <1>2 DEF IInv, NotStranded, Unshared, Private
<1>7. NoOrphan' BY <1>1 DEF IInv, NoOrphan, Linked, Unshared, Compensated, Ended
<1>8. reply # None => assistantLink BY DEF IInv, Outcome
<1>9. Settles BY <1>1 DEF Settles
<1>10. QED BY <1>1, <1>3, <1>4, <1>5, <1>6, <1>7, <1>8, <1>9, QuietKeeps

\* A new executor of a run that is known, or that its request dispatches.
LEMMA StartKeeps ==
  ASSUME IInv, TypeOK', NEW i \in Tasks, Schedule(i), up',
         UNCHANGED <<kind, run, workflowLink, assistantLink, reply, cancel>>,
         local'.seen = local.seen,
         pc' \notin Private, run # None, Linked',
         pc' = "cleanup" => pc = "cleanup",
         early' \/ (Executing = {} /\ pc' # "dispatch"),
         kind = "workflow" => workflowLink \/ "crash" \in faults,
         NoOrphan'
  PROVE  IInv'
<1>1. TypeOK BY DEF IInv
<1>2. /\ entry' = i /\ faults' = faults \ Stalls
      /\ task'[i] = [at |-> "start", to |-> None, writes |-> FALSE]
      /\ \A j \in Tasks \ {i} : task'[j] = task[j]
  BY <1>1, TaskStarts DEF TypeOK
<1>3. Live(i)' /\ ~Pausing(task'[i]) /\ \A j \in Tasks \ {i} : Live(j)' <=> Live(j)
  BY <1>2 DEF Live, Pausing
<1>4. Executing' \subseteq Executing \cup {i} BY <1>3 DEF Executing
<1>5. Unshared' BY DEF Unshared, Private
<1>6. Down' BY DEF Down
<1>7. Alone' BY <1>2, <1>4 DEF Alone
<1>8. Outcome'
  <2>1. Kept(local.seen)' /\ Kept(reply)' /\ (Ended => Ended')
    BY <1>2 DEF IInv, Outcome, Kept, Ended, Stalls
  <2>2. \A j \in Tasks : task'[j].to # None => task'[j] = task[j] BY <1>2
  <2>3. QED BY <2>1, <2>2 DEF IInv, Outcome
<1>9. Compensated' BY <1>2 DEF IInv, Compensated, Ended, Stalls
<1>10. NotStranded' BY <1>3 DEF NotStranded
<1>11. LinkedFirst' /\ Asked' BY <1>2 DEF LinkedFirst, Asked, Stalls
<1>12. QED BY <1>5, <1>6, <1>7, <1>8, <1>9, <1>10, <1>11 DEF IInv

\* RunService looks into _tasks: if the executor that it finds there is over,
\* there is no other.
LEMMA NobodyElse ==
  ASSUME IInv, ~InFlight
  PROVE  early \/ Executing = {}
<1>1. TypeOK BY DEF IInv
<1>2. \A i \in Executing : i = entry => InFlight BY <1>1 DEF Executing, InFlight, TypeOK
<1>3. QED BY <1>2 DEF IInv, Alone

LEMMA InvDispatches ==
  ASSUME IInv, NEW from, Dispatches(from), TypeOK',
         from = "dispatch" \/ (from = "event" /\ kind # "workflow")
  PROVE  IInv'
<1>1. PICK i \in Tasks : Schedule(i) BY DEF Dispatches
<1>2. /\ up /\ pc = from /\ pc' = "link" /\ up' = up
      /\ UNCHANGED <<kind, rows, local, cancel, approval, early>>
  BY DEF Dispatches
<1>3. run # None /\ pc' \notin Private BY <1>2 DEF IInv, Unshared, Private
<1>4. early' \/ Executing = {} BY <1>2 DEF IInv, Alone, Unshared, Private
<1>5. Linked' BY <1>2 DEF IInv, Linked
<1>6. kind = "workflow" => workflowLink BY <1>2 DEF IInv, Linked
<1>7. NoOrphan' BY <1>2 DEF NoOrphan
<1>8. QED BY <1>1, <1>2, <1>3, <1>4, <1>5, <1>6, <1>7, StartKeeps

LEMMA InvResumeOwn ==
  ASSUME IInv, ResumeOwn, TypeOK'
  PROVE  IInv'
<1>1. TypeOK BY DEF IInv
<1>2. /\ up /\ pc = "resume" /\ pc' = "await" /\ up' = up
      /\ UNCHANGED <<kind, rows, cancel, approval, early>>
  BY DEF ResumeOwn
<1>3. local'.seen = local.seen BY <1>1 DEF ResumeOwn, TypeOK, Local
<1>4. run # None /\ assistantLink BY <1>2 DEF IInv, Unshared, Linked
<1>5. Linked' BY <1>2 DEF IInv, Linked
<1>6. NoOrphan' BY <1>2 DEF NoOrphan
<1>7. CASE UNCHANGED <<task, entry, faults>>
  <2>1. Executing' = Executing /\ \A i \in Tasks : Live(i)' <=> Live(i)
    BY <1>7 DEF Executing, Live
  <2>2. Unshared' BY <1>2, <1>4 DEF Unshared, Private
  <2>3. Alone' BY <1>2, <1>7, <2>1 DEF IInv, Alone
  <2>4. NotStranded' BY <1>2, <1>7, <2>1 DEF IInv, NotStranded, Private
  <2>5. Settles /\ (reply # None => assistantLink) BY <1>2, <1>7 DEF Settles, IInv, Outcome
  <2>6. QED BY <1>2, <1>3, <1>5, <1>6, <1>7, <2>2, <2>3, <2>4, <2>5, QuietKeeps
<1>8. ASSUME ~InFlight, NEW i \in Tasks, Schedule(i) PROVE IInv'
  <2>1. kind = "workflow" => workflowLink BY <1>4 DEF IInv, Linked
  <2>2. early' \/ Executing = {} BY <1>2, <1>8, NobodyElse
  <2>3. pc' \notin Private /\ pc' # "cleanup" /\ pc' # "dispatch" BY <1>2 DEF Private
  <2>4. QED BY <1>2, <1>3, <1>4, <1>5, <1>6, <1>8, <2>1, <2>2, <2>3, StartKeeps
<1>9. QED BY <1>7, <1>8 DEF ResumeOwn

LEMMA InvCompensates ==
  ASSUME IInv, Compensates, TypeOK'
  PROVE  IInv'
<1>1. TypeOK BY DEF IInv
<1>2. /\ up /\ pc = "link" /\ pc' = "cleanup" /\ up' = up
      /\ UNCHANGED <<kind, rows, local, task, entry, approval, history>>
      /\ cancel' = [cancel EXCEPT !["request"].at = "arrive"]
  BY DEF Compensates
<1>3. /\ cancel'["request"].at = "arrive"
      /\ cancel'["client"] = cancel["client"]
  BY <1>1, <1>2 DEF TypeOK, CancelState
<1>4. Executing' = Executing /\ \A i \in Tasks : Live(i)' <=> Live(i)
  BY <1>2 DEF Executing, Live
<1>5. Unshared' /\ Linked' /\ Down' /\ Alone' /\ Compensated'
  BY <1>2, <1>3, <1>4 DEF IInv, Unshared, Private, Linked, Down, Alone, Compensated
<1>6. Settles BY <1>2 DEF Settles
<1>7. Outcome' BY <1>2, <1>3, <1>6, OutcomeStays
<1>8. NotStranded' BY <1>2, <1>4 DEF IInv, NotStranded, Private
<1>9. NoOrphan' /\ LinkedFirst' /\ Asked' BY <1>2, <1>4 DEF IInv, NoOrphan, LinkedFirst, Asked
<1>10. QED BY <1>5, <1>7, <1>8, <1>9 DEF IInv

\* What the request does with its rows while nobody else is disturbed.
LEMMA RowStepKeeps ==
  ASSUME IInv, TypeOK', up, Quiet, Settles, Unshared', Linked',
         pc' # "cleanup", pc' = "dispatch" => Executing = {},
         reply' \in {reply, local.seen}, local'.seen \in {local.seen, run', None},
         assistantLink => assistantLink', reply' # None => assistantLink',
         workflowLink => workflowLink',
         NotStranded', NoOrphan'
  PROVE  IInv'
<1>1. Executing' = Executing BY DEF Executing, Live
<1>2. Alone' BY <1>1 DEF IInv, Alone
<1>3. QED BY <1>2, QuietKeeps

LEMMA InvRequest ==
  ASSUME IInv, Request
  PROVE  IInv'
<1>1. TypeOK /\ TypeOK' BY TypeRequest DEF IInv
<1>2. Quiet => Executing' = Executing /\ \A i \in Tasks : Live(i)' <=> Live(i)
  BY DEF Executing, Live
<1>3. reply # None => assistantLink BY DEF IInv, Outcome
<1>4. CASE AddMessage
  <2>1. CASE Raises("message", {}) BY <1>1, <2>1, InvRaises
  <2>2. CASE ~Raises("message", {})
    <3>1. /\ At("message", "run") /\ Quiet
          /\ UNCHANGED <<run, workflowLink, assistantLink, reply, local, faults>>
      BY <1>4, <2>2 DEF AddMessage
    <3>2. Settles /\ Unshared' /\ Linked'
      BY <1>2, <3>1 DEF Settles, IInv, Unshared, Private, Linked
    <3>3. NotStranded' /\ NoOrphan' BY <3>1 DEF NotStranded, Private, NoOrphan
    <3>4. QED BY <1>1, <1>3, <3>1, <3>2, <3>3, RowStepKeeps
  <2>3. QED BY <2>1, <2>2
<1>5. CASE CreateRun
  <2>1. CASE Raises("run", {}) BY <1>1, <2>1, InvRaises
  <2>2. CASE ~Raises("run", {})
    <3>1. /\ At("run", "event") /\ Quiet /\ run' = "created"
          /\ UNCHANGED <<workflowLink, assistantLink, reply, local, faults>>
      BY <1>5, <2>2 DEF CreateRun
    <3>2. run = None BY <3>1 DEF IInv, Unshared
    <3>3. Settles /\ Unshared' /\ Linked'
      BY <1>2, <3>1, <3>2 DEF Settles, IInv, Unshared, Private, Linked
    <3>4. NotStranded' /\ NoOrphan' BY <3>1 DEF NotStranded, Private, NoOrphan
    <3>5. QED BY <1>1, <1>3, <3>1, <3>3, <3>4, RowStepKeeps
  <2>3. QED BY <2>1, <2>2
<1>6. CASE AppendEvent
  <2>1. CASE Raises("event", {"event"}) BY <1>1, <2>1, InvRaises
  <2>2. CASE kind # "workflow" /\ Dispatches("event") BY <1>1, <2>2, InvDispatches
  <2>3. CASE At("event", "workflow") /\ Quiet /\ UNCHANGED <<rows, local, faults>>
    <3>1. Settles /\ Unshared' /\ Linked'
      BY <1>2, <2>3 DEF Settles, IInv, Unshared, Private, Linked
    <3>2. NotStranded' /\ NoOrphan' BY <2>3 DEF NotStranded, Private, NoOrphan
    <3>3. QED BY <1>1, <1>3, <2>3, <3>1, <3>2, RowStepKeeps
  <2>4. QED BY <1>6, <2>1, <2>2, <2>3 DEF AppendEvent
<1>7. CASE LinkWorkflow
  <2>1. CASE At("workflow", "fail") /\ Quiet /\ UNCHANGED <<rows, local, faults>>
    <3>1. Settles /\ Unshared' /\ Linked'
      BY <1>2, <2>1 DEF Settles, IInv, Unshared, Private, Linked
    <3>2. NotStranded' /\ NoOrphan' BY <2>1 DEF NotStranded, Private, NoOrphan
    <3>3. QED BY <1>1, <1>3, <2>1, <3>1, <3>2, RowStepKeeps
  <2>2. CASE /\ At("workflow", "dispatch") /\ Quiet /\ workflowLink' = TRUE
             /\ UNCHANGED <<message, run, assistantLink, reply, local, faults>>
    <3>1. Settles /\ Unshared' /\ Linked' /\ Executing = {}
      BY <1>2, <2>2 DEF Settles, IInv, Unshared, Private, Linked
    <3>2. NotStranded' /\ NoOrphan' BY <2>2 DEF NotStranded, NoOrphan
    <3>3. QED BY <1>1, <1>3, <2>2, <3>1, <3>2, RowStepKeeps
  <2>3. QED BY <1>7, <2>1, <2>2 DEF LinkWorkflow
<1>8. CASE DispatchWorkflow BY <1>1, <1>8, InvDispatches DEF DispatchWorkflow
<1>9. CASE FailRun
  <2>1. CASE Raises("fail", {"cleanup"}) BY <1>1, <2>1, InvRaises
  <2>2. CASE ~Raises("fail", {"cleanup"})
    <3>1. /\ At("fail", "raised") /\ Quiet /\ run' = "failed"
          /\ UNCHANGED <<message, workflowLink, assistantLink, reply, local, faults>>
      BY <1>9, <2>2 DEF FailRun
    <3>2. run = "created" BY <3>1 DEF IInv, Unshared
    <3>3. Settles /\ Unshared' /\ Linked'
      BY <1>2, <3>1, <3>2 DEF Settles, IInv, Unshared, Private, Linked
    <3>4. NotStranded' /\ NoOrphan' BY <3>1 DEF NotStranded, Private, NoOrphan
    <3>5. QED BY <1>1, <1>3, <3>1, <3>3, <3>4, RowStepKeeps
  <2>3. QED BY <2>1, <2>2
<1>10. CASE LinkRun
  <2>1. CASE Compensates BY <1>1, <2>1, InvCompensates
  <2>2. CASE ~Compensates
    <3>1. /\ At("link", IF kind = "chat" THEN "resume" ELSE "done") /\ Quiet
          /\ assistantLink' = TRUE
          /\ UNCHANGED <<message, run, workflowLink, reply, local, faults>>
      BY <1>10, <2>2 DEF LinkRun
    <3>2. Settles /\ Unshared' /\ Linked'
      BY <1>2, <3>1 DEF Settles, IInv, Unshared, Private, Linked
    <3>3. NotStranded' BY <1>2, <3>1 DEF IInv, NotStranded, Private
    <3>4. NoOrphan' BY <3>1 DEF NoOrphan
    <3>5. QED BY <1>1, <3>1, <3>2, <3>3, <3>4, RowStepKeeps
  <2>3. QED BY <2>1, <2>2
<1>11. CASE CleanedUp BY <1>1, <1>11, InvRaises DEF CleanedUp
<1>12. CASE ResumeOwn BY <1>1, <1>12, InvResumeOwn
<1>13. CASE AwaitOwn
  <2>1. CASE Raises("await", {}) BY <1>1, <2>1, InvRaises
  <2>2. CASE ~Raises("await", {})
    <3>1. /\ At("await", "reply") /\ Quiet /\ UNCHANGED <<rows, faults>>
          /\ local' = [task |-> 0, seen |-> run]
      BY <1>13, <2>2 DEF AwaitOwn
    <3>2. local'.seen = run' BY <1>1, <3>1 DEF TypeOK, Local
    <3>3. Settles /\ Unshared' /\ Linked'
      BY <1>2, <3>1 DEF Settles, IInv, Unshared, Private, Linked
    <3>4. NotStranded' BY <1>2, <3>1 DEF IInv, NotStranded, Private
    <3>5. NoOrphan' BY <3>1 DEF NoOrphan
    <3>6. QED BY <1>1, <1>3, <3>1, <3>2, <3>3, <3>4, <3>5, RowStepKeeps
  <2>3. QED BY <2>1, <2>2
<1>14. CASE AddReply
  <2>1. CASE Raises("reply", {}) BY <1>1, <2>1, InvRaises
  <2>2. CASE ~Raises("reply", {})
    <3>1. /\ At("reply", "done") /\ Quiet /\ reply' = local.seen /\ local' = NoLocal
          /\ UNCHANGED <<message, run, workflowLink, assistantLink, faults>>
      BY <1>14, <2>2 DEF AddReply
    <3>2. assistantLink BY <3>1 DEF IInv, Linked
    <3>3. Settles /\ Unshared' /\ Linked'
      BY <1>2, <3>1 DEF Settles, IInv, Unshared, Private, Linked
    <3>4. NotStranded' BY <1>2, <3>1 DEF IInv, NotStranded, Private
    <3>5. NoOrphan' BY <3>1, <3>2 DEF NoOrphan
    <3>6. QED BY <1>1, <3>1, <3>2, <3>3, <3>4, <3>5, RowStepKeeps
  <2>3. QED BY <2>1, <2>2
<1>15. QED
  BY <1>4, <1>5, <1>6, <1>7, <1>8, <1>9, <1>10, <1>11, <1>12, <1>13, <1>14 DEF Request

-----------------------------------------------------------------------------
(* Clients and the process.                                                *)

LEMMA InvResumes ==
  ASSUME IInv, Resumes, TypeOK', pc \notin Private, run # None,
         kind = "workflow" => workflowLink \/ "crash" \in faults
  PROVE  IInv'
<1>1. /\ up /\ ~InFlight /\ early' = (early \/ pc = "dispatch")
      /\ UNCHANGED <<kind, rows, process, request, cancel>>
  BY DEF Resumes
<1>2. PICK i \in Tasks : Schedule(i) BY DEF Resumes
<1>3. faults' = faults \ Stalls BY <1>2 DEF Schedule
<1>4. early' \/ (Executing = {} /\ pc' # "dispatch") BY <1>1, NobodyElse
<1>5. Linked' BY <1>1 DEF IInv, Linked
<1>6. NoOrphan' BY <1>1, <1>3 DEF IInv, NoOrphan, Stalls
<1>7. QED BY <1>1, <1>2, <1>4, <1>5, <1>6, StartKeeps

LEMMA InvClientResumes ==
  ASSUME IInv, ClientResumes
  PROVE  IInv'
<1>1. TypeOK' BY TypeSurroundings DEF IInv
<1>2. Known /\ Resumes BY DEF ClientResumes
<1>3. pc \notin Private /\ run # None BY <1>2, KnownRun
<1>4. kind = "workflow" => workflowLink BY <1>2 DEF Known, IInv, Linked
<1>5. QED BY <1>1, <1>2, <1>3, <1>4, InvResumes

\* approve_approval: it changes the run's status, and says that it is about to
\* resume it.
LEMMA ApproveKeeps ==
  ASSUME IInv, TypeOK', Settles, run' \in Statuses, pc \notin Private,
         pending \/ approve.at # "idle",
         UNCHANGED <<kind, workflowLink, assistantLink, reply, up, request, task, entry, cancel, early>>,
         NotStranded'
  PROVE  IInv'
<1>1. Executing' = Executing /\ faults \subseteq faults' BY DEF Executing, Live, Settles
<1>2. Unshared' BY DEF Unshared, Private
<1>3. Linked' /\ Down' /\ Alone' BY <1>1 DEF IInv, Linked, Down, Alone
<1>4. Outcome' BY OutcomeStays
<1>5. Compensated' BY <1>1, EndedStays DEF IInv, Compensated
<1>6. run # None BY DEF IInv, Unshared, Private
<1>7. NoOrphan' BY <1>1, <1>6 DEF IInv, NoOrphan, Settles
<1>8. LinkedFirst' /\ Asked' BY <1>1 DEF IInv, LinkedFirst, Asked
<1>9. QED BY <1>2, <1>3, <1>4, <1>5, <1>7, <1>8 DEF IInv

LEMMA InvApprove ==
  ASSUME IInv, ClientApproves \/ Approve
  PROVE  IInv'
<1>1. TypeOK /\ TypeOK' BY TypeApprove DEF IInv
<1>2. up /\ (pending \/ approve.at # "idle")
  BY DEF ClientApproves, Approve, ReadForApprove, SetApproved, ResumeApproved, ApproveFails,
         ApproveStep, Resumes
<1>3. pc \notin Private /\ run \in Statuses BY <1>1, <1>2 DEF TypeOK, IInv, Unshared
<1>4. ASSUME UNCHANGED <<kind, rows, up, request, task, entry, cancel, early>>,
             faults' \in {faults, faults \cup {"unresumed"}},
             approve.at = "resume" =>
               \/ "unresumed" \in faults'
               \/ \E i \in Tasks : Live(i) /\ ~Pausing(task[i])
      PROVE  IInv'
  <2>1. Settles BY <1>4 DEF Settles
  <2>2. NotStranded'
    <3>1. \A i \in Tasks : (Live(i)' <=> Live(i)) /\ task'[i] = task[i] BY <1>4 DEF Live
    <3>2. CASE "unresumed" \in faults' BY <3>2 DEF NotStranded, Stalls
    <3>3. CASE \E i \in Tasks : Live(i) /\ ~Pausing(task[i])
      <4>1. \E i \in Tasks : Live(i)' /\ ~Pausing(task'[i]) BY <3>1, <3>3
      <4>2. QED BY <4>1 DEF NotStranded
    <3>4. CASE approve.at # "resume" /\ ~(\E i \in Tasks : Live(i) /\ ~Pausing(task[i]))
      BY <1>4, <3>4 DEF IInv, NotStranded
    <3>5. QED BY <1>4, <3>2, <3>3, <3>4
  <2>3. QED BY <1>1, <1>2, <1>3, <1>4, <2>1, <2>2, ApproveKeeps
<1>5. CASE ClientApproves BY <1>4, <1>5 DEF ClientApproves
<1>6. CASE ReadForApprove BY <1>4, <1>6 DEF ReadForApprove, ApproveStep
<1>7. CASE SetApproved
  <2>1. /\ Update(approve.writes, "running") /\ approve'.at = "resume"
        /\ UNCHANGED <<kind, workflowLink, assistantLink, reply, up, request, task, entry, cancel,
                       early>>
    BY <1>7 DEF SetApproved, ApproveStep
  <2>2. approve.writes \in BOOLEAN BY <1>1 DEF TypeOK, ApproveState
  <2>3. Settles /\ run' \in {run, "running"} BY <2>1, <2>2, UpdateSettles
  <2>4. NotStranded' BY <2>1 DEF NotStranded
  <2>5. QED BY <1>1, <1>2, <1>3, <2>1, <2>3, <2>4, ApproveKeeps
<1>8. CASE ResumeApproved
  <2>1. CASE Resumes
    <3>1. kind = "workflow" => workflowLink \/ "crash" \in faults
      BY <1>8 DEF IInv, Asked, ResumeApproved, ApproveStep
    <3>2. run # None BY <1>3
    <3>3. QED BY <1>1, <1>3, <2>1, <3>1, <3>2, InvResumes
  <2>2. CASE /\ ApproveStep("resume", "idle", FALSE) /\ InFlight /\ UNCHANGED run
             /\ faults' = IF Pausing(task[entry]) THEN faults \cup {"unresumed"} ELSE faults
    <3>1. entry \in Tasks /\ Live(entry) BY <1>1, <2>2 DEF InFlight, TypeOK
    <3>2. UNCHANGED <<kind, rows, up, request, task, entry, cancel, early>>
      BY <2>2 DEF ApproveStep
    <3>3. QED BY <1>4, <2>2, <3>1, <3>2
  <2>3. QED BY <1>8, <2>1, <2>2 DEF ResumeApproved
<1>9. CASE ApproveFails
  <2>1. UNCHANGED <<kind, rows, up, request, task, entry, cancel, early>>
    BY <1>9 DEF ApproveFails, ApproveStep
  <2>2. QED BY <1>4, <1>9, <2>1 DEF ApproveFails
<1>10. QED BY <1>5, <1>6, <1>7, <1>8, <1>9 DEF Approve

LEMMA InvCrash ==
  ASSUME IInv, Crash
  PROVE  IInv'
<1>1. TypeOK /\ TypeOK' BY TypeSurroundings DEF IInv
<1>2. /\ up' = FALSE /\ entry' = 0 /\ UNCHANGED <<kind, rows, pending, early>>
      /\ local' = NoLocal /\ approve' = NoCall
      /\ pc' = (IF pc = "done" THEN "done" ELSE "raised")
      /\ faults' = (IF pc = "done" THEN faults ELSE faults \cup {"crash"})
      /\ \A c \in Callers : cancel'[c] = [at |-> "idle", writes |-> FALSE]
  BY DEF Crash
<1>3. \A i \in Tasks : task'[i].at = "done" BY DEF Crash
<1>4. Executing' = {} BY <1>3 DEF Executing, Live
<1>5. Unshared' BY <1>2, <1>4 DEF IInv, Unshared, Private
<1>6. Linked' BY <1>2 DEF IInv, Linked
<1>7. Down' /\ Alone' /\ LinkedFirst' /\ NotStranded' /\ Compensated'
  BY <1>2, <1>4 DEF Down, Alone, LinkedFirst, NotStranded, Compensated
<1>8. Outcome'
  <2>1. (Kept(local.seen) /\ Kept(reply))' BY <1>2 DEF IInv, Outcome, Kept
  <2>2. (reply # None => assistantLink)' BY <1>2 DEF IInv, Outcome
  <2>3. QED BY <1>2, <1>3, <2>1, <2>2 DEF Outcome
<1>9. NoOrphan' BY <1>2 DEF NoOrphan, IInv, Linked
<1>10. Asked' BY <1>2 DEF Asked, IInv
<1>11. QED BY <1>1, <1>5, <1>6, <1>7, <1>8, <1>9, <1>10 DEF IInv

LEMMA InvRestart ==
  ASSUME IInv, Restart
  PROVE  IInv'
<1>1. TypeOK /\ TypeOK' BY TypeSurroundings DEF IInv
<1>2. /\ ~up /\ up'
      /\ UNCHANGED <<kind, message, workflowLink, assistantLink, reply, request, cancel, approval,
                     early>>
  BY DEF Restart
<1>3. Executing = {} /\ (pc = "done" \/ (pc = "raised" /\ "crash" \in faults))
  BY <1>2 DEF IInv, Down
<1>4. Linked' BY <1>2 DEF IInv, Linked
<1>5. CASE /\ UNCHANGED <<task, entry>> /\ faults \subseteq faults'
           /\ \/ run' = run /\ (run \notin Active \/ "unrecovered" \in faults')
              \/ run' = "failed" /\ run \in Active
  <2>1. Executing' = {} /\ \A i \in Tasks : task'[i] = task[i]
    BY <1>3, <1>5 DEF Executing, Live
  <2>2. Settles BY <1>2, <1>5 DEF Settles
  <2>3. Unshared' BY <1>2, <1>3, <1>5, <2>1 DEF IInv, Unshared, Private
  <2>4. Down' /\ Alone' /\ LinkedFirst' BY <1>2, <2>1 DEF Down, Alone, LinkedFirst
  <2>5. Outcome' BY <1>2, <2>1, <2>2, OutcomeStays
  <2>6. Compensated' BY <1>2, <1>3 DEF Compensated
  <2>7. NotStranded' BY <1>5 DEF NotStranded, Stalls
  <2>8. NoOrphan' /\ Asked' BY <1>2, <1>5 DEF IInv, NoOrphan, Asked
  <2>9. QED BY <1>1, <1>4, <2>3, <2>4, <2>5, <2>6, <2>7, <2>8 DEF IInv
<1>6. ASSUME run \in Active, NEW i \in Tasks, Schedule(i), UNCHANGED run PROVE IInv'
  <2>1. kind = "workflow" => workflowLink \/ "crash" \in faults BY <1>3 DEF IInv, Linked
  <2>2. faults' = faults \ Stalls BY <1>6 DEF Schedule
  <2>3. NoOrphan' BY <1>2, <1>6, <2>2 DEF IInv, NoOrphan, Stalls
  <2>4. pc' \notin Private /\ pc' # "dispatch" /\ pc' # "cleanup" /\ run # None
    BY <1>2, <1>3, <1>6 DEF Private
  <2>5. QED BY <1>1, <1>2, <1>3, <1>4, <1>6, <2>1, <2>3, <2>4, StartKeeps
<1>7. CASE ~Recovered /\ UNCHANGED <<run, task, entry, faults>> BY <1>5, <1>7 DEF Recovered
<1>8. CASE Recovered /\ faults' = faults \cup {"unrecovered"} /\ UNCHANGED <<run, task, entry>>
  BY <1>5, <1>8 DEF Recovered
<1>9. CASE Recovered /\ run' = "failed" /\ UNCHANGED <<task, entry, faults>>
  BY <1>5, <1>9 DEF Recovered
<1>10. CASE Recovered /\ UNCHANGED run /\ \E i \in Tasks : Schedule(i)
  BY <1>6, <1>10 DEF Recovered
<1>11. QED BY <1>7, <1>8, <1>9, <1>10 DEF Restart

-----------------------------------------------------------------------------
(* Theorems.                                                               *)

LEMMA InvStep == IInv /\ [Next]_vars => IInv'
<1> SUFFICES ASSUME IInv, [Next]_vars PROVE IInv' OBVIOUS
<1>1. CASE UNCHANGED vars
  <2>1. Executing' = Executing /\ \A i \in Tasks : Live(i)' <=> Live(i)
    BY <1>1 DEF Executing, Live
  <2>2. TypeOK' BY <1>1, TypeStep DEF IInv
  <2>3. Unshared' /\ Linked' /\ Down' /\ Alone'
    BY <1>1, <2>1 DEF IInv, Unshared, Linked, Down, Alone
  <2>4. Asked' /\ Outcome' /\ Compensated' BY <1>1 DEF Asked, IInv, Outcome, Kept, Ended, Compensated
  <2>5. NotStranded' /\ NoOrphan' /\ LinkedFirst'
    BY <1>1, <2>1 DEF IInv, NotStranded, Pausing, NoOrphan, LinkedFirst
  <2>6. QED BY <2>2, <2>3, <2>4, <2>5 DEF IInv
<1>2. QED
  BY <1>1, InvRequest, InvExecutor, InvCancel, InvCancelFails, InvClientCancels, InvClientResumes,
     InvApprove, InvCrash, InvRestart
  DEF Next

LEMMA InvAlways == Spec => []IInv
BY InvInit, InvStep, PTL DEF Spec

\* While no client has resumed the run before its request dispatched it, two
\* executors never work on it: RunService._tasks has the only one.
THEOREM OneExecutor == Spec => []SoleExecutor
<1>1. IInv => SoleExecutor
  <2> SUFFICES ASSUME IInv, ~early PROVE ~(Cardinality(Executing) > 1) BY DEF SoleExecutor
  <2>1. Executing \in SUBSET {entry} BY DEF IInv, Alone
  <2>2. IsFiniteSet({entry}) /\ Cardinality({entry}) = 1 BY FS_Singleton
  <2>3. Cardinality(Executing) <= 1 /\ Cardinality(Executing) \in Nat
    BY <2>1, <2>2, FS_Subset, FS_CardinalityType
  <2>4. QED BY <2>3
<1>2. QED BY <1>1, InvAlways, PTL

\* A template's run is executed under its link, unless the process died before
\* the link was stored.
THEOREM ExecutedUnderLink == Spec => []LinkedFirst
<1>1. IInv => LinkedFirst BY DEF IInv
<1>2. QED BY <1>1, InvAlways, PTL

\* The outcome a reply tells the user stays the run's, or its loss is on record.
THEOREM ReplyStaysTrue == Spec => []ReplyStands
<1>1. IInv => ReplyStands BY DEF IInv, Outcome, Kept, ReplyStands
<1>2. QED BY <1>1, InvAlways, PTL

\* A request leaves no run behind that its session does not show, unless the
\* clean-up had no chance.
THEOREM NothingOrphaned == Spec => []NoOrphan
<1>1. IInv => NoOrphan BY DEF IInv
<1>2. QED BY <1>1, InvAlways, PTL

\* A dispatched run that is not over and does not wait has an executor that is
\* not about to pause, or an approval is about to resume it, or it was stranded
\* in one of the named ways: for either setting of the recovery.
THEOREM NobodyStranded == Spec => []NotStranded
<1>1. IInv => NotStranded BY DEF IInv
<1>2. QED BY <1>1, InvAlways, PTL
=============================================================================
