# agent_runtime: specifications, model checks and proofs

`agent_runtime` is a FastAPI service that runs language-model agents: a client
posts an objective, a supervisor agent takes turns with a model, delegates to
workers, calls tools (some only after a human approved the call) and finishes
with a result. Everything a run needs to survive a restart is in a SQLite
database; everything else lives in one asyncio event loop. Paths below are
relative to `src/src/agent_runtime/` unless they start with `tests/` or `docs/`.

This directory holds TLA+ models of that program, TLC runs over small instances
of them, and TLAPS proofs for every value of their constants. `PROJECT.json`
maps each definition to the source lines it models.

## 1. The system

| Component | State it keeps | Operations | Works with |
|---|---|---|---|
| Run lifecycle, `runtime/services.py`, `runtime/orchestrator.py` | `_tasks` (run id to asyncio task), the locals of a running executor | create, execute, approve, reject, cancel, resume, startup recovery, shutdown | rows, gateway, event stream, model client |
| Tool gateway, `tools/gateway.py` | none of its own | execute, resume an approved invocation | invocation rows, tenant policy, tool executors |
| Approvals, `approvals/service.py`, `api/routes/approvals.py` | approval rows | request, approve, reject | run lifecycle |
| Run state rows, `state/repositories.py` | runs, agents, tasks, checkpoints, invocations, approvals, events | one transaction per call | everything above |
| Event stream, `state/event_stream.py` | one queue per open stream | publish, stream | event rows, SSE responses |
| Startup and shutdown, `api/app.py` | none | lifespan | run lifecycle |
| Knowledge bases, `knowledge/` | knowledge-base, document and chunk rows, one lock per base | register, ingest, reindex | files on disk, embedding, index |
| Retrieval, `retrieval/service.py`, `tools/rag_search.py` | none | search | chunk rows |
| Workflow templates, `workflows/` | template header and version rows, run links | create, draft, replace, delete, publish, archive, launch | run lifecycle, tenant policy, knowledge bases |
| Assistant, `assistant/` | sessions, messages, links to runs | create session, chat, create task, read activity | run lifecycle, templates |
| Tenancy, `tenancy/` | one policy row per tenant | put, get | gateway, templates |
| Model clients, `models/` | none | complete | orchestrator |
| Metrics, logs, API schemas, web pages, tables, fault injection | counters | read or record | nothing decides on them |

What is hard about it:

* **Interleaving.** Every `await` is a point where an API request may overtake
  the executor or another request. `update_run_status` reads the row in one
  `await` and commits in the next without a version check.
* **Crash and restart.** Checkpoints, agent rows, task rows and invocation rows
  are written in separate transactions; a resume reads them back and has to
  tell what was done. A tool's outside effect comes before the row that says so.
* **Cancellation.** `task.cancel()` raises at whatever `await` the executor is
  in, for a cancel request and for a graceful shutdown alike.
* **Streams.** An event is stored and then published while streams load the
  stored events and then follow their queue.
* **Read, then write.** The approval handlers, `fail_run`, ingest, publish and
  registration of a knowledge base decide on a row they read in an earlier
  transaction; SQLite's transaction itself begins only with a method's first
  write, so that drafts, replacements and deletions of a template decide on rows
  selected before.
* **Partial failure.** Any repository call may raise: the executor then fails its
  run, by calls that may raise too, and a request leaves behind what it committed.
  Starting a run from a template or a chat takes up to four transactions, and a
  failed one must undo what the others did.

The full list, with lines and the properties that watch each of them, is under
`hazards` in `PROJECT.json`.

What makes each component correct:

* *Run lifecycle*: a run's end is final and is backed by what is durable
  (checkpoint, event); an active run has an executor; stored results are neither
  lost nor merged twice; a waiting run leaves the model alone.
* *Tool gateway and approvals*: nothing behind the gate runs without an
  approval; an outcome is final; repeated resumes do not repeat the effect.
* *Event stream*: every stored event reaches every stream that stays, once, in
  its emitter's order, and a stream shows only what the log holds.
* *Knowledge bases*: what is searched is what the files say after a successful
  ingest; a failed sync leaves the earlier chunks (which a search sees only if
  the base's status is `success` or `partial_success`); counts match the rows.
* *Workflow templates*: a published version never changes; one draft at a time; a
  launched run leads to the version it was launched from; the header is true of
  the versions; what publication checked is enough for a launch.
* *Assistant*: a run that a request started is linked or stopped, has one
  executor, and the reply tells its outcome.

## 2. The modules

| Module | Models | Extends / uses |
|---|---|---|
| `ToolCallContract` | what the gateway and the approval gate promise of a tool call, as an abstract specification | |
| `AgentRuntime` | one run: rows, executor, requests, process; implements `ToolCallContract` | `INSTANCE ToolCallContract` |
| `MCAgentRuntime` | the symmetry set for TLC | `AgentRuntime` |
| `AgentRuntimeProofs` | theorems about `AgentRuntime`: gate, contract, end of a run | `AgentRuntime`, `TLAPS` |
| `AgentResumeProofs` | theorems about `AgentRuntime`: what a resumed executor finds | `AgentRuntimeProofs`, `FiniteSetTheorems` |
| `EventStream` | the event log of one run and the streams that follow it | |
| `EventStreamProofs` | theorems about `EventStream` | `EventStream`, `TLAPS` and the theorems on sets and sequences |
| `KnowledgeSync` | one knowledge base, its rows, its files and the sync that holds its lock | |
| `KnowledgeSyncProofs` | theorems about `KnowledgeSync` | `KnowledgeSync`, `FiniteSetTheorems`, `TLAPS` |
| `WorkflowLifecycle` | what the template service promises of a template's versions, as an abstract specification | |
| `WorkflowTemplates` | one template: header, versions, launches, tenant policy and the requests on them; implements `WorkflowLifecycle` | `INSTANCE WorkflowLifecycle` |
| `MCWorkflowTemplates` | the symmetry set and the bounds of TLC's instance | `WorkflowTemplates` |
| `WorkflowTemplatesProofs` | theorems about `WorkflowTemplates` | `WorkflowTemplates`, `TLAPS`, `WellFoundedInduction` |
| `AssistantRuns` | one request of the assistant, the run it starts, its executors, and the clients that cancel and resume it | |
| `AssistantRunsProofs` | theorems about `AssistantRuns` | `AssistantRuns`, `FiniteSetTheorems`, `TLAPS` |

### AgentRuntime

The program is one event loop over a database, so a coroutine is overtaken only
at an `await`, and every `await` that matters is one repository call. An action
is one repository call with the synchronous code up to the next one.
`update_run_status` and `mark_run_failed` are two actions each, because each
reads in one `await` and commits in another.

| Variables | Code |
|---|---|
| `runStatus`, `agentStatus`, `task`, `invStatus`, `owner`, `approval`, `events` | columns of the tables of `state/tables.py`; `None` is "no row" |
| `ckpt` | the latest checkpoint row of each agent: step name, observations, the worker or invocation it names, the result |
| `phase`, `creator` | the process (`up`, `stopping`, `down`) and `RunService.create_run` or `create_run_from_template_launch`, with its failure path |
| `pc`, `agent`, `child`, `cur`, `seen`, `out` | the executor: the next repository call and the locals of `_run_agent`, `_delegate_from_agent`, `_call_tool_from_agent` and `update_run_status` |
| `cancelReq` | `task.cancel()` was called and `CancelledError` is not delivered yet |
| `rpc`, `rtarget`, `rseen` | each API request: next call, approval, status it read |
| `grants`, `effects`, `interrupts`, `restarts`, `errors` | history: approvals ever granted, executions of each tool call, executors that were killed, cancelled or met a call that raised, restarts, calls that raised |
| `faults` | history since an executor was last scheduled: what may leave the run without one (see `RunServed`) |

The executor is at most one task per run because `_schedule_run_task` is reached
only when `_tasks` has no live entry; the mutant `ScheduleAlways` shows that
`RepeatedEffectNeedsInterrupt` depends on it. `_run_agent` recurses
(`_merge_worker_result_and_continue`, `_complete_tool_call`); each recursion
returns what its caller returns, so it is a jump to `enter`.

Any call may raise, which rolls its transaction back. `CallRaises` is `except
Exception` of `_execute_run`, from wherever the executor is: on to `fail_run`, or,
inside a handler (`Handler`), out of the task, whose run then keeps its status
(`DropTask`). `DeliverCancel` is the same for `except CancelledError`, and a task
that was cancelled before its first step never gets to a handler. `RequestRaises`
ends a request between two of its transactions. `CreationRaises` and `LinkFails`
are the creation's: when the link of a template launch fails, `FailLaunch` commits
FAILED by `update_run_status` and `EmitLaunchFailed` appends `run.failed` in a
later transaction, the one path to FAILED that is not `mark_run_failed`.

A tool, a model and a tenant policy are the environment: a model turn may
finish, delegate, call a tool or fail; a tool may return or raise; the policy of
each call may allow it, refuse it or ask for an approval.

`ToolCallContract` is the abstract view of a tool call: it is asked for, granted,
executed while it has no outcome (and, once asked for, only if granted), and gets
one final outcome. `KeepsContract` is the refinement: `asked` is the set of
approval rows, `runs` is `effects`, `outcome` is the invocation's status.

### EventStream

`built` numbers the events in the order `RuntimeEvent.build` made them, which is
the order of `created_at`, by which `list_events` sorts. An emitter builds,
stores and publishes; `fail_run` checks the run first, and publishes even if
`mark_run_failed` stored nothing. A stream registers its queue, loads, replays,
then follows its queue; a load is two actions, the `SELECT` and the return.
Publishing is one action because an unbounded `asyncio.Queue` never suspends.

### KnowledgeSync

The lock of a knowledge base admits one ingest or reindex at a time, so `pc` and
`job` are the call and the locals of its holder. An action is one repository
transaction or one read of a file. `rows` is `content_hash` by path and `text`
the content that a path's chunks were cut from; the hash of a file is its
content. `Parse` and `ReadHash` read the file separately, as the code does.
`FileFails` is the `except` of a file, `Escape` an exception that nothing inside
the sync takes; `Crash` may come anywhere, `ChangeDisk` too.

### WorkflowTemplates

`header`, `versions` and `links` are the rows of `state/tables.py`, `policy` and
`bases` what publication and launch read of the tenant, `pc` and `job` what each
request awaits and its locals. An operation is one action per database call whose
answer matters later, named after it (`DraftHeader`, `DraftLatest`,
`DraftSource`, `DraftWrite`).

Where a transaction begins decides what may interleave. The session sends
`BEGIN` only before its first `INSERT`, `UPDATE` or `DELETE`, so what a method
selects before that may be out of date when it commits. Hence `create_copied_draft_version`
has three reads and a commit; `delete_draft_version` has two reads and one commit
that recomputes the header from up-to-date versions, on a header row that is not;
`publish_version` updates first and reads everything after. `Flush` writes only
the columns that differ from what was loaded.

The code takes no measure against a commit on outdated reads, so the invariants
name it: `overtaken[q]` says that the template was written since the first read
of a request that will write it, `skewed` collects the operations that committed
all the same. Each property excuses exactly the operations that break it: with
`{"draft"}` or `{"delete"}` the header may be wrong, with `{"replace"}` or
`{"delete"}` a published version may change or vanish under its links, with
`{"publish"}` or `{"replace"}` what was checked is not what was published.
`NeverEmpty` needs no excuse.

`WorkflowLifecycle` is the promise: drafts are copied from the newest version,
edited, dropped and published; a published version stays; there is one draft,
next to which only the initial version may be one. `KeepsLifecycle` is the
refinement, by the identity on `versions`.

### AssistantRuns

`pc` is the request of `AssistantService` (`send_chat_message` or `create_task`,
by `kind`), through `RunService.create_run` or `create_run_from_template_launch`,
one action per repository call, each of which may fail. `task` are the asyncio
tasks of `_execute_run` with what they do to the run's status: the read and the
write of `update_run_status` are apart, and `writes` is what the read decided.
`entry` is `_tasks[run_id]`. `cancel` are two calls of `cancel_run`, a client's and
the request's own clean-up, `approve` is a call of `approve_approval` for the
approval that is `pending`. Every call of theirs may fail too (`CallRaises`,
`DropTask`, `CancelFails`, `ApproveFails`). After its WAITING write an executor is
`paused`: a supervisor's returns and ends it, a worker's returns to the supervisor,
which goes on and may fail the run (`LeavePause`). `Restart` recovers the run only
if the process is set to (`RecoverOnStartup`, off by default in the code). What an
executor does between its updates of the status is `AgentRuntime`'s subject.

`faults` names what went wrong: a crash, the clean-up or the run's first event
failed, a terminal status was overwritten (`lost`), and, since an executor was
last started, the `Stalls`: one ended inside its handler (`dropped`), an approval
met one that was pausing or broke off (`unresumed`), a restart did not recover
(`unrecovered`). The invariants say which of those they do not survive.

## 3. The runs

| Run | Question | Instance |
|---|---|---|
| `approval_races` | do the gate, the contract and the log of a run's end survive two racing requests of any kind, and what takes an active run's executor? | 1 worker, 2 invocations, 2 requests, outputs `{t1, "empty"}`, 1 call that raises; 976,000 states |
| `crash_recovery` | can the executor take up from the rows after any interruption, and is every active run taken up? | 2 workers, 1 invocation, 2 requests (`approve`, `resume`), 1 restart, recovery on, 1 call that raises; 610,000 states |
| `requests_return` | is every request answered, whatever happens to the executor it waits for? | 1 invocation, 2 requests of any kind, 1 call that raises; 71,000 states |
| `event_stream` | does each stored event arrive once and in order? | executor and request, 1 client that reconnects, 3 events |
| `knowledge_sync` | is a success fresh, a failure undone, are the counts right, is the lock given back? | 2 supported files and an unsupported one, 3 contents of which one gives no chunk, 1 change of the disk, 1 failure or crash |
| `workflow_templates` | is the header true, do links lead to what was launched, does publication's check suffice, is the lifecycle kept? | 2 requests of any kind, 3 versions, 1 tool, 1 knowledge base, 3 definitions of which one lacks a key and one has a placeholder, 1 link; 780,000 states |
| `assistant_runs` | is a run linked or stopped, has it one executor, is the reply true, does the request end? | 1 request of any kind, a client that cancels, resumes and approves again and again, 2 executors at a time, 1 crash, recovery on and off; 713,000 states |
| `cancel_lost` | does a cancelled run stay cancelled? No | 1 `cancel`, no worker |
| `worker_approval` | is a waiting run left to its approver? No | 1 worker, no request, no crash |
| `effect_twice` | can resumes not duplicate an effect? They can | 1 `approve`, 1 `resume`, 1 restart |
| `approval_stuck` | does an approved run resume? Not always | 1 `approve`, no crash |
| `reindex_lost` | does a failed reindex keep the last good state? Not always | 2 files, 1 removal |

The last five end with counterexamples and are the `findings` of
`PROJECT.json`; each checks one sentence of a test or a document:

* `cancel_lost`: `update_run_status` decides on a status that it read in an
  earlier `await`; a cancel that commits in between is overwritten.
* `worker_approval`: a worker that pauses for an approval returns the empty text,
  its supervisor merges that and goes on, and the waiting run is failed.
* `effect_twice`: a crash after a tool ran and before its row says so makes the
  next resume run it again.
* `approval_stuck`: an approval may be granted while the executor that asked for
  it has not saved its checkpoint; `resume_run` sees a live task and starts none.
* `reindex_lost`: `_content_hash` is outside the `try`, so a file that vanishes
  after the scan ends a reindex past its restore, with every document deleted.

### Why the bounds are enough

The interesting cases of `AgentRuntime` need: two requests (two approvals, or an
approval against a rejection, cancel or resume, since a third finds a row that
no longer says `pending` or a task that is live); an executor that is in a
supervisor or a worker turn (one worker), a second delegation after a merge (two
workers, `crash_recovery`); a second tool call after the first (two invocations,
`approval_races`); a result that the runtime cannot tell from the pause for an
approval (`"empty"`) and two workers with equal or different results; one crash
at any call for recovery, and one call that raises, also in the creation (a second
one, inside the handler of the first, is a third way to `"dropped"` next to a
handler that is cancelled and one reached by a refused tool). A model turn needs
no bound: it writes a checkpoint and comes back to the same state. The ids for
workers and invocations are finite, so an executor's turns end in every instance:
the safety properties do not depend on it, and what `RequestsReturn` owes to it is
said under Fairness.

For `EventStream`: with three events, one may be stored before the load, one
between load and replay and one after; two emitters build in one order and store
in the other. Streams share nothing but the order of publications, and each has
its own queue, so one client at a time shows all; it may leave and come back.

For `KnowledgeSync`: two files make one that fails and one that succeeds
(`partial_success`), or one that is new and one that is removed; the third is
never read and only makes a warning. One change of the disk may fall between any
two reads, one failure or crash between any two calls, and any number of
ingests and reindexes may follow.

For `WorkflowTemplates`: an operation is overtaken by one other, so two requests
show every way to skew one commit; they are not bound to one operation each and
start over. Three versions give a published one, a draft next to it, and a number
that is used again after a deletion. `OneSkew` stops once two kinds of operation
have committed on outdated reads, which excuse different properties. `OneFlaw`
keeps the two flawed definitions apart, which no operation treats differently
before a launch, and the one with a placeholder out of the histories where a
launch has another reason to fail. `World`
orders the surroundings: the policy and the knowledge bases come first, and the
withdrawal of a tool, the launch, and a commit on outdated reads are
alternatives; without it the instance does not end in useful time. What the
constraints cut off is covered by the proofs, which have no bound.

For `AssistantRuns`: requests share nothing but the process, so one stands for
all. Two executors are what `SoleExecutor` needs; the name of one that is over,
and that the request does not wait for, is used again (`Unused`), so any number
follow each other, started by the request, by resumes, approvals and a restart.
One approval is being granted at a time; two that race are `AgentRuntime`'s
subject. While two executors may work
(`early`), clients make one call at a time (`OneCall`). These two are bounds of the
module, which its theorems share. One crash is enough for recovery on and for
recovery off.

`CHECK_DEADLOCK FALSE` is set where the system may stop: every request has been
answered, or the only registration was lost in a crash.

### Fairness

Liveness is checked under weak fairness, but for one condition of `AssistantRuns`.

* `AgentRuntime`: the executor (each call it awaits returns; calls of the model
  have a timeout), each request once it has arrived, a creation under way, and the
  restart of a stopped process. Whether a client sends a request, a call raises, a
  crash or a shutdown happens is never required. That an executor ends is an
  assumption, not a result: the code has no limit of turns, and the finite ids
  stand for a model that stops calling tools and delegating. `RequestsReturn` is
  about the rest: no executor waits for a request, and a request that waits is
  not left behind by a cancellation, a failure or a replacement of its executor.
* `EventStream`: an emitter that has built an event goes on to store and publish
  it, and a stream that has something to yield yields it.
* `KnowledgeSync`: the holder of the lock goes on. `SyncReturns` holds with any
  file changes and failures, since both are choices no fairness asks for.
* `AssistantRuns`: the request, its clean-up, and the executor that the request
  awaits go on; a failing call, a client or a restart is never required.
  `RequestEnds` counts a request that a crash ended as raised. An executor whose
  worker pauses and goes on for ever would keep a chat waiting: the code has no
  limit of turns, and strong fairness of `ReadRun(., "work", "completed")` is the
  assumption that its turns come to an end.

There is no property that an active run ends or waits. It would say no more than
that a model stops, and the code gives a run up in several ways. `RunServed` and
`NotStranded` name them: an active run has an executor, or is about to have one,
unless one of them was taken.

## 4. What the properties say

`PROJECT.json` lists under `hazards` which property watches which line. In short:

* *Gate and effect*: `GatedToolNeedsApproval`, `RepeatedEffectNeedsInterrupt`,
  `KeepsContract`. A call behind the gate runs only after a grant; repeated
  resumes and double approvals alone never repeat an effect.
* *End of a run*: `EndIsLogged`, `CompletedRunHasCheckpoint`,
  `WaitingRunDoesNotReason`. `mark_run_failed` commits the status with its event;
  a failed launch, a cancel and the executor's own end commit the status first,
  and `EndIsLogged` says where a run may be found without the event: the append is
  the next call, or did not return.
* *Somebody works on it*: `RunServed` (with `NotStranded` for the request that
  started it). An active run has an executor or an approve is about to schedule
  one, unless since the last one was scheduled an ended run was made active by a
  stale write (`revived`), an executor ended in its own error handler or before its
  first step (`dropped`), or an approve that had written RUNNING found the
  executor of the pause still live or broke off (`missed`, the finding of
  `approval_stuck`), or the process restarted with recovery off.
* *Recovery*: `NoResultLost`, `MergedOnce`, `OrphansNeedInterrupt`: what the
  rows say is enough, and the price of an interruption, a call that raises
  included, is at most one orphan.
* *Progress*: `RequestsReturn`, `EventArrives`, `SyncReturns`, `RequestEnds`.
* *Streams*: `DeliveredOnce`, `NothingMissed`, `EmitterOrder`, `StreamedIsStored`.
* *Templates*: `HeaderMatches`, `NeverEmpty`, `LinksResolve`,
  `PreflightSuffices`, `KeepsLifecycle`.
* *Starting a run*: `NoOrphan`, `SoleExecutor`, `LinkedFirst`, `ReplyStands`,
  `NotStranded`, `RequestEnds`.
* *Index*: `CountsMatch`; `StaleNeedsCut` (a document whose chunks do not belong
  to its hash comes from a sync that was cut short or a file that changed while
  it was read, never from a failure the code handles); `SuccessIsFresh`;
  `FailedReindexRestores`; `IngestKeepsChunks`, which is about the chunk rows: an
  ingest whose only changed file fails, or whose root is missing, sets the base's
  status to `failed`, and retrieval then refuses every search of it although the
  chunks are kept (`retrieval/service.py:93-106`).

Where the templates' code and its design documents part, the model follows the
code (`docs/superpowers/specs/`, the v2 resource-lifecycle and the template-layer
designs):

* "published versions remain immutable" (:55) and "may not be deleted" (:63): a
  replacement or deletion that selected a draft commits even if it was published
  in between (`LinksResolve`, excuse `replace`, `delete`);
* "only one draft may exist per workflow at any given time" (:57): a draft of
  version 1 may be copied to version 2 on purpose, and two overlapping requests
  can make other pairs (`Copy` of `WorkflowLifecycle`, excuse `draft`);
* "a full preflight gate instead of relying on launch-time failures" (:65): a
  definition without tools passes the gate, and each of its launches is refused
  (`PreflightSuffices` has the empty set of tools on purpose). So does one without
  the key `tools`, `allowed_tools` or `approval_required_tools` (`"incomplete"`): each of
  its launches ends in a `KeyError` that `launch_template` does not catch. One
  whose objective has a placeholder that its input schema does not require
  (`"placeholder"`) fails the launches that do not supply it. `PreflightSuffices`
  names both: what the preflight promises is only that tools and knowledge bases
  are there;
* the effective policy of a launch may "only narrow tenant policy": it is stored
  with the link and never read by the gateway, which asks the tenant's policy
  (hazard at `tools/gateway.py:33`).

Also seen: the number of a deleted newest draft is used again, and `archived_at`
stays set when a version is published or deleted after the template was archived.

## 5. The proofs

Every invariant, every action property and both refinements that the passing runs
check are also theorems, for every value of the constants. In each proof module
the inductive invariant is stated first, part by part with what the part says of
the code; each action has its own lemma or case, and the theorems come last.

### AgentRuntimeProofs

`AgentRuntimeProofs` proves, for every set of workers, invocations and requests,
every set of outputs, any number of restarts and of calls that raise, recovery on
or off, from the assumptions named in `AgentRuntime` (ids are distinct, an output
is not the id of a tool call, `None` is none of the values, the operations are the
four of the API, the bounds are natural numbers). That an output is no id is what the code has too: a worker's
entry among the observations begins with its role, a tool call's with its tool.

| Theorem | States |
|---|---|
| `TypeCorrect` | `[]TypeOK` |
| `ProcCorrect` | `[]ProcInv` |
| `GateHolds` | `[]GatedToolNeedsApproval` |
| `RepetitionIsBounded` | `[]RepeatedEffectNeedsInterrupt` |
| `ImplementsContract` | `KeepsContract`, the refinement of `ToolCallContract` |
| `CompletionIsDurable` | `[]CompletedRunHasCheckpoint` |
| `WaitingIsQuiet` | `[]WaitingRunDoesNotReason` |
| `EndReachesLog` | `[]EndIsLogged` |
| `RunsAreServed` | `[]RunServed` |

* `TypeOK` is inductive. Besides the types it says which locals the next step
  relies on (`HoldsInvocation`, `HoldsChild`, `HoldsResult`) and which references
  a checkpoint has, so that no step uses an id or a result that was never set.
* `ProcInv` relates the executor to the process: none exists while the process
  is down or before the run is handed out, a cancellation is pending only for a
  live one, requests are in flight only while the process serves them. It is
  needed because `RecoverRun` and `DispatchRun` set `pc` from whatever it was.
* `CallInv` strengthens the two promises of a tool call. The promises are not
  inductive: that a waiting invocation was executed at most `interrupts` times
  must be known before it is executed once more, and it is known except while the
  executor is about to store the outcome. It also ties the call in hand to the
  rows (not asked for yet, granted, executed) for each `pc` that has one.
  `CallLeft` is the shared argument of all steps that leave the rows alone.
* `ImplementsContract` maps each step to a step of the contract or to a stutter,
  with `TypeOK` and `CallInv` in the state before it.
* `RunInv` strengthens two properties of a run's end: the last checkpoint
  is saved before the executor gets to `setCompleted`, and while the run is
  completed the executor is on its way out or has yet to find nothing to do.
* `EndIsLogged` is inductive next to `ReqInv`, which says where a request has an
  approval in hand: a cancel never has. `ExecutorWrites`, `RequestWrites` and the
  lemma on the creation say of each of the three writers what it does to status
  and log in one step.
* `ServedInv` strengthens `RunServed`: an executor ends because of a status that it
  has read or written (`Settled`, `Leaving`), and that the run is active again when
  it is gone takes one of the excused writes in between.

### WorkflowTemplatesProofs

It proves every property of `workflow_templates` for every set of requests, tools,
knowledge bases and definitions and any number of versions and launches, without
the constraints of TLC's instance, from the assumptions named in
`WorkflowTemplates` (the bounds are natural numbers, definitions consist of tools,
knowledge bases and flaws, `None` is none of the values):

| Theorem | States |
|---|---|
| `TypeCorrect` | `[]TypeOK` |
| `LastVersionStays` | `[]NeverEmpty` |
| `LinksLead` | `[]LinksResolve` |
| `HeaderTrue` | `[]HeaderMatches` |
| `LifecycleKept` | `KeepsLifecycle`, the refinement of `WorkflowLifecycle` |
| `PreflightStands` | `[]PreflightSuffices` |

* `TypeOK` is inductive; `Loaded` says what a request has read by each step.
* `AllFresh` is what the others rest on: as long as nobody wrote the template
  since a request's first read, what it read is still so (its header is the
  header, its version a draft with that definition, there was no other draft).
  A commit is then either on fresh reads, or its operation is in `skewed`.
* `Linked` strengthens `LinksResolve`: it also holds for a launch that has read
  its version and not stored its link, and a replacement or deletion that is
  fresh works on a draft, which no link leads to.
* `Pointers` strengthens `HeaderMatches`: next to the header being true
  (`Matches`), two drafts can only be versions 1 and 2 with nothing else
  (`TwoDrafts`), and an archiving request has seen a published version, which
  stays published. The first is also what `LifecycleKept` needs, for `Copy`
  allows one draft only.
* `Checked` strengthens `PreflightSuffices`: what a published version, or a
  publication past its check, or a launch under way names is in the policy it
  was checked against or was withdrawn since, and knowledge bases stay. The
  theorem claims nothing of a definition with a flaw, which no check looks for.
* `Newest` chooses the greatest version of a finite set; `NewestExists` shows that
  there is one, by well-founded induction over the numbers from above.

### AgentResumeProofs

It proves the remaining invariants of `AgentRuntime`, from the same assumptions
and on top of `TypeOK`, `ProcInv` and `CallInv`; the set of workers need not be
finite:

| Theorem | States |
|---|---|
| `ResultsSurvive` | `[]NoResultLost` |
| `ResultsEnterOnce` | `[]MergedOnce` |
| `AbandonmentIsBounded` | `[]OrphansNeedInterrupt` |

* `TurnInv` relates the executor to the latest checkpoint of its agent, which is
  all a later executor has: a model turn or a call's first execution goes on only
  where no checkpoint names something to resume, an approved call only under the
  checkpoint that waits for it, and a worker runs only under the checkpoint of
  its dispatch.
* `ResultInv` strengthens the two properties of results. `HandInv` says that a
  call in hand is not among the observations yet, that what is merged is the
  task's result, and what is completed is stored; `RowInv` that a waiting
  checkpoint names a call of its own agent, which has an approval and was not
  observed. A step that saves a checkpoint then either keeps what the old one
  named or has it among the observations (`RowsSaved`).
* `KnownInv` and `LostInv` count abandoned workers: a worker without a row has no
  task and is not dispatched, and the workers with a row and no result that no
  checkpoint names are at most the interruptions and the one being added. An
  exception of `add_task` or `save_checkpoint` is an interruption (`CallRaises`). It
  also rests on a request that acts on an approval naming it, since `approve`
  writes the status of the agent that owns it.

### EventStreamProofs

It proves every invariant of `event_stream` for every set of emitters and of
streams, any number of events, and any number of reconnections and crashes:

| Theorem | States |
|---|---|
| `TypeCorrect` | `[]TypeOK` |
| `YieldedOnce` | `[]DeliveredOnce` |
| `NoGap` | `[]NothingMissed` |
| `OrderKept` | `[]EmitterOrder` |
| `ShownIsLogged` | `[]StreamedIsStored` |

None of them is inductive. `HoldInv` says what an emitter has in hand: its latest
event, not stored before its append commits. Of each stream, `QueueInv` orders
what is queued, and puts what was not replayed after what was; `ReplayInv` says
that the replay goes through what was loaded in order; `DeliveredInv` that what
was yielded live precedes what is still queued; `CoverInv` that from the load on
every published event is delivered, to be replayed or queued. The last is where
registering the queue before the load is needed.

### KnowledgeSyncProofs

It proves every invariant and action property of `knowledge_sync` for every
finite set of files, every non-empty set of contents and any number of changes of
the disk, failures and crashes. The set of files is finite because a directory
is; the counts and the bound of `StaleNeedsCut` are cardinalities.

| Theorem | States |
|---|---|
| `TypeCorrect` | `[]TypeOK` |
| `CountsStayTrue` | `OneRegistration => (Spec => []CountsMatch)` |
| `KeepsWhatItHad` | `IngestKeepsChunks` |
| `StaleIsCut` | `[]StaleNeedsCut` |
| `SuccessTellsTheTruth` | `SuccessIsFresh` |
| `FailureIsUndone` | `FailedReindexRestores` |

* `Core` (`Types`, `Rows`, `Shape`, `Hand`) is the invariant all others use: which
  locals are set at which step, and how the rows stand to them. The document in
  hand is as it was read until its first write, and what is still to be read is
  as `list_documents` found it; the lock is what makes that inductive.
* `CountsStayTrue` has a hypothesis because the property needs one: with two
  registrations of one id the second overwrites the row of the first, counts
  included (see `hazards`). With at most one, a registration that is about to
  write has found no row (`CountsInv`), and a sync finds its row as it read it.
* `StaleIsCut` counts more than the stale documents: `Suspects` are also those
  that a restore would make stale again and the one about to be saved from two
  different reads of its file. Each step that makes one raises `cuts`.
* `SuccessTellsTheTruth` rests on `FreshInv`, which says for each step of an
  undisturbed sync which files are in the index by now, and `FailureIsUndone` on
  `RestoreInv`, which says the same of the documents that were put back.

### AssistantRunsProofs

It proves every invariant of `assistant_runs` for all kinds of requests, any
number of executors (at least one), any number of crashes, and whatever the
process is set to do about recovery:

| Theorem | States |
|---|---|
| `TypeCorrect` | `[]TypeOK` |
| `NothingOrphaned` | `[]NoOrphan` |
| `OneExecutor` | `[]SoleExecutor` |
| `ExecutedUnderLink` | `[]LinkedFirst` |
| `ReplyStaysTrue` | `[]ReplyStands` |
| `NobodyStranded` | `[]NotStranded` |

`Alone` is what `SoleExecutor` needs: the live executor is the one in
`RunService._tasks`, so looking there before another is started is enough.
`Unshared` says that nobody works on a run its request has not made known yet,
`Linked` which links are stored by each step, `Outcome` that a terminal status
somebody has read is still the run's or was overwritten, and `Compensated` that
the clean-up has ended the run, `Asked` that an approval was asked for under the
workflow's link. `NotStranded` is a conjunct of the invariant as it stands: the
executor that serves an active run must be one that will look at it again, which
one that has paused, or that found the run waiting as it pauses, may not
(`Pausing`), and whatever makes the run active next to such a one is an approval,
which resumes it or is recorded as `unresumed`.

### Only model-checked

Everything temporal under fairness (`RequestsReturn`, `EventArrives`,
`SyncReturns`, `RequestEnds`) is outside of the prover's reach:
it has no rule for `ENABLED`. The five statements that the code does not keep
are refuted by TLC's counterexamples.

## 6. What is not modelled

Within the modelled components:

* the fault-injection hook (a test device; what it raises is a failing branch);
* in `AgentRuntime`, the second executor that a resume can start while a template
  run is being created, before its dispatch: `AssistantRuns` has it, without what
  the two executors then do to the rows of agents and checkpoints;
* the worker's role (one role exists), the text of prompts and arguments, events
  other than `run.completed`, `run.failed` and `run.cancelled` in `AgentRuntime`;
* a commit that the database performs although the task awaiting it was
  cancelled, and an error reported for a commit that did happen;
* two events with the same `created_at`;
* the wait that startup recovery gives its tasks before serving: it delays only;
* two registrations of one knowledge base at a time: the code has no measure
  against it and `CountsMatch` does not survive it, which the hazard list says;
* of the templates: the queries that only answer a client, `get_template_detail`
  with its three reads among them; `archived_at`; `create_template_version`, which
  nothing calls; the text of objectives and input schemas; the approval list of
  the tenant's policy;
* of the assistant: creating a session; `get_activity`, which reads the pending
  approvals before the statuses and so may show an approval of a run that is over;
  the rejection of an approval and two decisions that race, which `AgentRuntime`
  has;
* that an executor's turns end: the code has no limit, so no property says it;
* why a call raises: each call may, any number of
  times in the proofs and once in the runs of `AgentRuntime`;
* whether a search is served: retrieval's test of the base's status and chunk count;
* several processes on one database: the deployment document rules them out.

Components without a module, with the reason, are under `components` in
`PROJECT.json`: model clients, registry, schemas, pages, metrics and tables make
no decision of their own or are the environment of the modelled ones.

## 7. Plan

In this order, the most important behaviour first:

1. `AgentRuntime`, `ToolCallContract`, `AgentRuntimeProofs`: done.
2. `EventStream`, `EventStreamProofs`: done.
3. `KnowledgeSync`, `KnowledgeSyncProofs`: done.
4. `WorkflowLifecycle`, `WorkflowTemplates`, `WorkflowTemplatesProofs`: done.
5. `AssistantRuns`, `AssistantRunsProofs`: done.
6. `NoResultLost`, `MergedOnce` and `OrphansNeedInterrupt` as theorems
   (`AgentResumeProofs`): done.
7. Safety statements next to the liveness properties: that a request of
   `AgentRuntime` waits only for a live executor, and that the lock of a knowledge
   base is held only by a sync that has a next step.
8. Chunking as an operator over paragraph lengths, checked against its size bound
   and that no text is lost; the cursor pagination of the run list, against rows
   inserted between two pages.
