----------------------------- MODULE EventStream -----------------------------
(***************************************************************************)
(* The event log of one run and the streams that follow it: _emit and      *)
(* fail_run of the orchestrator, the event table, and EventStreamHub with  *)
(* the server-sent-event responses that read from it.                      *)
(*                                                                         *)
(* An event is first stored and then put on the queue of every open        *)
(* stream; a stream first replays what is stored and then follows its      *)
(* queue.  The two meet in the middle: an event can be stored, published,  *)
(* or neither when a stream opens.  Putting on an unbounded asyncio.Queue  *)
(* never suspends, so a publication is one action.                         *)
(*                                                                         *)
(* Events are numbered in the order they are built, which is the order of  *)
(* created_at that list_events sorts by.                                   *)
(***************************************************************************)
EXTENDS Integers, Sequences, FiniteSets, SequencesExt

CONSTANTS
  Emitters,      \* coroutines that emit: the executor and API requests
  Cancellable,   \* those task.cancel() is called on: the executor
  Subscribers,   \* clients of GET /v1/runs/{run_id}/events
  MaxEvents,     \* bound on the events of the run
  None

ASSUME EmittersAssumption == Cancellable \subseteq Emitters
ASSUME EventsAssumption == MaxEvents \in Nat /\ None \notin Nat

VARIABLES
  terminal,   \* the run's status is terminal
  built,      \* [by, kind] of each event, kind "emit" or "failure"
  stored,     \* rows of EventTable
  epc, hand,  \* each emitter: its next call, and the event it holds
  spc,        \* each stream: "off", "load" and "loaded" (list_events before and
              \* after its SELECT), "open"
  queue,      \* its entry in EventStreamHub._queues
  replay,     \* persisted_events not yielded yet
  replayed,   \* replayed_event_ids
  delivered,  \* history: what the current stream of the client has yielded
  cut         \* history: stored events whose publication was cancelled

logVars    == <<terminal, built, stored>>
streamVars == <<spc, queue, replay, replayed, delivered>>
vars == <<logVars, epc, hand, streamVars, cut>>

Events == 1..Len(built)

-----------------------------------------------------------------------------
(* Emitters.                                                               *)

EmitStep(e, from, to) == epc[e] = from /\ epc' = [epc EXCEPT ![e] = to]

\* RuntimeEvent.build.
Build(e, from, to, kind) ==
  /\ EmitStep(e, from, to)
  /\ Len(built) < MaxEvents
  /\ built' = Append(built, [by |-> e, kind |-> kind])
  /\ hand' = [hand EXCEPT ![e] = Len(built) + 1]
  /\ UNCHANGED <<terminal, stored, streamVars, cut>>

\* An event for _emit; fail_run: an event for mark_run_failed once the run was
\* seen to be active.
BuildEmit(e) == Build(e, "idle", "append", "emit")
CheckRun(e) ==
  /\ ~terminal /\ EmitStep(e, "idle", "build")
  /\ UNCHANGED <<logVars, hand, streamVars, cut>>
BuildFailure(e) == Build(e, "build", "readRun", "failure")

\* Mutant: publishes without having stored.
AppendEvent_Lost(e) ==
  EmitStep(e, "append", "publish") /\ UNCHANGED <<logVars, hand, streamVars, cut>>

\* append_event.
AppendEvent(e) ==
  /\ EmitStep(e, "append", "publish")
  /\ stored' = stored \cup {hand[e]}
  /\ UNCHANGED <<terminal, built, hand, streamVars, cut>>

\* mark_run_failed: the row is read, a terminal one is left alone without
\* storing the event, and fail_run publishes the event all the same.
MarkRunFailed(e) ==
  /\ \/ EmitStep(e, "readRun", "publish") /\ terminal /\ UNCHANGED logVars
     \/ EmitStep(e, "readRun", "commit") /\ ~terminal /\ UNCHANGED logVars
     \/ /\ EmitStep(e, "commit", "publish")
        /\ stored' = stored \cup {hand[e]}
        /\ terminal' = TRUE
        /\ UNCHANGED built
  /\ UNCHANGED <<hand, streamVars, cut>>

\* The streams whose queue is registered.
Registered_AfterLoad(s) == spc[s] = "open"      \* mutant: registers after the load
Registered_Forever(s) == TRUE                   \* mutant: never removes its queue
Registered(s) == spc[s] # "off"

\* EventStreamHub.publish.
Publish(e) ==
  /\ EmitStep(e, "publish", "idle")
  /\ hand' = [hand EXCEPT ![e] = None]
  /\ queue' = [s \in Subscribers |->
                 IF Registered(s) THEN Append(queue[s], hand[e]) ELSE queue[s]]
  /\ UNCHANGED <<logVars, spc, replay, replayed, delivered, cut>>

\* CancelledError at the await the emitter is in: the event in hand is dropped,
\* stored or not.
Cancelled(e) ==
  /\ e \in Cancellable /\ epc[e] # "idle"
  /\ epc' = [epc EXCEPT ![e] = "idle"]
  /\ hand' = [hand EXCEPT ![e] = None]
  /\ cut' = cut \cup ({hand[e]} \cap stored)
  /\ UNCHANGED <<logVars, streamVars>>

\* The run completes or is cancelled: update_run_status.
EndRun == ~terminal /\ terminal' = TRUE /\ UNCHANGED <<built, stored, epc, hand, streamVars, cut>>

Emit(e) == BuildEmit(e) \/ BuildFailure(e) \/ AppendEvent(e) \/ MarkRunFailed(e) \/ Publish(e)

-----------------------------------------------------------------------------
(* Streams: EventStreamHub.stream.                                         *)

\* The queue is registered before the stored events are loaded.
Open(s) ==
  /\ spc[s] = "off"
  /\ spc' = [spc EXCEPT ![s] = "load"]
  /\ UNCHANGED <<logVars, epc, hand, queue, replay, replayed, delivered, cut>>

\* list_events: ordered by created_at.
ListEvents_Unordered ==                         \* mutant
  CHOOSE q \in [1..Cardinality(stored) -> stored] : \A i, j \in DOMAIN q : i < j => q[i] > q[j]
ListEvents ==
  CHOOSE q \in [1..Cardinality(stored) -> stored] : \A i, j \in DOMAIN q : i < j => q[i] < q[j]

\* The SELECT, and later the coroutine that awaited it.
Load(s) ==
  /\ spc[s] = "load"
  /\ spc' = [spc EXCEPT ![s] = "loaded"]
  /\ replay' = [replay EXCEPT ![s] = ListEvents]
  /\ replayed' = [replayed EXCEPT ![s] = stored]
  /\ UNCHANGED <<logVars, epc, hand, queue, delivered, cut>>

Loaded(s) ==
  /\ spc[s] = "loaded"
  /\ spc' = [spc EXCEPT ![s] = "open"]
  /\ UNCHANGED <<logVars, epc, hand, queue, replay, replayed, delivered, cut>>

YieldReplayed(s) ==
  /\ spc[s] = "open" /\ replay[s] # <<>>
  /\ delivered' = [delivered EXCEPT ![s] = Append(@, Head(replay[s]))]
  /\ replay' = [replay EXCEPT ![s] = Tail(@)]
  /\ UNCHANGED <<logVars, epc, hand, spc, queue, replayed, cut>>

\* queue.get, skipping what was replayed.
Skips_Nothing(s, n) == FALSE                    \* mutant
Skips_LaterEvents(s, n) == replayed[s] # {}     \* mutant: skips whatever follows a replay
Skips(s, n) == n \in replayed[s]
YieldLive(s) ==
  /\ spc[s] = "open" /\ replay[s] = <<>> /\ queue[s] # <<>>
  /\ queue' = [queue EXCEPT ![s] = Tail(@)]
  /\ delivered' = [delivered EXCEPT ![s] =
                     IF Skips(s, Head(queue[s])) THEN @ ELSE Append(@, Head(queue[s]))]
  /\ UNCHANGED <<logVars, epc, hand, spc, replay, replayed, cut>>

Closed(S) ==
  /\ spc' = [s \in Subscribers |-> IF s \in S THEN "off" ELSE spc[s]]
  /\ queue' = [s \in Subscribers |-> IF s \in S THEN <<>> ELSE queue[s]]
  /\ replay' = [s \in Subscribers |-> IF s \in S THEN <<>> ELSE replay[s]]
  /\ replayed' = [s \in Subscribers |-> IF s \in S THEN {} ELSE replayed[s]]
  /\ delivered' = [s \in Subscribers |-> IF s \in S THEN <<>> ELSE delivered[s]]

\* The client disconnects: finally removes the queue.
Close(s) == spc[s] # "off" /\ Closed({s}) /\ UNCHANGED <<logVars, epc, hand, cut>>

\* The process dies and starts again.
Crash ==
  /\ epc' = [e \in Emitters |-> "idle"] /\ hand' = [e \in Emitters |-> None]
  /\ Closed(Subscribers)
  /\ UNCHANGED <<logVars, cut>>

Stream(s) == Load(s) \/ Loaded(s) \/ YieldReplayed(s) \/ YieldLive(s)

-----------------------------------------------------------------------------
Init ==
  /\ terminal = FALSE /\ built = <<>> /\ stored = {}
  /\ epc = [e \in Emitters |-> "idle"] /\ hand = [e \in Emitters |-> None]
  /\ spc = [s \in Subscribers |-> "off"]
  /\ queue = [s \in Subscribers |-> <<>>] /\ replay = [s \in Subscribers |-> <<>>]
  /\ replayed = [s \in Subscribers |-> {}]
  /\ delivered = [s \in Subscribers |-> <<>>]
  /\ cut = {}

Next ==
  \/ \E e \in Emitters : Emit(e) \/ CheckRun(e) \/ Cancelled(e)
  \/ \E s \in Subscribers : Open(s) \/ Stream(s) \/ Close(s)
  \/ EndRun \/ Crash

Spec == Init /\ [][Next]_vars

\* Ready coroutines run, the database answers, and a client that stays
\* connected reads what it is sent.
Fairness ==
  /\ \A e \in Emitters : WF_vars(AppendEvent(e) \/ MarkRunFailed(e) \/ Publish(e))
  /\ \A s \in Subscribers : WF_vars(Stream(s))

FairSpec == Spec /\ Fairness

-----------------------------------------------------------------------------
(* Properties.                                                             *)

\* Every variable has its type; a closed stream has left no queue behind in
\* the hub, and an emitter between build and publish holds an event.
TypeOK ==
  /\ terminal \in BOOLEAN
  /\ built \in Seq([by : Emitters, kind : {"emit", "failure"}])
  /\ stored \subseteq Events /\ cut \subseteq stored
  /\ epc \in [Emitters -> {"idle", "append", "build", "readRun", "commit", "publish"}]
  /\ hand \in [Emitters -> Events \cup {None}]
  /\ spc \in [Subscribers -> {"off", "load", "loaded", "open"}]
  /\ queue \in [Subscribers -> Seq(Events)] /\ replay \in [Subscribers -> Seq(Events)]
  /\ delivered \in [Subscribers -> Seq(Events)] /\ replayed \in [Subscribers -> SUBSET stored]
  /\ \A s \in Subscribers : spc[s] = "off" => queue[s] = <<>>
  /\ \A e \in Emitters : hand[e] = None <=> epc[e] \in {"idle", "build"}

\* A stream yields no event twice, though an event can reach it both through
\* the load and through the queue (EventStreamHub.stream).
DeliveredOnce == \A s \in Subscribers : IsInjective(delivered[s])

\* Events still to be published.
Unpublished == {hand[e] : e \in {f \in Emitters : epc[f] = "publish"}}

\* No stored event falls between load and queue: an open stream has yielded
\* it, will replay it, has it on its queue, or it is still to be published.
\* The exception is an event whose emitter was cancelled before publishing.
NothingMissed ==
  \A s \in Subscribers : spc[s] = "open" =>
    stored \ (Unpublished \cup cut)
      \subseteq ToSet(delivered[s]) \cup ToSet(replay[s]) \cup ToSet(queue[s])

\* The stored events of one coroutine (the whole execution of a run, above all)
\* are yielded in the order it emitted them, across the switch from replay to
\* live.
EmitterOrder ==
  \A s \in Subscribers : \A i, j \in DOMAIN delivered[s] :
    /\ i < j /\ {delivered[s][i], delivered[s][j]} \subseteq stored
    /\ built[delivered[s][i]].by = built[delivered[s][j]].by
    => delivered[s][i] < delivered[s][j]

\* What a client was shown is in the event log, so a reconnect shows it again;
\* only the run.failed of a fail_run that lost a race may be missing there.
StreamedIsStored ==
  \A s \in Subscribers : \A n \in ToSet(delivered[s]) :
    n \in stored \/ built[n].kind = "failure"

\* A stored event reaches every stream that stays open, unless its emitter was
\* cancelled before publishing it.
EventArrives ==
  \A s \in Subscribers : \A n \in 1..MaxEvents :
    (n \in stored /\ spc[s] # "off")
      ~> (n \in ToSet(delivered[s]) \/ n \in cut \/ spc[s] = "off")
=============================================================================
