------------------------- MODULE EventStreamProofs -------------------------
(* Theorems about EventStream, for every set of emitters and of streams    *)
(* and every number of events.                                             *)
EXTENDS EventStream, SequenceTheorems, FiniteSetTheorems, TLAPS

-----------------------------------------------------------------------------
(* Sequences.                                                              *)

LEMMA SeqIndices ==
  ASSUME NEW S, NEW q \in Seq(S)
  PROVE  /\ DOMAIN q = 1..Len(q) /\ Len(q) \in Nat
         /\ \A i \in DOMAIN q : q[i] \in S
         /\ ToSet(q) \subseteq S
BY LenProperties DEF ToSet

LEMMA EmptyFacts ==
  /\ \A S : <<>> \in Seq(S)
  /\ ToSet(<<>>) = {} /\ DOMAIN <<>> = {}
BY DEF ToSet

LEMMA AppendFacts ==
  ASSUME NEW S, NEW q \in Seq(S), NEW x \in S
  PROVE  /\ Append(q, x) \in Seq(S)
         /\ DOMAIN Append(q, x) = 1..(Len(q) + 1)
         /\ \A i \in 1..Len(q) : Append(q, x)[i] = q[i]
         /\ Append(q, x)[Len(q) + 1] = x
         /\ ToSet(Append(q, x)) = ToSet(q) \cup {x}
<1>1. /\ Append(q, x) \in Seq(S) /\ Len(Append(q, x)) = Len(q) + 1 /\ Len(q) \in Nat
      /\ \A i \in 1..Len(q) : Append(q, x)[i] = q[i]
      /\ Append(q, x)[Len(q) + 1] = x
  BY AppendProperties, LenProperties
<1>2. DOMAIN Append(q, x) = 1..(Len(q) + 1) /\ DOMAIN q = 1..Len(q) BY <1>1, SeqIndices
<1>3. ToSet(Append(q, x)) \subseteq ToSet(q) \cup {x}
  <2> SUFFICES ASSUME NEW i \in 1..(Len(q) + 1) PROVE Append(q, x)[i] \in ToSet(q) \cup {x}
    BY <1>2 DEF ToSet
  <2>1. CASE i = Len(q) + 1 BY <1>1, <2>1
  <2>2. CASE i \in 1..Len(q) BY <1>1, <1>2, <2>2 DEF ToSet
  <2>3. QED BY <1>1, <2>1, <2>2
<1>4. ToSet(q) \subseteq ToSet(Append(q, x))
  <2> SUFFICES ASSUME NEW i \in 1..Len(q) PROVE q[i] \in ToSet(Append(q, x)) BY <1>2 DEF ToSet
  <2>1. i \in DOMAIN Append(q, x) /\ Append(q, x)[i] = q[i] BY <1>1, <1>2
  <2>2. QED BY <2>1 DEF ToSet
<1>5. x \in ToSet(Append(q, x))
  <2>1. Len(q) + 1 \in DOMAIN Append(q, x) BY <1>1, <1>2
  <2>2. QED BY <1>1, <2>1 DEF ToSet
<1>6. QED BY <1>1, <1>2, <1>3, <1>4, <1>5

LEMMA TailFacts ==
  ASSUME NEW S, NEW q \in Seq(S), q # <<>>
  PROVE  /\ Tail(q) \in Seq(S) /\ Head(q) \in S
         /\ 1 \in DOMAIN q /\ Head(q) = q[1]
         /\ \A i \in DOMAIN Tail(q) : i + 1 \in DOMAIN q /\ Tail(q)[i] = q[i + 1] /\ i \in Nat \ {0}
         /\ ToSet(q) = {Head(q)} \cup ToSet(Tail(q))
<1>1. /\ Head(q) \in S /\ Tail(q) \in Seq(S) /\ Len(Tail(q)) = Len(q) - 1
      /\ \A i \in 1..Len(Tail(q)) : Tail(q)[i] = q[i + 1]
  BY HeadTailProperties
<1>2. Len(q) \in Nat \ {0} /\ Head(q) = q[1] BY EmptySeq
<1>3. DOMAIN q = 1..Len(q) /\ DOMAIN Tail(q) = 1..(Len(q) - 1) BY <1>1, SeqIndices
<1>4. \A i \in DOMAIN Tail(q) : i + 1 \in DOMAIN q /\ Tail(q)[i] = q[i + 1] /\ i \in Nat \ {0}
  BY <1>1, <1>2, <1>3
<1>5. ToSet(q) \subseteq {Head(q)} \cup ToSet(Tail(q))
  <2> SUFFICES ASSUME NEW i \in 1..Len(q) PROVE q[i] \in {Head(q)} \cup ToSet(Tail(q))
    BY <1>3 DEF ToSet
  <2>1. CASE i = 1 BY <1>2, <2>1
  <2>2. CASE i # 1
    <3>1. i - 1 \in DOMAIN Tail(q) /\ (i - 1) + 1 = i BY <1>2, <1>3, <2>2
    <3>2. q[i] = Tail(q)[i - 1] BY <1>4, <3>1
    <3>3. QED BY <3>1, <3>2 DEF ToSet
  <2>3. QED BY <2>1, <2>2
<1>6. {Head(q)} \cup ToSet(Tail(q)) \subseteq ToSet(q) BY <1>2, <1>3, <1>4 DEF ToSet
<1>7. QED BY <1>1, <1>2, <1>3, <1>4, <1>5, <1>6

-----------------------------------------------------------------------------
(* list_events returns every stored event, in order.                       *)

LEMMA Smallest ==
  ASSUME NEW T \in SUBSET Nat, T # {}
  PROVE  \E n \in T : \A m \in T : n <= m
<1>1. IsWellFoundedOn(OpToRel(<, Nat), Nat) BY NatLessThanWellFounded
<1>2. PICK n \in T : \A m \in T : <<m, n>> \notin OpToRel(<, Nat) BY <1>1, WFMin
<1>3. \A m \in T : ~(m < n) BY <1>2 DEF OpToRel
<1>4. \A m \in T : m \in Nat /\ n \in Nat OBVIOUS
<1>5. QED BY <1>3, <1>4

\* The enumerations of a set of numbers in increasing order: there is one of
\* every set of events.
Listing(S) == {q \in [1..Cardinality(S) -> S] : \A i, j \in 1..Cardinality(S) : i < j => q[i] < q[j]}

LEMMA ListingExists == \A n \in Nat : \A S \in SUBSET (1..n) : Listing(S) # {}
<1> DEFINE Bad == {n \in Nat : \E S \in SUBSET (1..n) : Listing(S) = {}}
<1>1. SUFFICES ASSUME Bad # {} PROVE FALSE OBVIOUS
<1>2. PICK n \in Bad : \A m \in Bad : n <= m 
  <2>1. Bad \in SUBSET Nat OBVIOUS
  <2>2. QED BY <1>1, <2>1, Smallest
<1>3. PICK S \in SUBSET (1..n) : Listing(S) = {} BY <1>2
<1>4. n \in Nat /\ IsFiniteSet(S)
  <2>1. IsFiniteSet(1..n) BY <1>2, FS_Interval
  <2>2. QED BY <1>2, <1>3, <2>1, FS_Subset
<1>5. CASE S = {}
  <2>1. Cardinality(S) = 0 BY <1>5, FS_EmptySet
  <2>2. [i \in 1..0 |-> 0] \in [1..0 -> S] OBVIOUS
  <2>3. [i \in 1..0 |-> 0] \in Listing(S) BY <2>1, <2>2 DEF Listing
  <2>4. QED BY <1>3, <2>3
<1>6. CASE S # {} /\ n \notin S
  <2>1. n - 1 \in Nat /\ S \in SUBSET (1..(n-1))
    <3>1. PICK x \in S : x \in 1..n BY <1>6
    <3>2. QED BY <1>4, <1>6, <3>1
  <2>2. n - 1 \in Bad BY <1>3, <2>1
  <2>3. QED BY <1>2, <2>1, <2>2
<1>7. CASE n \in S
  <2> DEFINE R == S \ {n}
             k == Cardinality(R)
  <2>1. n - 1 \in Nat /\ R \in SUBSET (1..(n-1)) BY <1>4, <1>7
  <2>2. Listing(R) # {} BY <1>2, <2>1
  <2>3. PICK q \in Listing(R) : TRUE BY <2>2
  <2>4. k \in Nat /\ Cardinality(S) = k + 1
    <3>1. IsFiniteSet(R) /\ k = Cardinality(S) - 1 BY <1>4, <1>7, FS_RemoveElement
    <3>2. k \in Nat /\ Cardinality(S) \in Nat BY <1>4, <3>1, FS_CardinalityType
    <3>3. QED BY <3>1, <3>2
  <2> HIDE DEF k
  <2>5. q \in [1..k -> R] /\ \A i, j \in 1..k : i < j => q[i] < q[j] BY <2>3 DEF Listing, k
  <2> DEFINE p == [i \in 1..(k + 1) |-> IF i = k + 1 THEN n ELSE q[i]]
  <2>6. p \in [1..(k + 1) -> S] BY <1>7, <2>4, <2>5
  <2>7. \A i, j \in 1..(k + 1) : i < j => p[i] < p[j] 
    <3> SUFFICES ASSUME NEW i \in 1..(k+1), NEW j \in 1..(k+1), i < j PROVE p[i] < p[j] OBVIOUS
    <3>1. i \in 1..k BY <2>4
    <3>2. q[i] \in 1..(n-1) BY <2>1, <2>5, <3>1
    <3>3. QED BY <1>4, <2>4, <2>5, <3>1, <3>2
  <2>8. p \in Listing(S) BY <2>4, <2>6, <2>7 DEF Listing
  <2>9. QED BY <1>3, <2>8
<1>8. QED BY <1>5, <1>6, <1>7

LEMMA ListEventsFacts ==
  ASSUME stored \subseteq Events, Len(built) \in Nat
  PROVE  /\ ListEvents \in Seq(stored) /\ ToSet(ListEvents) = stored
         /\ \A i, j \in DOMAIN ListEvents : i < j => ListEvents[i] < ListEvents[j]
<1> DEFINE k == Cardinality(stored)
<1>1. IsFiniteSet(stored) /\ k \in Nat
  <2>1. IsFiniteSet(Events) BY FS_Interval DEF Events
  <2>2. QED BY <2>1, FS_Subset, FS_CardinalityType
<1>2. Listing(stored) # {} BY ListingExists DEF Events
<1>3. ListEvents \in [1..k -> stored] /\ \A i, j \in DOMAIN ListEvents : i < j => ListEvents[i] < ListEvents[j]
  <2>1. \E q \in [1..k -> stored] : \A i, j \in DOMAIN q : i < j => q[i] < q[j]
    BY <1>2 DEF Listing
  <2>2. QED BY <2>1 DEF ListEvents
<1>4. DOMAIN ListEvents = 1..k BY <1>3
<1>5. ListEvents \in Seq(stored) BY <1>1, <1>3, SeqDef
<1>6. ListEvents \in Surjection(1..k, stored)
  <2>1. IsFiniteSet(1..k) /\ Cardinality(1..k) = k BY <1>1, FS_Interval
  <2>2. ASSUME NEW i \in 1..k, NEW j \in 1..k, ListEvents[i] = ListEvents[j] PROVE i = j
    <3>1. ListEvents[i] \in Nat /\ ListEvents[j] \in Nat
      <4>1. ListEvents[i] \in stored /\ ListEvents[j] \in stored BY <1>3
      <4>2. stored \subseteq Nat BY DEF Events
      <4>3. QED BY <4>1, <4>2
    <3>2. ~(i < j) /\ ~(j < i) BY <1>3, <1>4, <2>2, <3>1
    <3>3. QED BY <1>1, <3>2
  <2>3. ListEvents \in Injection(1..k, stored) BY <1>3, <2>2 DEF Injection, IsInjective
  <2>4. QED BY <1>1, <2>1, <2>3, FS_Injection
<1>7. ToSet(ListEvents) = stored BY <1>4, <1>6 DEF Surjection, ToSet
<1>8. QED BY <1>3, <1>5, <1>7

-----------------------------------------------------------------------------
(* Type correctness.                                                       *)

USE DEF vars, logVars, streamVars, EmitStep
Event == [by : Emitters, kind : {"emit", "failure"}]
EmitterPC == {"idle", "append", "build", "readRun", "commit", "publish"}
StreamPC == {"off", "load", "loaded", "open"}

LEMMA EventsFacts ==
  ASSUME TypeOK
  PROVE  /\ Len(built) \in Nat /\ Events \subseteq Nat /\ None \notin Events
         /\ \A n \in Events : built[n] \in Event
<1>1. built \in Seq(Event) BY DEF TypeOK, Event
<1>2. /\ Len(built) \in Nat /\ DOMAIN built = 1..Len(built)
      /\ \A n \in DOMAIN built : built[n] \in Event
  BY <1>1, SeqIndices
<1>3. QED BY <1>2, EventsAssumption DEF Events

LEMMA BuildFacts ==
  ASSUME TypeOK, NEW e \in Emitters, NEW kind \in {"emit", "failure"},
         built' = Append(built, [by |-> e, kind |-> kind]), hand' = [hand EXCEPT ![e] = Len(built) + 1]
  PROVE  /\ built' \in Seq(Event) /\ Events \subseteq Events' /\ hand'[e] \in Events' \ Events
         /\ built'[hand'[e]] = [by |-> e, kind |-> kind]
         /\ \A n \in Events : built'[n] = built[n]
         /\ \A n \in Events' : n \in Events \/ n = hand'[e]
         /\ \A n \in Events : n < hand'[e]
<1>1. built \in Seq(Event) /\ [by |-> e, kind |-> kind] \in Event /\ Len(built) \in Nat
  BY EventsFacts DEF TypeOK, Event
<1>2. built' = Append(built, [by |-> e, kind |-> kind]) /\ hand'[e] = Len(built) + 1
  BY DEF TypeOK
<1>3. /\ built' \in Seq(Event) /\ Len(built') = Len(built) + 1
      /\ \A n \in 1..Len(built) : built'[n] = built[n]
      /\ built'[Len(built) + 1] = [by |-> e, kind |-> kind]
  BY <1>1, <1>2, AppendProperties
<1>4. QED BY <1>1, <1>2, <1>3 DEF Events

LEMMA TypeInit == Init => TypeOK
<1> SUFFICES ASSUME Init PROVE TypeOK OBVIOUS
<1>1. built \in Seq(Event) /\ Len(built) = 0 BY EmptySeq DEF Init
<1>2. Events = {} BY <1>1 DEF Events
<1>3. \A s \in Subscribers : <<>> \in Seq(Events) BY EmptyFacts
<1>4. QED BY <1>1, <1>2, <1>3 DEF Init, TypeOK, Event

LEMMA TypeBuild ==
  ASSUME TypeOK, NEW e \in Emitters, NEW from \in {"idle", "build"}, NEW to \in {"append", "readRun"},
         NEW kind \in {"emit", "failure"}, Build(e, from, to, kind)
  PROVE  TypeOK'
<1>1. /\ epc[e] = from /\ epc' = [epc EXCEPT ![e] = to]
      /\ built' = Append(built, [by |-> e, kind |-> kind])
      /\ hand' = [hand EXCEPT ![e] = Len(built) + 1]
      /\ UNCHANGED <<terminal, stored, streamVars, cut>>
  BY DEF Build
<1>2. built' \in Seq(Event) /\ Events \subseteq Events' /\ hand'[e] \in Events' BY <1>1, BuildFacts
<1>3. \A q \in Seq(Events) : q \in Seq(Events') BY <1>2, SeqMonotonic
<1>4. /\ queue \in [Subscribers -> Seq(Events')] /\ replay \in [Subscribers -> Seq(Events')]
      /\ delivered \in [Subscribers -> Seq(Events')]
  BY <1>3 DEF TypeOK
<1>5. epc' \in [Emitters -> EmitterPC] /\ hand' \in [Emitters -> Events' \cup {None}]
  BY <1>1, <1>2 DEF TypeOK, EmitterPC
<1>6. \A f \in Emitters : hand'[f] = None <=> epc'[f] \in {"idle", "build"}
  <2>1. hand'[e] # None BY <1>2, EventsAssumption DEF Events
  <2>2. QED BY <1>1, <2>1 DEF TypeOK
<1>7. stored \subseteq Events' BY <1>2 DEF TypeOK
<1>8. QED BY <1>1, <1>2, <1>4, <1>5, <1>6, <1>7 DEF TypeOK, Event, EmitterPC

\* What the other steps of an emitter do.
LEMMA TypeEmitter ==
  ASSUME TypeOK, NEW e \in Emitters, NEW to \in EmitterPC, epc' = [epc EXCEPT ![e] = to],
         \/ UNCHANGED hand /\ (to \in {"idle", "build"} <=> epc[e] \in {"idle", "build"})
         \/ hand' = [hand EXCEPT ![e] = None] /\ to = "idle",
         terminal' \in BOOLEAN, UNCHANGED <<built, spc, replay, replayed, delivered>>,
         stored \subseteq stored', stored' \subseteq Events, cut' \subseteq stored',
         queue' \in [Subscribers -> Seq(Events)],
         \A s \in Subscribers : spc[s] = "off" => queue'[s] = queue[s]
  PROVE  TypeOK'
<1>1. Events' = Events BY DEF Events
<1>2. epc' \in [Emitters -> EmitterPC] BY DEF TypeOK, EmitterPC
<1>3. /\ hand' \in [Emitters -> Events \cup {None}]
      /\ \A f \in Emitters : hand'[f] = None <=> epc'[f] \in {"idle", "build"}
  BY <1>2 DEF TypeOK
<1>4. replayed \in [Subscribers -> SUBSET stored'] BY DEF TypeOK
<1>5. QED BY <1>1, <1>2, <1>3, <1>4 DEF TypeOK, EmitterPC

LEMMA PublishFacts ==
  ASSUME TypeOK, NEW e \in Emitters, Publish(e)
  PROVE  /\ hand[e] \in Events
         /\ \A s \in Subscribers :
              queue'[s] = IF spc[s] # "off" THEN Append(queue[s], hand[e]) ELSE queue[s]
         /\ queue' \in [Subscribers -> Seq(Events)]
<1>1. hand[e] \in Events BY DEF Publish, TypeOK
<1>2. \A s \in Subscribers : queue[s] \in Seq(Events) /\ Append(queue[s], hand[e]) \in Seq(Events)
  BY <1>1, AppendFacts DEF TypeOK
<1>3. QED BY <1>1, <1>2 DEF Publish, Registered

LEMMA TypeLog ==
  ASSUME TypeOK, (\E e \in Emitters : Emit(e) \/ CheckRun(e) \/ Cancelled(e)) \/ EndRun
  PROVE  TypeOK'
<1>1. CASE EndRun BY <1>1 DEF EndRun, TypeOK, Events
<1>2. ASSUME NEW e \in Emitters, Emit(e) \/ CheckRun(e) \/ Cancelled(e) PROVE TypeOK'
  <2>1. queue \in [Subscribers -> Seq(Events)] /\ cut \subseteq stored /\ stored \subseteq Events
        /\ terminal \in BOOLEAN /\ hand[e] \in Events \cup {None}
        /\ (hand[e] = None <=> epc[e] \in {"idle", "build"})
    BY DEF TypeOK
  <2>2. CASE BuildEmit(e) BY <2>2, TypeBuild DEF BuildEmit
  <2>3. CASE BuildFailure(e) BY <2>3, TypeBuild DEF BuildFailure
  <2>4. CASE CheckRun(e)
    <3>1. /\ epc[e] = "idle" /\ epc' = [epc EXCEPT ![e] = "build"]
          /\ UNCHANGED <<terminal, built, stored, hand, streamVars, cut>>
      BY <2>4 DEF CheckRun
    <3>2. QED BY <2>1, <3>1, TypeEmitter DEF EmitterPC
  <2>5. CASE AppendEvent(e)
    <3>1. /\ epc[e] = "append" /\ epc' = [epc EXCEPT ![e] = "publish"]
          /\ stored' = stored \cup {hand[e]} /\ UNCHANGED <<terminal, built, hand, streamVars, cut>>
      BY <2>5 DEF AppendEvent
    <3>2. stored' \subseteq Events BY <2>1, <3>1
    <3>3. QED BY <2>1, <3>1, <3>2, TypeEmitter DEF EmitterPC
  <2>6. CASE MarkRunFailed(e)
    <3>1. PICK to \in {"publish", "commit"} :
            /\ epc[e] \in {"readRun", "commit"} /\ epc' = [epc EXCEPT ![e] = to]
            /\ stored' \in {stored, stored \cup {hand[e]}} /\ terminal' \in {terminal, TRUE}
            /\ UNCHANGED <<built, hand, streamVars, cut>>
      BY <2>6 DEF MarkRunFailed
    <3>2. stored \subseteq stored' /\ stored' \subseteq Events BY <2>1, <3>1
    <3>3. QED BY <2>1, <3>1, <3>2, TypeEmitter DEF EmitterPC
  <2>7. CASE Publish(e)
    <3>1. /\ epc[e] = "publish" /\ epc' = [epc EXCEPT ![e] = "idle"] /\ hand' = [hand EXCEPT ![e] = None]
          /\ UNCHANGED <<terminal, built, stored, spc, replay, replayed, delivered, cut>>
      BY <2>7 DEF Publish
    <3>2. QED BY <2>1, <2>7, <3>1, PublishFacts, TypeEmitter DEF EmitterPC
  <2>8. CASE Cancelled(e)
    <3>1. /\ epc' = [epc EXCEPT ![e] = "idle"] /\ hand' = [hand EXCEPT ![e] = None]
          /\ cut' = cut \cup ({hand[e]} \cap stored) /\ UNCHANGED <<terminal, built, stored, streamVars>>
      BY <2>8 DEF Cancelled
    <3>2. cut' \subseteq stored BY <2>1, <3>1
    <3>3. QED BY <2>1, <3>1, <3>2, TypeEmitter DEF EmitterPC
  <2>9. QED BY <1>2, <2>2, <2>3, <2>4, <2>5, <2>6, <2>7, <2>8 DEF Emit
<1>3. QED BY <1>1, <1>2

\* What a step of one stream may do to it, and what closing does.
LEMMA TypeOneStream ==
  ASSUME TypeOK, NEW s \in Subscribers, UNCHANGED <<logVars, epc, hand, cut>>,
         NEW to \in StreamPC, spc' = [spc EXCEPT ![s] = to],
         NEW q \in Seq(Events), queue' = [queue EXCEPT ![s] = q],
         NEW r \in Seq(Events), replay' = [replay EXCEPT ![s] = r],
         NEW R \in SUBSET stored, replayed' = [replayed EXCEPT ![s] = R],
         NEW d \in Seq(Events), delivered' = [delivered EXCEPT ![s] = d],
         to = "off" => q = <<>>
  PROVE  TypeOK'
<1>1. Events' = Events BY DEF Events
<1>2. spc' \in [Subscribers -> StreamPC] BY DEF TypeOK, StreamPC
<1>3. \A t \in Subscribers : spc'[t] = "off" => queue'[t] = <<>> BY DEF TypeOK
<1>4. /\ queue' \in [Subscribers -> Seq(Events)] /\ replay' \in [Subscribers -> Seq(Events)]
      /\ delivered' \in [Subscribers -> Seq(Events)] /\ replayed' \in [Subscribers -> SUBSET stored]
  BY DEF TypeOK
<1>5. QED BY <1>1, <1>2, <1>3, <1>4 DEF TypeOK, StreamPC

LEMMA TypeClosed ==
  ASSUME TypeOK, NEW S \in SUBSET Subscribers, Closed(S), UNCHANGED <<logVars, cut>>,
         \/ UNCHANGED <<epc, hand>>
         \/ epc' = [e \in Emitters |-> "idle"] /\ hand' = [e \in Emitters |-> None]
  PROVE  TypeOK'
<1>1. Events' = Events BY DEF Events
<1>2. <<>> \in Seq(Events) BY EmptyFacts
<1>3. /\ queue' \in [Subscribers -> Seq(Events)] /\ replay' \in [Subscribers -> Seq(Events)]
      /\ delivered' \in [Subscribers -> Seq(Events)] /\ replayed' \in [Subscribers -> SUBSET stored]
  BY <1>2 DEF Closed, TypeOK
<1>4. /\ spc' \in [Subscribers -> StreamPC]
      /\ \A s \in Subscribers : spc'[s] = "off" => queue'[s] = <<>>
  BY DEF Closed, TypeOK, StreamPC
<1>5. /\ epc' \in [Emitters -> EmitterPC] /\ hand' \in [Emitters -> Events \cup {None}]
      /\ \A e \in Emitters : hand'[e] = None <=> epc'[e] \in {"idle", "build"}
  BY DEF TypeOK, EmitterPC
<1>6. QED BY <1>1, <1>3, <1>4, <1>5 DEF TypeOK, EmitterPC, StreamPC

LEMMA TypeStreams ==
  ASSUME TypeOK, (\E s \in Subscribers : Open(s) \/ Stream(s) \/ Close(s)) \/ Crash
  PROVE  TypeOK'
<1>1. CASE Crash BY <1>1, TypeClosed DEF Crash
<1>2. ASSUME NEW s \in Subscribers, Open(s) \/ Stream(s) \/ Close(s) PROVE TypeOK'
  <2>1. /\ queue[s] \in Seq(Events) /\ replay[s] \in Seq(Events) /\ delivered[s] \in Seq(Events)
        /\ replayed[s] \in SUBSET stored
        /\ queue = [queue EXCEPT ![s] = queue[s]] /\ replay = [replay EXCEPT ![s] = replay[s]]
        /\ delivered = [delivered EXCEPT ![s] = delivered[s]]
        /\ replayed = [replayed EXCEPT ![s] = replayed[s]] /\ spc = [spc EXCEPT ![s] = spc[s]]
        /\ spc[s] \in StreamPC
    BY DEF TypeOK, StreamPC
  <2>2. CASE Open(s)
    <3>1. spc' = [spc EXCEPT ![s] = "load"] /\ UNCHANGED <<logVars, epc, hand, cut, queue, replay, replayed, delivered>>
      BY <2>2 DEF Open
    <3>2. QED BY <2>1, <3>1, TypeOneStream DEF StreamPC
  <2>3. CASE Load(s)
    <3>1. /\ spc' = [spc EXCEPT ![s] = "loaded"] /\ replay' = [replay EXCEPT ![s] = ListEvents]
          /\ replayed' = [replayed EXCEPT ![s] = stored]
          /\ UNCHANGED <<logVars, epc, hand, cut, queue, delivered>>
      BY <2>3 DEF Load
    <3>2. ListEvents \in Seq(Events)
      <4>1. stored \subseteq Events /\ Len(built) \in Nat BY EventsFacts DEF TypeOK
      <4>2. QED BY <4>1, ListEventsFacts, SeqMonotonic
    <3>3. "loaded" \in StreamPC /\ stored \in SUBSET stored BY DEF StreamPC
    <3>4. /\ queue' = [queue EXCEPT ![s] = queue[s]]
          /\ delivered' = [delivered EXCEPT ![s] = delivered[s]]
          /\ UNCHANGED <<logVars, epc, hand, cut>>
      BY <2>1, <3>1
    <3>5. QED BY <2>1, <3>1, <3>2, <3>3, <3>4, TypeOneStream
  <2>4. CASE Loaded(s)
    <3>1. spc' = [spc EXCEPT ![s] = "open"] /\ UNCHANGED <<logVars, epc, hand, cut, queue, replay, replayed, delivered>>
      BY <2>4 DEF Loaded
    <3>2. QED BY <2>1, <3>1, TypeOneStream DEF StreamPC
  <2>5. CASE YieldReplayed(s)
    <3>1. /\ replay[s] # <<>> /\ delivered' = [delivered EXCEPT ![s] = Append(delivered[s], Head(replay[s]))]
          /\ replay' = [replay EXCEPT ![s] = Tail(replay[s])] /\ spc[s] = "open"
          /\ UNCHANGED <<logVars, epc, hand, cut, spc, queue, replayed>>
      BY <2>5 DEF YieldReplayed
    <3>2. Tail(replay[s]) \in Seq(Events) /\ Append(delivered[s], Head(replay[s])) \in Seq(Events)
      BY <2>1, <3>1, TailFacts, AppendFacts
    <3>3. QED BY <2>1, <3>1, <3>2, TypeOneStream DEF StreamPC
  <2>6. CASE YieldLive(s)
    <3>1. /\ queue[s] # <<>> /\ queue' = [queue EXCEPT ![s] = Tail(queue[s])] /\ spc[s] = "open"
          /\ delivered' = [delivered EXCEPT ![s] = IF Skips(s, Head(queue[s])) THEN delivered[s]
                             ELSE Append(delivered[s], Head(queue[s]))]
          /\ UNCHANGED <<logVars, epc, hand, cut, spc, replay, replayed>>
      BY <2>6 DEF YieldLive
    <3>2. Tail(queue[s]) \in Seq(Events) /\ Append(delivered[s], Head(queue[s])) \in Seq(Events)
      BY <2>1, <3>1, TailFacts, AppendFacts
    <3>3. /\ spc' = [spc EXCEPT ![s] = spc[s]] /\ replay' = [replay EXCEPT ![s] = replay[s]]
          /\ replayed' = [replayed EXCEPT ![s] = replayed[s]] /\ spc[s] # "off"
          /\ UNCHANGED <<logVars, epc, hand, cut>>
      BY <2>1, <3>1
    <3>4. PICK d \in Seq(Events) : delivered' = [delivered EXCEPT ![s] = d]
      BY <2>1, <3>1, <3>2
    <3>5. QED BY <2>1, <3>1, <3>2, <3>3, <3>4, TypeOneStream
  <2>7. CASE Close(s) BY <2>7, TypeClosed DEF Close
  <2>8. QED BY <1>2, <2>2, <2>3, <2>4, <2>5, <2>6, <2>7 DEF Stream
<1>3. QED BY <1>1, <1>2

LEMMA TypeStep == TypeOK /\ [Next]_vars => TypeOK'
<1>1. ASSUME TypeOK, UNCHANGED vars PROVE TypeOK' BY <1>1 DEF TypeOK, Events
<1>2. ASSUME TypeOK, Next PROVE TypeOK' BY <1>2, TypeLog, TypeStreams DEF Next
<1>3. QED BY <1>1, <1>2

\* Every variable has its type in every reachable state: a queue is registered
\* only for a stream that is not closed, and an emitter holds an event exactly
\* between building it and publishing it.
THEOREM TypeCorrect == Spec => []TypeOK
<1>1. QED BY TypeInit, TypeStep, PTL DEF Spec

-----------------------------------------------------------------------------
(* The inductive invariant.                                                *)

SameEmitter(m, n) == built[m].by = built[n].by
Shown(n) == n \in stored \/ built[n].kind = "failure"
Held(n) == \E e \in Emitters : n = hand[e]

\* An event in hand is the latest of its emitter; it is not stored before its
\* append commits, and once it is to be published a client may see it.
HoldInv(e) ==
  hand[e] # None =>
    /\ built[hand[e]].by = e
    /\ \A n \in Events : built[n].by = e => n <= hand[e]
    /\ epc[e] \in {"append", "readRun", "commit"} => hand[e] \notin stored
    /\ epc[e] \in {"readRun", "commit"} => built[hand[e]].kind = "failure"
    /\ epc[e] = "publish" => Shown(hand[e])

\* A queue holds published events, those of one emitter in order, and a stored
\* one that was not replayed is later than what was.
QueueInv(s) ==
  /\ \A n \in ToSet(queue[s]) :
       /\ Shown(n) /\ ~Held(n)
       /\ spc[s] \in {"loaded", "open"} /\ n \in stored \ replayed[s] =>
            \A m \in replayed[s] : SameEmitter(m, n) => m < n
  /\ \A i, j \in DOMAIN queue[s] : i < j =>
       /\ queue[s][i] # queue[s][j]
       /\ SameEmitter(queue[s][i], queue[s][j]) => queue[s][i] < queue[s][j]

\* The replay goes through the loaded events in order, and what it has not
\* reached follows everything yielded.
ReplayInv(s) ==
  /\ spc[s] \in {"off", "load"} => replay[s] = <<>> /\ replayed[s] = {}
  /\ spc[s] # "open" => delivered[s] = <<>>
  /\ ToSet(replay[s]) \subseteq replayed[s]
  /\ replayed[s] \subseteq ToSet(delivered[s]) \cup ToSet(replay[s])
  /\ \A i, j \in DOMAIN replay[s] : i < j => replay[s][i] < replay[s][j]
  /\ \A m \in ToSet(delivered[s]), n \in ToSet(replay[s]) : m < n

\* An event yielded live is published, and precedes what is still queued.
DeliveredInv(s) ==
  /\ \A n \in ToSet(delivered[s]) :
       /\ Shown(n)
       /\ n \notin replayed[s] =>
            /\ ~Held(n)
            /\ \A m \in ToSet(queue[s]) : n # m /\ (SameEmitter(n, m) => n < m)
  /\ \A i, j \in DOMAIN delivered[s] : i < j =>
       /\ delivered[s][i] # delivered[s][j]
       /\ /\ {delivered[s][i], delivered[s][j]} \subseteq stored
          /\ SameEmitter(delivered[s][i], delivered[s][j])
          => delivered[s][i] < delivered[s][j]

\* From the load on, no published event is missing.
CoverInv(s) ==
  spc[s] \in {"loaded", "open"} =>
    stored \ (Unpublished \cup cut) \subseteq ToSet(delivered[s]) \cup ToSet(replay[s]) \cup ToSet(queue[s])

StreamInv(s) == QueueInv(s) /\ ReplayInv(s) /\ DeliveredInv(s) /\ CoverInv(s)
IInv ==
  /\ TypeOK
  /\ \A e \in Emitters : HoldInv(e)
  /\ \A s \in Subscribers : StreamInv(s)

LEMMA StreamFacts ==
  ASSUME TypeOK, NEW s \in Subscribers
  PROVE  /\ queue[s] \in Seq(Events) /\ replay[s] \in Seq(Events) /\ delivered[s] \in Seq(Events)
         /\ ToSet(queue[s]) \subseteq Events /\ ToSet(replay[s]) \subseteq Events
         /\ ToSet(delivered[s]) \subseteq Events
         /\ replayed[s] \subseteq stored /\ stored \subseteq Events
         /\ \A i \in DOMAIN queue[s] : queue[s][i] \in ToSet(queue[s])
         /\ \A i \in DOMAIN replay[s] : replay[s][i] \in ToSet(replay[s])
         /\ \A i \in DOMAIN delivered[s] : delivered[s][i] \in ToSet(delivered[s])
<1>1. /\ queue[s] \in Seq(Events) /\ replay[s] \in Seq(Events) /\ delivered[s] \in Seq(Events)
      /\ replayed[s] \subseteq stored /\ stored \subseteq Events
  BY DEF TypeOK
<1>2. /\ ToSet(queue[s]) \subseteq Events /\ ToSet(replay[s]) \subseteq Events
      /\ ToSet(delivered[s]) \subseteq Events
  BY <1>1, SeqIndices
<1>3. QED BY <1>1, <1>2 DEF ToSet

LEMMA InvInit == Init => IInv
<1> SUFFICES ASSUME Init PROVE IInv OBVIOUS
<1>1. ASSUME NEW s \in Subscribers PROVE StreamInv(s)
  BY EmptyFacts DEF Init, StreamInv, QueueInv, ReplayInv, DeliveredInv, CoverInv
<1>2. QED BY <1>1, TypeInit DEF Init, IInv, HoldInv

\* Only one emitter holds an event.
LEMMA HeldOnce ==
  ASSUME IInv, NEW e \in Emitters, NEW f \in Emitters, hand[e] = hand[f], hand[e] # None
  PROVE  e = f
BY DEF IInv, HoldInv

-----------------------------------------------------------------------------
(* Steps of the emitters.                                                  *)

\* Another emitter's event is not touched.
LEMMA HoldKeeps ==
  ASSUME IInv, NEW f \in Emitters, hand'[f] = hand[f], epc'[f] = epc[f],
         Events \subseteq Events', \A n \in Events : built'[n] = built[n],
         \A n \in Events' : n \in Events \/ built'[n].by # f,
         stored \subseteq stored', hand[f] \in stored' => hand[f] \in stored
  PROVE  HoldInv(f)'
<1>1. HoldInv(f) /\ hand[f] \in Events \cup {None} BY DEF IInv, TypeOK
<1>2. QED BY <1>1 DEF HoldInv, Shown

\* The streams are not touched: what is newly stored was in hand, so no stream
\* has it, and it is not published yet.
LEMMA StreamKeeps ==
  ASSUME IInv, NEW s \in Subscribers, UNCHANGED streamVars,
         Events \subseteq Events', \A n \in Events : built'[n] = built[n],
         stored \subseteq stored',
         \A n \in stored' : n \in stored \/ (Held(n) /\ n \in Unpublished'),
         \A n \in Events : Held(n)' => Held(n),
         \A n \in Unpublished : n \in Unpublished' \/ n \notin stored \/ n \in cut',
         cut \subseteq cut'
  PROVE  StreamInv(s)'
<1> DEFINE Q == ToSet(queue[s])
           D == ToSet(delivered[s])
<1>1. /\ Q \subseteq Events /\ D \subseteq Events /\ replayed[s] \subseteq stored /\ stored \subseteq Events
      /\ \A i \in DOMAIN queue[s] : queue[s][i] \in Q
      /\ \A i \in DOMAIN delivered[s] : delivered[s][i] \in D
  BY StreamFacts DEF IInv
<1>2. QueueInv(s) /\ ReplayInv(s) /\ DeliveredInv(s) /\ CoverInv(s) BY DEF IInv, StreamInv
<1>3. \A m, n \in Events : SameEmitter(m, n)' <=> SameEmitter(m, n) BY DEF SameEmitter
<1>4. \A n \in Events : Shown(n) => Shown(n)' BY DEF Shown
<1>5. \A n \in Q \cup D : n \in stored' => n \in stored
  BY <1>1, <1>2 DEF QueueInv, DeliveredInv
<1>6. QueueInv(s)'
  <2>1. ASSUME NEW n \in Q
        PROVE  /\ Shown(n)' /\ ~Held(n)'
               /\ spc[s] \in {"loaded", "open"} /\ n \in stored' \ replayed[s] =>
                    \A m \in replayed[s] : SameEmitter(m, n)' => m < n
    BY <1>1, <1>2, <1>3, <1>4, <1>5 DEF QueueInv
  <2>2. ASSUME NEW i \in DOMAIN queue[s], NEW j \in DOMAIN queue[s], i < j
        PROVE  /\ queue[s][i] # queue[s][j]
               /\ SameEmitter(queue[s][i], queue[s][j])' => queue[s][i] < queue[s][j]
    <3>1. queue[s][i] \in Events /\ queue[s][j] \in Events BY <1>1
    <3>2. QED BY <1>2, <1>3, <2>2, <3>1 DEF QueueInv
  <2>3. QED BY <2>1, <2>2 DEF QueueInv, SameEmitter
<1>7. ReplayInv(s)' BY <1>2 DEF ReplayInv
<1>8. DeliveredInv(s)'
  <2>1. ASSUME NEW n \in D
        PROVE  /\ Shown(n)'
               /\ n \notin replayed[s] =>
                    ~Held(n)' /\ \A m \in Q : n # m /\ (SameEmitter(n, m)' => n < m)
    BY <1>1, <1>2, <1>3, <1>4 DEF DeliveredInv
  <2>2. ASSUME NEW i \in DOMAIN delivered[s], NEW j \in DOMAIN delivered[s], i < j
        PROVE  /\ delivered[s][i] # delivered[s][j]
               /\ /\ {delivered[s][i], delivered[s][j]} \subseteq stored'
                  /\ SameEmitter(delivered[s][i], delivered[s][j])'
                  => delivered[s][i] < delivered[s][j]
    <3>1. delivered[s][i] \in D /\ delivered[s][j] \in D BY <1>1
    <3>2. QED BY <1>1, <1>2, <1>3, <1>5, <2>2, <3>1 DEF DeliveredInv
  <2>3. QED BY <2>1, <2>2 DEF DeliveredInv, SameEmitter
<1>9. CoverInv(s)'
  <2>1. stored' \ (Unpublished' \cup cut') \subseteq stored \ (Unpublished \cup cut) OBVIOUS
  <2>2. QED BY <1>2, <2>1 DEF CoverInv
<1>10. QED BY <1>6, <1>7, <1>8, <1>9 DEF StreamInv

LEMMA InvBuild ==
  ASSUME IInv, NEW e \in Emitters, NEW from \in {"idle", "build"}, NEW to \in {"append", "readRun"},
         NEW kind \in {"emit", "failure"}, to = "readRun" => kind = "failure",
         Build(e, from, to, kind)
  PROVE  IInv'
<1>1. TypeOK /\ TypeOK' BY TypeBuild DEF IInv
<1>2. /\ epc[e] = from /\ epc' = [epc EXCEPT ![e] = to]
      /\ built' = Append(built, [by |-> e, kind |-> kind])
      /\ hand' = [hand EXCEPT ![e] = Len(built) + 1]
      /\ UNCHANGED <<terminal, stored, streamVars, cut>>
  BY DEF Build
<1>3. /\ Events \subseteq Events' /\ hand'[e] \in Events' \ Events
      /\ built'[hand'[e]] = [by |-> e, kind |-> kind]
      /\ \A n \in Events : built'[n] = built[n]
      /\ \A n \in Events' : n \in Events \/ n = hand'[e]
      /\ \A n \in Events : n < hand'[e]
  BY <1>1, <1>2, BuildFacts
<1>4. Events' \subseteq Nat /\ stored \subseteq Events BY <1>1, EventsFacts DEF TypeOK, Events
<1>5. epc'[e] = to /\ \A f \in Emitters : f # e => epc'[f] = epc[f] /\ hand'[f] = hand[f]
  BY <1>1, <1>2 DEF TypeOK
<1>6. HoldInv(e)'
  <2>1. built'[hand'[e]].by = e /\ built'[hand'[e]].kind = kind BY <1>3
  <2>2. ASSUME NEW n \in Events' PROVE n <= hand'[e]
    <3>1. n \in Nat /\ hand'[e] \in Nat BY <1>3, <1>4
    <3>2. n = hand'[e] \/ n < hand'[e] BY <1>3
    <3>3. QED BY <3>1, <3>2
  <2>3. hand'[e] \notin stored' /\ epc'[e] # "publish" BY <1>2, <1>3, <1>4, <1>5
  <2>4. epc'[e] \in {"readRun", "commit"} => kind = "failure" BY <1>5
  <2>5. QED BY <2>1, <2>2, <2>3, <2>4 DEF HoldInv
<1>7. ASSUME NEW f \in Emitters, f # e PROVE HoldInv(f)'
  <2>1. \A n \in Events' : n \in Events \/ built'[n].by # f BY <1>3, <1>7
  <2>2. QED BY <1>2, <1>3, <1>5, <1>7, <2>1, HoldKeeps
<1>8. ASSUME NEW s \in Subscribers PROVE StreamInv(s)'
  <2>1. \A n \in Events : Held(n)' => Held(n) BY <1>3, <1>5 DEF Held
  <2>2. Unpublished \subseteq Unpublished' BY <1>2, <1>5 DEF Unpublished
  <2>3. QED BY <1>2, <1>3, <2>1, <2>2, StreamKeeps
<1>9. QED BY <1>1, <1>6, <1>7, <1>8 DEF IInv

\* The steps that change neither the events, nor what is in hand, nor a stream,
\* and store at most the event in hand.
LEMMA InvOwn ==
  ASSUME IInv, TypeOK', NEW e \in Emitters, NEW to \in EmitterPC, epc' = [epc EXCEPT ![e] = to],
         epc[e] # "publish", UNCHANGED <<built, hand, streamVars, cut>>,
         stored' = stored \/ (stored' = stored \cup {hand[e]} /\ to = "publish"),
         HoldInv(e)'
  PROVE  IInv'
<1>1. TypeOK /\ Events' = Events BY DEF IInv, Events
<1>2. epc'[e] = to /\ \A f \in Emitters : f # e => epc'[f] = epc[f] BY <1>1 DEF TypeOK
<1>3. ASSUME NEW f \in Emitters, f # e PROVE HoldInv(f)'
  <2>1. CASE hand[f] = None
    BY <2>1 DEF HoldInv
  <2>2. CASE hand[f] # None
    <3>1. hand[f] # hand[e] BY <1>3, <2>2, HeldOnce
    <3>2. hand[f] \in stored' => hand[f] \in stored BY <3>1
    <3>3. \A n \in Events' : n \in Events \/ built'[n].by # f BY <1>1
    <3>4. hand'[f] = hand[f] /\ epc'[f] = epc[f] BY <1>2, <1>3
    <3>5. Events \subseteq Events' /\ (\A n \in Events : built'[n] = built[n]) /\ stored \subseteq stored'
      BY <1>1
    <3>6. QED BY <3>2, <3>3, <3>4, <3>5, HoldKeeps
  <2>3. QED BY <2>1, <2>2
<1>4. ASSUME NEW s \in Subscribers PROVE StreamInv(s)'
  <2>1. \A n \in Events : Held(n)' <=> Held(n) BY DEF Held
  <2>2. Unpublished \subseteq Unpublished' BY <1>2 DEF Unpublished
  <2>3. stored \subseteq stored' OBVIOUS
  <2>4. ASSUME NEW n \in stored', n \notin stored PROVE Held(n) /\ n \in Unpublished'
    <3>1. n = hand[e] /\ epc'[e] = "publish" BY <1>2, <2>4
    <3>2. QED BY <3>1 DEF Held, Unpublished
  <2>5. QED BY <1>1, <2>1, <2>2, <2>3, <2>4, StreamKeeps
<1>5. QED BY <1>3, <1>4 DEF IInv

LEMMA InvCancelled ==
  ASSUME IInv, NEW e \in Emitters, Cancelled(e)
  PROVE  IInv'
<1>1. TypeOK /\ TypeOK' BY TypeLog DEF IInv
<1>2. /\ epc' = [epc EXCEPT ![e] = "idle"] /\ hand' = [hand EXCEPT ![e] = None]
      /\ cut' = cut \cup ({hand[e]} \cap stored) /\ UNCHANGED <<terminal, built, stored, streamVars>>
  BY DEF Cancelled
<1>3. /\ hand'[e] = None /\ Events' = Events /\ None \notin Events
      /\ \A f \in Emitters : f # e => epc'[f] = epc[f] /\ hand'[f] = hand[f]
  BY <1>1, <1>2, EventsFacts DEF TypeOK, Events
<1>4. HoldInv(e)' BY <1>3 DEF HoldInv
<1>5. ASSUME NEW f \in Emitters, f # e PROVE HoldInv(f)'
  BY <1>2, <1>3, <1>5, HoldKeeps
<1>6. ASSUME NEW s \in Subscribers PROVE StreamInv(s)'
  <2>1. \A n \in Events : Held(n)' => Held(n) BY <1>3 DEF Held
  <2>2. ASSUME NEW n \in Unpublished PROVE n \in Unpublished' \/ n \notin stored \/ n \in cut'
    <3>1. PICK f \in Emitters : epc[f] = "publish" /\ n = hand[f] BY DEF Unpublished
    <3>2. CASE f = e BY <1>2, <3>1, <3>2
    <3>3. CASE f # e
      <4>1. epc'[f] = "publish" /\ n = hand'[f] BY <1>3, <3>1, <3>3
      <4>2. QED BY <4>1 DEF Unpublished
    <3>4. QED BY <3>2, <3>3
  <2>3. QED BY <1>2, <1>3, <2>1, <2>2, StreamKeeps
<1>7. QED BY <1>1, <1>4, <1>5, <1>6 DEF IInv

LEMMA InvPublish ==
  ASSUME IInv, NEW e \in Emitters, Publish(e)
  PROVE  IInv'
<1> DEFINE n == hand[e]
<1>1. TypeOK /\ TypeOK' BY TypeLog DEF IInv, Emit
<1>2. /\ epc[e] = "publish" /\ epc' = [epc EXCEPT ![e] = "idle"] /\ hand' = [hand EXCEPT ![e] = None]
      /\ UNCHANGED <<terminal, built, stored, spc, replay, replayed, delivered, cut>>
  BY DEF Publish
<1>3. /\ n \in Events /\ hand'[e] = None /\ Events' = Events /\ None \notin Events
      /\ \A f \in Emitters : f # e => epc'[f] = epc[f] /\ hand'[f] = hand[f]
      /\ \A m \in Events : m \in Nat
  BY <1>1, <1>2, EventsFacts, PublishFacts DEF TypeOK, Events
<1>4. HoldInv(e) /\ n # None BY <1>3 DEF IInv
<1>5. /\ Shown(n) /\ \A m \in Events : built[m].by = built[n].by => m <= n
  BY <1>2, <1>4 DEF HoldInv
<1>6. HoldInv(e)' BY <1>3 DEF HoldInv
<1>7. ASSUME NEW f \in Emitters, f # e PROVE HoldInv(f)'
  BY <1>2, <1>3, <1>7, HoldKeeps
<1>8. \A m \in Events : Held(m)' => Held(m) /\ m # n
  <2> SUFFICES ASSUME NEW m \in Events, NEW f \in Emitters, m = hand'[f] PROVE Held(m) /\ m # n
    BY DEF Held
  <2>1. f # e /\ m = hand[f] BY <1>3
  <2>2. m # n BY <1>3, <1>4, <2>1, HeldOnce
  <2>3. QED BY <2>1, <2>2 DEF Held
<1>9. ASSUME NEW s \in Subscribers PROVE StreamInv(s)'
  <2>1. QueueInv(s) /\ ReplayInv(s) /\ DeliveredInv(s) /\ CoverInv(s) BY DEF IInv, StreamInv
  <2>2. /\ queue[s] \in Seq(Events) /\ ToSet(queue[s]) \subseteq Events /\ ToSet(delivered[s]) \subseteq Events
        /\ replayed[s] \subseteq stored /\ stored \subseteq Events
        /\ \A i \in DOMAIN queue[s] : queue[s][i] \in ToSet(queue[s])
        /\ \A i \in DOMAIN delivered[s] : delivered[s][i] \in ToSet(delivered[s])
    BY StreamFacts DEF IInv
  <2>3. \A m, k : (SameEmitter(m, k)' <=> SameEmitter(m, k)) /\ (Shown(k)' <=> Shown(k))
    BY <1>2 DEF SameEmitter, Shown
  <2>4. queue'[s] = queue[s] \/ queue'[s] = Append(queue[s], n) BY <1>1, PublishFacts
  <2>5. ToSet(queue'[s]) \subseteq ToSet(queue[s]) \cup {n} /\ ToSet(queue[s]) \subseteq ToSet(queue'[s])
    <3>1. CASE queue'[s] = queue[s] BY <3>1
    <3>2. CASE queue'[s] = Append(queue[s], n) BY <1>3, <2>2, <3>2, AppendFacts
    <3>3. QED BY <2>4, <3>1, <3>2
  <2>6. \A m \in ToSet(queue[s]) : m # n BY <2>1 DEF QueueInv, Held
  <2>7. QueueInv(s)'
    <3>1. ASSUME NEW m \in ToSet(queue'[s])
          PROVE  /\ Shown(m)' /\ ~Held(m)'
                 /\ spc'[s] \in {"loaded", "open"} /\ m \in stored' \ replayed'[s] =>
                      \A k \in replayed'[s] : SameEmitter(k, m)' => k < m
      <4>1. CASE m = n
        <5>1. Shown(m)' /\ ~Held(m)' BY <1>3, <1>5, <1>8, <2>3, <4>1
        <5>2. ASSUME m \notin replayed[s], NEW k \in replayed[s], SameEmitter(k, m) PROVE k < m
          <6>1. k \in Events /\ k # m /\ k <= n BY <1>5, <2>2, <4>1, <5>2 DEF SameEmitter
          <6>2. QED BY <1>3, <4>1, <6>1
        <5>3. QED BY <1>2, <2>3, <5>1, <5>2
      <4>2. CASE m \in ToSet(queue[s]) 
        <5>1. Shown(m)' /\ ~Held(m)' BY <1>8, <2>1, <2>2, <2>3, <4>2 DEF QueueInv
        <5>2. QED BY <1>2, <2>1, <2>3, <4>2, <5>1 DEF QueueInv
      <4>3. QED BY <2>5, <4>1, <4>2
    <3>2. ASSUME NEW i \in DOMAIN queue'[s], NEW j \in DOMAIN queue'[s], i < j
          PROVE  /\ queue'[s][i] # queue'[s][j]
                 /\ SameEmitter(queue'[s][i], queue'[s][j]) => queue'[s][i] < queue'[s][j]
      <4>1. CASE queue'[s] = queue[s] BY <2>1, <3>2, <4>1 DEF QueueInv
      <4>2. CASE queue'[s] = Append(queue[s], n)
        <5>1. /\ DOMAIN queue'[s] = 1..(Len(queue[s]) + 1) /\ DOMAIN queue[s] = 1..Len(queue[s])
              /\ Len(queue[s]) \in Nat /\ \A k \in DOMAIN queue[s] : queue'[s][k] = queue[s][k]
              /\ queue'[s][Len(queue[s]) + 1] = n
          BY <1>3, <2>2, <4>2, AppendFacts, SeqIndices
        <5>2. i \in DOMAIN queue[s] /\ queue'[s][i] = queue[s][i] BY <3>2, <5>1
        <5>3. CASE j \in DOMAIN queue[s]
          <6>1. queue'[s][j] = queue[s][j] BY <5>1, <5>3
          <6>2. QED BY <2>1, <3>2, <5>2, <5>3, <6>1 DEF QueueInv
        <5>4. CASE queue'[s][j] = n
          <6>1. queue[s][i] \in Events /\ queue[s][i] # n BY <2>2, <2>6, <5>2
          <6>2. SameEmitter(queue[s][i], n) => queue[s][i] <= n BY <1>5, <6>1 DEF SameEmitter
          <6>3. QED BY <1>3, <5>2, <5>4, <6>1, <6>2
        <5>5. QED BY <5>1, <5>3, <5>4
      <4>3. QED BY <2>4, <4>1, <4>2
    <3>3. QED BY <1>2, <3>1, <3>2 DEF QueueInv, SameEmitter
  <2>8. ReplayInv(s)' BY <1>2, <2>1 DEF ReplayInv
  <2>9. DeliveredInv(s)'
    <3>1. ASSUME NEW m \in ToSet(delivered[s])
          PROVE  /\ Shown(m)'
                 /\ m \notin replayed[s] =>
                      ~Held(m)' /\ \A k \in ToSet(queue'[s]) : m # k /\ (SameEmitter(m, k)' => m < k)
      <4>1. Shown(m)' /\ m \in Events BY <2>1, <2>2, <2>3 DEF DeliveredInv
      <4>2. ASSUME m \notin replayed[s]
            PROVE  ~Held(m)' /\ \A k \in ToSet(queue'[s]) : m # k /\ (SameEmitter(m, k)' => m < k)
        <5>1. ~Held(m) BY <2>1, <4>2 DEF DeliveredInv
        <5>2. ~Held(m)' BY <1>8, <4>1, <5>1
        <5>3. m # n /\ (SameEmitter(m, n) => m < n)
          <6>1. m # n BY <5>1 DEF Held
          <6>2. SameEmitter(m, n) => m <= n BY <1>5, <4>1 DEF SameEmitter
          <6>3. QED BY <1>3, <4>1, <6>1, <6>2
        <5>4. \A k \in ToSet(queue[s]) : m # k /\ (SameEmitter(m, k) => m < k)
          BY <2>1, <4>2 DEF DeliveredInv
        <5>5. QED BY <2>3, <2>5, <5>2, <5>3, <5>4
      <4>3. QED BY <4>1, <4>2
    <3>2. ASSUME NEW i \in DOMAIN delivered[s], NEW j \in DOMAIN delivered[s], i < j
          PROVE  /\ delivered[s][i] # delivered[s][j]
                 /\ /\ {delivered[s][i], delivered[s][j]} \subseteq stored
                    /\ SameEmitter(delivered[s][i], delivered[s][j])
                    => delivered[s][i] < delivered[s][j]
      BY <2>1, <3>2 DEF DeliveredInv
    <3>3. QED BY <1>2, <3>1, <3>2 DEF DeliveredInv, SameEmitter
  <2>10. CoverInv(s)'
    <3>1. CASE spc[s] = "off" BY <1>2, <3>1 DEF CoverInv
    <3>2. CASE spc[s] # "off"
      <4>1. queue'[s] = Append(queue[s], n) BY <1>1, <3>2, PublishFacts
      <4>2. ToSet(queue'[s]) = ToSet(queue[s]) \cup {n} BY <1>3, <2>2, <4>1, AppendFacts
      <4>3. Unpublished \subseteq Unpublished' \cup {n}
        <5> SUFFICES ASSUME NEW f \in Emitters, epc[f] = "publish", f # e PROVE hand[f] \in Unpublished'
          BY DEF Unpublished
        <5>1. epc'[f] = "publish" /\ hand'[f] = hand[f] BY <1>3
        <5>2. QED BY <5>1 DEF Unpublished
      <4>4. stored' \ (Unpublished' \cup cut') \subseteq (stored \ (Unpublished \cup cut)) \cup {n}
        BY <1>2, <4>3
      <4>5. QED BY <1>2, <2>1, <4>2, <4>4 DEF CoverInv
    <3>3. QED BY <3>1, <3>2
  <2>11. QED BY <2>7, <2>8, <2>9, <2>10 DEF StreamInv
<1>10. QED BY <1>1, <1>6, <1>7, <1>9 DEF IInv

LEMMA InvAppendEvent ==
  ASSUME IInv, NEW e \in Emitters, AppendEvent(e)
  PROVE  IInv'
<1>1. TypeOK /\ TypeOK' BY TypeLog DEF IInv, Emit
<1>2. /\ epc[e] = "append" /\ epc' = [epc EXCEPT ![e] = "publish"]
      /\ stored' = stored \cup {hand[e]} /\ UNCHANGED <<terminal, built, hand, streamVars, cut>>
  BY DEF AppendEvent
<1>3. epc'[e] = "publish" /\ Events' = Events BY <1>1, <1>2 DEF TypeOK, Events
<1>4. HoldInv(e)' BY <1>2, <1>3 DEF IInv, HoldInv, Shown
<1>5. QED BY <1>1, <1>2, <1>4, InvOwn DEF EmitterPC

LEMMA InvMarkRunFailed ==
  ASSUME IInv, NEW e \in Emitters, MarkRunFailed(e)
  PROVE  IInv'
<1>1. TypeOK /\ TypeOK' BY TypeLog DEF IInv, Emit
<1>2. HoldInv(e) BY DEF IInv
<1>3. UNCHANGED <<built, hand, streamVars, cut>> BY DEF MarkRunFailed
<1>4. Events' = Events BY <1>3 DEF Events
<1>5. CASE epc[e] = "readRun" /\ epc' = [epc EXCEPT ![e] = "publish"] /\ UNCHANGED stored
  <2>1. epc'[e] = "publish" BY <1>1, <1>5 DEF TypeOK
  <2>2. HoldInv(e)' BY <1>2, <1>3, <1>4, <1>5, <2>1 DEF HoldInv, Shown
  <2>3. QED BY <1>1, <1>3, <1>5, <2>2, InvOwn DEF EmitterPC
<1>6. CASE epc[e] = "readRun" /\ epc' = [epc EXCEPT ![e] = "commit"] /\ UNCHANGED stored
  <2>1. epc'[e] = "commit" BY <1>1, <1>6 DEF TypeOK
  <2>2. HoldInv(e)' BY <1>2, <1>3, <1>4, <1>6, <2>1 DEF HoldInv
  <2>3. QED BY <1>1, <1>3, <1>6, <2>2, InvOwn DEF EmitterPC
<1>7. CASE epc[e] = "commit" /\ epc' = [epc EXCEPT ![e] = "publish"] /\ stored' = stored \cup {hand[e]}
  <2>1. epc'[e] = "publish" BY <1>1, <1>7 DEF TypeOK
  <2>2. HoldInv(e)' BY <1>2, <1>3, <1>4, <1>7, <2>1 DEF HoldInv, Shown
  <2>3. QED BY <1>1, <1>3, <1>7, <2>2, InvOwn DEF EmitterPC
<1>8. QED BY <1>5, <1>6, <1>7 DEF MarkRunFailed

LEMMA InvCheckRun ==
  ASSUME IInv, NEW e \in Emitters, CheckRun(e)
  PROVE  IInv'
<1>1. TypeOK /\ TypeOK' BY TypeLog DEF IInv
<1>2. /\ epc[e] = "idle" /\ epc' = [epc EXCEPT ![e] = "build"]
      /\ UNCHANGED <<terminal, built, stored, hand, streamVars, cut>>
  BY DEF CheckRun
<1>3. hand[e] = None BY <1>1, <1>2 DEF TypeOK
<1>4. HoldInv(e)' BY <1>2, <1>3 DEF HoldInv
<1>5. QED BY <1>1, <1>2, <1>4, InvOwn DEF EmitterPC

\* Only terminal changes, which the invariant does not mention.
LEMMA InvEndRun == IInv /\ EndRun => IInv'
<1> SUFFICES ASSUME IInv, EndRun PROVE IInv' OBVIOUS
<1>1. TypeOK' BY TypeLog DEF IInv
<1>2. UNCHANGED <<built, stored, epc, hand, streamVars, cut>> BY DEF EndRun
<1>3. Events' = Events BY <1>2 DEF Events
<1>4. ASSUME NEW e \in Emitters PROVE HoldInv(e)' BY <1>2, <1>3 DEF IInv, HoldInv, Shown
<1>5. ASSUME NEW s \in Subscribers PROVE StreamInv(s)'
  <2>1. \A n \in Events : Held(n)' <=> Held(n) BY <1>2 DEF Held
  <2>2. Unpublished' = Unpublished BY <1>2 DEF Unpublished
  <2>3. QED BY <1>2, <1>3, <2>1, <2>2, StreamKeeps
<1>6. QED BY <1>1, <1>4, <1>5 DEF IInv

-----------------------------------------------------------------------------
(* Steps of the streams.                                                   *)

\* Nothing about the events changes, and one stream moves to a state that
\* satisfies the invariant.
LEMMA InvOneStream ==
  ASSUME IInv, TypeOK', NEW s \in Subscribers, UNCHANGED <<logVars, epc, hand, cut>>,
         StreamInv(s)',
         \A t \in Subscribers \ {s} :
           /\ spc'[t] = spc[t] /\ queue'[t] = queue[t] /\ replay'[t] = replay[t]
           /\ replayed'[t] = replayed[t] /\ delivered'[t] = delivered[t]
  PROVE  IInv'
<1>1. Events' = Events BY DEF Events
<1>2. ASSUME NEW e \in Emitters PROVE HoldInv(e)' BY <1>1 DEF IInv, HoldInv, Shown
<1>3. ASSUME NEW t \in Subscribers, t # s PROVE StreamInv(t)'
  <2>1. QueueInv(t) /\ ReplayInv(t) /\ DeliveredInv(t) /\ CoverInv(t) BY DEF IInv, StreamInv
  <2>2. /\ spc'[t] = spc[t] /\ queue'[t] = queue[t] /\ replay'[t] = replay[t]
        /\ replayed'[t] = replayed[t] /\ delivered'[t] = delivered[t]
    BY <1>3
  <2>3. QueueInv(t)' BY <2>1, <2>2 DEF QueueInv, Shown, Held, SameEmitter
  <2>4. ReplayInv(t)' BY <2>1, <2>2 DEF ReplayInv
  <2>5. DeliveredInv(t)' BY <2>1, <2>2 DEF DeliveredInv, Shown, Held, SameEmitter
  <2>6. CoverInv(t)' BY <2>1, <2>2 DEF CoverInv, Unpublished
  <2>7. QED BY <2>3, <2>4, <2>5, <2>6 DEF StreamInv
<1>4. QED BY <1>2, <1>3 DEF IInv

LEMMA InvOpen ==
  ASSUME IInv, NEW s \in Subscribers, Open(s)
  PROVE  IInv'
<1>1. TypeOK /\ TypeOK' BY TypeStreams DEF IInv
<1>2. /\ spc[s] = "off" /\ spc' = [spc EXCEPT ![s] = "load"]
      /\ UNCHANGED <<logVars, epc, hand, queue, replay, replayed, delivered, cut>>
  BY DEF Open
<1>3. spc'[s] = "load" /\ queue[s] = <<>> BY <1>1, <1>2 DEF TypeOK
<1>4. ReplayInv(s) /\ DeliveredInv(s) BY DEF IInv, StreamInv
<1>5. ReplayInv(s)' BY <1>2, <1>3, <1>4 DEF ReplayInv
<1>6. QueueInv(s)' /\ CoverInv(s)' BY <1>2, <1>3, EmptyFacts DEF QueueInv, CoverInv
<1>7. DeliveredInv(s)' BY <1>2, <1>4, EmptyFacts DEF ReplayInv, DeliveredInv
<1>8. StreamInv(s)' BY <1>5, <1>6, <1>7 DEF StreamInv
<1>9. \A t \in Subscribers \ {s} : spc'[t] = spc[t] BY <1>1, <1>2 DEF TypeOK
<1>10. QED BY <1>1, <1>2, <1>8, <1>9, InvOneStream

LEMMA InvLoad ==
  ASSUME IInv, NEW s \in Subscribers, Load(s)
  PROVE  IInv'
<1>1. TypeOK /\ TypeOK' BY TypeStreams DEF IInv, Stream
<1>2. /\ spc[s] = "load" /\ spc' = [spc EXCEPT ![s] = "loaded"]
      /\ replay' = [replay EXCEPT ![s] = ListEvents] /\ replayed' = [replayed EXCEPT ![s] = stored]
      /\ UNCHANGED <<logVars, epc, hand, queue, delivered, cut>>
  BY DEF Load
<1>3. spc'[s] = "loaded" /\ replay'[s] = ListEvents /\ replayed'[s] = stored
  BY <1>1, <1>2 DEF TypeOK
<1>4. QueueInv(s) /\ ReplayInv(s) BY DEF IInv, StreamInv
<1>5. delivered[s] = <<>> BY <1>2, <1>4 DEF ReplayInv
<1>6. ToSet(ListEvents) = stored /\ \A i, j \in DOMAIN ListEvents : i < j => ListEvents[i] < ListEvents[j]
  BY <1>1, ListEventsFacts, EventsFacts DEF TypeOK
<1>7. ReplayInv(s)' BY <1>2, <1>3, <1>5, <1>6, EmptyFacts DEF ReplayInv
<1>8. QueueInv(s)' BY <1>2, <1>3, <1>4 DEF QueueInv, Shown, Held, SameEmitter
<1>9. DeliveredInv(s)' BY <1>2, <1>5, EmptyFacts DEF DeliveredInv
<1>10. CoverInv(s)' BY <1>2, <1>3, <1>6 DEF CoverInv
<1>11. StreamInv(s)' BY <1>7, <1>8, <1>9, <1>10 DEF StreamInv
<1>12. \A t \in Subscribers \ {s} :
         spc'[t] = spc[t] /\ replay'[t] = replay[t] /\ replayed'[t] = replayed[t]
  BY <1>1, <1>2 DEF TypeOK
<1>13. QED BY <1>1, <1>2, <1>11, <1>12, InvOneStream

LEMMA InvLoaded ==
  ASSUME IInv, NEW s \in Subscribers, Loaded(s)
  PROVE  IInv'
<1>1. TypeOK /\ TypeOK' BY TypeStreams DEF IInv, Stream
<1>2. /\ spc[s] = "loaded" /\ spc' = [spc EXCEPT ![s] = "open"]
      /\ UNCHANGED <<logVars, epc, hand, queue, replay, replayed, delivered, cut>>
  BY DEF Loaded
<1>3. spc'[s] = "open" BY <1>1, <1>2 DEF TypeOK
<1>4. QueueInv(s) /\ ReplayInv(s) /\ DeliveredInv(s) /\ CoverInv(s) BY DEF IInv, StreamInv
<1>5. QueueInv(s)' BY <1>2, <1>3, <1>4 DEF QueueInv, Shown, Held, SameEmitter
<1>6. ReplayInv(s)' BY <1>2, <1>3, <1>4 DEF ReplayInv
<1>7. DeliveredInv(s)' BY <1>2, <1>4 DEF DeliveredInv, Shown, Held, SameEmitter
<1>8. CoverInv(s)' BY <1>2, <1>3, <1>4 DEF CoverInv, Unpublished
<1>9. StreamInv(s)' BY <1>5, <1>6, <1>7, <1>8 DEF StreamInv
<1>10. \A t \in Subscribers \ {s} : spc'[t] = spc[t] BY <1>1, <1>2 DEF TypeOK
<1>11. QED BY <1>1, <1>2, <1>9, <1>10, InvOneStream

\* A yielded event that differs from every earlier one, and is later than the
\* stored ones of its emitter, keeps the order.
LEMMA YieldKeepsOrder ==
  ASSUME NEW s \in Subscribers, delivered[s] \in Seq(Events), NEW n \in Events,
         delivered'[s] = Append(delivered[s], n), UNCHANGED <<built, stored>>, DeliveredInv(s),
         \A m \in ToSet(delivered[s]) :
           m # n /\ ({m, n} \subseteq stored /\ SameEmitter(m, n) => m < n)
  PROVE  \A i, j \in DOMAIN delivered'[s] : i < j =>
           /\ delivered'[s][i] # delivered'[s][j]
           /\ /\ {delivered'[s][i], delivered'[s][j]} \subseteq stored'
              /\ SameEmitter(delivered'[s][i], delivered'[s][j])
              => delivered'[s][i] < delivered'[s][j]
<1> SUFFICES ASSUME NEW i \in DOMAIN delivered'[s], NEW j \in DOMAIN delivered'[s], i < j
             PROVE  /\ delivered'[s][i] # delivered'[s][j]
                    /\ /\ {delivered'[s][i], delivered'[s][j]} \subseteq stored'
                       /\ SameEmitter(delivered'[s][i], delivered'[s][j])
                       => delivered'[s][i] < delivered'[s][j]
  OBVIOUS
<1>1. /\ DOMAIN delivered'[s] = 1..(Len(delivered[s]) + 1) /\ DOMAIN delivered[s] = 1..Len(delivered[s])
      /\ Len(delivered[s]) \in Nat /\ \A k \in DOMAIN delivered[s] : delivered'[s][k] = delivered[s][k]
      /\ delivered'[s][Len(delivered[s]) + 1] = n
  BY AppendFacts, SeqIndices
<1>2. i \in DOMAIN delivered[s] /\ delivered'[s][i] = delivered[s][i] BY <1>1
<1>3. CASE j \in DOMAIN delivered[s]
  <2>1. delivered'[s][j] = delivered[s][j] BY <1>1, <1>3
  <2>2. QED BY <1>2, <1>3, <2>1 DEF DeliveredInv
<1>4. CASE delivered'[s][j] = n
  <2>1. delivered[s][i] \in ToSet(delivered[s]) BY <1>2 DEF ToSet
  <2>2. QED BY <1>2, <1>4, <2>1
<1>5. QED BY <1>1, <1>3, <1>4

LEMMA InvYieldReplayed ==
  ASSUME IInv, NEW s \in Subscribers, YieldReplayed(s)
  PROVE  IInv'
<1> DEFINE h == Head(replay[s])
           D == ToSet(delivered[s])
           R == ToSet(Tail(replay[s]))
<1>1. TypeOK /\ TypeOK' BY TypeStreams DEF IInv, Stream
<1>2. /\ spc[s] = "open" /\ replay[s] # <<>>
      /\ delivered' = [delivered EXCEPT ![s] = Append(delivered[s], h)]
      /\ replay' = [replay EXCEPT ![s] = Tail(replay[s])]
      /\ UNCHANGED <<logVars, epc, hand, spc, queue, replayed, cut>>
  BY DEF YieldReplayed
<1>3. delivered'[s] = Append(delivered[s], h) /\ replay'[s] = Tail(replay[s])
  BY <1>1, <1>2 DEF TypeOK
<1>4. QueueInv(s) /\ ReplayInv(s) /\ DeliveredInv(s) /\ CoverInv(s) BY DEF IInv, StreamInv
<1>5. /\ replay[s] \in Seq(Events) /\ delivered[s] \in Seq(Events) /\ replayed[s] \subseteq stored
      /\ stored \subseteq Events /\ D \subseteq Events /\ ToSet(replay[s]) \subseteq Events
  BY <1>1, StreamFacts
<1>6. /\ h \in Events /\ 1 \in DOMAIN replay[s] /\ h = replay[s][1]
      /\ \A i \in DOMAIN Tail(replay[s]) :
           i + 1 \in DOMAIN replay[s] /\ Tail(replay[s])[i] = replay[s][i + 1] /\ i \in Nat \ {0}
      /\ ToSet(replay[s]) = {h} \cup R
  BY <1>2, <1>5, TailFacts
<1>7. ToSet(delivered'[s]) = D \cup {h} BY <1>3, <1>5, <1>6, AppendFacts
<1>8. h \in replayed[s] /\ h \in stored BY <1>4, <1>5, <1>6 DEF ReplayInv
<1>9. \A m \in D : m < h BY <1>4, <1>6 DEF ReplayInv
<1>10. \A n \in R : h < n
  <2> SUFFICES ASSUME NEW i \in DOMAIN Tail(replay[s]) PROVE h < Tail(replay[s])[i] BY DEF ToSet
  <2>1. QED BY <1>4, <1>6 DEF ReplayInv
<1>11. ReplayInv(s)'
  <2>1. \A i, j \in DOMAIN Tail(replay[s]) : i < j => Tail(replay[s])[i] < Tail(replay[s])[j]
    BY <1>4, <1>6 DEF ReplayInv
  <2>2. R \subseteq replayed[s] /\ replayed[s] \subseteq (D \cup {h}) \cup R BY <1>4, <1>6 DEF ReplayInv
  <2>3. \A m \in D \cup {h}, n \in R : m < n BY <1>4, <1>6, <1>10 DEF ReplayInv
  <2>4. QED BY <1>2, <1>3, <1>7, <2>1, <2>2, <2>3 DEF ReplayInv
<1>12. QueueInv(s)' BY <1>2, <1>4 DEF QueueInv, Shown, Held, SameEmitter
<1>13. DeliveredInv(s)'
  <2>1. \A m \in D : m # h
    <3>1. \A m \in D : m \in Nat /\ h \in Nat BY <1>1, <1>5, <1>6, EventsFacts
    <3>2. QED BY <1>9, <3>1
  <2>2. \A m \in D : m # h /\ ({m, h} \subseteq stored /\ SameEmitter(m, h) => m < h) BY <1>9, <2>1
  <2>3. \A i, j \in DOMAIN delivered'[s] : i < j =>
          /\ delivered'[s][i] # delivered'[s][j]
          /\ /\ {delivered'[s][i], delivered'[s][j]} \subseteq stored'
             /\ SameEmitter(delivered'[s][i], delivered'[s][j])
             => delivered'[s][i] < delivered'[s][j]
    BY <1>2, <1>3, <1>4, <1>5, <1>6, <2>2, YieldKeepsOrder
  <2>4. \A n \in D \cup {h} :
          /\ Shown(n)
          /\ n \notin replayed[s] =>
               ~Held(n) /\ \A m \in ToSet(queue[s]) : n # m /\ (SameEmitter(n, m) => n < m)
    BY <1>4, <1>8 DEF DeliveredInv, Shown
  <2>5. QED BY <1>2, <1>7, <2>3, <2>4 DEF DeliveredInv, Shown, Held, SameEmitter
<1>14. CoverInv(s)' BY <1>2, <1>3, <1>4, <1>6, <1>7 DEF CoverInv, Unpublished
<1>15. StreamInv(s)' BY <1>11, <1>12, <1>13, <1>14 DEF StreamInv
<1>16. \A t \in Subscribers \ {s} : delivered'[t] = delivered[t] /\ replay'[t] = replay[t]
  BY <1>1, <1>2 DEF TypeOK
<1>17. QED BY <1>1, <1>2, <1>15, <1>16, InvOneStream

LEMMA InvYieldLive ==
  ASSUME IInv, NEW s \in Subscribers, YieldLive(s)
  PROVE  IInv'
<1> DEFINE h == Head(queue[s])
           D == ToSet(delivered[s])
           Q == ToSet(Tail(queue[s]))
<1>1. TypeOK /\ TypeOK' BY TypeStreams DEF IInv, Stream
<1>2. /\ spc[s] = "open" /\ replay[s] = <<>> /\ queue[s] # <<>>
      /\ queue' = [queue EXCEPT ![s] = Tail(queue[s])]
      /\ delivered' = [delivered EXCEPT ![s] =
                         IF h \in replayed[s] THEN delivered[s] ELSE Append(delivered[s], h)]
      /\ UNCHANGED <<logVars, epc, hand, spc, replay, replayed, cut>>
  BY DEF YieldLive, Skips
<1>3. /\ queue'[s] = Tail(queue[s])
      /\ h \in replayed[s] => delivered'[s] = delivered[s]
      /\ h \notin replayed[s] => delivered'[s] = Append(delivered[s], h)
  BY <1>1, <1>2 DEF TypeOK
<1>4. QueueInv(s) /\ ReplayInv(s) /\ DeliveredInv(s) /\ CoverInv(s) BY DEF IInv, StreamInv
<1>5. /\ queue[s] \in Seq(Events) /\ delivered[s] \in Seq(Events) /\ replayed[s] \subseteq stored
      /\ D \subseteq Events
  BY <1>1, StreamFacts
<1>6. /\ h \in Events /\ 1 \in DOMAIN queue[s] /\ h = queue[s][1]
      /\ \A i \in DOMAIN Tail(queue[s]) :
           i + 1 \in DOMAIN queue[s] /\ Tail(queue[s])[i] = queue[s][i + 1] /\ i \in Nat \ {0}
      /\ ToSet(queue[s]) = {h} \cup Q
  BY <1>2, <1>5, TailFacts
<1>7. \A m \in Q : h # m /\ (SameEmitter(h, m) => h < m)
  <2> SUFFICES ASSUME NEW i \in DOMAIN Tail(queue[s])
               PROVE  h # Tail(queue[s])[i] /\ (SameEmitter(h, Tail(queue[s])[i]) => h < Tail(queue[s])[i])
    BY DEF ToSet
  <2>1. QED BY <1>4, <1>6 DEF QueueInv
<1>8. QueueInv(s)'
  <2>1. \A i, j \in DOMAIN Tail(queue[s]) : i < j =>
          /\ Tail(queue[s])[i] # Tail(queue[s])[j]
          /\ SameEmitter(Tail(queue[s])[i], Tail(queue[s])[j]) => Tail(queue[s])[i] < Tail(queue[s])[j]
    <3> SUFFICES ASSUME NEW i \in DOMAIN Tail(queue[s]), NEW j \in DOMAIN Tail(queue[s]), i < j
                 PROVE  /\ Tail(queue[s])[i] # Tail(queue[s])[j]
                        /\ SameEmitter(Tail(queue[s])[i], Tail(queue[s])[j]) => Tail(queue[s])[i] < Tail(queue[s])[j]
      OBVIOUS
    <3>1. i + 1 \in DOMAIN queue[s] /\ j + 1 \in DOMAIN queue[s] /\ i + 1 < j + 1 BY <1>6
    <3>2. Tail(queue[s])[i] = queue[s][i + 1] /\ Tail(queue[s])[j] = queue[s][j + 1] BY <1>6
    <3>3. QED BY <1>4, <3>1, <3>2 DEF QueueInv
  <2>2. \A n \in Q :
          /\ Shown(n) /\ ~Held(n)
          /\ n \in stored \ replayed[s] => \A m \in replayed[s] : SameEmitter(m, n) => m < n
    BY <1>2, <1>4, <1>6 DEF QueueInv
  <2>3. \A n \in ToSet(queue'[s]) :
          /\ Shown(n)' /\ ~Held(n)'
          /\ n \in stored' \ replayed'[s] => \A m \in replayed'[s] : SameEmitter(m, n)' => m < n
    BY <1>2, <1>3, <2>2 DEF Shown, Held, SameEmitter
  <2>4. ASSUME NEW i \in DOMAIN queue'[s], NEW j \in DOMAIN queue'[s], i < j
        PROVE  /\ queue'[s][i] # queue'[s][j]
               /\ built'[queue'[s][i]].by = built'[queue'[s][j]].by => queue'[s][i] < queue'[s][j]
    <3>1. queue'[s] = Tail(queue[s]) /\ built' = built BY <1>2, <1>3
    <3>2. /\ Tail(queue[s])[i] # Tail(queue[s])[j]
          /\ SameEmitter(Tail(queue[s])[i], Tail(queue[s])[j]) => Tail(queue[s])[i] < Tail(queue[s])[j]
      BY <2>1, <2>4, <3>1
    <3>3. QED BY <3>1, <3>2 DEF SameEmitter
  <2>5. QED BY <2>3, <2>4 DEF QueueInv, SameEmitter
<1>9. \A t \in Subscribers \ {s} : delivered'[t] = delivered[t] /\ queue'[t] = queue[t]
  BY <1>1, <1>2 DEF TypeOK
<1>10. CASE h \in replayed[s]
  <2>1. ReplayInv(s)' BY <1>2, <1>3, <1>4, <1>10 DEF ReplayInv
  <2>2. DeliveredInv(s)' BY <1>2, <1>3, <1>4, <1>6, <1>10 DEF DeliveredInv, Shown, Held, SameEmitter
  <2>3. h \in D BY <1>2, <1>4, <1>10, EmptyFacts DEF ReplayInv
  <2>4. CoverInv(s)' BY <1>2, <1>3, <1>4, <1>6, <1>10, <2>3 DEF CoverInv, Unpublished
  <2>5. StreamInv(s)' BY <1>8, <2>1, <2>2, <2>4 DEF StreamInv
  <2>6. QED BY <1>1, <1>2, <1>9, <2>5, InvOneStream
<1>11. CASE h \notin replayed[s]
  <2>1. delivered'[s] = Append(delivered[s], h) /\ ToSet(delivered'[s]) = D \cup {h}
    <3>1. delivered'[s] = Append(delivered[s], h) BY <1>3, <1>11
    <3>2. h \in Events /\ delivered[s] \in Seq(Events) BY <1>5, <1>6
    <3>3. QED BY <3>1, <3>2, AppendFacts
  <2>2. \A m \in D : m # h /\ ({m, h} \subseteq stored /\ SameEmitter(m, h) => m < h)
    <3> SUFFICES ASSUME NEW m \in D
                 PROVE  m # h /\ (h \in stored /\ SameEmitter(m, h) => m < h)
      OBVIOUS
    <3>1. CASE m \in replayed[s] BY <1>2, <1>4, <1>6, <1>11, <3>1 DEF QueueInv
    <3>2. CASE m \notin replayed[s] BY <1>4, <1>6, <3>2 DEF DeliveredInv
    <3>3. QED BY <3>1, <3>2
  <2>3. ReplayInv(s)' BY <1>2, <1>4, <2>1, EmptyFacts DEF ReplayInv
  <2>4. DeliveredInv(s)'
    <3>1. \A i, j \in DOMAIN delivered'[s] : i < j =>
            /\ delivered'[s][i] # delivered'[s][j]
            /\ /\ {delivered'[s][i], delivered'[s][j]} \subseteq stored'
               /\ SameEmitter(delivered'[s][i], delivered'[s][j])
               => delivered'[s][i] < delivered'[s][j]
      BY <1>2, <1>4, <1>5, <1>6, <2>1, <2>2, YieldKeepsOrder
    <3>2. ASSUME NEW n \in D \cup {h}
          PROVE  /\ Shown(n)
                 /\ n \notin replayed[s] =>
                      ~Held(n) /\ \A m \in Q : n # m /\ (SameEmitter(n, m) => n < m)
      <4>1. CASE n = h BY <1>4, <1>6, <1>7, <4>1 DEF QueueInv
      <4>2. CASE n \in D BY <1>4, <1>6, <4>2 DEF DeliveredInv
      <4>3. QED BY <4>1, <4>2
    <3>3. ASSUME NEW n \in ToSet(delivered'[s])
          PROVE  /\ Shown(n)'
                 /\ n \notin replayed'[s] =>
                      ~Held(n)' /\ \A m \in ToSet(queue'[s]) : n # m /\ (SameEmitter(n, m)' => n < m)
      <4>1. n \in D \cup {h} /\ queue'[s] = Tail(queue[s]) BY <1>3, <2>1, <3>3
      <4>2. QED BY <1>2, <3>2, <4>1 DEF Shown, Held, SameEmitter
    <3>4. ASSUME NEW i \in DOMAIN delivered'[s], NEW j \in DOMAIN delivered'[s], i < j
          PROVE  /\ delivered'[s][i] # delivered'[s][j]
                 /\ /\ {delivered'[s][i], delivered'[s][j]} \subseteq stored'
                    /\ built'[delivered'[s][i]].by = built'[delivered'[s][j]].by
                    => delivered'[s][i] < delivered'[s][j]
      BY <1>2, <3>1, <3>4 DEF SameEmitter
    <3>5. QED BY <3>3, <3>4 DEF DeliveredInv, SameEmitter
  <2>5. CoverInv(s)' BY <1>2, <1>3, <1>4, <1>6, <2>1 DEF CoverInv, Unpublished
  <2>6. StreamInv(s)' BY <1>8, <2>3, <2>4, <2>5 DEF StreamInv
  <2>7. QED BY <1>1, <1>2, <1>9, <2>6, InvOneStream
<1>12. QED BY <1>10, <1>11

\* A closed stream has nothing left to satisfy.
LEMMA ClosedInv ==
  ASSUME NEW s \in Subscribers, NEW S \in SUBSET Subscribers, s \in S, Closed(S)
  PROVE  StreamInv(s)'
<1>1. /\ spc'[s] = "off" /\ queue'[s] = <<>> /\ replay'[s] = <<>> /\ replayed'[s] = {}
      /\ delivered'[s] = <<>>
  BY DEF Closed
<1>2. QED BY <1>1, EmptyFacts DEF StreamInv, QueueInv, ReplayInv, DeliveredInv, CoverInv

LEMMA InvClose ==
  ASSUME IInv, NEW s \in Subscribers, Close(s)
  PROVE  IInv'
<1>1. TypeOK' BY TypeStreams DEF IInv
<1>2. Closed({s}) /\ UNCHANGED <<logVars, epc, hand, cut>> BY DEF Close
<1>3. StreamInv(s)' BY <1>2, ClosedInv
<1>4. \A t \in Subscribers \ {s} :
        /\ spc'[t] = spc[t] /\ queue'[t] = queue[t] /\ replay'[t] = replay[t]
        /\ replayed'[t] = replayed[t] /\ delivered'[t] = delivered[t]
  BY <1>2 DEF Closed
<1>5. QED BY <1>1, <1>2, <1>3, <1>4, InvOneStream

LEMMA InvCrash == IInv /\ Crash => IInv'
<1> SUFFICES ASSUME IInv, Crash PROVE IInv' OBVIOUS
<1>1. TypeOK' BY TypeStreams DEF IInv
<1>2. \A e \in Emitters : HoldInv(e)' BY DEF Crash, HoldInv
<1>3. \A s \in Subscribers : StreamInv(s)' BY ClosedInv DEF Crash
<1>4. QED BY <1>1, <1>2, <1>3 DEF IInv

-----------------------------------------------------------------------------
LEMMA InvStep == IInv /\ [Next]_vars => IInv'
<1> SUFFICES ASSUME IInv, [Next]_vars PROVE IInv' OBVIOUS
<1>1. CASE UNCHANGED vars
  <2>1. TypeOK' BY <1>1, TypeStep DEF IInv
  <2>2. UNCHANGED <<built, stored, epc, hand, cut, spc, queue, replay, replayed, delivered>> BY <1>1
  <2>3. \A e \in Emitters : HoldInv(e)' BY <2>2 DEF IInv, HoldInv, Shown, Events
  <2>4. \A s \in Subscribers : QueueInv(s)' /\ ReplayInv(s)' /\ DeliveredInv(s)' /\ CoverInv(s)'
    BY <2>2 DEF IInv, StreamInv, QueueInv, ReplayInv, DeliveredInv, CoverInv, Shown, Held, SameEmitter,
                Unpublished
  <2>5. QED BY <2>1, <2>3, <2>4 DEF IInv, StreamInv
<1>2. ASSUME NEW e \in Emitters, Emit(e) \/ CheckRun(e) \/ Cancelled(e) PROVE IInv'
  <2>1. CASE BuildEmit(e) BY <2>1, InvBuild DEF BuildEmit
  <2>2. CASE BuildFailure(e) BY <2>2, InvBuild DEF BuildFailure
  <2>3. QED BY <1>2, <2>1, <2>2, InvAppendEvent, InvMarkRunFailed, InvPublish, InvCheckRun, InvCancelled
            DEF Emit
<1>3. ASSUME NEW s \in Subscribers, Open(s) \/ Stream(s) \/ Close(s) PROVE IInv'
  BY <1>3, InvOpen, InvLoad, InvLoaded, InvYieldReplayed, InvYieldLive, InvClose DEF Stream
<1>4. QED BY <1>1, <1>2, <1>3, InvEndRun, InvCrash DEF Next

LEMMA Invariant == Spec => []IInv
<1>1. QED BY InvInit, InvStep, PTL DEF Spec

\* No stream yields an event twice, whatever reached it through the load and
\* through its queue (EventStreamHub.stream).
THEOREM YieldedOnce == Spec => []DeliveredOnce
<1>1. IInv => DeliveredOnce
  <2> SUFFICES ASSUME IInv, NEW s \in Subscribers,
                      NEW i \in DOMAIN delivered[s], NEW j \in DOMAIN delivered[s],
                      delivered[s][i] = delivered[s][j]
               PROVE  i = j
    BY DEF DeliveredOnce, IsInjective
  <2>1. i \in Nat /\ j \in Nat
    <3>1. delivered[s] \in Seq(Events) BY DEF IInv, TypeOK
    <3>2. QED BY <3>1, SeqIndices
  <2>2. DeliveredInv(s) BY DEF IInv, StreamInv
  <2>3. ~(i < j) /\ ~(j < i) BY <2>2 DEF DeliveredInv
  <2>4. QED BY <2>1, <2>3
<1>2. QED BY <1>1, Invariant, PTL

\* No stored event falls between a stream's load and its queue, unless its
\* emitter was cancelled before publishing it.
THEOREM NoGap == Spec => []NothingMissed
<1>1. IInv => NothingMissed BY DEF IInv, StreamInv, CoverInv, NothingMissed
<1>2. QED BY <1>1, Invariant, PTL

\* The stored events of one emitter are yielded in the order it built them,
\* across the switch from replay to live.
THEOREM OrderKept == Spec => []EmitterOrder
<1>1. IInv => EmitterOrder BY DEF IInv, StreamInv, DeliveredInv, SameEmitter, EmitterOrder
<1>2. QED BY <1>1, Invariant, PTL

\* What a client was shown is in the event log, but for the run.failed event of
\* a fail_run that lost the race to end the run.
THEOREM ShownIsLogged == Spec => []StreamedIsStored
<1>1. IInv => StreamedIsStored BY DEF IInv, StreamInv, DeliveredInv, Shown, StreamedIsStored
<1>2. QED BY <1>1, Invariant, PTL
=============================================================================
