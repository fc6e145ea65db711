--------------------------- MODULE TelemetryProofs ---------------------------
(***************************************************************************)
(* TLAPS proofs about Telemetry, for every fleet of workers, every set of  *)
(* orders, every jitterGapThreshold and every number of engine reports.    *)
(***************************************************************************)
EXTENDS Telemetry, FiniteSetTheorems, SequenceTheorems, TLAPS

\* workersDone counts every marker once, and a worker publishes its marker when
\* it ends.
MarkersCounted ==
    /\ workersDone = Cardinality({w \in Workers : mark[w] = "read"})
    /\ \A w \in Workers : mark[w] # "none" => shard[w] = "exited"

TypeInv == TypeOK /\ MarkersCounted

\* Until the final flush everything processed is older than nextSeqID.
Passed == cons \in {"poll", "drain"} => \A e \in processed : e.id < next

\* An event that was fetched is processed, buffered or overwritten.
Accounted ==
    /\ \A e \in received : \/ e \in processed \/ e \in buf
                           \/ \E f \in received : f # e /\ f.id = e.id
    /\ cons = "finished" => buf = {}

-----------------------------------------------------------------------------
(* Type correctness.                                                       *)

LEMMA EventsAreRecords == Events \subseteq Records
  BY DEF Records

\* A record is an ORDER_SENT or an event.
LEMMA RecordKinds ==
    ASSUME NEW r \in Records, r.kind # "sent"
    PROVE  r \in Events
  BY DEF Records, Events

LEMMA PublishedType ==
    ASSUME TypeOK, NEW o \in Orders, NEW records \in Seq(Records),
           Published(o, records)
    PROVE  topic' \in [Orders -> Seq(Records)]
<1>1. topic[o] \o records \in Seq(Records)
  BY ConcatProperties DEF TypeOK
<1> QED
  BY <1>1 DEF Published, TypeOK

LEMMA MarkersFinite ==
    ASSUME NEW S, S \subseteq Workers
    PROVE  IsFiniteSet(S) /\ Cardinality(S) \in 0..Cardinality(Workers)
<1>1. IsFiniteSet(Workers)
  BY TelemetryAssumption
<1>2. IsFiniteSet(S) /\ Cardinality(S) <= Cardinality(Workers)
  BY <1>1, FS_Subset
<1> QED
  BY <1>1, <1>2, FS_CardinalityType

\* One more worker's marker is read.
LEMMA OneMoreMarker ==
    ASSUME TypeInv, NEW w \in Workers, mark[w] = "unread",
           mark' = [mark EXCEPT ![w] = "read"]
    PROVE  Cardinality({v \in Workers : mark'[v] = "read"}) = workersDone + 1
<1> DEFINE S == {v \in Workers : mark[v] = "read"}
<1>1. {v \in Workers : mark'[v] = "read"} = S \cup {w}
  BY DEF TypeInv, TypeOK
<1>2. IsFiniteSet(S) /\ w \notin S
  BY MarkersFinite
<1>3. Cardinality(S \cup {w}) = Cardinality(S) + 1
  BY <1>2, FS_AddElement
<1> QED
  BY <1>1, <1>3 DEF TypeInv, MarkersCounted

LEMMA ReceiveType ==
    ASSUME TypeOK, NEW o \in Orders, Receive(o)
    PROVE  /\ wire' \in [Orders -> Seq(Events)]
           /\ pending' \subseteq Orders
           /\ topic' \in [Orders -> Seq(Records)]
<1> DEFINE rep == Head(wire[o])
           own == pending \cap {o} \cap {rep.order}
           acked == IF own # {} THEN <<[rep EXCEPT !.kind = "ack"]>> ELSE <<>>
           filled == IF rep.kind = "fill" THEN <<rep>> ELSE <<>>
<1>1. rep \in Events /\ Tail(wire[o]) \in Seq(Events)
  BY HeadTailProperties DEF Receive, TypeOK
<1>2. [rep EXCEPT !.kind = "ack"] \in Events /\ rep.order \in Orders
  BY <1>1 DEF Events
<1>3. acked \in Seq(Records) /\ filled \in Seq(Records)
  BY <1>1, <1>2, EventsAreRecords
<1>4. acked \o filled \in Seq(Records)
  BY <1>3, ConcatProperties
<1>5. Published(rep.order, acked \o filled)
  BY DEF Receive
<1>6. topic' \in [Orders -> Seq(Records)]
  BY <1>2, <1>4, <1>5, PublishedType
<1>7. wire' = [wire EXCEPT ![o] = Tail(@)] /\ pending' = pending \ own
  BY DEF Receive
<1> QED
  BY <1>1, <1>6, <1>7 DEF TypeOK

LEMMA PollType ==
    ASSUME TypeOK, NEW o \in Orders, Poll(o)
    PROVE  /\ topic' \in [Orders -> Seq(Records)]
           /\ known' \subseteq Orders /\ cons' \in {"poll", "drain"}
           /\ \/ UNCHANGED <<buf, received>>
              \/ \E r \in Events : buf' = Store(buf, r) /\ received' = received \cup {r}
<1>1. Head(topic[o]) \in Records /\ Tail(topic[o]) \in Seq(Records)
  BY HeadTailProperties DEF Poll, TypeOK
<1>2. topic' \in [Orders -> Seq(Records)]
  BY <1>1 DEF Poll, TypeOK
<1> QED
  BY <1>1, <1>2, RecordKinds DEF Poll, TypeOK

LEMMA StoreType ==
    ASSUME NEW B, B \subseteq Events, NEW e \in Events
    PROVE  Store(B, e) \subseteq Events
  BY DEF Store

LEMMA DrainType ==
    ASSUME TypeOK, Drain
    PROVE  /\ next' \in 1..(MaxSeq + 1) /\ cons' \in {"poll", "drain"}
           /\ buf' \subseteq buf /\ processed \subseteq processed'
           /\ processed' \subseteq processed \cup buf
<1>1. Advanced \in 1..(MaxSeq + 1)
  BY TelemetryAssumption DEF Advanced, TypeOK
<1> QED
  BY <1>1 DEF Drain, TypeOK

LEMMA WorkerType ==
    ASSUME TypeOK, NEW w \in Workers, Probe(w) \/ WorkerDone(w)
    PROVE  TypeOK'
<1> USE TelemetryAssumption DEF TypeOK, kafkaVars, consVars
<1>1. CASE Probe(w)
  BY <1>1 DEF Probe
<1>2. CASE WorkerDone(w)
  <2>1. wire' \in [Orders -> Seq(Events)]
    BY <1>2 DEF WorkerDone
  <2>2. mark' \in [Workers -> {"none", "unread", "read"}]
    BY <1>2 DEF WorkerDone
  <2> QED
    BY <1>2, <2>1, <2>2 DEF WorkerDone
<1> QED
  BY <1>1, <1>2

LEMMA OrderType ==
    ASSUME TypeOK, NEW o \in Orders,
           \/ Write(o) \/ PublishOrder(o) \/ EngineReport(o) \/ Receive(o)
           \/ ExpirePending(o)
    PROVE  TypeOK'
<1> USE TelemetryAssumption DEF TypeOK, kafkaVars, consVars
<1>1. CASE Write(o)
  <2>1. sender' \in [Orders -> {"new", "written", "published"}]
    BY <1>1 DEF Write
  <2>2. pending' \subseteq Orders
    BY <1>1 DEF Write
  <2> QED
    BY <1>1, <2>1, <2>2 DEF Write
<1>2. CASE PublishOrder(o)
  <2>1. <<[order |-> o, kind |-> "sent"]>> \in Seq(Records)
    BY DEF Records
  <2>2. topic' \in [Orders -> Seq(Records)]
    BY <1>2, <2>1, PublishedType DEF PublishOrder
  <2>3. sender' \in [Orders -> {"new", "written", "published"}]
    BY <1>2 DEF PublishOrder
  <2> QED
    BY <1>2, <2>2, <2>3 DEF PublishOrder
<1>3. CASE EngineReport(o)
  <2>1. PICK kind \in {"ack", "fill"}, c \in Orders :
            wire' = [wire EXCEPT ![c] =
                       Append(@, [order |-> o, id |-> seq + 1, kind |-> kind])]
    BY <1>3 DEF EngineReport
  <2>2. seq + 1 \in 1..MaxSeq /\ seq' = seq + 1
    BY <1>3 DEF EngineReport
  <2>3. [order |-> o, id |-> seq + 1, kind |-> kind] \in Events
    BY <2>2 DEF Events
  <2>4. wire' \in [Orders -> Seq(Events)]
    BY <2>1, <2>3
  <2> QED
    BY <1>3, <2>2, <2>4 DEF EngineReport
<1>4. CASE ExpirePending(o)
  BY <1>4 DEF ExpirePending
<1>5. CASE Receive(o)
  BY <1>5, ReceiveType DEF Receive
<1> QED
  BY <1>1, <1>2, <1>3, <1>4, <1>5

\* The steps of the master's consumer, and of the topic and job it reads.
LEMMA ConsumerType ==
    ASSUME TypeInv, Join \/ ExpireJob \/ Consumer
    PROVE  TypeOK'
<1> USE TelemetryAssumption DEF TypeInv, TypeOK, fleetVars, kafkaVars, consVars
<1>1. CASE Join \/ ExpireJob
  BY <1>1 DEF Join, ExpireJob
<1>2. ASSUME NEW o \in Orders, Poll(o)
      PROVE  TypeOK'
  <2>1. buf' \subseteq Events /\ received' \subseteq Events
    <3>1. \/ UNCHANGED <<buf, received>>
          \/ \E r \in Events : buf' = Store(buf, r) /\ received' = received \cup {r}
      BY <1>2, PollType
    <3>2. ASSUME NEW r \in Events, buf' = Store(buf, r), received' = received \cup {r}
          PROVE  buf' \subseteq Events /\ received' \subseteq Events
      <4>1. buf \subseteq Events /\ received \subseteq Events
        OBVIOUS
      <4> QED BY <3>2, <4>1, StoreType
    <3> QED BY <3>1, <3>2
  <2> QED
    BY <1>2, <2>1, PollType DEF Poll
<1>3. ASSUME NEW w \in Workers, PollDone(w)
      PROVE  TypeOK'
  <2>1. workersDone' = Cardinality({v \in Workers : mark'[v] = "read"})
    BY <1>3, OneMoreMarker DEF PollDone
  <2>2. workersDone' \in 0..Cardinality(Workers)
    BY <2>1, MarkersFinite
  <2>3. mark' \in [Workers -> {"none", "unread", "read"}]
    BY <1>3 DEF PollDone
  <2> QED
    BY <1>3, <2>2, <2>3 DEF PollDone
<1>4. CASE Drain
  BY <1>4, DrainType DEF Drain
<1>5. CASE QuietPeriod
  BY <1>5 DEF QuietPeriod
<1>6. CASE Flush
  <2>1. buf' \subseteq buf /\ processed' \subseteq processed \cup buf
        /\ cons' \in {"flush", "finished"}
    BY <1>6 DEF Flush
  <2> QED
    BY <1>6, <2>1 DEF Flush
<1> QED
  BY <1>1, <1>2, <1>3, <1>4, <1>5, <1>6 DEF Consumer

LEMMA MarkersStep ==
    ASSUME TypeInv, Next
    PROVE  MarkersCounted'
<1>1. ASSUME NEW w \in Workers, Probe(w)
      PROVE  MarkersCounted'
  BY <1>1 DEF Probe, MarkersCounted, TypeInv, TypeOK, kafkaVars, consVars
<1>2. ASSUME NEW w \in Workers, WorkerDone(w)
      PROVE  MarkersCounted'
  <2>1. mark[w] = "none" /\ workersDone' = workersDone
    BY <1>2 DEF WorkerDone, TypeInv, MarkersCounted, consVars
  <2>2. {v \in Workers : mark'[v] = "read"} = {v \in Workers : mark[v] = "read"}
    BY <1>2, <2>1 DEF WorkerDone, TypeInv, TypeOK
  <2>3. \A v \in Workers : mark'[v] # "none" => shard'[v] = "exited"
    BY <1>2 DEF WorkerDone, TypeInv, TypeOK, MarkersCounted
  <2> QED
    BY <2>1, <2>2, <2>3 DEF TypeInv, MarkersCounted
<1>3. ASSUME NEW w \in Workers, PollDone(w)
      PROVE  MarkersCounted'
  <2>1. workersDone' = Cardinality({v \in Workers : mark'[v] = "read"})
    BY <1>3, OneMoreMarker DEF PollDone
  <2>2. \A v \in Workers : mark'[v] # "none" => shard'[v] = "exited"
    BY <1>3 DEF PollDone, TypeInv, TypeOK, MarkersCounted, fleetVars
  <2> QED
    BY <2>1, <2>2 DEF MarkersCounted
<1>4. ASSUME UNCHANGED <<shard, mark, workersDone>>
      PROVE  MarkersCounted'
  BY <1>4 DEF TypeInv, MarkersCounted
<1>5. ASSUME NEW o \in Orders,
             \/ Write(o) \/ PublishOrder(o) \/ EngineReport(o) \/ Receive(o)
             \/ ExpirePending(o) \/ Poll(o)
      PROVE  MarkersCounted'
  BY <1>4, <1>5
  DEF Write, PublishOrder, EngineReport, Receive, ExpirePending, Poll, fleetVars,
      kafkaVars, consVars
<1>6. CASE Join \/ ExpireJob \/ Drain \/ QuietPeriod \/ Flush
  BY <1>4, <1>6
  DEF Join, ExpireJob, Drain, QuietPeriod, Flush, fleetVars, kafkaVars, consVars
<1> QED
  BY <1>1, <1>2, <1>3, <1>5, <1>6 DEF Next, Consumer

LEMMA TypeAlways == Spec => []TypeInv
<1>1. Init => TypeInv
  <2> SUFFICES ASSUME Init PROVE TypeInv
    OBVIOUS
  <2>1. {w \in Workers : mark[w] = "read"} = {}
    BY DEF Init
  <2>2. Cardinality(Workers) \in Nat
    BY TelemetryAssumption, FS_CardinalityType
  <2>3. MarkersCounted
    BY <2>1, FS_EmptySet DEF Init, MarkersCounted
  <2>4. TypeOK
    <3>1. wire \in [Orders -> Seq(Events)] /\ topic \in [Orders -> Seq(Records)]
      BY EmptySeq DEF Init
    <3>2. /\ sender \in [Orders -> {"new", "written", "published"}]
          /\ shard \in [Workers -> {"probe", "run", "exited"}]
          /\ mark \in [Workers -> {"none", "unread", "read"}]
      BY DEF Init
    <3>3. seq \in 0..MaxSeq /\ next \in 1..(MaxSeq + 1)
      BY TelemetryAssumption DEF Init
    <3>4. workersDone \in 0..Cardinality(Workers)
      BY <2>2 DEF Init
    <3> QED
      BY <3>1, <3>2, <3>3, <3>4 DEF Init, TypeOK
  <2> QED BY <2>3, <2>4 DEF TypeInv
<1>2. ASSUME TypeInv, [Next]_vars
      PROVE  TypeInv'
  <2>1. CASE Next
    <3>1. TypeOK'
      BY <1>2, <2>1, WorkerType, OrderType, ConsumerType DEF Next, TypeInv
    <3>2. MarkersCounted'
      BY <1>2, <2>1, MarkersStep
    <3> QED BY <3>1, <3>2 DEF TypeInv
  <2>2. CASE UNCHANGED vars
    BY <1>2, <2>2 DEF vars, TypeInv, TypeOK, MarkersCounted
  <2> QED BY <1>2, <2>1, <2>2
<1> QED
  BY <1>1, <1>2, PTL DEF Spec

\* Every variable keeps its type: whatever is published, in whatever order it is
\* fetched, the jitter buffer holds events only, and workersDone never counts
\* more workers than there are (Consume, consumer.go).
THEOREM TypeCorrect == Spec => []TypeOK
  BY TypeAlways, PTL DEF TypeInv

-----------------------------------------------------------------------------
(* The jitter buffer.                                                      *)

\* What is not a step of the consumer leaves its state alone.
LEMMA OtherSteps ==
    ASSUME Next
    PROVE  \/ UNCHANGED <<cons, buf, next, received, processed>>
           \/ \E o \in Orders : Poll(o)
           \/ Drain \/ QuietPeriod \/ Flush
<1>1. ASSUME NEW w \in Workers, Probe(w) \/ WorkerDone(w) \/ PollDone(w)
      PROVE  UNCHANGED <<cons, buf, next, received, processed>>
  BY <1>1 DEF Probe, WorkerDone, PollDone, consVars
<1>2. ASSUME NEW o \in Orders,
             \/ Write(o) \/ PublishOrder(o) \/ EngineReport(o) \/ Receive(o)
             \/ ExpirePending(o)
      PROVE  UNCHANGED <<cons, buf, next, received, processed>>
  BY <1>2 DEF Write, PublishOrder, EngineReport, Receive, ExpirePending, consVars
<1>3. ASSUME Join \/ ExpireJob
      PROVE  UNCHANGED <<cons, buf, next, received, processed>>
  BY <1>3 DEF Join, ExpireJob, consVars
<1> QED
  BY <1>1, <1>2, <1>3 DEF Next, Consumer

\* An iteration of drainJitterBuffer moves past what it processes.
LEMMA DrainPasses ==
    ASSUME TypeOK, Drain
    PROVE  /\ \A e \in processed' \ processed : e.id = next /\ e \in buf /\ next < next'
           /\ next <= next'
<1>1. next <= Advanced /\ (next <= MaxSeq => next < Advanced) /\ next \in Nat
  BY TelemetryAssumption DEF Advanced, TypeOK
<1>2. \A e \in buf : e.id <= MaxSeq
  BY TelemetryAssumption DEF TypeOK, Events
<1> QED
  BY <1>1, <1>2 DEF Drain

LEMMA PassedStep ==
    ASSUME TypeOK, Passed, [Next]_vars
    PROVE  Passed'
<1>1. CASE UNCHANGED <<cons, buf, next, received, processed>>
  BY <1>1 DEF Passed
<1>2. CASE \E o \in Orders : Poll(o)
  BY <1>2 DEF Poll, Passed
<1>3. CASE Drain
  <2>1. \A e \in processed : e.id < next
    BY <1>3 DEF Drain, Passed
  <2>2. next \in Nat /\ next' \in Nat /\ processed' \subseteq Events
    BY <1>3, DrainType, TelemetryAssumption DEF TypeOK
  <2>3. \A e \in processed' : e.id \in Nat
    BY <2>2, TelemetryAssumption DEF Events
  <2> QED
    BY <1>3, <2>1, <2>2, <2>3, DrainPasses DEF Passed
<1>4. CASE QuietPeriod \/ Flush
  BY <1>4 DEF QuietPeriod, Flush, Passed
<1> QED
  BY <1>1, <1>2, <1>3, <1>4, OtherSteps DEF vars

\* Until the final flush the validator sees the events in the engine's order:
\* whatever drainJitterBuffer processes is younger than everything it processed
\* before, however the partitions are interleaved and whatever is lost.
THEOREM JitterBufferSorts == Spec => DrainsInOrder
<1>1. Init => Passed
  BY DEF Init, Passed
<1>2. TypeInv /\ Passed /\ [Next]_vars => Passed'
  BY PassedStep DEF TypeInv
<1>3. ASSUME TypeInv, Passed, [Next]_vars, cons = "drain"
      PROVE  \A e \in processed' \ processed : \A f \in processed : f.id < e.id
  <2>1. CASE Drain
    BY <1>3, <2>1, DrainPasses DEF TypeInv, Passed
  <2>2. CASE ~Drain
    <3>1. processed' = processed
      BY <1>3, <2>2, OtherSteps DEF vars, Poll, QuietPeriod, Flush
    <3> QED BY <3>1
  <2> QED BY <2>1, <2>2
<1> QED
  BY <1>1, <1>2, <1>3, TypeAlways, PTL DEF Spec, DrainsInOrder

LEMMA AccountedStep ==
    ASSUME TypeOK, Accounted, [Next]_vars
    PROVE  Accounted'
<1>1. CASE UNCHANGED <<cons, buf, next, received, processed>>
  BY <1>1 DEF Accounted
<1>2. ASSUME NEW o \in Orders, Poll(o)
      PROVE  Accounted'
  <2>0. processed' = processed /\ cons' \in {"poll", "drain"}
    BY <1>2, PollType DEF Poll
  <2>1. CASE UNCHANGED <<buf, received>>
    BY <2>0, <2>1 DEF Accounted
  <2>2. ASSUME NEW r \in Events, buf' = Store(buf, r), received' = received \cup {r}
        PROVE  Accounted'
    BY <2>0, <2>2 DEF Store, Accounted
  <2> QED BY <1>2, <2>1, <2>2, PollType
<1>3. CASE Drain
  <2>1. buf \subseteq buf' \cup processed' /\ processed \subseteq processed'
        /\ received' = received /\ cons' # "finished"
    BY <1>3 DEF Drain
  <2> QED BY <2>1 DEF Accounted
<1>4. CASE QuietPeriod
  BY <1>4 DEF QuietPeriod, Accounted
<1>5. CASE Flush
  <2>1. buf \subseteq buf' \cup processed' /\ processed \subseteq processed'
        /\ received' = received /\ (cons' = "finished" => buf' = {})
    BY <1>5 DEF Flush
  <2> QED BY <2>1 DEF Accounted
<1> QED
  BY <1>1, <1>2, <1>3, <1>4, <1>5, OtherSteps DEF vars

\* When the consumer is finished every ack and fill it fetched has reached the
\* validator, late ones too, except one whose number another event overwrote in
\* the jitter buffer (drainJitterBuffer, flushRemainingBuffer).
THEOREM FlushCountsAll == Spec => []FetchedCounted
<1>1. Init => Accounted
  BY DEF Init, Accounted
<1>2. TypeInv /\ Accounted /\ [Next]_vars => Accounted'
  BY AccountedStep DEF TypeInv
<1>3. Accounted => FetchedCounted
  BY DEF Accounted, FetchedCounted
<1> QED
  BY <1>1, <1>2, <1>3, TypeAlways, PTL DEF Spec
=============================================================================
