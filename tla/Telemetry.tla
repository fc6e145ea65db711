----------------------------- MODULE Telemetry -----------------------------
(***************************************************************************)
(* Telemetry of one load-test job of the distributed bot fleet: the sender *)
(* and receiver goroutines of the workers (bot-fleet/runner.go) publish    *)
(* what happens to each order to Kafka, and the master's Consumer          *)
(* (bot-fleet/telemetry/consumer.go) brings acknowledgements and fills     *)
(* back into the engine's order with its jitter buffer.                    *)
(*                                                                         *)
(* Records are keyed by order id, so the records of one order keep their   *)
(* order and those of different orders do not.  Prices, quantities and     *)
(* latencies are left out; the engine under test is environment.           *)
(***************************************************************************)
EXTENDS Naturals, Sequences, FiniteSets

CONSTANTS
    Workers,
    Orders,      \* orders of different bots
    WorkerOf,    \* the worker whose bot sends an order
    Threshold,   \* jitterGapThreshold (100 in the code)
    MaxSeq       \* bound on the engine's sequence numbers

ASSUME TelemetryAssumption ==
    /\ WorkerOf \in [Orders -> Workers]
    /\ Threshold \in Nat \ {0}
    /\ MaxSeq \in Nat
    /\ IsFiniteSet(Workers)

VARIABLES
    seq,        \* engine_seq_id of the engine's youngest report
    wire,       \* per order: reports on its bot's connection, not yet read
    sender,     \* per order: "new", "written" or "published"
    pending,    \* orders in pendingAcks
    shard,      \* per worker: "probe", "run" or "exited"
    joined,     \* the consumer's group has its offsets (the end of the topic)
    topic,      \* per order: records not yet fetched by the consumer
    mark,       \* per worker: its WORKER_DONE is "none", "unread" or "read"
    expired,    \* jobCtx is done: nothing is fetched any more
    cons,       \* the consumer: "poll", "drain", "flush" or "finished"
    buf, next,  \* jitterBuffer, nextSeqID
    workersDone,
    known,      \* orders the validator has seen (ProcessOrder)
    received,   \* history: acks and fills fetched
    processed   \* acks and fills handed to the validator

vars == <<seq, wire, sender, pending, shard, joined, topic, mark, expired,
          cons, buf, next, workersDone, known, received, processed>>
fleetVars == <<seq, wire, sender, pending, shard>>
kafkaVars == <<joined, topic, mark, expired>>
consVars  == <<cons, buf, next, workersDone, known, received, processed>>

Events  == [order : Orders, id : 1..MaxSeq, kind : {"ack", "fill"}]
Records == Events \cup [order : Orders, kind : {"sent"}]

TypeOK ==
    /\ seq \in 0..MaxSeq
    /\ wire \in [Orders -> Seq(Events)]
    /\ sender \in [Orders -> {"new", "written", "published"}]
    /\ pending \subseteq Orders
    /\ shard \in [Workers -> {"probe", "run", "exited"}]
    /\ joined \in BOOLEAN
    /\ topic \in [Orders -> Seq(Records)]
    /\ mark \in [Workers -> {"none", "unread", "read"}]
    /\ expired \in BOOLEAN
    /\ cons \in {"poll", "drain", "flush", "finished"}
    /\ buf \subseteq Events
    /\ next \in 1..(MaxSeq + 1)
    /\ workersDone \in 0..Cardinality(Workers)
    /\ known \subseteq Orders
    /\ received \subseteq Events
    /\ processed \subseteq Events

Running(o) == shard[WorkerOf[o]] = "run"

\* Produce: the consumer starts at the end of the topic, so it never sees
\* what is published before its group has offsets.
Published(o, records) ==
    topic' = IF joined THEN [topic EXCEPT ![o] = @ \o records] ELSE topic

-----------------------------------------------------------------------------
(* Workers: runFleet and runBot.                                           *)

\* The liveness probe of runFleet.  When it fails the worker reports all its
\* orders as failed and returns, with no WORKER_DONE.
Probe(w) ==
    /\ shard[w] = "probe"
    /\ \E result \in {"run", "exited"} : shard' = [shard EXCEPT ![w] = result]
    /\ UNCHANGED <<seq, wire, sender, pending, kafkaVars, consVars>>

\* The sender registers the order, unless its strategy made it a cancel, and
\* writes it.  After a failing write the bot sends nothing more, as here when
\* its worker ends with the order still new.
Write(o) ==
    /\ Running(o) /\ sender[o] = "new"
    /\ sender' = [sender EXCEPT ![o] = "written"]
    /\ \E order \in {{o}, {}} : pending' = pending \cup order
    /\ UNCHANGED <<seq, wire, shard, kafkaVars, consVars>>

\* PublishOrderAsync comes after the write: the answer may be published first.
PublishOrder(o) ==
    /\ Running(o) /\ sender[o] = "written"
    /\ sender' = [sender EXCEPT ![o] = "published"]
    /\ Published(o, <<[order |-> o, kind |-> "sent"]>>)
    /\ UNCHANGED <<seq, wire, pending, shard, joined, mark, expired, consVars>>

\* The engine accepts, rejects or fills an order; a fill of a resting order
\* may be reported over the connection of the order c that matched it.  A
\* report over a closed connection is lost, like one the bot does not publish.
EngineReport(o) ==
    /\ sender[o] # "new" /\ seq < MaxSeq
    /\ seq' = seq + 1
    /\ \E kind \in {"ack", "fill"}, c \in Orders :
         /\ Running(c) /\ sender[c] # "new"
         /\ kind = "ack" => c = o
         /\ wire' = [wire EXCEPT ![c] =
                       Append(@, [order |-> o, id |-> seq + 1, kind |-> kind])]
    /\ UNCHANGED <<sender, pending, shard, kafkaVars, consVars>>

\* The receiver.  A fill is published, after an acknowledgement of the same
\* number if the order was still pending with this bot; an acknowledgement is
\* published only then.
Receive(o) ==
    LET rep == Head(wire[o])
        own == pending \cap {o} \cap {rep.order}
    IN
    /\ Running(o) /\ wire[o] # <<>>
    /\ wire' = [wire EXCEPT ![o] = Tail(@)]
    /\ pending' = pending \ own
    /\ Published(rep.order,
                 (IF own # {} THEN <<[rep EXCEPT !.kind = "ack"]>> ELSE <<>>)
                   \o (IF rep.kind = "fill" THEN <<rep>> ELSE <<>>))
    /\ UNCHANGED <<seq, sender, shard, joined, mark, expired, consVars>>

\* The control goroutine gives up on an order after ackTimeout.
ExpirePending(o) ==
    /\ o \in pending
    /\ pending' = pending \ {o}
    /\ UNCHANGED <<seq, wire, sender, shard, kafkaVars, consVars>>

\* All bots of the worker are done (or cancelled) and their connections are
\* closed: PublishWorkerDone flushes the records and publishes the marker, or
\* fails; its error is dropped.
WorkerDone(w) ==
    /\ shard[w] = "run"
    /\ \A o \in Orders :
         WorkerOf[o] = w => sender[o] # "written" /\ o \notin pending
    /\ shard' = [shard EXCEPT ![w] = "exited"]
    /\ wire' = [o \in Orders |-> IF WorkerOf[o] = w THEN <<>> ELSE wire[o]]
    /\ \/ UNCHANGED mark
       \/ joined /\ mark' = [mark EXCEPT ![w] = "unread"]
    /\ UNCHANGED <<seq, sender, pending, joined, topic, expired, consVars>>

-----------------------------------------------------------------------------
(* Master: NewConsumer, Consume, processRecord.                            *)

Join ==
    /\ ~joined
    /\ joined' = TRUE
    /\ UNCHANGED <<fleetVars, topic, mark, expired, consVars>>

\* The job is cancelled or runs into its 15 minutes.
ExpireJob ==
    /\ ~expired
    /\ expired' = TRUE
    /\ UNCHANGED <<fleetVars, joined, topic, mark, consVars>>

Ids(B) == {e.id : e \in B}

\* jitterBuffer[e.id] = e: an event of the same number is overwritten.
Store(B, e) == {f \in B : f.id # e.id} \cup {e}

\* One record of a fetch: ORDER_SENT goes straight to the validator, an ack
\* or a fill into the buffer.
Poll(o) ==
    LET r == Head(topic[o]) IN
    /\ cons = "poll" /\ ~expired /\ topic[o] # <<>>
    /\ topic' = [topic EXCEPT ![o] = Tail(@)]
    /\ \/ /\ r.kind = "sent"
          /\ known' = known \cup {o}
          /\ UNCHANGED <<cons, buf, received>>
       \/ /\ r.kind # "sent"
          /\ buf' = Store(buf, r)
          /\ received' = received \cup {r}
          /\ cons' = "drain"
          /\ UNCHANGED known
    /\ UNCHANGED <<fleetVars, joined, mark, expired, next, workersDone, processed>>

\* Mutant of PollDone: a marker is fetched again after a lost commit.
PollDoneAgain(w) ==
    /\ cons = "poll" /\ ~expired /\ mark[w] \in {"unread", "read"}
    /\ mark' = [mark EXCEPT ![w] = "read"]
    /\ workersDone' = workersDone + 1
    /\ UNCHANGED <<fleetVars, joined, topic, expired, cons, buf, next, known,
                   received, processed>>

PollDone(w) ==
    /\ cons = "poll" /\ ~expired /\ mark[w] = "unread"
    /\ mark' = [mark EXCEPT ![w] = "read"]
    /\ workersDone' = workersDone + 1
    /\ UNCHANGED <<fleetVars, joined, topic, expired, cons, buf, next, known,
                   received, processed>>

\* nextSeqID++, cut off where no event can have the number any more.
Advanced == IF next <= MaxSeq THEN next + 1 ELSE next

\* Mutant of Drain: late events are processed as well.
DrainUpToNext ==
    /\ cons = "drain"
    /\ \/ /\ \E e \in buf : e.id <= next
          /\ processed' = processed \cup {e \in buf : e.id <= next}
          /\ buf' = {e \in buf : e.id > next}
          /\ next' = IF next \in Ids(buf) THEN Advanced ELSE next
          /\ UNCHANGED cons
       \/ /\ \A e \in buf : e.id > next
          /\ cons' = "poll"
          /\ UNCHANGED <<buf, next, processed>>
    /\ UNCHANGED <<fleetVars, kafkaVars, workersDone, known, received>>

\* drainJitterBuffer, one iteration: process the event nextSeqID, or step
\* over the gap when the buffer holds Threshold events, or stop.
Drain ==
    /\ cons = "drain"
    /\ \/ /\ next \in Ids(buf)
          /\ processed' = processed \cup {e \in buf : e.id = next}
          /\ buf' = {e \in buf : e.id # next}
          /\ next' = Advanced
          /\ UNCHANGED cons
       \/ /\ next \notin Ids(buf) /\ Cardinality(buf) >= Threshold
          /\ next' = Advanced
          /\ UNCHANGED <<cons, buf, processed>>
       \/ /\ next \notin Ids(buf) /\ Cardinality(buf) < Threshold
          /\ cons' = "poll"
          /\ UNCHANGED <<buf, next, processed>>
    /\ UNCHANGED <<fleetVars, kafkaVars, workersDone, known, received>>

\* Mutant of QuietPeriod: one marker too many is waited for.
QuietPeriodOffByOne ==
    /\ cons = "poll" /\ workersDone > Cardinality(Workers)
    /\ cons' = "flush"
    /\ UNCHANGED <<fleetVars, kafkaVars, buf, next, workersDone, known, received,
                   processed>>

\* All workers are done and nothing was fetched for three seconds; records
\* may still be on their way.
QuietPeriod ==
    /\ cons = "poll" /\ workersDone >= Cardinality(Workers)
    /\ cons' = "flush"
    /\ UNCHANGED <<fleetVars, kafkaVars, buf, next, workersDone, known, received,
                   processed>>

\* Mutant of Flush: events below nextSeqID are left out, as in RunFleet.
FlushSkipsStale ==
    /\ cons = "flush"
    /\ \/ \E e \in buf :
            /\ \A f \in buf : e.id <= f.id
            /\ processed' = IF e.id < next THEN processed ELSE processed \cup {e}
            /\ buf' = buf \ {e}
            /\ UNCHANGED cons
       \/ /\ buf = {}
          /\ cons' = "finished"
          /\ UNCHANGED <<buf, processed>>
    /\ UNCHANGED <<fleetVars, kafkaVars, next, workersDone, known, received>>

\* flushRemainingBuffer, one event: the smallest number first.
Flush ==
    /\ cons = "flush"
    /\ \/ \E e \in buf :
            /\ \A f \in buf : e.id <= f.id
            /\ processed' = processed \cup {e}
            /\ buf' = buf \ {e}
            /\ UNCHANGED cons
       \/ /\ buf = {}
          /\ cons' = "finished"
          /\ UNCHANGED <<buf, processed>>
    /\ UNCHANGED <<fleetVars, kafkaVars, next, workersDone, known, received>>

-----------------------------------------------------------------------------
Init ==
    /\ seq = 0
    /\ wire = [o \in Orders |-> <<>>]
    /\ sender = [o \in Orders |-> "new"]
    /\ pending = {}
    /\ shard = [w \in Workers |-> "probe"]
    /\ joined = FALSE
    /\ topic = [o \in Orders |-> <<>>]
    /\ mark = [w \in Workers |-> "none"]
    /\ expired = FALSE
    /\ cons = "poll" /\ buf = {} /\ next = 1 /\ workersDone = 0
    /\ known = {} /\ received = {} /\ processed = {}

Consumer ==
    \/ \E o \in Orders : Poll(o)
    \/ \E w \in Workers : PollDone(w)
    \/ Drain \/ QuietPeriod \/ Flush

Next ==
    \/ \E w \in Workers : Probe(w) \/ WorkerDone(w)
    \/ \E o \in Orders : \/ Write(o) \/ PublishOrder(o) \/ EngineReport(o)
                         \/ Receive(o) \/ ExpirePending(o)
    \/ Join \/ ExpireJob
    \/ Consumer

Spec == Init /\ [][Next]_vars

\* Consume is a loop that never blocks for more than a poll; the quiet period
\* ends when nothing arrives.  Nothing is assumed of workers or engine.
FairSpec == Spec /\ WF_vars(Consumer)

-----------------------------------------------------------------------------
(* Properties.                                                             *)

\* Before the final flush the validator sees the engine's order: whatever
\* drainJitterBuffer processes is younger than everything processed before,
\* although partitions are read in any order and gaps are stepped over.
DrainsInOrder ==
    [][cons = "drain" =>
         \A e \in processed' \ processed : \A f \in processed : f.id < e.id]_vars

\* An event is stale: its number was processed or stepped over already.
Stale == {e \in buf : e.id < next}

\* The result counts everything that was fetched: at the end every ack and
\* fill, late ones that arrived after their number was stepped over too, has
\* reached the validator, except one that another event with the same number
\* overwrote in the buffer.
FetchedCounted ==
    cons = "finished" =>
        \A e \in received : \/ e \in processed
                            \/ \E f \in received : f # e /\ f.id = e.id

\* The consumer has every marker or can still fetch it.
MarkersReadable == (\A w \in Workers : mark[w] # "none") /\ ~expired

\* Once every worker's marker is in the topic the consumer delivers its
\* result, whatever is lost, late or reordered, unless the job's context ends
\* or the buffer is flooded with Threshold stale events.
FinishesUnlessFlooded ==
    MarkersReadable ~> (cons = "finished" \/ expired
                          \/ Cardinality(Stale) >= Threshold)
=============================================================================
