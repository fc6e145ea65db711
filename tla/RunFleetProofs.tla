--------------------------- MODULE RunFleetProofs ---------------------------
(***************************************************************************)
(* TLAPS proofs about RunFleet, for every set of bots, every number of     *)
(* orders, every channel capacity and every engine.                        *)
(***************************************************************************)
EXTENDS RunFleet, TLAPS

\* No bot has more orders outstanding than it has sent.
OrdersBounded == \A b \in Bots : orders[b] + toSend[b] <= OrdersToSend

TypeInv == TypeOK /\ OrdersBounded

-----------------------------------------------------------------------------
(* Type correctness.                                                       *)

LEMMA AppendType ==
    ASSUME NEW S, NEW s \in Seq(S), NEW e \in S
    PROVE  Append(s, e) \in Seq(S) /\ Len(Append(s, e)) = Len(s) + 1
  OBVIOUS

LEMMA AppendElements ==
    ASSUME NEW S, NEW s \in Seq(S), NEW e \in S
    PROVE  /\ \A i \in 1..Len(s) : Append(s, e)[i] = s[i]
           /\ Append(s, e)[Len(s) + 1] = e
           /\ Len(s) \in Nat
  OBVIOUS

LEMMA EmptyType ==
    ASSUME NEW S
    PROVE  <<>> \in Seq(S) /\ Len(<<>>) = 0
  OBVIOUS

LEMMA SentType ==
    ASSUME NEW w \in [Bots -> Seq(Reports)], NEW c \in Bots, NEW rep \in Reports
    PROVE  Sent(w, c, rep) \in [Bots -> Seq(Reports)]
  BY DEF Sent

LEMMA EngineType ==
    ASSUME TypeInv, Engine
    PROVE  TypeInv'
<1> USE FleetAssumption DEF TypeInv, TypeOK, OrdersBounded
<1>1. ASSUME NEW b \in Bots, EngineReply(b)
      PROVE  TypeInv'
  <2>1. [id |-> seq + 1, side |-> "taker"] \in Reports
    BY <1>1 DEF EngineReply, Reports
  <2>2. wire' \in [Bots -> Seq(Reports)]
    BY <1>1, <2>1, SentType DEF EngineReply
  <2> QED
    BY <1>1, <2>2 DEF EngineReply, botVars, rcvVars, chanVars, consVars,
                      groupVars
<1>2. ASSUME NEW b \in Bots, NEW c \in Bots, EngineFill(b, c)
      PROVE  TypeInv'
  <2> DEFINE maker == IF SharedFillIds THEN seq + 1 ELSE seq + 2
  <2>1. /\ [id |-> seq + 1, side |-> "taker"] \in Reports
        /\ [id |-> maker, side |-> "maker"] \in Reports
        /\ seq' \in 0..MaxSeq
    BY <1>2 DEF EngineFill, Reports
  <2>2. wire' \in [Bots -> Seq(Reports)]
    BY <1>2, <2>1, SentType DEF EngineFill
  <2>a. orders[b] > 0 /\ orders' = [orders EXCEPT ![b] = @ - 1]
    BY <1>2 DEF EngineFill
  <2>3. /\ orders' \in [Bots -> 0..OrdersToSend]
        /\ \A d \in Bots : orders'[d] + toSend[d] <= OrdersToSend
    <3>1. /\ orders \in [Bots -> 0..OrdersToSend] /\ toSend \in [Bots -> 0..OrdersToSend]
          /\ OrdersToSend \in Nat
          /\ \A d \in Bots : orders[d] + toSend[d] <= OrdersToSend
      OBVIOUS
    <3> HIDE FleetAssumption DEF TypeInv, TypeOK, OrdersBounded
    <3> QED BY <2>a, <3>1
  <2> HIDE DEF maker
  <2> QED
    BY <1>2, <2>1, <2>2, <2>3 DEF EngineFill, botVars, rcvVars, chanVars,
                                  consVars, groupVars
<1>3. CASE EngineCrash
  <2>1. wire' \in [Bots -> Seq(Reports)]
    <3>1. <<>> \in Seq(Reports) /\ \A b \in Bots : wire[b] \in Seq(Reports)
      BY EmptyType
    <3> QED BY <1>3, <3>1 DEF EngineCrash
  <2> QED
    BY <1>3, <2>1 DEF EngineCrash, botVars, rcvVars, chanVars, consVars,
                      groupVars
<1> QED BY <1>1, <1>2, <1>3 DEF Engine

LEMMA RunnerType ==
    ASSUME TypeInv, NEW b \in Bots, Runner(b)
    PROVE  TypeInv'
<1> USE FleetAssumption DEF TypeInv, TypeOK, OrdersBounded, engineVars,
        rcvVars, chanVars, consVars, groupVars
<1>1. CASE Connect(b)
  BY <1>1 DEF Connect
<1>2. CASE SendOrder(b)
  <2>1. /\ orders' \in [Bots -> 0..OrdersToSend]
        /\ toSend' \in [Bots -> 0..OrdersToSend]
        /\ \A d \in Bots : orders'[d] + toSend'[d] <= OrdersToSend
    <3>1. /\ orders[b] \in 0..OrdersToSend /\ toSend[b] \in 0..OrdersToSend
          /\ orders[b] + toSend[b] <= OrdersToSend
          /\ toSend[b] > 0
      BY <1>2 DEF SendOrder
    <3>2. CASE UNCHANGED <<toSend, orders>>
      BY <3>2
    <3>3. CASE /\ toSend' = [toSend EXCEPT ![b] = @ - 1]
               /\ orders' = [orders EXCEPT ![b] = IF up THEN @ + 1 ELSE @]
      <4>1. CASE up
        BY <3>1, <3>3, <4>1
      <4>2. CASE ~up
        BY <3>1, <3>3, <4>2
      <4> QED BY <4>1, <4>2
    <3> QED BY <1>2, <3>2, <3>3 DEF SendOrder
  <2> QED BY <1>2, <2>1 DEF SendOrder
<1>3. CASE LeaveEarly(b)
  BY <1>3 DEF LeaveEarly
<1>4. CASE ReportFailure(b)
  <2>1. /\ eventChan' \in Seq(Reports \cup {Failure})
        /\ Len(eventChan') <= Cap
    <3>1. CASE Len(eventChan) < Cap /\ eventChan' = Append(eventChan, Failure)
      BY <3>1, AppendType
    <3> QED BY <1>4, <3>1 DEF ReportFailure
  <2> QED BY <1>4, <2>1 DEF ReportFailure
<1>5. CASE Arrive(b)
  BY <1>5 DEF Arrive
<1>6. CASE PassBarrier(b)
  BY <1>6 DEF PassBarrier
<1>7. CASE CloseConn(b)
  BY <1>7 DEF CloseConn
<1> QED
  BY <1>1, <1>2, <1>3, <1>4, <1>5, <1>6, <1>7 DEF Runner

LEMMA ReceiverType ==
    ASSUME TypeInv, NEW b \in Bots, Receiver(b)
    PROVE  TypeInv'
<1> USE FleetAssumption DEF TypeInv, TypeOK, OrdersBounded, engineVars,
        botVars, chanVars, consVars, groupVars
<1>1. CASE ReadReport(b)
  <2>1. Head(wire[b]) \in Reports /\ Tail(wire[b]) \in Seq(Reports)
    BY <1>1 DEF ReadReport
  <2> QED BY <1>1, <2>1 DEF ReadReport
<1>2. CASE StopReceiver(b)
  BY <1>2 DEF StopReceiver
<1>3. CASE Deliver(b)
  <2>1. /\ eventChan' \in Seq(Reports \cup {Failure})
        /\ Len(eventChan') <= Cap
    <3>1. CASE eventChan' = eventChan
      BY <3>1
    <3>2. ASSUME NEW rep \in held[b], Len(eventChan) < Cap,
                 eventChan' = Append(eventChan, rep)
          PROVE  /\ eventChan' \in Seq(Reports \cup {Failure})
                 /\ Len(eventChan') <= Cap
      BY <3>2, AppendType
    <3> QED BY <1>3, <3>1, <3>2 DEF Deliver
  <2> QED BY <1>3, <2>1 DEF Deliver
<1> QED BY <1>1, <1>2, <1>3 DEF Receiver

\* What a step of the consumer that takes an event does to its buffer.
LEMMA ConsumeStep ==
    ASSUME TypeOK, Consume
    PROVE  \E B \in SUBSET Reports, n \in 1..(MaxSeq + 1) :
             /\ B = IF Head(eventChan) = Failure THEN buf
                                                 ELSE Store(buf, Head(eventChan))
             /\ n >= next
             /\ n \notin Ids(B)
             /\ next..(n - 1) \subseteq Ids(B)
             /\ next' = n
             /\ processed' = processed \cup {rep \in B : rep.id \in next..(n - 1)}
             /\ buf' = {rep \in B : rep.id \notin next..(n - 1)}
<1> USE FleetAssumption DEF TypeOK
<1>1. Head(eventChan) \in Reports \cup {Failure}
  BY DEF Consume
<1> DEFINE B == IF Head(eventChan) = Failure THEN buf
                                            ELSE Store(buf, Head(eventChan))
<1>2. B \in SUBSET Reports
  BY <1>1 DEF Store
<1>3. PICK n \in next..(MaxSeq + 1) :
        /\ n \notin Ids(B)
        /\ next..(n - 1) \subseteq Ids(B)
        /\ next' = n
        /\ processed' = processed \cup {rep \in B : rep.id \in next..(n - 1)}
        /\ buf' = {rep \in B : rep.id \notin next..(n - 1)}
  BY DEF Consume
<1>4. n \in 1..(MaxSeq + 1) /\ n >= next
  OBVIOUS
<1> QED BY <1>2, <1>3, <1>4

LEMMA ConsumerType ==
    ASSUME TypeInv, Consumer
    PROVE  TypeInv'
<1> USE FleetAssumption DEF TypeInv, TypeOK, OrdersBounded, engineVars,
        botVars, rcvVars, chanVars, groupVars
<1>1. CASE Consume
  <2>1. /\ next' \in 1..(MaxSeq + 1)
        /\ processed' \subseteq Reports
        /\ buf' \subseteq Reports
    BY <1>1, ConsumeStep
  <2>2. /\ eventChan' \in Seq(Reports \cup {Failure})
        /\ Len(eventChan') <= Cap
    BY <1>1 DEF Consume
  <2> QED BY <1>1, <2>1, <2>2 DEF Consume
<1>2. CASE ConsumerCancelled
  BY <1>2 DEF ConsumerCancelled
<1>3. CASE SeeClosed
  BY <1>3 DEF SeeClosed
<1>4. CASE Flush
  <2>1. \A k \in Ids(buf) : k \in 1..MaxSeq
    BY DEF Ids, Reports
  <2> QED BY <1>4, <2>1 DEF Flush
<1> QED BY <1>1, <1>2, <1>3, <1>4 DEF Consumer

LEMMA TypeStep ==
    ASSUME TypeInv, [Next]_vars
    PROVE  TypeInv'
<1> USE DEF TypeInv, TypeOK, OrdersBounded, engineVars, botVars, rcvVars,
            chanVars, consVars, groupVars
<1>1. CASE CloseChannel
  BY <1>1 DEF CloseChannel
<1>2. CASE Return
  BY <1>2 DEF Return
<1>3. CASE CallerCancels
  BY <1>3 DEF CallerCancels
<1>4. CASE UNCHANGED vars
  BY <1>4 DEF vars
<1> QED
  BY <1>1, <1>2, <1>3, <1>4, EngineType, RunnerType, ReceiverType, ConsumerType
  DEF Next

LEMMA TypeInit == Init => TypeInv
<1> SUFFICES ASSUME Init PROVE TypeInv
  OBVIOUS
<1>1. /\ wire \in [Bots -> Seq(Reports)]
      /\ eventChan \in Seq(Reports \cup {Failure})
      /\ Len(eventChan) = 0
  BY EmptyType DEF Init
<1>2. \A b \in Bots : orders[b] = 0 /\ toSend[b] = OrdersToSend
  BY DEF Init
<1>3. OrdersBounded
  <2>1. OrdersToSend \in Nat /\ 0 + OrdersToSend <= OrdersToSend
    BY FleetAssumption
  <2> QED BY <1>2, <2>1 DEF OrdersBounded
<1>4. /\ orders \in [Bots -> 0..OrdersToSend]
      /\ toSend \in [Bots -> 0..OrdersToSend]
  BY FleetAssumption DEF Init
<1>5. /\ held \in [Bots -> SUBSET Reports]
      /\ rcv \in [Bots -> BOOLEAN]
      /\ botPc \in [Bots -> {"init", "send", "report", "arrive", "wait", "close",
                             "returned"}]
      /\ up \in BOOLEAN /\ closed \in BOOLEAN
      /\ failed \in BOOLEAN /\ cancelled \in BOOLEAN /\ caller \in BOOLEAN
  BY DEF Init
<1>6. /\ seq \in 0..MaxSeq /\ next \in 1..(MaxSeq + 1) /\ 0 <= Cap
      /\ cons = "recv" /\ ret = "running"
      /\ arrived = {} /\ delivered = {} /\ buf = {} /\ processed = {}
  BY FleetAssumption DEF Init
<1> QED
  BY <1>1, <1>3, <1>4, <1>5, <1>6 DEF TypeInv, TypeOK

\* Every variable of a RunFleet call keeps its type: eventChan never holds
\* more than its capacity, and nextSeqID never passes the youngest report by
\* more than one, whatever the engine does.
THEOREM TypeCorrect == Spec => []TypeOK
<1>1. TypeInv /\ [Next]_vars => TypeInv'
  BY TypeStep
<1>2. TypeInv => TypeOK
  BY DEF TypeInv
<1> QED BY <1>1, <1>2, TypeInit, PTL DEF Spec

-----------------------------------------------------------------------------
(* The order in which reports are processed.                               *)

\* nextSeqID is past everything the validator has seen.
NextIsAhead == \A rep \in processed : rep.id < next

OrderInv == TypeInv /\ NextIsAhead

\* What a step adds to processed comes after everything in it.
InOrder == \A k \in processed' \ processed : \A j \in processed : j.id < k.id

LEMMA OrderStep ==
    ASSUME OrderInv, [Next]_vars
    PROVE  OrderInv' /\ InOrder
<1> USE DEF OrderInv, NextIsAhead, InOrder
<1>0. TypeInv'
  BY TypeStep
<1>1. CASE Consume
  <2>1. PICK B \in SUBSET Reports, n \in 1..(MaxSeq + 1) :
          /\ n >= next
          /\ next' = n
          /\ processed' = processed \cup {rep \in B : rep.id \in next..(n - 1)}
    BY <1>1, ConsumeStep DEF TypeInv
  <2>2. next \in Nat /\ \A rep \in Reports : rep.id \in Nat
    BY FleetAssumption DEF TypeInv, TypeOK, Reports
  <2>3. processed \subseteq Reports
    BY DEF TypeInv, TypeOK
  <2> QED BY <1>0, <2>1, <2>2, <2>3
<1>2. CASE Flush
  <2>1. /\ next \in Nat /\ \A rep \in Reports : rep.id \in Nat
        /\ processed \subseteq Reports /\ buf \subseteq Reports
    BY FleetAssumption DEF TypeInv, TypeOK, Reports
  <2>2. CASE /\ processed' = processed \cup {rep \in buf : rep.id = next}
             /\ next' = next + 1
    BY <1>0, <2>1, <2>2
  <2>3. CASE processed' = processed /\ next' >= next /\ next' \in Nat
    BY <1>0, <2>1, <2>3
  <2>4. \A k \in Ids(buf) : k \in Nat
    BY <2>1 DEF Ids
  <2> QED BY <1>2, <2>1, <2>2, <2>3, <2>4 DEF Flush
<1>3. CASE UNCHANGED <<next, processed>>
  BY <1>0, <1>3
<1>4. Consume \/ Flush \/ UNCHANGED <<next, processed>>
  <2>1. CASE Engine
    BY <2>1 DEF Engine, EngineReply, EngineFill, EngineCrash, consVars
  <2>2. ASSUME NEW b \in Bots, Runner(b) PROVE UNCHANGED <<next, processed>>
    BY <2>2 DEF Runner, Connect, SendOrder, LeaveEarly, ReportFailure, Arrive,
                PassBarrier, CloseConn, consVars
  <2>3. ASSUME NEW b \in Bots, Receiver(b) PROVE UNCHANGED <<next, processed>>
    BY <2>3 DEF Receiver, ReadReport, StopReceiver, Deliver, consVars
  <2>4. CASE ConsumerCancelled \/ SeeClosed
    BY <2>4 DEF ConsumerCancelled, SeeClosed
  <2>5. CASE CloseChannel \/ Return \/ CallerCancels
    BY <2>5 DEF CloseChannel, Return, CallerCancels, consVars
  <2>6. CASE UNCHANGED vars
    BY <2>6 DEF vars
  <2> QED BY <2>1, <2>2, <2>3, <2>4, <2>5, <2>6 DEF Next, Consumer
<1> QED BY <1>1, <1>2, <1>3, <1>4

\* The shadow validator never sees a report after one the engine issued
\* later: what drainBuffer and the final drain (runner.go:351-413) process
\* has a larger number than everything processed before, for any number of
\* connections, any interleaving and any gaps.
THEOREM EngineOrder == Spec => ProcessedInEngineOrder
<1>1. Init => OrderInv
  BY TypeInit DEF Init, OrderInv, NextIsAhead
<1>2. OrderInv /\ [Next]_vars => OrderInv' /\ [InOrder]_vars
  BY OrderStep
<1>3. ProcessedInEngineOrder <=> [][InOrder]_vars
  BY PTL DEF ProcessedInEngineOrder, InOrder
<1> QED BY <1>1, <1>2, <1>3, PTL DEF Spec

-----------------------------------------------------------------------------
(* Nothing that is received is left out.                                   *)

\* Numbers on the connections are at most m, no two are equal, and none is
\* that of a report already read.
Unread(w, m) ==
    \A b \in Bots : \A i \in 1..Len(w[b]) :
        /\ w[b][i].id <= m
        /\ \A c \in Bots : \A j \in 1..Len(w[c]) :
             w[b][i].id = w[c][j].id => b = c /\ i = j
        /\ \A c \in Bots : \A rep \in held[c] : rep.id # w[b][i].id
        /\ \A rep \in delivered : rep.id # w[b][i].id

\* A number is in the hands of one receiver at most, and never given out twice.
Unsent ==
    \A b \in Bots : \A rep \in held[b] :
        /\ rep.id <= seq
        /\ \A c \in Bots : \A o \in held[c] :
             (b = c => o = rep) /\ (o.id = rep.id => b = c)
        /\ \A o \in delivered : o.id # rep.id

NumberedOnce ==
    /\ Unread(wire, seq)
    /\ Unsent
    /\ \A rep, o \in delivered : rep.id = o.id => rep = o
    /\ \A rep \in delivered : rep.id <= seq

\* A delivered report is in exactly one of eventChan, buf and processed.
ChanReports ==
    \A i \in 1..Len(eventChan) : eventChan[i] # Failure =>
        /\ eventChan[i] \in delivered \ (buf \cup processed)
        /\ \A j \in 1..Len(eventChan) : eventChan[j] = eventChan[i] => j = i

Conserved ==
    /\ buf \cup processed \subseteq delivered
    /\ buf \cap processed = {}
    /\ \A rep \in delivered :
         \/ rep \in buf \cup processed
         \/ \E i \in 1..Len(eventChan) : eventChan[i] = rep

\* Until the channel is closed, nextSeqID skips nothing; nothing in the
\* buffer is ever stale.
Draining ==
    /\ cons = "recv" => \A n \in 1..(next - 1) : n \in Ids(processed)
    /\ cons # "returned" => \A rep \in buf : rep.id >= next

\* How far the goroutines have to be for the next one to give up.
Shutdown ==
    /\ closed => AllReturned
    /\ cons = "flush" => closed /\ eventChan = <<>>
    /\ cons = "returned" =>
         (closed /\ eventChan = <<>> /\ buf = {}) \/ failed \/ caller
    /\ cancelled => failed \/ ret # "running"
    /\ ret \in {"ok", "error"} => AllReturned /\ cons = "returned"
    /\ ret = "ok" => ~failed

ReportInv ==
    /\ TypeInv
    /\ NumberedOnce /\ ChanReports /\ Conserved /\ Draining /\ Shutdown

\* A report with a new number may be sent.
LEMMA SentUnread ==
    ASSUME NEW w \in [Bots -> Seq(Reports)], NEW m \in Nat, NEW c \in Bots,
           NEW rep \in Reports, rep.id > m,
           held \in [Bots -> SUBSET Reports], delivered \subseteq Reports,
           \A b \in Bots : \A o \in held[b] : o.id <= m,
           \A o \in delivered : o.id <= m,
           Unread(w, m)
    PROVE  Unread(Sent(w, c, rep), rep.id)
<1>0. \A o \in Reports : o.id \in Nat
  BY FleetAssumption DEF Reports
<1>1. CASE ~Open(c)
  <2>1. Sent(w, c, rep) = w
    BY <1>1 DEF Sent
  <2>2. \A b \in Bots : \A i \in 1..Len(w[b]) : w[b][i] \in Reports
    OBVIOUS
  <2>3. \A b \in Bots : \A i \in 1..Len(w[b]) : w[b][i].id <= rep.id
    BY <1>0, <2>2 DEF Unread
  <2> QED BY <2>1, <2>3 DEF Unread
<1>2. CASE Open(c)
  <2> DEFINE v == Sent(w, c, rep)
  <2>1. v = [w EXCEPT ![c] = Append(@, rep)]
    BY <1>2 DEF Sent
  <2>2. ASSUME NEW b \in Bots, NEW i \in 1..Len(v[b])
        PROVE  \/ i \in 1..Len(w[b]) /\ v[b][i] = w[b][i] /\ w[b][i] \in Reports
               \/ b = c /\ i = Len(w[c]) + 1 /\ v[b][i] = rep
    BY <2>1, <2>2
  <2> HIDE DEF v
  <2>3. ASSUME NEW b \in Bots, NEW i \in 1..Len(v[b])
        PROVE  /\ v[b][i].id <= rep.id
               /\ \A d \in Bots : \A o \in held[d] : o.id # v[b][i].id
               /\ \A o \in delivered : o.id # v[b][i].id
    <3>1. CASE i \in 1..Len(w[b]) /\ v[b][i] = w[b][i] /\ w[b][i] \in Reports
      <4>1. /\ w[b][i].id <= m
            /\ \A d \in Bots : \A o \in held[d] : o.id # w[b][i].id
            /\ \A o \in delivered : o.id # w[b][i].id
        BY <3>1 DEF Unread
      <4> QED BY <1>0, <3>1, <4>1
    <3>2. CASE v[b][i] = rep
      BY <1>0, <3>2
    <3> QED BY <2>2, <3>1, <3>2
  <2>4. ASSUME NEW b \in Bots, NEW i \in 1..Len(v[b]),
               NEW d \in Bots, NEW j \in 1..Len(v[d]), v[b][i].id = v[d][j].id
        PROVE  b = d /\ i = j
    <3>1. CASE i \in 1..Len(w[b]) /\ v[b][i] = w[b][i] /\ w[b][i] \in Reports
      <4>1. v[b][i].id <= m
        BY <3>1 DEF Unread
      <4>2. v[d][j] # rep
        BY <1>0, <2>4, <3>1, <4>1
      <4>3. j \in 1..Len(w[d]) /\ v[d][j] = w[d][j]
        BY <2>2, <4>2
      <4>4. w[b][i].id = w[d][j].id
        BY <2>4, <3>1, <4>3
      <4>5. \A e \in Bots : \A k \in 1..Len(w[e]) :
              w[b][i].id = w[e][k].id => b = e /\ i = k
        BY <3>1 DEF Unread
      <4> QED BY <4>3, <4>4, <4>5
    <3>2. CASE b = c /\ i = Len(w[c]) + 1 /\ v[b][i] = rep
      <4>1. CASE /\ j \in 1..Len(w[d]) /\ v[d][j] = w[d][j]
                 /\ w[d][j] \in Reports
        <5>1. v[d][j].id <= m
          BY <4>1 DEF Unread
        <5> QED BY <1>0, <2>4, <3>2, <4>1, <5>1
      <4>2. CASE d = c /\ j = Len(w[c]) + 1
        BY <3>2, <4>2
      <4> QED BY <2>2, <4>1, <4>2
    <3> QED BY <2>2, <3>1, <3>2
  <2> QED BY <2>3, <2>4 DEF Unread, v
<1> QED BY <1>1, <1>2

\* Losing unread reports leaves the others distinct.
LEMMA LostUnread ==
    ASSUME NEW w, NEW v, NEW m, Unread(w, m),
           \A b \in Bots : \A i \in 1..Len(v[b]) :
              i \in 1..Len(w[b]) /\ v[b][i] = w[b][i]
    PROVE  Unread(v, m)
<1> SUFFICES ASSUME NEW b \in Bots, NEW i \in 1..Len(v[b])
             PROVE  /\ v[b][i].id <= m
                    /\ \A c \in Bots : \A j \in 1..Len(v[c]) :
                         v[b][i].id = v[c][j].id => b = c /\ i = j
                    /\ \A c \in Bots : \A rep \in held[c] : rep.id # v[b][i].id
                    /\ \A rep \in delivered : rep.id # v[b][i].id
  BY DEF Unread
<1>1. i \in 1..Len(w[b]) /\ v[b][i] = w[b][i]
  OBVIOUS
<1>2. /\ w[b][i].id <= m
      /\ \A c \in Bots : \A rep \in held[c] : rep.id # w[b][i].id
      /\ \A rep \in delivered : rep.id # w[b][i].id
      /\ \A c \in Bots : \A j \in 1..Len(w[c]) :
           w[b][i].id = w[c][j].id => b = c /\ i = j
  BY <1>1 DEF Unread
<1>3. ASSUME NEW c \in Bots, NEW j \in 1..Len(v[c]), v[b][i].id = v[c][j].id
      PROVE  b = c /\ i = j
  <2>1. j \in 1..Len(w[c]) /\ v[c][j] = w[c][j]
    OBVIOUS
  <2> QED BY <1>1, <1>2, <1>3, <2>1
<1> QED BY <1>1, <1>2, <1>3

LEMMA EngineReports ==
    ASSUME ~SharedFillIds, ReportInv, TypeInv', Engine
    PROVE  ReportInv'
<1> USE DEF ReportInv
<1>0. /\ wire \in [Bots -> Seq(Reports)] /\ seq \in Nat /\ seq' \in Nat
      /\ held \in [Bots -> SUBSET Reports] /\ delivered \subseteq Reports
      /\ \A o \in Reports : o.id \in Nat
  <2>1. TypeOK /\ seq' \in 0..MaxSeq
    BY DEF TypeInv, TypeOK
  <2>2. \A o \in Reports : o.id \in Nat
    BY FleetAssumption DEF Reports
  <2>3. seq \in Nat /\ seq' \in Nat
    BY <2>1, FleetAssumption DEF TypeOK
  <2> QED BY <2>1, <2>2, <2>3 DEF TypeOK
<1>1. /\ \A b \in Bots : \A o \in held[b] : o.id <= seq
      /\ \A o \in delivered : o.id <= seq
      /\ Unread(wire, seq)
  BY DEF NumberedOnce, Unsent
<1>2. seq' >= seq /\ Unread(wire', seq')
  <2>1. CASE \E b \in Bots : EngineReply(b)
    <3>0. PICK b \in Bots : EngineReply(b)
      BY <2>1
    <3> DEFINE rep == [id |-> seq + 1, side |-> "taker"]
    <3>1. rep \in Reports /\ rep.id > seq /\ seq' = rep.id
      BY <1>0, <3>0, FleetAssumption DEF EngineReply, Reports
    <3>2. wire' = Sent(wire, b, rep)
      BY <3>0 DEF EngineReply
    <3> HIDE DEF rep
    <3>3. Unread(Sent(wire, b, rep), rep.id)
      BY <1>0, <1>1, <3>1, SentUnread
    <3> QED BY <1>0, <3>1, <3>2, <3>3
  <2>2. CASE \E b, c \in Bots : EngineFill(b, c)
    <3>0. PICK b \in Bots, c \in Bots : EngineFill(b, c)
      BY <2>2
    <3> DEFINE rep == [id |-> seq + 1, side |-> "taker"]
               mak == [id |-> seq + 2, side |-> "maker"]
    <3>1. /\ rep \in Reports /\ rep.id > seq /\ rep.id \in Nat
          /\ mak \in Reports /\ mak.id > rep.id /\ seq' = mak.id
      BY <1>0, <3>0, FleetAssumption DEF EngineFill, Reports
    <3>2. wire' = Sent(Sent(wire, b, rep), c, mak)
      BY <3>0 DEF EngineFill
    <3> HIDE DEF rep, mak
    <3>3. /\ Sent(wire, b, rep) \in [Bots -> Seq(Reports)]
          /\ Unread(Sent(wire, b, rep), rep.id)
      BY <1>0, <1>1, <3>1, SentUnread, SentType
    <3>4. /\ \A d \in Bots : \A o \in held[d] : o.id <= rep.id
          /\ \A o \in delivered : o.id <= rep.id
      BY <1>0, <1>1, <3>1
    <3>5. Unread(wire', mak.id)
      BY <1>0, <3>1, <3>2, <3>3, <3>4, SentUnread
    <3> QED BY <1>0, <3>1, <3>5
  <2>3. CASE EngineCrash
    <3>1. PICK reset \in SUBSET Bots :
            wire' = [b \in Bots |-> IF b \in reset THEN <<>> ELSE wire[b]]
      BY <2>3 DEF EngineCrash
    <3>2. \A b \in Bots : \A i \in 1..Len(wire'[b]) :
            i \in 1..Len(wire[b]) /\ wire'[b][i] = wire[b][i]
      BY <1>0, <3>1, EmptyType
    <3>3. seq' = seq
      BY <2>3 DEF EngineCrash
    <3>4. Unread(wire', seq)
      BY <1>1, <3>2, LostUnread
    <3> QED BY <1>0, <3>3, <3>4
  <2>4. \/ EngineCrash
        \/ \E b \in Bots : EngineReply(b)
        \/ \E b, c \in Bots : EngineFill(b, c)
    BY DEF Engine
  <2> QED BY <2>1, <2>2, <2>3, <2>4
<1>3. UNCHANGED <<botVars, rcvVars, chanVars, consVars, groupVars>>
  BY DEF Engine, EngineReply, EngineFill, EngineCrash
<1>4. NumberedOnce'
  <2>1. UNCHANGED <<held, delivered>>
    BY <1>3 DEF rcvVars, chanVars
  <2>2. Unread(wire, seq)'
    BY <1>2, <2>1 DEF Unread
  <2>3. Unsent'
    BY <1>0, <1>2, <2>1 DEF NumberedOnce, Unsent
  <2> QED BY <1>0, <1>2, <2>1, <2>2, <2>3 DEF NumberedOnce
<1>5. ChanReports' /\ Conserved' /\ Draining' /\ Shutdown'
  BY <1>3 DEF ChanReports, Conserved, Draining, Shutdown, AllReturned, Ids,
              botVars, chanVars, consVars, groupVars
<1> QED BY <1>4, <1>5

\* Steps that move no report.
LEMMA NumbersFrame ==
    ASSUME NumberedOnce, UNCHANGED <<seq, wire, held, delivered>>
    PROVE  NumberedOnce'
  BY DEF NumberedOnce, Unread, Unsent

LEMMA ChannelFrame ==
    ASSUME ChanReports, Conserved, Draining,
           UNCHANGED <<eventChan, delivered, buf, processed, next, cons>>
    PROVE  ChanReports' /\ Conserved' /\ Draining'
  BY DEF ChanReports, Conserved, Draining, Ids

LEMMA RunnerReports ==
    ASSUME ReportInv, TypeInv', NEW b \in Bots, Runner(b), ret # "panic"
    PROVE  ReportInv'
<1> USE DEF ReportInv
<1>1. /\ botPc[b] # "returned"
      /\ UNCHANGED <<seq, held, delivered, closed, caller, ret, cons, buf, next,
                     processed>>
  BY DEF Runner, Connect, SendOrder, LeaveEarly, ReportFailure, Arrive,
         PassBarrier, CloseConn, engineVars, rcvVars, chanVars, consVars,
         groupVars
<1>2. ~closed /\ ret = "running" /\ cons # "flush"
  BY <1>1 DEF TypeInv, TypeOK, Shutdown, AllReturned
<1>3. Shutdown'
  <2>1. /\ failed => failed'
        /\ cancelled' => cancelled \/ failed'
    BY DEF Runner, Connect, SendOrder, LeaveEarly, ReportFailure, Arrive,
           PassBarrier, CloseConn, groupVars
  <2> QED BY <1>1, <1>2, <2>1 DEF Shutdown
<1>4. NumberedOnce'
  <2>1. CASE CloseConn(b)
    <3>1. \A c \in Bots : \A i \in 1..Len(wire'[c]) :
            i \in 1..Len(wire[c]) /\ wire'[c][i] = wire[c][i]
      BY <2>1, EmptyType DEF CloseConn, TypeInv, TypeOK
    <3>2. Unread(wire', seq)
      BY <3>1, LostUnread DEF NumberedOnce
    <3>3. Unread(wire, seq)'
      BY <1>1, <3>2 DEF Unread
    <3> QED BY <1>1, <3>3 DEF NumberedOnce, Unsent
  <2>2. CASE UNCHANGED wire
    BY <1>1, <2>2, NumbersFrame
  <2> QED BY <2>1, <2>2
      DEF Runner, Connect, SendOrder, LeaveEarly, ReportFailure, Arrive,
          PassBarrier, engineVars
<1>5. ChanReports' /\ Conserved' /\ Draining'
  <2>1. CASE UNCHANGED eventChan
    BY <1>1, <2>1, ChannelFrame
  <2>2. CASE eventChan' = Append(eventChan, Failure)
    <3>1. \A i \in 1..Len(eventChan') :
            eventChan'[i] # Failure =>
               i \in 1..Len(eventChan) /\ eventChan'[i] = eventChan[i]
      <4>1. eventChan \in Seq(Reports \cup {Failure})
        BY DEF TypeInv, TypeOK
      <4> QED BY <2>2, <4>1, AppendType, AppendElements
    <3>2. \A i \in 1..Len(eventChan) :
            i \in 1..Len(eventChan') /\ eventChan'[i] = eventChan[i]
      BY <2>2 DEF TypeInv, TypeOK
    <3>3. ChanReports'
      BY <1>1, <3>1 DEF ChanReports
    <3>4. Conserved' /\ Draining'
      BY <1>1, <3>2 DEF Conserved, Draining, Ids
    <3> QED BY <3>3, <3>4
  <2> QED BY <2>1, <2>2
      DEF Runner, Connect, SendOrder, LeaveEarly, ReportFailure, Arrive,
          PassBarrier, CloseConn, chanVars
<1> QED BY <1>3, <1>4, <1>5

LEMMA ReceiverReports ==
    ASSUME ReportInv, TypeInv', NEW b \in Bots, Receiver(b), ret # "panic"
    PROVE  ReportInv'
<1> USE DEF ReportInv
<1>0. /\ wire \in [Bots -> Seq(Reports)] /\ held \in [Bots -> SUBSET Reports]
      /\ eventChan \in Seq(Reports \cup {Failure}) /\ seq \in Nat
      /\ delivered \subseteq Reports
      /\ \A o \in Reports : o.id \in Nat
  <2>1. \A o \in Reports : o.id \in Nat
    BY FleetAssumption DEF Reports
  <2> QED BY <2>1, FleetAssumption DEF TypeInv, TypeOK
<1>1. CASE StopReceiver(b)
  <2>1. UNCHANGED <<seq, wire, held, delivered, eventChan, buf, processed, next,
                    cons, closed, botPc, failed, caller, cancelled, ret>>
    BY <1>1 DEF StopReceiver, engineVars, botVars, chanVars, consVars, groupVars
  <2>2. Shutdown'
    BY <2>1 DEF Shutdown, AllReturned
  <2> QED BY <2>1, <2>2, NumbersFrame, ChannelFrame
<1>2. CASE ReadReport(b)
  <2>1. UNCHANGED <<seq, delivered, eventChan, buf, processed, next,
                    cons, closed, botPc, failed, caller, cancelled, ret>>
    BY <1>2 DEF ReadReport, botVars, chanVars, consVars, groupVars
  <2>2. Shutdown'
    BY <2>1 DEF Shutdown, AllReturned
  <2> DEFINE rep == Head(wire[b])
  <2>3. /\ rep = wire[b][1] /\ 1 \in 1..Len(wire[b]) /\ rep \in Reports
        /\ held[b] = {} /\ held' = [held EXCEPT ![b] = {rep}]
        /\ wire' = [wire EXCEPT ![b] = Tail(@)]
    BY <1>0, <1>2 DEF ReadReport
  <2>4. \A c \in Bots : \A i \in 1..Len(wire'[c]) :
          IF c = b THEN /\ i + 1 \in 1..Len(wire[c]) /\ i + 1 # 1
                        /\ wire'[c][i] = wire[c][i + 1]
                   ELSE i \in 1..Len(wire[c]) /\ wire'[c][i] = wire[c][i]
    BY <1>0, <2>3
  <2> HIDE DEF rep
  <2>5. /\ rep.id <= seq
        /\ \A c \in Bots : \A i \in 1..Len(wire[c]) :
             wire[c][i].id = rep.id => c = b /\ i = 1
        /\ \A c \in Bots : \A o \in held[c] : o.id # rep.id
        /\ \A o \in delivered : o.id # rep.id
    BY <2>3 DEF NumberedOnce, Unread
  <2>6. Unsent'
    BY <1>0, <2>1, <2>3, <2>5 DEF NumberedOnce, Unsent
  <2>7. Unread(wire, seq)'
    <3> SUFFICES ASSUME NEW c \in Bots, NEW i \in 1..Len(wire'[c])
                 PROVE  /\ wire'[c][i].id <= seq
                        /\ \A d \in Bots : \A j \in 1..Len(wire'[d]) :
                             wire'[c][i].id = wire'[d][j].id => c = d /\ i = j
                        /\ \A d \in Bots : \A o \in held'[d] :
                             o.id # wire'[c][i].id
                        /\ \A o \in delivered : o.id # wire'[c][i].id
      BY <2>1 DEF Unread
    <3>1. PICK k \in 1..Len(wire[c]) :
            /\ wire'[c][i] = wire[c][k]
            /\ IF c = b THEN k = i + 1 ELSE k = i
            /\ c = b => k # 1
      BY <2>4
    <3>2. /\ wire[c][k].id <= seq
          /\ \A d \in Bots : \A j \in 1..Len(wire[d]) :
               wire[c][k].id = wire[d][j].id => c = d /\ k = j
          /\ \A d \in Bots : \A o \in held[d] : o.id # wire[c][k].id
          /\ \A o \in delivered : o.id # wire[c][k].id
      BY DEF NumberedOnce, Unread
    <3>3. rep.id # wire[c][k].id
      BY <2>5, <3>1
    <3>4. \A d \in Bots : \A o \in held'[d] : o.id # wire'[c][i].id
      BY <1>0, <2>3, <3>1, <3>2, <3>3
    <3>5. ASSUME NEW d \in Bots, NEW j \in 1..Len(wire'[d]),
                 wire'[c][i].id = wire'[d][j].id
          PROVE  c = d /\ i = j
      <4>1. PICK n \in 1..Len(wire[d]) :
              /\ wire'[d][j] = wire[d][n]
              /\ IF d = b THEN n = j + 1 ELSE n = j
        BY <2>4
      <4>2. c = d /\ k = n
        BY <3>1, <3>2, <3>5, <4>1
      <4> QED BY <3>1, <4>1, <4>2
    <3> QED BY <3>1, <3>2, <3>4, <3>5
  <2>8. NumberedOnce'
    BY <2>1, <2>6, <2>7 DEF NumberedOnce
  <2> QED BY <2>1, <2>2, <2>8, ChannelFrame
<1>3. CASE Deliver(b)
  <2>1. /\ UNCHANGED <<seq, wire, buf, processed, next, cons, closed, botPc,
                       failed, caller, cancelled>>
        /\ held' = [held EXCEPT ![b] = {}]
    BY <1>3 DEF Deliver, engineVars, botVars, consVars
  <2>2. CASE UNCHANGED <<eventChan, delivered>> /\ ret' \in {ret, "panic"}
    <3>1. Shutdown'
      BY <2>1, <2>2 DEF Shutdown, AllReturned
    <3>2. \A c \in Bots : held'[c] \subseteq held[c]
      BY <1>0, <2>1
    <3>3. Unread(wire, seq)'
      BY <2>1, <2>2, <3>2 DEF NumberedOnce, Unread
    <3>4. Unsent'
      BY <2>1, <2>2, <3>2 DEF NumberedOnce, Unsent
    <3> QED BY <2>1, <2>2, <3>1, <3>3, <3>4, ChannelFrame DEF NumberedOnce
  <2>3. ASSUME NEW rep \in held[b], ~closed, UNCHANGED ret,
               eventChan' = Append(eventChan, rep),
               delivered' = delivered \cup held[b]
        PROVE  ReportInv'
    <3>1. /\ held[b] = {rep} /\ rep \in Reports /\ rep.id <= seq
          /\ \A c \in Bots : \A o \in held[c] : o.id = rep.id => c = b
          /\ \A o \in delivered : o.id # rep.id
      BY <1>0 DEF NumberedOnce, Unsent
    <3>2. delivered' = delivered \cup {rep}
      BY <2>3, <3>1
    <3>3. \A c \in Bots : held'[c] \subseteq held[c] /\ (c = b => held'[c] = {})
      BY <1>0, <2>1
    <3>4. \A c \in Bots : \A i \in 1..Len(wire[c]) : rep.id # wire[c][i].id
      BY DEF NumberedOnce, Unread
    <3>5. Unread(wire, seq)'
      BY <2>1, <3>2, <3>3, <3>4 DEF NumberedOnce, Unread
    <3>6. Unsent'
      BY <2>1, <3>1, <3>2, <3>3 DEF NumberedOnce, Unsent
    <3>7. NumberedOnce'
      BY <2>1, <3>1, <3>2, <3>5, <3>6 DEF NumberedOnce
    <3>8. /\ Len(eventChan') = Len(eventChan) + 1 /\ Len(eventChan) \in Nat
          /\ \A i \in 1..Len(eventChan) : eventChan'[i] = eventChan[i]
          /\ eventChan'[Len(eventChan) + 1] = rep
      BY <1>0, <2>3, <3>1
    <3>9. rep \notin delivered /\ rep \notin buf \cup processed
      BY <3>1 DEF Conserved
    <3>10. ASSUME NEW i \in 1..Len(eventChan'), eventChan'[i] # Failure
           PROVE  /\ eventChan'[i] \in delivered' \ (buf \cup processed)
                  /\ \A j \in 1..Len(eventChan') :
                       eventChan'[j] = eventChan'[i] => j = i
      <4>1. CASE i \in 1..Len(eventChan)
        <5>1. /\ eventChan[i] \in delivered \ (buf \cup processed)
              /\ \A j \in 1..Len(eventChan) : eventChan[j] = eventChan[i] => j = i
          BY <3>8, <3>10, <4>1 DEF ChanReports
        <5> QED BY <3>2, <3>8, <3>9, <4>1, <5>1
      <4>2. CASE i = Len(eventChan) + 1
        <5>1. \A j \in 1..Len(eventChan) : eventChan[j] # rep
          BY <3>9, <3>10, <3>8, <4>2 DEF ChanReports
        <5> QED BY <3>2, <3>8, <3>9, <4>2, <5>1
      <4> QED BY <3>8, <4>1, <4>2
    <3>11. ChanReports'
      BY <2>1, <3>10 DEF ChanReports
    <3>12. Conserved'
      <4>1. \A o \in delivered' :
              \/ o \in buf \cup processed
              \/ \E i \in 1..Len(eventChan') : eventChan'[i] = o
        BY <3>2, <3>8 DEF Conserved
      <4> QED BY <2>1, <3>2, <4>1 DEF Conserved
    <3>13. Draining' /\ Shutdown'
      BY <2>1, <2>3 DEF Draining, Shutdown, AllReturned, Ids
    <3> QED BY <3>7, <3>11, <3>12, <3>13
  <2> QED BY <1>3, <2>2, <2>3 DEF Deliver
<1> QED BY <1>1, <1>2, <1>3 DEF Receiver

LEMMA ConsumeReports ==
    ASSUME ReportInv, TypeInv', Consume
    PROVE  ReportInv'
<1> USE DEF ReportInv
<1>0. /\ eventChan \in Seq(Reports \cup {Failure}) /\ next \in Nat \ {0}
      /\ delivered \subseteq Reports /\ processed \subseteq Reports
      /\ buf \subseteq Reports
      /\ \A o \in Reports : o.id \in Nat \ {0}
  <2>1. \A o \in Reports : o.id \in Nat \ {0}
    BY FleetAssumption DEF Reports
  <2> QED BY <2>1, FleetAssumption DEF TypeInv, TypeOK
<1>1. /\ cons = "recv" /\ eventChan # <<>> /\ eventChan' = Tail(eventChan)
      /\ UNCHANGED <<seq, wire, held, botPc, closed, delivered, cons, failed,
                     cancelled, caller, ret>>
  BY DEF Consume, engineVars, botVars, rcvVars, groupVars
<1>2. PICK B \in SUBSET Reports, n \in 1..(MaxSeq + 1) :
        /\ B = IF Head(eventChan) = Failure THEN buf
                                            ELSE Store(buf, Head(eventChan))
        /\ n >= next
        /\ next..(n - 1) \subseteq Ids(B)
        /\ next' = n
        /\ processed' = processed \cup {rep \in B : rep.id \in next..(n - 1)}
        /\ buf' = {rep \in B : rep.id \notin next..(n - 1)}
  BY ConsumeStep DEF TypeInv
<1>3. /\ Head(eventChan) = eventChan[1] /\ 1 \in 1..Len(eventChan)
      /\ \A i \in 1..Len(eventChan') :
           /\ i + 1 \in 1..Len(eventChan) /\ i + 1 # 1
           /\ eventChan'[i] = eventChan[i + 1]
      /\ \A i \in 1..Len(eventChan) :
           i = 1 \/ (i - 1 \in 1..Len(eventChan') /\ eventChan'[i - 1] = eventChan[i])
  BY <1>0, <1>1
\* The buffer with the event: nothing is overwritten, nothing is stale.
<1>4. /\ B = IF eventChan[1] = Failure THEN buf ELSE buf \cup {eventChan[1]}
      /\ B \subseteq delivered /\ B \cap processed = {}
      /\ \A rep \in B : rep.id >= next
  <2>1. CASE eventChan[1] = Failure
    BY <1>1, <1>2, <1>3, <2>1 DEF Conserved, Draining
  <2>2. CASE eventChan[1] # Failure
    <3> DEFINE new == eventChan[1]
    <3>1. new \in delivered \ (buf \cup processed)
      BY <1>3, <2>2 DEF ChanReports
    <3>2. \A o \in buf \cup processed : o.id # new.id
      BY <3>1 DEF Conserved, NumberedOnce
    <3>3. B = buf \cup {new}
      BY <1>2, <1>3, <2>2, <3>2 DEF Store
    <3>4. new.id >= next
      <4>1. \A k \in 1..(next - 1) : \E o \in processed : o.id = k
        BY <1>1 DEF Draining, Ids
      <4> QED BY <1>0, <3>1, <3>2, <4>1
    <3>5. B \subseteq delivered /\ B \cap processed = {}
      BY <3>1, <3>3 DEF Conserved
    <3>6. \A rep \in B : rep.id >= next
      BY <1>1, <3>3, <3>4 DEF Draining
    <3> QED BY <2>2, <3>3, <3>5, <3>6
  <2> QED BY <2>1, <2>2
<1>5. /\ buf' \cup processed' = B \cup processed
      /\ buf' \cap processed' = {}
  BY <1>2, <1>4
<1>6. ChanReports'
  <2> SUFFICES ASSUME NEW i \in 1..Len(eventChan'), eventChan'[i] # Failure
               PROVE  /\ eventChan'[i] \in delivered \ (B \cup processed)
                      /\ \A j \in 1..Len(eventChan') :
                           eventChan'[j] = eventChan'[i] => j = i
    BY <1>1, <1>5 DEF ChanReports
  <2>1. /\ i + 1 \in 1..Len(eventChan) /\ i + 1 # 1
        /\ eventChan'[i] = eventChan[i + 1]
    BY <1>3
  <2>2. /\ eventChan[i + 1] \in delivered \ (buf \cup processed)
        /\ \A j \in 1..Len(eventChan) : eventChan[j] = eventChan[i + 1] => j = i + 1
    BY <2>1 DEF ChanReports
  <2>3. eventChan[i + 1] # eventChan[1]
    BY <1>3, <2>1, <2>2
  <2>4. ASSUME NEW j \in 1..Len(eventChan'), eventChan'[j] = eventChan'[i]
        PROVE  j = i
    <3>1. j + 1 = i + 1
      BY <1>3, <2>1, <2>2, <2>4
    <3> QED BY <3>1
  <2> QED BY <1>4, <2>1, <2>2, <2>3, <2>4
<1>7. Conserved'
  <2>1. ASSUME NEW rep \in delivered
        PROVE  \/ rep \in B \cup processed
               \/ \E i \in 1..Len(eventChan') : eventChan'[i] = rep
    <3>1. CASE rep \in buf \cup processed
      BY <1>4, <3>1
    <3>2. CASE \E i \in 1..Len(eventChan) : eventChan[i] = rep
      <4>1. PICK i \in 1..Len(eventChan) : eventChan[i] = rep
        BY <3>2
      <4>2. rep # Failure
        BY <1>0 DEF Failure
      <4> QED BY <1>3, <1>4, <4>1, <4>2
    <3> QED BY <3>1, <3>2 DEF Conserved
  <2> QED BY <1>1, <1>4, <1>5, <2>1 DEF Conserved
<1>8. Draining'
  <2>1. \A k \in 1..(next - 1) : k \in Ids(processed)
    BY <1>1 DEF Draining
  <2>2. ASSUME NEW k \in 1..(n - 1) PROVE k \in Ids(processed')
    <3>1. CASE k \in 1..(next - 1)
      BY <1>2, <2>1, <3>1 DEF Ids
    <3>2. CASE k \in next..(n - 1)
      BY <1>2, <3>2 DEF Ids
    <3> QED BY <1>0, <3>1, <3>2
  <2>3. \A rep \in buf' : rep.id >= n
    BY <1>0, <1>2, <1>4
  <2> QED BY <1>1, <1>2, <2>2, <2>3 DEF Draining
<1>9. NumberedOnce'
  BY <1>1, NumbersFrame
<1>10. Shutdown'
  BY <1>1 DEF Shutdown, AllReturned
<1> QED BY <1>6, <1>7, <1>8, <1>9, <1>10

LEMMA ConsumerReports ==
    ASSUME ReportInv, TypeInv', Consumer, ret # "panic"
    PROVE  ReportInv'
<1> USE DEF ReportInv
<1>0. /\ next \in Nat /\ buf \subseteq Reports
      /\ \A o \in Reports : o.id \in Nat
  <2>1. \A o \in Reports : o.id \in Nat
    BY FleetAssumption DEF Reports
  <2> QED BY <2>1, FleetAssumption DEF TypeInv, TypeOK
<1>1. CASE ConsumerCancelled \/ SeeClosed
  <2>1. /\ cons = "recv" /\ cons' \in {"flush", "returned"}
        /\ cons' = "flush" => closed /\ eventChan = <<>>
        /\ cons' = "returned" => CtxDone
        /\ UNCHANGED <<seq, wire, held, botPc, closed, delivered, eventChan,
                       buf, processed, next, failed, cancelled, caller, ret>>
    BY <1>1 DEF ConsumerCancelled, SeeClosed, engineVars, botVars, rcvVars,
                chanVars, groupVars
  <2>2. ret = "running"
    BY <2>1 DEF TypeInv, TypeOK, Shutdown
  <2>3. Shutdown'
    BY <2>1, <2>2 DEF Shutdown, AllReturned, CtxDone
  <2>4. ChanReports' /\ Conserved' /\ Draining'
    BY <2>1 DEF ChanReports, Conserved, Draining
  <2> QED BY <2>1, <2>3, <2>4, NumbersFrame
<1>2. CASE Flush
  <2>1. /\ cons = "flush" /\ closed /\ eventChan = <<>>
        /\ \A rep \in buf : rep.id >= next
        /\ UNCHANGED <<seq, wire, held, botPc, closed, delivered, eventChan,
                       failed, cancelled, caller, ret>>
    BY <1>2 DEF Flush, Shutdown, Draining, engineVars, botVars, rcvVars,
                chanVars, groupVars
  <2>2. /\ buf' \cup processed' = buf \cup processed
        /\ buf' \cap processed' = {}
        /\ \/ cons' = "flush" /\ \A rep \in buf' : rep.id >= next'
           \/ cons' = "returned" /\ buf' = {}
    <3>1. CASE /\ processed' = processed \cup {rep \in buf : rep.id = next}
               /\ buf' = {rep \in buf : rep.id # next}
               /\ next' = next + 1 /\ cons' = cons
      BY <1>0, <2>1, <3>1 DEF Conserved
    <3>2. ASSUME next \notin Ids(buf), NEW k \in Ids(buf),
                 \A j \in Ids(buf) : k <= j,
                 IF k > next THEN next' = k /\ UNCHANGED cons
                             ELSE cons' = "returned" /\ UNCHANGED next,
                 UNCHANGED <<buf, processed>>
          PROVE  /\ buf' \cup processed' = buf \cup processed
                 /\ buf' \cap processed' = {}
                 /\ cons' = "flush" /\ \A rep \in buf' : rep.id >= next'
      <4>1. k \in Nat /\ k >= next /\ k # next
        BY <1>0, <2>1, <3>2 DEF Ids
      <4> QED BY <1>0, <2>1, <3>2, <4>1 DEF Ids, Conserved
    <3>3. CASE buf = {} /\ cons' = "returned" /\ UNCHANGED <<buf, processed>>
      BY <3>3
    <3> QED BY <1>2, <3>1, <3>2, <3>3 DEF Flush
  <2>3. ChanReports'
    BY <2>1, EmptyType DEF ChanReports
  <2>4. Conserved' /\ Draining'
    BY <2>1, <2>2 DEF Conserved, Draining
  <2>5. Shutdown'
    BY <2>1, <2>2 DEF Shutdown, AllReturned
  <2> QED BY <2>1, <2>3, <2>4, <2>5, NumbersFrame
<1> QED BY <1>1, <1>2, ConsumeReports DEF Consumer

LEMMA ReportStep ==
    ASSUME ~SharedFillIds, ReportInv, [Next]_vars
    PROVE  ReportInv'
<1>0. TypeInv'
  BY TypeStep DEF ReportInv
<1>1. CASE CloseChannel \/ Return \/ CallerCancels
  <2>1. /\ UNCHANGED <<seq, wire, held, delivered, eventChan, buf, processed,
                       next, cons, botPc, failed>>
    BY <1>1 DEF CloseChannel, Return, CallerCancels, engineVars, botVars,
                rcvVars, chanVars, consVars, groupVars
  <2>2. Shutdown'
    BY <1>1, <2>1 DEF CloseChannel, Return, CallerCancels, groupVars, chanVars,
                      ReportInv, Shutdown, AllReturned
  <2> QED BY <1>0, <2>1, <2>2, NumbersFrame, ChannelFrame DEF ReportInv
<1>2. CASE UNCHANGED vars
  <2>1. Shutdown'
    BY <1>2 DEF vars, ReportInv, Shutdown, AllReturned
  <2> QED BY <1>0, <1>2, <2>1, NumbersFrame, ChannelFrame DEF vars, ReportInv
<1> QED
  BY <1>0, <1>1, <1>2, EngineReports, RunnerReports, ReceiverReports,
     ConsumerReports DEF Next

LEMMA ReportInit == Init => ReportInv
<1> SUFFICES ASSUME Init PROVE ReportInv
  OBVIOUS
<1>1. /\ \A b \in Bots : wire[b] = <<>> /\ held[b] = {}
      /\ eventChan = <<>> /\ delivered = {} /\ buf = {} /\ processed = {}
      /\ next = 1 /\ cons = "recv" /\ ret = "running"
      /\ ~closed /\ ~cancelled
  BY DEF Init
<1>2. NumberedOnce
  BY <1>1, EmptyType DEF NumberedOnce, Unread, Unsent
<1>3. ChanReports /\ Conserved /\ Draining
  BY <1>1, EmptyType DEF ChanReports, Conserved, Draining
<1>4. Shutdown
  BY <1>1 DEF Shutdown
<1> QED BY <1>2, <1>3, <1>4, TypeInit DEF ReportInv

\* If the engine numbers every report (the two reports of a fill one after the
\* other), a run that is scored has validated every report that was put
\* on eventChan: the drain up to the first gap, the final drain, the closing
\* of the channel and cancellation never drop one, for any number of bots.
THEOREM NothingDropped == Spec => []ReceivedProcessed
<1> DEFINE Inv == ~SharedFillIds => ReportInv
<1>0. Init => Inv
  BY ReportInit
<1>1. Inv /\ [Next]_vars => Inv'
  BY ReportStep
<1>2. Inv => ReceivedProcessed
  <2> SUFFICES ASSUME ReportInv, ~SharedFillIds, ret = "ok", ~caller
               PROVE  delivered = processed
    BY DEF ReceivedProcessed
  <2>1. eventChan = <<>> /\ buf = {}
    BY DEF ReportInv, Shutdown
  <2>2. \A rep \in delivered :
          rep \in processed \/ \E i \in 1..Len(eventChan) : eventChan[i] = rep
    BY <2>1 DEF ReportInv, Conserved
  <2>3. 1..Len(eventChan) = {}
    BY <2>1, EmptyType
  <2>4. delivered \subseteq processed
    BY <2>2, <2>3
  <2> QED BY <2>1, <2>4 DEF ReportInv, Conserved
<1> HIDE DEF Inv
<1> QED BY <1>0, <1>1, <1>2, PTL DEF Spec
=============================================================================
