---------------------------- MODULE BotRunProofs ----------------------------
(***************************************************************************)
(* TLAPS proofs about BotRun, for every number of orders, and however many *)
(* frames the engine sends.                                                *)
(***************************************************************************)
EXTENDS BotRun, FiniteSetTheorems, TLAPS

\* Before the bot has dialled nothing has happened but to its surroundings,
\* and its three goroutines start together.
Fresh ==
    /\ spc = "dial" =>
         /\ pos = 0 /\ got = {} /\ pending = {} /\ ~closed /\ ~overtaken
         /\ sent = 0 /\ failed = 0 /\ cancels = 0
    /\ spc = "dial" <=> rpc = "dial"
    /\ spc = "dial" <=> cpc = "dial"

\* Where an order can be: the engine knows only orders that were passed, and
\* the table holds beyond them at most the one that is being written.
Placed ==
    /\ got \subseteq 1..pos
    /\ pending \subseteq 1..(pos + 1)
    /\ pos + 1 \in pending => spc = "write" /\ msg = "new"
    /\ spc = "set" => msg = "new"
    /\ spc \in {"set", "write"} => pos < OrdersToSend
    /\ cancels <= pos
    /\ \A i \in 1..Len(wire) : wire[i].counts => wire[i].order \in got

\* An order counted as sent was read by the engine and has left the table.
SentLeft == sent <= Cardinality(got \ pending)

TypeInv == TypeOK /\ Fresh /\ Placed /\ SentLeft

\* Orders that the counters, the table and the cancels must account for: all
\* of them when the sender has ended, the entered and passed ones before.
Due ==
    CASE spc = "ended" -> OrdersToSend
      [] spc = "write" /\ msg = "new" -> pos + 1
      [] OTHER -> pos

Account == sent + failed + Cardinality(pending) + cancels

\* A length read by failAllPending bounds the table until it is cleared.
Counted ==
    ~overtaken =>
        /\ Account >= Due
        /\ rpc = "clear" => Cardinality(pending) <= rlen
        /\ cpc = "clear" => Cardinality(pending) <= clen

\* What is left in the table once nobody looks at it any more.  The control
\* goroutine leaves its loop when the bot is drained or the context done;
\* without a broken connection, the receiver stops only after the Close,
\* when the next write fails and removes its order.
Drained == spc = "ended" /\ pending = {}
LeftOver ==
    /\ cpc \in {"clear", "close"} => ctx
    /\ cpc = "ended" => ctx \/ Drained
    /\ ~broken /\ rpc = "clear" => closed
    /\ ~broken /\ rpc = "ended" =>
         /\ closed \/ spc = "ended"
         /\ pending # {} => spc = "write" /\ pending = {pos + 1}

\* As long as the context and the connection live, no order is counted twice,
\* and the bot is closed by its control goroutine when it is drained.
Refused ==
    /\ Drained /\ rpc = "ended" /\ cpc = "ended"
    /\ pos = 0 /\ sent = 0 /\ failed = OrdersToSend /\ cancels = 0
Undisturbed ==
    ~ctx /\ ~broken /\ ~Refused =>
        /\ Account = Due
        /\ spc = "ended" => pos = OrdersToSend
        /\ closed => Drained
        /\ rpc = "clear" => closed /\ rlen = 0
        /\ rpc = "ended" => closed
        /\ cpc = "ended" => closed

-----------------------------------------------------------------------------
(* The table is finite, and what its operations do to its length.          *)

LEMMA OrdersFinite ==
    ASSUME NEW S \in SUBSET Orders
    PROVE  IsFiniteSet(S) /\ Cardinality(S) \in 0..OrdersToSend
<1>1. IsFiniteSet(Orders) /\ Cardinality(Orders) = OrdersToSend
  BY FS_Interval, BotAssumption DEF Orders
<1> QED
  BY <1>1, FS_Subset, FS_CardinalityType, BotAssumption

LEMMA Lengths ==
    ASSUME TypeOK
    PROVE  /\ IsFiniteSet(pending) /\ Cardinality(pending) \in 0..OrdersToSend
           /\ IsFiniteSet(got) /\ Cardinality(got) \in 0..OrdersToSend
           /\ IsFiniteSet(got \ pending)
           /\ Cardinality(got \ pending) \in 0..OrdersToSend
<1>1. /\ pending \in SUBSET Orders /\ got \in SUBSET Orders
      /\ got \ pending \in SUBSET Orders
  BY DEF TypeOK
<1> QED
  BY <1>1, OrdersFinite

LEMMA LengthAfterSet ==
    ASSUME TypeOK, NEW o, o \notin pending
    PROVE  Cardinality(pending \cup {o}) = Cardinality(pending) + 1
  BY Lengths, FS_AddElement

LEMMA LengthAfterRemove ==
    ASSUME TypeOK, NEW o
    PROVE  Cardinality(pending \ {o}) =
             Cardinality(pending) - IF o \in pending THEN 1 ELSE 0
<1>1. Cardinality(pending \ {o}) =
        IF o \in pending THEN Cardinality(pending) - 1 ELSE Cardinality(pending)
  BY Lengths, FS_RemoveElement
<1> QED
  BY <1>1, Lengths, BotAssumption

LEMMA LengthAfterExpiry ==
    ASSUME TypeOK, NEW k
    PROVE  /\ Cardinality(Expired(k)) \in Nat
           /\ Cardinality(pending \ Expired(k)) =
                Cardinality(pending) - Cardinality(Expired(k))
<1>1. pending \cap Expired(k) = Expired(k) /\ Expired(k) \in SUBSET pending
  BY DEF Expired
<1>2. IsFiniteSet(Expired(k))
  BY <1>1, Lengths, FS_Subset
<1> QED
  BY <1>1, <1>2, Lengths, FS_Difference, FS_CardinalityType

LEMMA LengthAfterClear == Cardinality({}) = 0
  BY FS_EmptySet

\* More orders have left the table, or more have been read.
LEMMA SentLeftGrows ==
    ASSUME TypeInv, got' \subseteq Orders, sent' = sent,
           got \ pending \subseteq got' \ pending'
    PROVE  SentLeft'
<1>1. got' \ pending' \in SUBSET Orders
  OBVIOUS
<1>2. Cardinality(got \ pending) <= Cardinality(got' \ pending')
  BY <1>1, OrdersFinite, FS_Subset
<1>3. Cardinality(got' \ pending') \in Nat /\ Cardinality(got \ pending) \in Nat
  BY <1>1, OrdersFinite, Lengths, BotAssumption DEF TypeInv
<1> QED
  BY <1>2, <1>3 DEF SentLeft, TypeInv, TypeOK

-----------------------------------------------------------------------------
(* Type correctness.                                                       *)

LEMMA SenderType ==
    ASSUME TypeInv, Sender
    PROVE  TypeInv'
<1> USE BotAssumption DEF TypeInv, netVars, sendVars, failVars, histVars
<1>0. /\ pos \in 0..OrdersToSend /\ failed \in Nat
      /\ OrdersToSend - pos \in Nat
  BY DEF TypeOK
<1>1. CASE Dial
  <2>1. TypeOK' /\ Fresh' /\ Placed'
    BY <1>1 DEF Dial, TypeOK, Fresh, Placed, Orders
  <2>2. SentLeft'
    BY <1>1, SentLeftGrows DEF Dial, TypeOK
  <2> QED BY <2>1, <2>2
<1>2. CASE SenderWaits
  <2>1. TypeOK'
    BY <1>0, <1>2 DEF SenderWaits, SenderGivesUp, NextOrder, marketMakerOrder,
                      momentumOrder, noiseOrder, TypeOK
  <2>2. Fresh' /\ Placed'
    BY <1>2 DEF SenderWaits, SenderGivesUp, NextOrder, marketMakerOrder,
                momentumOrder, noiseOrder, TypeOK, Fresh, Placed
  <2>3. SentLeft'
    BY <1>2, SentLeftGrows DEF SenderWaits, TypeOK
  <2> QED BY <2>1, <2>2, <2>3
<1>3. CASE SenderSets
  <2>1. pos + 1 \in Orders
    BY <1>3 DEF SenderSets, TypeOK, Placed, Orders
  <2>2. TypeOK'
    BY <1>3, <2>1 DEF SenderSets, set, TypeOK
  <2>3. Fresh' /\ Placed'
    BY <1>3 DEF SenderSets, set, TypeOK, Fresh, Placed
  <2>4. pos + 1 \notin got
    BY <1>0 DEF Placed
  <2>5. SentLeft'
    BY <1>3, <2>4, SentLeftGrows DEF SenderSets, set, TypeOK
  <2> QED BY <2>2, <2>3, <2>5
<1>4. CASE SenderWrites
  <2>1. pos + 1 \in Orders
    BY <1>4 DEF SenderWrites, TypeOK, Placed, Orders
  <2>2. ASSUME pos' = pos
        PROVE  TypeOK' /\ Fresh' /\ Placed'
    <3>1. /\ pending' = pending \ {pos + 1} /\ spc' = "ended"
          /\ failed' = failed + (OrdersToSend - pos)
          /\ UNCHANGED <<netVars, msg, failVars, sent, histVars>>
      BY <1>0, <1>4, <2>2 DEF SenderWrites, SenderGivesUp, remove
    <3>2. TypeOK'
      BY <1>0, <2>2, <3>1 DEF TypeOK
    <3>3. Fresh'
      BY <1>4, <3>1 DEF SenderWrites, Fresh
    <3>4. Placed'
      BY <1>0, <2>2, <3>1 DEF Placed
    <3> QED BY <3>2, <3>3, <3>4
  <2>3. ASSUME pos' # pos
        PROVE  TypeOK' /\ Fresh' /\ Placed'
    <3>1. /\ pos' = pos + 1 /\ spc' = "wait"
          /\ got' \in {got, got \cup {pos + 1}}
          /\ cancels' \in {cancels, cancels + 1}
          /\ UNCHANGED <<ctx, closed, broken, reading, wire, quiet, pending, msg,
                         failVars, sent, failed, overtaken>>
      BY <1>4, <2>3 DEF SenderWrites, SenderGivesUp
    <3>2. /\ pos' \in 1..OrdersToSend /\ got' \subseteq 1..pos' /\ got' \subseteq Orders
          /\ cancels' \in 0..OrdersToSend /\ cancels' <= pos'
      BY <1>0, <2>1, <3>1 DEF TypeOK, Placed, Orders
    <3>3. TypeOK'
      BY <3>1, <3>2 DEF TypeOK
    <3>4. pending' \subseteq 1..pos' /\ pos' + 1 \notin pending'
      BY <1>0, <3>1 DEF Placed
    <3>5. \A i \in 1..Len(wire') : wire'[i].counts => wire'[i].order \in got'
      BY <3>1 DEF Placed
    <3>6. Placed'
      BY <3>1, <3>2, <3>4, <3>5 DEF Placed
    <3>7. Fresh'
      BY <1>4, <3>1 DEF SenderWrites, Fresh
    <3> QED BY <3>3, <3>6, <3>7
  <2>4. TypeOK' /\ Fresh' /\ Placed'
    BY <2>2, <2>3
  <2>5. SentLeft'
    <3>1. got' \subseteq Orders /\ sent' = sent
      BY <1>4, <2>1 DEF SenderWrites, TypeOK
    <3>2. got \ pending \subseteq got' \ pending'
      BY <1>4 DEF SenderWrites, remove
    <3> QED BY <3>1, <3>2, SentLeftGrows
  <2> QED BY <2>4, <2>5
<1> QED
  BY <1>1, <1>2, <1>3, <1>4 DEF Sender

LEMMA ReceiverType ==
    ASSUME TypeInv, Receiver
    PROVE  TypeInv'
<1> USE BotAssumption DEF TypeInv, netVars, sendVars, failVars, histVars
<1>1. CASE ReceiverReads
  <2>1. /\ wire \in Seq(Report) /\ wire # <<>>
        /\ Head(wire) = wire[1] /\ 1 \in 1..Len(wire)
    BY <1>1 DEF ReceiverReads, TypeOK
  <2>2. Head(wire).counts => Head(wire).order \in got
    BY <2>1 DEF Placed
  <2>3. wire' \in Seq(Report) /\ Len(wire') <= MaxWire
    BY <1>1, <2>1 DEF ReceiverReads, TypeOK
  <2>4. \A i \in 1..Len(wire') : i + 1 \in 1..Len(wire) /\ wire'[i] = wire[i + 1]
    BY <1>1, <2>1 DEF ReceiverReads
  <2>5. Fresh'
    BY <1>1 DEF ReceiverReads, Fresh
  <2>6. Placed'
    <3>1. \A i \in 1..Len(wire') : wire'[i].counts => wire'[i].order \in got'
      BY <1>1, <2>4 DEF ReceiverReads, Placed
    <3>2. pending' \subseteq pending
      BY <1>1 DEF ReceiverReads, remove
    <3> QED
      BY <1>1, <3>1, <3>2 DEF ReceiverReads, Placed
  <2>7. CASE Head(wire).counts /\ Head(wire).order \in pending
    <3> DEFINE o == Head(wire).order
    <3>1. pending' = pending \ {o} /\ sent' = sent + 1 /\ got' = got
      BY <1>1, <2>7 DEF ReceiverReads, remove
    <3>2. got' \ pending' = (got \ pending) \cup {o} /\ o \notin got \ pending
      BY <2>2, <2>7, <3>1
    <3>3. Cardinality(got' \ pending') = Cardinality(got \ pending) + 1
      BY <3>2, Lengths, FS_AddElement
    <3>4. sent' <= Cardinality(got' \ pending')
      BY <3>1, <3>3, Lengths DEF SentLeft, TypeOK
    <3>5. got' \ pending' \in SUBSET Orders
      BY <3>1 DEF TypeOK
    <3>6. sent' \in 0..OrdersToSend
      BY <3>1, <3>4, <3>5, OrdersFinite DEF TypeOK
    <3>7. TypeOK'
      BY <1>1, <2>3, <3>1, <3>6 DEF ReceiverReads, TypeOK
    <3> QED
      BY <2>5, <2>6, <3>4, <3>7 DEF SentLeft
  <2>8. CASE ~(Head(wire).counts /\ Head(wire).order \in pending)
    <3>1. TypeOK'
      BY <1>1, <2>3, <2>8 DEF ReceiverReads, TypeOK
    <3>2. SentLeft'
      BY <1>1, <2>8, SentLeftGrows DEF ReceiverReads, TypeOK
    <3> QED
      BY <2>5, <2>6, <3>1, <3>2
  <2> QED BY <2>7, <2>8
<1>2. CASE ReceiverStops
  <2>1. TypeOK' /\ Fresh' /\ Placed'
    BY <1>2, Lengths DEF ReceiverStops, len, TypeOK, Fresh, Placed
  <2>2. SentLeft'
    BY <1>2, SentLeftGrows DEF ReceiverStops, TypeOK
  <2> QED BY <2>1, <2>2
<1>3. CASE ReceiverClears
  <2>1. TypeOK' /\ Fresh' /\ Placed'
    BY <1>3 DEF ReceiverClears, clear, TypeOK, Fresh, Placed
  <2>2. SentLeft'
    BY <1>3, SentLeftGrows DEF ReceiverClears, clear, TypeOK
  <2> QED BY <2>1, <2>2
<1> QED
  BY <1>1, <1>2, <1>3 DEF Receiver

LEMMA ControlType ==
    ASSUME TypeInv, Control
    PROVE  TypeInv'
<1> USE BotAssumption DEF TypeInv, netVars, sendVars, failVars, histVars
<1>1. ASSUME NEW k \in Orders, failExpiredPending(k)
      PROVE  TypeInv'
  <2>0. Cardinality(Expired(k)) \in Nat
    BY LengthAfterExpiry
  <2>1. failed' \in Nat /\ pending' \subseteq pending
    BY <1>1, <2>0 DEF failExpiredPending, TypeOK
  <2>2. TypeOK'
    BY <1>1, <2>1 DEF failExpiredPending, TypeOK
  <2>3. Fresh'
    BY <1>1, <2>1 DEF failExpiredPending, TypeOK, Fresh
  <2>4. Placed'
    BY <1>1, <2>1 DEF failExpiredPending, Placed
  <2>5. SentLeft'
    BY <1>1, <2>1, SentLeftGrows DEF failExpiredPending, TypeOK
  <2> QED BY <2>2, <2>3, <2>4, <2>5
<1>2. CASE ControlDrained \/ ControlStops \/ ControlCloses
  <2>0. Cardinality(pending) \in 0..OrdersToSend
    BY Lengths
  <2>1. TypeOK'
    <3>1. CASE ControlDrained
      BY <3>1 DEF ControlDrained, TypeOK
    <3>2. CASE ControlStops
      BY <2>0, <3>2 DEF ControlStops, len, TypeOK
    <3>3. CASE ControlCloses
      BY <3>3 DEF ControlCloses, TypeOK
    <3> QED BY <1>2, <3>1, <3>2, <3>3
  <2>3. Fresh' /\ Placed'
    BY <1>2 DEF ControlDrained, ControlStops, ControlCloses, Fresh, Placed
  <2>2. SentLeft'
    BY <1>2, SentLeftGrows DEF ControlDrained, ControlStops, ControlCloses, TypeOK
  <2> QED BY <2>1, <2>2, <2>3
<1>3. CASE ControlClears
  <2>1. TypeOK' /\ Fresh' /\ Placed'
    BY <1>3 DEF ControlClears, clear, TypeOK, Fresh, Placed
  <2>2. SentLeft'
    BY <1>3, SentLeftGrows DEF ControlClears, clear, TypeOK
  <2> QED BY <2>1, <2>2
<1> QED
  BY <1>1, <1>2, <1>3 DEF Control

\* What the bot's surroundings do leaves its table and its counters alone.
Surroundings ==
    \/ \E o \in Orders : EngineReports(o)
    \/ EngineStopsReading \/ EngineBreaks \/ ContextEnds \/ GraceElapses

LEMMA SurroundingsType ==
    ASSUME TypeInv, Surroundings
    PROVE  TypeInv'
<1> USE BotAssumption DEF TypeInv, netVars, sendVars, failVars, histVars
<1>1. ASSUME NEW o \in Orders, EngineReports(o)
      PROVE  TypeInv'
  <2>1. PICK c \in BOOLEAN :
            /\ c => o \in got
            /\ wire' = Append(wire, [order |-> o, counts |-> c])
    BY <1>1 DEF EngineReports
  <2>2. /\ wire \in Seq(Report) /\ [order |-> o, counts |-> c] \in Report
    BY DEF TypeOK, Report
  <2>3. /\ wire' \in Seq(Report) /\ Len(wire') = Len(wire) + 1 /\ Len(wire) \in Nat
        /\ Len(wire') <= MaxWire
    BY <1>1, <2>1, <2>2 DEF EngineReports
  <2>4. \A i \in 1..Len(wire') : wire'[i].counts => wire'[i].order \in got
    BY <1>1, <2>1, <2>2, <2>3 DEF EngineReports, Placed
  <2>5. TypeOK' /\ Fresh' /\ Placed'
    BY <1>1, <2>3, <2>4 DEF EngineReports, TypeOK, Fresh, Placed
  <2>6. SentLeft'
    BY <1>1, SentLeftGrows DEF EngineReports, TypeOK
  <2> QED BY <2>5, <2>6
<1>2. CASE EngineStopsReading \/ EngineBreaks \/ ContextEnds \/ GraceElapses
  <2>0. wire' \in {wire, <<>>}
    BY <1>2 DEF EngineStopsReading, EngineBreaks, ContextEnds, GraceElapses
  <2>1. /\ wire' \in Seq(Report) /\ Len(wire') <= MaxWire
        /\ \A i \in 1..Len(wire') : wire'[i].counts => wire'[i].order \in got
    <3>1. CASE wire' = wire
      BY <3>1 DEF TypeOK, Placed
    <3>2. CASE wire' = <<>>
      BY <3>2
    <3> QED BY <2>0, <3>1, <3>2
  <2>2. /\ ctx' \in BOOLEAN /\ reading' \in BOOLEAN
        /\ broken' \in BOOLEAN /\ closed' = closed
        /\ quiet' \in BOOLEAN
        /\ UNCHANGED <<got, pending, sendVars, failVars, sent, failed,
                       histVars>>
    BY <1>2 DEF EngineStopsReading, EngineBreaks, ContextEnds, GraceElapses, TypeOK
  <2>4. TypeOK' /\ Fresh' /\ Placed'
    BY <2>1, <2>2 DEF TypeOK, Fresh, Placed
  <2>3. SentLeft'
    BY <1>2, SentLeftGrows DEF EngineStopsReading, EngineBreaks, ContextEnds,
                               GraceElapses, TypeOK
  <2> QED BY <2>3, <2>4
<1> QED
  BY <1>1, <1>2 DEF Surroundings

LEMMA StutterType ==
    ASSUME TypeInv, UNCHANGED vars
    PROVE  TypeInv'
<1> USE DEF TypeInv, vars, netVars, sendVars, failVars, histVars
<1>1. TypeOK' /\ Fresh' /\ Placed'
  BY DEF TypeOK, Fresh, Placed
<1>2. SentLeft'
  BY SentLeftGrows DEF TypeOK
<1> QED BY <1>1, <1>2

LEMMA TypeStep ==
    ASSUME TypeInv, [Next]_vars
    PROVE  TypeInv'
  BY SenderType, ReceiverType, ControlType, SurroundingsType, StutterType
  DEF Next, Surroundings

LEMMA TypeInit ==
    ASSUME Init
    PROVE  TypeInv
<1>1. TypeOK /\ Fresh /\ Placed
  <2>1. wire \in Seq(Report) /\ Len(wire) = 0
    BY DEF Init
  <2>0. 0 \in 0..OrdersToSend /\ 0 <= MaxWire
    BY BotAssumption
  <2>2. TypeOK
    BY <2>0, <2>1 DEF Init, TypeOK
  <2>4. Fresh
    BY DEF Init, Fresh
  <2>3. Placed
    BY <2>1, BotAssumption DEF Init, Placed
  <2> QED BY <2>2, <2>3, <2>4
<1>2. SentLeft
  <2>1. got \ pending = {}
    BY DEF Init
  <2> QED
    BY <2>1, FS_EmptySet DEF Init, SentLeft
<1> QED BY <1>1, <1>2 DEF TypeInv

LEMMA TypeAlways == Spec => []TypeInv
  BY TypeInit, TypeStep, PTL DEF Spec

\* Every variable keeps its type; in particular the loop of the sender ends at
\* OrdersToSend, and no bot counts more orders as sent, or cancels more, than
\* it has (runBot, bot-fleet/runner.go).
THEOREM TypeCorrect == Spec => []TypeOK
  BY TypeAlways, PTL DEF TypeInv

\* However often the engine reports on an order, and whatever its status, the
\* receiver counts it as sent once, and only if the engine had read it: the
\* order leaves pendingAcks with its first counting report and does not come
\* back, since the sender enters only the order after the passed ones.
THEOREM NeverSentTwice == Spec => []SentOnce
<1>1. ASSUME TypeInv
      PROVE  SentOnce
  <2>1. got \ pending \in SUBSET got
    OBVIOUS
  <2>2. Cardinality(got \ pending) <= Cardinality(got)
    BY <1>1, <2>1, Lengths, FS_Subset DEF TypeInv
  <2> QED
    BY <1>1, <2>2, Lengths, BotAssumption DEF TypeInv, TypeOK, SentLeft, SentOnce
<1> QED
  BY <1>1, TypeAlways, PTL

-----------------------------------------------------------------------------
(* No order is lost between the goroutines.                                *)

LEMMA SenderCounts ==
    ASSUME TypeInv, Counted, Sender
    PROVE  Counted'
<1> USE BotAssumption DEF TypeInv, Counted, Account, Due
<1>0. /\ pos \in 0..OrdersToSend /\ failed \in Nat /\ sent \in Nat /\ cancels \in Nat
      /\ rlen \in Nat /\ clen \in Nat /\ Cardinality(pending) \in Nat
      /\ overtaken \in BOOLEAN /\ msg \in {"new", "cancel"}
  BY Lengths DEF TypeOK
<1>1. CASE Dial
  <2>1. /\ pending' = pending /\ sent' = 0 /\ cancels' = 0 /\ pos' = 0
        /\ \/ spc' = "wait" /\ rpc' = "read" /\ cpc' = "tick" /\ failed' = 0
           \/ spc' = "ended" /\ rpc' = "ended" /\ cpc' = "ended"
              /\ failed' = OrdersToSend
    BY <1>1 DEF Dial, Fresh, histVars
  <2> QED BY <1>0, <2>1
<1>2. CASE SenderWaits
  BY <1>0, <1>2 DEF SenderWaits, SenderGivesUp, failVars, histVars
<1>3. CASE SenderSets
  <2>1. pos + 1 \notin pending
    BY <1>3 DEF SenderSets, Placed
  <2>2. Cardinality(pending') = Cardinality(pending) + 1
    BY <1>3, <2>1, LengthAfterSet DEF SenderSets, set
  <2>3. msg = "new"
    BY <1>3 DEF SenderSets, Placed
  <2>4. ~overtaken' => ~overtaken /\ rpc' # "clear" /\ cpc' # "clear"
    BY <1>3 DEF SenderSets, failVars
  <2> QED
    BY <1>0, <1>3, <2>2, <2>3, <2>4 DEF SenderSets
<1>4. CASE SenderWrites
  <2>1. CASE pos' = pos
    <3>1. /\ pending' = pending \ {pos + 1} /\ spc' = "ended"
          /\ failed' = failed + (OrdersToSend - pos)
          /\ UNCHANGED <<failVars, sent, histVars>>
      BY <1>0, <1>4, <2>1 DEF SenderWrites, SenderGivesUp, remove, histVars
    <3>2. Cardinality(pending') =
            Cardinality(pending) - IF pos + 1 \in pending THEN 1 ELSE 0
      BY <3>1, LengthAfterRemove
    <3>3. pos + 1 \in pending => spc = "write" /\ msg = "new"
      BY DEF Placed
    <3>4. Cardinality(pending') \in Nat
      BY <3>1, OrdersFinite DEF TypeOK
    <3> QED
      BY <1>0, <1>4, <3>1, <3>2, <3>3, <3>4 DEF SenderWrites, failVars, histVars
  <2>2. CASE pos' # pos
    BY <1>0, <1>4, <2>2 DEF SenderWrites, SenderGivesUp, failVars
  <2> QED BY <2>1, <2>2
<1> QED
  BY <1>1, <1>2, <1>3, <1>4 DEF Sender

LEMMA ReceiverCounts ==
    ASSUME TypeInv, Counted, Receiver
    PROVE  Counted'
<1> USE BotAssumption DEF TypeInv, Counted, Account, Due
<1>0. /\ pos \in 0..OrdersToSend /\ failed \in Nat /\ sent \in Nat /\ cancels \in Nat
      /\ rlen \in Nat /\ clen \in Nat /\ Cardinality(pending) \in Nat
      /\ overtaken \in BOOLEAN
  BY Lengths DEF TypeOK
<1>1. CASE ReceiverReads
  <2>1. CASE Head(wire).counts /\ Head(wire).order \in pending
    <3>1. pending' = pending \ {Head(wire).order} /\ sent' = sent + 1
      BY <1>1, <2>1 DEF ReceiverReads, remove
    <3>2. Cardinality(pending') = Cardinality(pending) - 1
      BY <2>1, <3>1, LengthAfterRemove
    <3>3. UNCHANGED <<pos, msg, spc, rpc, cpc, rlen, clen, failed, cancels, overtaken>>
      BY <1>1 DEF ReceiverReads, sendVars, failVars, histVars
    <3>4. Account' = Account /\ Due' = Due /\ Cardinality(pending') <= Cardinality(pending)
      BY <1>0, <3>1, <3>2, <3>3
    <3> HIDE DEF Account, Due
    <3> QED
      BY <1>0, <3>2, <3>3, <3>4
  <2>2. CASE ~(Head(wire).counts /\ Head(wire).order \in pending)
    BY <1>0, <1>1, <2>2 DEF ReceiverReads, sendVars, failVars, histVars
  <2> QED BY <2>1, <2>2
<1>2. CASE ReceiverStops
  BY <1>0, <1>2 DEF ReceiverStops, len, sendVars, histVars
<1>3. CASE ReceiverClears
  BY <1>0, <1>3, LengthAfterClear DEF ReceiverClears, clear, sendVars, histVars
<1> QED
  BY <1>1, <1>2, <1>3 DEF Receiver

LEMMA ControlCounts ==
    ASSUME TypeInv, Counted, Control
    PROVE  Counted'
<1> USE BotAssumption DEF TypeInv, Counted, Account, Due
<1>0. /\ pos \in 0..OrdersToSend /\ failed \in Nat /\ sent \in Nat /\ cancels \in Nat
      /\ rlen \in Nat /\ clen \in Nat /\ Cardinality(pending) \in Nat
      /\ overtaken \in BOOLEAN
  BY Lengths DEF TypeOK
<1>1. ASSUME NEW k \in Orders, failExpiredPending(k)
      PROVE  Counted'
  <2>1. /\ Cardinality(Expired(k)) \in Nat
        /\ Cardinality(pending') = Cardinality(pending) - Cardinality(Expired(k))
    BY <1>1, LengthAfterExpiry DEF failExpiredPending
  <2> QED
    BY <1>0, <1>1, <2>1 DEF failExpiredPending, sendVars, failVars, histVars
<1>2. CASE ControlDrained \/ ControlCloses
  BY <1>0, <1>2 DEF ControlDrained, ControlCloses, sendVars, histVars
<1>3. CASE ControlStops
  BY <1>0, <1>3 DEF ControlStops, len, sendVars, histVars
<1>4. CASE ControlClears
  BY <1>0, <1>4, LengthAfterClear DEF ControlClears, clear, sendVars, histVars
<1> QED
  BY <1>1, <1>2, <1>3, <1>4 DEF Control

LEMMA CountedStep ==
    ASSUME TypeInv, Counted, [Next]_vars
    PROVE  Counted'
<1>1. CASE Surroundings \/ UNCHANGED vars
  BY <1>1 DEF Surroundings, EngineReports, EngineStopsReading, EngineBreaks,
              ContextEnds, GraceElapses, vars, sendVars, failVars, histVars, Counted,
              Account, Due
<1> QED
  BY <1>1, SenderCounts, ReceiverCounts, ControlCounts DEF Next, Surroundings

LEMMA LeftOverStep ==
    ASSUME TypeInv, LeftOver, [Next]_vars
    PROVE  LeftOver'
<1> USE DEF LeftOver, Drained
<1>0. pending \subseteq 1..(pos + 1) /\ pos \in Nat
  BY BotAssumption DEF TypeInv, TypeOK, Placed
<1>1. CASE Sender
  <2>1. CASE Dial
    BY <2>1 DEF Dial, TypeInv, Fresh, netVars
  <2>2. CASE SenderWaits
    BY <2>2 DEF SenderWaits, SenderGivesUp, netVars, failVars
  <2>3. CASE SenderSets
    BY <2>3 DEF SenderSets, set, netVars, failVars
  <2>4. CASE SenderWrites
    BY <2>4 DEF SenderWrites, SenderGivesUp, remove, failVars
  <2> QED BY <1>1, <2>1, <2>2, <2>3, <2>4 DEF Sender
<1>2. CASE Receiver
  <2>1. CASE ReceiverReads
    BY <2>1 DEF ReceiverReads, remove, sendVars, failVars
  <2>2. CASE ReceiverStops
    BY <2>2 DEF ReceiverStops, netVars, sendVars
  <2>3. CASE ReceiverClears
    BY <2>3 DEF ReceiverClears, clear, netVars, sendVars
  <2> QED BY <1>2, <2>1, <2>2, <2>3 DEF Receiver
<1>3. CASE Control
  <2>1. ASSUME NEW k \in Orders, failExpiredPending(k)
        PROVE  LeftOver'
    <3>1. /\ Expired(k) \subseteq pending /\ Expired(k) # {}
          /\ pending' = pending \ Expired(k)
      BY <2>1 DEF failExpiredPending, Expired
    <3> QED
      BY <2>1, <3>1 DEF failExpiredPending, netVars, sendVars, failVars
  <2>2. CASE ControlDrained
    BY <2>2 DEF ControlDrained, sendVars
  <2>3. CASE ControlStops
    BY <2>3 DEF ControlStops, netVars, sendVars
  <2>4. CASE ControlClears
    BY <2>4 DEF ControlClears, clear, netVars, sendVars
  <2>5. CASE ControlCloses
    BY <2>5 DEF ControlCloses, sendVars
  <2> QED BY <1>3, <2>1, <2>2, <2>3, <2>4, <2>5 DEF Control
<1>4. CASE Surroundings \/ UNCHANGED vars
  BY <1>4 DEF Surroundings, EngineReports, EngineStopsReading, EngineBreaks,
              ContextEnds, GraceElapses, vars, netVars, sendVars, failVars
<1> QED
  BY <1>1, <1>2, <1>3, <1>4 DEF Next, Surroundings

\* Whatever the connection and the context do, an order that is not a cancel
\* is counted at least once by the sender, the receiver or the control
\* goroutine, unless it was entered between the length and the clearing of a
\* failAllPending; an order is left in pendingAcks only where the context
\* ended and the connection broke as well (bot-fleet/runner.go).
THEOREM NoOrderLost == Spec => []NothingLost
<1> DEFINE LossInv == TypeInv /\ Counted /\ LeftOver
<1>1. Init => LossInv
  <2>1. ASSUME Init
        PROVE  Counted /\ LeftOver
    BY <2>1, FS_EmptySet DEF Init, Counted, Account, Due, LeftOver, Drained
  <2> QED BY <2>1, TypeInit
<1>2. LossInv /\ [Next]_vars => LossInv'
  BY TypeStep, CountedStep, LeftOverStep
<1>3. LossInv => NothingLost
  <2> SUFFICES ASSUME LossInv, Ended
               PROVE  /\ \/ sent + failed + Cardinality(pending)
                              >= OrdersToSend - cancels
                         \/ overtaken
                      /\ pending # {} => ctx /\ broken
    BY DEF NothingLost
  <2>1. ~overtaken => sent + failed + Cardinality(pending) + cancels >= OrdersToSend
    BY DEF Counted, Account, Due, Ended
  <2>2. /\ sent \in Nat /\ failed \in Nat /\ cancels \in Nat
        /\ Cardinality(pending) \in Nat
    BY Lengths DEF TypeInv, TypeOK
  <2>3. pending # {} => ctx /\ broken
    BY DEF LeftOver, Drained, Ended, TypeInv, TypeOK
  <2> QED BY <2>1, <2>2, <2>3, BotAssumption
<1> QED
  BY <1>1, <1>2, <1>3, PTL DEF Spec

-----------------------------------------------------------------------------
(* The count of an undisturbed bot is exact.                               *)

LEMMA UndisturbedStep ==
    ASSUME TypeInv, TypeInv', LeftOver, Undisturbed, [Next]_vars
    PROVE  Undisturbed'
<1> USE BotAssumption DEF Undisturbed, Account, Due, Drained
<1>0. /\ pos \in 0..OrdersToSend /\ failed \in Nat /\ sent \in Nat /\ cancels \in Nat
      /\ rlen \in Nat /\ clen \in Nat /\ Cardinality(pending) \in Nat
      /\ msg \in {"new", "cancel"} /\ (pending = {} => Cardinality(pending) = 0)
  <2>1. Cardinality({}) = 0
    BY FS_EmptySet
  <2>2. Cardinality(pending) \in 0..OrdersToSend
    BY Lengths DEF TypeInv
  <2>3. pending = {} => Cardinality(pending) = 0
    BY <2>1
  <2> QED BY <2>2, <2>3 DEF TypeInv, TypeOK
<1>a. SUFFICES ASSUME ~ctx', ~broken', ~Refused'
               PROVE  Undisturbed'
  OBVIOUS
<1>b. ~ctx /\ ~broken
  BY <1>a DEF Next, Sender, Receiver, Control, Dial, SenderWaits, SenderSets,
     SenderWrites, ReceiverReads, ReceiverStops, ReceiverClears,
     failExpiredPending, ControlDrained, ControlStops, ControlClears,
     ControlCloses, EngineReports, EngineStopsReading, EngineBreaks, ContextEnds,
     GraceElapses, vars, netVars
<1>1. CASE Sender
  <2>1. CASE Dial
    <3>1. /\ spc' = "wait" /\ rpc' = "read" /\ cpc' = "tick"
          /\ failed' = 0 /\ sent' = 0 /\ cancels' = 0 /\ pos' = 0
          /\ pending' = {} /\ ~closed'
      BY <1>a, <2>1 DEF Dial, TypeInv, Fresh, Refused, netVars, histVars
    <3> QED BY <3>1, FS_EmptySet
  <2>2. CASE SenderWaits
    BY <1>0, <1>b, <2>2 DEF SenderWaits, SenderGivesUp, Refused, netVars, failVars,
                            histVars
  <2>3. CASE SenderSets
    <3>1. pos + 1 \notin pending /\ msg = "new"
      BY <2>3 DEF SenderSets, TypeInv, Placed
    <3>2. Cardinality(pending') = Cardinality(pending) + 1
      BY <2>3, <3>1, LengthAfterSet DEF SenderSets, set, TypeInv
    <3> QED
      BY <1>0, <1>b, <2>3, <3>1, <3>2 DEF SenderSets, Refused, netVars, failVars
  <2>4. CASE SenderWrites
    BY <1>0, <1>b, <2>4 DEF SenderWrites, SenderGivesUp, Refused, failVars
  <2> QED BY <1>1, <2>1, <2>2, <2>3, <2>4 DEF Sender
<1>2. CASE Receiver
  <2>1. CASE ReceiverReads
    <3>1. CASE Head(wire).counts /\ Head(wire).order \in pending
      <4>1. pending' = pending \ {Head(wire).order} /\ sent' = sent + 1
        BY <2>1, <3>1 DEF ReceiverReads, remove
      <4>2. Cardinality(pending') = Cardinality(pending) - 1
        BY <3>1, <4>1, <1>0, LengthAfterRemove DEF TypeInv
      <4> QED
        BY <1>0, <1>b, <2>1, <4>1, <4>2 DEF ReceiverReads, Refused, sendVars,
                                            failVars, histVars
    <3>2. CASE ~(Head(wire).counts /\ Head(wire).order \in pending)
      BY <1>0, <1>b, <2>1, <3>2 DEF ReceiverReads, Refused, sendVars, failVars,
                                    histVars
    <3> QED BY <3>1, <3>2
  <2>2. CASE ReceiverStops
    BY <1>0, <1>b, <2>2 DEF ReceiverStops, Refused, len, netVars, sendVars, histVars
  <2>3. CASE ReceiverClears
    BY <1>0, <1>b, <2>3, FS_EmptySet DEF ReceiverClears, Refused, clear, netVars,
                                         sendVars, histVars
  <2> QED BY <1>2, <2>1, <2>2, <2>3 DEF Receiver
<1>3. CASE Control
  <2>1. ASSUME NEW k \in Orders, failExpiredPending(k)
        PROVE  Undisturbed'
    <3>1. /\ Cardinality(Expired(k)) \in Nat
          /\ Cardinality(pending') = Cardinality(pending) - Cardinality(Expired(k))
      BY <2>1, LengthAfterExpiry DEF failExpiredPending, TypeInv
    <3>2. pending # {} /\ pending' \subseteq pending
      BY <2>1 DEF failExpiredPending, Expired
    <3> QED
      BY <1>0, <1>b, <2>1, <3>1, <3>2 DEF failExpiredPending, Refused, netVars,
                                          sendVars, failVars, histVars
  <2>2. CASE ControlDrained
    BY <1>0, <1>b, <2>2 DEF ControlDrained, Refused, sendVars, histVars
  <2>3. CASE ControlStops \/ ControlClears \/ ControlCloses
    BY <1>b, <2>3 DEF ControlStops, ControlClears, ControlCloses, LeftOver
  <2> QED BY <1>3, <2>1, <2>2, <2>3 DEF Control
<1>4. CASE Surroundings \/ UNCHANGED vars
  BY <1>a, <1>b, <1>4 DEF Surroundings, EngineReports, EngineStopsReading,
     EngineBreaks, ContextEnds, GraceElapses, Refused, vars, netVars,
     sendVars, failVars, histVars
<1> QED
  BY <1>1, <1>2, <1>3, <1>4 DEF Next, Surroundings

\* A bot whose context and connection live on counts every order but its
\* cancels exactly once, as sent or as failed, although answers, expiries and
\* the end of the run race for each of them (bot-fleet/runner.go).
THEOREM CountIsExact == Spec => []ExactWhenUndisturbed
<1> DEFINE ExactInv == TypeInv /\ LeftOver /\ Undisturbed
<1>1. Init => ExactInv
  <2>1. ASSUME Init
        PROVE  LeftOver /\ Undisturbed
    BY <2>1, FS_EmptySet DEF Init, Undisturbed, Account, Due, LeftOver, Drained
  <2> QED BY <2>1, TypeInit
<1>2. ExactInv /\ [Next]_vars => ExactInv'
  BY TypeStep, LeftOverStep, UndisturbedStep
<1>3. ExactInv => ExactWhenUndisturbed
  <2> SUFFICES ASSUME ExactInv, Ended, ~ctx, ~broken
               PROVE  sent + failed = OrdersToSend - cancels
    BY DEF ExactWhenUndisturbed
  <2>1. /\ sent \in Nat /\ failed \in Nat /\ cancels \in Nat
        /\ (pending = {} => Cardinality(pending) = 0)
    <3>1. Cardinality({}) = 0
      BY FS_EmptySet
    <3>2. pending = {} => Cardinality(pending) = 0
      BY <3>1
    <3> QED BY <3>2 DEF TypeInv, TypeOK
  <2>2. CASE Refused
    BY <2>1, <2>2, BotAssumption DEF Refused
  <2>3. CASE ~Refused
    <3>1. pending = {} /\ Account = OrdersToSend
      BY <2>3 DEF Undisturbed, Due, Drained, Ended
    <3> QED BY <2>1, <3>1, BotAssumption DEF Account
  <2> QED BY <2>2, <2>3
<1> QED
  BY <1>1, <1>2, <1>3, PTL DEF Spec
=============================================================================
