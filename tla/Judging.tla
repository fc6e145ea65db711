------------------------------ MODULE Judging ------------------------------
(***************************************************************************)
(* Judging the reference engine: bots send orders, the engine handles them *)
(* one at a time, and a consumer hands its reports to the validator        *)
(* (modules RunFleet and Telemetry are about how it restores their order). *)
(* There are two paths.  In a pretest the bots of RunFleet tell the        *)
(* validator of an order before they send it, reports come in engine       *)
(* order, and one may be lost or falsified, which is how the model asks    *)
(* whether the score notices.  In the distributed fleet the validator      *)
(* learns of an order from a record that its bot publishes after the       *)
(* write, a bot does not publish the acknowledgement of an order that has  *)
(* expired, and the consumer's jitter buffer passes over a delayed report  *)
(* and hands it over at the end.                                           *)
(***************************************************************************)
EXTENDS Integers, FiniteSets, Validator

CONSTANTS
    jitterGapThreshold, \* buffered events at which a gap is passed over (100)
    MaxCancels,   \* bound on the cancels the bots send
    MaxFaults,    \* bound on the reports lost or falsified
    MaxWithheld,  \* bound on the acknowledgements a fleet does not publish
    MaxLate       \* bound on the reports that are late at a time

ASSUME JudgingAssumption ==
    /\ jitterGapThreshold \in Nat /\ MaxCancels \in Nat /\ MaxFaults \in Nat
    /\ MaxWithheld \in Nat /\ MaxLate \in Nat

VARIABLES
    path,         \* "pretest" or "fleet"
    sent,         \* orders generated so far
    active,       \* activeOrders: limit orders not yet cancelled by their bot
    cancels,      \* cancels generated so far
    unpublished,  \* fleet: orders whose ORDER_SENT is not yet consumed
    inbox,        \* per bot: what the engine has not read from its connection
    book,         \* the engine's OrderBook
    reports,      \* reports on their way, in engine order
    shard,        \* the validator
    accepted,     \* acceptedOrders
    faults,       \* reports lost or falsified
    misreported,  \* one of them was a fill
    withheld,     \* fleet: orders whose acknowledgement was not published
    late,         \* fleet: reports that nextSeqID has passed
    flushed,      \* fleet: the consumer has handed over the late ones
    overtaken     \* fleet: one of them after a report it belonged before

botVars   == <<path, sent, active, cancels, unpublished>>
judgeVars == <<shard, accepted>>
faultVars == <<faults, misreported>>
lateVars  == <<late, flushed, overtaken>>
vars == <<botVars, inbox, book, reports, judgeVars, faultVars, withheld, lateVars>>

Bots == {BotOf[o] : o \in Orders}
Engine == INSTANCE ReferenceEngine WITH BotOf <- BotOf

ReportSet ==
    [order : Orders, status : {"accepted", "cancelled", "rejected"}]
    \cup [order : Orders, status : {"filled"}, qty : Nat, price : Nat,
          with : Orders]

TypeOK ==
    /\ sent \subseteq Orders /\ active \subseteq sent
    /\ path \in {"pretest", "fleet"}
    /\ cancels \in 0..MaxCancels
    /\ unpublished \subseteq OrderSet
    /\ inbox \in [Bots -> Seq(OrderSet \cup [id : Orders, type : {"cancel"}])]
    /\ book \in [buyOrders : Seq(OrderSet), sellOrders : Seq(OrderSet)]
    /\ reports \in Seq(ReportSet)
    /\ shard \in Shards
    /\ accepted \subseteq Orders
    /\ faults \in 0..MaxFaults
    /\ misreported \in BOOLEAN
    /\ withheld \subseteq Orders
    /\ late \in Seq(ReportSet)
    /\ flushed \in BOOLEAN /\ overtaken \in BOOLEAN

-----------------------------------------------------------------------------
(* The bots.                                                               *)

\* What a strategy can make of the next order id.  A market order has no
\* price that anything looks at.
NextOrders(id) ==
    {o \in OrderSet : o.id = id
        /\ (o.type = "market" => o.price = CHOOSE p \in Prices : TRUE)}

Generated(id) ==
    /\ id \in Orders \ sent
    /\ \A o \in Orders : o < id /\ BotOf[o] = BotOf[id] => o \in sent

Send(bot, msg) == inbox' = [inbox EXCEPT ![bot] = Append(@, msg)]

\* GenerateNextOrder, then ProcessOrder and SendOrder in a pretest; NextOrder
\* and the write in the fleet.  The consumer finishes after the bots.
SendOrder ==
    /\ ~flushed
    /\ \E id \in Orders : Generated(id) /\ \E o \in NextOrders(id) :
         /\ sent' = sent \cup {id}
         /\ active' = IF o.type = "limit" THEN active \cup {id} ELSE active
         /\ IF path = "pretest"
            THEN shard' = ProcessOrder(shard, o) /\ UNCHANGED unpublished
            ELSE unpublished' = unpublished \cup {o} /\ UNCHANGED shard
         /\ Send(BotOf[id], o)
    /\ UNCHANGED <<path, cancels, book, reports, accepted, faultVars, withheld,
                   lateVars>>

\* A cancel names the oldest active order of its bot.  A cancel of the fleet's
\* strategies names an id of its own, which the engine rejects and the bot,
\* having no such order pending, does not publish.  All that the validator
\* could notice of it is the gap at its number: reports wait behind it, as
\* they may before any ConsumeEvent, until the buffer is full (PassOver) or
\* the run is over (flushRemainingBuffer).
SendCancel ==
    /\ path = "pretest"
    /\ cancels < MaxCancels
    /\ cancels' = cancels + 1
    /\ \E id \in active :
         /\ \A o \in active : BotOf[o] = BotOf[id] => id <= o
         /\ active' = active \ {id}
         /\ Send(BotOf[id], [id |-> id, type |-> "cancel"])
    /\ UNCHANGED <<path, sent, unpublished, book, reports, judgeVars, faultVars,
                   withheld, lateVars>>

-----------------------------------------------------------------------------
(* The engine: handleConnection reads a message and calls handleOrder.     *)

\* The fleet's bot publishes every fill, and the acknowledgement, which comes
\* first, only when removePending finds the order: not when it has expired.
HandleMessage(bot) ==
    /\ inbox[bot] # <<>>
    /\ LET msg == Head(inbox[bot])
           r == IF msg.type = "cancel" THEN Engine!HandleCancel(book, msg.id)
                ELSE Engine!HandleOrder(book, msg)
       IN  /\ book' = r.book
           /\ \/ reports' = reports \o r.reports /\ UNCHANGED withheld
              \/ /\ path = "fleet" /\ r.reports # <<>>
                 /\ Cardinality(withheld) < MaxWithheld
                 /\ reports' = reports \o Tail(r.reports)
                 /\ withheld' = withheld \cup {msg.id}
    /\ inbox' = [inbox EXCEPT ![bot] = Tail(@)]
    /\ UNCHANGED <<botVars, judgeVars, faultVars, lateVars>>

-----------------------------------------------------------------------------
(* The consumers.                                                          *)

\* Mutant of Acknowledged: a fill acknowledges its order again.
AcknowledgedAgain(id) == ProcessAck(shard, id, "accepted")

\* A bot's own fill is an acknowledgement too, unless there was one.
Acknowledged(id) == IF id \in accepted THEN shard
                    ELSE ProcessAck(shard, id, "accepted")

Fill(r) == [qty |-> r.qty, price |-> r.price, with |-> r.with]

\* A fill that comes over another bot's connection acknowledges nothing: this
\* engine answers over the order's own, cpp_basic over the taker's.
processEvent ==
    /\ path = "pretest" /\ reports # <<>>
    /\ reports' = Tail(reports)
    /\ LET r == Head(reports) IN
         \/ /\ r.status = "filled"
            /\ \E own \in BOOLEAN :
                 IF own
                 THEN /\ shard' = ProcessFill(Acknowledged(r.order), r.order,
                                              Fill(r))
                      /\ accepted' = accepted \cup {r.order}
                 ELSE /\ shard' = ProcessFill(shard, r.order, Fill(r))
                      /\ UNCHANGED accepted
         \/ /\ r.status # "filled"
            /\ shard' = ProcessAck(shard, r.order, r.status)
            /\ accepted' = IF r.status = "accepted"
                           THEN accepted \cup {r.order} ELSE accepted
    /\ UNCHANGED <<botVars, inbox, book, faultVars, withheld, lateVars>>

\* processRecord for an ORDER_SENT record.  Nothing orders it with the answers
\* of the engine: the bot publishes it after the write, and a report goes
\* through the jitter buffer.
ConsumeOrderSent ==
    /\ \E o \in unpublished :
         /\ unpublished' = unpublished \ {o}
         /\ shard' = ProcessOrder(shard, o)
    /\ UNCHANGED <<path, sent, active, cancels, inbox, book, reports, accepted,
                   faultVars, withheld, lateVars>>

\* The validator may tell in which order it hears of two reports: of two
\* acknowledgements, and of two fills of one order.
TellsOrder(r, s) == IF r.status = "filled"
                    THEN s.status = "filled" /\ s.order = r.order
                    ELSE s.status # "filled"

\* drainJitterBuffer and flushRemainingBuffer for one event.
ConsumeEvent ==
    /\ path = "fleet" /\ reports # <<>>
    /\ reports' = Tail(reports)
    /\ LET r == Head(reports) IN
         /\ shard' = IF r.status = "filled"
                     THEN ProcessFill(shard, r.order, Fill(r))
                     ELSE ProcessAck(shard, r.order, r.status)
         /\ overtaken' = (overtaken \/ \E l \in ToSet(late) : TellsOrder(l, r))
    /\ UNCHANGED <<botVars, inbox, book, accepted, faultVars, withheld, late,
                   flushed>>

\* drainJitterBuffer at a number whose event is not there yet: it counts as
\* dropped when enough others are in the buffer, those that came too late
\* before among them.
PassOver ==
    /\ path = "fleet" /\ ~flushed
    /\ reports # <<>> /\ Len(late) < MaxLate
    /\ Len(late) + Len(Tail(reports)) >= jitterGapThreshold
    /\ late' = Append(late, Head(reports))
    /\ reports' = Tail(reports)
    /\ UNCHANGED <<botVars, inbox, book, judgeVars, faultVars, withheld, flushed,
                   overtaken>>

\* Mutant of flushRemainingBuffer: only what is still ahead is handed over.
flushRemainingBufferAhead ==
    /\ path = "fleet" /\ late # <<>>
    /\ unpublished = {} /\ \A b \in Bots : inbox[b] = <<>>
    /\ flushed' = TRUE
    /\ late' = <<>>
    /\ UNCHANGED <<botVars, inbox, book, reports, judgeVars, faultVars, withheld,
                   overtaken>>

\* All workers are done and nothing comes any more: what is in the buffer is
\* handed over by increasing number.
flushRemainingBuffer ==
    /\ path = "fleet" /\ late # <<>>
    /\ unpublished = {} /\ \A b \in Bots : inbox[b] = <<>>
    /\ flushed' = TRUE
    /\ late' = <<>>
    /\ reports' = late \o reports
    /\ UNCHANGED <<botVars, inbox, book, judgeVars, faultVars, withheld, overtaken>>

\* Reports that say other than the fill r.
Falsified(r) ==
    {[r EXCEPT !.qty = @ + 1]}
    \cup {[r EXCEPT !.price = p] : p \in Prices \ {r.price}}
    \cup {[r EXCEPT !.with = o] : o \in Orders \ {r.with}}

\* A report is lost with its connection, or the engine says a fill wrongly
\* or twice.
Misreport ==
    /\ path = "pretest"
    /\ faults < MaxFaults /\ reports # <<>>
    /\ faults' = faults + 1
    /\ LET r == Head(reports) IN
         /\ misreported' = (misreported \/ r.status = "filled")
         /\ \/ reports' = Tail(reports)
            \/ /\ r.status = "filled"
               /\ \/ reports' = <<r>> \o reports
                  \/ \E f \in Falsified(r) : reports' = <<f>> \o Tail(reports)
    /\ UNCHANGED <<botVars, inbox, book, judgeVars, withheld, lateVars>>

Init ==
    /\ path \in {"pretest", "fleet"}
    /\ sent = {} /\ active = {} /\ cancels = 0 /\ unpublished = {}
    /\ inbox = [b \in Bots |-> <<>>]
    /\ book = Engine!EmptyBook
    /\ reports = <<>>
    /\ shard = NewSymbolShard
    /\ accepted = {}
    /\ faults = 0 /\ misreported = FALSE
    /\ withheld = {} /\ late = <<>> /\ flushed = FALSE /\ overtaken = FALSE

Next == \/ SendOrder \/ SendCancel
        \/ \E b \in Bots : HandleMessage(b)
        \/ processEvent \/ Misreport
        \/ ConsumeOrderSent \/ ConsumeEvent
        \/ PassOver \/ flushRemainingBuffer

Spec == Init /\ [][Next]_vars

-----------------------------------------------------------------------------
(* Properties.                                                             *)

\* The validator has been told everything, by a complete and true account.
Told == faults = 0 /\ reports = <<>> /\ unpublished = {} /\ late = <<>>

\* The validator's book, in the engine's form.
Sorted(side) == InPriority(shard[side], side, Prices)

\* Whenever the validator of a pretest has been told everything, its order
\* book is the engine's, order by order and in the same priority: matching,
\* self-cross prevention, cancels and removal agree although one side keeps
\* trees of FIFO levels and the other sorted slices.
BooksAgree ==
    path = "pretest" /\ Told =>
        /\ Sorted("bids") = book.buyOrders
        /\ Sorted("asks") = book.sellOrders

\* A pretest scores the reference engine 100 at every moment at which the
\* validator has been told everything: nothing checkCleanup forgets, no
\* market order that finds no counterparty, no cancel that comes too late
\* costs a point.
HonestScoresFull == path = "pretest" /\ Told => FullScore(shard)

\* The fleet scores it 100 too, but for three things: an acknowledgement came
\* before the ORDER_SENT record of its order, one was not published although
\* its order traded, or the jitter buffer let an acknowledgement pass another
\* or a fill another of the same order.  Any other delay costs nothing.
FleetScoresUnlessDisturbed ==
    /\ path = "fleet" /\ Told
    /\ shard.unknownAcks = 0
    /\ \A o \in withheld : shard.actualFills[o] = <<>>
    /\ ~overtaken
    => FullScore(shard)

\* In particular, when every report was published and none was passed over.
FleetScoresInOrder ==
    /\ path = "fleet" /\ Told
    /\ shard.unknownAcks = 0 /\ withheld = {} /\ ~flushed
    => FullScore(shard)

\* One fill that is lost, repeated, or reported with another quantity, price
\* or counterparty costs points, whatever was traded before or after it.
MisreportCosts ==
    misreported /\ reports = <<>> => ~FullScore(shard)

\* Two orders that could trade rest in the validator's book only when they
\* belong to the same bot, also after reports were lost.
OnlySelfCrosses ==
    \A p, q \in Prices : \A b \in ToSet(shard.bids[p]), a \in ToSet(shard.asks[q]) :
        b.price >= a.price => isSelfCross(b.id, a.id)
=============================================================================
