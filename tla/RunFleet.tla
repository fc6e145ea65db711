------------------------------ MODULE RunFleet ------------------------------
(***************************************************************************)
(* The goroutines of one RunFleet call (services/testing/runner.go) with   *)
(* the TCP adapter: one runner and one receiver per bot, the consumer with *)
(* its jitter buffer, the goroutine that closes eventChan, and the caller  *)
(* blocked in g.Wait().  The engine under test is part of the environment: *)
(* it answers orders with numbered reports and may crash at any moment.    *)
(*                                                                         *)
(* Orders and reports are reduced to what the synchronisation looks at: a  *)
(* report is its engine_seq_id and the side of the trade it is for.  What  *)
(* the validator does with a processed report, and timing figures, are     *)
(* left out.                                                               *)
(***************************************************************************)
EXTENDS Naturals, Sequences

CONSTANTS
    Bots,
    OrdersToSend,   \* per bot
    Cap,            \* capacity of eventChan (10000 in the code)
    MaxSeq,         \* bound on the engine's sequence numbers
    SharedFillIds   \* the engine numbers both reports of a fill alike

ASSUME FleetAssumption ==
    /\ OrdersToSend \in Nat
    /\ Cap \in Nat \ {0}
    /\ MaxSeq \in Nat
    /\ SharedFillIds \in BOOLEAN

VARIABLES
    up,         \* the engine is alive
    seq,        \* engine_seq_id of its youngest report
    orders,     \* per bot: orders the engine has not answered
    wire,       \* per bot: reports on its connection, not yet read
    botPc,      \* per bot: where its runner is
    toSend,     \* per bot: orders still to be sent
    arrived,    \* bots that called sendLoopsDone.Done()
    held,       \* per bot: the report its receiver is about to send (at most one)
    rcv,        \* per bot: whether the receiver runs
    eventChan, closed,
    delivered,  \* history: reports put on eventChan
    cons,       \* the consumer: "recv", "flush" or "returned"
    buf, next,  \* jitterBuffer, nextSeqID
    processed,  \* reports handed to the validator
    failed,     \* the errgroup holds an error
    cancelled,  \* the errgroup has cancelled gctx
    caller,     \* the caller's context is done
    ret         \* "running", "ok", "error", or "panic": the process died

vars == <<up, seq, orders, wire, botPc, toSend, arrived, held, rcv, eventChan,
          closed, delivered, cons, buf, next, processed, failed, cancelled,
          caller, ret>>
engineVars == <<up, seq, orders, wire>>
botVars    == <<botPc, toSend, arrived>>
rcvVars    == <<held, rcv>>
chanVars   == <<eventChan, closed, delivered>>
consVars   == <<cons, buf, next, processed>>
groupVars  == <<failed, cancelled, caller, ret>>

Reports == [id : 1..MaxSeq, side : {"taker", "maker"}]
Failure == [id |-> 0, side |-> "taker"]      \* PretestEvent{IsFailure: true}

TypeOK ==
    /\ up \in BOOLEAN
    /\ seq \in 0..MaxSeq
    /\ orders \in [Bots -> 0..OrdersToSend]
    /\ wire \in [Bots -> Seq(Reports)]
    /\ botPc \in [Bots -> {"init", "send", "report", "arrive", "wait", "close",
                           "returned"}]
    /\ toSend \in [Bots -> 0..OrdersToSend]
    /\ arrived \subseteq Bots
    /\ held \in [Bots -> SUBSET Reports]
    /\ rcv \in [Bots -> BOOLEAN]
    /\ eventChan \in Seq(Reports \cup {Failure}) /\ Len(eventChan) <= Cap
    /\ closed \in BOOLEAN
    /\ delivered \subseteq Reports
    /\ cons \in {"recv", "flush", "returned"}
    /\ buf \subseteq Reports
    /\ next \in 1..(MaxSeq + 1)
    /\ processed \subseteq Reports
    /\ failed \in BOOLEAN /\ cancelled \in BOOLEAN /\ caller \in BOOLEAN
    /\ ret \in {"running", "ok", "error", "panic"}

CtxDone == cancelled \/ caller        \* gctx.Done()

\* The bot's connection, as the engine sees it.
Open(b) == botPc[b] \notin {"init", "returned"}

-----------------------------------------------------------------------------
(* The engine under test.                                                  *)

Sent(w, c, rep) == IF Open(c) THEN [w EXCEPT ![c] = Append(@, rep)] ELSE w

\* The engine acknowledges, rejects or cancels an order of b.  A report for a
\* closed connection is lost.
EngineReply(b) ==
    /\ up /\ orders[b] > 0 /\ seq < MaxSeq
    /\ seq' = seq + 1
    /\ wire' = Sent(wire, b, [id |-> seq + 1, side |-> "taker"])
    /\ orders' = [orders EXCEPT ![b] = @ - 1]
    /\ UNCHANGED <<up, botVars, rcvVars, chanVars, consVars, groupVars>>

\* An order of b is filled: one report for each side, the maker's over the
\* connection of some bot c.  go_optimized numbers them one after the other
\* and answers over the maker's connection; cpp_basic numbers them alike and
\* answers over the taker's.
EngineFill(b, c) ==
    LET maker == IF SharedFillIds THEN seq + 1 ELSE seq + 2 IN
    /\ up /\ orders[b] > 0 /\ maker <= MaxSeq
    /\ seq' = maker
    /\ wire' = Sent(Sent(wire, b, [id |-> seq + 1, side |-> "taker"]),
                    c, [id |-> maker, side |-> "maker"])
    /\ orders' = [orders EXCEPT ![b] = @ - 1]
    /\ UNCHANGED <<up, botVars, rcvVars, chanVars, consVars, groupVars>>

\* Unread reports are lost on the connections that are reset.
EngineCrash ==
    /\ up
    /\ up' = FALSE
    /\ \E reset \in SUBSET Bots :
         wire' = [b \in Bots |-> IF b \in reset THEN <<>> ELSE wire[b]]
    /\ UNCHANGED <<seq, orders, botVars, rcvVars, chanVars, consVars,
                   groupVars>>

-----------------------------------------------------------------------------
(* Bot runners.                                                            *)

\* adapter.Init and StartReceiver.  A failing dial is the runner's error: it
\* cancels gctx, and the runner is gone without sendLoopsDone.Done().
Connect(b) ==
    /\ botPc[b] = "init"
    /\ \/ /\ up /\ ~CtxDone
          /\ botPc' = [botPc EXCEPT ![b] = "send"]
          /\ rcv' = [rcv EXCEPT ![b] = TRUE]
          /\ UNCHANGED <<failed, cancelled>>
       \/ /\ ~up \/ CtxDone
          /\ botPc' = [botPc EXCEPT ![b] = "returned"]
          /\ failed' = TRUE /\ cancelled' = TRUE
          /\ UNCHANGED rcv
    /\ UNCHANGED <<engineVars, toSend, arrived, held, chanVars, consVars,
                   caller, ret>>

\* One iteration of the send loop.  Once the engine is gone a write fails,
\* or is still swallowed by the socket buffer.
SendOrder(b) ==
    /\ botPc[b] = "send" /\ toSend[b] > 0
    /\ ~CtxDone
    /\ \/ /\ toSend' = [toSend EXCEPT ![b] = @ - 1]
          /\ orders' = [orders EXCEPT ![b] = IF up THEN @ + 1 ELSE @]
          /\ UNCHANGED botPc
       \/ /\ ~up
          /\ botPc' = [botPc EXCEPT ![b] = "report"]
          /\ UNCHANGED <<toSend, orders>>
    /\ UNCHANGED <<up, seq, wire, arrived, rcvVars, chanVars, consVars, groupVars>>

\* limiter.Wait(gctx) fails, or gctx is done after the scheduler's sleep:
\* return nil, again without sendLoopsDone.Done().
LeaveEarly(b) ==
    /\ botPc[b] = "send" /\ toSend[b] > 0
    /\ CtxDone
    /\ botPc' = [botPc EXCEPT ![b] = "close"]
    /\ UNCHANGED <<engineVars, toSend, arrived, rcvVars, chanVars, consVars,
                   groupVars>>

\* Mutant of ReportFailure: the event is sent without waiting for room.
ReportFailureUnbounded(b) ==
    /\ botPc[b] = "report"
    /\ eventChan' = Append(eventChan, Failure)
    /\ botPc' = [botPc EXCEPT ![b] = "arrive"]
    /\ UNCHANGED <<engineVars, toSend, arrived, rcvVars, closed, delivered,
                   consVars, groupVars>>

\* Mutant of ReportFailure: the select lost its case <-gctx.Done().
ReportFailureNoCtx(b) ==
    /\ botPc[b] = "report"
    /\ Len(eventChan) < Cap /\ eventChan' = Append(eventChan, Failure)
    /\ botPc' = [botPc EXCEPT ![b] = "arrive"]
    /\ UNCHANGED <<engineVars, toSend, arrived, rcvVars, closed, delivered,
                   consVars, groupVars>>

\* The failure event of a failed write, unless gctx is done; then break.
ReportFailure(b) ==
    /\ botPc[b] = "report"
    /\ \/ CtxDone /\ UNCHANGED eventChan
       \/ Len(eventChan) < Cap /\ eventChan' = Append(eventChan, Failure)
    /\ botPc' = [botPc EXCEPT ![b] = "arrive"]
    /\ UNCHANGED <<engineVars, toSend, arrived, rcvVars, closed, delivered,
                   consVars, groupVars>>

\* sendLoopsDone.Done()
Arrive(b) ==
    /\ botPc[b] = "arrive" \/ (botPc[b] = "send" /\ toSend[b] = 0)
    /\ arrived' = arrived \cup {b}
    /\ botPc' = [botPc EXCEPT ![b] = "wait"]
    /\ UNCHANGED <<engineVars, toSend, rcvVars, chanVars, consVars, groupVars>>

\* sendLoopsDone.Wait() and the grace period.
PassBarrier(b) ==
    /\ botPc[b] = "wait"
    /\ arrived = Bots
    /\ botPc' = [botPc EXCEPT ![b] = "close"]
    /\ UNCHANGED <<engineVars, toSend, arrived, rcvVars, chanVars, consVars,
                   groupVars>>

\* The deferred calls of a runner: adapter.Close(), botRunnersDone.Done().
CloseConn(b) ==
    /\ botPc[b] = "close"
    /\ botPc' = [botPc EXCEPT ![b] = "returned"]
    /\ wire' = [wire EXCEPT ![b] = <<>>]
    /\ UNCHANGED <<up, seq, orders, toSend, arrived, rcvVars, chanVars, consVars,
                   groupVars>>

-----------------------------------------------------------------------------
(* Receivers.  Nobody waits for them.                                      *)

ReadReport(b) ==
    /\ rcv[b] /\ held[b] = {}
    /\ wire[b] # <<>>
    /\ held' = [held EXCEPT ![b] = {Head(wire[b])}]
    /\ wire' = [wire EXCEPT ![b] = Tail(@)]
    /\ UNCHANGED <<up, seq, orders, botVars, rcv, chanVars, consVars, groupVars>>

\* The read fails: the connection is closed at one end or the other.
StopReceiver(b) ==
    /\ rcv[b] /\ held[b] = {}
    /\ wire[b] = <<>> /\ (~up \/ botPc[b] = "returned")
    /\ rcv' = [rcv EXCEPT ![b] = FALSE]
    /\ UNCHANGED <<engineVars, botVars, held, chanVars, consVars, groupVars>>

\* select { case <-ctx.Done(): return; case eventChan <- event: }.  Sending
\* on the closed channel panics, which ends the whole worker process.
Deliver(b) ==
    /\ rcv[b] /\ held[b] # {}
    /\ \/ /\ CtxDone
          /\ rcv' = [rcv EXCEPT ![b] = FALSE]
          /\ UNCHANGED <<eventChan, delivered, ret>>
       \/ /\ ~closed /\ Len(eventChan) < Cap
          /\ \E rep \in held[b] : eventChan' = Append(eventChan, rep)
          /\ delivered' = delivered \cup held[b]
          /\ UNCHANGED <<rcv, ret>>
       \/ /\ closed
          /\ ret' = "panic"
          /\ UNCHANGED <<rcv, eventChan, delivered>>
    /\ held' = [held EXCEPT ![b] = {}]
    /\ UNCHANGED <<engineVars, botVars, closed, consVars, failed, cancelled,
                   caller>>

-----------------------------------------------------------------------------
(* The consumer, the closing goroutine and the caller.                     *)

Ids(B) == {rep.id : rep \in B}

\* jitterBuffer[rep.id] = rep: a report of the same number is overwritten.
Store(B, rep) == {o \in B : o.id # rep.id} \cup {rep}

\* case ev := <-eventChan: a failure event is counted, a report is buffered
\* and the buffer drained up to the first number n that is missing.
Consume ==
    LET ev == Head(eventChan)
        B  == IF ev = Failure THEN buf ELSE Store(buf, ev)
    IN
    /\ cons = "recv" /\ eventChan # <<>>
    /\ eventChan' = Tail(eventChan)
    /\ \E n \in next..(MaxSeq + 1) :
         /\ n \notin Ids(B) /\ next..(n - 1) \subseteq Ids(B)
         /\ next' = n
         /\ processed' = processed \cup {rep \in B : rep.id \in next..(n - 1)}
         /\ buf' = {rep \in B : rep.id \notin next..(n - 1)}
    /\ UNCHANGED <<engineVars, botVars, rcvVars, closed, delivered, cons,
                   groupVars>>

\* case <-gctx.Done(): return nil, whatever is still buffered.
ConsumerCancelled ==
    /\ cons = "recv" /\ CtxDone
    /\ cons' = "returned"
    /\ UNCHANGED <<engineVars, botVars, rcvVars, chanVars, buf, next, processed,
                   groupVars>>

SeeClosed ==
    /\ cons = "recv" /\ closed /\ eventChan = <<>>
    /\ cons' = "flush"
    /\ UNCHANGED <<engineVars, botVars, rcvVars, chanVars, buf, next, processed,
                   groupVars>>

\* Mutant of Flush: the final drain stops at the first gap.
FlushStopsAtGap ==
    /\ cons = "flush"
    /\ \/ /\ next \in Ids(buf)
          /\ processed' = processed \cup {rep \in buf : rep.id = next}
          /\ buf' = {rep \in buf : rep.id # next}
          /\ next' = next + 1
          /\ UNCHANGED cons
       \/ /\ next \notin Ids(buf)
          /\ cons' = "returned"
          /\ UNCHANGED <<buf, next, processed>>
    /\ UNCHANGED <<engineVars, botVars, rcvVars, chanVars, groupVars>>

\* Mutant of Flush: the leftovers in the order of Go's map iteration.
FlushAnyOrder ==
    /\ cons = "flush"
    /\ \/ \E k \in buf :
            /\ processed' = processed \cup {k}
            /\ buf' = buf \ {k}
            /\ UNCHANGED <<cons, next>>
       \/ /\ buf = {}
          /\ cons' = "returned"
          /\ UNCHANGED <<buf, next, processed>>
    /\ UNCHANGED <<engineVars, botVars, rcvVars, chanVars, groupVars>>

\* The final drain, one iteration: process nextSeqID, or skip the gap before
\* the smallest buffered number, or give up when that number is stale.
Flush ==
    /\ cons = "flush"
    /\ \/ /\ next \in Ids(buf)
          /\ processed' = processed \cup {rep \in buf : rep.id = next}
          /\ buf' = {rep \in buf : rep.id # next}
          /\ next' = next + 1
          /\ UNCHANGED cons
       \/ /\ next \notin Ids(buf) /\ buf # {}
          /\ \E k \in Ids(buf) :
               /\ \A j \in Ids(buf) : k <= j
               /\ IF k > next THEN next' = k /\ UNCHANGED cons
                              ELSE cons' = "returned" /\ UNCHANGED next
          /\ UNCHANGED <<buf, processed>>
       \/ /\ buf = {}
          /\ cons' = "returned"
          /\ UNCHANGED <<buf, next, processed>>
    /\ UNCHANGED <<engineVars, botVars, rcvVars, chanVars, groupVars>>

AllReturned == \A b \in Bots : botPc[b] = "returned"

\* go func() { botRunnersDone.Wait(); close(eventChan) }()
CloseChannel ==
    /\ AllReturned /\ ~closed
    /\ closed' = TRUE
    /\ UNCHANGED <<engineVars, botVars, rcvVars, eventChan, delivered, consVars,
                   groupVars>>

\* g.Wait() returns and cancels gctx; the caller gets results or the error.
Return ==
    /\ ret = "running" /\ AllReturned /\ cons = "returned"
    /\ ret' = IF failed THEN "error" ELSE "ok"
    /\ cancelled' = TRUE
    /\ UNCHANGED <<engineVars, botVars, rcvVars, chanVars, consVars, failed, caller>>

\* The caller's context: shutdown of the worker, or another run failed.
CallerCancels ==
    /\ ret = "running" /\ ~caller
    /\ caller' = TRUE
    /\ UNCHANGED <<engineVars, botVars, rcvVars, chanVars, consVars, failed,
                   cancelled, ret>>

-----------------------------------------------------------------------------
Init ==
    /\ up = TRUE /\ seq = 0
    /\ orders = [b \in Bots |-> 0]
    /\ wire = [b \in Bots |-> <<>>]
    /\ botPc = [b \in Bots |-> "init"]
    /\ toSend = [b \in Bots |-> OrdersToSend]
    /\ arrived = {}
    /\ held = [b \in Bots |-> {}]
    /\ rcv = [b \in Bots |-> FALSE]
    /\ eventChan = <<>> /\ closed = FALSE /\ delivered = {}
    /\ cons = "recv" /\ buf = {} /\ next = 1 /\ processed = {}
    /\ failed = FALSE /\ cancelled = FALSE /\ caller = FALSE
    /\ ret = "running"

Engine ==
    \/ EngineCrash
    \/ \E b \in Bots : EngineReply(b) \/ \E c \in Bots : EngineFill(b, c)

Runner(b) ==
    \/ Connect(b) \/ SendOrder(b) \/ LeaveEarly(b) \/ ReportFailure(b)
    \/ Arrive(b) \/ PassBarrier(b) \/ CloseConn(b)

Receiver(b) == ReadReport(b) \/ StopReceiver(b) \/ Deliver(b)

Consumer == Consume \/ ConsumerCancelled \/ SeeClosed \/ Flush

\* A panic ends the process.
Next ==
    /\ ret # "panic"
    /\ \/ Engine
       \/ \E b \in Bots : Runner(b) \/ Receiver(b)
       \/ Consumer \/ CloseChannel \/ Return \/ CallerCancels

Spec == Init /\ [][Next]_vars

\* The Go scheduler runs every goroutine that can run: dials, and writes
\* under a 5 s deadline, return.  Nothing forces the engine to answer or to
\* crash.
Fairness ==
    /\ \A b \in Bots : WF_vars(ret # "panic" /\ Runner(b))
    /\ \A b \in Bots : WF_vars(ret # "panic" /\ Receiver(b))
    /\ WF_vars(ret # "panic" /\ Consumer)
    /\ WF_vars(ret # "panic" /\ CloseChannel)
    /\ WF_vars(ret # "panic" /\ Return)

FairSpec == Spec /\ Fairness

-----------------------------------------------------------------------------
(* Properties.                                                             *)

\* A run that is scored has validated every report that reached eventChan,
\* although reports of one engine sequence arrive over different connections
\* and numbers are missing after a crash: Flush skips the gaps.  This is about
\* engines that give every report a number of its own, as go_optimized does.
ReceivedProcessed ==
    (~SharedFillIds /\ ret = "ok" /\ ~caller) => delivered = processed

\* What docs/ARCHITECTURE_BLUEPRINT.md:286 says of the reference engines,
\* cpp_basic among them, which numbers the two reports of a match alike: the
\* validator gets the taker's and the maker's report of every match.
BothFillsValidated ==
    (ret = "ok" /\ ~caller) =>
        \A taker, maker \in delivered :
            taker.side = "taker" /\ maker.side = "maker" /\ taker.id = maker.id
            => {taker, maker} \subseteq processed

\* The validator replays reports in the order the engine issued them, through
\* normal draining and the final one, whatever order the connections and the
\* channel delivered them in.
ProcessedInEngineOrder ==
    [][\A k \in processed' \ processed : \A j \in processed : j.id < k.id]_vars

\* Some bot waits at sendLoopsDone for one that has left without arriving.
BarrierBroken ==
    /\ \E b \in Bots : botPc[b] = "wait"
    /\ \E b \in Bots \ arrived : botPc[b] \in {"close", "returned"}

\* RunFleet returns, with whatever mixture of crashes, full channels, failed
\* dials and cancellation, unless a bot left its send loop early (runner.go:
\* 436-443, 457-469) while another one waits at the barrier (runner.go:502),
\* or a late receiver hits the closed channel.
ReturnsUnlessBarrierBroken ==
    <>(ret # "running" \/ BarrierBroken)

\* "The `botRunnersDone` WaitGroup drains; `eventChan` is closed; the
\* telemetry consumer goroutine returns. `g.Wait()` completes."
\* (docs/DESIGN_SECTIONS.md:249-251, after the engine has crashed.)
WaitCompletesAfterCrash == ~up ~> (ret # "running" \/ caller)
=============================================================================
