------------------------------- MODULE BotRun -------------------------------
(***************************************************************************)
(* One bot of a fleet worker (runBot in bot-fleet/runner.go): the sender,  *)
(* the receiver and the control goroutine around the table of orders that  *)
(* wait for a report, and the two counters its BotResult ends with.        *)
(*                                                                         *)
(* An order is its position in the bot's sequence.  latencyCh is drained   *)
(* until the three goroutines have ended, so a result sent to it counts at *)
(* once.  The 16 shards of the pending table are locked one by one; what   *)
(* matters is that its length is read and the table cleared in two steps.  *)
(***************************************************************************)
EXTENDS Naturals, Sequences, FiniteSets

CONSTANTS
    OrdersToSend,
    MaxWire         \* bound: frames on their way from the engine (socket buffers)

ASSUME BotAssumption ==
    /\ OrdersToSend \in Nat \ {0}
    /\ MaxWire \in Nat \ {0}

VARIABLES
    ctx,        \* the fleet's context is done: deadline, cancel or another bot
    closed,     \* the bot has closed the connection
    broken,     \* the engine has
    reading,    \* the engine reads from its socket
    got,        \* orders the engine has read and may report on
    wire,       \* frames on their way: an order and whether the status counts
    quiet,      \* fillDrainGrace has passed since lastReportNs
    pending,    \* pendingAcks
    pos,        \* sender: orders passed
    msg,        \* sender: "new" or "cancel", the order in hand
    spc, rpc, cpc,  \* where the sender, the receiver and the control are
    rlen, clen,     \* lengths read by failAllPending of receiver and control
    sent, failed,   \* BotResult
    cancels,    \* history: cancels written
    overtaken   \* history: an order was entered between a length and its clear

netVars  == <<ctx, closed, broken, reading, got, wire, quiet>>
sendVars == <<pos, msg, spc>>
failVars == <<rpc, cpc, rlen, clen>>
histVars == <<cancels, overtaken>>
vars == <<netVars, pending, sendVars, failVars, sent, failed, histVars>>

Orders == 1..OrdersToSend
Report == [order : Orders, counts : BOOLEAN]

TypeOK ==
    /\ ctx \in BOOLEAN /\ reading \in BOOLEAN
    /\ closed \in BOOLEAN /\ broken \in BOOLEAN
    /\ got \subseteq Orders
    /\ wire \in Seq(Report) /\ Len(wire) <= MaxWire
    /\ quiet \in BOOLEAN
    /\ pending \subseteq Orders
    /\ pos \in 0..OrdersToSend
    /\ msg \in {"new", "cancel"}
    /\ spc \in {"dial", "wait", "set", "write", "ended"}
    /\ rpc \in {"dial", "read", "clear", "ended"}
    /\ cpc \in {"dial", "tick", "clear", "close", "ended"}
    /\ rlen \in 0..OrdersToSend /\ clen \in 0..OrdersToSend
    /\ sent \in 0..OrdersToSend
    /\ failed \in Nat
    /\ cancels \in 0..OrdersToSend
    /\ overtaken \in BOOLEAN

-----------------------------------------------------------------------------
(* The table of orders without an answer, and the kinds of messages.       *)

set(o)  == pending' = pending \cup {o}
remove(o) == pending' = pending \ {o}
len     == Cardinality(pending)
clear   == pending' = {}

\* Orders are entered in the order of their numbers, so the expired ones are
\* the first ones.
Expired(k) == {o \in pending : o <= k}

\* The strategies; every fifth message of momentum and a roll of noise cancel.
marketMakerOrder == {"new"}
momentumOrder    == {"new", "cancel"}
noiseOrder       == {"new", "cancel"}
NextOrder == marketMakerOrder \cup momentumOrder \cup noiseOrder

-----------------------------------------------------------------------------
(* The sender.                                                             *)

\* The bot dials before it starts its goroutines.
Dial ==
    /\ spc = "dial"
    /\ \/ /\ spc' = "wait" /\ rpc' = "read" /\ cpc' = "tick"
          /\ UNCHANGED failed
       \/ /\ spc' = "ended" /\ rpc' = "ended" /\ cpc' = "ended"
          /\ failed' = OrdersToSend
    /\ UNCHANGED <<netVars, pending, pos, msg, rlen, clen, sent, histVars>>

\* Mutant: the order in hand is not among the remaining ones.
SenderGivesUpAfter ==
    /\ failed' = failed + (OrdersToSend - pos - 1)
    /\ spc' = "ended"
    /\ UNCHANGED <<pos, msg>>

\* The order in hand and all that follow it are counted as failed.
SenderGivesUp ==
    /\ failed' = failed + (OrdersToSend - pos)
    /\ spc' = "ended"
    /\ UNCHANGED <<pos, msg>>

\* Mutant: the loop runs once more.
SenderWaitsOnceMore ==
    /\ spc = "wait"
    /\ \/ /\ pos > OrdersToSend
          /\ spc' = "ended"
          /\ UNCHANGED <<msg, failed>>
       \/ /\ pos <= OrdersToSend /\ ~ctx
          /\ msg' = "new" /\ spc' = "set"
          /\ UNCHANGED failed
    /\ UNCHANGED <<netVars, pending, pos, failVars, sent, histVars>>

\* strategy.Wait(ctx), then NextOrder.  Only new orders are entered in the
\* table; a cancel has an OrderID of its own, which the engine does not know.
SenderWaits ==
    /\ spc = "wait"
    /\ \/ /\ pos = OrdersToSend
          /\ spc' = "ended"
          /\ UNCHANGED <<pos, msg, failed>>
       \/ /\ pos < OrdersToSend /\ ctx
          /\ SenderGivesUp
       \/ /\ pos < OrdersToSend /\ ~ctx
          /\ msg' \in NextOrder
          /\ spc' = IF msg' = "new" THEN "set" ELSE "write"
          /\ UNCHANGED <<pos, failed>>
    /\ UNCHANGED <<netVars, pending, failVars, sent, histVars>>

SenderSets ==
    /\ spc = "set"
    /\ set(pos + 1)
    /\ spc' = "write"
    /\ overtaken' = (overtaken \/ rpc = "clear" \/ cpc = "clear")
    /\ UNCHANGED <<netVars, pos, msg, failVars, sent, failed, cancels>>

\* The write has no deadline: it blocks while the engine does not read.  On a
\* broken connection it may still be swallowed by the socket buffer.
SenderWrites ==
    /\ spc = "write"
    /\ \/ /\ ~closed /\ (reading \/ broken)
          /\ got' = IF ~broken /\ msg = "new" THEN got \cup {pos + 1} ELSE got
          /\ pos' = pos + 1
          /\ spc' = "wait"
          /\ cancels' = IF msg = "cancel" THEN cancels + 1 ELSE cancels
          /\ UNCHANGED <<pending, msg, failed>>
       \/ /\ closed \/ broken
          /\ remove(pos + 1)
          /\ SenderGivesUp
          /\ UNCHANGED <<got, cancels>>
    /\ UNCHANGED <<ctx, closed, broken, reading, wire, quiet, failVars, sent, overtaken>>

-----------------------------------------------------------------------------
(* The receiver.                                                           *)

\* Mutant: the order stays in the table.
ReceiverReadsOnly ==
    /\ rpc = "read" /\ ~closed /\ wire # <<>>
    /\ wire' = Tail(wire)
    /\ IF Head(wire).counts /\ Head(wire).order \in pending
       THEN sent' = sent + 1 ELSE UNCHANGED sent
    /\ quiet' = FALSE
    /\ UNCHANGED <<ctx, closed, broken, reading, got, pending, sendVars,
                   failVars, failed, histVars>>

\* A report counts its order once, while it is pending; reports with another
\* status, further fills of an order and frames that are no report count
\* nothing.  Every frame renews lastReportNs.
ReceiverReads ==
    /\ rpc = "read" /\ ~closed /\ wire # <<>>
    /\ wire' = Tail(wire)
    /\ IF Head(wire).counts /\ Head(wire).order \in pending
       THEN /\ remove(Head(wire).order)
            /\ sent' = sent + 1
       ELSE UNCHANGED <<pending, sent>>
    /\ quiet' = FALSE
    /\ UNCHANGED <<ctx, closed, broken, reading, got, sendVars, failVars, failed,
                   histVars>>

\* The read fails: failAllPending, which reads the length ...
ReceiverStops ==
    /\ rpc = "read"
    /\ closed \/ (broken /\ wire = <<>>)
    /\ rlen' = len
    /\ rpc' = "clear"
    /\ UNCHANGED <<netVars, pending, sendVars, cpc, clen, sent, failed, histVars>>

\* ... clears the table, and counts what it had read.
ReceiverClears ==
    /\ rpc = "clear"
    /\ clear
    /\ failed' = failed + rlen
    /\ rpc' = "ended"
    /\ UNCHANGED <<netVars, sendVars, cpc, rlen, clen, sent, histVars>>

-----------------------------------------------------------------------------
(* The control goroutine.                                                  *)

\* Mutant: expired orders are counted but not removed.
failExpiredPendingStays(k) ==
    /\ cpc = "tick" /\ Expired(k) # {} /\ failed < OrdersToSend
    /\ failed' = failed + Cardinality(Expired(k))
    /\ UNCHANGED <<netVars, pending, sendVars, failVars, sent, histVars>>

\* A tick finds that the orders up to k have waited for ackTimeout.
failExpiredPending(k) ==
    /\ cpc = "tick" /\ Expired(k) # {}
    /\ pending' = pending \ Expired(k)
    /\ failed' = failed + Cardinality(Expired(k))
    /\ UNCHANGED <<netVars, sendVars, failVars, sent, histVars>>

\* The time since the last frame reaches fillDrainGrace.
GraceElapses ==
    /\ ~quiet
    /\ quiet' = TRUE
    /\ UNCHANGED <<ctx, closed, broken, reading, got, wire, pending, sendVars, failVars,
                   sent, failed, histVars>>

\* A tick finds the bot finished and no frame for fillDrainGrace.
ControlDrained ==
    /\ cpc = "tick" /\ spc = "ended" /\ pending = {} /\ quiet
    /\ closed' = TRUE
    /\ cpc' = "ended"
    /\ UNCHANGED <<ctx, broken, reading, got, wire, quiet, pending, sendVars, rpc,
                   rlen, clen, sent, failed, histVars>>

\* ctx.Done(): failAllPending in two steps, then conn.Close().
ControlStops ==
    /\ cpc = "tick" /\ ctx
    /\ clen' = len
    /\ cpc' = "clear"
    /\ UNCHANGED <<netVars, pending, sendVars, rpc, rlen, sent, failed, histVars>>

ControlClears ==
    /\ cpc = "clear"
    /\ clear
    /\ failed' = failed + clen
    /\ cpc' = "close"
    /\ UNCHANGED <<netVars, sendVars, rpc, rlen, clen, sent, histVars>>

\* Mutant: the connection is left to the deferred Close of runBot.
ControlClosesLater ==
    /\ cpc = "close"
    /\ cpc' = "ended"
    /\ UNCHANGED <<netVars, pending, sendVars, rpc, rlen, clen, sent, failed,
                   histVars>>

ControlCloses ==
    /\ cpc = "close"
    /\ closed' = TRUE
    /\ cpc' = "ended"
    /\ UNCHANGED <<ctx, broken, reading, got, wire, quiet, pending, sendVars, rpc,
                   rlen, clen, sent, failed, histVars>>

-----------------------------------------------------------------------------
(* The engine and the rest of the fleet.                                   *)

\* It reports on an order it has read, again and again if it likes, with any
\* status, or sends a frame that reports on none (nobody looks at the order of
\* a frame that does not count).
EngineReports(o) ==
    /\ ~broken /\ ~closed /\ Len(wire) < MaxWire
    /\ \E c \in BOOLEAN :
         /\ IF c THEN o \in got ELSE o = 1
         /\ wire' = Append(wire, [order |-> o, counts |-> c])
    /\ UNCHANGED <<ctx, closed, broken, reading, got, quiet, pending, sendVars, failVars,
                   sent, failed, histVars>>

EngineStopsReading ==
    /\ reading /\ ~broken
    /\ reading' = FALSE
    /\ UNCHANGED <<ctx, closed, broken, got, wire, quiet, pending, sendVars, failVars, sent,
                   failed, histVars>>

\* The engine dies or closes; reports on their way may be lost.
EngineBreaks ==
    /\ ~broken /\ ~closed
    /\ broken' = TRUE
    /\ wire' \in {wire, <<>>}
    /\ UNCHANGED <<ctx, closed, reading, got, quiet, pending, sendVars, failVars,
                   sent, failed, histVars>>

ContextEnds ==
    /\ ~ctx
    /\ ctx' = TRUE
    /\ UNCHANGED <<closed, broken, reading, got, wire, quiet, pending, sendVars, failVars,
                   sent, failed, histVars>>

-----------------------------------------------------------------------------
Init ==
    /\ ctx = FALSE /\ closed = FALSE /\ broken = FALSE /\ reading = TRUE
    /\ got = {} /\ wire = <<>> /\ quiet = FALSE
    /\ pending = {}
    /\ pos = 0 /\ msg = "new"
    /\ spc = "dial" /\ rpc = "dial" /\ cpc = "dial" /\ rlen = 0 /\ clen = 0
    /\ sent = 0 /\ failed = 0
    /\ cancels = 0 /\ overtaken = FALSE

Sender   == Dial \/ SenderWaits \/ SenderSets \/ SenderWrites
Receiver == ReceiverReads \/ ReceiverStops \/ ReceiverClears
Control  == \/ \E k \in Orders : failExpiredPending(k)
            \/ ControlDrained \/ ControlStops \/ ControlClears \/ ControlCloses

Next ==
    \/ Sender \/ Receiver \/ Control \/ GraceElapses
    \/ \E o \in Orders : EngineReports(o)
    \/ EngineStopsReading \/ EngineBreaks \/ ContextEnds

Spec == Init /\ [][Next]_vars

\* The goroutines are scheduled, the ticker ticks, and time passes: when no
\* frame comes any more, fillDrainGrace elapses.
Fairness ==
    /\ WF_vars(Sender) /\ WF_vars(Receiver) /\ WF_vars(Control)
    /\ WF_vars(wire = <<>> /\ GraceElapses)
FairSpec == Spec /\ Fairness

-----------------------------------------------------------------------------
(* Properties.                                                             *)

Ended == spc = "ended" /\ rpc = "ended" /\ cpc = "ended"

\* Answers, expiries and the end of the run race for an order, and yet a bot
\* whose connection and context live on counts every order but its cancels
\* exactly once, as sent or as failed.  The cancels are why runFleet, which
\* compares OrdersFailed with OrdersToSend, does not see that a bot with
\* cancels got no answer at all.
ExactWhenUndisturbed ==
    Ended /\ ~ctx /\ ~broken => sent + failed = OrdersToSend - cancels

\* Whatever the connection and the context do, an order that is not a cancel
\* is counted at least once, unless it was entered between the two steps of
\* failAllPending, or was written to a broken connection while the context
\* ended: that one is still in the table when nobody looks at it any more.
NothingLost ==
    Ended =>
        /\ sent + failed + Cardinality(pending) >= OrdersToSend - cancels \/ overtaken
        /\ pending # {} => ctx /\ broken

\* However often the engine reports on an order, it is counted as sent once,
\* and only if the engine had received it.
SentOnce == sent <= Cardinality(got)

\* The sender is stuck in a write that nothing will end.
Blocked == spc = "write" /\ ~reading /\ ~broken /\ ~ctx

\* Nothing is left to do but to wait for fillDrainGrace without a frame.
Lingering == spc = "ended" /\ pending = {} /\ cpc = "tick" /\ ~ctx

\* A bot ends: a silent engine is timed out, a closed or broken connection
\* stops the receiver, a done context stops everybody.  An engine holds it
\* until the context ends in two ways only: it stops reading for good, or it
\* sends frames for ever to a bot that has nothing left to wait for, each of
\* which renews lastReportNs.
BotEnds ==
    \/ <>Ended
    \/ <>[]Blocked
    \/ <>[]Lingering /\ []<><<ReceiverReads>>_vars
=============================================================================
