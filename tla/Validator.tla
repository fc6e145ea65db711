----------------------------- MODULE Validator -----------------------------
(***************************************************************************)
(* The shadow validator (bot-fleet/shadow/validator.go): a reference order *)
(* book that replays the orders an engine acknowledged, the fills it       *)
(* expects from them, and the score of the fills that were reported.       *)
(*                                                                         *)
(* Every operation holds the shard's lock from start to end, so it is an   *)
(* operator from the shard's state v to its next state.  There is one      *)
(* shard: ProcessOrder and getShardForOrder name no symbol but BTCUSD.     *)
(* Counters that are written and never read are left out (missedFills,     *)
(* phantomFills), like the mismatch log.                                   *)
(***************************************************************************)
EXTENDS Integers, SequencesExt

CONSTANTS
    Orders,   \* order ids: consecutive numbers
    BotOf,    \* botID: the bot in the upper half of an order id
    Prices,
    MaxQty

ASSUME ValidatorAssumption ==
    /\ Orders \subseteq Nat /\ IsFiniteSet(Orders)
    /\ BotOf \in [Orders -> Nat \ {0}]
    /\ Prices \subseteq Nat \ {0} /\ IsFiniteSet(Prices)
    /\ MaxQty \in Nat \ {0}

OrderSet == [id : Orders, type : {"limit", "market"}, side : {"buy", "sell"},
             price : Prices, qty : 1..MaxQty]
FillSet  == [qty : Nat, price : Nat, with : Orders]

\* The state of NewSymbolShard.  A price level is the FIFO of its orders; a
\* level without orders is one the tree does not have.  checkCleanup adds
\* the same quantity to expectedQty, actualQty, priceCorrectQty and
\* priorityCorrectQty: matched is that sum.
NewSymbolShard ==
    [pendingOrders |-> {},
     bids |-> [p \in Prices |-> <<>>],
     asks |-> [p \in Prices |-> <<>>],
     expectedFills |-> [o \in Orders |-> <<>>],
     actualFills   |-> [o \in Orders |-> <<>>],
     matched |-> 0, expectedValue |-> 0,
     ackViolations |-> 0, duplicateOrders |-> 0, unknownAcks |-> 0]

Shards ==
    [pendingOrders : SUBSET OrderSet,
     bids : [Prices -> Seq(OrderSet)],
     asks : [Prices -> Seq(OrderSet)],
     expectedFills : [Orders -> Seq(FillSet)],
     actualFills : [Orders -> Seq(FillSet)],
     matched : Nat, expectedValue : Nat,
     ackViolations : Nat, duplicateOrders : Nat, unknownAcks : Nat]

Ids(book) == {o.id : o \in UNION {ToSet(book[p]) : p \in Prices}}

\* The keys of orderMap.
Resting(v) == Ids(v.bids) \cup Ids(v.asks)

IsPending(v, id) == \E o \in v.pendingOrders : o.id = id

isSelfCross(incoming, resting) == BotOf[incoming] = BotOf[resting]

Qty(fills)   == SumFunction([i \in DOMAIN fills |-> fills[i].qty])
Value(fills) == SumFunction([i \in DOMAIN fills |-> fills[i].qty * fills[i].price])

\* Consecutive fills with the same price and counterparty are one.
foldPartials(fills) ==
    LET Same(f, g) == f.price = g.price /\ f.with = g.with
        Fold(folded, f) ==
            IF folded # <<>> /\ Same(Last(folded), f)
            THEN [folded EXCEPT ![Len(folded)].qty = @ + f.qty]
            ELSE Append(folded, f)
    IN  FoldLeft(Fold, <<>>, fills)

\* Mutant of checkCleanup: it looks at quantities only.
checkCleanupByQty(v, id) ==
    LET expected == v.expectedFills[id]
    IN  IF \/ IsPending(v, id) \/ id \in Resting(v)
           \/ Qty(expected) # Qty(v.actualFills[id])
        THEN v
        ELSE [v EXCEPT !.matched = @ + Qty(expected),
                       !.expectedValue = @ + Value(expected),
                       !.expectedFills[id] = <<>>,
                       !.actualFills[id] = <<>>]

\* An order that can trade no more and whose fills are the expected ones is
\* moved into the counters and forgotten.
checkCleanup(v, id) ==
    LET expected == v.expectedFills[id]
    IN  IF \/ IsPending(v, id) \/ id \in Resting(v)
           \/ foldPartials(expected) # foldPartials(v.actualFills[id])
        THEN v
        ELSE [v EXCEPT !.matched = @ + Qty(expected),
                       !.expectedValue = @ + Value(expected),
                       !.expectedFills[id] = <<>>,
                       !.actualFills[id] = <<>>]

-----------------------------------------------------------------------------
(* The reference order book.                                               *)

Opposite(side) == IF side = "buy" THEN "asks" ELSE "bids"
Own(side)      == IF side = "buy" THEN "bids" ELSE "asks"

Crosses(o, price) == IF o.side = "buy" THEN o.price >= price
                                       ELSE o.price <= price

\* The elements of s that are in kept, in their order.
Only(s, kept) ==
    FoldLeft(LAMBDA t, x : IF x \in kept THEN Append(t, x) ELSE t, <<>>, s)

Without(level, id) == Only(level, {x \in OrderSet : x.id # id})

\* The levels of these prices one after the other, in the order of the tree's
\* iterator: the best price, then the levels of the others.
Best(side, ps) == IF side = "asks" THEN Min(ps) ELSE Max(ps)
InPriority(levels, side, ps) ==
    MapThenFoldSet(LAMBDA level, rest : level \o rest, <<>>,
                   LAMBDA p : levels[p], LAMBDA s : Best(side, s), ps)

Reached(o, useLimitPrice) == {p \in Prices : useLimitPrice => Crosses(o, p)}
Foreign(o) == {r \in OrderSet : ~isSelfCross(o.id, r.id)}

\* Mutant of Makers: a level is a stack.
MakersLIFO(v, o, useLimitPrice) ==
    LET side == Opposite(o.side)
    IN  InPriority([p \in Prices |-> Reverse(Only(v[side][p], Foreign(o)))],
                   side, Reached(o, useLimitPrice))

\* Mutant of Makers: the walk through a level ends at an order of the same bot.
MakersBreak(v, o, useLimitPrice) ==
    LET side == Opposite(o.side)
        Level(p) == LET own == SelectInSeq(v[side][p],
                                   LAMBDA r : isSelfCross(o.id, r.id))
                    IN  IF own = 0 THEN v[side][p]
                        ELSE SubSeq(v[side][p], 1, own - 1)
    IN  InPriority([p \in Prices |-> Level(p)], side, Reached(o, useLimitPrice))

\* The resting orders the nested loops of matchIncoming come to, in order.
Makers(v, o, useLimitPrice) ==
    LET side == Opposite(o.side)
    IN  InPriority([p \in Prices |-> Only(v[side][p], Foreign(o))],
                   side, Reached(o, useLimitPrice))

recordExpectedFill(v, id, qty, price, with) ==
    [v EXCEPT !.expectedFills[id] =
        Append(@, [qty |-> qty, price |-> price, with |-> with])]

\* o trades with the resting order r, which leaves the book when it is filled.
TradeWith(v, o, r, qty) ==
    LET side == Opposite(o.side)
        recorded == recordExpectedFill(
                        recordExpectedFill(v, o.id, qty, r.price, r.id),
                        r.id, qty, r.price, o.id)
    IN  IF qty = r.qty
        THEN checkCleanup([recorded EXCEPT ![side][r.price] = Without(@, r.id)], r.id)
        ELSE [recorded EXCEPT ![side][r.price] =
                 ReplaceAll(@, r, [r EXCEPT !.qty = @ - qty])]

\* The state after matching o, and what is left of o.
matchIncoming(v, o, useLimitPrice) ==
    LET Step(acc, r) ==
            LET qty == IF r.qty < acc.left THEN r.qty ELSE acc.left
            IN  IF acc.left = 0 THEN acc
                ELSE [v |-> TradeWith(acc.v, o, r, qty), left |-> acc.left - qty]
    IN  FoldLeft(Step, [v |-> v, left |-> o.qty], Makers(v, o, useLimitPrice))

addOrderToBook(v, o) == [v EXCEPT ![Own(o.side)][o.price] = Append(@, o)]

\* Mutant of matchLimitOrder: an order that is filled rests all the same.
matchLimitOrderRests(v, o) ==
    LET m == matchIncoming(v, o, TRUE)
    IN  addOrderToBook(m.v, [o EXCEPT !.qty = m.left])

matchLimitOrder(v, o) ==
    LET m == matchIncoming(v, o, TRUE)
    IN  IF m.left = 0 THEN m.v
        ELSE addOrderToBook(m.v, [o EXCEPT !.qty = m.left])

matchMarketOrder(v, o) == matchIncoming(v, o, FALSE).v

removeRestingOrder(v, id) ==
    LET Removed(book) == [p \in Prices |-> Without(book[p], id)]
    IN  [v EXCEPT !.bids = Removed(@), !.asks = Removed(@)]

-----------------------------------------------------------------------------
(* What the consumers of reports call.                                     *)

\* An order that is not a cancel; those change nothing here, and neither does
\* the checkCleanup at the end, which finds the order pending.
ProcessOrder(v, o) ==
    LET repeats == (IF IsPending(v, o.id) THEN 1 ELSE 0)
                   + (IF o.id \in Resting(v) THEN 1 ELSE 0)
    IN  [v EXCEPT !.duplicateOrders = @ + repeats,
                  !.pendingOrders = {p \in @ : p.id # o.id} \cup {o}]

ProcessAck(v, id, status) ==
    LET order == CHOOSE o \in v.pendingOrders : o.id = id
        acked == [v EXCEPT !.pendingOrders = @ \ {order}]
        next == CASE status = "cancelled" -> removeRestingOrder(v, id)
                  [] status # "cancelled" /\ ~IsPending(v, id) ->
                       IF status = "rejected" THEN v
                       ELSE [v EXCEPT !.unknownAcks = @ + 1]
                  [] OTHER ->
                       IF status # "accepted"
                       THEN [acked EXCEPT !.ackViolations = @ + 1]
                       ELSE IF order.type = "limit"
                       THEN matchLimitOrder(acked, order)
                       ELSE matchMarketOrder(acked, order)
    IN  checkCleanup(next, id)

ProcessFill(v, id, fill) ==
    checkCleanup([v EXCEPT !.actualFills[id] = Append(@, fill)], id)

-----------------------------------------------------------------------------
(* The score.                                                              *)

Smaller(a, b) == IF a < b THEN a ELSE b

\* The quantity filled at the expected prices, in any order.
matchingQtyByPrice(expected, actual) ==
    LET At(fills, p) == Qty(Only(fills, {f \in FillSet : f.price = p}))
    IN  SumFunction([p \in {f.price : f \in ToSet(expected)} |->
                        Smaller(At(expected, p), At(actual, p))])

\* The quantity filled by the expected trades in the expected order.
priorityMatchedQty(expected, actual) ==
    SumFunction([i \in {i \in DOMAIN expected :
                          i \in DOMAIN actual /\ actual[i] = expected[i]} |->
                    expected[i].qty])

Excess(a, b) == IF a > b THEN a - b ELSE 0

\* Every order is cleaned up before the fills are compared.
CleanedUp(v) == FoldSet(LAMBDA id, w : checkCleanup(w, id), v, Orders)

\* The score, from 0 to 100, as a fraction.
GetCorrectnessScore(shard) ==
    LET v == CleanedUp(shard)
        Exp(o) == foldPartials(v.expectedFills[o])
        Act(o) == foldPartials(v.actualFills[o])
        expectedQty == v.matched + SumFunction([o \in Orders |-> Qty(Exp(o))])
        actualQty == v.matched + SumFunction([o \in Orders |-> Qty(Act(o))])
        priceQty == v.matched
            + SumFunction([o \in Orders |-> matchingQtyByPrice(Exp(o), Act(o))])
        priorityQty == v.matched
            + SumFunction([o \in Orders |-> priorityMatchedQty(Exp(o), Act(o))])
        expectedValue == v.expectedValue
            + SumFunction([o \in Orders |-> Value(Exp(o))])
        valueDiff == SumFunction(
            [o \in {o \in Orders : v.expectedFills[o] # <<>>} |->
                Excess(Value(Exp(o)), Value(Act(o)))
                + Excess(Value(Act(o)), Value(Exp(o)))])
        phantomQty == SumFunction(
            [o \in Orders |-> Excess(Qty(Act(o)), Qty(Exp(o)))])
        faults == v.ackViolations + v.duplicateOrders + v.unknownAcks
        den == expectedQty * expectedValue
        num == 70 * Smaller(priceQty, expectedQty) * expectedValue
               + 20 * Smaller(priorityQty, expectedQty) * expectedValue
               + 10 * Excess(expectedValue, valueDiff) * expectedQty
               - 25 * Smaller(expectedQty, phantomQty) * expectedValue
               - 2 * faults * den
    IN  IF expectedQty = 0
        THEN [num |-> IF actualQty > 0 \/ faults > 0 THEN 0 ELSE 100, den |-> 1]
        ELSE [num |-> IF num < 0 THEN 0 ELSE Smaller(num, 100 * den), den |-> den]

FullScore(v) == LET s == GetCorrectnessScore(v) IN s.num = 100 * s.den
=============================================================================
