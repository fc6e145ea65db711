-------------------------- MODULE ReferenceEngine --------------------------
(***************************************************************************)
(* The matching engine the repository ships as its reference submission    *)
(* (test_payloads/go_optimized/main.go).  handleOrder runs under the       *)
(* book's lock from the first statement to the last report it writes, so   *)
(* it is an operator from the book to the next book and its reports, in    *)
(* the order of their engine_seq_id.                                       *)
(***************************************************************************)
EXTENDS Integers, SequencesExt

CONSTANT BotOf     \* order id >> 32

\* Two slices, each sorted by price and then by arrival.
EmptyBook == [buyOrders |-> <<>>, sellOrders |-> <<>>]

Ack(id, status) == [order |-> id, status |-> status]
FillReport(id, qty, price, matchedWith) ==
    [order |-> id, status |-> "filled", qty |-> qty, price |-> price,
     with |-> matchedWith]

Against(side) == IF side = "buy" THEN "sellOrders" ELSE "buyOrders"
BookOf(side)  == IF side = "buy" THEN "buyOrders" ELSE "sellOrders"

\* The incoming order may trade with the resting one.
Tradable(o, ro) ==
    /\ o.type = "limit" => IF o.side = "buy" THEN ro.price <= o.price
                                             ELSE ro.price >= o.price
    /\ BotOf[ro.id] # BotOf[o.id]

\* The matching loop at the resting order ro: what is left of the incoming
\* quantity, the orders that stay, and the reports, the incoming order's first.
MatchNext(o, acc, ro) ==
    LET qty == IF ro.qty < acc.left THEN ro.qty ELSE acc.left
    IN  IF acc.left = 0 \/ ~Tradable(o, ro)
        THEN [acc EXCEPT !.orders = Append(@, ro)]
        ELSE [left |-> acc.left - qty,
              orders |-> IF qty = ro.qty THEN acc.orders
                         ELSE Append(acc.orders, [ro EXCEPT !.qty = @ - qty]),
              reports |-> acc.reports \o <<FillReport(o.id, qty, ro.price, ro.id),
                                           FillReport(ro.id, qty, ro.price, o.id)>>]

\* The acknowledgement, then the loop through the other side of the book.
Match(book, o) ==
    FoldLeft(LAMBDA acc, ro : MatchNext(o, acc, ro),
             [left |-> o.qty, orders |-> <<>>, reports |-> <<Ack(o.id, "accepted")>>],
             book[Against(o.side)])

\* Mutant of Insert: an order goes in front of the orders of its price.
InsertBefore(orders, o) ==
    LET NoBetter(ro) == IF o.side = "buy" THEN o.price >= ro.price
                                          ELSE o.price <= ro.price
        i == SelectInSeq(orders, NoBetter)
    IN  IF i = 0 THEN Append(orders, o) ELSE InsertAt(orders, i, o)

\* The quantity of the remaining order goes behind the orders of its price.
Insert(orders, o) ==
    LET Worse(ro) == IF o.side = "buy" THEN o.price > ro.price
                                       ELSE o.price < ro.price
        i == SelectInSeq(orders, Worse)
    IN  IF i = 0 THEN Append(orders, o) ELSE InsertAt(orders, i, o)

\* handleOrder for a cancel: the order leaves the book it rests in.
HandleCancel(book, id) ==
    LET Named(ro) == ro.id = id
        Rests(side) == \E i \in DOMAIN book[side] : Named(book[side][i])
        Removed(side) == [book |-> [book EXCEPT ![side] = RemoveFirstMatch(@, Named)],
                          reports |-> <<Ack(id, "cancelled")>>]
    IN  IF Rests("buyOrders") THEN Removed("buyOrders")
        ELSE IF Rests("sellOrders") THEN Removed("sellOrders")
        ELSE [book |-> book, reports |-> <<Ack(id, "rejected")>>]

\* handleOrder for a limit or market order.  What is left of a limit order
\* rests.
HandleOrder(book, o) ==
    LET end == Match(book, o)
        matched == [book EXCEPT ![Against(o.side)] = end.orders]
        next == IF end.left > 0 /\ o.type = "limit"
                THEN [matched EXCEPT ![BookOf(o.side)] =
                        Insert(@, [o EXCEPT !.qty = end.left])]
                ELSE matched
    IN  [book |-> next, reports |-> end.reports]
=============================================================================
