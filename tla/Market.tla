------------------------------ MODULE Market ------------------------------
(***************************************************************************)
(* What the order book promises, without its data structures: a market of  *)
(* resting orders with price-time priority.  The book is a set; an order's *)
(* entry time says where it queues at its price.  OrderBook implements     *)
(* this specification (module OrderBookLedger).                            *)
(***************************************************************************)
EXTENDS Integers

CONSTANTS
    Orders,     \* the ids, sides and prices an order can have
    Sizes,      \* the quantities an order can be entered with
    NoOrder,
    NoTrade

VARIABLES
    book,       \* the resting orders
    taker,      \* the order being matched, or NoOrder
    amended,    \* the order withdrawn to be entered again, or NoOrder
    now,        \* the time of the next entry
    trade,      \* the trade reported by the last step, or NoTrade
    volume      \* the quantity traded so far

mvars == <<book, taker, amended, now, trade, volume>>

Opposed(x, y) == x.side # y.side

\* x trades before y, both on the same side: a better price, or the same
\* price and an earlier entry.
Before(x, y) ==
    \/ IF x.side = "Buy" THEN x.price > y.price ELSE x.price < y.price
    \/ x.price = y.price /\ x.entry < y.entry

\* The maker r may trade with the taker t at r's price.
Crosses(t, r) ==
    /\ Opposed(t, r)
    /\ IF t.side = "Buy" THEN r.price <= t.price ELSE r.price >= t.price

\* r is the first in line of its side.
First(r) == \A x \in book \ {r} : x.side = r.side => Before(r, x)

\* o becomes the taker, as the newest order of the market.
EnterAs(o, size) ==
    /\ taker' = [id |-> o.id, side |-> o.side, price |-> o.price,
                 open |-> size, entry |-> now]
    /\ now' = now + 1
    /\ trade' = NoTrade
    /\ UNCHANGED <<book, amended, volume>>

MInit ==
    /\ book = {}
    /\ taker = NoOrder
    /\ amended = NoOrder
    /\ now = 1
    /\ trade = NoTrade
    /\ volume = 0

Quiet == taker = NoOrder /\ amended = NoOrder

\* A new order arrives.
Enter(o, size) == Quiet /\ EnterAs(o, size)

\* The taker trades with the first in line of the other side, for as much as
\* both have open; a maker with nothing left is gone.
Trade(r) ==
    LET q == IF r.open < taker.open THEN r.open ELSE taker.open
        buy == IF r.side = "Buy" THEN r ELSE taker
        sell == IF r.side = "Buy" THEN taker ELSE r
    IN  /\ taker # NoOrder
        /\ taker.open > 0
        /\ r \in book
        /\ Crosses(taker, r)
        /\ First(r)
        /\ book' = (book \ {r}) \cup
                   (IF r.open > q THEN {[r EXCEPT !.open = @ - q]} ELSE {})
        /\ taker' = [taker EXCEPT !.open = @ - q]
        /\ trade' = [buy_order_id |-> buy.id, sell_order_id |-> sell.id,
                     price |-> r.price, quantity |-> q]
        /\ volume' = volume + q
        /\ UNCHANGED <<amended, now>>

\* The taker's last trade is done with, before it goes on.
Settle ==
    /\ taker # NoOrder
    /\ trade' = NoTrade
    /\ UNCHANGED <<book, taker, amended, now, volume>>

\* Nothing is left to trade with: what is open of the taker rests.
Rest ==
    /\ taker # NoOrder
    /\ taker.open = 0 \/ \A r \in book : ~ Crosses(taker, r)
    /\ book' = IF taker.open = 0 THEN book ELSE book \cup {taker}
    /\ taker' = NoOrder
    /\ amended' = NoOrder
    /\ trade' = NoTrade
    /\ UNCHANGED <<now, volume>>

\* An order is cancelled.
Withdraw(r) ==
    /\ Quiet
    /\ r \in book
    /\ book' = book \ {r}
    /\ trade' = NoTrade
    /\ UNCHANGED <<taker, amended, now, volume>>

\* An order keeps its place with no more open than before.
Reduce(r, size) ==
    /\ Quiet
    /\ r \in book
    /\ size <= r.open
    /\ book' = (book \ {r}) \cup {[r EXCEPT !.open = size]}
    /\ trade' = NoTrade
    /\ UNCHANGED <<taker, amended, now, volume>>

\* An order is to have more open: it leaves its place ...
Amend(r, size) ==
    /\ Quiet
    /\ r \in book
    /\ size > r.open
    /\ book' = book \ {r}
    /\ amended' = [id |-> r.id, side |-> r.side, price |-> r.price,
                   size |-> size]
    /\ trade' = NoTrade
    /\ UNCHANGED <<taker, now, volume>>

\* ... and enters again behind everything else.
Reenter ==
    /\ taker = NoOrder
    /\ amended # NoOrder
    /\ EnterAs(amended, amended.size)

\* A call that finds nothing to do.
Refuse ==
    /\ Quiet
    /\ trade' = NoTrade
    /\ UNCHANGED <<book, taker, amended, now, volume>>

MNext ==
    \/ \E o \in Orders, size \in Sizes : Enter(o, size)
    \/ \E r \in book : Trade(r)
    \/ Settle
    \/ Rest
    \/ \E r \in book : Withdraw(r)
    \/ \E r \in book : \E size \in 0 .. r.open : Reduce(r, size)
    \/ \E r \in book, size \in Sizes : Amend(r, size)
    \/ Reenter
    \/ Refuse

MSpec == MInit /\ [][MNext]_mvars
============================================================================
