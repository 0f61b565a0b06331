----------------------------- MODULE OrderBook -----------------------------
(***************************************************************************)
(* The limit order book (include/order_book.hpp, src/order_book.cpp).      *)
(*                                                                         *)
(* One thread calls add_order, cancel_order and modify_order.  A call that *)
(* does not match is one step.  add_order is a step that allocates and     *)
(* registers the order (BeginAdd), one step per fill of match() (MatchStep, *)
(* which ends in the trade callback), one for each move of the best price  *)
(* behind a level that a fill emptied (UpdateBest), and a step that rests  *)
(* what is left or returns (FinishAdd).  modify_order, when it increases   *)
(* the quantity, is a cancel and then the steps of an add.  No other call  *)
(* starts before one returns.                                              *)
(***************************************************************************)
EXTENDS Integers, Sequences

CONSTANTS
    kMaxPriceTicks,  \* prices are 0 .. kMaxPriceTicks - 1
    kMaxOrders,      \* pool slots, and entries of the order-id map
    OrderIds,        \* the ids the feed uses
    Quantities,      \* the quantities the feed uses
    nullptr,
    NoMessage,       \* no message to re-add
    NoReport         \* no trade in the last step

ASSUME BookAssumption ==
    /\ kMaxPriceTicks \in Nat \ {0}
    /\ kMaxOrders \in Nat \ {0}
    /\ OrderIds \subseteq Nat \ {0}
    /\ Quantities \subseteq Nat \ {0}

ASSUME NullAssumption ==
    /\ nullptr \notin 0 .. kMaxOrders - 1
    /\ NoMessage \notin [order_id : OrderIds, side : {"Buy", "Sell"},
                         price : 0 .. kMaxPriceTicks - 1,
                         quantity : Quantities]

VARIABLES
    orders,          \* slot -> the Order constructed there
    next, prev,      \* the Order's IntrusiveListNode
    head, tail, total_quantity, order_count,  \* buy_levels_, sell_levels_
    free_stack,      \* order_pool_
    order_map,       \* order_map_
    best,            \* best_bid_ and best_ask_
    incoming,        \* the order add_order is working on, or nullptr
    readd,           \* modify_order's local msg while it re-adds
    clock,           \* the next value of rdtsc() in add_order
    match_count, trade_volume,
    report           \* the TradeReport the step passed to trade_cb_

Side == {"Buy", "Sell"}
Price == 0 .. kMaxPriceTicks - 1
Level == Side \X Price
kInvalidPrice == -1
kInvalidOrderId == 0

LL == INSTANCE LimitLevel WITH Levels <- Level, Nodes <- 0 .. kMaxOrders - 1
Pool == INSTANCE MemoryPool WITH Capacity <- kMaxOrders
Slots == Pool!Slots

levelVars == <<next, prev, head, tail, total_quantity, order_count>>
callVars == <<incoming, readd>>
statVars == <<match_count, trade_volume>>
vars == <<orders, levelVars, free_stack, order_map, best, callVars, clock,
          statVars, report>>

-----------------------------------------------------------------------------
\* A default-constructed Order: what a slot without an order is taken to hold.
Blank == [id |-> kInvalidOrderId, side |-> "Buy", status |-> "Active",
          price |-> kInvalidPrice, quantity |-> 0, filled_quantity |-> 0,
          entry_nanos |-> 0]

AddMessage == [order_id : OrderIds, side : Side, price : Price,
               quantity : Quantities]

\* What the callback is given, as far as the book's own data goes.
TradeReport == [buy_order_id : OrderIds, sell_order_id : OrderIds,
                price : Price, quantity : Nat]

\* A step without a trade reports none.
ASSUME NoReportAssumption == NoReport \notin TradeReport

Opposite(s) == IF s = "Buy" THEN "Sell" ELSE "Buy"

\* On side s, price p has priority over price q.
Better(s, p, q) == IF s = "Buy" THEN p > q ELSE p < q

\* An order of side s limited to price limit trades at price p.  A mutant
\* does not trade at the limit itself.
AcceptsStrictly(s, limit, p) == IF s = "Buy" THEN p < limit ELSE p > limit

Accepts(s, limit, p) == IF s = "Buy" THEN p <= limit ELSE p >= limit

\* Where the map keeps an id; a mutant leaves the last entry out.
HashSlotShort(id) == id % (kMaxOrders - 1)

HashSlot(id) == id % kMaxOrders
Open(o) == o.quantity - o.filled_quantity
LevelOf(x) == <<orders[x].side, orders[x].price>>

\* Live orders: resting in the book, by what their slots hold.
Resting == {x \in Slots \ (Pool!FreeSlots \cup {incoming}) :
                orders[x].status # "Filled"}

\* update_best_bid / update_best_ask: scan side s from a price away from the
\* market for the first level that is not empty, given the level heads h.
\* Mutants end on the loop's last value of p, stop short of price 0, and do
\* not look whether a level is empty.
ScanBestPast(s, from, h) ==
    LET C == {p \in Price : ~ Better(s, p, from) /\ h[<<s, p>>] # nullptr}
    IN  IF C # {} THEN CHOOSE p \in C : \A q \in C : ~ Better(s, q, p)
        ELSE IF s = "Buy" THEN -1 ELSE kMaxPriceTicks

ScanBestShort(s, from, h) ==
    LET C == {p \in Price \ {0} : ~ Better(s, p, from) /\ h[<<s, p>>] # nullptr}
    IN  IF C = {} THEN kInvalidPrice
        ELSE CHOOSE p \in C : \A q \in C : ~ Better(s, q, p)

ScanBestBlind(s, from, h) == from

ScanBest(s, from, h) ==
    LET C == {p \in Price : ~ Better(s, p, from) /\ h[<<s, p>>] # nullptr}
    IN  IF C = {} THEN kInvalidPrice
        ELSE CHOOSE p \in C : \A q \in C : ~ Better(s, q, p)

-----------------------------------------------------------------------------
Init ==
    /\ orders = [x \in Slots |-> Blank]
    /\ LL!LevelInit
    /\ Pool!PoolInit
    /\ order_map = [h \in 0 .. kMaxOrders - 1 |-> nullptr]
    /\ best = [s \in Side |-> kInvalidPrice]
    /\ incoming = nullptr
    /\ readd = NoMessage
    /\ clock = 1
    /\ match_count = 0
    /\ trade_volume = 0
    /\ report = NoReport

\* No API call is running.
Idle == incoming = nullptr /\ readd = NoMessage

\* add_order up to the call of match(): without a pool slot it returns
\* nullptr, otherwise the order is built and registered under its hash slot,
\* whoever was registered there before.
BeginAdd(msg, o) ==
    /\ Pool!Acquire(o)
    /\ orders' = [orders EXCEPT ![o] =
                    [id |-> msg.order_id, side |-> msg.side,
                     status |-> "Active", price |-> msg.price,
                     quantity |-> msg.quantity, filled_quantity |-> 0,
                     entry_nanos |-> clock]]
    /\ order_map' = [order_map EXCEPT ![HashSlot(msg.order_id)] = o]
    /\ incoming' = o
    /\ clock' = clock + 1
    /\ report' = NoReport
    /\ UNCHANGED <<levelVars, best, readd, statVars>>

AddOrder(msg) ==
    /\ Idle
    /\ \E o \in Slots : BeginAdd(msg, o)

\* The pool is exhausted: add_order returns nullptr and changes nothing.
RejectAdd ==
    /\ Idle
    /\ Pool!Exhausted
    /\ report' = NoReport
    /\ UNCHANGED <<orders, levelVars, free_stack, order_map, best, callVars,
                   clock, statVars>>

\* The guard of match()'s loops for the incoming order o.
CanMatch(o) ==
    LET p == best[Opposite(o.side)]
    IN  /\ p # kInvalidPrice
        /\ Accepts(o.side, o.price, p)
        /\ o.quantity > o.filled_quantity

\* The level that the incoming order o takes from is empty: match() moves the
\* best price before it goes on, or returns.
Emptied(o) ==
    LET s == Opposite(o.side)
    IN  best[s] # kInvalidPrice /\ head[<<s, best[s]>>] = nullptr

Report(resting, aggressor, qty) ==
    [buy_order_id  |-> IF resting.side = "Buy" THEN resting.id ELSE aggressor.id,
     sell_order_id |-> IF resting.side = "Buy" THEN aggressor.id ELSE resting.id,
     price |-> resting.price, quantity |-> qty]

\* o after a fill of qty units.  A mutant misses the exact fill.
FilledPast(o, qty) ==
    [o EXCEPT !.filled_quantity = @ + qty,
              !.status = IF o.filled_quantity + qty > o.quantity
                         THEN "Filled" ELSE "PartiallyFilled"]

Filled(o, qty) ==
    [o EXCEPT !.filled_quantity = @ + qty,
              !.status = IF o.filled_quantity + qty >= o.quantity
                         THEN "Filled" ELSE "PartiallyFilled"]

\* An order leaves the map: its hash slot is cleared, whoever is registered
\* there.  A mutant forgets to.
StayMapped(id) == UNCHANGED order_map

Unmap(id) == order_map' = [order_map EXCEPT ![HashSlot(id)] = nullptr]

\* fill(resting, incoming, qty).  A filled resting order is unlinked, its hash
\* slot cleared and its pool slot released; the report is then built from the
\* destroyed object, whose bytes are still those before the release.
Fill(resting, qty) ==
    LET r == Filled(orders[resting], qty)
        l == LevelOf(resting)
    IN  /\ IF r.status = "Filled"
           THEN /\ LL!Remove(l, resting, qty + Open(r))
                /\ Unmap(r.id)
                /\ Pool!Release(resting)
           ELSE /\ LL!Reduce(l, qty)
                /\ UNCHANGED <<order_map, free_stack>>
        /\ orders' = [orders EXCEPT
                        ![resting] = IF r.status = "Filled" THEN Blank ELSE r,
                        ![incoming] = Filled(@, qty)]
        /\ match_count' = match_count + 1
        /\ trade_volume' = trade_volume + qty
        /\ report' = Report(orders[resting], orders[incoming], qty)

\* A fill of match(), against the head of the best level, up to the callback.
\* The inner loop's cursor is always the head: it only moves past an order that
\* was filled and unlinked.  The best price stays: the callback may see it name
\* a level that this fill has emptied.
MatchStep ==
    /\ incoming # nullptr
    /\ CanMatch(orders[incoming])
    /\ ~ Emptied(orders[incoming])
    /\ LET s == Opposite(orders[incoming].side)
           resting == head[<<s, best[s]>>]
           a == Open(orders[incoming])
           r == Open(orders[resting])
       IN  Fill(resting, IF r < a THEN r ELSE a)
    /\ UNCHANGED <<best, callVars, clock>>

\* match() looks at the level again, after the callback or at the head of its
\* loop, and leaves it behind if it is empty.
UpdateBest ==
    /\ incoming # nullptr
    /\ Emptied(orders[incoming])
    /\ LET s == Opposite(orders[incoming].side)
       IN  best' = [best EXCEPT ![s] = ScanBest(s, best[s], head)]
    /\ report' = NoReport
    /\ UNCHANGED <<orders, levelVars, free_stack, order_map, callVars, clock,
                   statVars>>

\* The end of add_order: rest_order(o) unless o is filled.  A filled incoming
\* order keeps its pool slot and its entry in the map.
FinishAdd ==
    /\ incoming # nullptr
    /\ ~ CanMatch(orders[incoming]) /\ ~ Emptied(orders[incoming])
    /\ LET o == orders[incoming]
       IN  IF o.status # "Filled"
           THEN /\ LL!PushBack(LevelOf(incoming), incoming, o.quantity)
                /\ best' = IF \/ best[o.side] = kInvalidPrice
                              \/ Better(o.side, o.price, best[o.side])
                           THEN [best EXCEPT ![o.side] = o.price] ELSE best
           ELSE UNCHANGED <<levelVars, best>>
    /\ incoming' = nullptr
    /\ readd' = NoMessage
    /\ report' = NoReport
    /\ UNCHANGED <<orders, free_stack, order_map, clock, statVars>>

\* cancel_order and modify_order find the order of this id in the map.
Found(id) ==
    LET o == order_map[HashSlot(id)]
    IN  /\ o # nullptr
        /\ orders[o].id = id
        /\ orders[o].status \in {"Active", "PartiallyFilled"}

\* cancel_order(id) of an order that is found.
Unbook(id) ==
    LET o == order_map[HashSlot(id)]
        s == orders[o].side
        p == orders[o].price
    IN  /\ Unmap(id)
        /\ LL!Remove(<<s, p>>, o, Open(orders[o]))
        /\ best' = IF head'[<<s, p>>] = nullptr /\ p = best[s]
                   THEN [best EXCEPT ![s] = ScanBest(s, p, head')] ELSE best
        /\ Pool!Release(o)
        /\ orders' = [orders EXCEPT ![o] = Blank]
        /\ report' = NoReport
        /\ UNCHANGED <<incoming, clock, statVars>>

CancelOrder(id) ==
    /\ Idle
    /\ Found(id)
    /\ Unbook(id)
    /\ UNCHANGED readd

\* o with q units open; a mutant forgets what is filled already.
ResizedGross(o, q) == [o EXCEPT !.quantity = q]

Resized(o, q) == [o EXCEPT !.quantity = o.filled_quantity + q]

\* modify_order to at most the open quantity: in place, in the same position.
ModifyDown(id, new_qty) ==
    LET o == order_map[HashSlot(id)]
    IN  /\ Idle
        /\ Found(id)
        /\ new_qty <= Open(orders[o])
        /\ LL!Reduce(LevelOf(o), Open(orders[o]) - new_qty)
        /\ orders' = [orders EXCEPT ![o] = Resized(@, new_qty)]
        /\ report' = NoReport
        /\ UNCHANGED <<free_stack, order_map, best, callVars, clock, statVars>>

\* The message modify_order builds; a mutant leaves the side at its default.
ReaddMessageNoSide(id, o, new_qty) ==
    [order_id |-> id, side |-> "Buy", price |-> o.price, quantity |-> new_qty]

ReaddMessage(id, o, new_qty) ==
    [order_id |-> id, side |-> o.side, price |-> o.price, quantity |-> new_qty]

\* modify_order to more than the open quantity: cancel, and build from the
\* destroyed order (its bytes are intact) the message to add again.
ModifyUp(id, new_qty) ==
    LET o == order_map[HashSlot(id)]
    IN  /\ Idle
        /\ Found(id)
        /\ new_qty > Open(orders[o])
        /\ Unbook(id)
        /\ readd' = ReaddMessage(id, orders[o], new_qty)

\* The add_order(msg) that modify_order then calls: the slot that the cancel
\* released is there to be acquired.
ReAdd ==
    /\ incoming = nullptr
    /\ readd # NoMessage
    /\ \E o \in Slots : BeginAdd(readd, o)

\* cancel_order and modify_order return early: nothing found.
Miss(id) ==
    /\ Idle
    /\ ~ Found(id)
    /\ report' = NoReport
    /\ UNCHANGED <<orders, levelVars, free_stack, order_map, best, callVars,
                   clock, statVars>>

Next ==
    \/ \E msg \in AddMessage : AddOrder(msg)
    \/ RejectAdd
    \/ MatchStep
    \/ UpdateBest
    \/ FinishAdd
    \/ \E id \in OrderIds : CancelOrder(id)
    \/ \E id \in OrderIds, q \in Quantities \cup {0} : ModifyDown(id, q)
    \/ \E id \in OrderIds, q \in Quantities : ModifyUp(id, q)
    \/ ReAdd
    \/ \E id \in OrderIds : Miss(id)

Spec == Init /\ [][Next]_vars

\* A call, once started, runs to its end: the matching thread is scheduled.
FairSpec == Spec /\ WF_vars(MatchStep \/ UpdateBest \/ FinishAdd \/ ReAdd)

-----------------------------------------------------------------------------
\* Type correctness of the book's state.
OrderType ==
    [id : OrderIds \cup {kInvalidOrderId}, side : Side,
     status : {"Active", "PartiallyFilled", "Filled"},
     price : Price \cup {kInvalidPrice}, quantity : Nat,
     filled_quantity : Nat, entry_nanos : Nat]

TypeOK ==
    /\ orders \in [Slots -> OrderType]
    /\ next \in [Slots -> Slots \cup {nullptr}]
    /\ prev \in [Slots -> Slots \cup {nullptr}]
    /\ head \in [Level -> Slots \cup {nullptr}]
    /\ tail \in [Level -> Slots \cup {nullptr}]
    /\ total_quantity \in [Level -> Int]
    /\ order_count \in [Level -> Int]
    /\ free_stack \in Seq(Slots)
    /\ order_map \in [0 .. kMaxOrders - 1 -> Slots \cup {nullptr}]
    /\ best \in [Side -> Price \cup {kInvalidPrice}]
    /\ incoming \in Slots \cup {nullptr}
    /\ readd \in AddMessage \cup {NoMessage}
    /\ clock \in Nat
    /\ match_count \in Nat
    /\ trade_volume \in Nat

\* The free stack never holds a slot twice, nor the slot of the order being
\* added: no sequence of fills, cancels and re-adds releases a slot twice.
PoolSound ==
    /\ \A i, j \in 1 .. Len(free_stack) :
            free_stack[i] = free_stack[j] => i = j
    /\ incoming \notin Pool!FreeSlots

\* The intrusive lists link exactly the live resting orders, each at its own
\* side and price: no list reaches a released slot, and no unlink in the
\* middle, at an end or of a last order leaves a stray pointer.
LinksSound == LL!WellLinked(Resting, LevelOf)

\* The trade being reported took the last order of side s's best level, and
\* match() has not looked at the level again.
JustEmptied(s) ==
    /\ incoming # nullptr
    /\ s = Opposite(orders[incoming].side)
    /\ report # NoReport
    /\ report.price = best[s]

\* The cached best bid and ask never lag behind the book: no level has priority
\* over the best one.  And the best level holds an order, between calls and all
\* through them but for one place: from a fill that empties it, through the
\* callback for this fill, until match() moves on.
BestExact ==
    \A s \in Side :
        /\ \A p \in Price :
              head[<<s, p>>] # nullptr =>
                best[s] # kInvalidPrice /\ ~ Better(s, p, best[s])
        /\ best[s] # kInvalidPrice =>
              head[<<s, best[s]>>] # nullptr \/ JustEmptied(s)

\* The book is never crossed: every resting buy is below every resting sell,
\* also between the fills of an order that is still matching.
NotCrossed ==
    \A b, a \in Resting :
        orders[b].side = "Buy" /\ orders[a].side = "Sell" =>
            orders[b].price < orders[a].price

\* The order-id map never dangles, even when ids collide: an entry points to
\* an order that is not released and whose id hashes to that entry.
MapSound ==
    \A h \in DOMAIN order_map :
        order_map[h] # nullptr =>
            /\ order_map[h] \notin Pool!FreeSlots
            /\ HashSlot(orders[order_map[h]].id) = h

\* No order is filled beyond its quantity, one that says Filled is, and the
\* incoming order says so as soon as it is.
FillsSound ==
    \A x \in Slots \ Pool!FreeSlots :
        LET o == orders[x]
        IN  /\ o.filled_quantity <= o.quantity
            /\ o.status = "Filled" => o.filled_quantity = o.quantity
            /\ x = incoming /\ o.filled_quantity = o.quantity =>
                 o.status = "Filled"

-----------------------------------------------------------------------------
\* The resting orders that a step fills, in part or in full.
Hit == {x \in Resting : \/ x \notin Resting'
                        \/ orders'[x].filled_quantity # orders[x].filled_quantity}

\* Price-time priority: whatever cancels, modifies and partial fills came
\* before, an order that is filled has the best price on its side, entered
\* before every other order resting at that price, and its price is within
\* the limit of the incoming order; the report names the two orders, at the
\* resting order's price, although the filled one is already destroyed.
TradePriority ==
    [][incoming # nullptr =>
        \A x \in Hit :
            /\ orders[x].side = Opposite(orders[incoming].side)
            /\ Accepts(orders[incoming].side, orders[incoming].price,
                       orders[x].price)
            /\ report'.price = orders[x].price
            /\ IF orders[x].side = "Buy"
               THEN /\ report'.buy_order_id = orders[x].id
                    /\ report'.sell_order_id = orders[incoming].id
               ELSE /\ report'.sell_order_id = orders[x].id
                    /\ report'.buy_order_id = orders[incoming].id
            /\ \A y \in Resting \ {x} :
                  orders[y].side = orders[x].side =>
                    /\ ~ Better(orders[x].side, orders[y].price, orders[x].price)
                    /\ orders[y].price = orders[x].price =>
                         orders[x].entry_nanos < orders[y].entry_nanos]_vars

\* Re-adding an order at its own price with a larger quantity never trades:
\* modify_order only moves the order behind its level.
ModifyNeverTrades ==
    [][readd # NoMessage => UNCHANGED statVars]_vars

\* Every call returns: match() consumes the incoming order or the levels it
\* crosses.
CallReturns == ~ Idle ~> Idle
============================================================================
