-------------------------- MODULE OrderBookLedger --------------------------
(***************************************************************************)
(* OrderBook with two history variables, the quantity that entered the     *)
(* book and the quantity that cancels and modifies took out again, and     *)
(* with ids that are all different, as the gateway's clients number them.  *)
(* The module states what the book owes its users: the accounts of its     *)
(* quantities, that every resting order is found by its id, and that the   *)
(* book implements Market.                                                 *)
(***************************************************************************)
EXTENDS OrderBook, FiniteSetsExt

VARIABLES entered, withdrawn

ledgerVars == <<vars, entered, withdrawn>>

OpenOf(id) == Open(orders[order_map[HashSlot(id)]])

Enters(q) == entered' = entered + q /\ UNCHANGED withdrawn
Withdraws(q) == withdrawn' = withdrawn + q /\ UNCHANGED entered

LedgerInit == Init /\ entered = 0 /\ withdrawn = 0

\* The steps by which a call that has begun goes on.
Running ==
    \/ ReAdd /\ Enters(readd.quantity)
    \/ MatchStep /\ UNCHANGED <<entered, withdrawn>>
    \/ UpdateBest /\ UNCHANGED <<entered, withdrawn>>
    \/ FinishAdd /\ UNCHANGED <<entered, withdrawn>>

LedgerNext ==
    \/ \E msg \in AddMessage :
          msg.order_id = clock /\ AddOrder(msg) /\ Enters(msg.quantity)
    \/ RejectAdd /\ UNCHANGED <<entered, withdrawn>>
    \/ \E id \in OrderIds : CancelOrder(id) /\ Withdraws(OpenOf(id))
    \/ \E id \in OrderIds, q \in Quantities \cup {0} :
          ModifyDown(id, q) /\ Withdraws(OpenOf(id) - q)
    \/ \E id \in OrderIds, q \in Quantities :
          ModifyUp(id, q) /\ Withdraws(OpenOf(id))
    \/ \E id \in OrderIds : Miss(id) /\ UNCHANGED <<entered, withdrawn>>
    \/ Running

LedgerSpec ==
    LedgerInit /\ [][LedgerNext]_ledgerVars /\ WF_ledgerVars(Running)

-----------------------------------------------------------------------------
\* The open quantity of the orders in S.
OpenIn(S) == MapThenSumSet(LAMBDA x : Open(orders[x]), S)

RestingAt(l) == {x \in Resting : LevelOf(x) = l}

\* No quantity is lost or made up: what entered was traded (a trade takes its
\* quantity from two orders), was withdrawn, or is still open.
Conservation ==
    entered = 2 * trade_volume + withdrawn
                + OpenIn(Resting \cup ({incoming} \ {nullptr}))

\* A level counts its resting orders.
CountExact == \A l \in Level : order_count[l] = Cardinality(RestingAt(l))

\* A level's total never understates what rests there.
TotalCovers == \A l \in Level : total_quantity[l] >= OpenIn(RestingAt(l))

\* While the ids do not collide in the map, cancel_order and modify_order find
\* every resting order: no fill, cancel or re-add removes another's entry.
MapComplete ==
    \A x \in Resting : order_map[HashSlot(orders[x].id)] = x

-----------------------------------------------------------------------------
(***************************************************************************)
(* The refinement mapping to Market: the book's orders are the live slots. *)
(***************************************************************************)
OrderView(x) == [id |-> orders[x].id, side |-> orders[x].side,
                 price |-> orders[x].price, open |-> Open(orders[x]),
                 entry |-> orders[x].entry_nanos]

\* nullptr stands for an absent order and is none.
ASSUME ViewAssumption ==
    /\ nullptr \notin [id : OrderIds, side : Side, price : Price,
                       open : Nat, entry : Nat]
    /\ nullptr \notin [id : OrderIds, side : Side, price : Price,
                       size : Quantities]

Mkt == INSTANCE Market WITH
    Orders <- [id : OrderIds, side : Side, price : Price],
    Sizes <- Quantities,
    NoOrder <- nullptr,
    NoTrade <- NoReport,
    book <- {OrderView(x) : x \in Resting},
    taker <- IF incoming = nullptr THEN nullptr ELSE OrderView(incoming),
    amended <- IF readd = NoMessage THEN nullptr
               ELSE [id |-> readd.order_id, side |-> readd.side,
                     price |-> readd.price, size |-> readd.quantity],
    now <- clock,
    trade <- report,
    volume <- trade_volume

\* The book is a market with price-time priority: linked lists, cached best
\* prices, the id map and the pool together trade as Market says.
ImplementsMarket == Mkt!MSpec

-----------------------------------------------------------------------------
(***************************************************************************)
(* What the repository's documentation and tests say and the code does not *)
(* do.                                                                     *)
(***************************************************************************)
\* order_count() is the number of live orders (tests/test_order_book.cpp: an
\* order that is filled is no longer counted).
OrderCountIsLive ==
    Idle => kMaxOrders - Len(free_stack) = Cardinality(Resting)

\* A level's total is the open quantity that rests there (types.hpp: "sum of
\* all resting order quantities").
TotalExact == \A l \in Level : total_quantity[l] = OpenIn(RestingAt(l))

\* modify_order preserves the time of an order (order_book.hpp): orders queue
\* at their level by when they first arrived, which is how ids are numbered.
ModifyPreservesTime ==
    \A x \in Resting : next[x] # nullptr => orders[x].id < orders[next[x]].id
============================================================================
