---------------------------- MODULE MarketProofs ----------------------------
(***************************************************************************)
(* The order book implements Market, for every value of the constants and  *)
(* whatever the ids of the orders are: the proof that the mapping of       *)
(* OrderBookLedger takes the initial state of the book to that of Market   *)
(* and every step of the book to a step of Market, or to no step at all.   *)
(***************************************************************************)
EXTENDS OrderBookLedgerProofs

-----------------------------------------------------------------------------
(***************************************************************************)
(* What Market sees of the book.                                           *)
(***************************************************************************)
MOrder == [id : OrderIds, side : Side, price : Price, open : Nat, entry : Nat]
MAmend == [id : OrderIds, side : Side, price : Price, size : Quantities]

MBook == {OrderView(x) : x \in Resting}
MTaker == IF incoming = nullptr THEN nullptr ELSE OrderView(incoming)
AmendOf(msg) == [id |-> msg.order_id, side |-> msg.side, price |-> msg.price,
                 size |-> msg.quantity]
MAmended == IF readd = NoMessage THEN nullptr ELSE AmendOf(readd)

\* The views are orders, and nullptr is none.
LEMMA ViewFacts ==
    ASSUME IInv
    PROVE  /\ \A x \in Live : OrderView(x) \in MOrder
           /\ incoming # nullptr => incoming \in Live
           /\ MTaker = nullptr <=> incoming = nullptr
           /\ MAmended = nullptr <=> readd = NoMessage
           /\ clock \in Nat /\ trade_volume \in Nat
<1> USE BookFacts, NullFacts
<1>1. \A x \in Live : x \in Slots /\ orders[x].entry_nanos \in Nat
    BY DEF Live, OrderType
<1>2. \A x \in Live : OrderView(x) \in MOrder
    BY <1>1 DEF Live, OrderView, MOrder
<1>3. incoming # nullptr => incoming \in Live
    BY DEF Live
<1>4. nullptr \notin MOrder /\ nullptr \notin MAmend
    BY ViewAssumption DEF MOrder, MAmend
<1>5. readd # NoMessage => AmendOf(readd) \in MAmend
    BY DEF IInv, TypeOK, AddMessage, AmendOf, MAmend
<1>6. clock \in Nat /\ trade_volume \in Nat
    BY DEF IInv, TypeOK
<1> QED BY <1>2, <1>3, <1>4, <1>5, <1>6 DEF MTaker, MAmended

\* Orders that are live at the same time entered at different times.
EntriesApart ==
    \A x, y \in Live : orders[x].entry_nanos = orders[y].entry_nanos => x = y

\* An add makes one more order live; nothing else does, or changes an order
\* in anything but its quantities.
LEMMA LiveSteps ==
    ASSUME IInv, [Next]_vars
    PROVE  \/ /\ Live' \subseteq Live
              /\ \A x \in Live' : SameOrder(orders'[x], orders[x])
           \/ \E o \in Slots \ Live :
                /\ Live' = Live \cup {o}
                /\ orders'[o].entry_nanos = clock
                /\ \A x \in Live : orders'[x] = orders[x]
<1> DEFINE Fewer == /\ Live' \subseteq Live
                    /\ \A x \in Live' : SameOrder(orders'[x], orders[x])
           More == \E o \in Slots \ Live :
                     /\ Live' = Live \cup {o}
                     /\ orders'[o].entry_nanos = clock
                     /\ \A x \in Live : orders'[x] = orders[x]
<1> SUFFICES Fewer \/ More
    OBVIOUS
<1> USE BookFacts, NullFacts
<1>0. Live \subseteq Slots
    BY DEF Live
<1>1. ASSUME NEW msg \in AddMessage, NEW o, incoming = nullptr, BeginAdd(msg, o)
      PROVE  More
    <2>1. /\ o \in Slots \ Resting /\ Resting' = Resting /\ incoming' = o
          /\ \A x \in Slots \ {o} : orders'[x] = orders[x]
          /\ orders'[o].entry_nanos = clock
        BY <1>1, AddEffect
    <2>2. Live' = Live \cup {o} /\ o \in Slots \ Live
        BY <1>1, <2>1 DEF Live
    <2> QED BY <1>0, <2>1, <2>2
<1>2. ASSUME NEW id \in OrderIds, Found(id), incoming = nullptr, Unbook(id)
      PROVE  Fewer
    <2>1. PICK x \in Resting :
            /\ Resting' = Resting \ {x} /\ incoming' = nullptr
            /\ \A y \in Slots \ {x} : orders'[y] = orders[y]
        BY <1>2, UnbookEffect
    <2>2. Live' = Live \ {x}
        BY <1>2, <2>1 DEF Live
    <2> QED BY <1>0, <2>1, <2>2 DEF SameOrder
<1>3. ASSUME NEW id \in OrderIds, NEW q \in Quantities \cup {0}, ModifyDown(id, q)
      PROVE  Fewer
    <2>1. PICK x \in Resting :
            /\ Resting' = Resting /\ SameOrder(orders'[x], orders[x])
            /\ \A y \in Slots \ {x} : orders'[y] = orders[y]
            /\ incoming' = incoming
        BY <1>3, ModifyDownEffect
    <2>2. Live' = Live
        BY <2>1 DEF Live
    <2> QED BY <1>0, <2>1, <2>2 DEF SameOrder
<1>4. CASE MatchStep
    <2>1. PICK x, q : Matched(x, q)
        BY <1>4, MatchEffect
    <2>2. /\ incoming' = incoming
          /\ SameOrder(orders'[incoming], orders[incoming])
          /\ \A y \in Slots \ {x, incoming} : orders'[y] = orders[y]
          /\ \/ Resting' = Resting \ {x}
             \/ Resting' = Resting /\ SameOrder(orders'[x], orders[x])
        BY <2>1 DEF Matched
    <2>3. x # incoming /\ incoming # nullptr
        BY <1>4, <2>1, MatchEffect DEF Matched
    <2>4. Live' \subseteq Live
        BY <2>2 DEF Live
    <2>5. \A y \in Live' : SameOrder(orders'[y], orders[y])
        BY <1>0, <2>2, <2>3, <2>4 DEF SameOrder, Live
    <2> QED BY <2>4, <2>5
<1>5. CASE FinishAdd
    <2>1. /\ orders' = orders /\ incoming # nullptr /\ incoming' = nullptr
          /\ Resting' = Resting \/ Resting' = Resting \cup {incoming}
        BY <1>5, FinishEffect
    <2>2. Live' \subseteq Live
        BY <2>1 DEF Live
    <2> QED BY <2>1, <2>2 DEF SameOrder
<1>6. ASSUME UNCHANGED <<orders, free_stack, incoming>>
      PROVE  Fewer
    BY <1>6 DEF Live, Resting, Pool!FreeSlots, SameOrder
<1> HIDE DEF Fewer, More
<1>7. CASE UNCHANGED vars
    BY <1>6, <1>7 DEF vars, callVars
<1>8. CASE RejectAdd
    BY <1>6, <1>8 DEF RejectAdd, callVars
<1>9. ASSUME NEW id \in OrderIds, Miss(id)
      PROVE  Fewer
    BY <1>6, <1>9 DEF Miss, callVars
<1>10. ASSUME NEW msg \in AddMessage, AddOrder(msg)
       PROVE  More
    BY <1>1, <1>10 DEF AddOrder, Idle
<1>11. CASE ReAdd
    BY <1>1, <1>11 DEF ReAdd, IInv, TypeOK
<1>12. ASSUME NEW id \in OrderIds, CancelOrder(id)
       PROVE  Fewer
    BY <1>2, <1>12 DEF CancelOrder, Idle
<1>13. ASSUME NEW id \in OrderIds, NEW q \in Quantities, ModifyUp(id, q)
       PROVE  Fewer
    BY <1>2, <1>13 DEF ModifyUp, Idle
<1>14. CASE UpdateBest
    BY <1>6, <1>14 DEF UpdateBest, callVars
<1> QED BY <1>3, <1>4, <1>5, <1>7, <1>8, <1>9, <1>10, <1>11, <1>12, <1>13, <1>14
        DEF Next

LEMMA EntriesStep ==
    ASSUME IInv, EntriesApart, [Next]_vars
    PROVE  EntriesApart'
<1>1. \A x \in Live : orders[x].entry_nanos < clock
    BY DEF IInv, Queued, Live
<1>2. /\ clock \in Nat
      /\ \A x \in Live : orders[x].entry_nanos \in Nat
    BY ViewFacts DEF OrderView, MOrder
<1>3. CASE /\ Live' \subseteq Live
           /\ \A x \in Live' : SameOrder(orders'[x], orders[x])
    BY <1>3 DEF EntriesApart, SameOrder
<1>4. ASSUME NEW o \in Slots \ Live, Live' = Live \cup {o},
             orders'[o].entry_nanos = clock,
             \A x \in Live : orders'[x] = orders[x]
      PROVE  EntriesApart'
    <2>1. \A x \in Live : orders'[x].entry_nanos # clock
        BY <1>1, <1>2, <1>4
    <2> QED BY <1>4, <2>1 DEF EntriesApart
<1> QED BY <1>3, <1>4, LiveSteps

-----------------------------------------------------------------------------
(***************************************************************************)
(* Each kind of step of the book is a step of Market.                      *)
(***************************************************************************)

\* The views of the resting orders when one leaves or changes.
LEMMA ViewsApart ==
    ASSUME IInv, EntriesApart, NEW x \in Resting
    PROVE  /\ OrderView(x) \in MBook
           /\ MBook \ {OrderView(x)} = {OrderView(y) : y \in Resting \ {x}}
<1>1. \A y \in Resting : OrderView(y) = OrderView(x) => y = x
    BY DEF OrderView, EntriesApart, Live
<1> QED BY <1>1 DEF MBook

\* MBook in the next state, when the orders of S keep their views.
LEMMA ViewsKept ==
    ASSUME NEW S, \A y \in S : orders'[y] = orders[y]
    PROVE  {OrderView(y)' : y \in S} = {OrderView(y) : y \in S}
<1>1. \A y \in S : OrderView(y)' = OrderView(y)
    BY DEF OrderView, Open
<1> QED BY <1>1

LEMMA EnterSim ==
    ASSUME IInv, EntriesApart, NEW msg \in AddMessage, NEW o,
           incoming = nullptr, BeginAdd(msg, o)
    PROVE  Mkt!EnterAs([id |-> msg.order_id, side |-> msg.side,
                        price |-> msg.price], msg.quantity)
<1>1. /\ o \in Slots \ Resting /\ Resting' = Resting /\ incoming' = o
      /\ \A x \in Slots \ {o} : orders'[x] = orders[x]
      /\ orders'[o].id = msg.order_id /\ orders'[o].side = msg.side
      /\ orders'[o].price = msg.price /\ orders'[o].entry_nanos = clock
      /\ Open(orders'[o]) = msg.quantity
      /\ readd' = readd /\ clock' = clock + 1
      /\ report' = NoReport /\ trade_volume' = trade_volume
    BY AddEffect
<1>2. MBook' = MBook
    <2>1. \A y \in Resting : orders'[y] = orders[y]
        BY <1>1, BookFacts
    <2> QED BY <1>1, <2>1, ViewsKept DEF MBook
<1>3. MTaker' = [id |-> msg.order_id, side |-> msg.side, price |-> msg.price,
                 open |-> msg.quantity, entry |-> clock]
    BY <1>1, NullFacts DEF MTaker, OrderView
<1>4. MAmended' = MAmended
    BY <1>1 DEF MAmended, AmendOf
<1> QED BY <1>1, <1>2, <1>3, <1>4 DEF Mkt!EnterAs, MBook, MTaker, MAmended, AmendOf

LEMMA QuietFacts ==
    ASSUME IInv
    PROVE  /\ Idle => Mkt!Quiet
           /\ MTaker = nullptr /\ MAmended = nullptr => Mkt!Quiet
BY DEF Idle, Mkt!Quiet, MTaker, MAmended, AmendOf

LEMMA AddSim ==
    ASSUME IInv, EntriesApart, NEW msg \in AddMessage, AddOrder(msg)
    PROVE  \E o \in [id : OrderIds, side : Side, price : Price], size \in Quantities :
              Mkt!Enter(o, size)
<1> DEFINE o == [id |-> msg.order_id, side |-> msg.side, price |-> msg.price]
<1>1. Idle /\ incoming = nullptr /\ \E x \in Slots : BeginAdd(msg, x)
    BY DEF AddOrder, Idle
<1>2. Mkt!EnterAs(o, msg.quantity)
    BY <1>1, EnterSim
<1>3. Mkt!Enter(o, msg.quantity)
    BY <1>1, <1>2, QuietFacts DEF Mkt!Enter
<1>4. o \in [id : OrderIds, side : Side, price : Price] /\ msg.quantity \in Quantities
    BY DEF AddMessage
<1> QED BY <1>3, <1>4

LEMMA ReAddSim ==
    ASSUME IInv, EntriesApart, ReAdd
    PROVE  Mkt!Reenter
<1>1. /\ incoming = nullptr /\ readd # NoMessage /\ readd \in AddMessage
      /\ \E x \in Slots : BeginAdd(readd, x)
    BY DEF ReAdd, IInv, TypeOK
<1>2. /\ MTaker = nullptr /\ MAmended # nullptr
      /\ MAmended = AmendOf(readd)
    BY <1>1, ViewFacts DEF MAmended
<1>3. Mkt!EnterAs([id |-> readd.order_id, side |-> readd.side,
                   price |-> readd.price], readd.quantity)
    BY <1>1, EnterSim
<1>4. /\ AmendOf(readd).id = readd.order_id /\ AmendOf(readd).side = readd.side
      /\ AmendOf(readd).price = readd.price /\ AmendOf(readd).size = readd.quantity
    BY DEF AmendOf
<1>5. Mkt!EnterAs(MAmended, MAmended.size)
    BY <1>2, <1>3, <1>4 DEF Mkt!EnterAs
<1> QED BY <1>2, <1>5 DEF Mkt!Reenter, MTaker, MAmended, AmendOf

LEMMA UnbookSim ==
    ASSUME IInv, EntriesApart, NEW id \in OrderIds, Found(id), Idle, Unbook(id),
           NEW x, x = order_map[HashSlot(id)]
    PROVE  /\ x \in Resting /\ orders[x].id = id
           /\ OrderView(x) \in MBook
           /\ MBook' = MBook \ {OrderView(x)}
           /\ MTaker' = MTaker /\ clock' = clock
           /\ report' = NoReport /\ trade_volume' = trade_volume
<1>0. incoming = nullptr
    BY DEF Idle
<1>1. /\ x \in Resting /\ orders[x].id = id
      /\ Resting' = Resting \ {x}
      /\ \A y \in Slots \ {x} : orders'[y] = orders[y]
      /\ incoming' = nullptr /\ clock' = clock
      /\ report' = NoReport /\ trade_volume' = trade_volume
    BY <1>0, UnbookEffect
<1>2. MBook' = MBook \ {OrderView(x)}
    <2>1. \A y \in Resting \ {x} : orders'[y] = orders[y]
        BY <1>1, BookFacts
    <2> QED BY <1>1, <2>1, ViewsKept, ViewsApart DEF MBook
<1>3. MTaker' = MTaker
    BY <1>0, <1>1 DEF MTaker
<1> QED BY <1>1, <1>2, <1>3, ViewsApart

LEMMA CancelSim ==
    ASSUME IInv, EntriesApart, NEW id \in OrderIds, CancelOrder(id)
    PROVE  \E r \in MBook : Mkt!Withdraw(r)
<1> DEFINE x == order_map[HashSlot(id)]
<1>1. /\ OrderView(x) \in MBook
      /\ MBook' = MBook \ {OrderView(x)}
      /\ MTaker' = MTaker /\ clock' = clock
      /\ report' = NoReport /\ trade_volume' = trade_volume
      /\ Mkt!Quiet
    BY UnbookSim, QuietFacts DEF CancelOrder
<1>2. MAmended' = MAmended
    BY DEF CancelOrder, MAmended, AmendOf
<1> HIDE DEF x
<1>3. Mkt!Withdraw(OrderView(x))
    BY <1>1, <1>2 DEF Mkt!Withdraw, MBook, MTaker, MAmended, AmendOf
<1> QED BY <1>1, <1>3

LEMMA AmendSim ==
    ASSUME IInv, EntriesApart, NEW id \in OrderIds, NEW q \in Quantities,
           ModifyUp(id, q)
    PROVE  \E r \in MBook, size \in Quantities : Mkt!Amend(r, size)
<1> DEFINE x == order_map[HashSlot(id)]
<1>1. /\ x \in Resting /\ orders[x].id = id
      /\ OrderView(x) \in MBook
      /\ MBook' = MBook \ {OrderView(x)}
      /\ MTaker' = MTaker /\ clock' = clock
      /\ report' = NoReport /\ trade_volume' = trade_volume
      /\ Mkt!Quiet
    BY UnbookSim, QuietFacts DEF ModifyUp
<1>2. /\ readd' = [order_id |-> id, side |-> orders[x].side,
                   price |-> orders[x].price, quantity |-> q]
      /\ q > Open(orders[x])
    BY DEF ModifyUp, ReaddMessage
<1>3. orders[x].side \in Side /\ orders[x].price \in Price
    BY <1>1, BookFacts
<1>4. readd' \in AddMessage
    BY <1>2, <1>3 DEF AddMessage
<1>5. MAmended' = [id |-> id, side |-> orders[x].side, price |-> orders[x].price,
                   size |-> q]
    BY <1>2, <1>4, NullFacts DEF MAmended, AmendOf
<1> HIDE DEF x
<1>6. /\ OrderView(x).open = Open(orders[x]) /\ OrderView(x).id = id
      /\ OrderView(x).side = orders[x].side /\ OrderView(x).price = orders[x].price
    BY <1>1 DEF OrderView
<1>7. MAmended' = [id |-> OrderView(x).id, side |-> OrderView(x).side,
                   price |-> OrderView(x).price, size |-> q]
    BY <1>5, <1>6
<1>8. q > OrderView(x).open
    BY <1>2, <1>6 DEF x
<1>9. Mkt!Amend(OrderView(x), q)
    BY <1>1, <1>7, <1>8 DEF Mkt!Amend, MBook, MTaker, MAmended, AmendOf
<1> QED BY <1>1, <1>9

LEMMA ReduceSim ==
    ASSUME IInv, EntriesApart, NEW id \in OrderIds,
           NEW q \in Quantities \cup {0}, ModifyDown(id, q)
    PROVE  \E r \in MBook : \E size \in 0 .. r.open : Mkt!Reduce(r, size)
<1>1. PICK x \in Resting :
        /\ q \in Nat /\ q <= Open(orders[x])
        /\ Resting' = Resting /\ SameOrder(orders'[x], orders[x])
        /\ Open(orders'[x]) = q
        /\ \A y \in Slots \ {x} : orders'[y] = orders[y]
        /\ UNCHANGED <<incoming, readd, clock, trade_volume>>
        /\ report' = NoReport
    BY ModifyDownEffect
<1>2. /\ OrderView(x) \in MBook
      /\ MBook \ {OrderView(x)} = {OrderView(y) : y \in Resting \ {x}}
    BY ViewsApart
<1>3. OrderView(x)' = [OrderView(x) EXCEPT !.open = q]
    BY <1>1 DEF OrderView, SameOrder
<1>4. {OrderView(y)' : y \in Resting \ {x}} = {OrderView(y) : y \in Resting \ {x}}
    <2>1. \A y \in Resting \ {x} : orders'[y] = orders[y]
        BY <1>1, BookFacts
    <2> QED BY <2>1, ViewsKept
<1>5. MBook' = (MBook \ {OrderView(x)}) \cup {[OrderView(x) EXCEPT !.open = q]}
    <2>1. MBook' = {OrderView(y)' : y \in Resting \ {x}} \cup {OrderView(x)'}
        BY <1>1 DEF MBook
    <2> QED BY <2>1, <1>2, <1>3, <1>4
<1>6. MTaker' = MTaker /\ MAmended' = MAmended /\ Mkt!Quiet
    <2>1. Idle
        BY DEF ModifyDown
    <2> QED BY <1>1, <2>1, QuietFacts DEF MTaker, MAmended, AmendOf, Idle
<1>7. OrderView(x).open = Open(orders[x]) /\ q \in 0 .. OrderView(x).open
    BY <1>1, BookFacts DEF OrderView
<1>8. q <= OrderView(x).open
    BY <1>1, <1>7
<1>9. Mkt!Reduce(OrderView(x), q)
    BY <1>1, <1>2, <1>5, <1>6, <1>8 DEF Mkt!Reduce, MBook, MTaker, MAmended, AmendOf
<1> QED BY <1>2, <1>7, <1>9

LEMMA RefuseSim ==
    ASSUME IInv, Idle, report' = NoReport,
           UNCHANGED <<orders, free_stack, incoming, readd, clock, trade_volume>>
    PROVE  Mkt!Refuse
<1>1. Resting' = Resting
    BY DEF Resting, Pool!FreeSlots
<1>2. \A y \in Slots : OrderView(y)' = OrderView(y)
    BY DEF OrderView, Open
<1>3. MBook' = MBook
    BY <1>1, <1>2, BookFacts DEF MBook
<1>4. MTaker' = MTaker /\ MAmended' = MAmended
    BY DEF MTaker, MAmended, AmendOf, Idle
<1> QED BY <1>3, <1>4, QuietFacts DEF Mkt!Refuse, MBook, MTaker, MAmended, AmendOf

\* Before a fill the incoming order and the views of the book: match() trades
\* with an order exactly when Market lets it.
LEMMA CrossFacts ==
    ASSUME IInv, incoming # nullptr, NEW x \in Resting
    PROVE  Mkt!Crosses(OrderView(incoming), OrderView(x)) <=>
              /\ orders[x].side = Opposite(orders[incoming].side)
              /\ Accepts(orders[incoming].side, orders[incoming].price, orders[x].price)
<1>1. orders[x].side \in Side /\ orders[incoming].side \in Side
    BY BookFacts
<1>2. orders[x].side # orders[incoming].side <=>
        orders[x].side = Opposite(orders[incoming].side)
    BY <1>1 DEF Side, Opposite
<1> QED BY <1>2 DEF Mkt!Crosses, Mkt!Opposed, OrderView, Accepts

LEMMA RestSim ==
    ASSUME IInv, EntriesApart, FinishAdd
    PROVE  Mkt!Rest
<1> DEFINE o == orders[incoming]
<1>1. /\ incoming # nullptr /\ orders' = orders
      /\ incoming' = nullptr /\ readd' = NoMessage
      /\ clock' = clock /\ report' = NoReport /\ trade_volume' = trade_volume
      /\ \/ Open(o) = 0 /\ Resting' = Resting
         \/ Open(o) # 0 /\ Resting' = Resting \cup {incoming}
    BY FinishEffect
<1>2. /\ MTaker = OrderView(incoming) /\ MTaker # nullptr
      /\ MTaker.open = Open(o)
      /\ MTaker' = nullptr /\ MAmended' = nullptr
    BY <1>1, ViewFacts DEF MTaker, MAmended, OrderView
<1>3. MBook' = IF MTaker.open = 0 THEN MBook ELSE MBook \cup {MTaker}
    <2>1. \A y \in Slots : OrderView(y)' = OrderView(y)
        BY <1>1 DEF OrderView, Open
    <2>2. Resting \subseteq Slots /\ incoming \in Slots
        BY <1>1, BookFacts
    <2>3. CASE Open(o) = 0 /\ Resting' = Resting
        BY <1>2, <2>1, <2>2, <2>3 DEF MBook
    <2>4. CASE Open(o) # 0 /\ Resting' = Resting \cup {incoming}
        <3>1. MBook' = {OrderView(y)' : y \in Resting \cup {incoming}}
            BY <2>4 DEF MBook
        <3> QED BY <1>2, <2>1, <2>2, <2>4, <3>1 DEF MBook
    <2> QED BY <1>1, <2>3, <2>4
<1>4. MTaker.open = 0 \/ \A r \in MBook : ~ Mkt!Crosses(MTaker, r)
    <2> SUFFICES ASSUME Open(o) # 0, NEW x \in Resting,
                        Mkt!Crosses(OrderView(incoming), OrderView(x))
                 PROVE  FALSE
        BY <1>2 DEF MBook
    <2>1. /\ orders[x].side = Opposite(o.side)
          /\ Accepts(o.side, o.price, orders[x].price)
        BY <1>1, CrossFacts
    <2>2. o.quantity > o.filled_quantity
        <3>1. o.quantity \in Nat /\ o.filled_quantity \in Nat
            BY <1>1, Derived, BookFacts DEF OrderType
        <3>2. Open(o) \in Nat
            BY <1>1, BookFacts
        <3> HIDE DEF o
        <3> QED BY <3>1, <3>2 DEF Open
    <2>3. /\ orders[x].price \in Int /\ best[orders[x].side] \in Int
          /\ o.price \in Int
          /\ best[orders[x].side] # kInvalidPrice
          /\ ~ Better(orders[x].side, orders[x].price, best[orders[x].side])
        BY <1>1, BestBounds, BookFacts, PriceFacts
    <2>4. orders[x].side \in Side /\ o.side \in Side
        BY <1>1, BookFacts
    <2>5. Accepts(o.side, o.price, best[orders[x].side])
        BY <2>1, <2>3, <2>4 DEF Accepts, Better, Opposite, Side
    <2>6. CanMatch(o)
        BY <2>1, <2>2, <2>3, <2>5 DEF CanMatch
    <2> QED BY <2>6 DEF FinishAdd
<1> QED BY <1>1, <1>2, <1>3, <1>4 DEF Mkt!Rest, MBook, MTaker, MAmended, AmendOf

\* The order that match() fills is the first in line of its side.
LEMMA HeadIsFirst ==
    ASSUME IInv, NEW x \in Resting, x = head[LevelOf(x)],
           orders[x].price = best[orders[x].side]
    PROVE  Mkt!First(OrderView(x))
<1> SUFFICES ASSUME NEW y \in Resting, orders[y].side = orders[x].side,
                    OrderView(y) # OrderView(x)
             PROVE  Mkt!Before(OrderView(x), OrderView(y))
    BY DEF Mkt!First, OrderView
<1>1. x # y
    OBVIOUS
<1>2. /\ orders[x].price \in Int /\ orders[y].price \in Int
      /\ orders[x].side \in Side
      /\ ~ Better(orders[x].side, orders[y].price, orders[x].price)
    BY BestBounds, PriceFacts
<1>3. CASE orders[y].price # orders[x].price
    BY <1>2, <1>3 DEF Better, Mkt!Before, OrderView
<1>4. CASE orders[y].price = orders[x].price
    <2>1. LevelOf(y) = LevelOf(x)
        BY <1>4 DEF LevelOf
    <2>2. orders[x].entry_nanos < orders[y].entry_nanos
        BY <1>1, <2>1, HeadFirst, Derived
    <2> QED BY <1>4, <2>2 DEF Mkt!Before, OrderView
<1> QED BY <1>3, <1>4

LEMMA TradeSim ==
    ASSUME IInv, EntriesApart, MatchStep
    PROVE  \E r \in MBook : Mkt!Trade(r)
<1>1. PICK x, q : Matched(x, q)
    BY MatchEffect
<1> DEFINE r == OrderView(x)
           left == IF r.open > q THEN {[r EXCEPT !.open = @ - q]} ELSE {}
<1>2. /\ x \in Resting /\ incoming # nullptr /\ x # incoming
      /\ incoming' = incoming /\ readd' = readd /\ clock' = clock
      /\ q \in Nat
      /\ q = IF Open(orders[x]) < Open(orders[incoming])
             THEN Open(orders[x]) ELSE Open(orders[incoming])
      /\ Open(orders[incoming]) > 0
      /\ trade_volume' = trade_volume + q
      /\ report' = Report(orders[x], orders[incoming], q)
    BY <1>1, MatchEffect, BookFacts DEF Matched
<1>3. /\ MTaker = OrderView(incoming) /\ MTaker # nullptr
      /\ MTaker.open = Open(orders[incoming]) /\ r.open = Open(orders[x])
      /\ MTaker.id = orders[incoming].id /\ r.id = orders[x].id
      /\ r.side = orders[x].side /\ r.price = orders[x].price
    BY <1>2, ViewFacts DEF MTaker, OrderView
<1>4. /\ r \in MBook
      /\ MBook \ {r} = {OrderView(y) : y \in Resting \ {x}}
    BY <1>2, ViewsApart
<1>5. Mkt!Crosses(MTaker, r)
    BY <1>1, <1>2, <1>3, CrossFacts DEF Matched
<1>6. Mkt!First(r)
    BY <1>1, HeadIsFirst DEF Matched
<1>7. MTaker' = [MTaker EXCEPT !.open = @ - q]
    <2>1. /\ SameOrder(orders'[incoming], orders[incoming])
          /\ Open(orders'[incoming]) = Open(orders[incoming]) - q
        BY <1>1 DEF Matched
    <2> QED BY <1>2, <2>1 DEF MTaker, OrderView, SameOrder
<1>8. MBook' = (MBook \ {r}) \cup left
    <2>1. {OrderView(y)' : y \in Resting \ {x}} = {OrderView(y) : y \in Resting \ {x}}
        <3>1. \A y \in Resting \ {x} : orders'[y] = orders[y]
            BY <1>1, <1>2, BookFacts DEF Matched
        <3> QED BY <3>1, ViewsKept
    <2>2. Open(orders[x]) \in Int
        BY <1>2, BookFacts
    <2>3. CASE Open(orders[x]) = q /\ Resting' = Resting \ {x}
        <3>1. MBook' = {OrderView(y)' : y \in Resting \ {x}}
            BY <2>3 DEF MBook
        <3>2. left = {}
            BY <1>2, <1>3, <2>3
        <3> QED BY <1>4, <2>1, <3>1, <3>2
    <2>4. CASE /\ Open(orders[x]) > q /\ Resting' = Resting
               /\ SameOrder(orders'[x], orders[x])
               /\ Open(orders'[x]) = Open(orders[x]) - q
        <3>1. MBook' = {OrderView(y)' : y \in Resting \ {x}} \cup {OrderView(x)'}
            BY <1>2, <2>4 DEF MBook
        <3>2. OrderView(x)' = [r EXCEPT !.open = @ - q]
            BY <2>4 DEF OrderView, SameOrder
        <3>3. left = {[r EXCEPT !.open = @ - q]}
            BY <1>3, <2>4
        <3> QED BY <1>4, <2>1, <3>1, <3>2, <3>3
    <2> QED BY <1>1, <2>3, <2>4 DEF Matched
<1>9. MAmended' = MAmended
    BY <1>2 DEF MAmended, AmendOf
<1>10. q = IF r.open < MTaker.open THEN r.open ELSE MTaker.open
    BY <1>2, <1>3
<1>11. report' = [buy_order_id |-> (IF r.side = "Buy" THEN r ELSE MTaker).id,
                  sell_order_id |-> (IF r.side = "Buy" THEN MTaker ELSE r).id,
                  price |-> r.price, quantity |-> q]
    BY <1>2, <1>3 DEF Report
<1> HIDE DEF r
<1>12. Mkt!Trade(r)
    BY <1>2, <1>3, <1>4, <1>5, <1>6, <1>7, <1>8, <1>9, <1>10, <1>11
       DEF Mkt!Trade, MBook, MTaker, MAmended, AmendOf
<1> QED BY <1>4, <1>12

\* Moving the best price behind a level that a fill emptied is nothing to the
\* market but the end of the trade.
LEMMA SettleSim ==
    ASSUME IInv, UpdateBest
    PROVE  Mkt!Settle
<1>1. /\ incoming # nullptr /\ incoming' = incoming /\ report' = NoReport
      /\ UNCHANGED <<orders, free_stack, readd, clock, trade_volume>>
    BY DEF UpdateBest, callVars, statVars
<1>2. incoming \in Slots
    BY <1>1 DEF IInv, TypeOK
<1>3. Resting' = Resting
    BY <1>1 DEF Resting, Pool!FreeSlots
<1>4. \A y \in Slots : OrderView(y)' = OrderView(y)
    BY <1>1 DEF OrderView, Open
<1>5. MBook' = MBook
    BY <1>3, <1>4, BookFacts DEF MBook
<1>6. MTaker' = MTaker /\ MAmended' = MAmended
    BY <1>1 DEF MTaker, MAmended, AmendOf, OrderView, Open
<1>7. MTaker # nullptr
    BY <1>1, <1>2, ViewFacts DEF MTaker
<1> QED BY <1>1, <1>5, <1>6, <1>7 DEF Mkt!Settle, MBook, MTaker, MAmended, AmendOf

-----------------------------------------------------------------------------
(***************************************************************************)
(* The refinement.                                                         *)
(***************************************************************************)
LEMMA MarketInit == Init => Mkt!MInit
<1> SUFFICES ASSUME Init
             PROVE  Mkt!MInit
    OBVIOUS
<1>1. Resting = {} /\ MBook = {}
    BY InitLive DEF MBook
<1> QED BY <1>1 DEF Init, Mkt!MInit, MBook

LEMMA MarketStep ==
    ASSUME IInv, EntriesApart, [Next]_vars
    PROVE  [Mkt!MNext]_Mkt!mvars
<1>1. CASE UNCHANGED vars
    <2>1. Resting' = Resting
        BY <1>1 DEF vars, callVars, Resting, Pool!FreeSlots
    <2>2. \A y : OrderView(y)' = OrderView(y)
        BY <1>1 DEF vars, OrderView, Open
    <2>3. MBook' = MBook
        BY <2>1, <2>2 DEF MBook
    <2>4. MTaker' = MTaker /\ MAmended' = MAmended
        BY <1>1 DEF vars, callVars, MTaker, MAmended, AmendOf, OrderView, Open
    <2> QED BY <1>1, <2>3, <2>4
            DEF vars, statVars, Mkt!mvars, MBook, MTaker, MAmended, AmendOf
<1>2. ASSUME NEW msg \in AddMessage, AddOrder(msg)
      PROVE  Mkt!MNext
    BY <1>2, AddSim DEF Mkt!MNext
<1>3. CASE RejectAdd
    <2>1. Mkt!Refuse
        BY <1>3, RefuseSim DEF RejectAdd, callVars, statVars
    <2> QED BY <2>1 DEF Mkt!MNext
<1>4. CASE MatchStep
    BY <1>4, TradeSim DEF Mkt!MNext, MBook
<1>5. CASE FinishAdd
    BY <1>5, RestSim DEF Mkt!MNext
<1>6. ASSUME NEW id \in OrderIds, CancelOrder(id)
      PROVE  Mkt!MNext
    BY <1>6, CancelSim DEF Mkt!MNext, MBook
<1>7. ASSUME NEW id \in OrderIds, NEW q \in Quantities \cup {0}, ModifyDown(id, q)
      PROVE  Mkt!MNext
    BY <1>7, ReduceSim DEF Mkt!MNext, MBook
<1>8. ASSUME NEW id \in OrderIds, NEW q \in Quantities, ModifyUp(id, q)
      PROVE  Mkt!MNext
    BY <1>8, AmendSim DEF Mkt!MNext, MBook
<1>9. CASE ReAdd
    BY <1>9, ReAddSim DEF Mkt!MNext
<1>10. ASSUME NEW id \in OrderIds, Miss(id)
       PROVE  Mkt!MNext
    <2>1. Mkt!Refuse
        BY <1>10, RefuseSim DEF Miss, callVars, statVars
    <2> QED BY <2>1 DEF Mkt!MNext
<1>11. CASE UpdateBest
    BY <1>11, SettleSim DEF Mkt!MNext
<1> QED BY <1>1, <1>2, <1>3, <1>4, <1>5, <1>6, <1>7, <1>8, <1>9, <1>10, <1>11 DEF Next

\* The linked lists, cached best prices, order_map_ and pool of OrderBook
\* together are a market with price-time priority, also when ids repeat or
\* collide in the map.
THEOREM BookIsMarket == Spec => ImplementsMarket
<1>1. Init => EntriesApart
    BY InitLive DEF EntriesApart
<1>2. IInv /\ EntriesApart /\ [Next]_vars => EntriesApart'
    BY EntriesStep
<1>3. IInv /\ EntriesApart /\ [Next]_vars => [Mkt!MNext]_Mkt!mvars
    BY MarketStep
<1> QED BY <1>1, <1>2, <1>3, MarketInit, InvariantHolds, PTL
        DEF Spec, ImplementsMarket, Mkt!MSpec

\* The book whose orders are accounted for is that market, too.
THEOREM LedgerIsMarket == LedgerSpec => ImplementsMarket
BY LedgerRefines, BookIsMarket, PTL
============================================================================
