--------------------------- MODULE OrderBookSteps ---------------------------
(***************************************************************************)
(* What each step of OrderBook does to the book seen as a set of orders,   *)
(* and to the order-id map: lemmas for the proofs about the ledger, the    *)
(* refinement of Market and the whole program.                             *)
(***************************************************************************)
EXTENDS OrderBookProofs

-----------------------------------------------------------------------------
(***************************************************************************)
(* What each kind of step does to the book seen as a set of orders.  The   *)
(* properties below follow from these facts and the invariant of           *)
(* OrderBookProofs, without the pointers and the pool.                     *)
(***************************************************************************)

\* Two states of an order that differ at most in what is filled.
SameOrder(o, p) ==
    /\ o.id = p.id /\ o.side = p.side /\ o.price = p.price
    /\ o.entry_nanos = p.entry_nanos

\* The facts of the invariant that the proofs below use.
LEMMA BookFacts ==
    ASSUME IInv
    PROVE  /\ Resting \subseteq Slots
           /\ orders \in [Slots -> OrderType]
           /\ \A x \in Slots : Open(orders[x]) \in Int
           /\ \A x \in Resting :
                /\ orders[x].id \in OrderIds
                /\ orders[x].side \in Side
                /\ orders[x].price \in Price
                /\ LevelOf(x) \in Level
                /\ Open(orders[x]) \in Nat
           /\ incoming # nullptr =>
                /\ incoming \in Slots \ Resting
                /\ orders[incoming].id \in OrderIds
                /\ orders[incoming].side \in Side
                /\ orders[incoming].price \in Price
                /\ LevelOf(incoming) \in Level
                /\ Open(orders[incoming]) \in Nat
                /\ orders[incoming].status = "Filled" <=> Open(orders[incoming]) = 0
<1> USE Derived, NullFacts
<1>1. /\ Resting \subseteq Slots \ Pool!FreeSlots
      /\ orders \in [Slots -> OrderType]
      /\ incoming # nullptr =>
            incoming \in Slots \ Pool!FreeSlots /\ incoming \notin Resting
    BY DEF Resting, IInv, TypeOK, PoolSound
<1>2. \A x \in Slots : /\ orders[x].quantity \in Nat
                       /\ orders[x].filled_quantity \in Nat
                       /\ orders[x].side \in Side
    BY DEF OrderType
<1>3. \A x \in Slots \ Pool!FreeSlots :
        /\ orders[x].id \in OrderIds /\ orders[x].price \in Price
        /\ LevelOf(x) \in Level
        /\ orders[x].filled_quantity <= orders[x].quantity
        /\ orders[x].status = "Filled" =>
              orders[x].filled_quantity = orders[x].quantity
        /\ x = incoming /\ orders[x].filled_quantity = orders[x].quantity =>
              orders[x].status = "Filled"
    BY DEF IInv, Stored, FillsSound
<1>4. \A x \in Slots : Open(orders[x]) \in Int
    BY <1>2 DEF Open
<1>5. \A x \in Slots \ Pool!FreeSlots :
        /\ Open(orders[x]) \in Nat
        /\ Open(orders[x]) = 0 <=> orders[x].filled_quantity = orders[x].quantity
    BY <1>2, <1>3 DEF Open
<1> QED BY <1>1, <1>2, <1>3, <1>4, <1>5

\* add_order puts an order into a slot that held none.
LEMMA AddEffect ==
    ASSUME IInv, incoming = nullptr, NEW msg \in AddMessage, NEW o,
           BeginAdd(msg, o)
    PROVE  /\ o \in Slots \ Resting
           /\ Resting' = Resting
           /\ \A x \in Slots \ {o} : orders'[x] = orders[x]
           /\ orders'[o].id = msg.order_id
           /\ orders'[o].side = msg.side
           /\ orders'[o].price = msg.price
           /\ orders'[o].entry_nanos = clock
           /\ Open(orders'[o]) = msg.quantity
           /\ msg.quantity \in Nat \ {0}
           /\ order_map' = [order_map EXCEPT ![HashSlot(msg.order_id)] = o]
           /\ incoming' = o /\ readd' = readd /\ clock' = clock + 1
           /\ report' = NoReport /\ trade_volume' = trade_volume
           /\ UNCHANGED <<total_quantity, order_count>>
<1> DEFINE new == [id |-> msg.order_id, side |-> msg.side,
                   status |-> "Active", price |-> msg.price,
                   quantity |-> msg.quantity, filled_quantity |-> 0,
                   entry_nanos |-> clock]
<1> USE NullFacts, Derived
<1>1. /\ o \in Slots /\ o \in Pool!FreeSlots
      /\ Pool!FreeSlots' = Pool!FreeSlots \ {o}
    BY AcquireSlot DEF BeginAdd
<1>2. /\ orders' = [orders EXCEPT ![o] = new]
      /\ order_map' = [order_map EXCEPT ![HashSlot(msg.order_id)] = o]
      /\ incoming' = o /\ readd' = readd /\ clock' = clock + 1
      /\ report' = NoReport /\ trade_volume' = trade_volume
      /\ UNCHANGED <<total_quantity, order_count>>
    BY DEF BeginAdd, levelVars, statVars
<1>3. /\ orders'[o] = new
      /\ \A x \in Slots \ {o} : orders'[x] = orders[x]
    BY <1>1, <1>2 DEF IInv, TypeOK
<1>4. Resting' = Resting /\ o \notin Resting
    BY <1>1, <1>2, <1>3 DEF Resting
<1>5. msg.quantity \in Nat \ {0}
    BY BookAssumption DEF AddMessage
<1>6. Open(new) = msg.quantity
    BY <1>5 DEF Open
<1> QED BY <1>1, <1>2, <1>3, <1>4, <1>5, <1>6

\* The order that cancel_order and modify_order find is resting.
LEMMA FoundRests ==
    ASSUME IInv, NEW id \in OrderIds, Found(id), incoming = nullptr
    PROVE  /\ order_map[HashSlot(id)] \in Resting
           /\ orders[order_map[HashSlot(id)]].id = id
BY HashType, NullFacts DEF Found, IInv, TypeOK, MapSound, Resting

\* A cancel takes the order that it finds out of the book.
LEMMA UnbookEffect ==
    ASSUME IInv, NEW id \in OrderIds, Found(id), incoming = nullptr, Unbook(id),
           NEW x, x = order_map[HashSlot(id)]
    PROVE  /\ x \in Resting /\ orders[x].id = id
           /\ Resting' = Resting \ {x}
           /\ \A y \in Slots \ {x} : orders'[y] = orders[y]
           /\ total_quantity' = [total_quantity EXCEPT
                                    ![LevelOf(x)] = @ - Open(orders[x])]
           /\ order_count' = [order_count EXCEPT ![LevelOf(x)] = @ - 1]
           /\ Unmap(id)
           /\ incoming' = nullptr /\ clock' = clock
           /\ report' = NoReport /\ trade_volume' = trade_volume
<1> USE NullFacts, Derived
<1>1. x \in Resting /\ orders[x].id = id /\ x \in Slots /\ x \notin Pool!FreeSlots
    BY FoundRests DEF Resting
<1>2. /\ LL!Remove(LevelOf(x), x, Open(orders[x]))
      /\ Unmap(id) /\ Pool!Release(x)
      /\ orders' = [orders EXCEPT ![x] = Blank]
      /\ incoming' = nullptr /\ clock' = clock
      /\ report' = NoReport /\ trade_volume' = trade_volume
    BY DEF Unbook, LevelOf, statVars
<1>3. \A y \in Slots \ {x} : orders'[y] = orders[y]
    BY <1>2 DEF IInv, TypeOK
<1>4. Pool!FreeSlots' = Pool!FreeSlots \cup {x}
    BY <1>1, <1>2, ReleaseSlot
<1>5. Resting' = Resting \ {x}
    BY <1>1, <1>2, <1>3, <1>4 DEF Resting
<1> QED BY <1>1, <1>2, <1>3, <1>5 DEF LL!Remove

\* modify_order in place changes the quantity of one resting order.
LEMMA ModifyDownEffect ==
    ASSUME IInv, NEW id \in OrderIds, NEW q \in Quantities \cup {0},
           ModifyDown(id, q), NEW x, x = order_map[HashSlot(id)]
    PROVE  /\ x \in Resting /\ orders[x].id = id
           /\ q \in Nat /\ q <= Open(orders[x])
           /\ Resting' = Resting
           /\ SameOrder(orders'[x], orders[x])
           /\ Open(orders'[x]) = q
           /\ \A y \in Slots \ {x} : orders'[y] = orders[y]
           /\ total_quantity' = [total_quantity EXCEPT
                                    ![LevelOf(x)] = @ - (Open(orders[x]) - q)]
           /\ UNCHANGED <<order_count, order_map, incoming, readd, clock,
                          trade_volume>>
           /\ report' = NoReport
<1> USE NullFacts, Derived
<1>1. x \in Resting /\ orders[x].id = id /\ x \in Slots /\ orders[x].status # "Filled"
    BY FoundRests DEF ModifyDown, Idle, Resting
<1>2. q \in Nat /\ q <= Open(orders[x])
    BY BookAssumption DEF ModifyDown
<1> DEFINE new == [orders[x] EXCEPT !.quantity = orders[x].filled_quantity + q]
<1>3. /\ orders' = [orders EXCEPT ![x] = new]
      /\ LL!Reduce(LevelOf(x), Open(orders[x]) - q)
      /\ UNCHANGED <<order_map, incoming, readd, clock, trade_volume, free_stack>>
      /\ report' = NoReport
    BY DEF ModifyDown, Resized, callVars, statVars
<1>4. /\ orders[x] \in OrderType /\ orders[x].filled_quantity \in Nat
    BY <1>1 DEF OrderType
<1>5. /\ SameOrder(new, orders[x]) /\ new.status = orders[x].status
      /\ new.quantity = orders[x].filled_quantity + q
      /\ new.filled_quantity = orders[x].filled_quantity
    BY <1>4 DEF SameOrder, OrderType
<1>6. Open(new) = q
    BY <1>2, <1>4, <1>5 DEF Open
<1> HIDE DEF new
<1>7. orders'[x] = new /\ \A y \in Slots \ {x} : orders'[y] = orders[y]
    BY <1>1, <1>3 DEF IInv, TypeOK
<1>8. Pool!FreeSlots' = Pool!FreeSlots
    BY <1>3 DEF Pool!FreeSlots
<1>9. Resting' = Resting
    BY <1>1, <1>3, <1>5, <1>7, <1>8 DEF Resting
<1> QED BY <1>1, <1>2, <1>3, <1>5, <1>6, <1>7, <1>9 DEF LL!Reduce

\* The end of add_order: what is not filled rests.
LEMMA FinishEffect ==
    ASSUME IInv, FinishAdd
    PROVE  /\ incoming # nullptr
           /\ orders' = orders /\ order_map' = order_map
           /\ incoming' = nullptr /\ readd' = NoMessage
           /\ clock' = clock /\ report' = NoReport /\ trade_volume' = trade_volume
           /\ \/ /\ Open(orders[incoming]) = 0
                 /\ Resting' = Resting
                 /\ UNCHANGED <<total_quantity, order_count>>
              \/ /\ Open(orders[incoming]) # 0
                 /\ Resting' = Resting \cup {incoming}
                 /\ total_quantity' = [total_quantity EXCEPT
                        ![LevelOf(incoming)] = @ + orders[incoming].quantity]
                 /\ order_count' = [order_count EXCEPT ![LevelOf(incoming)] = @ + 1]
<1> USE NullFacts, Derived
<1>1. /\ incoming # nullptr /\ incoming \in Slots /\ incoming \notin Resting
      /\ incoming \notin Pool!FreeSlots
      /\ orders[incoming].status = "Filled" <=> Open(orders[incoming]) = 0
    BY BookFacts DEF FinishAdd, IInv, PoolSound
<1>2. /\ orders' = orders /\ order_map' = order_map /\ free_stack' = free_stack
      /\ incoming' = nullptr /\ readd' = NoMessage
      /\ clock' = clock /\ report' = NoReport /\ trade_volume' = trade_volume
    BY DEF FinishAdd, statVars
<1>3. Pool!FreeSlots' = Pool!FreeSlots
    BY <1>2 DEF Pool!FreeSlots
<1>4. CASE orders[incoming].status = "Filled"
    <2>1. Resting' = Resting
        BY <1>1, <1>2, <1>3, <1>4 DEF Resting
    <2>2. UNCHANGED <<total_quantity, order_count>>
        BY <1>4 DEF FinishAdd, levelVars
    <2> QED BY <1>1, <1>2, <1>4, <2>1, <2>2
<1>5. CASE orders[incoming].status # "Filled"
    <2>1. Resting' = Resting \cup {incoming}
        BY <1>1, <1>2, <1>3, <1>5 DEF Resting
    <2>2. LL!PushBack(LevelOf(incoming), incoming, orders[incoming].quantity)
        BY <1>5 DEF FinishAdd
    <2> QED BY <1>1, <1>2, <1>5, <2>1, <2>2 DEF LL!PushBack
<1> QED BY <1>4, <1>5

\* One iteration of match(): x, the first of the other side, and the incoming
\* order lose q, and x leaves when nothing of it is open.
Matched(x, q) ==
    /\ x \in Resting /\ x = head[LevelOf(x)]
    /\ orders[x].side = Opposite(orders[incoming].side)
    /\ orders[x].price = best[orders[x].side]
    /\ Accepts(orders[incoming].side, orders[incoming].price, orders[x].price)
    /\ q \in Nat
    /\ q = IF Open(orders[x]) < Open(orders[incoming])
           THEN Open(orders[x]) ELSE Open(orders[incoming])
    /\ Open(orders[incoming]) > 0
    /\ SameOrder(orders'[incoming], orders[incoming])
    /\ Open(orders'[incoming]) = Open(orders[incoming]) - q
    /\ \A y \in Slots \ {x, incoming} : orders'[y] = orders[y]
    /\ UNCHANGED <<incoming, readd, clock>>
    /\ trade_volume' = trade_volume + q
    /\ report' = Report(orders[x], orders[incoming], q)
    /\ \/ /\ Open(orders[x]) = q
          /\ Resting' = Resting \ {x}
          /\ total_quantity' = [total_quantity EXCEPT
                                    ![LevelOf(x)] = @ - Open(orders[x])]
          /\ order_count' = [order_count EXCEPT ![LevelOf(x)] = @ - 1]
          /\ Unmap(orders[x].id)
       \/ /\ Open(orders[x]) > q
          /\ Resting' = Resting
          /\ SameOrder(orders'[x], orders[x])
          /\ Open(orders'[x]) = Open(orders[x]) - q
          /\ total_quantity' = [total_quantity EXCEPT ![LevelOf(x)] = @ - q]
          /\ UNCHANGED <<order_count, order_map>>

LEMMA MatchEffect ==
    ASSUME IInv, MatchStep
    PROVE  incoming # nullptr /\ \E x, q : Matched(x, q)
<1> DEFINE o == orders[incoming]
           s == Opposite(o.side)
           p == best[s]
           x == head[<<s, p>>]
           q == IF Open(orders[x]) < Open(o) THEN Open(orders[x]) ELSE Open(o)
           r == Filled(orders[x], q)
           i == Filled(o, q)
           x1 == IF r.status = "Filled" THEN Blank ELSE r
<1> USE NullFacts, Derived
<1>1. /\ incoming # nullptr
      /\ incoming \in Slots /\ incoming \notin Pool!FreeSlots
      /\ incoming \notin Resting
      /\ o \in OrderType
      /\ s \in Side /\ p \in Price /\ <<s, p>> \in Level
      /\ o.quantity > o.filled_quantity
      /\ Accepts(o.side, o.price, p)
    BY PriceFacts DEF MatchStep, CanMatch, IInv, TypeOK, PoolSound, Opposite, Side
<1>2. x # nullptr
    BY <1>1 DEF MatchStep, CanMatch, Emptied
<1>3. /\ x \in Resting /\ LevelOf(x) = <<s, p>>
    BY <1>1, <1>2 DEF IInv, LinksSound, LL!WellLinked
<1>4. /\ x \in Slots /\ x \notin Pool!FreeSlots /\ x # incoming
      /\ orders[x] \in OrderType
      /\ orders[x].side = s /\ orders[x].price = p
      /\ orders[x].status # "Filled"
    BY <1>1, <1>3 DEF Resting, LevelOf
<1>5. Fill(x, q) /\ UNCHANGED <<incoming, readd, clock>>
    BY <1>2 DEF MatchStep, callVars
<1>6. /\ orders[x].quantity \in Nat /\ orders[x].filled_quantity \in Nat
      /\ o.quantity \in Nat /\ o.filled_quantity \in Nat
      /\ orders[x].filled_quantity <= orders[x].quantity
    BY <1>1, <1>4 DEF OrderType, IInv, FillsSound
<1>7. /\ orders' = [orders EXCEPT ![x] = x1, ![incoming] = i]
      /\ trade_volume' = trade_volume + q
      /\ report' = Report(orders[x], o, q)
    BY <1>4, <1>5 DEF Fill
<1>8. IF r.status = "Filled"
      THEN /\ LL!Remove(LevelOf(x), x, q + Open(r))
           /\ Unmap(r.id) /\ Pool!Release(x)
      ELSE /\ LL!Reduce(LevelOf(x), q)
           /\ UNCHANGED <<order_map, free_stack>>
    BY <1>3, <1>5 DEF Fill
<1>9. q = IF Open(orders[x]) < Open(o) THEN Open(orders[x]) ELSE Open(o)
    OBVIOUS
<1>10. x = head[LevelOf(x)]
    BY <1>3
<1> HIDE DEF o, s, p, x, q
<1>11. Open(orders[x]) \in Nat /\ Open(o) \in Nat /\ Open(o) > 0
    BY <1>1, <1>6 DEF Open
<1>12. q \in Nat /\ q <= Open(orders[x]) /\ q <= Open(o)
    BY <1>9, <1>11
<1>13. /\ r \in OrderType /\ SameOrder(r, orders[x])
       /\ r.quantity = orders[x].quantity
       /\ r.filled_quantity = orders[x].filled_quantity + q
       /\ r.status = "Filled" <=> r.filled_quantity >= r.quantity
    BY <1>4, <1>12, FilledType DEF SameOrder
<1>14. /\ i \in OrderType /\ SameOrder(i, o)
       /\ i.quantity = o.quantity
       /\ i.filled_quantity = o.filled_quantity + q
    BY <1>1, <1>12, FilledType DEF SameOrder
<1> HIDE DEF r, i
<1>15. /\ Open(r) = Open(orders[x]) - q /\ Open(i) = Open(o) - q
       /\ r.status = "Filled" <=> Open(orders[x]) = q
    BY <1>6, <1>12, <1>13, <1>14 DEF Open
<1>16. /\ orders'[x] = x1 /\ orders'[incoming] = i
       /\ \A y \in Slots \ {x, incoming} : orders'[y] = orders[y]
    BY <1>1, <1>4, <1>7 DEF IInv, TypeOK
<1>17. /\ x \in Resting /\ x = head[LevelOf(x)]
       /\ orders[x].side = Opposite(o.side)
       /\ orders[x].price = best[orders[x].side]
       /\ Accepts(o.side, o.price, orders[x].price)
    BY <1>1, <1>3, <1>4, <1>10 DEF s, p
<1>18. CASE r.status = "Filled"
    <2>1. Pool!FreeSlots' = Pool!FreeSlots \cup {x}
        BY <1>4, <1>8, <1>18, ReleaseSlot
    <2>2. Resting' = Resting \ {x}
        BY <1>4, <1>5, <1>16, <2>1 DEF Resting
    <2>3. q + Open(r) = Open(orders[x])
        BY <1>11, <1>12, <1>15
    <2>4. /\ total_quantity' = [total_quantity EXCEPT
                                    ![LevelOf(x)] = @ - Open(orders[x])]
          /\ order_count' = [order_count EXCEPT ![LevelOf(x)] = @ - 1]
        BY <1>8, <1>18, <2>3 DEF LL!Remove
    <2>5. Unmap(orders[x].id)
        BY <1>8, <1>13, <1>18 DEF SameOrder
    <2>6. Matched(x, q)
        BY <1>5, <1>7, <1>9, <1>11, <1>12, <1>14, <1>15, <1>16, <1>17, <1>18,
           <2>2, <2>4, <2>5 DEF Matched, o
    <2> QED BY <1>1, <2>6
<1>19. CASE r.status # "Filled"
    <2>1. Pool!FreeSlots' = Pool!FreeSlots
        BY <1>8, <1>19 DEF Pool!FreeSlots
    <2>2. orders'[x] = r
        BY <1>16, <1>19
    <2>3. Resting' = Resting
        BY <1>4, <1>5, <1>16, <1>19, <2>1, <2>2 DEF Resting
    <2>4. /\ total_quantity' = [total_quantity EXCEPT ![LevelOf(x)] = @ - q]
          /\ UNCHANGED <<order_count, order_map>>
        BY <1>8, <1>19 DEF LL!Reduce
    <2>5. Open(orders[x]) > q
        BY <1>11, <1>12, <1>15, <1>19
    <2>6. Matched(x, q)
        BY <1>5, <1>7, <1>9, <1>11, <1>12, <1>13, <1>14, <1>15, <1>16, <1>17,
           <2>2, <2>3, <2>4, <2>5 DEF Matched, o
    <2> QED BY <1>1, <2>6
<1> QED BY <1>18, <1>19

-----------------------------------------------------------------------------
(***************************************************************************)
(* The order-id map finds every resting order.  What is needed is only     *)
(* that no two orders that are live at the same time collide in it.        *)
(***************************************************************************)
Live == Resting \cup ({incoming} \ {nullptr})

LiveApart ==
    \A x, y \in Live :
        HashSlot(orders[x].id) = HashSlot(orders[y].id) => x = y

AllMapped == \A x \in Live : order_map[HashSlot(orders[x].id)] = x

LEMMA InitLive == ASSUME Init PROVE Live = {} /\ Resting = {}
<1>1. IInv /\ incoming = nullptr /\ \A x \in Slots : orders[x] = Blank
    BY InitInv DEF Init
<1>2. \A x \in Resting : FALSE
    BY <1>1, BookFacts, PriceFacts DEF Blank
<1> QED BY <1>1, <1>2 DEF Live

LEMMA MappedStep ==
    ASSUME IInv, AllMapped, LiveApart, LiveApart', [Next]_vars
    PROVE  AllMapped'
<1> USE BookFacts, NullFacts
<1>1. /\ \A x \in Live : HashSlot(orders[x].id) \in DOMAIN order_map
      /\ \A id \in OrderIds : HashSlot(id) \in DOMAIN order_map
    BY HashType DEF Live, IInv, TypeOK
<1>2. ASSUME UNCHANGED <<orders, order_map>>, Live' \subseteq Live
      PROVE  AllMapped'
    BY <1>2 DEF AllMapped
<1>3. ASSUME NEW msg \in AddMessage, NEW o, incoming = nullptr, BeginAdd(msg, o)
      PROVE  AllMapped'
    <2>1. /\ o \in Slots \ Resting /\ Resting' = Resting /\ incoming' = o
          /\ \A x \in Slots \ {o} : orders'[x] = orders[x]
          /\ orders'[o].id = msg.order_id
          /\ order_map' = [order_map EXCEPT ![HashSlot(msg.order_id)] = o]
        BY <1>3, AddEffect
    <2>2. Live' = Resting \cup {o}
        BY <2>1 DEF Live
    <2>3. order_map'[HashSlot(msg.order_id)] = o
        BY <1>1, <2>1 DEF AddMessage
    <2>4. ASSUME NEW x \in Resting
          PROVE  order_map'[HashSlot(orders'[x].id)] = x
        <3>1. orders'[x] = orders[x] /\ x # o
            BY <2>1
        <3>2. HashSlot(orders[x].id) # HashSlot(msg.order_id)
            BY <2>1, <2>2, <3>1 DEF LiveApart
        <3> QED BY <2>1, <3>1, <3>2 DEF AllMapped, Live
    <2> QED BY <2>1, <2>2, <2>3, <2>4 DEF AllMapped
<1>4. ASSUME NEW id \in OrderIds, Found(id), incoming = nullptr, Unbook(id)
      PROVE  AllMapped'
    <2>1. PICK x \in Resting :
            /\ orders[x].id = id /\ Resting' = Resting \ {x}
            /\ \A y \in Slots \ {x} : orders'[y] = orders[y]
            /\ Unmap(id) /\ incoming' = nullptr
        BY <1>4, UnbookEffect
    <2>2. ASSUME NEW y \in Live'
          PROVE  order_map'[HashSlot(orders'[y].id)] = y
        <3>1. y \in Resting /\ y # x /\ orders'[y] = orders[y]
            BY <2>1 DEF Live
        <3>2. HashSlot(orders[y].id) # HashSlot(id)
            BY <2>1, <3>1 DEF LiveApart, Live
        <3> QED BY <2>1, <3>1, <3>2 DEF AllMapped, Live, Unmap
    <2> QED BY <2>2 DEF AllMapped
<1>5. ASSUME NEW id \in OrderIds, NEW q \in Quantities \cup {0}, ModifyDown(id, q)
      PROVE  AllMapped'
    <2>1. PICK x \in Resting :
            /\ Resting' = Resting /\ SameOrder(orders'[x], orders[x])
            /\ \A y \in Slots \ {x} : orders'[y] = orders[y]
            /\ UNCHANGED <<order_map, incoming>>
        BY <1>5, ModifyDownEffect
    <2>2. Live' = Live
        BY <2>1 DEF Live
    <2>3. \A y \in Live : orders'[y].id = orders[y].id
        BY <2>1 DEF Live, SameOrder
    <2> QED BY <2>1, <2>2, <2>3 DEF AllMapped
<1>6. CASE MatchStep
    <2>1. PICK x, q : Matched(x, q)
        BY <1>6, MatchEffect
    <2>2. incoming # nullptr /\ incoming \in Live /\ incoming' = incoming
        BY <1>6, <2>1, MatchEffect DEF Live, Matched
    <2>3. CASE Resting' = Resting \ {x} /\ Unmap(orders[x].id)
        <3>1. ASSUME NEW y \in Live'
              PROVE  order_map'[HashSlot(orders'[y].id)] = y
            <4>1. y \in Live /\ y # x
                BY <2>1, <2>2, <2>3 DEF Live, Matched
            <4>2. orders'[y].id = orders[y].id
                BY <2>1, <4>1 DEF Live, Matched, SameOrder
            <4>3. HashSlot(orders[y].id) # HashSlot(orders[x].id)
                BY <2>1, <4>1 DEF LiveApart, Live, Matched
            <4> QED BY <1>1, <2>3, <4>1, <4>2, <4>3 DEF AllMapped, Unmap
        <3> QED BY <3>1 DEF AllMapped
    <2>4. CASE Resting' = Resting /\ order_map' = order_map
                  /\ SameOrder(orders'[x], orders[x])
        <3>1. Live' = Live
            BY <2>2, <2>4 DEF Live
        <3>2. \A y \in Live : orders'[y].id = orders[y].id
            BY <2>1, <2>4 DEF Live, Matched, SameOrder
        <3> QED BY <2>4, <3>1, <3>2 DEF AllMapped
    <2> QED BY <2>1, <2>3, <2>4 DEF Matched
<1>7. CASE FinishAdd
    <2>1. /\ UNCHANGED <<orders, order_map>> /\ incoming # nullptr /\ incoming' = nullptr
          /\ Resting' = Resting \/ Resting' = Resting \cup {incoming}
        BY <1>7, FinishEffect
    <2>2. Live' \subseteq Live
        BY <2>1 DEF Live
    <2> QED BY <1>2, <2>1, <2>2
<1>8. ASSUME UNCHANGED <<orders, free_stack, order_map, incoming>>
      PROVE  AllMapped'
    <2>1. Live' = Live
        BY <1>8 DEF Live, Resting, Pool!FreeSlots
    <2> QED BY <1>2, <1>8, <2>1
<1>9. CASE UNCHANGED vars
    BY <1>8, <1>9 DEF vars, callVars
<1>10. CASE RejectAdd
    BY <1>8, <1>10 DEF RejectAdd, callVars
<1>11. ASSUME NEW id \in OrderIds, Miss(id)
       PROVE  AllMapped'
    BY <1>8, <1>11 DEF Miss, callVars
<1>12. ASSUME NEW msg \in AddMessage, AddOrder(msg)
       PROVE  AllMapped'
    BY <1>3, <1>12 DEF AddOrder, Idle
<1>13. CASE ReAdd
    BY <1>3, <1>13 DEF ReAdd, IInv, TypeOK
<1>14. ASSUME NEW id \in OrderIds, CancelOrder(id)
       PROVE  AllMapped'
    BY <1>4, <1>14 DEF CancelOrder, Idle
<1>15. ASSUME NEW id \in OrderIds, NEW q \in Quantities, ModifyUp(id, q)
       PROVE  AllMapped'
    BY <1>4, <1>15 DEF ModifyUp, Idle
<1>16. CASE UpdateBest
    BY <1>8, <1>16 DEF UpdateBest, callVars
<1> QED BY <1>5, <1>6, <1>7, <1>9, <1>10, <1>11, <1>12, <1>13, <1>14, <1>15, <1>16
        DEF Next
============================================================================
