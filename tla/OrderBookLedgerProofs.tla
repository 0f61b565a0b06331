----------------------- MODULE OrderBookLedgerProofs -----------------------
(***************************************************************************)
(* Theorems about OrderBookLedger for every value of its constants: the    *)
(* accounts of quantities and orders, the order-id map, and that the book  *)
(* implements Market.                                                      *)
(***************************************************************************)
EXTENDS OrderBookLedger, OrderBookSteps

-----------------------------------------------------------------------------
(***************************************************************************)
(* The order-id map finds every resting order.                             *)
(***************************************************************************)
\* Every step of the ledger is a step of the book.
LEMMA LedgerSteps == LedgerNext => Next
BY DEF LedgerNext, Running, Next

LEMMA LedgerRefines == LedgerSpec => Spec
<1>1. [LedgerNext]_ledgerVars => [Next]_vars
    BY LedgerSteps DEF ledgerVars
<1>2. LedgerInit => Init
    BY DEF LedgerInit
<1> QED BY <1>1, <1>2, PTL DEF LedgerSpec, Spec

\* Whatever the ids are, cancel_order and modify_order find every resting
\* order as long as no two live orders' ids meet in the map.
THEOREM RestingIsMapped == Spec => ([]LiveApart => []MapComplete)
<1>1. Init => AllMapped
    BY InitLive DEF AllMapped
<1>2. IInv /\ AllMapped /\ LiveApart /\ LiveApart' /\ [Next]_vars => AllMapped'
    BY MappedStep
<1>3. AllMapped => MapComplete
    BY DEF AllMapped, MapComplete, Live
<1> QED BY <1>1, <1>2, <1>3, InvariantHolds, PTL DEF Spec

\* Numbered as LedgerNext numbers them, orders have different ids: those of
\* the live orders, and that of the order modify_order adds again, have been
\* given out and are each given to one.
NumbersApart ==
    /\ \A x \in Live : orders[x].id < clock
    /\ \A x, y \in Live : orders[x].id = orders[y].id => x = y
    /\ readd # NoMessage =>
        /\ readd.order_id < clock
        /\ incoming = nullptr =>
              \A x \in Live : orders[x].id # readd.order_id

LEMMA NumbersStep ==
    ASSUME IInv, NumbersApart, [LedgerNext]_ledgerVars
    PROVE  NumbersApart'
<1> USE BookFacts, NullFacts
<1>0. /\ clock \in Nat /\ readd \in AddMessage \cup {NoMessage}
      /\ \A x \in Live : x \in Slots /\ orders[x].id \in Nat
      /\ \A id \in OrderIds : id \in Nat
    BY BookAssumption DEF IInv, TypeOK, Live
<1>1. ASSUME NEW msg \in AddMessage, NEW o, incoming = nullptr, BeginAdd(msg, o),
             msg.order_id <= clock,
             \A x \in Live : orders[x].id # msg.order_id,
             readd = NoMessage \/ readd = msg
      PROVE  NumbersApart'
    <2>1. /\ o \in Slots \ Resting /\ Resting' = Resting /\ incoming' = o
          /\ \A x \in Slots \ {o} : orders'[x] = orders[x]
          /\ orders'[o].id = msg.order_id
          /\ clock' = clock + 1 /\ readd' = readd
        BY <1>1, AddEffect
    <2>2. Live' = Live \cup {o} /\ o \notin Live
        BY <1>1, <2>1 DEF Live
    <2>3. \A x \in Live : orders'[x] = orders[x]
        BY <1>0, <2>1, <2>2
    <2>4. msg.order_id \in Nat /\ msg.order_id < clock'
        BY <1>0, <1>1, <2>1 DEF AddMessage
    <2>5. \A x \in Live : orders[x].id < clock'
        BY <1>0, <2>1 DEF NumbersApart
    <2>6. \A x \in Live' : orders'[x].id < clock'
        BY <2>1, <2>2, <2>3, <2>4, <2>5
    <2>7. \A x, y \in Live' : orders'[x].id = orders'[y].id => x = y
        BY <1>1, <2>1, <2>2, <2>3 DEF NumbersApart
    <2>8. incoming' # nullptr
        BY <2>1
    <2>9. readd' # NoMessage => readd'.order_id < clock'
        BY <1>1, <2>1, <2>4
    <2> QED BY <2>6, <2>7, <2>8, <2>9 DEF NumbersApart
<1>2. ASSUME Live' \subseteq Live, clock' = clock,
             \A x \in Live' : orders'[x].id = orders[x].id,
             \/ readd' = NoMessage
             \/ readd' = readd /\ incoming' = incoming
      PROVE  NumbersApart'
    BY <1>2 DEF NumbersApart
<1>3. ASSUME NEW id \in OrderIds, Found(id), incoming = nullptr, Unbook(id)
      PROVE  /\ Live' \subseteq Live /\ clock' = clock /\ incoming' = nullptr
             /\ \A x \in Live' : orders'[x].id = orders[x].id /\ orders[x].id # id
             /\ id < clock
    <2>1. PICK x \in Resting :
            /\ orders[x].id = id /\ Resting' = Resting \ {x}
            /\ \A y \in Slots \ {x} : orders'[y] = orders[y]
            /\ incoming' = nullptr /\ clock' = clock
        BY <1>3, UnbookEffect
    <2>2. Live' = Live \ {x} /\ x \in Live
        BY <1>3, <2>1 DEF Live
    <2> QED BY <1>0, <2>1, <2>2 DEF NumbersApart
<1>4. ASSUME NEW msg \in AddMessage, msg.order_id = clock, AddOrder(msg)
      PROVE  NumbersApart'
    <2>1. PICK o \in Slots : BeginAdd(msg, o)
        BY <1>4 DEF AddOrder
    <2>2. \A x \in Live : orders[x].id # msg.order_id
        BY <1>0, <1>4 DEF NumbersApart
    <2>3. incoming = nullptr /\ readd = NoMessage /\ msg.order_id <= clock
        BY <1>0, <1>4 DEF AddOrder, Idle
    <2> QED BY <1>1, <2>1, <2>2, <2>3
<1>5. CASE ReAdd
    <2>1. /\ readd \in AddMessage /\ incoming = nullptr /\ readd.order_id \in Nat
          /\ readd.order_id < clock
          /\ \A x \in Live : orders[x].id # readd.order_id
        BY <1>0, <1>5 DEF ReAdd, NumbersApart, AddMessage
    <2>2. PICK o \in Slots : BeginAdd(readd, o)
        BY <1>5 DEF ReAdd
    <2>3. readd.order_id <= clock
        BY <1>0, <2>1
    <2> QED BY <1>1, <2>1, <2>2, <2>3
<1>6. ASSUME NEW id \in OrderIds, CancelOrder(id)
      PROVE  NumbersApart'
    <2>1. /\ Found(id) /\ Unbook(id) /\ incoming = nullptr
          /\ readd' = readd /\ incoming' = incoming
        BY <1>6 DEF CancelOrder, Idle, Unbook
    <2>2. /\ Live' \subseteq Live /\ clock' = clock
          /\ \A x \in Live' : orders'[x].id = orders[x].id
        BY <1>3, <2>1
    <2> QED BY <1>2, <2>1, <2>2
<1>7. ASSUME NEW id \in OrderIds, NEW q \in Quantities, ModifyUp(id, q)
      PROVE  NumbersApart'
    <2>1. /\ Found(id) /\ Unbook(id) /\ incoming = nullptr
          /\ readd'.order_id = id
        BY <1>7 DEF ModifyUp, Idle, ReaddMessage
    <2>2. /\ Live' \subseteq Live /\ clock' = clock /\ incoming' = nullptr
          /\ \A x \in Live' : orders'[x].id = orders[x].id /\ orders[x].id # id
          /\ id < clock
        BY <1>3, <2>1
    <2> QED BY <2>1, <2>2 DEF NumbersApart
<1>8. ASSUME NEW id \in OrderIds, NEW q \in Quantities \cup {0}, ModifyDown(id, q)
      PROVE  NumbersApart'
    <2>1. PICK x \in Resting :
            /\ Resting' = Resting /\ SameOrder(orders'[x], orders[x])
            /\ \A y \in Slots \ {x} : orders'[y] = orders[y]
            /\ UNCHANGED <<incoming, readd, clock>>
        BY <1>8, ModifyDownEffect
    <2>2. Live' = Live
        BY <2>1 DEF Live
    <2>3. \A y \in Live : orders'[y].id = orders[y].id
        BY <1>0, <2>1 DEF SameOrder
    <2> QED BY <1>2, <2>1, <2>2, <2>3
<1>9. CASE MatchStep
    <2>1. PICK x, q : Matched(x, q)
        BY <1>9, MatchEffect
    <2>2. /\ UNCHANGED <<incoming, readd, clock>>
          /\ SameOrder(orders'[incoming], orders[incoming])
          /\ \A y \in Slots \ {x, incoming} : orders'[y] = orders[y]
          /\ \/ Resting' = Resting \ {x}
             \/ Resting' = Resting /\ SameOrder(orders'[x], orders[x])
        BY <2>1 DEF Matched
    <2>3. x # incoming /\ incoming # nullptr
        BY <1>9, <2>1, MatchEffect DEF Matched
    <2>4. Live' \subseteq Live
        BY <2>2 DEF Live
    <2>5. \A y \in Live' : orders'[y].id = orders[y].id
        BY <1>0, <2>2, <2>3, <2>4 DEF SameOrder, Live
    <2> QED BY <1>2, <2>2, <2>4, <2>5
<1>10. CASE FinishAdd
    <2>1. /\ orders' = orders /\ incoming # nullptr /\ incoming' = nullptr
          /\ readd' = NoMessage /\ clock' = clock
          /\ Resting' = Resting \/ Resting' = Resting \cup {incoming}
        BY <1>10, FinishEffect
    <2>2. Live' \subseteq Live
        BY <2>1 DEF Live
    <2> QED BY <1>2, <2>1, <2>2
<1>11. ASSUME UNCHANGED <<orders, free_stack, incoming, readd, clock>>
       PROVE  NumbersApart'
    <2>1. Live' = Live
        BY <1>11 DEF Live, Resting, Pool!FreeSlots
    <2> QED BY <1>2, <1>11, <2>1
<1>12. CASE UNCHANGED ledgerVars
    BY <1>11, <1>12 DEF ledgerVars, vars, callVars
<1>13. CASE RejectAdd
    BY <1>11, <1>13 DEF RejectAdd, callVars
<1>14. ASSUME NEW id \in OrderIds, Miss(id)
       PROVE  NumbersApart'
    BY <1>11, <1>14 DEF Miss, callVars
<1>15. CASE UpdateBest
    BY <1>11, <1>15 DEF UpdateBest, callVars
<1> QED BY <1>4, <1>5, <1>6, <1>7, <1>8, <1>9, <1>10, <1>12, <1>13, <1>14, <1>15
        DEF LedgerNext, Running

\* No two ids of the feed meet in the map.
IdsHashApart == \A i, j \in OrderIds : HashSlot(i) = HashSlot(j) => i = j

\* With ids that do not collide and are numbered by the gateway's clients,
\* every resting order is found by its id: no fill, cancel or re-add removes
\* the entry of another order.
THEOREM LedgerIsMapped ==
    ASSUME IdsHashApart
    PROVE  LedgerSpec => []MapComplete
<1>1. LedgerInit => Live = {}
    BY InitLive DEF LedgerInit
<1>2. LedgerInit => NumbersApart
    BY <1>1 DEF NumbersApart, LedgerInit, Init
<1>3. IInv /\ NumbersApart /\ [LedgerNext]_ledgerVars => NumbersApart'
    BY NumbersStep
<1>4. IInv /\ NumbersApart => LiveApart
    BY BookFacts DEF IdsHashApart, NumbersApart, LiveApart, Live
<1> QED BY <1>2, <1>3, <1>4, InvariantHolds, LedgerRefines, RestingIsMapped, PTL
        DEF LedgerSpec

-----------------------------------------------------------------------------
(***************************************************************************)
(* The accounts of a level: its count and its total.                       *)
(***************************************************************************)

\* The ways a step changes the resting orders and what the levels say of them.
Kept ==
    /\ Resting' = Resting
    /\ \A y \in Resting : orders'[y] = orders[y]
    /\ UNCHANGED <<total_quantity, order_count>>

Left(x) ==
    /\ x \in Resting
    /\ Resting' = Resting \ {x}
    /\ \A y \in Resting' : orders'[y] = orders[y]
    /\ total_quantity' = [total_quantity EXCEPT ![LevelOf(x)] = @ - Open(orders[x])]
    /\ order_count' = [order_count EXCEPT ![LevelOf(x)] = @ - 1]

Shrunk(x, q) ==
    /\ x \in Resting /\ q \in Nat
    /\ Resting' = Resting
    /\ SameOrder(orders'[x], orders[x])
    /\ Open(orders'[x]) = Open(orders[x]) - q
    /\ \A y \in Resting \ {x} : orders'[y] = orders[y]
    /\ total_quantity' = [total_quantity EXCEPT ![LevelOf(x)] = @ - q]
    /\ order_count' = order_count

Joined(x) ==
    /\ x \in Slots \ Resting /\ LevelOf(x) \in Level
    /\ Resting' = Resting \cup {x}
    /\ orders' = orders
    /\ total_quantity' = [total_quantity EXCEPT ![LevelOf(x)] = @ + orders[x].quantity]
    /\ order_count' = [order_count EXCEPT ![LevelOf(x)] = @ + 1]

LEMMA RestingSteps ==
    ASSUME IInv, [Next]_vars
    PROVE  \/ Kept
           \/ \E x : Left(x) \/ Joined(x) \/ \E q : Shrunk(x, q)
<1> USE BookFacts, NullFacts
<1>1. ASSUME UNCHANGED <<orders, free_stack, incoming, levelVars>>
      PROVE  Kept
    BY <1>1 DEF Kept, Resting, Pool!FreeSlots, levelVars
<1>2. ASSUME NEW msg \in AddMessage, NEW o, incoming = nullptr, BeginAdd(msg, o)
      PROVE  Kept
    BY <1>2, AddEffect DEF Kept
<1>3. ASSUME NEW id \in OrderIds, Found(id), incoming = nullptr, Unbook(id)
      PROVE  \E x : Left(x)
    <2> DEFINE x == order_map[HashSlot(id)]
    <2>1. Left(x)
        BY <1>3, UnbookEffect DEF Left
    <2> QED BY <2>1
<1>4. ASSUME NEW id \in OrderIds, NEW q \in Quantities \cup {0}, ModifyDown(id, q)
      PROVE  \E x, d : Shrunk(x, d)
    <2> DEFINE x == order_map[HashSlot(id)]
               d == Open(orders[x]) - q
    <2>1. /\ x \in Resting /\ q \in Nat /\ q <= Open(orders[x])
          /\ Resting' = Resting /\ SameOrder(orders'[x], orders[x])
          /\ Open(orders'[x]) = q
          /\ \A y \in Slots \ {x} : orders'[y] = orders[y]
          /\ total_quantity' = [total_quantity EXCEPT ![LevelOf(x)] = @ - d]
          /\ order_count' = order_count
        BY <1>4, ModifyDownEffect
    <2> HIDE DEF x
    <2>2. d \in Nat /\ q = Open(orders[x]) - d
        BY <2>1
    <2> HIDE DEF d
    <2>3. Shrunk(x, d)
        BY <2>1, <2>2 DEF Shrunk
    <2> QED BY <2>3
<1>5. CASE MatchStep
    <2>1. PICK x, q : Matched(x, q)
        BY <1>5, MatchEffect
    <2>2. incoming \notin Resting
        BY <1>5, MatchEffect
    <2>3. Left(x) \/ Shrunk(x, q)
        BY <2>1, <2>2 DEF Matched, Left, Shrunk
    <2> QED BY <2>3
<1>6. CASE FinishAdd
    <2>1. Kept \/ Joined(incoming)
        BY <1>6, FinishEffect DEF Kept, Joined
    <2> QED BY <2>1
<1>7. CASE UNCHANGED vars
    BY <1>1, <1>7 DEF vars, callVars
<1>8. CASE RejectAdd
    BY <1>1, <1>8 DEF RejectAdd, callVars
<1>9. ASSUME NEW id \in OrderIds, Miss(id)
      PROVE  Kept
    BY <1>1, <1>9 DEF Miss, callVars
<1>10. ASSUME NEW msg \in AddMessage, AddOrder(msg)
       PROVE  Kept
    BY <1>2, <1>10 DEF AddOrder, Idle
<1>11. CASE ReAdd
    BY <1>2, <1>11 DEF ReAdd, IInv, TypeOK
<1>12. ASSUME NEW id \in OrderIds, CancelOrder(id)
       PROVE  \E x : Left(x)
    BY <1>3, <1>12 DEF CancelOrder, Idle
<1>13. ASSUME NEW id \in OrderIds, NEW q \in Quantities, ModifyUp(id, q)
       PROVE  \E x : Left(x)
    BY <1>3, <1>13 DEF ModifyUp, Idle
<1>14. CASE UpdateBest
    BY <1>1, <1>14 DEF UpdateBest, callVars
<1> QED BY <1>4, <1>5, <1>6, <1>7, <1>8, <1>9, <1>10, <1>11, <1>12, <1>13, <1>14
        DEF Next

\* The orders at a level, before and after such a step.
LEMMA LevelSets ==
    ASSUME IInv, NEW l \in Level
    PROVE  /\ IsFiniteSet(RestingAt(l)) /\ RestingAt(l) \subseteq Slots
           /\ Kept => RestingAt(l)' = RestingAt(l)
           /\ \A x, q : Shrunk(x, q) => RestingAt(l)' = RestingAt(l)
           /\ \A x : Left(x) => RestingAt(l)' = RestingAt(l) \ {x}
           /\ \A x : Joined(x) => RestingAt(l)' =
                IF LevelOf(x) = l THEN RestingAt(l) \cup {x} ELSE RestingAt(l)
<1> USE BookFacts
<1>1. IsFiniteSet(RestingAt(l)) /\ RestingAt(l) \subseteq Slots
    <2>1. IsFiniteSet(Slots)
        BY BookAssumption, FS_Interval DEF Slots, Pool!Slots
    <2>2. RestingAt(l) \subseteq Slots
        BY DEF RestingAt
    <2> QED BY <2>1, <2>2, FS_Subset
<1>2. RestingAt(l)' = {y \in Resting' : <<orders'[y].side, orders'[y].price>> = l}
    BY DEF RestingAt, LevelOf
<1>3. Kept => RestingAt(l)' = RestingAt(l)
    BY <1>2 DEF RestingAt, LevelOf, Kept
<1>4. ASSUME NEW x, NEW q, Shrunk(x, q)
      PROVE  RestingAt(l)' = RestingAt(l)
    <2>1. \A y \in Resting : /\ orders'[y].side = orders[y].side
                             /\ orders'[y].price = orders[y].price
        BY <1>4 DEF Shrunk, SameOrder
    <2> QED BY <1>2, <1>4, <2>1 DEF RestingAt, LevelOf, Shrunk
<1>5. ASSUME NEW x, Left(x)
      PROVE  RestingAt(l)' = RestingAt(l) \ {x}
    BY <1>2, <1>5 DEF RestingAt, LevelOf, Left
<1>6. ASSUME NEW x, Joined(x)
      PROVE  RestingAt(l)' =
                IF LevelOf(x) = l THEN RestingAt(l) \cup {x} ELSE RestingAt(l)
    BY <1>2, <1>6 DEF RestingAt, LevelOf, Joined
<1> QED BY <1>1, <1>3, <1>4, <1>5, <1>6

\* A level counts its resting orders, whatever joins and leaves it.
THEOREM CountIsExact == Spec => []CountExact
<1>1. ASSUME Init
      PROVE  CountExact
    <2>1. Resting = {} /\ \A l \in Level : order_count[l] = 0
        BY <1>1, InitLive DEF Init, LL!LevelInit
    <2>2. \A l \in Level : RestingAt(l) = {}
        BY <2>1 DEF RestingAt
    <2> QED BY <2>1, <2>2, FS_EmptySet DEF CountExact
<1>2. ASSUME IInv, CountExact, [Next]_vars
      PROVE  CountExact'
    <2> SUFFICES ASSUME NEW l \in Level
                 PROVE  order_count'[l] = Cardinality(RestingAt(l)')
        BY DEF CountExact
    <2>1. /\ IsFiniteSet(RestingAt(l)) /\ Cardinality(RestingAt(l)) \in Nat
          /\ order_count[l] = Cardinality(RestingAt(l))
          /\ order_count \in [Level -> Int]
        BY <1>2, LevelSets, FS_CardinalityType DEF CountExact, IInv, TypeOK
    <2>2. ASSUME Kept \/ \E x, q : Shrunk(x, q)
          PROVE  order_count'[l] = Cardinality(RestingAt(l)')
        BY <1>2, <2>1, <2>2, LevelSets DEF Kept, Shrunk
    <2>3. ASSUME NEW x, Left(x)
          PROVE  order_count'[l] = Cardinality(RestingAt(l)')
        <3>1. /\ RestingAt(l)' = RestingAt(l) \ {x}
              /\ x \in RestingAt(l) <=> LevelOf(x) = l
            BY <1>2, <2>3, LevelSets DEF RestingAt, Left
        <3>2. Cardinality(RestingAt(l) \ {x}) =
                IF x \in RestingAt(l) THEN Cardinality(RestingAt(l)) - 1
                ELSE Cardinality(RestingAt(l))
            BY <2>1, FS_RemoveElement
        <3>3. order_count'[l] =
                IF LevelOf(x) = l THEN order_count[l] - 1 ELSE order_count[l]
            BY <2>1, <2>3 DEF Left
        <3> QED BY <2>1, <3>1, <3>2, <3>3
    <2>4. ASSUME NEW x, Joined(x)
          PROVE  order_count'[l] = Cardinality(RestingAt(l)')
        <3>1. /\ RestingAt(l)' = IF LevelOf(x) = l THEN RestingAt(l) \cup {x}
                                 ELSE RestingAt(l)
              /\ x \notin RestingAt(l)
            BY <1>2, <2>4, LevelSets DEF RestingAt, Joined
        <3>2. Cardinality(RestingAt(l) \cup {x}) = Cardinality(RestingAt(l)) + 1
            BY <2>1, <3>1, FS_AddElement
        <3>3. order_count'[l] =
                IF LevelOf(x) = l THEN order_count[l] + 1 ELSE order_count[l]
            BY <2>1, <2>4 DEF Joined
        <3> QED BY <2>1, <3>1, <3>2, <3>3
    <2> QED BY <1>2, <2>2, <2>3, <2>4, RestingSteps
<1>3. Init => CountExact
    BY <1>1
<1>4. IInv /\ CountExact /\ [Next]_vars => CountExact'
    BY <1>2
<1> QED BY <1>3, <1>4, InvariantHolds, PTL DEF Spec

\* OpenIn is a sum of the open quantities of the orders of a set.
OpenQuantity(f, S) == [x \in S |-> Open(f[x])]
OpenSum(f, S) == MapThenSumSet(LAMBDA x : Open(f[x]), S)

LEMMA OpenSumIs ==
    ASSUME NEW f, NEW S, IsFiniteSet(S)
    PROVE  OpenSum(f, S) = SumOf(OpenQuantity(f, S), S)
<1> DEFINE w == OpenQuantity(f, S)
           Fits(g) == g = [s \in SUBSET S |->
                IF s = {} THEN 0 ELSE Open(f[Pick(s)]) + g[s \ {Pick(s)}]]
           it == CHOOSE g : Fits(g)
<1>1. PICK g : IsFold(g, w, S) /\ SumOf(w, S) = g[S]
    BY SumFolds
<1>2. \A s \in SUBSET S : s # {} => w[Pick(s)] = Open(f[Pick(s)])
    BY PickIn DEF OpenQuantity
<1> HIDE DEF w
<1>3. Fits(g)
    BY <1>1, <1>2 DEF IsFold
<1>4. Fits(it)
    BY <1>3
<1>5. OpenSum(f, S) = it[S]
    BY DEF OpenSum, MapThenSumSet, MapThenFoldSet, Pick
<1> HIDE DEF it
<1>6. IsFold(it, w, S)
    BY <1>2, <1>4 DEF IsFold
<1>7. it[S] = g[S]
    BY <1>1, <1>6, FoldAgrees
<1> QED BY <1>1, <1>5, <1>7 DEF w

\* How the sum changes with the set and with the orders in it.
LEMMA OpenSums ==
    ASSUME NEW S, IsFiniteSet(S), NEW f, \A x \in S : Open(f[x]) \in Int
    PROVE  /\ OpenSum(f, S) \in Int
           /\ OpenSum(f, {}) = 0
           /\ \A g : (\A x \in S : Open(g[x]) = Open(f[x])) =>
                OpenSum(g, S) = OpenSum(f, S)
           /\ \A x \in S : OpenSum(f, S) = Open(f[x]) + OpenSum(f, S \ {x})
           /\ \A x : x \notin S /\ Open(f[x]) \in Int =>
                OpenSum(f, S \cup {x}) = Open(f[x]) + OpenSum(f, S)
<1>1. OpenSum(f, S) \in Int
    <2>1. \A x \in S : OpenQuantity(f, S)[x] \in Int
        BY DEF OpenQuantity
    <2> QED BY <2>1, OpenSumIs, SumSplit
<1>2. OpenSum(f, {}) = 0
    BY OpenSumIs, SumEmpty, FS_EmptySet
<1>3. ASSUME NEW g, \A x \in S : Open(g[x]) = Open(f[x])
      PROVE  OpenSum(g, S) = OpenSum(f, S)
    <2>1. OpenQuantity(g, S) = OpenQuantity(f, S)
        BY <1>3 DEF OpenQuantity
    <2> QED BY <2>1, OpenSumIs
<1>4. ASSUME NEW x \in S
      PROVE  OpenSum(f, S) = Open(f[x]) + OpenSum(f, S \ {x})
    <2> DEFINE T == S \ {x}
               w == OpenQuantity(f, S)
    <2>1. IsFiniteSet(T) /\ T \subseteq S
        BY FS_Subset
    <2>2. \A y \in S : w[y] \in Int /\ w[y] = Open(f[y])
        BY DEF OpenQuantity
    <2>3. \A y \in T : OpenQuantity(f, T)[y] = w[y]
        BY <2>2 DEF OpenQuantity
    <2> HIDE DEF w
    <2>4. SumOf(w, S) = w[x] + SumOf(w, S \ {x})
        BY <2>2, SumSplit
    <2>5. SumOf(OpenQuantity(f, T), T) = SumOf(w, T)
        BY <2>1, <2>3, SumAgrees
    <2>6. OpenSum(f, S) = SumOf(w, S) /\ OpenSum(f, T) = SumOf(OpenQuantity(f, T), T)
        BY <2>1, OpenSumIs DEF w
    <2> QED BY <2>2, <2>4, <2>5, <2>6
<1>5. ASSUME NEW x, x \notin S, Open(f[x]) \in Int
      PROVE  OpenSum(f, S \cup {x}) = Open(f[x]) + OpenSum(f, S)
    <2> DEFINE T == S \cup {x}
               w == OpenQuantity(f, T)
    <2>1. IsFiniteSet(T) /\ x \in T /\ T \ {x} = S
        BY <1>5, FS_AddElement
    <2>2. \A y \in T : w[y] \in Int /\ w[y] = Open(f[y])
        BY <1>5 DEF OpenQuantity
    <2>3. \A y \in S : OpenQuantity(f, S)[y] = w[y]
        BY <2>2 DEF OpenQuantity
    <2>4. OpenSum(f, T) = SumOf(w, T)
        BY <2>1, OpenSumIs
    <2> HIDE DEF w, T
    <2>5. SumOf(w, T) = w[x] + SumOf(w, S)
        BY <2>1, <2>2, SumSplit
    <2>6. SumOf(OpenQuantity(f, S), S) = SumOf(w, S)
        BY <2>3, SumAgrees
    <2>7. OpenSum(f, S) = SumOf(OpenQuantity(f, S), S)
        BY OpenSumIs
    <2>8. OpenSum(f, T) = Open(f[x]) + OpenSum(f, S)
        BY <2>1, <2>2, <2>4, <2>5, <2>6, <2>7
    <2> QED BY <2>8 DEF T
<1> QED BY <1>1, <1>2, <1>3, <1>4, <1>5

LEMMA LevelSum ==
    \A l : /\ OpenIn(RestingAt(l)) = OpenSum(orders, RestingAt(l))
           /\ OpenIn(RestingAt(l))' = OpenSum(orders', RestingAt(l)')
<1> SUFFICES ASSUME NEW l
             PROVE  /\ OpenIn(RestingAt(l)) = OpenSum(orders, RestingAt(l))
                    /\ OpenIn(RestingAt(l))' = OpenSum(orders', RestingAt(l)')
    OBVIOUS
<1>1. OpenIn(RestingAt(l)) = OpenSum(orders, RestingAt(l))
    BY DEF OpenIn, OpenSum, MapThenSumSet, MapThenFoldSet
<1>2. OpenIn(RestingAt(l))' = OpenSum(orders', RestingAt(l)')
    BY DEF OpenIn, OpenSum, MapThenSumSet, MapThenFoldSet
<1> QED BY <1>1, <1>2

\* A level's total never understates what rests there: a fill and a cancel
\* take out exactly what they close, and rest_order adds at least what is open.
THEOREM TotalsCover == Spec => []TotalCovers
<1>1. ASSUME Init
      PROVE  TotalCovers
    <2>1. Resting = {} /\ \A l \in Level : total_quantity[l] = 0
        BY <1>1, InitLive DEF Init, LL!LevelInit
    <2>2. \A l \in Level : RestingAt(l) = {}
        BY <2>1 DEF RestingAt
    <2>3. OpenSum(orders, {}) = 0
        BY OpenSums, FS_EmptySet
    <2>4. \A l \in Level : OpenIn(RestingAt(l)) = 0
        BY <2>2, <2>3, LevelSum
    <2> QED BY <2>1, <2>4 DEF TotalCovers
<1>2. ASSUME IInv, TotalCovers, [Next]_vars
      PROVE  TotalCovers'
    <2> USE BookFacts
    <2> SUFFICES ASSUME NEW l \in Level
                 PROVE  total_quantity'[l] >= OpenSum(orders', RestingAt(l)')
        BY LevelSum DEF TotalCovers
    <2> DEFINE S == RestingAt(l)
               total == total_quantity[l]
    <2>1. /\ IsFiniteSet(S) /\ S \subseteq Resting /\ S \subseteq Slots
          /\ \A x \in Slots : Open(orders[x]) \in Int
          /\ OpenSum(orders, S) \in Int
          /\ total \in Int /\ total >= OpenSum(orders, S)
          /\ total_quantity \in [Level -> Int]
        <3>1. IsFiniteSet(S) /\ S \subseteq Resting /\ S \subseteq Slots
            BY <1>2, LevelSets DEF RestingAt
        <3>2. \A x \in Slots : Open(orders[x]) \in Int
            BY <1>2
        <3>3. OpenSum(orders, S) \in Int
            BY <3>1, <3>2, OpenSums
        <3> QED BY <1>2, <3>1, <3>2, <3>3, LevelSum DEF IInv, TypeOK, TotalCovers
    <2>2. CASE Kept
        <3>1. RestingAt(l)' = S /\ \A x \in S : orders'[x] = orders[x]
            BY <1>2, <2>1, <2>2, LevelSets DEF Kept
        <3>2. OpenSum(orders', S) = OpenSum(orders, S)
            BY <2>1, <3>1, OpenSums
        <3> QED BY <2>1, <2>2, <3>1, <3>2 DEF Kept
    <2>3. ASSUME NEW x, NEW q, Shrunk(x, q)
          PROVE  total_quantity'[l] >= OpenSum(orders', RestingAt(l)')
        <3>1. /\ RestingAt(l)' = S
              /\ x \in S <=> LevelOf(x) = l
              /\ \A y \in S \ {x} : Open(orders'[y]) = Open(orders[y])
              /\ Open(orders'[x]) = Open(orders[x]) - q /\ q \in Nat
              /\ total_quantity'[l] = IF LevelOf(x) = l THEN total - q ELSE total
            <4>1. RestingAt(l)' = S
                BY <1>2, <2>3, LevelSets
            <4>2. x \in S <=> LevelOf(x) = l
                BY <2>3 DEF Shrunk, RestingAt
            <4>3. \A y \in S \ {x} : Open(orders'[y]) = Open(orders[y])
                BY <2>1, <2>3 DEF Shrunk
            <4>4. Open(orders'[x]) = Open(orders[x]) - q /\ q \in Nat
                BY <2>3 DEF Shrunk
            <4>5. total_quantity'[l] = IF LevelOf(x) = l THEN total - q ELSE total
                BY <2>1, <2>3 DEF Shrunk
            <4> QED BY <4>1, <4>2, <4>3, <4>4, <4>5
        <3>2. CASE x \notin S
            <4>1. OpenSum(orders', S) = OpenSum(orders, S)
                BY <2>1, <3>1, <3>2, OpenSums
            <4> QED BY <2>1, <3>1, <3>2, <4>1
        <3>3. CASE x \in S
            <4>1. Open(orders[x]) \in Int
                BY <2>1, <3>3
            <4>2. \A y \in S : Open(orders'[y]) \in Int
                BY <2>1, <3>1, <4>1
            <4>3. /\ OpenSum(orders, S) = Open(orders[x]) + OpenSum(orders, S \ {x})
                  /\ OpenSum(orders', S) = Open(orders'[x]) + OpenSum(orders', S \ {x})
                BY <2>1, <3>3, <4>2, OpenSums
            <4>4. IsFiniteSet(S \ {x}) /\ \A y \in S \ {x} : Open(orders[y]) \in Int
                BY <2>1, FS_Subset
            <4>5. /\ OpenSum(orders, S \ {x}) \in Int
                  /\ OpenSum(orders', S \ {x}) = OpenSum(orders, S \ {x})
                BY <3>1, <4>4, OpenSums
            <4> HIDE DEF S
            <4> QED BY <2>1, <3>1, <3>3, <4>1, <4>3, <4>5
        <3> QED BY <3>2, <3>3
    <2>4. ASSUME NEW x, Left(x)
          PROVE  total_quantity'[l] >= OpenSum(orders', RestingAt(l)')
        <3>1. /\ RestingAt(l)' = S \ {x}
              /\ x \in S <=> LevelOf(x) = l
              /\ \A y \in S \ {x} : Open(orders'[y]) = Open(orders[y])
              /\ total_quantity'[l] =
                    IF LevelOf(x) = l THEN total - Open(orders[x]) ELSE total
            BY <1>2, <2>1, <2>4, LevelSets DEF Left, RestingAt
        <3>2. IsFiniteSet(S \ {x}) /\ \A y \in S \ {x} : Open(orders[y]) \in Int
            BY <2>1, FS_Subset
        <3>3. /\ OpenSum(orders, S \ {x}) \in Int
              /\ OpenSum(orders', S \ {x}) = OpenSum(orders, S \ {x})
            BY <3>1, <3>2, OpenSums
        <3>4. CASE x \notin S
            <4>1. S \ {x} = S
                BY <3>4
            <4> QED BY <2>1, <3>1, <3>3, <3>4, <4>1
        <3>5. CASE x \in S
            <4>1. Open(orders[x]) \in Int
                BY <2>1, <3>5
            <4>2. OpenSum(orders, S) = Open(orders[x]) + OpenSum(orders, S \ {x})
                BY <2>1, <3>5, OpenSums
            <4> HIDE DEF S
            <4> QED BY <2>1, <3>1, <3>3, <3>5, <4>1, <4>2
        <3> QED BY <3>4, <3>5
    <2>5. ASSUME NEW x, Joined(x)
          PROVE  total_quantity'[l] >= OpenSum(orders', RestingAt(l)')
        <3>1. /\ RestingAt(l)' = IF LevelOf(x) = l THEN S \cup {x} ELSE S
              /\ x \notin S /\ orders' = orders
              /\ total_quantity'[l] =
                    IF LevelOf(x) = l THEN total + orders[x].quantity ELSE total
            BY <1>2, <2>1, <2>5, LevelSets DEF Joined, RestingAt
        <3>2. Open(orders[x]) \in Int /\ orders[x].quantity \in Nat
              /\ Open(orders[x]) <= orders[x].quantity
            BY <1>2, <2>5 DEF Joined, OrderType, Open
        <3>3. OpenSum(orders, S \cup {x}) = Open(orders[x]) + OpenSum(orders, S)
            BY <2>1, <3>1, <3>2, OpenSums
        <3> HIDE DEF S
        <3> QED BY <2>1, <3>1, <3>2, <3>3
    <2> QED BY <1>2, <2>2, <2>3, <2>4, <2>5, RestingSteps
<1>3. Init => TotalCovers
    BY <1>1
<1>4. IInv /\ TotalCovers /\ [Next]_vars => TotalCovers'
    BY <1>2
<1> QED BY <1>3, <1>4, InvariantHolds, PTL DEF Spec

-----------------------------------------------------------------------------
(***************************************************************************)
(* The account of quantities of the whole book.                            *)
(***************************************************************************)
Accounts ==
    /\ entered \in Int /\ withdrawn \in Int
    /\ entered = 2 * trade_volume + withdrawn + OpenSum(orders, Live)

LEMMA AccountsConserve == entered \in Int /\ withdrawn \in Int => (Accounts <=> Conservation)
<1>1. OpenIn(Live) = OpenSum(orders, Live)
    BY DEF OpenIn, OpenSum, MapThenSumSet, MapThenFoldSet
<1>2. Conservation <=> entered = 2 * trade_volume + withdrawn + OpenIn(Live)
    BY DEF Conservation, Live
<1> QED BY <1>1, <1>2 DEF Accounts

LEMMA LiveFacts ==
    ASSUME IInv
    PROVE  /\ IsFiniteSet(Live) /\ Live \subseteq Slots
           /\ \A x \in Live : Open(orders[x]) \in Nat
           /\ OpenSum(orders, Live) \in Int
<1>1. Live \subseteq Slots /\ \A x \in Live : Open(orders[x]) \in Nat
    BY BookFacts DEF Live
<1>2. IsFiniteSet(Slots)
    BY BookAssumption, FS_Interval DEF Slots, Pool!Slots
<1>3. IsFiniteSet(Live)
    BY <1>1, <1>2, FS_Subset
<1>4. \A x \in Live : Open(orders[x]) \in Int
    BY <1>1
<1> QED BY <1>1, <1>3, <1>4, OpenSums

\* The sum when one more order is live, one fewer, or one has changed.
LEMMA SumJoins ==
    ASSUME IInv, NEW o \in Slots \ Live, Live' = Live \cup {o},
           \A x \in Live : orders'[x] = orders[x], Open(orders'[o]) \in Int
    PROVE  OpenSum(orders', Live') = Open(orders'[o]) + OpenSum(orders, Live)
<1>1. /\ IsFiniteSet(Live) /\ \A x \in Live : Open(orders[x]) \in Int
      /\ \A x \in Live : Open(orders'[x]) = Open(orders[x])
    BY LiveFacts
<1>2. OpenSum(orders', Live) = OpenSum(orders, Live)
    BY <1>1, OpenSums
<1>3. \A x \in Live : Open(orders'[x]) \in Int
    BY <1>1
<1>4. OpenSum(orders', Live \cup {o}) = Open(orders'[o]) + OpenSum(orders', Live)
    BY <1>1, <1>3, OpenSums
<1> QED BY <1>2, <1>4

LEMMA SumLeaves ==
    ASSUME IInv, NEW x \in Live, Live' = Live \ {x},
           \A y \in Live \ {x} : orders'[y] = orders[y]
    PROVE  OpenSum(orders, Live) = Open(orders[x]) + OpenSum(orders', Live')
<1>1. /\ IsFiniteSet(Live) /\ \A y \in Live : Open(orders[y]) \in Int
      /\ \A y \in Live \ {x} : Open(orders'[y]) = Open(orders[y])
    BY LiveFacts
<1>2. IsFiniteSet(Live \ {x}) /\ \A y \in Live \ {x} : Open(orders[y]) \in Int
    BY <1>1, FS_Subset
<1>3. OpenSum(orders', Live \ {x}) = OpenSum(orders, Live \ {x})
    BY <1>1, <1>2, OpenSums
<1>4. OpenSum(orders, Live) = Open(orders[x]) + OpenSum(orders, Live \ {x})
    BY <1>1, OpenSums
<1> QED BY <1>3, <1>4

\* A sum over T and what it is without x.
LEMMA SumWithout ==
    ASSUME IInv, NEW f, NEW T, T \subseteq Live, \A y \in T : Open(f[y]) \in Int,
           NEW x \in T
    PROVE  /\ OpenSum(f, T) = Open(f[x]) + OpenSum(f, T \ {x})
           /\ OpenSum(f, T \ {x}) \in Int
           /\ \A g : (\A y \in T \ {x} : Open(g[y]) = Open(f[y])) =>
                OpenSum(g, T \ {x}) = OpenSum(f, T \ {x})
<1>1. IsFiniteSet(T) /\ IsFiniteSet(T \ {x})
    BY LiveFacts, FS_Subset
<1>2. \A y \in T \ {x} : Open(f[y]) \in Int
    OBVIOUS
<1>3. OpenSum(f, T) = Open(f[x]) + OpenSum(f, T \ {x})
    BY <1>1, OpenSums
<1> QED BY <1>1, <1>2, <1>3, OpenSums

LEMMA MatchAccounts ==
    ASSUME IInv, Accounts, MatchStep, UNCHANGED <<entered, withdrawn>>
    PROVE  Accounts'
<1>1. PICK x, q : Matched(x, q)
    BY MatchEffect
<1> DEFINE i == incoming
           T == Live \ {x}
<1>2. /\ i # nullptr /\ i \in Live /\ i \notin Resting /\ x \in Live /\ x # i
      /\ i \in T /\ T \subseteq Live
    BY <1>1, BookFacts, MatchEffect DEF Live, Matched
<1>3. /\ q \in Nat
      /\ Open(orders'[i]) = Open(orders[i]) - q
      /\ \A y \in Slots \ {x, i} : orders'[y] = orders[y]
      /\ trade_volume' = trade_volume + q
      /\ incoming' = i
    BY <1>1 DEF Matched
<1>4. /\ Open(orders[x]) \in Nat /\ Open(orders[i]) \in Nat
      /\ trade_volume \in Nat /\ OpenSum(orders, Live) \in Int
      /\ \A y \in Live : Open(orders[y]) \in Int
      /\ \A y \in T \ {i} : Open(orders'[y]) = Open(orders[y])
    BY <1>2, <1>3, LiveFacts DEF IInv, TypeOK
<1>5. \A y \in T : Open(orders'[y]) \in Int
    BY <1>3, <1>4
<1>6. /\ OpenSum(orders, Live) = Open(orders[x]) + OpenSum(orders, T)
      /\ OpenSum(orders, T) = Open(orders[i]) + OpenSum(orders, T \ {i})
      /\ OpenSum(orders, T \ {i}) \in Int
    <2>1. \A y \in T : Open(orders[y]) \in Int
        BY <1>4
    <2> QED BY <1>2, <1>4, <2>1, SumWithout
<1> HIDE DEF T
<1>7. OpenSum(orders', T) = Open(orders'[i]) + OpenSum(orders', T \ {i})
    BY <1>2, <1>5, SumWithout
<1>8. OpenSum(orders', T \ {i}) = OpenSum(orders, T \ {i})
    <2>1. \A y \in T \ {i} : Open(orders[y]) \in Int
        BY <1>2, <1>4
    <2>2. IsFiniteSet(T \ {i})
        BY <1>2, LiveFacts, FS_Subset
    <2> QED BY <1>4, <2>1, <2>2, OpenSums
<1>9. OpenSum(orders', Live') = OpenSum(orders, Live) - q - q
    <2>1. CASE Open(orders[x]) = q /\ Resting' = Resting \ {x}
        <3>1. Live' = T
            BY <1>2, <1>3, <2>1 DEF Live, T
        <3> QED BY <1>3, <1>4, <1>6, <1>7, <1>8, <2>1, <3>1
    <2>2. CASE Open(orders'[x]) = Open(orders[x]) - q /\ Resting' = Resting
        <3>1. Live' = Live
            BY <1>2, <1>3, <2>2 DEF Live
        <3>2. \A y \in Live : Open(orders'[y]) \in Int
            BY <1>3, <1>4, <1>5, <2>2 DEF T
        <3>3. OpenSum(orders', Live) = Open(orders'[x]) + OpenSum(orders', T)
            BY <1>2, <3>2, SumWithout DEF T
        <3> QED BY <1>3, <1>4, <1>6, <1>7, <1>8, <2>2, <3>1, <3>3
    <2> QED BY <1>1, <2>1, <2>2 DEF Matched
<1> QED BY <1>3, <1>4, <1>9 DEF Accounts

LEMMA AccountsStep ==
    ASSUME IInv, Accounts, [LedgerNext]_ledgerVars
    PROVE  Accounts'
<1> USE BookFacts, NullFacts
<1>0. /\ IsFiniteSet(Live) /\ Live \subseteq Slots
      /\ \A x \in Live : Open(orders[x]) \in Nat
      /\ OpenSum(orders, Live) \in Int
      /\ entered \in Int /\ withdrawn \in Int /\ trade_volume \in Nat
      /\ entered = 2 * trade_volume + withdrawn + OpenSum(orders, Live)
    BY LiveFacts DEF Accounts, IInv, TypeOK
<1>1. ASSUME OpenSum(orders', Live') = OpenSum(orders, Live),
             UNCHANGED <<entered, withdrawn, trade_volume>>
      PROVE  Accounts'
    BY <1>0, <1>1 DEF Accounts
<1>2. ASSUME NEW msg \in AddMessage, NEW o, incoming = nullptr, BeginAdd(msg, o),
             Enters(msg.quantity)
      PROVE  Accounts'
    <2>1. /\ o \in Slots \ Resting /\ Resting' = Resting /\ incoming' = o
          /\ \A x \in Slots \ {o} : orders'[x] = orders[x]
          /\ Open(orders'[o]) = msg.quantity /\ msg.quantity \in Nat
          /\ trade_volume' = trade_volume
        BY <1>2, AddEffect
    <2>2. Live' = Live \cup {o} /\ o \notin Live
        BY <1>2, <2>1 DEF Live
    <2>3. \A x \in Live : orders'[x] = orders[x]
        BY <1>0, <2>1, <2>2
    <2>4. OpenSum(orders', Live') = msg.quantity + OpenSum(orders, Live)
        <3>1. o \in Slots \ Live /\ Open(orders'[o]) \in Int
            BY <2>1, <2>2
        <3> QED BY <2>1, <2>2, <2>3, <3>1, SumJoins
    <2>5. entered' = entered + msg.quantity /\ withdrawn' = withdrawn
        BY <1>2 DEF Enters
    <2> HIDE DEF Live
    <2> QED BY <1>0, <2>1, <2>4, <2>5 DEF Accounts
<1>3. ASSUME NEW id \in OrderIds, Found(id), incoming = nullptr, Unbook(id),
             Withdraws(OpenOf(id))
      PROVE  Accounts'
    <2>1. PICK x \in Resting :
            /\ x = order_map[HashSlot(id)] /\ Resting' = Resting \ {x}
            /\ \A y \in Slots \ {x} : orders'[y] = orders[y]
            /\ incoming' = nullptr /\ trade_volume' = trade_volume
        BY <1>3, UnbookEffect
    <2>2. x \in Live /\ Live' = Live \ {x}
        BY <1>3, <2>1 DEF Live
    <2>3. OpenSum(orders, Live) = Open(orders[x]) + OpenSum(orders', Live')
        BY <1>0, <2>1, <2>2, SumLeaves
    <2>4. withdrawn' = withdrawn + Open(orders[x]) /\ entered' = entered
        BY <1>3, <2>1 DEF Withdraws, OpenOf
    <2>5. OpenSum(orders', Live') \in Int
        <3>1. IsFiniteSet(Live') /\ \A y \in Live' : Open(orders'[y]) \in Int
            BY <1>0, <2>1, <2>2, FS_Subset
        <3> QED BY <3>1, OpenSums
    <2>6. Open(orders[x]) \in Nat
        BY <1>0, <2>2
    <2> QED BY <1>0, <2>1, <2>3, <2>4, <2>5, <2>6 DEF Accounts
<1>4. ASSUME NEW id \in OrderIds, NEW q \in Quantities \cup {0}, ModifyDown(id, q),
             Withdraws(OpenOf(id) - q)
      PROVE  Accounts'
    <2>1. PICK x \in Resting :
            /\ x = order_map[HashSlot(id)] /\ Resting' = Resting
            /\ Open(orders'[x]) = q /\ q \in Nat
            /\ \A y \in Slots \ {x} : orders'[y] = orders[y]
            /\ incoming' = incoming /\ trade_volume' = trade_volume
        BY <1>4, ModifyDownEffect
    <2>2. x \in Live /\ Live' = Live
        BY <2>1 DEF Live
    <2>3. \A y \in Live : Open(orders[y]) \in Int /\ Open(orders'[y]) \in Int
        BY <1>0, <2>1
    <2>4. /\ OpenSum(orders, Live) = Open(orders[x]) + OpenSum(orders, Live \ {x})
          /\ OpenSum(orders', Live) = q + OpenSum(orders', Live \ {x})
        BY <1>0, <2>1, <2>2, <2>3, OpenSums
    <2>5. /\ OpenSum(orders, Live \ {x}) \in Int
          /\ OpenSum(orders', Live \ {x}) = OpenSum(orders, Live \ {x})
        <3>1. /\ IsFiniteSet(Live \ {x})
              /\ \A y \in Live \ {x} : Open(orders[y]) \in Int
              /\ \A y \in Live \ {x} : Open(orders'[y]) = Open(orders[y])
            BY <1>0, <2>1, FS_Subset
        <3> QED BY <3>1, OpenSums
    <2>6. withdrawn' = withdrawn + (Open(orders[x]) - q) /\ entered' = entered
        BY <1>4, <2>1 DEF Withdraws, OpenOf
    <2>7. Open(orders[x]) \in Int
        BY <2>2, <2>3
    <2> HIDE DEF Live
    <2> QED BY <1>0, <2>1, <2>2, <2>4, <2>5, <2>6, <2>7 DEF Accounts
<1>5. CASE FinishAdd /\ UNCHANGED <<entered, withdrawn>>
    <2>1. /\ orders' = orders /\ incoming # nullptr /\ incoming' = nullptr
          /\ trade_volume' = trade_volume
          /\ \/ Open(orders[incoming]) = 0 /\ Resting' = Resting
             \/ Resting' = Resting \cup {incoming}
        BY <1>5, FinishEffect
    <2>2. incoming \in Live
        BY <2>1 DEF Live
    <2>3. CASE Resting' = Resting \cup {incoming}
        <3>1. Live' = Live
            BY <2>1, <2>3 DEF Live
        <3> QED BY <1>1, <1>5, <2>1, <3>1
    <2>4. CASE Open(orders[incoming]) = 0 /\ Resting' = Resting
        <3>1. Live' = Live \ {incoming}
            BY <2>1, <2>4 DEF Live
        <3>2. OpenSum(orders, Live) = Open(orders[incoming]) + OpenSum(orders', Live')
            BY <2>1, <2>2, <3>1, SumLeaves
        <3>3. OpenSum(orders', Live') \in Int
            <4>1. IsFiniteSet(Live') /\ \A y \in Live' : Open(orders'[y]) \in Int
                BY <1>0, <2>1, <3>1, FS_Subset
            <4> QED BY <4>1, OpenSums
        <3>4. OpenSum(orders, Live) = OpenSum(orders', Live')
            BY <2>4, <3>2, <3>3
        <3> QED BY <1>1, <1>5, <2>1, <3>4
    <2> QED BY <2>1, <2>3, <2>4
<1>6. ASSUME UNCHANGED <<orders, free_stack, incoming, trade_volume, entered, withdrawn>>
      PROVE  Accounts'
    <2>1. Live' = Live
        BY <1>6 DEF Live, Resting, Pool!FreeSlots
    <2> QED BY <1>1, <1>6, <2>1
<1>7. CASE UNCHANGED ledgerVars
    BY <1>6, <1>7 DEF ledgerVars, vars, callVars, statVars
<1>8. CASE RejectAdd /\ UNCHANGED <<entered, withdrawn>>
    BY <1>6, <1>8 DEF RejectAdd, callVars, statVars
<1>9. ASSUME NEW id \in OrderIds, Miss(id), UNCHANGED <<entered, withdrawn>>
      PROVE  Accounts'
    BY <1>6, <1>9 DEF Miss, callVars, statVars
<1>10. ASSUME NEW msg \in AddMessage, AddOrder(msg), Enters(msg.quantity)
       PROVE  Accounts'
    BY <1>2, <1>10 DEF AddOrder, Idle
<1>11. CASE ReAdd /\ Enters(readd.quantity)
    BY <1>2, <1>11 DEF ReAdd, IInv, TypeOK
<1>12. ASSUME NEW id \in OrderIds, CancelOrder(id), Withdraws(OpenOf(id))
       PROVE  Accounts'
    BY <1>3, <1>12 DEF CancelOrder, Idle
<1>13. ASSUME NEW id \in OrderIds, NEW q \in Quantities, ModifyUp(id, q),
              Withdraws(OpenOf(id))
       PROVE  Accounts'
    BY <1>3, <1>13 DEF ModifyUp, Idle
<1>14. CASE UpdateBest /\ UNCHANGED <<entered, withdrawn>>
    BY <1>6, <1>14 DEF UpdateBest, callVars, statVars
<1> QED BY <1>4, <1>5, <1>7, <1>8, <1>9, <1>10, <1>11, <1>12, <1>13, <1>14,
           MatchAccounts
        DEF LedgerNext, Running

\* No quantity is lost or made up by any sequence of fills, cancels, modifies
\* and re-adds: what entered was traded, withdrawn, or is still open.
THEOREM QuantityConserved == LedgerSpec => []Conservation
<1>1. ASSUME LedgerInit
      PROVE  Accounts
    <2>1. Live = {} /\ entered = 0 /\ withdrawn = 0 /\ trade_volume = 0
        BY <1>1, InitLive DEF LedgerInit, Init
    <2>2. OpenSum(orders, {}) = 0
        BY OpenSums, FS_EmptySet
    <2> QED BY <2>1, <2>2 DEF Accounts
<1>2. LedgerInit => Accounts
    BY <1>1
<1>3. IInv /\ Accounts /\ [LedgerNext]_ledgerVars => Accounts'
    BY AccountsStep
<1>4. Accounts => Conservation
    BY AccountsConserve DEF Accounts
<1> QED BY <1>2, <1>3, <1>4, InvariantHolds, LedgerRefines, PTL DEF LedgerSpec
============================================================================
