-------------------------- MODULE OrderBookProofs --------------------------
(***************************************************************************)
(* Theorems about OrderBook for every value of its constants.              *)
(***************************************************************************)
EXTENDS OrderBook, SumFacts, SequenceTheorems, TLAPS

-----------------------------------------------------------------------------
(***************************************************************************)
(* A set of prices that is not empty has a first one in priority, so that  *)
(* the CHOOSE of ScanBest finds what the loop finds.                       *)
(***************************************************************************)
LEMMA BestExists ==
    ASSUME NEW C, C \subseteq Price, C # {}, NEW s \in Side
    PROVE  \E p \in C : \A q \in C : ~ Better(s, q, p)
<1> USE BookAssumption DEF Price
<1>1. CASE s = "Sell"
    <2>1. C \subseteq Nat
        OBVIOUS
    <2>2. PICK p \in C : \A q \in C : ~ (q < p)
        BY <2>1, LeastNat
    <2> QED BY <1>1, <2>2 DEF Better
<1>2. CASE s = "Buy"
    <2> DEFINE k == kMaxPriceTicks - 1
               D == {k - p : p \in C}
    <2>1. \A p \in C : k - p \in Nat
        OBVIOUS
    <2>2. D \subseteq Nat /\ D # {}
        BY <2>1
    <2>3. PICK d \in D : \A e \in D : ~ (e < d)
        BY <2>2, LeastNat
    <2>4. PICK p \in C : d = k - p
        BY <2>3
    <2>5. \A q \in C : ~ (k - q < k - p)
        BY <2>3, <2>4
    <2>6. \A q \in C : ~ (q > p)
        BY <2>5
    <2> QED BY <1>2, <2>6 DEF Better
<1> QED BY <1>1, <1>2 DEF Side

\* What ScanBest returns: nothing only if there is nothing to find, and else
\* the first level in priority.
LEMMA ScanBestFinds ==
    ASSUME NEW s \in Side, NEW from, NEW h,
           NEW C, C = {p \in Price : ~ Better(s, p, from) /\ h[<<s, p>>] # nullptr}
    PROVE  \/ C = {} /\ ScanBest(s, from, h) = kInvalidPrice
           \/ /\ ScanBest(s, from, h) \in C
              /\ \A q \in C : ~ Better(s, q, ScanBest(s, from, h))
<1>1. CASE C = {}
    BY <1>1 DEF ScanBest
<1>2. CASE C # {}
    <2>1. \E p \in C : \A q \in C : ~ Better(s, q, p)
        BY <1>2, BestExists
    <2> QED BY <1>2, <2>1 DEF ScanBest
<1> QED BY <1>1, <1>2

-----------------------------------------------------------------------------
(***************************************************************************)
(* The inductive invariant.  Beside the properties the runs check it says  *)
(* what the slots in use hold (Stored), that each level is queued by entry *)
(* (Queued), and that the cached best prices are apart (BestApart).        *)
(***************************************************************************)
Stored ==
    \A x \in Slots \ Pool!FreeSlots :
        orders[x].id \in OrderIds /\ orders[x].price \in Price

Queued ==
    /\ \A x \in Resting :
        /\ orders[x].entry_nanos < clock
        /\ next[x] # nullptr => orders[x].entry_nanos < orders[next[x]].entry_nanos
    /\ incoming # nullptr =>
        /\ orders[incoming].entry_nanos < clock
        /\ \A x \in Resting : orders[x].entry_nanos < orders[incoming].entry_nanos

BestApart ==
    best["Buy"] # kInvalidPrice /\ best["Sell"] # kInvalidPrice =>
        best["Buy"] < best["Sell"]

IInv ==
    /\ TypeOK
    /\ PoolSound
    /\ Stored
    /\ FillsSound
    /\ MapSound
    /\ LinksSound
    /\ Queued
    /\ BestExact
    /\ BestApart

-----------------------------------------------------------------------------
(***************************************************************************)
(* Facts about the constants and the record types.                         *)
(***************************************************************************)
LEMMA NullFacts ==
    /\ nullptr \notin Slots
    /\ NoMessage \notin AddMessage
BY NullAssumption DEF Slots, Pool!Slots, AddMessage, Side, Price

LEMMA PriceFacts ==
    /\ \A s \in Side, p \in Price : <<s, p>> \in Level
    /\ \A p \in Price : p \in Nat /\ p \in Int
    /\ kInvalidPrice \notin Price
    /\ kInvalidOrderId \notin OrderIds
BY BookAssumption DEF Level, Price, kInvalidPrice, kInvalidOrderId

LEMMA BlankType == Blank \in OrderType /\ Blank.filled_quantity = 0 /\ Blank.quantity = 0
BY PriceFacts DEF Blank, OrderType, Side

LEMMA HashType == \A id \in OrderIds : HashSlot(id) \in 0 .. kMaxOrders - 1
BY BookAssumption DEF HashSlot

LEMMA FilledType ==
    ASSUME NEW o \in OrderType, NEW q \in Nat
    PROVE  /\ Filled(o, q) \in OrderType
           /\ Filled(o, q).id = o.id
           /\ Filled(o, q).side = o.side
           /\ Filled(o, q).price = o.price
           /\ Filled(o, q).quantity = o.quantity
           /\ Filled(o, q).entry_nanos = o.entry_nanos
           /\ Filled(o, q).filled_quantity = o.filled_quantity + q
           /\ Filled(o, q).status \in {"Filled", "PartiallyFilled"}
           /\ Filled(o, q).status = "Filled" <=> o.filled_quantity + q >= o.quantity
<1> DEFINE st == IF o.filled_quantity + q >= o.quantity
                 THEN "Filled" ELSE "PartiallyFilled"
           o1 == [o EXCEPT !.filled_quantity = o.filled_quantity + q]
           o2 == [o1 EXCEPT !.status = st]
<1>1. Filled(o, q) = o2
    BY DEF Filled
<1>2. /\ o1 \in OrderType
      /\ o1.id = o.id /\ o1.side = o.side /\ o1.price = o.price
      /\ o1.quantity = o.quantity /\ o1.entry_nanos = o.entry_nanos
      /\ o1.filled_quantity = o.filled_quantity + q
    BY DEF OrderType
<1> HIDE DEF o1
<1>3. st \in {"Filled", "PartiallyFilled"}
    OBVIOUS
<1>4. st = "Filled" <=> o.filled_quantity + q >= o.quantity
    OBVIOUS
<1> HIDE DEF st
<1>5. /\ o2 \in OrderType /\ o2.status = st
      /\ o2.id = o1.id /\ o2.side = o1.side /\ o2.price = o1.price
      /\ o2.quantity = o1.quantity /\ o2.entry_nanos = o1.entry_nanos
      /\ o2.filled_quantity = o1.filled_quantity
    BY <1>2, <1>3 DEF OrderType
<1> HIDE DEF o2
<1> QED BY <1>1, <1>2, <1>3, <1>4, <1>5


-----------------------------------------------------------------------------
(***************************************************************************)
(* The pool: acquire() takes one slot out of the free ones, release() puts *)
(* one back, and the stack never holds a slot twice.                       *)
(***************************************************************************)
StackOK ==
    /\ free_stack \in Seq(Slots)
    /\ \A i, j \in 1 .. Len(free_stack) : free_stack[i] = free_stack[j] => i = j

LEMMA AcquireType ==
    ASSUME free_stack \in Seq(Slots), NEW x, Pool!Acquire(x)
    PROVE  /\ free_stack' \in Seq(Slots)
           /\ Len(free_stack') = Len(free_stack) - 1
           /\ \A i \in 1 .. Len(free_stack') : free_stack'[i] = free_stack[i]
           /\ Len(free_stack) \in 1 .. Len(free_stack)
           /\ x = free_stack[Len(free_stack)]
           /\ x \in Slots
<1> DEFINE n == Len(free_stack)
           t == SubSeq(free_stack, 1, n - 1)
<1>1. n \in Nat /\ n # 0
    BY DEF Pool!Acquire, Pool!Exhausted
<1>2. \A i \in 1 .. n : free_stack[i] \in Slots
    OBVIOUS
<1>3. free_stack' = t /\ x = free_stack[n]
    BY DEF Pool!Acquire
<1>4. /\ t \in Seq(Slots)
      /\ Len(t) = IF 1 <= n - 1 THEN n - 1 - 1 + 1 ELSE 0
      /\ \A i \in 1 .. n - 1 - 1 + 1 : t[i] = free_stack[1 + i - 1]
    <2>1. 1 \in Int /\ n - 1 \in Int /\ \A i \in 1 .. n - 1 : free_stack[i] \in Slots
        BY <1>1, <1>2
    <2> QED BY <2>1, SubSeqProperties
<1> HIDE DEF n, t
<1>5. Len(t) = n - 1
    BY <1>1, <1>4
<1>6. \A i \in 1 .. n - 1 : t[i] = free_stack[i]
    BY <1>1, <1>4
<1>7. n \in 1 .. n
    BY <1>1
<1> QED BY <1>2, <1>3, <1>4, <1>5, <1>6, <1>7 DEF n

LEMMA AcquireSlot ==
    ASSUME StackOK, NEW x, Pool!Acquire(x)
    PROVE  /\ StackOK'
           /\ x \in Slots
           /\ x \in Pool!FreeSlots
           /\ Pool!FreeSlots' = Pool!FreeSlots \ {x}
BY AcquireType DEF StackOK, Pool!FreeSlots

LEMMA ReleaseSlot ==
    ASSUME StackOK, NEW x \in Slots, x \notin Pool!FreeSlots, Pool!Release(x)
    PROVE  /\ StackOK'
           /\ Pool!FreeSlots' = Pool!FreeSlots \cup {x}
BY DEF StackOK, Pool!FreeSlots, Pool!Release

-----------------------------------------------------------------------------
(***************************************************************************)
(* The linked lists of the price levels.                                   *)
(***************************************************************************)
LevelTypes ==
    /\ next \in [Slots -> Slots \cup {nullptr}]
    /\ prev \in [Slots -> Slots \cup {nullptr}]
    /\ head \in [Level -> Slots \cup {nullptr}]
    /\ tail \in [Level -> Slots \cup {nullptr}]
    /\ total_quantity \in [Level -> Int]
    /\ order_count \in [Level -> Int]

LEMMA PushBackType ==
    ASSUME LevelTypes, NEW l \in Level, NEW x \in Slots, NEW q \in Int,
           LL!PushBack(l, x, q)
    PROVE  LevelTypes'
<1>1. next' \in [Slots -> Slots \cup {nullptr}]
    BY DEF LevelTypes, LL!PushBack, LL!Link
<1>2. /\ prev' \in [Slots -> Slots \cup {nullptr}]
      /\ head' \in [Level -> Slots \cup {nullptr}]
      /\ tail' \in [Level -> Slots \cup {nullptr}]
    BY DEF LevelTypes, LL!PushBack, LL!Link
<1>3. /\ total_quantity' \in [Level -> Int]
      /\ order_count' \in [Level -> Int]
    BY DEF LevelTypes, LL!PushBack
<1> QED BY <1>1, <1>2, <1>3 DEF LevelTypes

LEMMA RemoveType ==
    ASSUME LevelTypes, NEW l \in Level, NEW x \in Slots, NEW q \in Int,
           LL!Remove(l, x, q)
    PROVE  LevelTypes'
<1>1. next' \in [Slots -> Slots \cup {nullptr}]
    BY DEF LevelTypes, LL!Remove, LL!Unlink
<1>2. prev' \in [Slots -> Slots \cup {nullptr}]
    BY DEF LevelTypes, LL!Remove, LL!Unlink
<1>3. /\ head' \in [Level -> Slots \cup {nullptr}]
      /\ tail' \in [Level -> Slots \cup {nullptr}]
    BY DEF LevelTypes, LL!Remove, LL!Unlink
<1>4. /\ total_quantity' \in [Level -> Int]
      /\ order_count' \in [Level -> Int]
    BY DEF LevelTypes, LL!Remove
<1> QED BY <1>1, <1>2, <1>3, <1>4 DEF LevelTypes

LEMMA ReduceType ==
    ASSUME LevelTypes, NEW l \in Level, NEW q \in Int, LL!Reduce(l, q)
    PROVE  LevelTypes'
BY DEF LevelTypes, LL!Reduce

\* The levels link the orders of Resting, all of them at a level of the book.
ListsOK ==
    /\ LevelTypes
    /\ Resting \subseteq Slots
    /\ \A x \in Resting : LevelOf(x) \in Level
    /\ LinksSound

\* What unlinking x does to its neighbours.
LEMMA UnlinkEffect ==
    ASSUME ListsOK, NEW x \in Resting, LL!Unlink(LevelOf(x), x)
    PROVE  /\ next'[x] = nullptr /\ prev'[x] = nullptr
           /\ \A y \in Slots \ {x} :
                 /\ next'[y] = IF next[y] = x THEN next[x] ELSE next[y]
                 /\ prev'[y] = IF prev[y] = x THEN prev[x] ELSE prev[y]
           /\ \A l \in Level :
                 /\ head'[l] = IF head[l] = x THEN next[x] ELSE head[l]
                 /\ tail'[l] = IF tail[l] = x THEN prev[x] ELSE tail[l]
<1> USE NullFacts DEF ListsOK, LinksSound, LL!WellLinked, LevelTypes
<1>1. next'[x] = nullptr /\ \A y \in Slots \ {x} :
         next'[y] = IF next[y] = x THEN next[x] ELSE next[y]
    BY DEF LL!Unlink, Slots, Pool!Slots
<1>2. prev'[x] = nullptr /\ \A y \in Slots \ {x} :
         prev'[y] = IF prev[y] = x THEN prev[x] ELSE prev[y]
    BY DEF LL!Unlink, Slots, Pool!Slots
<1>3. \A l \in Level : head'[l] = IF head[l] = x THEN next[x] ELSE head[l]
    BY DEF LL!Unlink
<1>4. \A l \in Level : tail'[l] = IF tail[l] = x THEN prev[x] ELSE tail[l]
    BY DEF LL!Unlink
<1> QED BY <1>1, <1>2, <1>3, <1>4

\* The lists are sound again after x is unlinked and no longer rests.
LEMMA UnlinkSound ==
    ASSUME ListsOK, NEW x \in Resting, LL!Unlink(LevelOf(x), x),
           Resting' = Resting \ {x},
           \A y \in Resting' : LevelOf(y)' = LevelOf(y)
    PROVE  LinksSound'
<1> USE NullFacts DEF ListsOK, LevelTypes
<1>0. LinksSound
    OBVIOUS
<1>1. \A l \in Level :
        /\ (head'[l] = nullptr) <=> (tail'[l] = nullptr)
        /\ head'[l] # nullptr =>
            /\ head'[l] \in Resting'
            /\ LevelOf(head'[l]) = l
            /\ prev'[head'[l]] = nullptr
        /\ tail'[l] # nullptr =>
            /\ tail'[l] \in Resting'
            /\ LevelOf(tail'[l]) = l
            /\ next'[tail'[l]] = nullptr
    BY UnlinkEffect DEF LinksSound, LL!WellLinked
<1>2. \A y \in Resting' :
        /\ prev'[y] = nullptr => head'[LevelOf(y)] = y
        /\ prev'[y] # nullptr =>
            /\ prev'[y] \in Resting'
            /\ LevelOf(prev'[y]) = LevelOf(y)
            /\ next'[prev'[y]] = y
    BY UnlinkEffect DEF LinksSound, LL!WellLinked
<1>3. \A y \in Resting' :
        /\ next'[y] = nullptr => tail'[LevelOf(y)] = y
        /\ next'[y] # nullptr =>
            /\ next'[y] \in Resting'
            /\ LevelOf(next'[y]) = LevelOf(y)
            /\ prev'[next'[y]] = y
    BY UnlinkEffect DEF LinksSound, LL!WellLinked
<1>4. \A y \in Slots \ Resting' : next'[y] = nullptr /\ prev'[y] = nullptr
    <2>1. next'[x] = nullptr /\ prev'[x] = nullptr /\ x # nullptr
        BY UnlinkEffect
    <2>2. \A y \in Slots \ Resting : next[y] = nullptr /\ prev[y] = nullptr
        BY <1>0 DEF LinksSound, LL!WellLinked, Slots, Pool!Slots
    <2>3. \A y \in Slots \ {x} :
              /\ next'[y] = IF next[y] = x THEN next[x] ELSE next[y]
              /\ prev'[y] = IF prev[y] = x THEN prev[x] ELSE prev[y]
        BY UnlinkEffect
    <2> HIDE DEF ListsOK, LevelTypes
    <2> QED BY <2>1, <2>2, <2>3
<1>5. \A y \in Resting' : <<orders'[y].side, orders'[y].price>> = LevelOf(y)
    BY DEF LevelOf
<1> DEFINE at(y) == <<orders'[y].side, orders'[y].price>>
<1>6. \A l \in Level :
        /\ (head'[l] = nullptr) <=> (tail'[l] = nullptr)
        /\ head'[l] # nullptr =>
            /\ head'[l] \in Resting'
            /\ at(head'[l]) = l
            /\ prev'[head'[l]] = nullptr
        /\ tail'[l] # nullptr =>
            /\ tail'[l] \in Resting'
            /\ at(tail'[l]) = l
            /\ next'[tail'[l]] = nullptr
    BY <1>1, <1>5
<1>7. \A y \in Resting' :
        /\ prev'[y] = nullptr => head'[at(y)] = y
        /\ prev'[y] # nullptr =>
            /\ prev'[y] \in Resting'
            /\ at(prev'[y]) = at(y)
            /\ next'[prev'[y]] = y
        /\ next'[y] = nullptr => tail'[at(y)] = y
        /\ next'[y] # nullptr =>
            /\ next'[y] \in Resting'
            /\ at(next'[y]) = at(y)
            /\ prev'[next'[y]] = y
    BY <1>2, <1>3, <1>5
<1> QED BY <1>4, <1>6, <1>7, Zenon DEF LinksSound, LL!WellLinked, LevelOf, Slots, Pool!Slots

\* What queueing x at level l does.
LEMMA LinkEffect ==
    ASSUME ListsOK, NEW l \in Level, NEW x \in Slots \ Resting, LL!Link(l, x)
    PROVE  /\ next'[x] = nullptr /\ prev'[x] = tail[l]
           /\ \A y \in Slots \ {x} :
                 /\ next'[y] = IF y = tail[l] THEN x ELSE next[y]
                 /\ prev'[y] = prev[y]
           /\ head'[l] = IF head[l] = nullptr THEN x ELSE head[l]
           /\ tail'[l] = x
           /\ \A m \in Level \ {l} : head'[m] = head[m] /\ tail'[m] = tail[m]
<1> USE NullFacts DEF ListsOK, LinksSound, LL!WellLinked, LevelTypes
<1>1. next'[x] = nullptr /\ \A y \in Slots \ {x} :
         next'[y] = IF y = tail[l] THEN x ELSE next[y]
    BY DEF LL!Link
<1>2. prev'[x] = tail[l] /\ \A y \in Slots \ {x} : prev'[y] = prev[y]
    BY DEF LL!Link
<1>3. /\ head'[l] = IF head[l] = nullptr THEN x ELSE head[l]
      /\ tail'[l] = x
      /\ \A m \in Level \ {l} : head'[m] = head[m] /\ tail'[m] = tail[m]
    BY DEF LL!Link
<1> QED BY <1>1, <1>2, <1>3

LEMMA LinkSound ==
    ASSUME ListsOK, NEW x \in Slots \ Resting, LevelOf(x) \in Level,
           LL!Link(LevelOf(x), x),
           Resting' = Resting \cup {x},
           \A y \in Resting' : LevelOf(y)' = LevelOf(y)
    PROVE  LinksSound'
<1> USE NullFacts DEF ListsOK, LevelTypes
<1>1. \A l \in Level :
        /\ (head'[l] = nullptr) <=> (tail'[l] = nullptr)
        /\ head'[l] # nullptr =>
            /\ head'[l] \in Resting'
            /\ LevelOf(head'[l]) = l
            /\ prev'[head'[l]] = nullptr
        /\ tail'[l] # nullptr =>
            /\ tail'[l] \in Resting'
            /\ LevelOf(tail'[l]) = l
            /\ next'[tail'[l]] = nullptr
    BY LinkEffect DEF LinksSound, LL!WellLinked
<1>2. \A y \in Resting' :
        /\ prev'[y] = nullptr => head'[LevelOf(y)] = y
        /\ prev'[y] # nullptr =>
            /\ prev'[y] \in Resting'
            /\ LevelOf(prev'[y]) = LevelOf(y)
            /\ next'[prev'[y]] = y
    BY LinkEffect DEF LinksSound, LL!WellLinked
<1>3. \A y \in Resting' :
        /\ next'[y] = nullptr => tail'[LevelOf(y)] = y
        /\ next'[y] # nullptr =>
            /\ next'[y] \in Resting'
            /\ LevelOf(next'[y]) = LevelOf(y)
            /\ prev'[next'[y]] = y
    BY LinkEffect DEF LinksSound, LL!WellLinked
<1>4. \A y \in Slots \ Resting' : next'[y] = nullptr /\ prev'[y] = nullptr
    BY LinkEffect DEF LinksSound, LL!WellLinked, Slots, Pool!Slots
<1>5. \A y \in Resting' : <<orders'[y].side, orders'[y].price>> = LevelOf(y)
    BY DEF LevelOf
<1> DEFINE at(y) == <<orders'[y].side, orders'[y].price>>
<1>6. \A l \in Level :
        /\ (head'[l] = nullptr) <=> (tail'[l] = nullptr)
        /\ head'[l] # nullptr =>
            /\ head'[l] \in Resting'
            /\ at(head'[l]) = l
            /\ prev'[head'[l]] = nullptr
        /\ tail'[l] # nullptr =>
            /\ tail'[l] \in Resting'
            /\ at(tail'[l]) = l
            /\ next'[tail'[l]] = nullptr
    BY <1>1, <1>5
<1>7. \A y \in Resting' :
        /\ prev'[y] = nullptr => head'[at(y)] = y
        /\ prev'[y] # nullptr =>
            /\ prev'[y] \in Resting'
            /\ at(prev'[y]) = at(y)
            /\ next'[prev'[y]] = y
        /\ next'[y] = nullptr => tail'[at(y)] = y
        /\ next'[y] # nullptr =>
            /\ next'[y] \in Resting'
            /\ at(next'[y]) = at(y)
            /\ prev'[next'[y]] = y
    BY <1>2, <1>3, <1>5
<1> QED BY <1>4, <1>6, <1>7, Zenon DEF LinksSound, LL!WellLinked, LevelOf, Slots, Pool!Slots

-----------------------------------------------------------------------------
(***************************************************************************)
(* The cached best prices.                                                 *)
(***************************************************************************)
\* What BestExact says where no fill has just emptied a level.
BestFirm ==
    \A s \in Side :
        /\ best[s] # kInvalidPrice => head[<<s, best[s]>>] # nullptr
        /\ \A p \in Price :
              head[<<s, p>>] # nullptr =>
                best[s] # kInvalidPrice /\ ~ Better(s, p, best[s])

BestOK ==
    /\ best \in [Side -> Price \cup {kInvalidPrice}]
    /\ BestFirm
    /\ BestApart

LEMMA FirmIsExact == BestFirm => BestExact
BY DEF BestFirm, BestExact

\* Only the level that the incoming order takes from can be empty.
LEMMA BestSettled ==
    ASSUME IInv, incoming = nullptr \/ ~ Emptied(orders[incoming])
    PROVE  BestOK
<1>1. \A s \in Side : ~ JustEmptied(s) \/ head[<<s, best[s]>>] # nullptr
                          \/ best[s] = kInvalidPrice
    BY DEF JustEmptied, Emptied
<1>2. BestFirm
    BY <1>1 DEF BestFirm, IInv, BestExact
<1> QED BY <1>2 DEF BestOK, IInv, TypeOK

\* cancel: x leaves its level, and the best price is looked for again if the
\* level was the best one and is empty now.
LEMMA UnlinkBest ==
    ASSUME ListsOK, BestOK, NEW x \in Resting, NEW s \in Side, NEW p \in Price,
           LevelOf(x) = <<s, p>>, LL!Unlink(<<s, p>>, x),
           best' = IF head'[<<s, p>>] = nullptr /\ p = best[s]
                   THEN [best EXCEPT ![s] = ScanBest(s, p, head')] ELSE best
    PROVE  BestOK'
<1> USE NullFacts, PriceFacts
<1>1. \A t \in Side, q \in Price : <<t, q>> # <<s, p>> =>
          head'[<<t, q>>] = head[<<t, q>>]
    BY UnlinkEffect DEF ListsOK, LinksSound, LL!WellLinked
<1>2. head'[<<s, p>>] # nullptr => head[<<s, p>>] # nullptr
    BY UnlinkEffect DEF ListsOK, LinksSound, LL!WellLinked
<1>3. \A t \in Side, q \in Price : head'[<<t, q>>] # nullptr =>
          head[<<t, q>>] # nullptr
    BY <1>1, <1>2
<1>4. CASE ~ (head'[<<s, p>>] = nullptr /\ p = best[s])
    <2>1. best' = best
        BY <1>4
    <2>2. \A t \in Side : best[t] # kInvalidPrice => head'[<<t, best[t]>>] # nullptr
        BY <1>1, <1>4 DEF BestOK, BestFirm
    <2> QED BY <1>3, <2>1, <2>2 DEF BestOK, BestFirm, BestApart
<1>5. CASE head'[<<s, p>>] = nullptr /\ p = best[s]
    <2> DEFINE C == {q \in Price : ~ Better(s, q, p) /\ head'[<<s, q>>] # nullptr}
               b == ScanBest(s, p, head')
    <2>1. \/ C = {} /\ b = kInvalidPrice
          \/ b \in C /\ \A q \in C : ~ Better(s, q, b)
        BY ScanBestFinds
    <2>2. \A q \in Price : head'[<<s, q>>] # nullptr => q \in C
        BY <1>3, <1>5 DEF BestOK, BestFirm
    <2>3. b \in Price \cup {kInvalidPrice}
        BY <2>1
    <2>4. b # kInvalidPrice => head'[<<s, b>>] # nullptr /\ ~ Better(s, b, p)
        BY <2>1
    <2>5. \A q \in Price : head'[<<s, q>>] # nullptr =>
              b # kInvalidPrice /\ ~ Better(s, q, b)
        BY <2>1, <2>2
    <2> HIDE DEF b, C
    <2>6. best' = [best EXCEPT ![s] = b]
        BY <1>5 DEF b
    <2>7. /\ best' \in [Side -> Price \cup {kInvalidPrice}]
          /\ best'[s] = b
          /\ \A t \in Side \ {s} : best'[t] = best[t]
        BY <2>3, <2>6 DEF BestOK
    <2>8. \A t \in Side : best'[t] # kInvalidPrice => head'[<<t, best'[t]>>] # nullptr
        BY <1>1, <2>4, <2>7 DEF BestOK, BestFirm
    <2>9. \A t \in Side, q \in Price : head'[<<t, q>>] # nullptr =>
              best'[t] # kInvalidPrice /\ ~ Better(t, q, best'[t])
        BY <1>3, <2>5, <2>7 DEF BestOK, BestFirm
    <2>10. BestApart'
        BY <1>5, <2>3, <2>4, <2>7 DEF BestOK, BestApart, Better, Side, kInvalidPrice
    <2> QED BY <2>7, <2>8, <2>9, <2>10 DEF BestOK, BestFirm
<1> QED BY <1>4, <1>5

\* match() leaves the best level behind: the price that the scan finds is the
\* best one again.
LEMMA ScanBestOK ==
    ASSUME best \in [Side -> Price \cup {kInvalidPrice}], BestApart,
           NEW s \in Side, best[s] \in Price,
           \A t \in Side \ {s} :
              best[t] # kInvalidPrice => head[<<t, best[t]>>] # nullptr,
           \A t \in Side, q \in Price : head[<<t, q>>] # nullptr =>
              best[t] # kInvalidPrice /\ ~ Better(t, q, best[t]),
           best' = [best EXCEPT ![s] = ScanBest(s, best[s], head)],
           head' = head
    PROVE  BestOK'
<1> USE PriceFacts
<1> DEFINE p == best[s]
           C == {q \in Price : ~ Better(s, q, p) /\ head[<<s, q>>] # nullptr}
           b == ScanBest(s, p, head)
<1>1. \/ C = {} /\ b = kInvalidPrice
      \/ b \in C /\ \A q \in C : ~ Better(s, q, b)
    BY ScanBestFinds
<1>2. \A q \in Price : head[<<s, q>>] # nullptr => q \in C
    OBVIOUS
<1>3. b \in Price \cup {kInvalidPrice}
    BY <1>1
<1>4. b # kInvalidPrice => head[<<s, b>>] # nullptr /\ ~ Better(s, b, p)
    BY <1>1
<1>5. \A q \in Price : head[<<s, q>>] # nullptr =>
          b # kInvalidPrice /\ ~ Better(s, q, b)
    BY <1>1, <1>2
<1> HIDE DEF b, C
<1>6. best' = [best EXCEPT ![s] = b]
    BY DEF b
<1>7. /\ best' \in [Side -> Price \cup {kInvalidPrice}]
      /\ best'[s] = b
      /\ \A t \in Side \ {s} : best'[t] = best[t]
    BY <1>3, <1>6
<1>8. \A t \in Side : best'[t] # kInvalidPrice => head'[<<t, best'[t]>>] # nullptr
    BY <1>4, <1>7
<1>9. \A t \in Side, q \in Price : head'[<<t, q>>] # nullptr =>
          best'[t] # kInvalidPrice /\ ~ Better(t, q, best'[t])
    BY <1>5, <1>7
<1>10. BestApart'
    BY <1>3, <1>4, <1>7 DEF BestApart, Better, Side, kInvalidPrice
<1> QED BY <1>7, <1>8, <1>9, <1>10 DEF BestOK, BestFirm

\* rest_order: x is queued at price p of side s, which nothing on the other
\* side accepts.
LEMMA LinkBest ==
    ASSUME ListsOK, BestOK, NEW x \in Slots \ Resting,
           NEW s \in Side, NEW p \in Price,
           LL!Link(<<s, p>>, x),
           best[Opposite(s)] # kInvalidPrice => ~ Accepts(s, p, best[Opposite(s)]),
           best' = IF best[s] = kInvalidPrice \/ Better(s, p, best[s])
                   THEN [best EXCEPT ![s] = p] ELSE best
    PROVE  BestOK'
<1> USE NullFacts, PriceFacts
<1> DEFINE l == <<s, p>>
<1>0. l \in Level /\ LL!Link(l, x)
    OBVIOUS
<1> HIDE DEF l
<1>1. /\ \A m \in Level \ {l} : head'[m] = head[m]
      /\ head'[l] = IF head[l] = nullptr THEN x ELSE head[l]
    BY <1>0, LinkEffect
<1>2. /\ \A t \in Side, q \in Price : <<t, q>> # <<s, p>> =>
            head'[<<t, q>>] = head[<<t, q>>]
      /\ head'[<<s, p>>] # nullptr
    BY <1>1 DEF l
<1>3. /\ best' \in [Side -> Price \cup {kInvalidPrice}]
      /\ best'[s] = IF best[s] = kInvalidPrice \/ Better(s, p, best[s])
                    THEN p ELSE best[s]
      /\ \A t \in Side \ {s} : best'[t] = best[t]
    BY DEF BestOK
<1>4. \A t \in Side : best'[t] # kInvalidPrice => head'[<<t, best'[t]>>] # nullptr
    BY <1>2, <1>3 DEF BestOK, BestFirm
<1>5. \A t \in Side, q \in Price : head'[<<t, q>>] # nullptr =>
          best'[t] # kInvalidPrice /\ ~ Better(t, q, best'[t])
    <2> TAKE t \in Side, q \in Price
    <2>1. CASE t # s
        BY <1>2, <1>3, <2>1 DEF BestOK, BestFirm
    <2>2. CASE t = s /\ q = p
        BY <1>3, <2>2 DEF BestOK, Better
    <2>3. CASE t = s /\ q # p
        <3>1. head'[<<s, q>>] = head[<<s, q>>]
            BY <1>2, <2>3
        <3>2. head[<<s, q>>] # nullptr =>
                  best[s] \in Price /\ ~ Better(s, q, best[s])
            BY DEF BestOK, BestFirm
        <3>3. p \in Int /\ q \in Int /\ (best[s] \in Price => best[s] \in Int)
            OBVIOUS
        <3>4. head[<<s, q>>] # nullptr =>
                  best'[s] # kInvalidPrice /\ ~ Better(s, q, best'[s])
            <4>1. CASE Better(s, p, best[s])
                BY <1>3, <3>2, <3>3, <4>1 DEF Better
            <4>2. CASE ~ Better(s, p, best[s])
                BY <1>3, <3>2, <4>2
            <4> QED BY <4>1, <4>2
        <3> QED BY <2>3, <3>1, <3>4
    <2> QED BY <2>1, <2>2, <2>3
<1>6. BestApart'
    <2> DEFINE t == Opposite(s)
    <2>1. /\ s \in {"Buy", "Sell"} /\ t \in Side /\ t # s
          /\ t = IF s = "Buy" THEN "Sell" ELSE "Buy"
        BY DEF Opposite, Side
    <2>2. /\ best'[t] = best[t]
          /\ best[t] # kInvalidPrice => ~ Accepts(s, p, best[t])
          /\ best[t] # kInvalidPrice => best[t] \in Int
          /\ p \in Int
        BY <1>3, <2>1 DEF BestOK
    <2> HIDE DEF t
    <2>3. CASE best'[s] = best[s]
        BY <2>1, <2>2, <2>3 DEF BestOK, BestApart
    <2>4. CASE best'[s] = p
        BY <2>1, <2>2, <2>4 DEF BestApart, Accepts
    <2> QED BY <1>3, <2>3, <2>4
<1> QED BY <1>3, <1>4, <1>5, <1>6 DEF BestOK, BestFirm

-----------------------------------------------------------------------------
(***************************************************************************)
(* The queues: a level is ordered by entry, so its head entered first.     *)
(***************************************************************************)
QueueOK ==
    /\ ListsOK
    /\ Queued
    /\ clock \in Nat
    /\ incoming \in (Slots \ Resting) \cup {nullptr}
    /\ \A x \in Slots : orders[x].entry_nanos \in Nat

LEMMA HeadFirst ==
    ASSUME QueueOK, NEW x \in Resting
    PROVE  /\ head[LevelOf(x)] \in Resting
           /\ LevelOf(head[LevelOf(x)]) = LevelOf(x)
           /\ x # head[LevelOf(x)] =>
                orders[head[LevelOf(x)]].entry_nanos < orders[x].entry_nanos
<1> DEFINE l == LevelOf(x)
           M == {y \in Resting : LevelOf(y) = l}
           T == {orders[y].entry_nanos : y \in M}
<1>0. /\ x \in M
      /\ \A y \in M : orders[y].entry_nanos \in Nat
    BY DEF QueueOK, ListsOK
<1>1. T \subseteq Nat /\ T # {}
    BY <1>0
<1>2. PICK e \in T : \A f \in T : ~ (f < e)
    BY <1>1, LeastNat
<1>3. PICK y \in M : e = orders[y].entry_nanos
    BY <1>2
<1>4. \A z \in M : prev[z] # nullptr =>
          prev[z] \in M /\ orders[prev[z]].entry_nanos < orders[z].entry_nanos
    BY NullFacts DEF QueueOK, Queued, ListsOK, LinksSound, LL!WellLinked
<1>5. prev[y] = nullptr
    BY <1>2, <1>3, <1>4
<1>6. head[l] = y
    BY <1>5 DEF QueueOK, ListsOK, LinksSound, LL!WellLinked
<1>7. x # y => e < orders[x].entry_nanos
    <2>1. SUFFICES ASSUME x # y, ~ (e < orders[x].entry_nanos)
                   PROVE  FALSE
        OBVIOUS
    <2>2. orders[x].entry_nanos = e
        <3>1. orders[x].entry_nanos \in T
            BY <1>0
        <3>2. orders[x].entry_nanos \in Nat /\ e \in Nat
            BY <1>1, <3>1
        <3>3. ~ (orders[x].entry_nanos < e)
            BY <1>2, <3>1
        <3> QED BY <2>1, <3>2, <3>3
    <2>3. prev[x] # nullptr
        BY <1>6, <2>1 DEF QueueOK, ListsOK, LinksSound, LL!WellLinked
    <2> QED BY <1>2, <1>4, <2>2, <2>3
<1> QED BY <1>3, <1>6, <1>7

LEMMA UnlinkQueued ==
    ASSUME QueueOK, NEW x \in Resting, LL!Unlink(LevelOf(x), x),
           Resting' = Resting \ {x},
           incoming' = incoming, clock' = clock,
           \A y \in Slots \ {x} : orders'[y].entry_nanos = orders[y].entry_nanos
    PROVE  Queued'
<1> USE NullFacts
<1>1. \A y \in Resting' : next'[y] # nullptr =>
          /\ next'[y] \in Resting'
          /\ orders[y].entry_nanos < orders[next'[y]].entry_nanos
    <2> TAKE y \in Resting'
    <2>1. next'[y] = IF next[y] = x THEN next[x] ELSE next[y]
        BY UnlinkEffect DEF QueueOK, ListsOK
    <2>2. \A z \in Resting : next[z] # nullptr =>
              /\ next[z] \in Resting
              /\ orders[z].entry_nanos < orders[next[z]].entry_nanos
              /\ orders[z].entry_nanos \in Nat
              /\ orders[next[z]].entry_nanos \in Nat
        BY DEF QueueOK, Queued, ListsOK, LinksSound, LL!WellLinked
    <2>3. next[x] # x
        <3>1. x # nullptr
            BY DEF QueueOK, ListsOK
        <3> QED BY <2>2, <3>1
    <2>4. y \in Resting /\ y # x
        OBVIOUS
    <2>5. CASE next[y] = x
        <3>1. x # nullptr
            BY DEF QueueOK, ListsOK
        <3>2. /\ orders[y].entry_nanos < orders[x].entry_nanos
              /\ orders[y].entry_nanos \in Nat
              /\ orders[x].entry_nanos \in Nat
            BY <2>2, <2>4, <2>5, <3>1
        <3>3. next[x] # nullptr =>
                /\ orders[x].entry_nanos < orders[next[x]].entry_nanos
                /\ orders[next[x]].entry_nanos \in Nat
            BY <2>2
        <3> QED BY <2>1, <2>2, <2>3, <2>5, <3>2, <3>3
    <2>6. CASE next[y] # x
        BY <2>1, <2>2, <2>4, <2>6
    <2> QED BY <2>5, <2>6
<1>2. incoming # nullptr => incoming \in Slots \ {x}
    BY DEF QueueOK
<1> QED BY <1>1, <1>2 DEF QueueOK, Queued, ListsOK

LEMMA LinkQueued ==
    ASSUME QueueOK, NEW x \in Slots \ Resting, x = incoming,
           NEW l \in Level, LL!Link(l, x),
           Resting' = Resting \cup {x},
           incoming' = nullptr, clock' = clock, orders' = orders
    PROVE  Queued'
<1> USE NullFacts
<1>1. \A y \in Resting : next'[y] # nullptr =>
          next'[y] = next[y] \/ next'[y] = x
    BY LinkEffect DEF QueueOK, ListsOK
<1>2. next'[x] = nullptr
    BY LinkEffect DEF QueueOK
<1> QED BY <1>1, <1>2 DEF QueueOK, Queued, ListsOK

-----------------------------------------------------------------------------
(***************************************************************************)
(* The invariant is inductive: one lemma for each kind of step.            *)
(***************************************************************************)
LEMMA Derived ==
    ASSUME IInv
    PROVE  /\ ListsOK
           /\ StackOK
           /\ QueueOK
           /\ \A x \in Slots : orders[x] \in OrderType
           /\ Resting \cap Pool!FreeSlots = {}
           /\ incoming \notin Resting
           /\ \A x \in Slots \ Pool!FreeSlots :
                 LevelOf(x) \in Level /\ orders[x].side \in Side
<1> USE DEF IInv, TypeOK
<1>1. /\ Resting \subseteq Slots \ Pool!FreeSlots
      /\ incoming \notin Resting
    BY DEF Resting
<1>2. \A x \in Slots : /\ orders[x] \in OrderType
                       /\ orders[x].side \in Side
                       /\ orders[x].entry_nanos \in Nat
    BY DEF OrderType
<1>3. \A x \in Slots \ Pool!FreeSlots : LevelOf(x) \in Level
    BY <1>2, PriceFacts DEF Stored, LevelOf
<1>4. ListsOK
    BY <1>1, <1>3 DEF ListsOK, LevelTypes
<1>5. QueueOK
    BY <1>1, <1>2, <1>4 DEF QueueOK
<1>6. StackOK
    BY DEF StackOK, PoolSound
<1> QED BY <1>1, <1>2, <1>3, <1>4, <1>5, <1>6

LEMMA BeginAddStep ==
    ASSUME IInv, NEW msg \in AddMessage, NEW o, incoming = nullptr,
           BeginAdd(msg, o)
    PROVE  IInv'
<1> DEFINE new == [id |-> msg.order_id, side |-> msg.side,
                   status |-> "Active", price |-> msg.price,
                   quantity |-> msg.quantity, filled_quantity |-> 0,
                   entry_nanos |-> clock]
<1> USE NullFacts, Derived
<1>1. /\ StackOK' /\ o \in Slots /\ o \in Pool!FreeSlots
      /\ Pool!FreeSlots' = Pool!FreeSlots \ {o}
    BY AcquireSlot DEF BeginAdd
<1>2. /\ new \in OrderType
      /\ new.id \in OrderIds /\ new.price \in Price /\ new.quantity # 0
    BY BookAssumption DEF IInv, TypeOK, AddMessage, OrderType
<1>3. /\ orders' = [orders EXCEPT ![o] = new]
      /\ incoming' = o /\ clock' = clock + 1
      /\ order_map' = [order_map EXCEPT ![HashSlot(new.id)] = o]
      /\ UNCHANGED <<next, prev, head, tail, total_quantity, order_count>>
      /\ UNCHANGED <<best, readd, match_count, trade_volume>>
    BY DEF BeginAdd, levelVars, statVars
<1> HIDE DEF new
<1>4. /\ orders' \in [Slots -> OrderType]
      /\ orders'[o] = new
      /\ \A x \in Slots \ {o} : orders'[x] = orders[x]
    BY <1>1, <1>2, <1>3 DEF IInv, TypeOK
<1>5. Resting' = Resting
    BY <1>1, <1>3, <1>4 DEF Resting
<1>6. TypeOK'
    <2>1. order_map' \in [0 .. kMaxOrders - 1 -> Slots \cup {nullptr}]
        BY <1>1, <1>3 DEF IInv, TypeOK
    <2>2. free_stack' \in Seq(Slots) /\ incoming' \in Slots \cup {nullptr}
        BY <1>1, <1>3 DEF StackOK
    <2>3. clock' \in Nat
        BY <1>3 DEF IInv, TypeOK
    <2> QED BY <1>3, <1>4, <2>1, <2>2, <2>3 DEF IInv, TypeOK
<1>7. PoolSound'
    BY <1>1, <1>3 DEF PoolSound, StackOK
<1>8. Stored'
    BY <1>1, <1>2, <1>3, <1>4 DEF IInv, Stored
<1>9. FillsSound'
    BY <1>1, <1>2, <1>3, <1>4 DEF IInv, FillsSound, OrderType, new
<1>10. MapSound'
    BY <1>1, <1>2, <1>3, <1>4, HashType DEF IInv, TypeOK, MapSound
<1>11. LinksSound'
    BY <1>1, <1>3, <1>4, <1>5 DEF IInv, LinksSound, LL!WellLinked, LevelOf
<1>12. Queued'
    BY <1>1, <1>3, <1>4, <1>5 DEF IInv, QueueOK, Queued, ListsOK, new
<1>13. BestExact' /\ BestApart'
    <2>1. BestOK'
        BY <1>3, BestSettled DEF BestOK, BestFirm, BestApart
    <2> QED BY <2>1, FirmIsExact, PTL DEF BestOK
<1> QED BY <1>6, <1>7, <1>8, <1>9, <1>10, <1>11, <1>12, <1>13 DEF IInv

LEMMA FinishAddStep ==
    ASSUME IInv, FinishAdd
    PROVE  IInv'
<1> DEFINE o == orders[incoming]
           s == o.side
           p == o.price
<1> USE NullFacts, Derived
<1>1. /\ incoming \in Slots /\ incoming \notin Pool!FreeSlots
      /\ incoming \notin Resting
      /\ s \in Side /\ p \in Price /\ LevelOf(incoming) = <<s, p>>
      /\ o.quantity \in Nat /\ o.filled_quantity \in Nat
    BY DEF FinishAdd, IInv, TypeOK, PoolSound, Stored, LevelOf, OrderType
<1>2. /\ incoming' = nullptr /\ readd' = NoMessage
      /\ UNCHANGED <<orders, free_stack, order_map, clock, match_count, trade_volume>>
    BY DEF FinishAdd, statVars
<1>3. Pool!FreeSlots' = Pool!FreeSlots
    BY <1>2 DEF Pool!FreeSlots
<1>4. PoolSound' /\ Stored' /\ FillsSound' /\ MapSound'
    <2>1. PoolSound'
        <3>1. nullptr \notin Pool!FreeSlots
            BY DEF StackOK, Pool!FreeSlots
        <3> QED BY <1>2, <1>3, <3>1 DEF IInv, PoolSound
    <2>2. Stored'
        BY <1>2, <1>3 DEF IInv, Stored
    <2>3. FillsSound'
        BY <1>2, <1>3 DEF IInv, FillsSound
    <2>4. MapSound'
        BY <1>2, <1>3 DEF IInv, MapSound
    <2> QED BY <2>1, <2>2, <2>3, <2>4
<1>0. BestOK
    BY BestSettled DEF FinishAdd
<1>5. CASE o.status = "Filled"
    <2>1. UNCHANGED <<next, prev, head, tail, total_quantity, order_count, best>>
        BY <1>5 DEF FinishAdd, levelVars
    <2>2. Resting' = Resting
        BY <1>2, <1>3, <1>5 DEF Resting
    <2>3. TypeOK'
        BY <1>2, <2>1 DEF IInv, TypeOK
    <2>4. LinksSound'
        BY <1>2, <2>1, <2>2 DEF IInv, LinksSound, LL!WellLinked, LevelOf
    <2>5. Queued'
        BY <1>2, <2>1, <2>2 DEF IInv, Queued
    <2>6. BestOK'
        BY <1>0, <2>1 DEF BestOK, BestFirm, BestApart
    <2> QED BY <1>4, <2>3, <2>4, <2>5, <2>6, FirmIsExact, PTL DEF IInv, BestOK
<1>6. CASE o.status # "Filled"
    <2>1. /\ LL!PushBack(<<s, p>>, incoming, o.quantity)
          /\ LL!Link(<<s, p>>, incoming)
          /\ best' = IF best[s] = kInvalidPrice \/ Better(s, p, best[s])
                     THEN [best EXCEPT ![s] = p] ELSE best
        BY <1>1, <1>6 DEF FinishAdd, LL!PushBack
    <2>2. Resting' = Resting \cup {incoming}
        BY <1>1, <1>2, <1>3, <1>6 DEF Resting
    <2>3. best[Opposite(s)] # kInvalidPrice => ~ Accepts(s, p, best[Opposite(s)])
        <3>1. o.filled_quantity < o.quantity
            BY <1>1, <1>6 DEF IInv, FillsSound
        <3> QED BY <1>1, <3>1 DEF FinishAdd, CanMatch
    <2>4. LevelTypes'
        BY <1>1, <2>1, PushBackType DEF ListsOK
    <2>5. BestOK'
        BY <1>0, <1>1, <2>1, <2>3, LinkBest
    <2>6. TypeOK'
        BY <1>2, <2>4, <2>5 DEF IInv, TypeOK, LevelTypes, BestOK
    <2>7. LinksSound'
        <3>1. \A y \in Resting' : LevelOf(y)' = LevelOf(y)
            BY <1>2 DEF LevelOf
        <3> QED BY <1>1, <2>1, <2>2, <3>1, LinkSound DEF ListsOK
    <2>8. Queued'
        BY <1>1, <1>2, <2>1, <2>2, LinkQueued, PriceFacts
    <2> QED BY <1>4, <2>5, <2>6, <2>7, <2>8, FirmIsExact, PTL DEF IInv, BestOK
<1> QED BY <1>5, <1>6

\* What cancel_order and the fill of a whole order have in common: x leaves
\* its level, the map and the pool, and no other slot changes but for what the
\* incoming order has filled.
LEMMA LeaveStep ==
    ASSUME IInv, NEW x \in Resting, NEW q \in Int,
           LL!Remove(LevelOf(x), x, q), Unmap(orders[x].id), Pool!Release(x),
           orders' \in [Slots -> OrderType],
           \A y \in Slots \ {x} :
              /\ orders'[y].id = orders[y].id
              /\ orders'[y].side = orders[y].side
              /\ orders'[y].price = orders[y].price
              /\ orders'[y].entry_nanos = orders[y].entry_nanos
              /\ y # incoming => orders'[y].status = orders[y].status,
           incoming' = incoming, clock' = clock
    PROVE  /\ Pool!FreeSlots' = Pool!FreeSlots \cup {x}
           /\ LevelTypes' /\ StackOK'
           /\ order_map' \in [0 .. kMaxOrders - 1 -> Slots \cup {nullptr}]
           /\ PoolSound' /\ Stored' /\ MapSound' /\ LinksSound' /\ Queued'
<1> DEFINE s == orders[x].side
           p == orders[x].price
<1> USE NullFacts, Derived
<1>1. /\ x \in Slots \ Pool!FreeSlots
      /\ x # incoming
      /\ s \in Side /\ p \in Price /\ orders[x].id \in OrderIds
      /\ LevelOf(x) = <<s, p>> /\ LevelOf(x) \in Level
    BY DEF Resting, IInv, Stored, LevelOf
<1>2. /\ StackOK'
      /\ Pool!FreeSlots' = Pool!FreeSlots \cup {x}
    BY <1>1, ReleaseSlot
<1>3. Resting' = Resting \ {x}
    BY <1>1, <1>2 DEF Resting
<1>4. LL!Unlink(LevelOf(x), x)
    BY DEF LL!Remove
<1>5. LevelTypes'
    BY <1>1, RemoveType DEF ListsOK
<1>7. LinksSound'
    <2>1. \A y \in Resting' : LevelOf(y)' = LevelOf(y)
        BY <1>3 DEF LevelOf, ListsOK
    <2> QED BY <1>3, <1>4, <2>1, UnlinkSound
<1>8. Queued'
    BY <1>3, <1>4, UnlinkQueued
<1>9. PoolSound'
    BY <1>1, <1>2 DEF IInv, PoolSound, StackOK
<1>10. Stored'
    BY <1>2 DEF IInv, Stored
<1>11. HashSlot(orders[x].id) \in 0 .. kMaxOrders - 1
    BY <1>1, HashType
<1>12. order_map' \in [0 .. kMaxOrders - 1 -> Slots \cup {nullptr}]
    BY <1>11 DEF Unmap, IInv, TypeOK
<1>13. MapSound'
    <2> SUFFICES ASSUME NEW h \in 0 .. kMaxOrders - 1, order_map'[h] # nullptr
                 PROVE  /\ order_map'[h] \notin Pool!FreeSlots'
                        /\ HashSlot(orders'[order_map'[h]].id) = h
        BY <1>12 DEF MapSound, HashSlot
    <2>1. order_map'[h] = order_map[h] /\ h # HashSlot(orders[x].id)
        BY <1>11 DEF Unmap, IInv, TypeOK
    <2>2. /\ order_map[h] \in Slots \ Pool!FreeSlots
          /\ HashSlot(orders[order_map[h]].id) = h
        BY <2>1 DEF IInv, MapSound, TypeOK
    <2>3. order_map[h] # x
        BY <2>1, <2>2
    <2>4. orders'[order_map[h]].id = orders[order_map[h]].id
        BY <2>2, <2>3
    <2> QED BY <1>2, <2>1, <2>2, <2>3, <2>4
<1> QED BY <1>2, <1>5, <1>7, <1>8, <1>9, <1>10, <1>12, <1>13

\* cancel_order, alone or inside modify_order.
LEMMA UnbookStep ==
    ASSUME IInv, NEW id \in OrderIds, Found(id), incoming = nullptr, Unbook(id),
           readd' \in AddMessage \cup {NoMessage}
    PROVE  IInv'
<1> DEFINE x == order_map[HashSlot(id)]
<1> USE NullFacts, Derived
<1>1. /\ x \in Slots \ Pool!FreeSlots
      /\ orders[x].id = id
      /\ x \in Resting
    BY HashType DEF Found, IInv, TypeOK, MapSound, Resting
<1>2. /\ LevelOf(x) = <<orders[x].side, orders[x].price>>
      /\ orders[x] \in OrderType
      /\ Open(orders[x]) \in Int
    BY <1>1 DEF LevelOf, Open, OrderType
<1>3. /\ LL!Remove(LevelOf(x), x, Open(orders[x]))
      /\ Unmap(orders[x].id) /\ Pool!Release(x)
      /\ orders' = [orders EXCEPT ![x] = Blank]
      /\ incoming' = incoming /\ clock' = clock
      /\ match_count' = match_count /\ trade_volume' = trade_volume
    BY <1>1, <1>2 DEF Unbook, statVars
<1>4. best' = IF head'[LevelOf(x)] = nullptr /\ orders[x].price = best[orders[x].side]
              THEN [best EXCEPT ![orders[x].side] =
                       ScanBest(orders[x].side, orders[x].price, head')]
              ELSE best
    BY <1>2 DEF Unbook
<1> HIDE DEF x
<1>5. /\ orders' \in [Slots -> OrderType]
      /\ \A y \in Slots \ {x} : orders'[y] = orders[y]
    BY <1>1, <1>3, BlankType DEF IInv, TypeOK
<1>6. /\ Pool!FreeSlots' = Pool!FreeSlots \cup {x}
      /\ LevelTypes' /\ StackOK'
      /\ order_map' \in [0 .. kMaxOrders - 1 -> Slots \cup {nullptr}]
      /\ PoolSound' /\ Stored' /\ MapSound' /\ LinksSound' /\ Queued'
    BY <1>1, <1>2, <1>3, <1>5, LeaveStep
<1>9. BestOK'
    <2>1. LL!Unlink(LevelOf(x), x)
        BY <1>3 DEF LL!Remove
    <2>2. orders[x].side \in Side /\ orders[x].price \in Price
        BY <1>1 DEF IInv, Stored
    <2>3. ListsOK /\ BestOK
        BY BestSettled
    <2> QED BY <1>1, <1>2, <1>4, <2>1, <2>2, <2>3, UnlinkBest
<1>7. TypeOK'
    BY <1>3, <1>5, <1>6, <1>9 DEF IInv, TypeOK, LevelTypes, StackOK, BestOK
<1>8. FillsSound'
    BY <1>3, <1>5, <1>6 DEF IInv, FillsSound
<1> QED BY <1>6, <1>7, <1>8, <1>9, FirmIsExact, PTL DEF IInv, BestOK

\* A step that leaves the lists alone, and what the live orders are, their
\* places and their entries.
LEMMA InPlace ==
    ASSUME IInv,
           UNCHANGED <<next, prev, head, tail, order_count, free_stack,
                       order_map, best, incoming, clock>>,
           total_quantity' \in [Level -> Int],
           orders' \in [Slots -> OrderType],
           \A y \in Slots :
              /\ orders'[y].id = orders[y].id
              /\ orders'[y].side = orders[y].side
              /\ orders'[y].price = orders[y].price
              /\ orders'[y].entry_nanos = orders[y].entry_nanos
              /\ y # incoming =>
                    (orders'[y].status = "Filled" <=> orders[y].status = "Filled")
    PROVE  /\ Pool!FreeSlots' = Pool!FreeSlots
           /\ LevelTypes' /\ StackOK' /\ BestApart'
           /\ PoolSound' /\ Stored' /\ MapSound' /\ LinksSound' /\ Queued'
<1> USE NullFacts, Derived
<1>1. Pool!FreeSlots' = Pool!FreeSlots
    BY DEF Pool!FreeSlots
<1>2. Resting' = Resting /\ Resting \subseteq Slots
    BY <1>1 DEF Resting
<1>3. \A y \in Slots : LevelOf(y)' = LevelOf(y)
    BY DEF LevelOf
<1>4. LevelTypes' /\ StackOK'
    BY DEF ListsOK, LevelTypes, StackOK
<1>5. BestApart'
    BY DEF IInv, BestApart
<1>6. PoolSound'
    BY <1>1 DEF IInv, PoolSound
<1>7. Stored'
    BY <1>1 DEF IInv, Stored
<1>8. MapSound'
    BY <1>1 DEF IInv, TypeOK, MapSound
<1>9. LinksSound'
    <2> DEFINE at(y) == <<orders'[y].side, orders'[y].price>>
    <2>1. \A y \in Slots : at(y) = LevelOf(y)
        BY DEF LevelOf
    <2>2. LinksSound
        BY DEF IInv
    <2>3. \A l \in Level :
            /\ (head'[l] = nullptr) <=> (tail'[l] = nullptr)
            /\ head'[l] # nullptr =>
                /\ head'[l] \in Resting'
                /\ at(head'[l]) = l
                /\ prev'[head'[l]] = nullptr
            /\ tail'[l] # nullptr =>
                /\ tail'[l] \in Resting'
                /\ at(tail'[l]) = l
                /\ next'[tail'[l]] = nullptr
        BY <1>2, <2>1, <2>2 DEF LinksSound, LL!WellLinked
    <2>4. Resting \subseteq Slots /\ UNCHANGED <<next, prev, head, tail>>
        BY <1>2
    <2>5. \A y \in Resting :
            /\ prev[y] = nullptr => head[LevelOf(y)] = y
            /\ prev[y] # nullptr =>
                /\ prev[y] \in Resting
                /\ LevelOf(prev[y]) = LevelOf(y)
                /\ next[prev[y]] = y
            /\ next[y] = nullptr => tail[LevelOf(y)] = y
            /\ next[y] # nullptr =>
                /\ next[y] \in Resting
                /\ LevelOf(next[y]) = LevelOf(y)
                /\ prev[next[y]] = y
        BY <2>2 DEF LinksSound, LL!WellLinked
    <2>6. \A y \in Resting' :
            /\ prev'[y] = nullptr => head'[at(y)] = y
            /\ prev'[y] # nullptr =>
                /\ prev'[y] \in Resting'
                /\ at(prev'[y]) = at(y)
                /\ next'[prev'[y]] = y
            /\ next'[y] = nullptr => tail'[at(y)] = y
            /\ next'[y] # nullptr =>
                /\ next'[y] \in Resting'
                /\ at(next'[y]) = at(y)
                /\ prev'[next'[y]] = y
        <3> HIDE DEF at
        <3> QED BY <1>2, <2>1, <2>4, <2>5
    <2>7. \A y \in Slots \ Resting' : next'[y] = nullptr /\ prev'[y] = nullptr
        BY <1>2, <2>2 DEF LinksSound, LL!WellLinked, Slots, Pool!Slots
    <2> QED BY <2>3, <2>6, <2>7, Zenon DEF LinksSound, LL!WellLinked, LevelOf, Slots, Pool!Slots
<1>10. Queued'
    <2>1. \A y \in Resting : next[y] # nullptr => next[y] \in Slots
        BY <1>2 DEF ListsOK, LevelTypes
    <2>2. incoming # nullptr => incoming \in Slots
        BY DEF QueueOK
    <2> QED BY <1>2, <2>1, <2>2 DEF QueueOK, Queued
<1> QED BY <1>1, <1>4, <1>5, <1>6, <1>7, <1>8, <1>9, <1>10

\* modify_order in place.
LEMMA ModifyDownStep ==
    ASSUME IInv, NEW id \in OrderIds, NEW q \in Quantities \cup {0},
           ModifyDown(id, q)
    PROVE  IInv'
<1> DEFINE x == order_map[HashSlot(id)]
           new == [orders[x] EXCEPT !.quantity = orders[x].filled_quantity + q]
<1> USE NullFacts, Derived
<1>1. /\ x \in Slots \ Pool!FreeSlots
      /\ x \in Resting /\ LevelOf(x) \in Level
      /\ orders[x].status # "Filled"
      /\ incoming = nullptr
    BY HashType DEF ModifyDown, Idle, Found, IInv, TypeOK, MapSound, Resting
<1>2. q \in Nat
    BY BookAssumption
<1>3. /\ orders[x] \in OrderType
      /\ orders[x].quantity \in Nat
      /\ orders[x].filled_quantity \in Nat
      /\ Open(orders[x]) - q \in Int
    BY <1>1, <1>2 DEF Open, OrderType
<1>4. /\ LL!Reduce(LevelOf(x), Open(orders[x]) - q)
      /\ orders' = [orders EXCEPT ![x] = new]
    BY DEF ModifyDown, Resized
<1>5. UNCHANGED <<free_stack, order_map, best, incoming, readd, clock,
                  match_count, trade_volume>>
    BY DEF ModifyDown, callVars, statVars
<1>6. /\ new \in OrderType
      /\ new.id = orders[x].id /\ new.side = orders[x].side
      /\ new.price = orders[x].price /\ new.status = orders[x].status
      /\ new.entry_nanos = orders[x].entry_nanos
      /\ new.quantity = orders[x].filled_quantity + q
      /\ new.filled_quantity = orders[x].filled_quantity
    BY <1>2, <1>3 DEF OrderType
<1> HIDE DEF x, new
<1>7. /\ orders' \in [Slots -> OrderType]
      /\ orders'[x] = new
      /\ \A y \in Slots \ {x} : orders'[y] = orders[y]
    BY <1>1, <1>4, <1>6 DEF IInv, TypeOK
<1>8. /\ total_quantity' \in [Level -> Int]
      /\ UNCHANGED <<next, prev, head, tail, order_count>>
    BY <1>1, <1>3, <1>4 DEF LL!Reduce, IInv, TypeOK
<1>9. /\ Pool!FreeSlots' = Pool!FreeSlots
      /\ LevelTypes' /\ StackOK' /\ BestApart'
      /\ PoolSound' /\ Stored' /\ MapSound' /\ LinksSound' /\ Queued'
    <2>1. \A y \in Slots :
              /\ orders'[y].id = orders[y].id
              /\ orders'[y].side = orders[y].side
              /\ orders'[y].price = orders[y].price
              /\ orders'[y].entry_nanos = orders[y].entry_nanos
              /\ y # incoming =>
                    (orders'[y].status = "Filled" <=> orders[y].status = "Filled")
        BY <1>6, <1>7
    <2> QED BY <1>5, <1>7, <1>8, <2>1, InPlace
<1>10. TypeOK'
    BY <1>5, <1>7, <1>9 DEF IInv, TypeOK, LevelTypes, StackOK
<1>11. FillsSound'
    BY <1>1, <1>2, <1>3, <1>5, <1>6, <1>7, <1>9 DEF IInv, FillsSound
<1>12. BestFirm'
    BY <1>1, <1>5, <1>8, BestSettled DEF BestOK, BestFirm
<1> QED BY <1>9, <1>10, <1>11, <1>12, FirmIsExact, PTL DEF IInv

\* Only the level that a fill takes from can lose its last order, and the report
\* names that level's price.
LEMMA FillBest ==
    ASSUME IInv, BestOK, NEW s \in Side, best[s] \in Price,
           best' = best,
           \A l \in Level \ {<<s, best[s]>>} : head'[l] = head[l],
           head[<<s, best[s]>>] # nullptr,
           incoming' # nullptr, s = Opposite(orders'[incoming'].side),
           report' \in TradeReport, report'.price = best[s]
    PROVE  BestExact' /\ BestApart'
<1> USE PriceFacts
<1>1. JustEmptied(s)'
    BY NoReportAssumption DEF JustEmptied
<1>2. \A t \in Side \ {s}, q \in Price : head'[<<t, q>>] = head[<<t, q>>]
    OBVIOUS
<1>3. \A q \in Price : head'[<<s, q>>] # nullptr => head[<<s, q>>] # nullptr
    <2> SUFFICES ASSUME NEW q \in Price, head'[<<s, q>>] # nullptr
                 PROVE  head[<<s, q>>] # nullptr
        OBVIOUS
    <2>1. CASE q = best[s]
        BY <2>1
    <2>2. CASE q # best[s]
        BY <2>2
    <2> QED BY <2>1, <2>2
<1>4. \A t \in Side, q \in Price : head'[<<t, q>>] # nullptr =>
          best'[t] # kInvalidPrice /\ ~ Better(t, q, best'[t])
    BY <1>2, <1>3 DEF BestOK, BestFirm
<1>5. \A t \in Side \ {s} : best'[t] # kInvalidPrice => head'[<<t, best'[t]>>] # nullptr
    BY <1>2 DEF BestOK, BestFirm
<1>6. BestExact'
    BY <1>1, <1>4, <1>5 DEF BestExact
<1> QED BY <1>6 DEF BestOK, BestApart

\* A fill of match().
LEMMA MatchStepStep ==
    ASSUME IInv, MatchStep
    PROVE  IInv'
<1> DEFINE o == orders[incoming]
           s == Opposite(o.side)
           p == best[s]
           x == head[<<s, p>>]
           q == IF Open(orders[x]) < Open(o) THEN Open(orders[x]) ELSE Open(o)
           r == Filled(orders[x], q)
           i == Filled(o, q)
           x1 == IF r.status = "Filled" THEN Blank ELSE r
<1> USE NullFacts, Derived
<1>1. /\ incoming \in Slots /\ incoming \notin Pool!FreeSlots
      /\ incoming \notin Resting
      /\ o \in OrderType
      /\ s \in Side /\ p \in Price /\ <<s, p>> \in Level
      /\ o.quantity > o.filled_quantity
    BY PriceFacts DEF MatchStep, CanMatch, IInv, TypeOK, PoolSound, Opposite, Side
<1>0. BestOK
    BY BestSettled DEF MatchStep
<1>2. x # nullptr
    BY <1>1 DEF MatchStep, CanMatch, Emptied
<1>3. /\ x \in Resting /\ LevelOf(x) = <<s, p>>
    BY <1>1, <1>2 DEF IInv, LinksSound, LL!WellLinked
<1>4. /\ x \in Slots \ Pool!FreeSlots /\ x # incoming
      /\ orders[x] \in OrderType
      /\ orders[x].side = s /\ orders[x].price = p
      /\ orders[x].status # "Filled"
    BY <1>1, <1>3 DEF Resting, LevelOf
<1>5. /\ Fill(x, q)
      /\ UNCHANGED <<best, incoming, readd, clock>>
    BY <1>2 DEF MatchStep, callVars
<1>6. /\ orders[x].quantity \in Nat /\ orders[x].filled_quantity \in Nat
      /\ o.quantity \in Nat /\ o.filled_quantity \in Nat
      /\ orders[x].filled_quantity <= orders[x].quantity
    BY <1>1, <1>4 DEF OrderType, IInv, FillsSound
<1>7. /\ q \in Nat
      /\ orders[x].filled_quantity + q <= orders[x].quantity
      /\ o.filled_quantity + q <= o.quantity
    <2> DEFINE a == orders[x].quantity - orders[x].filled_quantity
               b == o.quantity - o.filled_quantity
    <2>1. a \in Nat /\ b \in Nat
        BY <1>1, <1>6
    <2>2. q = IF a < b THEN a ELSE b
        BY DEF Open
    <2> HIDE DEF q
    <2>3. q \in Nat /\ q <= a /\ q <= b
        <3> HIDE DEF a, b
        <3> QED BY <2>1, <2>2
    <2> HIDE DEF o, x
    <2> QED BY <1>6, <2>3
<1>8. /\ orders' = [orders EXCEPT ![x] = x1, ![incoming] = i]
      /\ match_count' = match_count + 1
      /\ trade_volume' = trade_volume + q
      /\ report' = Report(orders[x], o, q)
    BY <1>4, <1>5 DEF Fill
<1>16. report' \in TradeReport /\ report'.price = p
    BY <1>1, <1>4, <1>7, <1>8 DEF Report, TradeReport, IInv, Stored
<1> HIDE DEF o, s, p, x, q
<1>9. /\ r \in OrderType /\ r.id = orders[x].id /\ r.side = orders[x].side
      /\ r.price = orders[x].price /\ r.entry_nanos = orders[x].entry_nanos
      /\ r.quantity = orders[x].quantity
      /\ r.filled_quantity = orders[x].filled_quantity + q
      /\ r.status = "Filled" <=> r.filled_quantity >= r.quantity
    BY <1>4, <1>7, FilledType
<1>10. /\ i \in OrderType /\ i.id = o.id /\ i.side = o.side
       /\ i.price = o.price /\ i.entry_nanos = o.entry_nanos
       /\ i.quantity = o.quantity
       /\ i.filled_quantity = o.filled_quantity + q
       /\ i.status = "Filled" <=> i.filled_quantity >= i.quantity
    BY <1>1, <1>7, FilledType
<1>11. Open(r) \in Int
    BY <1>9 DEF Open, OrderType
<1> HIDE DEF r, i
<1>12. /\ orders' \in [Slots -> OrderType]
       /\ orders'[x] = x1 /\ orders'[incoming] = i
       /\ \A y \in Slots \ {x, incoming} : orders'[y] = orders[y]
    BY <1>1, <1>4, <1>8, <1>9, <1>10, BlankType DEF IInv, TypeOK
<1>13. match_count' \in Nat /\ trade_volume' \in Nat
    BY <1>7, <1>8 DEF IInv, TypeOK
<1>17. ASSUME \A l \in Level \ {<<s, p>>} : head'[l] = head[l]
       PROVE  BestExact' /\ BestApart'
    <2>1. incoming' # nullptr /\ s = Opposite(orders'[incoming'].side)
        BY <1>1, <1>5, <1>10, <1>12 DEF s
    <2>2. head[<<s, p>>] # nullptr
        BY <1>2 DEF x
    <2>3. p = best[s] /\ p \in Price /\ s \in Side
        BY <1>1 DEF p
    <2> HIDE DEF x1, TradeReport
    <2> QED BY <1>0, <1>5, <1>16, <1>17, <2>1, <2>2, <2>3, FillBest
<1>14. CASE r.status = "Filled"
    <2>1. /\ LL!Remove(LevelOf(x), x, q + Open(r))
          /\ Unmap(orders[x].id) /\ Pool!Release(x)
        BY <1>3, <1>5, <1>9, <1>14 DEF Fill, r
    <2>3. \A y \in Slots \ {x} :
              /\ orders'[y].id = orders[y].id
              /\ orders'[y].side = orders[y].side
              /\ orders'[y].price = orders[y].price
              /\ orders'[y].entry_nanos = orders[y].entry_nanos
              /\ y # incoming => orders'[y].status = orders[y].status
        BY <1>10, <1>12 DEF o
    <2>4. q + Open(r) \in Int
        BY <1>7, <1>11
    <2>5. /\ Pool!FreeSlots' = Pool!FreeSlots \cup {x}
          /\ LevelTypes' /\ StackOK'
          /\ order_map' \in [0 .. kMaxOrders - 1 -> Slots \cup {nullptr}]
          /\ PoolSound' /\ Stored' /\ MapSound' /\ LinksSound' /\ Queued'
        BY <1>3, <1>5, <1>12, <2>1, <2>3, <2>4, LeaveStep
    <2>6. TypeOK'
        BY <1>5, <1>12, <1>13, <2>5 DEF IInv, TypeOK, LevelTypes, StackOK
    <2>7. FillsSound'
        <3>1. Pool!FreeSlots' = Pool!FreeSlots \cup {x} /\ incoming' = incoming
            BY <1>5, <2>5
        <3>2. \A y \in Slots \ {x, incoming} :
                  y \notin Pool!FreeSlots => orders'[y] = orders[y]
            BY <1>12
        <3>3. /\ i.filled_quantity <= i.quantity
              /\ i.status = "Filled" <=> i.filled_quantity = i.quantity
            BY <1>6, <1>7, <1>10
        <3> QED BY <1>12, <3>1, <3>2, <3>3 DEF IInv, FillsSound
    <2>8. \A l \in Level \ {<<s, p>>} : head'[l] = head[l]
        BY <1>3, <2>1, UnlinkEffect DEF LL!Remove, ListsOK, LinksSound, LL!WellLinked
    <2>9. BestExact' /\ BestApart'
        BY <1>17, <2>8
    <2> QED BY <2>5, <2>6, <2>7, <2>9 DEF IInv
<1>15. CASE r.status # "Filled"
    <2>1. /\ LL!Reduce(LevelOf(x), q)
          /\ UNCHANGED <<order_map, free_stack>>
        BY <1>3, <1>5, <1>15 DEF Fill, r
    <2>2. /\ UNCHANGED <<next, prev, head, tail, order_count>>
          /\ total_quantity' \in [Level -> Int]
        BY <1>1, <1>3, <1>7, <2>1 DEF LL!Reduce, IInv, TypeOK
    <2>4. \A y \in Slots :
              /\ orders'[y].id = orders[y].id
              /\ orders'[y].side = orders[y].side
              /\ orders'[y].price = orders[y].price
              /\ orders'[y].entry_nanos = orders[y].entry_nanos
              /\ y # incoming =>
                    (orders'[y].status = "Filled" <=> orders[y].status = "Filled")
        BY <1>4, <1>9, <1>10, <1>12, <1>15 DEF o
    <2>5. /\ Pool!FreeSlots' = Pool!FreeSlots
          /\ LevelTypes' /\ StackOK'
          /\ PoolSound' /\ Stored' /\ MapSound' /\ LinksSound' /\ Queued'
        BY <1>5, <1>12, <2>1, <2>2, <2>4, InPlace
    <2>6. TypeOK'
        BY <1>5, <1>12, <1>13, <2>1, <2>5 DEF IInv, TypeOK, LevelTypes, StackOK
    <2>7. FillsSound'
        BY <1>4, <1>5, <1>6, <1>7, <1>9, <1>10, <1>12, <1>15, <2>5 DEF IInv, FillsSound
    <2>8. BestExact' /\ BestApart'
        BY <1>17, <2>2
    <2> QED BY <2>5, <2>6, <2>7, <2>8 DEF IInv
<1> QED BY <1>14, <1>15

LEMMA InitInv ==
    ASSUME Init
    PROVE  IInv
<1> USE NullFacts, PriceFacts
<1>1. /\ orders \in [Slots -> OrderType] /\ \A x \in Slots : orders[x] = Blank
      /\ \A x \in Slots : next[x] = nullptr /\ prev[x] = nullptr
      /\ \A l \in Level : head[l] = nullptr /\ tail[l] = nullptr
      /\ incoming = nullptr
    BY BlankType DEF Init, LL!LevelInit, Slots, Pool!Slots
<1>2. /\ free_stack \in Seq(Slots) /\ Len(free_stack) = kMaxOrders
      /\ \A i \in 1 .. kMaxOrders : free_stack[i] = kMaxOrders - i
    BY BookAssumption DEF Init, Pool!PoolInit, Slots, Pool!Slots
<1>3. Pool!FreeSlots = Slots
    <2>1. \A x \in Slots : /\ kMaxOrders - x \in 1 .. kMaxOrders
                           /\ free_stack[kMaxOrders - x] = x
        BY <1>2, BookAssumption DEF Slots, Pool!Slots
    <2>2. \A x \in Slots : x \in Pool!FreeSlots
        BY <1>2, <2>1 DEF Pool!FreeSlots
    <2>3. \A i \in 1 .. kMaxOrders : free_stack[i] \in Slots
        BY <1>2, BookAssumption DEF Slots, Pool!Slots
    <2> QED BY <1>2, <2>2, <2>3 DEF Pool!FreeSlots
<1>4. TypeOK
    <2>1. /\ next \in [Slots -> Slots \cup {nullptr}]
          /\ prev \in [Slots -> Slots \cup {nullptr}]
          /\ head \in [Level -> Slots \cup {nullptr}]
          /\ tail \in [Level -> Slots \cup {nullptr}]
          /\ total_quantity \in [Level -> Int]
          /\ order_count \in [Level -> Int]
        BY DEF Init, LL!LevelInit, Slots, Pool!Slots
    <2>2. /\ order_map \in [0 .. kMaxOrders - 1 -> Slots \cup {nullptr}]
          /\ best \in [Side -> Price \cup {kInvalidPrice}]
          /\ incoming \in Slots \cup {nullptr}
          /\ readd \in AddMessage \cup {NoMessage}
          /\ clock \in Nat /\ match_count \in Nat /\ trade_volume \in Nat
        BY DEF Init
    <2> QED BY <1>1, <1>2, <2>1, <2>2 DEF TypeOK
<1>5. PoolSound
    BY <1>1, <1>2, <1>3 DEF PoolSound
<1>6. Stored /\ FillsSound
    BY <1>3 DEF Stored, FillsSound
<1>7. MapSound
    BY DEF Init, MapSound
<1>8. Resting = {}
    BY <1>3 DEF Resting
<1>9. LinksSound
    BY <1>1, <1>8 DEF LinksSound, LL!WellLinked, Slots, Pool!Slots
<1>10. Queued
    BY <1>1, <1>8 DEF Queued
<1>11. /\ \A s \in Side : best[s] = kInvalidPrice
       /\ \A s \in Side, p \in Price : head[<<s, p>>] = nullptr
    BY <1>1 DEF Init
<1>12. BestExact /\ BestApart
    BY <1>11 DEF BestExact, BestApart, Side, kInvalidPrice
<1> QED BY <1>4, <1>5, <1>6, <1>7, <1>9, <1>10, <1>12 DEF IInv

\* A step that changes at most the report, between calls.
LEMMA IdleStep ==
    ASSUME IInv, report' = report \/ incoming = nullptr,
           UNCHANGED <<orders, levelVars, free_stack, order_map, best, callVars,
                       clock, statVars>>
    PROVE  IInv'
<1> USE Derived
<1>1. UNCHANGED <<orders, next, prev, head, tail, total_quantity, order_count,
                  free_stack, order_map, best, incoming, readd, clock,
                  match_count, trade_volume>>
    BY DEF levelVars, callVars, statVars
<1>2. \A y \in Slots :
          /\ orders'[y].id = orders[y].id
          /\ orders'[y].side = orders[y].side
          /\ orders'[y].price = orders[y].price
          /\ orders'[y].entry_nanos = orders[y].entry_nanos
          /\ y # incoming =>
                (orders'[y].status = "Filled" <=> orders[y].status = "Filled")
    BY <1>1
<1>3. TypeOK'
    BY <1>1 DEF IInv, TypeOK
<1>4. /\ Pool!FreeSlots' = Pool!FreeSlots
      /\ BestApart'
      /\ PoolSound' /\ Stored' /\ MapSound' /\ LinksSound' /\ Queued'
    <2>1. orders' \in [Slots -> OrderType] /\ total_quantity' \in [Level -> Int]
        BY <1>3 DEF TypeOK
    <2> QED BY <1>1, <1>2, <2>1, InPlace
<1>5. FillsSound'
    BY <1>1, <1>4 DEF IInv, FillsSound
<1>6. BestExact'
    <2>1. CASE report' = report
        BY <1>1, <2>1 DEF IInv, BestExact, JustEmptied
    <2>2. CASE incoming = nullptr
        <3>1. BestFirm'
            BY <1>1, <2>2, BestSettled DEF BestOK, BestFirm
        <3> QED BY <3>1, FirmIsExact, PTL
    <2> QED BY <2>1, <2>2
<1> QED BY <1>3, <1>4, <1>5, <1>6 DEF IInv

\* match() leaves an emptied level behind.
LEMMA UpdateBestStep ==
    ASSUME IInv, UpdateBest
    PROVE  IInv'
<1> DEFINE s == Opposite(orders[incoming].side)
<1> USE NullFacts, Derived
<1>1. /\ incoming \in Slots /\ incoming # nullptr
      /\ s \in Side /\ best[s] \in Price
    BY DEF UpdateBest, Emptied, IInv, TypeOK, Opposite, Side
<1>2. UNCHANGED <<orders, next, prev, head, tail, total_quantity, order_count,
                  free_stack, order_map, incoming, readd, clock,
                  match_count, trade_volume>>
    BY DEF UpdateBest, levelVars, callVars, statVars
<1>3. best' = [best EXCEPT ![s] = ScanBest(s, best[s], head)]
    BY DEF UpdateBest
<1>4. \A t \in Side \ {s} : ~ JustEmptied(t)
    BY DEF JustEmptied
<1>5. BestOK'
    <2> HIDE DEF s
    <2>1. \A t \in Side \ {s} :
              best[t] # kInvalidPrice => head[<<t, best[t]>>] # nullptr
        BY <1>4 DEF IInv, BestExact
    <2>2. \A t \in Side, q \in Price : head[<<t, q>>] # nullptr =>
              best[t] # kInvalidPrice /\ ~ Better(t, q, best[t])
        BY DEF IInv, BestExact
    <2>3. BestApart /\ best \in [Side -> Price \cup {kInvalidPrice}]
        BY DEF IInv, TypeOK
    <2> QED BY <1>1, <1>2, <1>3, <2>1, <2>2, <2>3, ScanBestOK
<1>6. Pool!FreeSlots' = Pool!FreeSlots
    BY <1>2 DEF Pool!FreeSlots
<1>7. Resting' = Resting /\ \A y \in Slots : LevelOf(y)' = LevelOf(y)
    BY <1>2, <1>6 DEF Resting, LevelOf
<1>8. TypeOK'
    BY <1>2, <1>5 DEF IInv, TypeOK, BestOK
<1>9. PoolSound' /\ Stored' /\ FillsSound'
    BY <1>2, <1>6 DEF IInv, PoolSound, Stored, FillsSound
<1>10. MapSound'
    BY <1>2, <1>6 DEF IInv, MapSound
<1>11. LinksSound'
    BY <1>2, <1>7 DEF IInv, LinksSound, LL!WellLinked, LevelOf
<1>12. Queued'
    BY <1>2, <1>7 DEF IInv, Queued
<1> QED BY <1>5, <1>8, <1>9, <1>10, <1>11, <1>12, FirmIsExact, PTL DEF IInv, BestOK

LEMMA NextInv ==
    ASSUME IInv, [Next]_vars
    PROVE  IInv'
<1>1. CASE UNCHANGED vars
    BY <1>1, IdleStep DEF vars
<1>2. ASSUME NEW msg \in AddMessage, AddOrder(msg)
      PROVE  IInv'
    BY <1>2, BeginAddStep DEF AddOrder, Idle
<1>3. CASE RejectAdd
    BY <1>3, IdleStep DEF RejectAdd, Idle
<1>4. CASE MatchStep
    BY <1>4, MatchStepStep
<1>11. CASE UpdateBest
    BY <1>11, UpdateBestStep
<1>5. CASE FinishAdd
    BY <1>5, FinishAddStep
<1>6. ASSUME NEW id \in OrderIds, CancelOrder(id)
      PROVE  IInv'
    BY <1>6, UnbookStep DEF CancelOrder, Idle
<1>7. ASSUME NEW id \in OrderIds, NEW q \in Quantities \cup {0}, ModifyDown(id, q)
      PROVE  IInv'
    BY <1>7, ModifyDownStep
<1>8. ASSUME NEW id \in OrderIds, NEW q \in Quantities, ModifyUp(id, q)
      PROVE  IInv'
    <2> DEFINE x == order_map[HashSlot(id)]
    <2>1. x \in Slots \ Pool!FreeSlots
        BY <1>8, HashType, NullFacts DEF ModifyUp, Found, IInv, TypeOK, MapSound
    <2>2. orders[x].side \in Side /\ orders[x].price \in Price
        BY <2>1, Derived DEF IInv, Stored
    <2>3. readd' \in AddMessage
        BY <1>8, <2>2 DEF ModifyUp, ReaddMessage, AddMessage
    <2> QED BY <1>8, <2>3, UnbookStep DEF ModifyUp, Idle
<1>9. CASE ReAdd
    BY <1>9, BeginAddStep DEF ReAdd, IInv, TypeOK
<1>10. ASSUME NEW id \in OrderIds, Miss(id)
       PROVE  IInv'
    BY <1>10, IdleStep DEF Miss, Idle
<1> QED BY <1>1, <1>2, <1>3, <1>4, <1>5, <1>6, <1>7, <1>8, <1>9, <1>10, <1>11 DEF Next

LEMMA InvariantHolds == Spec => []IInv
<1>1. Init => IInv
    BY InitInv
<1>2. IInv /\ [Next]_vars => IInv'
    BY NextInv
<1> QED BY <1>1, <1>2, PTL DEF Spec

-----------------------------------------------------------------------------
(***************************************************************************)
(* The theorems.                                                           *)
(***************************************************************************)

\* The state of the book keeps its type under every call.
THEOREM TypeCorrect == Spec => []TypeOK
<1>1. IInv => TypeOK
    BY DEF IInv
<1> QED BY <1>1, InvariantHolds, PTL

\* No slot is on the free stack twice and the order being added is not on it:
\* add_order, fill and cancel_order never release a slot twice.
THEOREM PoolIsSound == Spec => []PoolSound
<1>1. IInv => PoolSound
    BY DEF IInv
<1> QED BY <1>1, InvariantHolds, PTL

\* push_back and remove keep the lists of all levels exactly the live resting
\* orders, each at its side and price.
THEOREM ListsAreSound == Spec => []LinksSound
<1>1. IInv => LinksSound
    BY DEF IInv
<1> QED BY <1>1, InvariantHolds, PTL

\* best_bid_ and best_ask_ are exact between calls and at every fill of match();
\* only from the fill that empties the best level to the end of its callback, and
\* until match() looks at the level again, may one name that empty level.
THEOREM BestIsExact == Spec => []BestExact
<1>1. IInv => BestExact
    BY DEF IInv
<1> QED BY <1>1, InvariantHolds, PTL

\* order_map_ never points to a released slot or to another entry's order.
THEOREM MapIsSound == Spec => []MapSound
<1>1. IInv => MapSound
    BY DEF IInv
<1> QED BY <1>1, InvariantHolds, PTL

\* fill() never fills an order beyond its quantity.
THEOREM FillsAreSound == Spec => []FillsSound
<1>1. IInv => FillsSound
    BY DEF IInv
<1> QED BY <1>1, InvariantHolds, PTL

\* A resting order's price is not better than its side's best price.
LEMMA BestBounds ==
    ASSUME IInv, NEW x \in Resting
    PROVE  /\ orders[x].side \in Side /\ orders[x].price \in Price
           /\ best[orders[x].side] \in Price
           /\ ~ Better(orders[x].side, orders[x].price, best[orders[x].side])
<1>1. orders[x].side \in Side /\ orders[x].price \in Price
    BY Derived DEF Resting, IInv, Stored
<1>2. head[<<orders[x].side, orders[x].price>>] # nullptr
    BY Derived, HeadFirst, NullFacts DEF LevelOf, ListsOK
<1> QED BY <1>1, <1>2 DEF IInv, TypeOK, BestExact

\* match() never leaves a buy at or above a sell in the book.
THEOREM NeverCrossed == Spec => []NotCrossed
<1>1. ASSUME IInv
      PROVE  NotCrossed
    <2> SUFFICES ASSUME NEW b \in Resting, NEW a \in Resting,
                        orders[b].side = "Buy", orders[a].side = "Sell"
                 PROVE  orders[b].price < orders[a].price
        BY DEF NotCrossed
    <2>1. /\ orders[b].price \in Price /\ best["Buy"] \in Price
          /\ ~ (orders[b].price > best["Buy"])
        BY <1>1, BestBounds DEF Better
    <2>2. /\ orders[a].price \in Price /\ best["Sell"] \in Price
          /\ ~ (orders[a].price < best["Sell"])
        BY <1>1, BestBounds DEF Better
    <2>3. best["Buy"] < best["Sell"]
        BY <1>1, <2>1, <2>2, PriceFacts DEF IInv, BestApart
    <2>4. /\ orders[b].price \in Int /\ best["Buy"] \in Int
          /\ orders[a].price \in Int /\ best["Sell"] \in Int
        BY <2>1, <2>2, PriceFacts
    <2> QED BY <2>1, <2>2, <2>3, <2>4
<1> QED BY <1>1, InvariantHolds, PTL

\* fill() fills in price-time order: the order that a step fills is the first
\* in line of its side, whatever other calls came before.
THEOREM PriorityHolds == Spec => TradePriority
<1> DEFINE Prio ==
        incoming # nullptr =>
        \A x \in Hit :
            /\ orders[x].side = Opposite(orders[incoming].side)
            /\ Accepts(orders[incoming].side, orders[incoming].price,
                       orders[x].price)
            /\ report'.price = orders[x].price
            /\ IF orders[x].side = "Buy"
               THEN /\ report'.buy_order_id = orders[x].id
                    /\ report'.sell_order_id = orders[incoming].id
               ELSE /\ report'.sell_order_id = orders[x].id
                    /\ report'.buy_order_id = orders[incoming].id
            /\ \A y \in Resting \ {x} :
                  orders[y].side = orders[x].side =>
                    /\ ~ Better(orders[x].side, orders[y].price, orders[x].price)
                    /\ orders[y].price = orders[x].price =>
                         orders[x].entry_nanos < orders[y].entry_nanos
<1>1. ASSUME IInv, MatchStep
      PROVE  Prio
    <2> DEFINE o == orders[incoming]
               s == Opposite(o.side)
               p == best[s]
               x == head[<<s, p>>]
               q == IF Open(orders[x]) < Open(o) THEN Open(orders[x]) ELSE Open(o)
    <2> USE NullFacts, <1>1, Derived
    <2>1. /\ incoming \in Slots /\ incoming \notin Resting
          /\ s \in Side /\ p \in Price /\ <<s, p>> \in Level
          /\ Accepts(o.side, o.price, p)
        BY PriceFacts DEF MatchStep, CanMatch, IInv, TypeOK, Opposite, Side
    <2>2. x # nullptr
        BY <2>1 DEF MatchStep, CanMatch, Emptied
    <2>3. /\ x \in Resting /\ LevelOf(x) = <<s, p>>
          /\ orders[x].side = s /\ orders[x].price = p
        BY <2>1, <2>2 DEF IInv, LinksSound, LL!WellLinked, LevelOf
    <2>4. Fill(x, q) /\ incoming' = incoming
        BY <2>2 DEF MatchStep, callVars
    <2> HIDE DEF q
    <2>5. \A y \in Slots \ {x, incoming} : orders'[y] = orders[y]
        BY <2>1, <2>3, <2>4 DEF Fill, IInv, TypeOK
    <2>6. Pool!FreeSlots' \subseteq Pool!FreeSlots \cup {x}
        <3>1. CASE Pool!Release(x)
            BY <2>3, <3>1, ReleaseSlot DEF Resting
        <3>2. CASE free_stack' = free_stack
            BY <3>2 DEF Pool!FreeSlots
        <3> QED BY <2>4, <3>1, <3>2 DEF Fill
    <2>7. Hit \subseteq {x}
        <3> SUFFICES ASSUME NEW y \in Resting, y # x
                     PROVE  y \notin Hit
            BY DEF Hit
        <3>1. y \in Slots /\ y \notin Pool!FreeSlots /\ y # incoming
              /\ orders[y].status # "Filled"
            BY <2>1 DEF Resting
        <3>2. orders'[y] = orders[y]
            BY <2>5, <3>1
        <3>3. y \in Resting'
            BY <2>4, <2>6, <3>1, <3>2 DEF Resting
        <3> QED BY <3>2, <3>3 DEF Hit
    <2>8. report' = Report(orders[x], o, q)
        BY <2>4 DEF Fill
    <2>9. ASSUME NEW y \in Resting \ {x}, orders[y].side = s
          PROVE  /\ ~ Better(s, orders[y].price, p)
                 /\ orders[y].price = p =>
                       orders[x].entry_nanos < orders[y].entry_nanos
        <3>1. ~ Better(s, orders[y].price, p)
            BY <2>9, BestBounds
        <3>2. orders[y].price = p => LevelOf(y) = <<s, p>>
            BY <2>9 DEF LevelOf
        <3>3. LevelOf(y) = <<s, p>> =>
                  orders[x].entry_nanos < orders[y].entry_nanos
            BY HeadFirst
        <3> QED BY <3>1, <3>2, <3>3
    <2> HIDE DEF x, p
    <2>10. /\ report'.price = p
           /\ IF s = "Buy"
              THEN report'.buy_order_id = orders[x].id /\ report'.sell_order_id = o.id
              ELSE report'.sell_order_id = orders[x].id /\ report'.buy_order_id = o.id
        BY <2>3, <2>8 DEF Report
    <2> HIDE DEF s
    <2>11. SUFFICES ASSUME NEW y \in Hit
                    PROVE  y = x
        BY <2>1, <2>3, <2>9, <2>10 DEF s, o
    <2> QED BY <2>7
<1>2. ASSUME IInv, UNCHANGED <<orders, free_stack>>,
             incoming' = incoming \/ incoming' = nullptr
      PROVE  Prio
    <2>1. Pool!FreeSlots' = Pool!FreeSlots
        BY <1>2 DEF Pool!FreeSlots
    <2>2. \A y \in Resting : y \in Resting' /\ orders'[y] = orders[y]
        BY <1>2, <2>1, Derived, NullFacts DEF Resting, ListsOK
    <2>3. Hit = {}
        BY <2>2 DEF Hit
    <2> QED BY <2>3
<1>3. ASSUME IInv, [Next]_vars
      PROVE  Prio
    <2>1. CASE UNCHANGED vars
        BY <1>2, <1>3, <2>1 DEF vars, callVars
    <2>2. CASE MatchStep
        BY <1>1, <1>3, <2>2
    <2>3. CASE FinishAdd
        BY <1>2, <1>3, <2>3 DEF FinishAdd
    <2>5. CASE UpdateBest
        BY <1>2, <1>3, <2>5 DEF UpdateBest, callVars
    <2>4. CASE incoming = nullptr
        BY <2>4
    <2> QED BY <1>3, <2>1, <2>2, <2>3, <2>4, <2>5
            DEF Next, AddOrder, RejectAdd, CancelOrder, ModifyDown, ModifyUp,
                ReAdd, Miss, Idle
<1>4. ASSUME IInv, [Next]_vars
      PROVE  [Prio]_vars
    BY <1>3, <1>4
<1> QED BY <1>4, InvariantHolds, PTL DEF Spec, TradePriority

\* While modify_order re-adds an order, nothing on the other side is within
\* the order's limit, the order being added is that order, and no trade was
\* reported.
ReaddApart ==
    readd # NoMessage =>
        /\ report = NoReport
        /\ best[Opposite(readd.side)] # kInvalidPrice =>
              ~ Accepts(readd.side, readd.price, best[Opposite(readd.side)])
        /\ incoming # nullptr =>
              /\ orders[incoming].side = readd.side
              /\ orders[incoming].price = readd.price

LEMMA ReaddNoMatch ==
    ASSUME IInv, ReaddApart, readd # NoMessage
    PROVE  ~ MatchStep /\ ~ UpdateBest
<1>1. ~ MatchStep
    BY DEF ReaddApart, MatchStep, CanMatch
<1>2. ASSUME UpdateBest
      PROVE  FALSE
    <2> DEFINE t == Opposite(orders[incoming].side)
    <2>1. /\ report = NoReport
          /\ best[t] # kInvalidPrice /\ head[<<t, best[t]>>] = nullptr
        BY <1>2 DEF ReaddApart, UpdateBest, Emptied
    <2>2. t \in Side
        BY DEF Opposite, Side
    <2> QED BY <2>1, <2>2 DEF IInv, BestExact, JustEmptied
<1> QED BY <1>1, <1>2

\* The cancel inside modify_order leaves the other side's best price alone,
\* and the cancelled order was on the right side of it.
LEMMA ModifyUpApart ==
    ASSUME IInv, NEW id \in OrderIds, NEW q \in Quantities, ModifyUp(id, q)
    PROVE  ReaddApart'
<1> DEFINE x == order_map[HashSlot(id)]
           s == orders[x].side
           p == orders[x].price
           t == Opposite(s)
<1> USE Derived, NullFacts
<1>1. x \in Resting
    BY HashType DEF ModifyUp, Found, Idle, IInv, TypeOK, MapSound, Resting
<1>2. /\ s \in Side /\ p \in Price
      /\ best[s] \in Price /\ ~ Better(s, p, best[s])
    BY <1>1, BestBounds
<1>3. /\ readd'.side = s /\ readd'.price = p /\ incoming' = nullptr
      /\ report' = NoReport
      /\ \/ best' = best
         \/ \E b : best' = [best EXCEPT ![s] = b]
    BY DEF ModifyUp, Idle, Unbook, ReaddMessage
<1> HIDE DEF x
<1>4. /\ t \in Side /\ t # s
      /\ t = IF s = "Buy" THEN "Sell" ELSE "Buy"
    BY <1>2 DEF Opposite, Side
<1>5. best'[t] = best[t]
    BY <1>3, <1>4 DEF IInv, TypeOK
<1>6. best[t] # kInvalidPrice => best[t] \in Price
    BY <1>4 DEF IInv, TypeOK
<1>7. best[t] # kInvalidPrice => ~ Accepts(s, p, best[t])
    <2> SUFFICES ASSUME best[t] # kInvalidPrice
                 PROVE  ~ Accepts(s, p, best[t])
        OBVIOUS
    <2>1. p \in Int /\ best[s] \in Int /\ best[t] \in Int /\ best[s] # kInvalidPrice
        BY <1>2, <1>6, PriceFacts
    <2>2. s \in {"Buy", "Sell"}
        BY <1>2 DEF Side
    <2> HIDE DEF s, p
    <2> QED BY <1>2, <1>4, <2>1, <2>2 DEF IInv, BestApart, Better, Accepts
<1> QED BY <1>3, <1>5, <1>7 DEF ReaddApart

LEMMA ReaddApartHolds == Spec => [](IInv /\ ReaddApart)
<1>1. Init => IInv /\ ReaddApart
    BY InitInv DEF Init, ReaddApart
<1>2. ASSUME IInv, ReaddApart, [Next]_vars
      PROVE  ReaddApart'
    <2>1. CASE UNCHANGED vars
        BY <1>2, <2>1 DEF vars, callVars, ReaddApart
    <2>2. CASE MatchStep \/ UpdateBest
        BY <1>2, <2>2, ReaddNoMatch DEF MatchStep, UpdateBest, callVars, ReaddApart
    <2>3. CASE FinishAdd
        BY <2>3 DEF FinishAdd, ReaddApart
    <2>4. CASE ReAdd
        <3>1. PICK o \in Slots : BeginAdd(readd, o)
            BY <2>4 DEF ReAdd
        <3>2. /\ incoming' = o /\ readd' = readd /\ best' = best
              /\ report' = NoReport
              /\ orders'[o].side = readd.side /\ orders'[o].price = readd.price
            BY <1>2, <3>1 DEF BeginAdd, IInv, TypeOK
        <3> QED BY <1>2, <2>4, <3>2 DEF ReAdd, ReaddApart
    <2>5. ASSUME NEW id \in OrderIds, NEW q \in Quantities, ModifyUp(id, q)
          PROVE  ReaddApart'
        BY <1>2, <2>5, ModifyUpApart
    <2>6. CASE readd' = NoMessage
        BY <2>6 DEF ReaddApart
    <2> QED BY <1>2, <2>1, <2>2, <2>3, <2>4, <2>5, <2>6
            DEF Next, AddOrder, RejectAdd, CancelOrder, ModifyDown, Miss, Idle,
                BeginAdd, callVars
<1>3. IInv /\ ReaddApart /\ [Next]_vars => (IInv /\ ReaddApart)'
    BY <1>2, NextInv
<1> QED BY <1>1, <1>3, PTL DEF Spec

\* modify_order never trades, whatever the quantity it asks for.
THEOREM ModifyIsQuiet == Spec => ModifyNeverTrades
<1>1. ASSUME IInv, ReaddApart, [Next]_vars
      PROVE  [readd # NoMessage => UNCHANGED statVars]_vars
    <2> SUFFICES ASSUME readd # NoMessage, Next
                 PROVE  UNCHANGED statVars
        BY <1>1
    <2>1. ~ MatchStep /\ ~ UpdateBest
        BY <1>1, ReaddNoMatch
    <2> QED BY <2>1 DEF Next, AddOrder, RejectAdd, CancelOrder, ModifyDown,
                        ModifyUp, Miss, Idle, FinishAdd, ReAdd, BeginAdd
<1> QED BY <1>1, ReaddApartHolds, PTL DEF Spec, ModifyNeverTrades
============================================================================
