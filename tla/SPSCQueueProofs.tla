-------------------------- MODULE SPSCQueueProofs --------------------------
(***************************************************************************)
(* Theorems about SPSCQueue for every capacity and every set of items.     *)
(***************************************************************************)
EXTENDS SPSCQueue, TLAPS, SequenceTheorems

-----------------------------------------------------------------------------
(***************************************************************************)
(* Distances on the ring.                                                  *)
(***************************************************************************)
\* How many slots b is ahead of a.
Ahead(a, b) == IF b >= a THEN b - a ELSE b - a + Capacity

LEMMA SuccIs ==
    \A i \in Index : /\ Succ(i) \in Index
                     /\ Succ(i) = IF i = Capacity - 1 THEN 0 ELSE i + 1
BY QueueAssumption DEF Succ, Index

LEMMA AheadType ==
    /\ Capacity \in Nat /\ Capacity >= 2
    /\ \A a, b \in Index : Ahead(a, b) \in Nat /\ Ahead(a, b) < Capacity
    /\ \A a \in Index : Ahead(a, a) = 0
    /\ \A a, b, c \in Index : Ahead(a, b) = Ahead(a, c) => b = c
    /\ \A a, b \in Index : a # b => Ahead(b, a) = Capacity - Ahead(a, b)
BY QueueAssumption DEF Ahead, Index

LEMMA AheadZero == \A a, b \in Index : Ahead(a, b) = 0 <=> a = b
<1>1. \A a, b \in Index : Ahead(a, b) = 0 => Ahead(a, b) = Ahead(a, a)
    BY AheadType
<1> QED BY <1>1, AheadType

LEMMA AheadSucc ==
    \A a, b \in Index :
        Ahead(a, Succ(b)) = IF Ahead(a, b) = Capacity - 1 THEN 0
                            ELSE Ahead(a, b) + 1
BY SuccIs, QueueAssumption DEF Ahead, Index

LEMMA SuccAhead ==
    \A a, b \in Index :
        Ahead(Succ(a), b) = IF Ahead(a, b) = 0 THEN Capacity - 1
                            ELSE Ahead(a, b) - 1
BY SuccIs, QueueAssumption DEF Ahead, Index

LEMMA FullIs == \A a, b \in Index : Succ(b) = a <=> Ahead(a, b) = Capacity - 1
BY SuccIs, QueueAssumption DEF Ahead, Index

LEMMA StillLess == \A a, b, c, d \in Int : a - b < c /\ d >= b => a - d < c
OBVIOUS

LEMMA OneStepOn ==
    \A r, p, a, b, c \in Int :
        c >= 2 /\ (b = a - 1 \/ b = a + c - 1)
            => /\ r <= p + a - c + 1 => r <= p + 1 + b - c + 1
               /\ r <= p + a + 1 => r <= p + 1 + b + 1
OBVIOUS

LEMMA OneLess == \A a, b \in Int : b >= a => b - 1 >= a - 1
OBVIOUS

-----------------------------------------------------------------------------
(***************************************************************************)
(* The inductive invariant.  pushes and pops count the completed ones.     *)
(***************************************************************************)
pushes == Len(tail_) - 1
pops == Len(head_) - 1
TailIndex == Newest(tail_).index
HeadIndex == Newest(head_).index

\* The counters agree, and the ring holds at most Capacity - 1 items.
Counts ==
    /\ Len(sent) = pushes /\ Len(received) = pops
    /\ pops <= pushes /\ pushes <= pops + Capacity - 1
    /\ writes = IF pcP = "store" THEN pushes + 1 ELSE pushes
    /\ reads = IF pcC = "store" THEN pops + 1 ELSE pops
    /\ \A k \in 1 .. Len(head_) : head_[k].after = k - 1
    /\ \A k \in 1 .. Len(tail_) : tail_[k].after = k - 1

\* Every index that a thread can still load is as far from its own as the
\* stores since then: old values never look newer by a wrap.
Windows ==
    /\ \A k \in headSeen .. Len(head_) :
          /\ pushes - (k - 1) < Capacity
          /\ Ahead(head_[k].index, TailIndex) = pushes - (k - 1)
    /\ \A k \in tailSeen .. Len(tail_) :
          /\ k - 1 >= pops
          /\ Ahead(HeadIndex, tail_[k].index) = k - 1 - pops

\* A thread that is past its test found room, or an item.
Granted ==
    /\ pcP # "call" => /\ item \in Items
                       /\ pushes - (headSeen - 1) < Capacity - 1
    /\ pcP = "write" => pushes - readsKnown < Capacity - 1
    /\ pcC # "call" => tailSeen - 1 > pops
    /\ pcC = "read" => writesKnown > pops

\* Which accesses to a slot are the last ones.
Accesses ==
    \A s \in Index :
        /\ lastRead[s] = 0
           \/ lastRead[s] <= pushes + Ahead(TailIndex, s) - Capacity + 1
        /\ lastWrite[s] <= pops + Ahead(HeadIndex, s) + 1

\* The slots from the head to the tail hold what was pushed and not popped.
Holds ==
    /\ \A s \in Index :
          Ahead(HeadIndex, s) < pushes - pops =>
              storage_[s] = sent[pops + Ahead(HeadIndex, s) + 1]
    /\ pcP = "store" => storage_[TailIndex] = item
    /\ pcC = "store" => got = sent[pops + 1]
    /\ \A i \in 1 .. Len(received) : received[i] = sent[i]

IInv ==
    /\ TypeOK
    /\ Counts
    /\ Windows
    /\ Granted
    /\ Accesses
    /\ Holds

-----------------------------------------------------------------------------
(***************************************************************************)
(* The invariant is inductive: one lemma for each kind of step.            *)
(***************************************************************************)
LEMMA Derived ==
    ASSUME IInv
    PROVE  /\ Capacity \in Nat /\ Capacity >= 2
           /\ TailIndex \in Index /\ HeadIndex \in Index
           /\ pushes \in Nat /\ pops \in Nat
           /\ headSeen \in Nat /\ 1 <= headSeen /\ headSeen <= Len(head_)
           /\ tailSeen \in Nat /\ 1 <= tailSeen /\ tailSeen <= Len(tail_)
           /\ Len(head_) \in Nat /\ Len(tail_) \in Nat
           /\ \A k \in 1 .. Len(head_) : head_[k].index \in Index
           /\ \A k \in 1 .. Len(tail_) : tail_[k].index \in Index
           /\ Ahead(HeadIndex, TailIndex) = pushes - pops
<1>0. /\ head_ \in Seq(Store) /\ Len(head_) > 0 /\ headSeen \in 1 .. Len(head_)
      /\ tail_ \in Seq(Store) /\ Len(tail_) > 0 /\ tailSeen \in 1 .. Len(tail_)
    BY DEF IInv, TypeOK
<1>1. /\ Len(head_) \in Nat /\ Len(head_) \in 1 .. Len(head_)
      /\ Len(tail_) \in Nat /\ Len(tail_) \in 1 .. Len(tail_)
      /\ headSeen \in Nat /\ 1 <= headSeen /\ headSeen <= Len(head_)
      /\ tailSeen \in Nat /\ 1 <= tailSeen /\ tailSeen <= Len(tail_)
    BY <1>0
<1>2. /\ \A k \in 1 .. Len(head_) : head_[k] \in Store
      /\ \A k \in 1 .. Len(tail_) : tail_[k] \in Store
    BY <1>0
<1>3. /\ \A k \in 1 .. Len(head_) : head_[k].index \in Index
      /\ \A k \in 1 .. Len(tail_) : tail_[k].index \in Index
    BY <1>2 DEF Store
<1>5. /\ TailIndex \in Index /\ HeadIndex \in Index
      /\ pushes \in Nat /\ pops \in Nat
    BY <1>1, <1>3 DEF TailIndex, HeadIndex, Newest, pushes, pops
<1>4. Ahead(HeadIndex, TailIndex) = pushes - pops
    <2>1. Len(head_) \in headSeen .. Len(head_)
        BY <1>1
    <2>2. Ahead(head_[Len(head_)].index, TailIndex) = pushes - (Len(head_) - 1)
        BY <2>1 DEF IInv, Windows
    <2> QED BY <1>1, <2>2 DEF HeadIndex, Newest, pops
<1> QED BY <1>1, <1>3, <1>4, <1>5, AheadType

\* Steps of a thread that access no shared memory but load the other's atomic:
\* try_push up to its test, full(), and a store that becomes visible.
LEMMA ProducerLooks ==
    ASSUME IInv, UNCHANGED <<head_, tail_, slotVars, consumerVars, sent>>,
           headSeen' \in headSeen .. Len(head_), readsKnown' \in Nat,
           readsKnown' >= readsKnown,
           accepted' \in BOOLEAN, roomSeen' \in BOOLEAN,
           \/ UNCHANGED <<pcP, item>>
           \/ /\ pcP = "call" /\ pcP' = "write" /\ item' \in Items
              /\ pushes - (headSeen' - 1) < Capacity - 1
              /\ pushes - readsKnown' < Capacity - 1
    PROVE  IInv'
<1> USE Derived DEF slotVars, consumerVars
<1>1. /\ pushes' = pushes /\ pops' = pops
      /\ TailIndex' = TailIndex /\ HeadIndex' = HeadIndex
    BY DEF pushes, pops, TailIndex, HeadIndex, Newest
<1>2. TypeOK'
    <2>1. /\ TypeOK /\ item \in Items \cup {nullopt}
          /\ pcP \in {"call", "write", "store"}
        BY DEF IInv, TypeOK
    <2>2. item' \in Items \cup {nullopt} /\ pcP' \in {"call", "write", "store"}
        BY <2>1
    <2>3. headSeen' \in 1 .. Len(head_)
        OBVIOUS
    <2> QED BY <2>1, <2>2, <2>3 DEF TypeOK
<1>3. Counts'
    BY <1>1 DEF IInv, Counts
<1>4. Windows'
    BY <1>1, SMTT(30) DEF IInv, Windows
<1>5. Granted'
    <2>1. pushes - (headSeen' - 1) <= pushes - (headSeen - 1)
        BY SMTT(30)
    <2>2. readsKnown \in Nat /\ Capacity \in Nat
        BY DEF IInv, TypeOK
    <2>3. CASE UNCHANGED <<pcP, item>>
        <3>1. pushes - readsKnown < Capacity - 1
                => pushes - readsKnown' < Capacity - 1
            BY <2>2, SMTT(30)
        <3>2. pushes - (headSeen - 1) < Capacity - 1
                => pushes - (headSeen' - 1) < Capacity - 1
            BY <2>1, <2>2, SMTT(30)
        <3> QED BY <1>1, <2>3, <3>1, <3>2 DEF IInv, Granted
    <2>4. CASE /\ pcP = "call" /\ pcP' = "write" /\ item' \in Items
               /\ pushes - (headSeen' - 1) < Capacity - 1
               /\ pushes - readsKnown' < Capacity - 1
        BY <1>1, <2>4 DEF IInv, Granted
    <2> QED BY <2>3, <2>4
<1>6. Accesses'
    BY <1>1 DEF IInv, Accesses
<1>7. Holds'
    BY <1>1 DEF IInv, Holds
<1> QED BY <1>2, <1>3, <1>4, <1>5, <1>6, <1>7 DEF IInv

LEMMA ConsumerLooks ==
    ASSUME IInv, UNCHANGED <<head_, tail_, slotVars, producerVars, received, got>>,
           tailSeen' \in tailSeen .. Len(tail_), writesKnown' \in Nat,
           writesKnown' >= writesKnown,
           taken' \in Items \cup {nullopt}, itemSeen' \in BOOLEAN,
           \/ UNCHANGED pcC
           \/ /\ pcC = "call" /\ pcC' = "read"
              /\ tailSeen' - 1 > pops
              /\ writesKnown' > pops
    PROVE  IInv'
<1> USE Derived DEF slotVars, producerVars
<1>1. /\ pushes' = pushes /\ pops' = pops
      /\ TailIndex' = TailIndex /\ HeadIndex' = HeadIndex
    BY DEF pushes, pops, TailIndex, HeadIndex, Newest
<1>2. TypeOK'
    <2>1. TypeOK /\ pcC \in {"call", "read", "store"}
        BY DEF IInv, TypeOK
    <2>2. pcC' \in {"call", "read", "store"}
        BY <2>1
    <2>3. tailSeen' \in 1 .. Len(tail_)
        OBVIOUS
    <2> QED BY <2>1, <2>2, <2>3 DEF TypeOK
<1>3. Counts'
    BY <1>1 DEF IInv, Counts
<1>4. Windows'
    BY <1>1, SMTT(30) DEF IInv, Windows
<1>5. Granted'
    <2>1. tailSeen' - 1 >= tailSeen - 1
        OBVIOUS
    <2>2. writesKnown \in Nat
        BY DEF IInv, TypeOK
    <2> QED BY <1>1, <2>1, <2>2, SMTT(30) DEF IInv, Granted
<1>6. Accesses'
    BY <1>1 DEF IInv, Accesses
<1>7. Holds'
    BY <1>1 DEF IInv, Holds
<1> QED BY <1>2, <1>3, <1>4, <1>5, <1>6, <1>7 DEF IInv

\* The test of try_push, on whatever store it loads, finds the ring full
\* exactly when Capacity - 1 pushes are ahead of that store.
LEMMA LoadedHead ==
    ASSUME IInv, NEW k, LoadHead(k)
    PROVE  /\ headSeen' = k /\ headSeen' \in headSeen .. Len(head_)
           /\ readsKnown' \in Nat /\ readsKnown' >= readsKnown
           /\ readsKnown' >= k - 1
           /\ pushes - (k - 1) < Capacity
           /\ Succ(Newest(tail_).index) = head_[k].index
                <=> pushes - (k - 1) = Capacity - 1
<1> USE Derived
<1>0. readsKnown \in Nat
    BY DEF IInv, TypeOK
<1>1. k \in headSeen .. Len(head_) /\ k \in 1 .. Len(head_)
    BY DEF LoadHead
<1>2. head_[k].after = k - 1 /\ k - 1 \in Nat /\ readsKnown \in Nat
    BY <1>0, <1>1 DEF IInv, Counts
<1>3. /\ pushes - (k - 1) < Capacity
      /\ Ahead(head_[k].index, TailIndex) = pushes - (k - 1)
    BY <1>1 DEF IInv, Windows
<1>4. Succ(TailIndex) = head_[k].index <=> pushes - (k - 1) = Capacity - 1
    <2>1. head_[k].index \in Index
        BY <1>1
    <2>2. Succ(TailIndex) = head_[k].index
            <=> Ahead(head_[k].index, TailIndex) = Capacity - 1
        BY <2>1, FullIs
    <2> QED BY <1>3, <2>2
<1> QED BY <1>1, <1>2, <1>3, <1>4, SMTT(30) DEF LoadHead, TailIndex

LEMMA LoadedTail ==
    ASSUME IInv, NEW k, LoadTail(k)
    PROVE  /\ tailSeen' = k /\ tailSeen' \in tailSeen .. Len(tail_)
           /\ writesKnown' \in Nat /\ writesKnown' >= writesKnown
           /\ writesKnown' >= k - 1
           /\ k - 1 >= pops
           /\ Newest(head_).index = tail_[k].index <=> k - 1 = pops
<1> USE Derived
<1>0. writesKnown \in Nat
    BY DEF IInv, TypeOK
<1>1. k \in tailSeen .. Len(tail_) /\ k \in 1 .. Len(tail_)
    BY DEF LoadTail
<1>2. tail_[k].after = k - 1 /\ k - 1 \in Nat /\ writesKnown \in Nat
    BY <1>0, <1>1 DEF IInv, Counts
<1>3. /\ k - 1 >= pops
      /\ Ahead(HeadIndex, tail_[k].index) = k - 1 - pops
    BY <1>1 DEF IInv, Windows
<1>4. HeadIndex = tail_[k].index <=> k - 1 = pops
    <2>1. tail_[k].index \in Index /\ HeadIndex \in Index
        BY <1>1
    <2>2. Ahead(HeadIndex, tail_[k].index) = 0 <=> HeadIndex = tail_[k].index
        BY <2>1, AheadZero
    <2> QED BY <1>2, <1>3, <2>2
<1> QED BY <1>1, <1>2, <1>3, <1>4, SMTT(30) DEF LoadTail, HeadIndex

\* try_push writes the slot at the tail, which is free.
LEMMA PushWriteStep == ASSUME IInv, PushWrite PROVE IInv'
<1> USE Derived DEF consumerVars
<1>1. /\ pushes' = pushes /\ pops' = pops
      /\ TailIndex' = TailIndex /\ HeadIndex' = HeadIndex
      /\ head_' = head_ /\ tail_' = tail_
      /\ storage_' = [storage_ EXCEPT ![TailIndex] = item]
      /\ lastWrite' = [lastWrite EXCEPT ![TailIndex] = writes + 1]
    BY DEF PushWrite, pushes, pops, TailIndex, HeadIndex, Newest
<1>2. item \in Items /\ pcP = "write" /\ pcP' = "store"
    BY DEF PushWrite, IInv, Granted
<1>3. writes = pushes /\ writes' = pushes + 1
    BY <1>2 DEF PushWrite, IInv, Counts
<1>4. TypeOK'
    <2>1. TypeOK
        BY DEF IInv
    <2>2. /\ storage_' \in [Index -> Items \cup {nullopt}]
          /\ lastWrite' \in [Index -> Nat]
        <3>1. /\ storage_ \in [Index -> Items \cup {nullopt}]
              /\ lastWrite \in [Index -> Nat]
            BY <2>1 DEF TypeOK
        <3> QED BY <1>1, <1>2, <1>3, <3>1
    <2>3. writes' \in Nat
        BY <1>3
    <2>4. UNCHANGED <<head_, tail_, lastRead, reads, consumerVars, item, headSeen,
                      readsKnown, accepted, roomSeen, sent>>
        BY DEF PushWrite
    <2> QED BY <1>2, <2>1, <2>2, <2>3, <2>4 DEF TypeOK
<1>5. Counts'
    BY <1>1, <1>2, <1>3 DEF IInv, Counts, PushWrite
<1>6. Windows'
    BY <1>1 DEF IInv, Windows, PushWrite
<1>7. Granted'
    BY <1>1, <1>2 DEF IInv, Granted, PushWrite
<1>8. Accesses'
    <2>1. lastWrite \in [Index -> Nat] /\ lastRead' = lastRead
        BY DEF IInv, TypeOK, PushWrite
    <2> SUFFICES ASSUME NEW s \in Index
                 PROVE  lastWrite'[s] <= pops + Ahead(HeadIndex, s) + 1
        BY <1>1, <2>1 DEF IInv, Accesses
    <2>2. CASE s = TailIndex
        BY <1>1, <1>3, <2>1, <2>2
    <2>3. CASE s # TailIndex
        BY <1>1, <2>1, <2>3 DEF IInv, Accesses
    <2> QED BY <2>2, <2>3
<1>9. Holds'
    <2>1. storage_ \in [Index -> Items \cup {nullopt}] /\ sent' = sent
        BY DEF IInv, TypeOK, PushWrite
    <2>2. \A s \in Index :
              Ahead(HeadIndex, s) < pushes - pops => storage_'[s] = storage_[s]
        BY <1>1, <2>1, AheadType
    <2>3. storage_'[TailIndex] = item
        BY <1>1, <2>1
    <2> QED BY <1>1, <1>2, <2>1, <2>2, <2>3 DEF IInv, Holds, PushWrite
<1> QED BY <1>4, <1>5, <1>6, <1>7, <1>8, <1>9 DEF IInv

\* try_pop reads the slot at the head, which holds the oldest item.
LEMMA PopReadStep == ASSUME IInv, PopRead PROVE IInv'
<1> USE Derived DEF producerVars
<1>1. /\ pushes' = pushes /\ pops' = pops
      /\ TailIndex' = TailIndex /\ HeadIndex' = HeadIndex
      /\ head_' = head_ /\ tail_' = tail_
      /\ got' = storage_[HeadIndex]
      /\ lastRead' = [lastRead EXCEPT ![HeadIndex] = reads + 1]
    BY DEF PopRead, pushes, pops, TailIndex, HeadIndex, Newest
<1>2. /\ pcC = "read" /\ pcC' = "store"
      /\ tailSeen - 1 > pops /\ pops < pushes
    BY DEF PopRead, IInv, Granted, pushes
<1>3. reads = pops /\ reads' = pops + 1
    BY <1>2 DEF PopRead, IInv, Counts
<1>4. TypeOK'
    <2>1. TypeOK
        BY DEF IInv
    <2>2. /\ got' \in Items \cup {nullopt}
          /\ lastRead' \in [Index -> Nat]
        <3>1. /\ storage_ \in [Index -> Items \cup {nullopt}]
              /\ lastRead \in [Index -> Nat]
            BY <2>1 DEF TypeOK
        <3> QED BY <1>1, <1>3, <3>1
    <2>3. reads' \in Nat
        BY <1>3
    <2>4. UNCHANGED <<head_, tail_, storage_, lastWrite, writes, producerVars,
                      tailSeen, writesKnown, taken, itemSeen, received>>
        BY DEF PopRead
    <2> QED BY <1>2, <2>1, <2>2, <2>3, <2>4 DEF TypeOK
<1>5. Counts'
    BY <1>1, <1>2, <1>3 DEF IInv, Counts, PopRead
<1>6. Windows'
    BY <1>1 DEF IInv, Windows, PopRead
<1>7. Granted'
    BY <1>1, <1>2 DEF IInv, Granted, PopRead
<1>8. Accesses'
    <2>1. lastRead \in [Index -> Nat] /\ lastWrite' = lastWrite
        BY DEF IInv, TypeOK, PopRead
    <2>2. Ahead(TailIndex, HeadIndex) = Capacity - (pushes - pops)
        <3>1. TailIndex # HeadIndex
            BY <1>2, AheadType
        <3> QED BY <3>1, AheadType
    <2> SUFFICES ASSUME NEW s \in Index
                 PROVE  \/ lastRead'[s] = 0
                        \/ lastRead'[s] <= pushes + Ahead(TailIndex, s) - Capacity + 1
        BY <1>1, <2>1 DEF IInv, Accesses
    <2>3. CASE s = HeadIndex
        BY <1>1, <1>3, <2>1, <2>2, <2>3
    <2>4. CASE s # HeadIndex
        BY <1>1, <2>1, <2>4 DEF IInv, Accesses
    <2> QED BY <2>3, <2>4
<1>9. Holds'
    <2>1. storage_[HeadIndex] = sent[pops + 1]
        BY <1>2, AheadType DEF IInv, Holds
    <2> QED BY <1>1, <1>2, <2>1 DEF IInv, Holds, PopRead
<1> QED BY <1>4, <1>5, <1>6, <1>7, <1>8, <1>9 DEF IInv

\* try_push stores the new tail: one more item, which the consumer may load.
LEMMA PushStoreStep == ASSUME IInv, PushStore PROVE IInv'
<1> USE Derived DEF consumerVars, slotVars
<1>1. /\ pcP = "store" /\ pcP' = "call" /\ item \in Items
      /\ head_' = head_ /\ headSeen' = headSeen
      /\ tailSeen' = tailSeen
      /\ sent' = Append(sent, item)
      /\ writes = pushes + 1 /\ Len(sent) = pushes
      /\ sent \in Seq(Items) /\ tail_ \in Seq(Store)
    BY DEF PushStore, IInv, TypeOK, Granted, Counts
<1>2. /\ Succ(TailIndex) \in Index
      /\ [index |-> Succ(TailIndex), after |-> writes] \in Store
    BY <1>1, SuccIs DEF Store
<1>3. /\ tail_' \in Seq(Store) /\ Len(tail_') = Len(tail_) + 1
      /\ \A k \in 1 .. Len(tail_) : tail_'[k] = tail_[k]
      /\ tail_'[Len(tail_) + 1] = [index |-> Succ(TailIndex), after |-> writes]
    <2>1. tail_' = Append(tail_, [index |-> Succ(TailIndex), after |-> writes])
        BY DEF PushStore, StoreTail, TailIndex
    <2> QED BY <1>1, <1>2, <2>1, AppendProperties
<1>4. /\ sent' \in Seq(Items) /\ Len(sent') = pushes + 1
      /\ \A i \in 1 .. pushes : sent'[i] = sent[i]
      /\ sent'[pushes + 1] = item
    BY <1>1, AppendProperties
<1>5. /\ pushes' = pushes + 1 /\ pops' = pops
      /\ TailIndex' = Succ(TailIndex) /\ HeadIndex' = HeadIndex
    BY <1>1, <1>3 DEF pushes, pops, TailIndex, HeadIndex, Newest
<1>6. \A k \in headSeen .. Len(head_) : pushes - (k - 1) < Capacity - 1
    BY <1>1, SMTT(30) DEF IInv, Granted
<1>7. pushes - pops < Capacity - 1 /\ pops <= pushes
    <2>1. Len(head_) \in headSeen .. Len(head_)
        OBVIOUS
    <2>2. pushes - (Len(head_) - 1) < Capacity - 1
        BY <1>6, <2>1
    <2> QED BY <2>2 DEF IInv, Counts, pops
<1>8. TypeOK'
    <2>1. TypeOK
        BY DEF IInv
    <2>2. UNCHANGED <<head_, slotVars, consumerVars, headSeen, readsKnown, roomSeen>>
          /\ accepted' = TRUE /\ item' = nullopt
        BY DEF PushStore
    <2>3. Len(tail_') > 0 /\ tailSeen' \in 1 .. Len(tail_')
        BY <1>1, <1>3
    <2> QED BY <1>1, <1>3, <1>4, <2>1, <2>2, <2>3 DEF TypeOK
<1>9. Counts'
    <2>1. \A k \in 1 .. Len(tail_') : tail_'[k].after = k - 1
        <3> SUFFICES ASSUME NEW k \in 1 .. Len(tail_) + 1
                     PROVE  tail_'[k].after = k - 1
            BY <1>3
        <3>1. CASE k \in 1 .. Len(tail_)
            BY <1>3, <3>1 DEF IInv, Counts
        <3>2. CASE k = Len(tail_) + 1
            BY <1>1, <1>3, <3>2 DEF pushes
        <3> QED BY <3>1, <3>2
    <2> QED BY <1>1, <1>4, <1>5, <1>7, <2>1, SMTT(30) DEF IInv, Counts, PushStore
<1>10. Windows'
    <2>1. ASSUME NEW k \in headSeen .. Len(head_)
          PROVE  /\ pushes + 1 - (k - 1) < Capacity
                 /\ Ahead(head_[k].index, Succ(TailIndex)) = pushes + 1 - (k - 1)
        <3>1. Ahead(head_[k].index, TailIndex) = pushes - (k - 1)
            BY DEF IInv, Windows
        <3>2. head_[k].index \in Index /\ k \in Int
            OBVIOUS
        <3>3. pushes - (k - 1) < Capacity - 1
            BY <1>6
        <3>4. Ahead(head_[k].index, Succ(TailIndex))
                = IF Ahead(head_[k].index, TailIndex) = Capacity - 1 THEN 0
                  ELSE Ahead(head_[k].index, TailIndex) + 1
            BY <3>2, AheadSucc
        <3> QED BY <3>1, <3>2, <3>3, <3>4, SMTT(30)
    <2>2. ASSUME NEW k \in tailSeen .. Len(tail_) + 1
          PROVE  /\ k - 1 >= pops
                 /\ Ahead(HeadIndex, tail_'[k].index) = k - 1 - pops
        <3>1. CASE k \in 1 .. Len(tail_)
            BY <1>3, <3>1, SMTT(30) DEF IInv, Windows
        <3>2. CASE k = Len(tail_) + 1
            <4>1. Ahead(HeadIndex, Succ(TailIndex)) = pushes - pops + 1
                BY <1>7, AheadSucc
            <4>2. k - 1 = pushes + 1
                BY <3>2 DEF pushes
            <4>3. tail_'[k].index = Succ(TailIndex)
                BY <1>3, <3>2
            <4> QED BY <1>7, <4>1, <4>2, <4>3
        <3> QED BY <3>1, <3>2
    <2> QED BY <1>1, <1>3, <1>5, <2>1, <2>2 DEF Windows
<1>11. Granted'
    BY <1>1, <1>5 DEF IInv, Granted, PushStore
<1>12. Accesses'
    <2>1. lastRead' = lastRead /\ lastWrite' = lastWrite
          /\ lastRead \in [Index -> Nat]
        BY DEF PushStore, IInv, TypeOK
    <2> SUFFICES ASSUME NEW s \in Index
                 PROVE  \/ lastRead[s] = 0
                        \/ lastRead[s] <=
                             pushes + 1 + Ahead(Succ(TailIndex), s) - Capacity + 1
        BY <1>5, <2>1 DEF IInv, Accesses
    <2>2. \/ lastRead[s] = 0
          \/ lastRead[s] <= pushes + Ahead(TailIndex, s) - Capacity + 1
        BY DEF IInv, Accesses
    <2>3. Ahead(TailIndex, s) \in Nat
          /\ \/ Ahead(Succ(TailIndex), s) = Ahead(TailIndex, s) - 1
             \/ Ahead(Succ(TailIndex), s) = Ahead(TailIndex, s) + Capacity - 1
        <3>1. Ahead(Succ(TailIndex), s) = IF Ahead(TailIndex, s) = 0
                                          THEN Capacity - 1
                                          ELSE Ahead(TailIndex, s) - 1
            BY SuccAhead
        <3>2. Ahead(TailIndex, s) \in Nat
            BY AheadType
        <3> QED BY <3>1, <3>2
    <2>4. lastRead[s] \in Nat
        BY <2>1
    <2>5. /\ lastRead[s] \in Int /\ pushes \in Int /\ Capacity \in Int /\ Capacity >= 2
          /\ Ahead(TailIndex, s) \in Int /\ Ahead(Succ(TailIndex), s) \in Int
        BY <2>3, <2>4
    <2> QED BY <2>2, <2>3, <2>5, OneStepOn
<1>13. Holds'
    <2>1. storage_' = storage_ /\ received' = received /\ got' = got /\ pcC' = pcC
        BY DEF PushStore
    <2>2. ASSUME NEW s \in Index, Ahead(HeadIndex, s) < pushes + 1 - pops
          PROVE  storage_[s] = sent'[pops + Ahead(HeadIndex, s) + 1]
        <3>0. Ahead(HeadIndex, s) \in Nat
            BY AheadType
        <3>1. CASE Ahead(HeadIndex, s) < pushes - pops
            <4>1. storage_[s] = sent[pops + Ahead(HeadIndex, s) + 1]
                BY <3>1 DEF IInv, Holds
            <4>2. pops + Ahead(HeadIndex, s) + 1 \in 1 .. pushes
                BY <3>0, <3>1
            <4> QED BY <1>4, <4>1, <4>2
        <3>2. CASE Ahead(HeadIndex, s) = pushes - pops
            <4>1. s = TailIndex
                BY <3>2, AheadType
            <4> QED BY <1>1, <1>4, <3>2, <4>1 DEF IInv, Holds
        <3> QED BY <2>2, <3>0, <3>1, <3>2
    <2>3. pcC = "store" => got = sent'[pops + 1]
        <3>1. pcC = "store" => pops + 1 \in 1 .. pushes
            BY DEF IInv, Granted, pushes
        <3> QED BY <1>4, <3>1 DEF IInv, Holds
    <2>4. \A i \in 1 .. Len(received) : received[i] = sent'[i]
        BY <1>4, <1>7 DEF IInv, Holds, Counts
    <2>5. pcP' # "store" /\ pops' = pops /\ HeadIndex' = HeadIndex
          /\ pushes' = pushes + 1
        BY <1>1, <1>5
    <2> QED BY <2>1, <2>2, <2>3, <2>4, <2>5 DEF Holds
<1> QED BY <1>8, <1>9, <1>10, <1>11, <1>12, <1>13 DEF IInv

\* try_pop stores the new head: one slot more, which the producer may load.
LEMMA PopStoreStep == ASSUME IInv, PopStore PROVE IInv'
<1> USE Derived DEF producerVars, slotVars
<1>1. /\ pcC = "store" /\ pcC' = "call"
      /\ tail_' = tail_ /\ tailSeen' = tailSeen
      /\ headSeen' = headSeen
      /\ received' = Append(received, got)
      /\ reads = pops + 1 /\ Len(received) = pops /\ Len(sent) = pushes
      /\ received \in Seq(Items) /\ sent \in Seq(Items)
      /\ head_ \in Seq(Store)
    <2>1. pcC = "store" /\ pcC' = "call"
        BY DEF PopStore
    <2>2. /\ reads = pops + 1 /\ Len(received) = pops /\ Len(sent) = pushes
        BY <2>1 DEF IInv, Counts
    <2>3. /\ received \in Seq(Items) /\ sent \in Seq(Items)
          /\ head_ \in Seq(Store)
        BY DEF IInv, TypeOK
    <2> QED BY <2>1, <2>2, <2>3 DEF PopStore
<1>2. /\ tailSeen - 1 >= pops + 1 /\ pops + 1 <= pushes
      /\ pushes <= pops + Capacity - 1
    BY <1>1, SMTT(30) DEF IInv, Granted, Counts, pushes
<1>3. got = sent[pops + 1] /\ got \in Items
    BY <1>1, <1>2, SMTT(30) DEF IInv, Holds
<1>4. /\ Succ(HeadIndex) \in Index
      /\ [index |-> Succ(HeadIndex), after |-> reads] \in Store
    BY <1>1, SuccIs DEF Store
<1>5. /\ head_' \in Seq(Store) /\ Len(head_') = Len(head_) + 1
      /\ \A k \in 1 .. Len(head_) : head_'[k] = head_[k]
      /\ head_'[Len(head_) + 1] = [index |-> Succ(HeadIndex), after |-> reads]
    <2>1. head_' = Append(head_, [index |-> Succ(HeadIndex), after |-> reads])
        BY DEF PopStore, StoreHead, HeadIndex
    <2> QED BY <1>1, <1>4, <2>1, AppendProperties
<1>6. /\ received' \in Seq(Items) /\ Len(received') = pops + 1
      /\ \A i \in 1 .. pops : received'[i] = received[i]
      /\ received'[pops + 1] = got
    BY <1>1, <1>3, AppendProperties
<1>7. /\ pushes' = pushes /\ pops' = pops + 1
      /\ TailIndex' = TailIndex /\ HeadIndex' = Succ(HeadIndex)
    BY <1>1, <1>5 DEF pushes, pops, TailIndex, HeadIndex, Newest
<1>8. TypeOK'
    <2>1. TypeOK
        BY DEF IInv
    <2>2. UNCHANGED <<tail_, slotVars, producerVars, tailSeen, writesKnown, itemSeen>>
          /\ taken' = got /\ got' = nullopt
        BY DEF PopStore
    <2>3. Len(head_') > 0 /\ headSeen' \in 1 .. Len(head_')
        BY <1>1, <1>5
    <2> QED BY <1>1, <1>3, <1>5, <1>6, <2>1, <2>2, <2>3 DEF TypeOK
<1>9. Counts'
    <2>1. \A k \in 1 .. Len(head_') : head_'[k].after = k - 1
        <3> SUFFICES ASSUME NEW k \in 1 .. Len(head_) + 1
                     PROVE  head_'[k].after = k - 1
            BY <1>5
        <3>1. CASE k \in 1 .. Len(head_)
            BY <1>5, <3>1 DEF IInv, Counts
        <3>2. CASE k = Len(head_) + 1
            BY <1>1, <1>5, <3>2 DEF pops
        <3> QED BY <3>1, <3>2
    <2> QED BY <1>1, <1>2, <1>6, <1>7, <2>1, SMTT(30) DEF IInv, Counts, PopStore
<1>10. Windows'
    <2>1. ASSUME NEW k \in headSeen .. Len(head_) + 1
          PROVE  /\ pushes - (k - 1) < Capacity
                 /\ Ahead(head_'[k].index, TailIndex) = pushes - (k - 1)
        <3>1. CASE k \in 1 .. Len(head_)
            <4>1. k \in headSeen .. Len(head_) /\ head_'[k] = head_[k]
                BY <1>5, <3>1
            <4> QED BY <4>1 DEF IInv, Windows
        <3>2. CASE k = Len(head_) + 1
            <4>1. Ahead(Succ(HeadIndex), TailIndex) = pushes - pops - 1
                BY <1>2, SuccAhead
            <4>2. k - 1 = pops + 1
                BY <3>2 DEF pops
            <4>3. head_'[k].index = Succ(HeadIndex)
                BY <1>5, <3>2
            <4> QED BY <1>2, <4>1, <4>2, <4>3, SMTT(30)
        <3> QED BY <3>1, <3>2
    <2>2. ASSUME NEW k \in tailSeen .. Len(tail_)
          PROVE  /\ k - 1 >= pops + 1
                 /\ Ahead(Succ(HeadIndex), tail_[k].index) = k - 1 - (pops + 1)
        <3>1. Ahead(HeadIndex, tail_[k].index) = k - 1 - pops
            BY DEF IInv, Windows
        <3>2. tail_[k].index \in Index /\ k \in Int
            OBVIOUS
        <3>3. k - 1 >= pops + 1
            BY <1>2
        <3>4. Ahead(Succ(HeadIndex), tail_[k].index)
                = IF Ahead(HeadIndex, tail_[k].index) = 0 THEN Capacity - 1
                  ELSE Ahead(HeadIndex, tail_[k].index) - 1
            BY <3>2, SuccAhead
        <3> QED BY <3>1, <3>2, <3>3, <3>4, SMTT(30)
    <2> QED BY <1>1, <1>5, <1>7, <2>1, <2>2 DEF Windows
<1>11. Granted'
    BY <1>1, <1>7 DEF IInv, Granted, PopStore
<1>12. Accesses'
    <2>1. lastRead' = lastRead /\ lastWrite' = lastWrite
          /\ lastWrite \in [Index -> Nat]
        BY DEF PopStore, IInv, TypeOK
    <2> SUFFICES ASSUME NEW s \in Index
                 PROVE  lastWrite[s] <= pops + 1 + Ahead(Succ(HeadIndex), s) + 1
        BY <1>7, <2>1 DEF IInv, Accesses
    <2>2. lastWrite[s] <= pops + Ahead(HeadIndex, s) + 1
        BY DEF IInv, Accesses
    <2>3. Ahead(HeadIndex, s) \in Nat
          /\ \/ Ahead(Succ(HeadIndex), s) = Ahead(HeadIndex, s) - 1
             \/ Ahead(Succ(HeadIndex), s) = Ahead(HeadIndex, s) + Capacity - 1
        <3>1. Ahead(Succ(HeadIndex), s) = IF Ahead(HeadIndex, s) = 0
                                          THEN Capacity - 1
                                          ELSE Ahead(HeadIndex, s) - 1
            BY SuccAhead
        <3>2. Ahead(HeadIndex, s) \in Nat
            BY AheadType
        <3> QED BY <3>1, <3>2
    <2>4. lastWrite[s] \in Nat
        BY <2>1
    <2>5. /\ lastWrite[s] \in Int /\ pops \in Int /\ Capacity \in Int /\ Capacity >= 2
          /\ Ahead(HeadIndex, s) \in Int /\ Ahead(Succ(HeadIndex), s) \in Int
        BY <2>3, <2>4
    <2> QED BY <2>2, <2>3, <2>5, OneStepOn
<1>13. Holds'
    <2>1. storage_' = storage_ /\ sent' = sent /\ item' = item /\ pcP' = pcP
        BY DEF PopStore
    <2>2. ASSUME NEW s \in Index,
                 Ahead(Succ(HeadIndex), s) < pushes - (pops + 1)
          PROVE  storage_[s] = sent[pops + 1 + Ahead(Succ(HeadIndex), s) + 1]
        <3>1. Ahead(Succ(HeadIndex), s) = IF Ahead(HeadIndex, s) = 0
                                          THEN Capacity - 1
                                          ELSE Ahead(HeadIndex, s) - 1
            BY SuccAhead
        <3>2. Ahead(HeadIndex, s) \in Nat
            BY AheadType
        <3>3. Ahead(Succ(HeadIndex), s) = Ahead(HeadIndex, s) - 1
              /\ Ahead(HeadIndex, s) < pushes - pops
            BY <1>2, <2>2, <3>1, <3>2, SMTT(30)
        <3>4. storage_[s] = sent[pops + Ahead(HeadIndex, s) + 1]
            BY <3>3 DEF IInv, Holds
        <3>5. pops + 1 + Ahead(Succ(HeadIndex), s) + 1
                = pops + Ahead(HeadIndex, s) + 1
            BY <3>2, <3>3
        <3> QED BY <3>4, <3>5
    <2>3. \A i \in 1 .. pops + 1 : received'[i] = sent[i]
        BY <1>1, <1>3, <1>6 DEF IInv, Holds
    <2> QED BY <1>1, <1>6, <1>7, <2>1, <2>2, <2>3 DEF IInv, Holds
<1> QED BY <1>8, <1>9, <1>10, <1>11, <1>12, <1>13 DEF IInv

-----------------------------------------------------------------------------
LEMMA InitInv == Init => IInv
<1> SUFFICES ASSUME Init PROVE IInv
    OBVIOUS
<1>1. /\ head_ = <<[index |-> 0, after |-> 0]>> /\ Len(head_) = 1
      /\ tail_ = <<[index |-> 0, after |-> 0]>> /\ Len(tail_) = 1
      /\ headSeen = 1 /\ tailSeen = 1 /\ 0 \in Index
    BY QueueAssumption DEF Init, Index
<1>2. pushes = 0 /\ pops = 0 /\ TailIndex = 0 /\ HeadIndex = 0
    BY <1>1 DEF pushes, pops, TailIndex, HeadIndex, Newest
<1>3. Len(sent) = 0 /\ Len(received) = 0 /\ pcP = "call" /\ pcC = "call"
    BY DEF Init
<1>4. TypeOK
    <2>1. head_ \in Seq(Store) /\ tail_ \in Seq(Store)
        BY <1>1 DEF Store
    <2>2. sent \in Seq(Items) /\ received \in Seq(Items)
        BY DEF Init
    <2>3. /\ headSeen \in 1 .. Len(head_) /\ tailSeen \in 1 .. Len(tail_)
          /\ Len(head_) > 0 /\ Len(tail_) > 0
        BY <1>1
    <2> QED BY <2>1, <2>2, <2>3 DEF Init, TypeOK
<1>5. Counts
    BY <1>1, <1>2, <1>3, QueueAssumption DEF Init, Counts
<1>6. Windows
    BY <1>1, <1>2, QueueAssumption, AheadType DEF Windows
<1>7. Granted
    BY <1>3 DEF Granted
<1>8. Accesses
    BY <1>1, <1>2, AheadType DEF Accesses, Init
<1>9. Holds
    BY <1>1, <1>2, <1>3, AheadType DEF Holds
<1> QED BY <1>4, <1>5, <1>6, <1>7, <1>8, <1>9 DEF IInv

LEMMA NextInv == IInv /\ [Next]_vars => IInv'
<1> SUFFICES ASSUME IInv, [Next]_vars PROVE IInv'
    OBVIOUS
<1>0. /\ accepted \in BOOLEAN /\ roomSeen \in BOOLEAN /\ itemSeen \in BOOLEAN
      /\ taken \in Items \cup {nullopt}
      /\ readsKnown \in Nat /\ writesKnown \in Nat
    BY DEF IInv, TypeOK
<1>1. ASSUME NEW x \in Items, NEW k \in 1 .. Len(head_), PushLoad(x, k)
      PROVE  IInv'
    <2>1. LoadHead(k)
        BY <1>1 DEF PushLoad
    <2>2. CASE IsFull(Newest(tail_).index, head_[k].index)
        BY <1>0, <1>1, <2>1, <2>2, LoadedHead, ProducerLooks DEF PushLoad
    <2>3. CASE ~ IsFull(Newest(tail_).index, head_[k].index)
        <3>1. pcP = "call" /\ pcP' = "write" /\ item' = x
              /\ accepted' = accepted /\ roomSeen' = FALSE
              /\ UNCHANGED <<head_, tail_, slotVars, consumerVars, sent>>
            BY <1>1, <2>3 DEF PushLoad
        <3>2. pushes - (k - 1) < Capacity - 1 /\ pushes - readsKnown' < Capacity - 1
            <4>1. pushes - (k - 1) # Capacity - 1 /\ pushes - (k - 1) < Capacity
                BY <2>1, <2>3, LoadedHead DEF IsFull
            <4>2. readsKnown' >= k - 1 /\ readsKnown' \in Nat
                BY <2>1, LoadedHead
            <4>3. pushes \in Nat /\ Capacity \in Nat /\ k \in Nat
                BY Derived
            <4>4. pushes - (k - 1) < Capacity - 1
                BY <4>1, <4>3
            <4>5. /\ pushes \in Int /\ Capacity - 1 \in Int /\ k - 1 \in Int
                  /\ readsKnown' \in Int
                BY <4>2, <4>3
            <4> QED BY <4>2, <4>4, <4>5, StillLess
        <3> QED BY <1>0, <2>1, <3>1, <3>2, LoadedHead, ProducerLooks
    <2> QED BY <2>2, <2>3
<1>2. ASSUME NEW k \in 1 .. Len(head_), Full(k)
      PROVE  IInv'
    <2>1. LoadHead(k) /\ roomSeen' \in BOOLEAN
        BY <1>2 DEF Full
    <2> QED BY <1>0, <1>2, <2>1, LoadedHead, ProducerLooks DEF Full
<1>3. ASSUME NEW k \in 1 .. Len(tail_), PopLoad(k)
      PROVE  IInv'
    <2>1. LoadTail(k)
        BY <1>3 DEF PopLoad
    <2>2. CASE IsEmpty(Newest(head_).index, tail_[k].index)
        BY <1>0, <1>3, <2>1, <2>2, LoadedTail, ConsumerLooks DEF PopLoad
    <2>3. CASE ~ IsEmpty(Newest(head_).index, tail_[k].index)
        <3>1. pcC = "call" /\ pcC' = "read"
              /\ taken' = taken /\ itemSeen' = FALSE
              /\ UNCHANGED <<head_, tail_, slotVars, producerVars, received, got>>
            BY <1>3, <2>3 DEF PopLoad
        <3>2. k - 1 > pops /\ writesKnown' > pops
            <4>1. k - 1 # pops /\ k - 1 >= pops
                BY <2>1, <2>3, LoadedTail DEF IsEmpty
            <4>2. writesKnown' >= k - 1 /\ writesKnown' \in Nat
                BY <2>1, LoadedTail
            <4> QED BY <4>1, <4>2, Derived
        <3> QED BY <1>0, <2>1, <3>1, <3>2, LoadedTail, ConsumerLooks
    <2> QED BY <2>2, <2>3
<1>4. ASSUME NEW k \in 1 .. Len(tail_), Empty(k)
      PROVE  IInv'
    <2>1. LoadTail(k) /\ itemSeen' \in BOOLEAN
        BY <1>4 DEF Empty
    <2> QED BY <1>0, <1>4, <2>1, LoadedTail, ConsumerLooks DEF Empty
<1>5. CASE ShowHead
    <2>1. headSeen' \in headSeen .. Len(head_)
        BY <1>5, Derived DEF ShowHead
    <2> QED BY <1>0, <1>5, <2>1, ProducerLooks DEF ShowHead
<1>6. CASE ShowTail
    <2>1. tailSeen' \in tailSeen .. Len(tail_)
        BY <1>6, Derived DEF ShowTail
    <2> QED BY <1>0, <1>6, <2>1, ConsumerLooks DEF ShowTail
<1>7. CASE UNCHANGED vars
    <2>1. headSeen' \in headSeen .. Len(head_)
        BY <1>7, Derived DEF vars, producerVars
    <2> QED BY <1>0, <1>7, <2>1, ProducerLooks DEF vars, producerVars, consumerVars
<1> QED BY <1>1, <1>2, <1>3, <1>4, <1>5, <1>6, <1>7, PushWriteStep, PushStoreStep,
           PopReadStep, PopStoreStep DEF Next, Push, Pop

THEOREM Inductive == Spec => []IInv
BY InitInv, NextInv, PTL DEF Spec

-----------------------------------------------------------------------------
\* TypeOK holds in every reachable state: indices stay in the ring, and only
\* items come out of it.
THEOREM TypeCorrect == Spec => []TypeOK
<1>1. IInv => TypeOK
    BY DEF IInv
<1> QED BY <1>1, Inductive, PTL

\* No access of either thread to a slot races with one of the other, for
\* every capacity and however stale the indices they load.
THEOREM RaceFree == Spec => []NoDataRace
<1>1. IInv => NoDataRace
    <2> SUFFICES ASSUME IInv PROVE NoDataRace
        OBVIOUS
    <2>1. ASSUME pcP = "write" PROVE lastRead[TailIndex] <= readsKnown
        <3>1. pushes - readsKnown < Capacity - 1 /\ readsKnown \in Nat
              /\ lastRead \in [Index -> Nat]
            BY <2>1 DEF IInv, Granted, TypeOK
        <3>2. \/ lastRead[TailIndex] = 0
              \/ lastRead[TailIndex] <= pushes + 0 - Capacity + 1
            BY Derived, AheadType DEF IInv, Accesses
        <3>3. lastRead[TailIndex] \in Nat /\ pushes \in Nat /\ Capacity \in Nat
            BY <3>1, Derived
        <3> QED BY <3>1, <3>2, <3>3
    <2>2. ASSUME pcC = "read" PROVE lastWrite[HeadIndex] <= writesKnown
        <3>1. writesKnown > pops /\ writesKnown \in Nat
              /\ lastWrite \in [Index -> Nat]
            BY <2>2 DEF IInv, Granted, TypeOK
        <3>2. lastWrite[HeadIndex] <= pops + 0 + 1
            BY Derived, AheadType DEF IInv, Accesses
        <3>3. lastWrite[HeadIndex] \in Nat
            BY <3>1, Derived
        <3> QED BY <3>1, <3>2, <3>3, Derived
    <2> QED BY <2>1, <2>2 DEF NoDataRace, TailIndex, HeadIndex
<1> QED BY <1>1, Inductive, PTL

\* What is popped is what was pushed, in order, and the ring holds at most
\* Capacity - 1 items.
THEOREM FirstInFirstOut == Spec => []InOrder
<1>1. IInv => InOrder
    BY Derived DEF IInv, InOrder, Counts, Holds
<1> QED BY <1>1, Inductive, PTL

-----------------------------------------------------------------------------
(***************************************************************************)
(* What the diagnostics saw stays true until their thread acts on it.      *)
(***************************************************************************)
Answers ==
    /\ roomSeen => pcP = "call" /\ pushes - (headSeen - 1) < Capacity - 1
    /\ itemSeen => pcC = "call" /\ tailSeen - 1 > pops

LEMMA AnswersInv == IInv /\ Answers /\ [Next]_vars => Answers'
<1> SUFFICES ASSUME IInv, Answers, [Next]_vars PROVE Answers'
    OBVIOUS
<1>0. /\ headSeen \in Nat /\ tailSeen \in Nat /\ Capacity \in Nat
      /\ pushes \in Nat /\ pops \in Nat
    BY Derived
<1>1. ASSUME UNCHANGED <<head_, tail_>>,
             UNCHANGED <<roomSeen, itemSeen>>,
             roomSeen => pcP' = "call", itemSeen => pcC' = "call",
             headSeen' \in Nat, headSeen' >= headSeen,
             tailSeen' \in Nat, tailSeen' >= tailSeen
      PROVE  Answers'
    <2>1. pushes' = pushes /\ pops' = pops
        BY <1>1 DEF pushes, pops
    <2>0. /\ headSeen' \in Nat /\ headSeen' >= headSeen
          /\ tailSeen' \in Nat /\ tailSeen' >= tailSeen
        BY <1>1
    <2>2. ASSUME roomSeen
          PROVE  pushes - (headSeen' - 1) < Capacity - 1
        <3>1. pushes - (headSeen - 1) < Capacity - 1
            BY <2>2 DEF Answers
        <3>2. headSeen' - 1 >= headSeen - 1
            <4>1. headSeen \in Int /\ headSeen' \in Int /\ headSeen' >= headSeen
                BY <1>0, <2>0
            <4> QED BY <4>1, OneLess
        <3>3. /\ pushes \in Int /\ Capacity - 1 \in Int
              /\ headSeen - 1 \in Int /\ headSeen' - 1 \in Int
            BY <1>0, <2>0
        <3> QED BY <3>1, <3>2, <3>3, StillLess
    <2>3. ASSUME itemSeen
          PROVE  tailSeen' - 1 > pops
        <3>1. tailSeen - 1 > pops
            BY <2>3 DEF Answers
        <3>2. tailSeen' - 1 >= tailSeen - 1
            <4>1. tailSeen \in Int /\ tailSeen' \in Int /\ tailSeen' >= tailSeen
                BY <1>0, <2>0
            <4> QED BY <4>1, OneLess
        <3>3. tailSeen - 1 \in Int /\ tailSeen' - 1 \in Int /\ pops \in Int
            BY <1>0, <2>0
        <3> QED BY <3>1, <3>2, <3>3
    <2> QED BY <1>1, <2>1, <2>2, <2>3 DEF Answers
<1>2. ASSUME NEW x \in Items, NEW k \in 1 .. Len(head_), PushLoad(x, k)
      PROVE  Answers'
    BY <1>2 DEF PushLoad, Answers, consumerVars, pops
<1>3. ASSUME NEW k \in 1 .. Len(head_), Full(k)
      PROVE  Answers'
    <2>1. /\ headSeen' = k /\ pcP' = "call"
          /\ UNCHANGED <<head_, tail_, pcC, tailSeen, itemSeen>>
        BY <1>3 DEF Full, LoadHead, consumerVars
    <2>2. pushes - (k - 1) < Capacity
          /\ (roomSeen' => pushes - (k - 1) # Capacity - 1)
        BY <1>3, LoadedHead DEF Full, LooksFull
    <2>3. roomSeen' => pushes - (k - 1) < Capacity - 1
        BY <1>0, <2>2
    <2>4. pushes' = pushes /\ pops' = pops
        BY <2>1 DEF pushes, pops
    <2> QED BY <2>1, <2>3, <2>4 DEF Answers
<1>4. ASSUME NEW k \in 1 .. Len(tail_), PopLoad(k)
      PROVE  Answers'
    BY <1>4 DEF PopLoad, Answers, producerVars, pushes
<1>5. ASSUME NEW k \in 1 .. Len(tail_), Empty(k)
      PROVE  Answers'
    <2>1. /\ tailSeen' = k /\ pcC' = "call"
          /\ UNCHANGED <<head_, tail_, pcP, headSeen, roomSeen>>
        BY <1>5 DEF Empty, LoadTail, producerVars
    <2>2. k - 1 >= pops /\ (itemSeen' => k - 1 # pops)
        BY <1>5, LoadedTail DEF Empty, IsEmpty
    <2>3. itemSeen' => k - 1 > pops
        BY <1>0, <2>2
    <2>4. pushes' = pushes /\ pops' = pops
        BY <2>1 DEF pushes, pops
    <2> QED BY <2>1, <2>3, <2>4 DEF Answers
<1>6. CASE PushWrite
    BY <1>6, <1>0, <1>1 DEF PushWrite, consumerVars, Answers
<1>7. CASE PopRead
    BY <1>7, <1>0, <1>1 DEF PopRead, producerVars, Answers
<1>8. CASE PushStore
    BY <1>8 DEF PushStore, consumerVars, Answers, pops
<1>9. CASE PopStore
    BY <1>9 DEF PopStore, producerVars, Answers, pushes
<1>10. CASE ShowHead
    BY <1>10, <1>0, <1>1, Derived DEF ShowHead, consumerVars, Answers
<1>11. CASE ShowTail
    BY <1>11, <1>0, <1>1, Derived DEF ShowTail, producerVars, Answers
<1>12. CASE UNCHANGED vars
    BY <1>12, <1>0, <1>1 DEF vars, producerVars, consumerVars, Answers
<1> QED BY <1>2, <1>3, <1>4, <1>5, <1>6, <1>7, <1>8, <1>9, <1>10, <1>11, <1>12
        DEF Next, Push, Pop

\* full() answering false promises the producer's next try_push a slot, and
\* empty() answering false promises the consumer's next try_pop an item.
THEOREM DiagnosticsKept == Spec => AnswersHold
<1>1. Init => Answers
    BY DEF Init, Answers
<1>2. IInv /\ Answers /\ [Next]_vars
        => [/\ roomSeen /\ ~ roomSeen' => pcP' = "write"
            /\ itemSeen /\ ~ itemSeen' => pcC' = "read"]_vars
    <2> SUFFICES ASSUME IInv, Answers, Next
                 PROVE  /\ roomSeen /\ ~ roomSeen' => pcP' = "write"
                        /\ itemSeen /\ ~ itemSeen' => pcC' = "read"
        OBVIOUS
    <2>0. /\ headSeen \in Nat /\ tailSeen \in Nat /\ Capacity \in Nat
          /\ pushes \in Nat /\ pops \in Nat
        BY Derived
    <2>1. ASSUME NEW x \in Items, NEW k \in 1 .. Len(head_), PushLoad(x, k),
                 roomSeen
          PROVE  pcP' = "write" /\ itemSeen' = itemSeen
        <3>1. k >= headSeen
            BY <2>0, <2>1 DEF PushLoad, LoadHead
        <3>2. pushes - (k - 1) < Capacity - 1
            BY <2>0, <2>1, <3>1 DEF Answers
        <3>3. ~ IsFull(Newest(tail_).index, head_[k].index)
            BY <2>0, <2>1, <3>2, LoadedHead DEF PushLoad, IsFull
        <3> QED BY <2>1, <3>3 DEF PushLoad, consumerVars
    <2>2. ASSUME NEW k \in 1 .. Len(head_), Full(k), roomSeen
          PROVE  roomSeen' /\ itemSeen' = itemSeen
        <3>1. k >= headSeen
            BY <2>0, <2>2 DEF Full, LoadHead
        <3>2. pushes - (k - 1) < Capacity - 1
            BY <2>0, <2>2, <3>1 DEF Answers
        <3>3. ~ LooksFull(Newest(tail_).index, head_[k].index)
            BY <2>0, <2>2, <3>2, LoadedHead DEF Full, LooksFull
        <3> QED BY <2>2, <3>3 DEF Full, consumerVars
    <2>3. ASSUME NEW k \in 1 .. Len(tail_), PopLoad(k), itemSeen
          PROVE  pcC' = "read" /\ roomSeen' = roomSeen
        <3>1. k >= tailSeen
            BY <2>0, <2>3 DEF PopLoad, LoadTail
        <3>2. k - 1 > pops
            BY <2>0, <2>3, <3>1 DEF Answers
        <3>3. ~ IsEmpty(Newest(head_).index, tail_[k].index)
            BY <2>0, <2>3, <3>2, LoadedTail DEF PopLoad, IsEmpty
        <3> QED BY <2>3, <3>3 DEF PopLoad, producerVars
    <2>4. ASSUME NEW k \in 1 .. Len(tail_), Empty(k), itemSeen
          PROVE  itemSeen' /\ roomSeen' = roomSeen
        <3>1. k >= tailSeen
            BY <2>0, <2>4 DEF Empty, LoadTail
        <3>2. k - 1 > pops
            BY <2>0, <2>4, <3>1 DEF Answers
        <3>3. ~ IsEmpty(Newest(head_).index, tail_[k].index)
            BY <2>0, <2>4, <3>2, LoadedTail DEF Empty, IsEmpty
        <3> QED BY <2>4, <3>3 DEF Empty, producerVars
    <2>5. ASSUME \/ PushWrite \/ PushStore \/ PopRead \/ PopStore
                 \/ ShowHead \/ ShowTail
          PROVE  UNCHANGED <<roomSeen, itemSeen>>
        BY <2>5 DEF PushWrite, PushStore, PopRead, PopStore, ShowHead, ShowTail,
                    producerVars, consumerVars
    <2>6. ASSUME NEW x \in Items, NEW k \in 1 .. Len(head_), PushLoad(x, k)
          PROVE  itemSeen' = itemSeen
        BY <2>6 DEF PushLoad, consumerVars
    <2>7. ASSUME NEW k \in 1 .. Len(head_), Full(k)
          PROVE  itemSeen' = itemSeen
        BY <2>7 DEF Full, consumerVars
    <2>8. ASSUME NEW k \in 1 .. Len(tail_), PopLoad(k) \/ Empty(k)
          PROVE  roomSeen' = roomSeen
        BY <2>8 DEF PopLoad, Empty, producerVars
    <2> QED BY <2>1, <2>2, <2>3, <2>4, <2>5, <2>6, <2>7, <2>8 DEF Next, Push, Pop
<1> QED BY <1>1, <1>2, Inductive, AnswersInv, PTL DEF Spec, AnswersHold

-----------------------------------------------------------------------------
(***************************************************************************)
(* The ring implements BoundedQueue: its contents are what was pushed and  *)
(* is not popped, every step of a queue operation that decides its result  *)
(* is a step of the abstract queue, and every other step is none.          *)
(***************************************************************************)
LEMMA RingDistance == \A a, b \in Index : (b - a) % Capacity = Ahead(a, b)
BY QueueAssumption DEF Ahead, Index

LEMMA RingSlot ==
    \A a \in Index, d \in 0 .. Capacity - 1 :
        /\ (a + d) % Capacity \in Index
        /\ Ahead(a, (a + d) % Capacity) = d
BY QueueAssumption DEF Ahead, Index

Pending == [i \in 1 .. pushes - pops |-> sent[pops + i]]

LEMMA ContentsIs == IInv => Contents = Pending
<1> SUFFICES ASSUME IInv PROVE Contents = Pending
    OBVIOUS
<1> USE Derived
<1>1. (TailIndex - HeadIndex) % Capacity = pushes - pops
    BY RingDistance
<1>2. ASSUME NEW i \in 1 .. pushes - pops
      PROVE  storage_[(HeadIndex + i - 1) % Capacity] = sent[pops + i]
    <2> DEFINE s == (HeadIndex + (i - 1)) % Capacity
    <2>1. pushes - pops < Capacity /\ i - 1 \in 0 .. Capacity - 1
        <3>1. pushes - pops < Capacity
            BY AheadType
        <3> QED BY <3>1
    <2>2. s \in Index /\ Ahead(HeadIndex, s) = i - 1
        BY <2>1, RingSlot
    <2>3. storage_[s] = sent[pops + (i - 1) + 1]
        BY <2>2 DEF IInv, Holds
    <2>4. HeadIndex \in Int
        BY DEF Index
    <2>5. HeadIndex + i - 1 = HeadIndex + (i - 1) /\ pops + (i - 1) + 1 = pops + i
        BY <2>4
    <2> QED BY <2>3, <2>5
<1> QED BY <1>1, <1>2 DEF Contents, Pending, TailIndex, HeadIndex

LEMMA PendingType ==
    ASSUME IInv
    PROVE  /\ Pending \in Seq(Items) /\ Len(Pending) = pushes - pops
           /\ pushes - pops \in Nat
<1>1. /\ sent \in Seq(Items) /\ Len(sent) = pushes
      /\ pops <= pushes /\ pushes \in Nat /\ pops \in Nat
    BY Derived DEF IInv, TypeOK, Counts
<1>2. \A i \in 1 .. pushes - pops : sent[pops + i] \in Items
    BY <1>1
<1> QED BY <1>1, <1>2 DEF Pending

\* What each kind of step does to the contents.
LEMMA SameContents ==
    ASSUME IInv, UNCHANGED <<head_, tail_, sent>>
    PROVE  Pending' = Pending
BY DEF Pending, pushes, pops

LEMMA PushedContents ==
    ASSUME IInv, PushStore
    PROVE  /\ item \in Items /\ pushes' = pushes + 1 /\ pops' = pops
           /\ Pending' = Append(Pending, item)
<1>1. /\ item \in Items /\ sent \in Seq(Items) /\ Len(sent) = pushes
      /\ sent' = Append(sent, item) /\ head_' = head_ /\ tail_ \in Seq(Store)
    BY DEF PushStore, IInv, Granted, TypeOK, Counts
<1>2. pushes' = pushes + 1 /\ pops' = pops
    <2>1. Len(tail_') = Len(tail_) + 1
        BY <1>1 DEF PushStore, StoreTail
    <2> QED BY <1>1, <2>1, Derived DEF pushes, pops
<1>3. /\ pushes \in Nat /\ pops \in Nat /\ pops <= pushes
      /\ Pending \in Seq(Items) /\ Len(Pending) = pushes - pops
    BY Derived, PendingType DEF IInv, Counts
<1>4. /\ Append(Pending, item) \in Seq(Items)
      /\ Len(Append(Pending, item)) = pushes - pops + 1
      /\ \A i \in 1 .. pushes - pops : Append(Pending, item)[i] = Pending[i]
      /\ Append(Pending, item)[pushes - pops + 1] = item
    BY <1>1, <1>3, AppendProperties
<1>5. /\ \A i \in 1 .. pushes : sent'[i] = sent[i]
      /\ sent'[pushes + 1] = item
    BY <1>1, AppendProperties
<1>6. Pending' = [i \in 1 .. pushes - pops + 1 |-> sent'[pops + i]]
    BY <1>2, <1>3 DEF Pending
<1>7. ASSUME NEW i \in 1 .. pushes - pops + 1
      PROVE  sent'[pops + i] = Append(Pending, item)[i]
    <2>1. CASE i \in 1 .. pushes - pops
        <3>1. pops + i \in 1 .. pushes
            BY <1>3, <2>1
        <3> QED BY <1>4, <1>5, <2>1, <3>1 DEF Pending
    <2>2. CASE i = pushes - pops + 1
        <3>1. pops + i = pushes + 1
            BY <1>3, <2>2
        <3> QED BY <1>4, <1>5, <2>2, <3>1
    <2> QED BY <1>3, <2>1, <2>2
<1>8. Pending' \in Seq(Items) /\ Len(Pending') = pushes - pops + 1
    <2>1. \A i \in 1 .. pushes - pops + 1 : Append(Pending, item)[i] \in Items
        <3>1. Append(Pending, item) \in Seq(Items)
              /\ Len(Append(Pending, item)) = pushes - pops + 1
            BY <1>4
        <3> QED BY <3>1
    <2>2. \A i \in 1 .. pushes - pops + 1 : sent'[pops + i] \in Items
        BY <1>7, <2>1
    <2>3. pushes - pops + 1 \in Nat
        BY <1>3
    <2> QED BY <1>6, <2>2, <2>3
<1>9. \A i \in 1 .. Len(Pending') : Pending'[i] = Append(Pending, item)[i]
    BY <1>6, <1>7, <1>8
<1> QED BY <1>1, <1>2, <1>4, <1>8, <1>9, SeqEqual

LEMMA PoppedContents ==
    ASSUME IInv, PopStore
    PROVE  /\ pushes' = pushes /\ pops' = pops + 1
           /\ pops + 1 <= tailSeen - 1 /\ pops + 1 <= pushes
           /\ Head(Pending) = got
           /\ Pending' = Tail(Pending)
<1>1. /\ tail_' = tail_ /\ sent' = sent /\ head_ \in Seq(Store)
      /\ got = sent[pops + 1]
    BY DEF PopStore, producerVars, IInv, Holds, TypeOK
<1>2. pushes' = pushes /\ pops' = pops + 1
    <2>1. Len(head_') = Len(head_) + 1
        BY <1>1 DEF PopStore, StoreHead
    <2> QED BY <1>1, <2>1, Derived DEF pushes, pops
<1>3. /\ pushes \in Nat /\ pops \in Nat /\ pops + 1 <= pushes
      /\ pops + 1 <= tailSeen - 1
    BY Derived DEF IInv, Granted, PopStore, pushes
<1>4. /\ Pending \in Seq(Items) /\ Len(Pending) = pushes - pops
      /\ Pending # << >>
    <2>1. Pending \in Seq(Items) /\ Len(Pending) = pushes - pops
        BY PendingType
    <2>2. Len(Pending) > 0
        BY <1>3, <2>1
    <2> QED BY <2>1, <2>2
<1>5. Head(Pending) = got
    <2>1. 1 \in 1 .. pushes - pops
        BY <1>3
    <2> QED BY <1>1, <1>4, <2>1 DEF Pending
<1>6. /\ Tail(Pending) \in Seq(Items) /\ Len(Tail(Pending)) = pushes - pops - 1
      /\ \A i \in 1 .. pushes - pops - 1 : Tail(Pending)[i] = Pending[i + 1]
    BY <1>3, <1>4, HeadTailProperties
<1>7. Pending' = [i \in 1 .. pushes - pops - 1 |-> sent[pops + 1 + i]]
    <2>1. pushes - (pops + 1) = pushes - pops - 1
        BY <1>3
    <2> QED BY <1>1, <1>2, <2>1 DEF Pending
<1>8. ASSUME NEW i \in 1 .. pushes - pops - 1
      PROVE  Pending[i + 1] = sent[pops + 1 + i]
    <2>1. i + 1 \in 1 .. pushes - pops /\ pops + (i + 1) = pops + 1 + i
        BY <1>3
    <2> QED BY <2>1 DEF Pending
<1>9. Pending' \in Seq(Items) /\ Len(Pending') = pushes - pops - 1
    <2>1. \A i \in 1 .. pushes - pops - 1 : Tail(Pending)[i] \in Items
        BY <1>6
    <2>2. \A i \in 1 .. pushes - pops - 1 : sent[pops + 1 + i] \in Items
        BY <1>6, <1>8, <2>1
    <2> QED BY <1>3, <1>7, <2>2
<1>10. \A i \in 1 .. Len(Pending') : Pending'[i] = Tail(Pending)[i]
    BY <1>6, <1>7, <1>8, <1>9
<1>11. Pending' = Tail(Pending)
    BY <1>6, <1>9, <1>10, SeqEqual
<1> QED BY <1>2, <1>3, <1>5, <1>11

\* A load that leaves a push or a pop's result open only notices.
LEMMA StepRefines == IInv /\ IInv' /\ [Next]_vars => [Q!QNext]_(Q!qvars)
<1> SUFFICES ASSUME IInv, IInv', [Next]_vars PROVE [Q!QNext]_(Q!qvars)
    OBVIOUS
<1> DEFINE freed == Len(head_) - headSeen
           fresh == Len(tail_) - tailSeen
<1>0. /\ Contents = Pending /\ Contents' = Pending'
      /\ Len(Contents) = pushes - pops
    <2>1. Contents = Pending
        BY ContentsIs
    <2>2. (IInv => Contents = Pending)'
        BY ContentsIs, PTL
    <2> QED BY <2>1, <2>2, PendingType
<1>1. /\ pushes \in Nat /\ pops \in Nat /\ Capacity \in Nat
      /\ Len(head_) = pops + 1 /\ Len(tail_) = pushes + 1
      /\ headSeen \in Nat /\ headSeen <= Len(head_) /\ 1 <= headSeen
      /\ tailSeen \in Nat /\ tailSeen <= Len(tail_) /\ 1 <= tailSeen
    BY Derived DEF pushes, pops
<1>2. freed \in Nat /\ fresh \in Nat
    BY <1>1
<1>3. ASSUME UNCHANGED <<head_, tail_, sent, headSeen, tailSeen, accepted, taken>>
      PROVE  UNCHANGED Q!qvars
    BY <1>0, <1>3, SameContents DEF Q!qvars
<1>4. ASSUME NEW k \in 1 .. Len(head_), headSeen' = k, k >= headSeen,
             UNCHANGED <<head_, tail_, sent, tailSeen, accepted, taken>>
      PROVE  Q!QNext
    <2>1. Len(head_) - k \in 0 .. freed /\ freed' = Len(head_) - k
        BY <1>1, <1>4
    <2>2. UNCHANGED <<Contents, fresh, accepted, taken>>
        BY <1>0, <1>4, SameContents
    <2> QED BY <2>1, <2>2 DEF Q!QNext, Q!NoticePops
<1>5. ASSUME NEW k \in 1 .. Len(tail_), tailSeen' = k, k >= tailSeen,
             UNCHANGED <<head_, tail_, sent, headSeen, accepted, taken>>
      PROVE  Q!QNext
    <2>1. Len(tail_) - k \in 0 .. fresh /\ fresh' = Len(tail_) - k
        BY <1>1, <1>5
    <2>2. UNCHANGED <<Contents, freed, accepted, taken>>
        BY <1>0, <1>5, SameContents
    <2> QED BY <2>1, <2>2 DEF Q!QNext, Q!NoticePushes
<1>6. ASSUME NEW x \in Items, NEW k \in 1 .. Len(head_), PushLoad(x, k)
      PROVE  Q!QNext
    <2>1. /\ LoadHead(k) /\ headSeen' = k /\ k >= headSeen /\ k \in Nat
          /\ UNCHANGED <<head_, tail_, sent, tailSeen, taken>>
        BY <1>1, <1>6 DEF PushLoad, LoadHead, consumerVars
    <2>2. CASE IsFull(Newest(tail_).index, head_[k].index)
        <3>1. pushes - (k - 1) = Capacity - 1
            BY <2>1, <2>2, LoadedHead DEF IsFull
        <3>2. /\ Len(head_) - k \in 0 .. freed /\ freed' = Len(head_) - k
              /\ Len(Contents) + (Len(head_) - k) = Capacity - 1
            BY <1>0, <1>1, <2>1, <3>1
        <3>3. UNCHANGED <<Contents, fresh, taken>> /\ accepted' = FALSE
            BY <1>0, <1>6, <2>1, <2>2, SameContents DEF PushLoad
        <3> QED BY <3>2, <3>3 DEF Q!QNext, Q!RefusePush, Q!NoticePops
    <2>3. CASE ~ IsFull(Newest(tail_).index, head_[k].index)
        BY <1>4, <1>6, <2>1, <2>3 DEF PushLoad
    <2> QED BY <2>2, <2>3
<1>7. ASSUME NEW k \in 1 .. Len(tail_), PopLoad(k)
      PROVE  Q!QNext
    <2>1. /\ LoadTail(k) /\ tailSeen' = k /\ k >= tailSeen /\ k \in Nat
          /\ UNCHANGED <<head_, tail_, sent, headSeen, accepted>>
        BY <1>1, <1>7 DEF PopLoad, LoadTail, producerVars
    <2>2. CASE IsEmpty(Newest(head_).index, tail_[k].index)
        <3>1. k - 1 = pops
            BY <2>1, <2>2, LoadedTail DEF IsEmpty
        <3>2. /\ Len(tail_) - k \in 0 .. fresh /\ fresh' = Len(tail_) - k
              /\ Len(Contents) = Len(tail_) - k
            BY <1>0, <1>1, <2>1, <3>1
        <3>3. UNCHANGED <<Contents, freed, accepted>> /\ taken' = nullopt
            BY <1>0, <1>7, <2>1, <2>2, SameContents DEF PopLoad
        <3> QED BY <3>2, <3>3 DEF Q!QNext, Q!RefusePop, Q!NoticePushes
    <2>3. CASE ~ IsEmpty(Newest(head_).index, tail_[k].index)
        BY <1>5, <1>7, <2>1, <2>3 DEF PopLoad
    <2> QED BY <2>2, <2>3
<1>8. ASSUME NEW k \in 1 .. Len(head_), Full(k)
      PROVE  Q!QNext
    BY <1>1, <1>4, <1>8 DEF Full, LoadHead, consumerVars
<1>9. ASSUME NEW k \in 1 .. Len(tail_), Empty(k)
      PROVE  Q!QNext
    BY <1>1, <1>5, <1>9 DEF Empty, LoadTail, producerVars
<1>10. CASE ShowHead
    BY <1>1, <1>4, <1>10 DEF ShowHead, consumerVars
<1>11. CASE ShowTail
    BY <1>1, <1>5, <1>11 DEF ShowTail, producerVars
<1>12. CASE PushWrite
    BY <1>3, <1>12 DEF PushWrite, consumerVars
<1>13. CASE PopRead
    BY <1>3, <1>13 DEF PopRead, producerVars
<1>14. CASE UNCHANGED vars
    BY <1>3, <1>14 DEF vars, producerVars, consumerVars
<1>15. CASE PushStore
    <2>1. /\ item \in Items /\ Contents' = Append(Contents, item)
          /\ pushes' = pushes + 1
        BY <1>0, <1>15, PushedContents
    <2>2. /\ accepted' = TRUE /\ UNCHANGED <<freed, tailSeen, taken>>
          /\ pushes - (headSeen - 1) < Capacity - 1
        BY <1>15 DEF PushStore, consumerVars, IInv, Granted
    <2>3. Len(Contents) + freed < Capacity - 1
        BY <1>0, <1>1, <2>2
    <2>4. fresh' = fresh + 1
        BY <1>1, <2>1, <2>2 DEF pushes
    <2> QED BY <2>1, <2>2, <2>3, <2>4 DEF Q!QNext, Q!Accept
<1>16. CASE PopStore
    <2>1. /\ Contents' = Tail(Contents) /\ Head(Contents) = got
          /\ pops' = pops + 1 /\ pops + 1 <= tailSeen - 1
        BY <1>0, <1>16, PoppedContents
    <2>2. taken' = got /\ UNCHANGED <<fresh, headSeen, accepted>>
        BY <1>16 DEF PopStore, producerVars
    <2>3. Len(Contents) > fresh
        BY <1>0, <1>1, <2>1
    <2>4. freed' = freed + 1
        BY <1>1, <2>1, <2>2 DEF pops
    <2> QED BY <2>1, <2>2, <2>3, <2>4 DEF Q!QNext, Q!Take
<1> QED BY <1>6, <1>7, <1>8, <1>9, <1>10, <1>11, <1>12, <1>13, <1>14, <1>15, <1>16
        DEF Next, Push, Pop

\* The ring is a bounded FIFO queue that refuses a push or a pop only when it
\* is full or empty as far as that thread has noticed the other's operations.
THEOREM QueueImplemented == Spec => ImplementsQueue
<1>1. Init => Q!QInit
    <2> SUFFICES ASSUME Init PROVE Q!QInit
        OBVIOUS
    <2>1. Len(head_) = 1 /\ Len(tail_) = 1 /\ headSeen = 1 /\ tailSeen = 1
        BY DEF Init
    <2>2. Contents = << >>
        <3>1. pushes - pops = 0
            BY <2>1 DEF pushes, pops
        <3>2. Contents \in Seq(Items) /\ Len(Contents) = 0
            BY <3>1, InitInv, ContentsIs, PendingType
        <3> QED BY <3>2
    <2> QED BY <2>1, <2>2 DEF Init, Q!QInit
<1> QED BY <1>1, StepRefines, Inductive, PTL DEF Spec, ImplementsQueue, Q!QSpec
============================================================================
