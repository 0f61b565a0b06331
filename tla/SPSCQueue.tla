----------------------------- MODULE SPSCQueue -----------------------------
(***************************************************************************)
(* SPSCQueue<T, Capacity> (include/spsc_queue.hpp): a ring shared by one   *)
(* producer and one consumer thread, under the release/acquire rules of    *)
(* the C++ memory model.                                                   *)
(*                                                                         *)
(* head_ and tail_ are atomic and have one writer each.  Their values are  *)
(* kept as the sequence of stores to them: a load by the other thread may  *)
(* return any store that is not older than what that thread has seen, and  *)
(* an acquire load makes known the slot accesses that come before the      *)
(* release store it reads.  Accesses to slots are plain: two of them, one  *)
(* a write, by different threads are a data race unless the later thread   *)
(* knows of the earlier one.  One action is one access to shared memory; a *)
(* thread's loads of its own atomic are part of its next step.             *)
(***************************************************************************)
EXTENDS Integers, Sequences

CONSTANTS
    Capacity,  \* slots, a power of two
    Items,     \* what is pushed
    nullopt

ASSUME QueueAssumption ==
    /\ Capacity \in Nat /\ Capacity >= 2
    /\ nullopt \notin Items

VARIABLES
    head_, tail_,   \* the stores: [index, after], after slot accesses known
    storage_,       \* the slots
    lastRead,       \* slot -> which of the consumer's reads was its last
    lastWrite,      \* slot -> which of the producer's writes was its last
    reads, writes,  \* how many there were
    pcP, item,      \* the producer's next access and try_push's argument
    headSeen,       \* the oldest store to head_ the producer can still load
    readsKnown,     \* reads that happen before the producer's next access
    pcC, got,       \* the same for the consumer; try_pop's local item
    tailSeen, writesKnown,
    accepted,       \* what the last try_push returned
    taken,          \* what the last try_pop returned
    roomSeen,       \* full() was false since the last try_push
    itemSeen,       \* empty() was false since the last try_pop
    sent, received  \* history: the items pushed and popped

producerVars == <<pcP, item, headSeen, readsKnown, accepted, roomSeen, sent>>
consumerVars == <<pcC, got, tailSeen, writesKnown, taken, itemSeen, received>>
slotVars == <<storage_, lastRead, lastWrite, reads, writes>>
vars == <<head_, tail_, slotVars, producerVars, consumerVars>>

Index == 0 .. Capacity - 1
Newest(a) == a[Len(a)]

\* (i + 1) & kMask.  A mutant does not mask.
SuccUnmasked(i) == i + 1

Succ(i) == (i + 1) % Capacity

\* try_push finds the ring full; a mutant does not look.
IsFullNever(tail, head) == FALSE

IsFull(tail, head) == Succ(tail) = head

\* full(); a mutant counts on every slot.
LooksFullLate(tail, head) == tail = head

LooksFull(tail, head) == Succ(tail) = head

\* try_pop and empty() find the ring empty; a mutant leaves the last item.
IsEmptyEarly(head, tail) == head = tail \/ Succ(head) = tail

IsEmpty(head, tail) == head = tail

Init ==
    /\ head_ = <<[index |-> 0, after |-> 0]>>
    /\ tail_ = <<[index |-> 0, after |-> 0]>>
    /\ storage_ = [i \in Index |-> nullopt]  \* nothing that was pushed
    /\ lastRead = [i \in Index |-> 0]
    /\ lastWrite = [i \in Index |-> 0]
    /\ reads = 0 /\ writes = 0
    /\ pcP = "call" /\ item = nullopt
    /\ pcC = "call" /\ got = nullopt
    /\ headSeen = 1 /\ readsKnown = 0
    /\ tailSeen = 1 /\ writesKnown = 0
    /\ accepted = TRUE /\ taken = nullopt
    /\ roomSeen = FALSE /\ itemSeen = FALSE
    /\ sent = <<>> /\ received = <<>>

-----------------------------------------------------------------------------
(***************************************************************************)
(* The producer.                                                           *)
(***************************************************************************)
\* An acquire load of head_ that returns its k-th store.
LoadHead(k) ==
    /\ k \in headSeen .. Len(head_)
    /\ headSeen' = k
    /\ readsKnown' = IF head_[k].after > readsKnown THEN head_[k].after
                     ELSE readsKnown

\* try_push(x): the queue looks full, or there is a slot to write.
PushLoad(x, k) ==
    /\ pcP = "call"
    /\ LoadHead(k)
    /\ IF IsFull(Newest(tail_).index, head_[k].index)
       THEN accepted' = FALSE /\ UNCHANGED <<pcP, item>>
       ELSE pcP' = "write" /\ item' = x /\ UNCHANGED accepted
    /\ roomSeen' = FALSE
    /\ UNCHANGED <<head_, tail_, slotVars, consumerVars, sent>>

PushWrite ==
    /\ pcP = "write"
    /\ pcP' = "store"
    /\ storage_' = [storage_ EXCEPT ![Newest(tail_).index] = item]
    /\ writes' = writes + 1
    /\ lastWrite' = [lastWrite EXCEPT ![Newest(tail_).index] = writes + 1]
    /\ UNCHANGED <<head_, tail_, lastRead, reads, consumerVars, item, headSeen,
                   readsKnown, accepted, roomSeen, sent>>

\* The release store of tail_.  Mutants store relaxed, and store the old value.
StoreTailRelaxed(i) == tail_' = Append(tail_, [index |-> i, after |-> 0])

StoreTailStuck(i) == tail_' = Append(tail_, Newest(tail_))

StoreTail(i) == tail_' = Append(tail_, [index |-> i, after |-> writes])

PushStore ==
    /\ pcP = "store"
    /\ pcP' = "call"
    /\ StoreTail(Succ(Newest(tail_).index))
    /\ accepted' = TRUE
    /\ item' = nullopt
    /\ sent' = Append(sent, item)
    /\ UNCHANGED <<head_, slotVars, consumerVars, headSeen, readsKnown, roomSeen>>

\* full() called by the producer.
Full(k) ==
    /\ pcP = "call"
    /\ LoadHead(k)
    /\ roomSeen' = ~ LooksFull(Newest(tail_).index, head_[k].index)
    /\ UNCHANGED <<head_, tail_, slotVars, consumerVars, pcP, item, accepted, sent>>

-----------------------------------------------------------------------------
(***************************************************************************)
(* The consumer.                                                           *)
(***************************************************************************)
LoadTail(k) ==
    /\ k \in tailSeen .. Len(tail_)
    /\ tailSeen' = k
    /\ writesKnown' = IF tail_[k].after > writesKnown THEN tail_[k].after
                      ELSE writesKnown

\* try_pop(): the queue looks empty, or there is a slot to read.
PopLoad(k) ==
    /\ pcC = "call"
    /\ LoadTail(k)
    /\ IF IsEmpty(Newest(head_).index, tail_[k].index)
       THEN taken' = nullopt /\ UNCHANGED pcC
       ELSE pcC' = "read" /\ UNCHANGED taken
    /\ itemSeen' = FALSE
    /\ UNCHANGED <<head_, tail_, slotVars, producerVars, got, received>>

PopRead ==
    /\ pcC = "read"
    /\ pcC' = "store"
    /\ got' = storage_[Newest(head_).index]
    /\ reads' = reads + 1
    /\ lastRead' = [lastRead EXCEPT ![Newest(head_).index] = reads + 1]
    /\ UNCHANGED <<head_, tail_, storage_, lastWrite, writes, producerVars,
                   tailSeen, writesKnown, taken, itemSeen, received>>

StoreHead(i) == head_' = Append(head_, [index |-> i, after |-> reads])

PopStore ==
    /\ pcC = "store"
    /\ pcC' = "call"
    /\ StoreHead(Succ(Newest(head_).index))
    /\ taken' = got
    /\ got' = nullopt
    /\ received' = Append(received, got)
    /\ UNCHANGED <<tail_, slotVars, producerVars, tailSeen, writesKnown, itemSeen>>

\* empty() called by the consumer.
Empty(k) ==
    /\ pcC = "call"
    /\ LoadTail(k)
    /\ itemSeen' = ~ IsEmpty(Newest(head_).index, tail_[k].index)
    /\ UNCHANGED <<head_, tail_, slotVars, producerVars, pcC, got, taken, received>>

-----------------------------------------------------------------------------
\* A store becomes visible: no later load returns an older one.
ShowHead ==
    /\ headSeen < Len(head_)
    /\ headSeen' = Len(head_)
    /\ UNCHANGED <<head_, tail_, slotVars, consumerVars, pcP, item, readsKnown,
                   accepted, roomSeen, sent>>

ShowTail ==
    /\ tailSeen < Len(tail_)
    /\ tailSeen' = Len(tail_)
    /\ UNCHANGED <<head_, tail_, slotVars, producerVars, pcC, got, writesKnown,
                   taken, itemSeen, received>>

Push == \E x \in Items, k \in 1 .. Len(head_) : PushLoad(x, k)
Pop == \E k \in 1 .. Len(tail_) : PopLoad(k)

Next ==
    \/ Push
    \/ PushWrite
    \/ PushStore
    \/ \E k \in 1 .. Len(head_) : Full(k)
    \/ Pop
    \/ PopRead
    \/ PopStore
    \/ \E k \in 1 .. Len(tail_) : Empty(k)
    \/ ShowHead
    \/ ShowTail

Spec == Init /\ [][Next]_vars

-----------------------------------------------------------------------------
\* Type correctness of the queue's state.
Store == [index : Index, after : Nat]

TypeOK ==
    /\ head_ \in Seq(Store) /\ Len(head_) > 0
    /\ tail_ \in Seq(Store) /\ Len(tail_) > 0
    /\ storage_ \in [Index -> Items \cup {nullopt}]
    /\ lastRead \in [Index -> Nat]
    /\ lastWrite \in [Index -> Nat]
    /\ reads \in Nat /\ writes \in Nat
    /\ pcP \in {"call", "write", "store"}
    /\ pcC \in {"call", "read", "store"}
    /\ item \in Items \cup {nullopt}
    /\ got \in Items \cup {nullopt}
    /\ headSeen \in 1 .. Len(head_) /\ readsKnown \in Nat
    /\ tailSeen \in 1 .. Len(tail_) /\ writesKnown \in Nat
    /\ accepted \in BOOLEAN /\ roomSeen \in BOOLEAN /\ itemSeen \in BOOLEAN
    /\ taken \in Items \cup {nullopt}
    /\ sent \in Seq(Items) /\ received \in Seq(Items)

\* No data race on a slot: the producer writes one only when it knows of the
\* consumer's last read of it, and the consumer reads one only when it knows
\* of the producer's last write, however stale the indices they loaded.
NoDataRace ==
    /\ pcP = "write" => lastRead[Newest(tail_).index] <= readsKnown
    /\ pcC = "read" => lastWrite[Newest(head_).index] <= writesKnown

\* Items are popped in the order they were pushed, none lost, doubled or read
\* from a slot before it is written, across any number of wraps; and the ring
\* never holds more than Capacity - 1 of them.
InOrder ==
    /\ Len(received) <= Len(sent)
    /\ Len(sent) <= Len(received) + Capacity - 1
    /\ \A i \in 1 .. Len(received) : received[i] = sent[i]

\* What the diagnostics tell the thread that owns an end holds until it acts:
\* after full() was false its next try_push succeeds, after empty() was false
\* its next try_pop returns an item.
AnswersHold ==
    [][/\ roomSeen /\ ~ roomSeen' => pcP' = "write"
       /\ itemSeen /\ ~ itemSeen' => pcC' = "read"]_vars

-----------------------------------------------------------------------------
\* The items in the ring, oldest first.
Contents ==
    LET h == Newest(head_).index
    IN  [i \in 1 .. (Newest(tail_).index - h) % Capacity |->
            storage_[(h + i - 1) % Capacity]]

Q == INSTANCE BoundedQueue WITH
    Room <- Capacity - 1,
    queue <- Contents,
    freed <- Len(head_) - headSeen,
    fresh <- Len(tail_) - tailSeen

\* The ring is a bounded FIFO that refuses only for a reason.
ImplementsQueue == Q!QSpec
============================================================================
