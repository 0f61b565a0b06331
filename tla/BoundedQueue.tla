---------------------------- MODULE BoundedQueue ----------------------------
(***************************************************************************)
(* What an SPSC queue promises its two threads: a FIFO of at most Room     *)
(* items.  Each thread learns of the other's operations late.  A push is   *)
(* refused only when the queue is full as far as the producer has noticed  *)
(* pops, a pop only when it is empty as far as the consumer has noticed    *)
(* pushes.  SPSCQueue implements this specification.                       *)
(***************************************************************************)
EXTENDS Naturals, Sequences

CONSTANTS
    Items,
    Room,      \* how many items the queue holds
    nullopt    \* the answer of a pop that finds nothing

VARIABLES
    queue,     \* the items, oldest first
    freed,     \* pops that the producer has not noticed
    fresh,     \* pushes that the consumer has not noticed
    accepted,  \* the producer's last answer
    taken      \* the consumer's last answer

qvars == <<queue, freed, fresh, accepted, taken>>

QInit ==
    /\ queue = <<>>
    /\ freed = 0
    /\ fresh = 0
    /\ accepted = TRUE
    /\ taken = nullopt

\* The producer notices pops until n are left unnoticed.
NoticePops(n) ==
    /\ n \in 0 .. freed
    /\ freed' = n

NoticePushes(n) ==
    /\ n \in 0 .. fresh
    /\ fresh' = n

Accept(item) ==
    /\ Len(queue) + freed < Room
    /\ queue' = Append(queue, item)
    /\ fresh' = fresh + 1
    /\ accepted' = TRUE
    /\ UNCHANGED <<freed, taken>>

RefusePush(n) ==
    /\ NoticePops(n)
    /\ Len(queue) + n = Room
    /\ accepted' = FALSE
    /\ UNCHANGED <<queue, fresh, taken>>

Take ==
    /\ Len(queue) > fresh
    /\ taken' = Head(queue)
    /\ queue' = Tail(queue)
    /\ freed' = freed + 1
    /\ UNCHANGED <<fresh, accepted>>

RefusePop(n) ==
    /\ NoticePushes(n)
    /\ Len(queue) = n
    /\ taken' = nullopt
    /\ UNCHANGED <<queue, freed, accepted>>

QNext ==
    \/ \E item \in Items : Accept(item)
    \/ \E n \in 0 .. freed : \/ RefusePush(n)
                             \/ NoticePops(n) /\ UNCHANGED <<queue, fresh, accepted, taken>>
    \/ Take
    \/ \E n \in 0 .. fresh : \/ RefusePop(n)
                             \/ NoticePushes(n) /\ UNCHANGED <<queue, freed, accepted, taken>>

QSpec == QInit /\ [][QNext]_qvars
============================================================================
