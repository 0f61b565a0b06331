--------------------------- MODULE IntrusiveList ---------------------------
(***************************************************************************)
(* IntrusiveList<T> (include/intrusive_list.hpp): lists between two        *)
(* sentinels that link nodes which someone else owns.  The lists of the    *)
(* set Lists share the nodes; the operations are conjuncts for the actions *)
(* of the component that owns these.                                       *)
(***************************************************************************)
EXTENDS Naturals, Sequences

CONSTANTS Lists, Slots, nullptr

VARIABLES next, prev,  \* address -> address or nullptr
          size_        \* list -> its count

\* What a pointer can point to: the node in a slot's object, or a sentinel.
Node(x) == <<"node", x>>
Head_(l) == <<"head", l>>
Tail_(l) == <<"tail", l>>

Address == {Node(x) : x \in Slots} \cup {Head_(l) : l \in Lists}
                                   \cup {Tail_(l) : l \in Lists}

\* Every list is constructed, and no node is linked.
ListInit ==
    /\ next = [a \in Address |-> IF a[1] = "head" THEN Tail_(a[2]) ELSE nullptr]
    /\ prev = [a \in Address |-> IF a[1] = "tail" THEN Head_(a[2]) ELSE nullptr]
    /\ size_ = [l \in Lists |-> 0]

\* A mutant forgets to count.
InsertBackUncounted(l, x) ==
    LET n == Node(x)
        prev_node == prev[Tail_(l)]
    IN  /\ next' = [next EXCEPT ![prev_node] = n, ![n] = Tail_(l)]
        /\ prev' = [prev EXCEPT ![n] = prev_node, ![Tail_(l)] = n]
        /\ UNCHANGED size_

InsertBack(l, x) ==
    LET n == Node(x)
        prev_node == prev[Tail_(l)]
    IN  /\ next' = [next EXCEPT ![prev_node] = n, ![n] = Tail_(l)]
        /\ prev' = [prev EXCEPT ![n] = prev_node, ![Tail_(l)] = n]
        /\ size_' = [size_ EXCEPT ![l] = @ + 1]

\* A mutant forgets the old first node's way back.
InsertFrontOneWay(l, x) ==
    LET n == Node(x)
    IN  /\ next' = [next EXCEPT ![Head_(l)] = n, ![n] = next[Head_(l)]]
        /\ prev' = [prev EXCEPT ![n] = Head_(l)]
        /\ size_' = [size_ EXCEPT ![l] = @ + 1]

InsertFront(l, x) ==
    LET n == Node(x)
        next_node == next[Head_(l)]
    IN  /\ next' = [next EXCEPT ![Head_(l)] = n, ![n] = next_node]
        /\ prev' = [prev EXCEPT ![n] = Head_(l), ![next_node] = n]
        /\ size_' = [size_ EXCEPT ![l] = @ + 1]

\* remove(x) writes only through x's own pointers.  A mutant leaves them.
RemoveKeepLinks(l, x) ==
    LET n == Node(x)
    IN  /\ next' = [next EXCEPT ![prev[n]] = next[n]]
        /\ prev' = [prev EXCEPT ![next[n]] = prev[n]]
        /\ size_' = [size_ EXCEPT ![l] = @ - 1]

RemoveNode(l, x) ==
    LET n == Node(x)
    IN  /\ next' = [next EXCEPT ![prev[n]] = next[n], ![n] = nullptr]
        /\ prev' = [prev EXCEPT ![next[n]] = prev[n], ![n] = nullptr]
        /\ size_' = [size_ EXCEPT ![l] = @ - 1]

\* What remove() asserts of the node.
LooksLinked(x) == prev[Node(x)] # nullptr /\ next[Node(x)] # nullptr

\* front() and back() trust the count.
Front(l) == IF size_[l] = 0 THEN nullptr ELSE next[Head_(l)]
Back(l) == IF size_[l] = 0 THEN nullptr ELSE prev[Tail_(l)]

\* The iterator: begin(), and ++it from the node it is at.  A mutant goes the
\* other way.
BeginAt(l) == next[Head_(l)]
FollowingBack(a) == prev[a]
Following(a) == next[a]
============================================================================
