---------------------------- MODULE LimitLevel ----------------------------
(***************************************************************************)
(* The price levels of the order book (struct LimitLevel in                *)
(* include/types.hpp): one intrusive doubly linked list per level, oldest  *)
(* node first.  A node carries the next and prev pointers itself           *)
(* (IntrusiveListNode), a level its head, tail, quantity total and count.  *)
(* PushBack and Remove are conjuncts for the actions of the order book.    *)
(* Before some operators stands a mutant: a slip a property must catch.    *)
(***************************************************************************)
EXTENDS Integers

CONSTANTS
    Levels,   \* one LimitLevel object each
    Nodes,    \* the objects that can be linked
    nullptr

VARIABLES next, prev, head, tail, total_quantity, order_count

LevelInit ==
    /\ next = [x \in Nodes |-> nullptr]
    /\ prev = [x \in Nodes |-> nullptr]
    /\ head = [l \in Levels |-> nullptr]
    /\ tail = [l \in Levels |-> nullptr]
    /\ total_quantity = [l \in Levels |-> 0]
    /\ order_count = [l \in Levels |-> 0]

\* The pointers of push_back(o): o becomes the newest node of level l.
\* A mutant queues it as the oldest.
LinkFront(l, o) ==
    /\ prev' = IF head[l] # nullptr
               THEN [prev EXCEPT ![o] = nullptr, ![head[l]] = o]
               ELSE [prev EXCEPT ![o] = nullptr]
    /\ next' = [next EXCEPT ![o] = head[l]]
    /\ tail' = IF head[l] = nullptr THEN [tail EXCEPT ![l] = o] ELSE tail
    /\ head' = [head EXCEPT ![l] = o]

Link(l, o) ==
    /\ next' = IF tail[l] # nullptr
               THEN [next EXCEPT ![o] = nullptr, ![tail[l]] = o]
               ELSE [next EXCEPT ![o] = nullptr]
    /\ prev' = [prev EXCEPT ![o] = tail[l]]
    /\ head' = IF tail[l] = nullptr THEN [head EXCEPT ![l] = o] ELSE head
    /\ tail' = [tail EXCEPT ![l] = o]

\* push_back(o).  The total grows by o's quantity, whatever part of it is
\* already filled.  A mutant forgets the total.
PushBackUnsummed(l, o, quantity) ==
    /\ Link(l, o)
    /\ order_count' = [order_count EXCEPT ![l] = @ + 1]
    /\ UNCHANGED total_quantity

PushBack(l, o, quantity) ==
    /\ Link(l, o)
    /\ total_quantity' = [total_quantity EXCEPT ![l] = @ + quantity]
    /\ order_count' = [order_count EXCEPT ![l] = @ + 1]

\* The pointers of remove(o).  A mutant never moves the tail back.
UnlinkKeepTail(l, o) ==
    /\ next' = IF prev[o] # nullptr
               THEN [next EXCEPT ![prev[o]] = next[o], ![o] = nullptr]
               ELSE [next EXCEPT ![o] = nullptr]
    /\ head' = IF prev[o] = nullptr THEN [head EXCEPT ![l] = next[o]] ELSE head
    /\ prev' = IF next[o] # nullptr
               THEN [prev EXCEPT ![next[o]] = prev[o], ![o] = nullptr]
               ELSE [prev EXCEPT ![o] = nullptr]
    /\ UNCHANGED tail

Unlink(l, o) ==
    /\ next' = IF prev[o] # nullptr
               THEN [next EXCEPT ![prev[o]] = next[o], ![o] = nullptr]
               ELSE [next EXCEPT ![o] = nullptr]
    /\ head' = IF prev[o] = nullptr THEN [head EXCEPT ![l] = next[o]] ELSE head
    /\ prev' = IF next[o] # nullptr
               THEN [prev EXCEPT ![next[o]] = prev[o], ![o] = nullptr]
               ELSE [prev EXCEPT ![o] = nullptr]
    /\ tail' = IF next[o] = nullptr THEN [tail EXCEPT ![l] = prev[o]] ELSE tail

\* remove(o): reduction is what the total loses in the step, o's open quantity
\* and, in fill(), the quantity just filled.  A mutant keeps the count.
RemoveUncounted(l, o, reduction) ==
    /\ Unlink(l, o)
    /\ total_quantity' = [total_quantity EXCEPT ![l] = @ - reduction]
    /\ UNCHANGED order_count

Remove(l, o, reduction) ==
    /\ Unlink(l, o)
    /\ total_quantity' = [total_quantity EXCEPT ![l] = @ - reduction]
    /\ order_count' = [order_count EXCEPT ![l] = @ - 1]

\* Only the total of level l changes, by -reduction.
Reduce(l, reduction) ==
    /\ total_quantity' = [total_quantity EXCEPT ![l] = @ - reduction]
    /\ UNCHANGED <<next, prev, head, tail, order_count>>

-----------------------------------------------------------------------------
(***************************************************************************)
(* The lists link exactly the nodes of R, each in the level At(x): heads   *)
(* and tails are the ends of their level, neighbours point at each other   *)
(* within one level, and a node outside R holds no pointer.                *)
(***************************************************************************)
WellLinked(R, At(_)) ==
    /\ \A l \in Levels :
        /\ (head[l] = nullptr) <=> (tail[l] = nullptr)
        /\ head[l] # nullptr =>
            /\ head[l] \in R
            /\ At(head[l]) = l
            /\ prev[head[l]] = nullptr
        /\ tail[l] # nullptr =>
            /\ tail[l] \in R
            /\ At(tail[l]) = l
            /\ next[tail[l]] = nullptr
    /\ \A x \in R :
        /\ prev[x] = nullptr => head[At(x)] = x
        /\ prev[x] # nullptr =>
            /\ prev[x] \in R
            /\ At(prev[x]) = At(x)
            /\ next[prev[x]] = x
        /\ next[x] = nullptr => tail[At(x)] = x
        /\ next[x] # nullptr =>
            /\ next[x] \in R
            /\ At(next[x]) = At(x)
            /\ prev[next[x]] = x
    /\ \A x \in Nodes \ R : next[x] = nullptr /\ prev[x] = nullptr
============================================================================
