---------------------------- MODULE OrderStore ----------------------------
(***************************************************************************)
(* Objects in a MemoryPool, linked in IntrusiveLists: the use both headers *)
(* are written for ("the pool owns objects; this list just links").  One   *)
(* thread constructs and destroys objects, moves them in and out of lists  *)
(* and walks a list in a range-based for loop whose body does the same.    *)
(* It keeps to the assertions of both: it destroys what it holds and has   *)
(* not linked, inserts what is not linked, removes what is, and does not   *)
(* remove the object that the loop is at.                                  *)
(***************************************************************************)
EXTENDS Naturals, Sequences, FiniteSets, SequencesExt

CONSTANTS Lists, Capacity, nullptr, NoWalk

ASSUME StoreAssumption == Capacity \in Nat \ {0}

VARIABLES
    free_stack,         \* the pool
    next, prev, size_,  \* the lists
    cur,                \* the loop's iterator: [list, at], or NoWalk
    \* history:
    held,               \* the slots whose objects are constructed
    contents,           \* list -> the slots in it, in order
    due                 \* the objects that the loop has still to visit

storeVars == <<free_stack, next, prev, size_, cur, held, contents, due>>

Pool == INSTANCE MemoryPool
IL == INSTANCE IntrusiveList WITH Slots <- Pool!Slots

\* nullptr is no address, and NoWalk is not an iterator.
ASSUME NullAssumption ==
    /\ nullptr \notin IL!Address
    /\ NoWalk \notin [list : Lists, at : IL!Address]

Linked == UNION {Range(contents[l]) : l \in Lists}

StoreInit ==
    /\ Pool!PoolInit
    /\ IL!ListInit
    /\ cur = NoWalk
    /\ held = {}
    /\ contents = [l \in Lists |-> <<>>]
    /\ due = <<>>

\* construct(): the object's node starts without links.
Construct(x) ==
    /\ Pool!Acquire(x)
    /\ next' = [next EXCEPT ![IL!Node(x)] = nullptr]
    /\ prev' = [prev EXCEPT ![IL!Node(x)] = nullptr]
    /\ held' = held \cup {x}
    /\ UNCHANGED <<size_, cur, contents, due>>

\* construct() returns nullptr.
ConstructFails == Pool!Exhausted /\ UNCHANGED storeVars

\* destroy() leaves the object's bytes as they are.
Destroy(x) ==
    /\ x \in held \ Linked
    /\ Pool!Release(x)
    /\ held' = held \ {x}
    /\ UNCHANGED <<next, prev, size_, cur, contents, due>>

Walking(l) == cur # NoWalk /\ cur.list = l

PutBack(l, x) ==
    /\ x \in held \ Linked
    /\ IL!InsertBack(l, x)
    /\ contents' = [contents EXCEPT ![l] = Append(@, x)]
    /\ due' = IF Walking(l) THEN Append(due, x) ELSE due
    /\ UNCHANGED <<free_stack, cur, held>>

PutFront(l, x) ==
    /\ x \in held \ Linked
    /\ IL!InsertFront(l, x)
    /\ contents' = [contents EXCEPT ![l] = <<x>> \o @]
    /\ UNCHANGED <<free_stack, cur, held, due>>

TakeOut(l, x) ==
    /\ x \in Range(contents[l])
    /\ cur # NoWalk => cur.at # IL!Node(x)
    /\ IL!RemoveNode(l, x)
    /\ contents' = [contents EXCEPT ![l] = RemoveFirst(@, x)]
    /\ due' = IF Walking(l) THEN RemoveFirst(due, x) ELSE due
    /\ UNCHANGED <<free_stack, cur, held>>

\* The loop is at address a, or ends there: it == end().
At(l, a) == IF a = IL!Tail_(l) THEN NoWalk ELSE [list |-> l, at |-> a]

\* for (T& x : list): the first object, and the next one.
BeginWalk(l) ==
    /\ cur = NoWalk
    /\ cur' = At(l, IL!BeginAt(l))
    /\ due' = contents[l]
    /\ UNCHANGED <<free_stack, next, prev, size_, held, contents>>

StepWalk ==
    /\ cur # NoWalk
    /\ cur' = At(cur.list, IL!Following(cur.at))
    /\ due' = Tail(due)
    /\ UNCHANGED <<free_stack, next, prev, size_, held, contents>>

StoreNext ==
    \/ \E x \in Pool!Slots : Construct(x) \/ Destroy(x)
    \/ ConstructFails
    \/ \E l \in Lists, x \in Pool!Slots :
          PutBack(l, x) \/ PutFront(l, x) \/ TakeOut(l, x)
    \/ \E l \in Lists : BeginWalk(l)
    \/ StepWalk

StoreSpec == StoreInit /\ [][StoreNext]_storeVars

-----------------------------------------------------------------------------
\* Type correctness of the store.
StoreTypeOK ==
    /\ free_stack \in Seq(Pool!Slots)
    /\ next \in [IL!Address -> IL!Address \cup {nullptr}]
    /\ prev \in [IL!Address -> IL!Address \cup {nullptr}]
    /\ size_ \in [Lists -> Nat]
    /\ cur \in [list : Lists, at : IL!Address] \cup {NoWalk}
    /\ held \in SUBSET Pool!Slots
    /\ contents \in [Lists -> Seq(Pool!Slots)]
    /\ due \in Seq(Pool!Slots)

\* The pool hands out each slot to one holder at a time: free and held slots
\* are apart, none is free twice, and available() is exact, so the assertion
\* in release() ("double-release") never fails for a client that keeps to it.
PoolExact ==
    /\ Pool!FreeSlots = Pool!Slots \ held
    /\ Len(free_stack) + Cardinality(held) = Capacity

\* From sentinel to sentinel each list is the sequence of what was put in and
\* not taken out, forward and backward, however objects move between lists;
\* size() is exact, and front() and back(), which trust it, are its ends.
ListsExact ==
    \A l \in Lists :
        LET c == contents[l]
            nodes == <<IL!Head_(l)>> \o [i \in 1 .. Len(c) |-> IL!Node(c[i])]
                                     \o <<IL!Tail_(l)>>
        IN  /\ \A i \in 1 .. Len(c) + 1 : /\ next[nodes[i]] = nodes[i + 1]
                                          /\ prev[nodes[i + 1]] = nodes[i]
            /\ size_[l] = Len(c)
            /\ c # <<>> => /\ IL!Front(l) = IL!Node(c[1])
                           /\ IL!Back(l) = IL!Node(c[Len(c)])
            /\ c = <<>> => IL!Front(l) = nullptr /\ IL!Back(l) = nullptr

\* The test that remove() asserts tells exactly the objects that some list
\* links, also for an object in a slot that was linked before its last release.
LinkedTest == \A x \in held : IL!LooksLinked(x) <=> x \in Linked

\* A loop visits, in order and once, what was in the list when it began or was
\* appended since, without what was removed, whatever its body moves: it is
\* never at an object that was removed or is in another list.
WalkExact ==
    cur # NoWalk =>
        /\ due # <<>> /\ cur.at = IL!Node(Head(due))
        /\ \E k \in 0 .. Len(contents[cur.list]) :
              due = SubSeq(contents[cur.list], k + 1, Len(contents[cur.list]))
============================================================================
