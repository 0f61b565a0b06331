---------------------------- MODULE MemoryPool ----------------------------
(***************************************************************************)
(* MemoryPool<T, Capacity> (include/memory_pool.hpp): a slab of Capacity   *)
(* slots and a stack of the free ones.  The module keeps the free stack    *)
(* and the two operations that change it, as conjuncts for the actions of  *)
(* the component that owns a pool; what a slot holds belongs to the owner. *)
(* construct() and destroy() are acquire() and release() with the object's *)
(* constructor and destructor, which the owner models.                     *)
(***************************************************************************)
EXTENDS Naturals, Sequences

CONSTANT Capacity

VARIABLE free_stack  \* free_stack_[0 .. free_top_ - 1], the top last

Slots == 0 .. Capacity - 1

\* The slots that acquire() may still hand out.
FreeSlots == {free_stack[i] : i \in 1 .. Len(free_stack)}

\* The constructor pushes the slots in reverse: slot 0 is served first.
PoolInit == free_stack = [i \in 1 .. Capacity |-> Capacity - i]

\* free_top_ == 0: acquire() returns nullptr.
Exhausted == Len(free_stack) = 0

\* acquire() hands out slot o, the top of the stack.  A mutant leaves it there.
AcquireTop(o) ==
    /\ ~ Exhausted
    /\ o = free_stack[Len(free_stack)]
    /\ UNCHANGED free_stack

Acquire(o) ==
    /\ ~ Exhausted
    /\ o = free_stack[Len(free_stack)]
    /\ free_stack' = SubSeq(free_stack, 1, Len(free_stack) - 1)

\* release(o): pushes o.  Its assertions (not full, owned) are the caller's
\* duty: a release build checks nothing.
Release(o) == free_stack' = Append(free_stack, o)
============================================================================
