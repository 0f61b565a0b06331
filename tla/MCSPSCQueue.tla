---------------------------- MODULE MCSPSCQueue ----------------------------
(***************************************************************************)
(* SPSCQueue for TLC: a producer that pushes MaxItems items, trying again  *)
(* when it is refused, and a consumer that polls, as in the transfer test  *)
(* of tests/test_spsc_queue.cpp.                                           *)
(***************************************************************************)
EXTENDS SPSCQueue

CONSTANT MaxItems

MCPush == Len(sent) < MaxItems /\ Push

MCNext ==
    \/ MCPush
    \/ PushWrite
    \/ PushStore
    \/ \E k \in 1 .. Len(head_) : Full(k)
    \/ Pop
    \/ PopRead
    \/ PopStore
    \/ \E k \in 1 .. Len(tail_) : Empty(k)
    \/ ShowHead
    \/ ShowTail

\* Both threads run, and every store becomes visible in the end.
Fairness ==
    /\ WF_vars(MCPush) /\ WF_vars(PushWrite) /\ WF_vars(PushStore)
    /\ WF_vars(Pop) /\ WF_vars(PopRead) /\ WF_vars(PopStore)
    /\ WF_vars(ShowHead) /\ WF_vars(ShowTail)

MCSpec == Init /\ [][MCNext]_vars /\ Fairness

\* Everything is transferred: it never happens that the producer waits for
\* room and the consumer for an item for ever, on old indices.
AllTransferred == <>(Len(received) = MaxItems)
============================================================================
