---------------------------- MODULE MCPipeline ----------------------------
(***************************************************************************)
(* Pipeline for TLC: MaxFrames frames and orders come in; a client does    *)
(* not send an order again once it was accepted, and sends nothing else    *)
(* before an order was.  MCPSpec has all of the program and few frames,    *)
(* MCTrafficSpec more frames and less of the program.                      *)
(***************************************************************************)
EXTENDS Pipeline

CONSTANT MaxFrames

Order(action, side, id, quantity) ==
    [action |-> action, side |-> side, order_id |-> id,
     original_order_id |-> 0, price |-> 0, quantity |-> quantity]

Change(action, id, quantity) ==
    [action |-> action, side |-> Buy, order_id |-> 0,
     original_order_id |-> id, price |-> 0, quantity |-> quantity]

\* A buy of 2 that two sells fill one by one, a cancel and a modify of the buy
\* (an increase when it is partly filled), and an action that does not exist.
Messages ==
    {Order(Add, 1, 1, 1), Order(Add, Buy, 2, 2), Order(Execute, 1, 3, 1),
     Change(Cancel, 2, 0), Change(Modify, 2, 2), Change(9, 2, 0)}

Accepted == {pushed[i].order_id : i \in 1 .. Len(pushed)}

Bounded ==
    /\ frames' > frames =>
          /\ frames < MaxFrames
          /\ IF msg' \in Adds THEN msg'.order_id \notin Accepted
             ELSE msg' = nullopt \/ Accepted # {}
    /\ since' # since => frames = 1

MCPNext == PNext /\ Bounded

MCPSpec == PInit /\ [][MCPNext]_pvars /\ PFairness

-----------------------------------------------------------------------------
\* For longer histories: clients inject orders whose ids ascend, the thread calls
\* run_once(), and the queues and the pool are small.
Traffic ==
    {Order(Add, Buy, 1, 1), Order(Add, Buy, 2, 1), Order(Add, 1, 3, 3),
     Order(Add, Buy, 4, 1), Order(Execute, 1, 6, 1), Order(Add, 1, 7, 1),
     Change(Cancel, 2, 0)}

MCTrafficNext ==
    /\ \/ \E m \in Feed : InjectOrder(m)
       \/ TryPush
       \/ CountFrame
       \/ RunOnce
       \/ Engine
       \/ ReadReport
       \/ ShowPushes
       \/ ShowPops
       \/ ShowReports
       \/ ShowReads
    /\ Bounded
    /\ frames' > frames =>
          /\ \A i \in 1 .. Len(pushed) : msg' # pushed[i]
          /\ msg' \in Adds => \A id \in Accepted : id < msg'.order_id

MCTrafficSpec == PInit /\ [][MCTrafficNext]_pvars

-----------------------------------------------------------------------------
\* Once run() has begun to loop, a stop() ends it: run() returns, unless ever
\* new messages are pushed, for run_once looks at the queue only.
StopReturns ==
    \/ []<><<TryPush>>_pvars
    \/ (looping /\ pcE # "enter" /\ ~ running_) ~> pcE = "out"

\* While run() is not stopped, every accepted message is dispatched: when the
\* gateway has pushed its last one the engine catches up.
AllHandled ==
    \/ []<><<TryPush>>_pvars
    \/ (looping /\ running_) ~> (handled = pushed \/ ~ running_)
============================================================================
