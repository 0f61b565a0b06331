----------------------------- MODULE Pipeline -----------------------------
(***************************************************************************)
(* The whole program: MarketDataGateway (include/market_data_gateway.hpp), *)
(* the inbound queue, MatchingEngine (include/matching_engine.hpp) with    *)
(* its order book, and the outbound queue.                                 *)
(*                                                                         *)
(* Four threads: the gateway's, the matching thread, one that calls stop() *)
(* and one that pops the trade reports.  Both queues are BoundedQueues,    *)
(* which SPSCQueue implements; the book is OrderBook itself, whose steps   *)
(* the matching thread takes in pcE = "book".  The counters of a thread    *)
(* are its own.                                                            *)
(***************************************************************************)
EXTENDS OrderBook, Protocol, FiniteSets

CONSTANTS
    Feed,                \* the messages that clients send
    kInboundQueueSize,
    kOutboundQueueSize,
    nullopt

\* The bytes, ids, prices and quantities a message may carry.  The feed keeps
\* to what add_order asserts, but its actions can be any byte.
Message ==
    [action : 0 .. 255, side : {0, 1}, order_id : OrderIds \cup {0},
     original_order_id : OrderIds \cup {0}, price : Price,
     quantity : Quantities \cup {0}]

Adds == {m \in Feed : m.action \in {Add, Execute}}

ASSUME FeedAssumption ==
    /\ Feed \subseteq Message
    /\ \A m \in Adds : m.order_id \in OrderIds /\ m.quantity \in Quantities
    /\ \A m \in Feed : m.action \in {Cancel, Modify} =>
            m.original_order_id \in OrderIds
    /\ kInboundQueueSize \in Nat \ {0} /\ kOutboundQueueSize \in Nat \ {0}
    /\ nullopt \notin Feed

VARIABLES
    inbound, inFreed, inFresh,     \* the inbound queue, see BoundedQueue
    inAccepted,                    \* the gateway's last try_push
    taken,                         \* the engine's last try_pop: msg
    outbound, outFreed, outFresh,  \* the outbound queue
    outAccepted, outTaken,
    pcG, msg,                      \* the gateway: where it is, its message
    accepted_frames_, dropped_frames_,
    pcE, looping,                  \* the engine: where it is, inside run()
    running_,
    msgs_processed_, trades_emitted_,
    \* history:
    meant,      \* the message the client sent in the frame being processed
    frames,     \* how many frames and orders came in
    since,      \* [frames, pushed] at the last reset_counters
    pushed,     \* the messages the inbound queue accepted
    handled,    \* the messages dispatched
    matched,    \* the trades: the report, the message it came from, its fate
    received    \* the reports popped downstream

inVars == <<inbound, inFreed, inFresh, inAccepted, taken>>
outVars == <<outbound, outFreed, outFresh, outAccepted, outTaken>>
gatewayVars == <<pcG, msg, accepted_frames_, dropped_frames_, meant, frames,
                 since, pushed>>
engineVars == <<pcE, looping, msgs_processed_, trades_emitted_, handled,
                matched>>
pvars == <<vars, inVars, outVars, gatewayVars, engineVars, running_, received>>

In == INSTANCE BoundedQueue WITH
    Items <- Feed, Room <- kInboundQueueSize - 1, queue <- inbound,
    freed <- inFreed, fresh <- inFresh, accepted <- inAccepted

Out == INSTANCE BoundedQueue WITH
    Items <- TradeReport, Room <- kOutboundQueueSize - 1, queue <- outbound,
    freed <- outFreed, fresh <- outFresh, accepted <- outAccepted,
    taken <- outTaken

PInit ==
    /\ Init
    /\ In!QInit
    /\ Out!QInit
    /\ pcG = "ready" /\ msg = nullopt
    /\ accepted_frames_ = 0 /\ dropped_frames_ = 0
    /\ pcE = "out" /\ looping = FALSE /\ running_ = FALSE
    /\ msgs_processed_ = 0 /\ trades_emitted_ = 0
    /\ meant = nullopt /\ frames = 0 /\ since = [frames |-> 0, pushed |-> 0]
    /\ pushed = <<>> /\ handled = <<>> /\ matched = <<>> /\ received = <<>>

-----------------------------------------------------------------------------
(***************************************************************************)
(* The gateway.                                                            *)
(***************************************************************************)
\* A frame or an order has come in and m is to be pushed.
Begin(m, sent) ==
    /\ pcG = "ready"
    /\ pcG' = "push"
    /\ msg' = m
    /\ meant' = sent
    /\ frames' = frames + 1
    /\ UNCHANGED <<vars, inVars, outVars, engineVars, running_, received,
                   accepted_frames_, dropped_frames_, since, pushed>>

\* A frame that does not decode is dropped.
DropFrame ==
    /\ pcG = "ready"
    /\ frames' = frames + 1
    /\ dropped_frames_' = dropped_frames_ + 1
    /\ UNCHANGED <<vars, inVars, outVars, engineVars, running_, received,
                   pcG, msg, accepted_frames_, meant, since, pushed>>

\* process_frame(f); the client that sent f meant sent.
ProcessFrame(f, sent) ==
    IF Valid(f) THEN Begin(Decode(f), sent) ELSE DropFrame

InjectOrder(m) == Begin(m, m)

\* try_push(msg) on the inbound queue, best effort.
TryPush ==
    /\ pcG = "push"
    /\ pcG' = "count"
    /\ msg' = nullopt
    /\ meant' = nullopt
    /\ \/ In!Accept(msg) /\ pushed' = Append(pushed, msg)
       \/ \E n \in 0 .. inFreed : In!RefusePush(n) /\ UNCHANGED pushed
    /\ UNCHANGED <<vars, outVars, engineVars, running_, received,
                   accepted_frames_, dropped_frames_, frames, since>>

\* The frame is counted, after the engine may have seen its message.  A
\* mutant does not count a message that found the queue full.
CountAccepted ==
    /\ accepted_frames_' = accepted_frames_ + (IF inAccepted THEN 1 ELSE 0)
    /\ UNCHANGED dropped_frames_

Count ==
    IF inAccepted
    THEN accepted_frames_' = accepted_frames_ + 1 /\ UNCHANGED dropped_frames_
    ELSE dropped_frames_' = dropped_frames_ + 1 /\ UNCHANGED accepted_frames_

CountFrame ==
    /\ pcG = "count"
    /\ pcG' = "ready"
    /\ Count
    /\ UNCHANGED <<vars, inVars, outVars, engineVars, running_, received,
                   msg, meant, frames, since, pushed>>

ResetCounters ==
    /\ pcG = "ready"
    /\ accepted_frames_' = 0
    /\ dropped_frames_' = 0
    /\ since' = [frames |-> frames, pushed |-> Len(pushed)]
    /\ UNCHANGED <<vars, inVars, outVars, engineVars, running_, received,
                   pcG, msg, meant, frames, pushed>>

Gateway ==
    \/ \E m \in Feed : ProcessFrame(Encode(m, 0), m)
    \/ \E m \in Feed : \E f \in Damaged(Encode(m, 0)) : ProcessFrame(f, nullopt)
    \/ \E m \in Feed : InjectOrder(m)
    \/ TryPush
    \/ CountFrame
    \/ ResetCounters

-----------------------------------------------------------------------------
(***************************************************************************)
(* The matching thread.                                                    *)
(***************************************************************************)
Goto(from, to) == pcE = from /\ pcE' = to

\* What the engine's steps leave alone besides the queues and the book.
Elsewhere == UNCHANGED <<gatewayVars, received>>

\* run() is called ...
Run ==
    /\ Goto("out", "enter")
    /\ looping' = TRUE
    /\ Elsewhere
    /\ UNCHANGED <<vars, inVars, outVars, running_, msgs_processed_,
                   trades_emitted_, handled, matched>>

\* ... and stores true in running_.
StoreRunning ==
    /\ Goto("enter", "test")
    /\ running_' = TRUE
    /\ Elsewhere
    /\ UNCHANGED <<vars, inVars, outVars, looping, msgs_processed_,
                   trades_emitted_, handled, matched>>

\* The loop of run(): another run_once(), or the end.  A mutant of the test
\* never ends it, another ends it at once.
GoOnAlways == TRUE

GoOnNever == FALSE

GoOn == running_

TestRunning ==
    /\ Goto("test", IF GoOn THEN "drain" ELSE "out")
    /\ looping' = GoOn
    /\ Elsewhere
    /\ UNCHANGED <<vars, inVars, outVars, running_, msgs_processed_,
                   trades_emitted_, handled, matched>>

\* run_once() called by the thread itself.
RunOnce ==
    /\ Goto("out", "drain")
    /\ Elsewhere
    /\ UNCHANGED <<vars, inVars, outVars, looping, running_,
                   msgs_processed_, trades_emitted_, handled, matched>>

\* The loop of run_once(): try_pop() returns a message, which is dispatched, or
\* nothing.  A mutant pops before it looks whether to go on.
ThenTest == IF looping /\ ~ running_ THEN "test" ELSE "dispatch"

ThenDispatch == "dispatch"

PopMessage ==
    /\ Goto("drain", ThenDispatch)
    /\ In!Take
    /\ Elsewhere
    /\ UNCHANGED <<vars, outVars, looping, running_, msgs_processed_,
                   trades_emitted_, handled, matched>>

PopNothing ==
    /\ Goto("drain", IF looping THEN "test" ELSE "out")
    /\ \E n \in 0 .. inFresh : In!RefusePop(n)
    /\ Elsewhere
    /\ UNCHANGED <<vars, outVars, looping, running_, msgs_processed_,
                   trades_emitted_, handled, matched>>

\* What add_order reads of a message.
OrderOf(m) == [order_id |-> m.order_id,
               side |-> IF m.side = Buy THEN "Buy" ELSE "Sell",
               price |-> m.price, quantity |-> m.quantity]

\* The messages that dispatch gives to add_order.  A mutant gives it all that
\* are not for the other two calls.
IsAddByDefault(m) == m.action \notin {Cancel, Modify}

IsAdd(m) == m.action \in {Add, Execute}

\* The order that a cancel or a modify is about; a mutant takes its own id.
TargetOwnId(m) == m.order_id

Target(m) == m.original_order_id

\* The call dispatch makes for m, if any: it returns at once or enters match().
\* add_order's nullptr is ignored.
Route(m) ==
    \/ /\ IsAdd(m)
       /\ \/ AddOrder(OrderOf(m)) /\ pcE' = "book"
          \/ RejectAdd /\ pcE' = "drain"
    \/ /\ m.action = Cancel
       /\ CancelOrder(Target(m)) \/ Miss(Target(m))
       /\ pcE' = "drain"
    \/ /\ m.action = Modify
       /\ \/ ModifyDown(Target(m), m.quantity) /\ pcE' = "drain"
          \/ ModifyUp(Target(m), m.quantity) /\ pcE' = "book"
          \/ Miss(Target(m)) /\ pcE' = "drain"
    \/ /\ ~ IsAdd(m) /\ m.action \notin {Cancel, Modify}
       /\ UNCHANGED vars
       /\ pcE' = "drain"

Dispatch ==
    /\ pcE = "dispatch"
    /\ msgs_processed_' = msgs_processed_ + 1
    /\ handled' = Append(handled, taken)
    /\ Route(taken)
    /\ Elsewhere
    /\ UNCHANGED <<inVars, outVars, looping, running_, trades_emitted_,
                   matched>>

\* The book works on: a fill interrupts it for the callback.
Match ==
    /\ pcE = "book"
    /\ \/ MatchStep /\ pcE' = "trade"
       \/ (UpdateBest \/ ReAdd) /\ UNCHANGED pcE
       \/ FinishAdd /\ pcE' = "drain"
    /\ Elsewhere
    /\ UNCHANGED <<inVars, outVars, looping, running_, msgs_processed_,
                   trades_emitted_, handled, matched>>

\* on_trade(report): best effort, and counted in any case.  A mutant counts
\* only the reports that fit.
OfferOnly ==
    \/ Out!Accept(report) /\ trades_emitted_' = trades_emitted_ + 1
    \/ \E n \in 0 .. outFreed : Out!RefusePush(n) /\ UNCHANGED trades_emitted_

Offer ==
    /\ trades_emitted_' = trades_emitted_ + 1
    /\ Out!Accept(report) \/ \E n \in 0 .. outFreed : Out!RefusePush(n)

OnTrade ==
    /\ Goto("trade", "book")
    /\ Offer
    /\ matched' = Append(matched, [report |-> report, at |-> Len(handled),
                                   kept |-> outAccepted'])
    /\ Elsewhere
    /\ UNCHANGED <<vars, inVars, looping, running_, msgs_processed_,
                   handled>>

\* The steps of a matching thread inside run() or run_once().
Engine ==
    \/ StoreRunning
    \/ TestRunning
    \/ PopMessage
    \/ PopNothing
    \/ Dispatch
    \/ Match
    \/ OnTrade

-----------------------------------------------------------------------------
(***************************************************************************)
(* The other threads.                                                      *)
(***************************************************************************)
\* stop(), called by another thread at any time.
Stop ==
    /\ running_' = FALSE
    /\ UNCHANGED <<vars, inVars, outVars, gatewayVars, engineVars, received>>

\* A downstream thread pops the trade reports.
ReadReport ==
    /\ \/ Out!Take /\ received' = Append(received, outTaken')
       \/ \E n \in 0 .. outFresh : Out!RefusePop(n) /\ UNCHANGED received
    /\ UNCHANGED <<vars, inVars, gatewayVars, engineVars, running_>>

\* A queue's index becomes visible to the thread at its other end.
ShowPushes ==
    /\ \E n \in 0 .. inFresh - 1 : In!NoticePushes(n)
    /\ UNCHANGED <<vars, inbound, inFreed, inAccepted, taken, outVars,
                   gatewayVars, engineVars, running_, received>>

ShowPops ==
    /\ \E n \in 0 .. inFreed - 1 : In!NoticePops(n)
    /\ UNCHANGED <<vars, inbound, inFresh, inAccepted, taken, outVars,
                   gatewayVars, engineVars, running_, received>>

ShowReports ==
    /\ \E n \in 0 .. outFresh - 1 : Out!NoticePushes(n)
    /\ UNCHANGED <<vars, inVars, outbound, outFreed, outAccepted, outTaken,
                   gatewayVars, engineVars, running_, received>>

ShowReads ==
    /\ \E n \in 0 .. outFreed - 1 : Out!NoticePops(n)
    /\ UNCHANGED <<vars, inVars, outbound, outFresh, outAccepted, outTaken,
                   gatewayVars, engineVars, running_, received>>

PNext ==
    \/ Gateway
    \/ Run
    \/ RunOnce
    \/ Engine
    \/ Stop
    \/ ReadReport
    \/ ShowPushes
    \/ ShowPops
    \/ ShowReports
    \/ ShowReads

PSpec == PInit /\ [][PNext]_pvars

\* The matching thread is scheduled, and what the gateway pushed becomes
\* visible to it in the end.
PFairness == WF_pvars(Engine) /\ WF_pvars(ShowPushes)

-----------------------------------------------------------------------------
\* Type correctness of the pipeline's own state.
PTypeOK ==
    /\ inbound \in Seq(Feed) /\ Len(inbound) + inFreed < kInboundQueueSize
    /\ inFreed \in Nat /\ inFresh \in 0 .. Len(inbound)
    /\ inAccepted \in BOOLEAN /\ taken \in Feed \cup {nullopt}
    /\ outbound \in Seq(TradeReport)
    /\ Len(outbound) + outFreed < kOutboundQueueSize
    /\ outFreed \in Nat /\ outFresh \in 0 .. Len(outbound)
    /\ outAccepted \in BOOLEAN /\ outTaken \in TradeReport \cup {nullopt}
    /\ pcG \in {"ready", "push", "count"}
    /\ msg \in Feed \cup {nullopt} /\ meant \in Feed \cup {nullopt}
    /\ pcE \in {"out", "enter", "test", "drain", "dispatch", "book", "trade"}
    /\ looping \in BOOLEAN /\ running_ \in BOOLEAN
    /\ accepted_frames_ \in Nat /\ dropped_frames_ \in Nat
    /\ msgs_processed_ \in Nat /\ trades_emitted_ \in Nat
    /\ frames \in Nat /\ since \in [frames : Nat, pushed : Nat]
    /\ pushed \in Seq(Feed) /\ handled \in Seq(Feed)
    /\ matched \in Seq([report : TradeReport, at : Nat, kept : BOOLEAN])
    /\ received \in Seq(TradeReport)

\* What is on its way to the engine is what the client encoded, field by field,
\* and no frame that is cut short or has another magic number or version gets
\* as far as the queue.
WireExact == pcG = "push" => msg = meant

\* The gateway's counters account for every frame since they were reset,
\* except for the one it is working on, although it counts a message only
\* after the engine may have processed it.
FramesAccounted ==
    LET counted == accepted_frames_ + dropped_frames_
        late == pcG = "count" /\ inAccepted
    IN  /\ frames - since.frames = counted + (IF pcG = "ready" THEN 0 ELSE 1)
        /\ Len(pushed) - since.pushed =
                accepted_frames_ + (IF late THEN 1 ELSE 0)

\* The message the engine has popped and not yet dispatched.
InHand == IF pcE = "dispatch" THEN <<taken>> ELSE <<>>

\* Every message that the gateway got accepted is dispatched once, in order,
\* or still waits its turn: nothing is lost when run() is stopped and started
\* again in the middle of the queue.
MessagesAccounted ==
    /\ pushed = handled \o InHand \o inbound
    /\ msgs_processed_ = Len(handled)

\* How many of the first n trades' reports found room in the queue.
KeptUpTo(n) == Cardinality({k \in 1 .. n : matched[k].kept})

\* Every trade of the book is emitted once; its report reaches the downstream
\* thread in the order of the trades, or it is one of those that met a full
\* queue; the emitted trades are those the book counts.
ReportsAccounted ==
    /\ LET reports == received \o outbound
       IN  /\ Len(reports) = KeptUpTo(Len(matched))
           /\ \A k \in 1 .. Len(matched) :
                 matched[k].kept => reports[KeptUpTo(k)] = matched[k].report
    /\ trades_emitted_ = Len(matched)
    /\ match_count = Len(matched) + (IF pcE = "trade" THEN 1 ELSE 0)

\* The ids that trade t names.
Parties(t) == {t.report.buy_order_id, t.report.sell_order_id}

\* An order is in the messages up to the n-th: added, and not cancelled since.
Standing(id, n) ==
    \E i \in 1 .. n :
        /\ handled[i].action \in {Add, Execute}
        /\ handled[i].order_id = id
        /\ \A j \in i + 1 .. n :
              handled[j].action = Cancel => handled[j].original_order_id # id

\* Reports follow from the messages, whatever was dropped between: each comes
\* from an add or an execute, names that order and one that was added before,
\* and never an order whose cancel the engine has processed.
ReportsFollowMessages ==
    \A k \in 1 .. Len(matched) :
        LET t == matched[k]
        IN  /\ handled[t.at].action \in {Add, Execute}
            /\ handled[t.at].order_id \in Parties(t)
            /\ Cardinality(Parties(t)) = 2
            /\ \A id \in Parties(t) : Standing(id, t.at)

\* The engine is a legal client of the order book: dispatch, whatever the action
\* byte, makes one call with arguments that the book asserts, and the engine
\* comes back for the next message when the call has returned.  What is shown
\* of OrderBook!Spec therefore holds in the whole program.
ImplementsBook == Spec
============================================================================
