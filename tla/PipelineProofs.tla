--------------------------- MODULE PipelineProofs ---------------------------
(***************************************************************************)
(* Theorems about Pipeline for every feed, every size of the queues and    *)
(* every book.  The book's invariant and the pipeline's hold each other    *)
(* up: that the engine's steps are the book's needs what is in the inbound *)
(* queue, and the types of the reports need what is in the book.           *)
(***************************************************************************)
EXTENDS Pipeline, OrderBookSteps

-----------------------------------------------------------------------------
(***************************************************************************)
(* Frames.                                                                 *)
(***************************************************************************)
LEMMA DecodeEncode ==
    ASSUME NEW m \in Message
    PROVE  Valid(Encode(m, 0)) /\ Decode(Encode(m, 0)) = m
<1>1. Valid(Encode(m, 0))
    BY DEF Valid, Encode, kFrameSize
<1>2. m = [action |-> m.action, side |-> m.side, order_id |-> m.order_id,
           original_order_id |-> m.original_order_id, price |-> m.price,
           quantity |-> m.quantity]
    BY DEF Message
<1>3. Decode(Encode(m, 0)) = m
    BY <1>2 DEF Encode, Decode
<1> QED BY <1>1, <1>3

LEMMA DamagedInvalid ==
    ASSUME NEW m \in Message, NEW f \in Damaged(Encode(m, 0))
    PROVE  ~ Valid(f)
BY DEF Damaged, Valid, Encode, kMagic, kVersion, kFrameSize

-----------------------------------------------------------------------------
(***************************************************************************)
(* The engine's steps on the book.                                         *)
(***************************************************************************)
\* The open quantity of an order that is found is a natural number.
LEMMA FoundOpen ==
    ASSUME IInv, NEW id \in OrderIds, Found(id)
    PROVE  Open(orders[order_map[HashSlot(id)]]) \in Nat
<1> DEFINE x == order_map[HashSlot(id)]
<1>1. x \in Slots \ Pool!FreeSlots
    BY HashType, NullFacts DEF Found, IInv, TypeOK, MapSound
<1> HIDE DEF x
<1>2. /\ orders[x].quantity \in Nat /\ orders[x].filled_quantity \in Nat
      /\ orders[x].filled_quantity <= orders[x].quantity
    BY <1>1 DEF IInv, TypeOK, OrderType, FillsSound
<1>3. Open(orders[x]) \in Nat
    BY <1>2 DEF Open
<1> QED BY <1>3 DEF x

\* Every call that dispatch makes is one of the book's.
LEMMA RouteStep ==
    ASSUME IInv, NEW m \in Feed, Route(m)
    PROVE  [Next]_vars
<1>1. m \in Message
    BY FeedAssumption
<1>2. CASE IsAdd(m) /\ AddOrder(OrderOf(m))
    <2>1. m.order_id \in OrderIds /\ m.quantity \in Quantities
        BY <1>2, FeedAssumption DEF Adds, IsAdd
    <2>2. OrderOf(m) \in AddMessage
        BY <1>1, <2>1 DEF OrderOf, AddMessage, Message, Side
    <2> QED BY <1>2, <2>2 DEF Next
<1>3. CASE RejectAdd
    BY <1>3 DEF Next
<1>4. CASE m.action \in {Cancel, Modify}
    <2>1. Target(m) \in OrderIds
        BY <1>4, FeedAssumption DEF Target
    <2>2. m.quantity \in Quantities \cup {0}
        BY <1>1 DEF Message
    <2>3. CASE CancelOrder(Target(m)) \/ Miss(Target(m))
        BY <2>1, <2>3 DEF Next
    <2>4. CASE ModifyDown(Target(m), m.quantity)
        BY <2>1, <2>2, <2>4 DEF Next
    <2>5. CASE ModifyUp(Target(m), m.quantity)
        <3>1. Open(orders[order_map[HashSlot(Target(m))]]) \in Nat
            BY <2>1, <2>5, FoundOpen DEF ModifyUp
        <3>2. m.quantity > Open(orders[order_map[HashSlot(Target(m))]])
            BY <2>5 DEF ModifyUp
        <3>3. m.quantity # 0
            BY <3>1, <3>2
        <3> QED BY <2>1, <2>2, <2>5, <3>3 DEF Next
    <2>6. ~ IsAdd(m)
        BY <1>4 DEF IsAdd, Add, Cancel, Modify, Execute
    <2> QED BY <1>4, <2>3, <2>4, <2>5, <2>6 DEF Route
<1> QED BY <1>2, <1>3, <1>4 DEF Route

\* A fill of match() reports two orders with ids of the
\* feed and is counted.
LEMMA ReportTyped ==
    ASSUME IInv, MatchStep
    PROVE  /\ report' \in TradeReport /\ report' # NoReport
           /\ match_count' = match_count + 1
<1> DEFINE o == orders[incoming]
           s == Opposite(o.side)
           p == best[s]
           x == head[<<s, p>>]
           q == IF Open(orders[x]) < Open(o) THEN Open(orders[x]) ELSE Open(o)
<1> USE NullFacts, Derived
<1>1. /\ incoming \in Slots \ Pool!FreeSlots
      /\ o \in OrderType
      /\ s \in Side /\ p \in Price /\ <<s, p>> \in Level
      /\ o.quantity > o.filled_quantity
    BY PriceFacts DEF MatchStep, CanMatch, IInv, TypeOK, PoolSound, Opposite, Side
<1>2. x # nullptr /\ Fill(x, q)
    <2>1. x # nullptr
        BY <1>1 DEF MatchStep, CanMatch, Emptied
    <2> QED BY <2>1 DEF MatchStep
<1>3. x \in Resting /\ LevelOf(x) = <<s, p>>
    BY <1>1, <1>2 DEF IInv, LinksSound, LL!WellLinked
<1>4. x \in Slots \ Pool!FreeSlots /\ orders[x] \in OrderType
    BY <1>3 DEF Resting
<1>5. /\ orders[x].id \in OrderIds /\ orders[x].price \in Price
      /\ o.id \in OrderIds
    BY <1>1, <1>4 DEF IInv, Stored
<1>6. q \in Nat
    <2>1. /\ orders[x].quantity \in Nat /\ orders[x].filled_quantity \in Nat
          /\ orders[x].filled_quantity <= orders[x].quantity
          /\ o.quantity \in Nat /\ o.filled_quantity \in Nat
        BY <1>1, <1>4 DEF OrderType, IInv, FillsSound
    <2>2. Open(orders[x]) \in Nat /\ Open(o) \in Nat
        BY <1>1, <2>1 DEF Open
    <2> QED BY <2>2
<1>7. report' = Report(orders[x], o, q) /\ match_count' = match_count + 1
    BY <1>2 DEF Fill
<1> HIDE DEF o, x, q
<1>8. report' \in TradeReport
    BY <1>5, <1>6, <1>7 DEF Report, TradeReport
<1> QED BY <1>7, <1>8, NoReportAssumption

-----------------------------------------------------------------------------
(***************************************************************************)
(* Messages that move through handled, in hand and queued.                 *)
(***************************************************************************)
LEMMA PushLast ==
    ASSUME NEW g \in Seq(Feed), NEW q \in Seq(Feed), NEW m \in Feed
    PROVE  Append(g \o q, m) = g \o Append(q, m)
<1>1. g \o q \in Seq(Feed) /\ <<m>> \in Seq(Feed)
    BY ConcatProperties
<1>2. Append(g \o q, m) = (g \o q) \o <<m>> /\ Append(q, m) = q \o <<m>>
    BY <1>1, AppendIsConcat
<1>3. (g \o q) \o <<m>> = g \o (q \o <<m>>)
    <2> DEFINE e == <<m>>
    <2>1. e \in Seq(Feed)
        BY <1>1
    <2> HIDE DEF e
    <2>2. (g \o q) \o e = g \o (q \o e)
        BY <2>1, ConcatAssociative
    <2> QED BY <2>2 DEF e
<1> QED BY <1>2, <1>3

LEMMA TakeFirst ==
    ASSUME NEW h \in Seq(Feed), NEW q \in Seq(Feed), q # <<>>
    PROVE  h \o <<>> \o q = h \o <<Head(q)>> \o Tail(q)
<1>1. /\ Head(q) \in Feed /\ Tail(q) \in Seq(Feed) /\ <<Head(q)>> \in Seq(Feed)
      /\ q = <<Head(q)>> \o Tail(q)
    OBVIOUS
<1>2. h \o <<>> = h
    BY ConcatEmptySeq
<1>3. h \o <<Head(q)>> \o Tail(q) = h \o (<<Head(q)>> \o Tail(q))
    BY <1>1, ConcatAssociative
<1> QED BY <1>1, <1>2, <1>3

LEMMA HandOver ==
    ASSUME NEW h \in Seq(Feed), NEW q \in Seq(Feed), NEW m \in Feed
    PROVE  h \o <<m>> \o q = Append(h, m) \o <<>> \o q
<1>1. Append(h, m) \in Seq(Feed) /\ Append(h, m) = h \o <<m>>
    BY AppendIsConcat, AppendProperties
<1>2. Append(h, m) \o <<>> = Append(h, m)
    BY <1>1, ConcatEmptySeq
<1> QED BY <1>1, <1>2

-----------------------------------------------------------------------------
(***************************************************************************)
(* The invariant: what each thread has in hand besides what it accounts    *)
(* for.                                                                    *)
(***************************************************************************)
AtHand ==
    /\ pcG = "push" => msg \in Feed
    /\ pcE = "dispatch" => taken \in Feed
    /\ pcE = "trade" => report \in TradeReport

PipeInv ==
    /\ PTypeOK
    /\ AtHand
    /\ WireExact
    /\ FramesAccounted
    /\ MessagesAccounted

\* The type of each part of the state.
InType ==
    /\ inbound \in Seq(Feed) /\ Len(inbound) + inFreed < kInboundQueueSize
    /\ inFreed \in Nat /\ inFresh \in 0 .. Len(inbound)
    /\ inAccepted \in BOOLEAN /\ taken \in Feed \cup {nullopt}

OutType ==
    /\ outbound \in Seq(TradeReport)
    /\ Len(outbound) + outFreed < kOutboundQueueSize
    /\ outFreed \in Nat /\ outFresh \in 0 .. Len(outbound)
    /\ outAccepted \in BOOLEAN /\ outTaken \in TradeReport \cup {nullopt}

GatewayType ==
    /\ pcG \in {"ready", "push", "count"}
    /\ msg \in Feed \cup {nullopt} /\ meant \in Feed \cup {nullopt}
    /\ accepted_frames_ \in Nat /\ dropped_frames_ \in Nat
    /\ frames \in Nat /\ since \in [frames : Nat, pushed : Nat]
    /\ pushed \in Seq(Feed)

Trade == [report : TradeReport, at : Nat, kept : BOOLEAN]

EngineType ==
    /\ pcE \in {"out", "enter", "test", "drain", "dispatch", "book", "trade"}
    /\ looping \in BOOLEAN
    /\ msgs_processed_ \in Nat /\ trades_emitted_ \in Nat
    /\ handled \in Seq(Feed) /\ matched \in Seq(Trade)

OtherType == running_ \in BOOLEAN /\ received \in Seq(TradeReport)

LEMMA TypeParts ==
    /\ PTypeOK <=> InType /\ OutType /\ GatewayType /\ EngineType /\ OtherType
    /\ PTypeOK' <=> InType' /\ OutType' /\ GatewayType' /\ EngineType'
                           /\ OtherType'
BY DEF PTypeOK, InType, OutType, GatewayType, EngineType, OtherType, Trade

LEMMA Numbers ==
    ASSUME GatewayType
    PROVE  /\ frames \in Nat /\ since.frames \in Nat /\ since.pushed \in Nat
           /\ accepted_frames_ \in Nat /\ dropped_frames_ \in Nat
           /\ Len(pushed) \in Nat
BY DEF GatewayType

\* A part that a step leaves alone keeps its type.
LEMMA Stays ==
    /\ InType /\ UNCHANGED inVars => InType'
    /\ OutType /\ UNCHANGED outVars => OutType'
    /\ GatewayType /\ UNCHANGED gatewayVars => GatewayType'
    /\ EngineType /\ UNCHANGED engineVars => EngineType'
    /\ OtherType /\ UNCHANGED <<running_, received>> => OtherType'
BY DEF InType, OutType, GatewayType, EngineType, OtherType, inVars, outVars,
       gatewayVars, engineVars

LEMMA PipeInit ==
    ASSUME PInit
    PROVE  PipeInv
<1>1. InType /\ OutType
    BY FeedAssumption DEF PInit, In!QInit, Out!QInit, InType, OutType
<1>2. GatewayType
    <2>1. since \in [frames : Nat, pushed : Nat]
        BY DEF PInit
    <2> QED BY <2>1 DEF PInit, GatewayType
<1>3. EngineType /\ OtherType
    <2>1. <<>> \in Seq(Feed) /\ <<>> \in Seq(Trade) /\ <<>> \in Seq(TradeReport)
        BY EmptySeq
    <2> QED BY <2>1 DEF PInit, EngineType, OtherType
<1>4. AtHand /\ WireExact /\ FramesAccounted
    BY DEF PInit, AtHand, WireExact, FramesAccounted
<1>5. <<>> = <<>> \o <<>> \o <<>>
    BY ConcatEmptySeq, EmptySeq
<1>6. MessagesAccounted
    BY <1>5 DEF PInit, In!QInit, MessagesAccounted, InHand
<1> QED BY <1>1, <1>2, <1>3, <1>4, <1>6, TypeParts DEF PipeInv

\* Steps that leave the engine and the queues alone, and what was pushed.
LEMMA OnlyGateway ==
    ASSUME PipeInv, UNCHANGED <<vars, inVars, outVars, engineVars, running_,
                                received, pushed>>,
           GatewayType'
    PROVE  /\ PTypeOK' /\ MessagesAccounted'
           /\ (pcG' = "push" => msg' \in Feed) => AtHand'
<1>1. PTypeOK'
    BY Stays, TypeParts DEF PipeInv
<1>2. MessagesAccounted'
    BY DEF PipeInv, MessagesAccounted, InHand, inVars, engineVars
<1>3. (pcG' = "push" => msg' \in Feed) => AtHand'
    BY DEF PipeInv, AtHand, inVars, engineVars, vars
<1> QED BY <1>1, <1>2, <1>3

\* A message comes in by either way.
LEMMA BeginStep ==
    ASSUME PipeInv, NEW m \in Feed, Begin(m, m)
    PROVE  PipeInv'
<1>1. GatewayType'
    BY TypeParts DEF PipeInv, Begin, GatewayType
<1>2. WireExact' /\ msg' \in Feed
    BY DEF Begin, WireExact
<1>3. PTypeOK' /\ MessagesAccounted' /\ AtHand'
    BY <1>1, <1>2, OnlyGateway DEF Begin
<1>4. FramesAccounted'
    BY TypeParts DEF PipeInv, Begin, inVars, FramesAccounted, GatewayType
<1> QED BY <1>2, <1>3, <1>4 DEF PipeInv

LEMMA DropStep ==
    ASSUME PipeInv, DropFrame
    PROVE  PipeInv'
<1>1. GatewayType'
    BY TypeParts DEF PipeInv, DropFrame, GatewayType
<1>2. WireExact' /\ pcG' = "ready"
    BY DEF DropFrame, WireExact
<1>3. PTypeOK' /\ MessagesAccounted' /\ AtHand'
    BY <1>1, <1>2, OnlyGateway DEF DropFrame
<1>4. FramesAccounted'
    <2>1. /\ pcG = "ready" /\ pcG' = "ready"
          /\ frames' = frames + 1 /\ dropped_frames_' = dropped_frames_ + 1
          /\ UNCHANGED <<accepted_frames_, since, pushed>>
        BY DEF DropFrame
    <2>2. GatewayType /\ FramesAccounted
        BY TypeParts DEF PipeInv
    <2>3. /\ frames - since.frames = accepted_frames_ + dropped_frames_
          /\ Len(pushed) - since.pushed = accepted_frames_
        BY <2>1, <2>2, Numbers DEF FramesAccounted
    <2>4. /\ frames' - since.frames = accepted_frames_ + dropped_frames_'
          /\ Len(pushed) - since.pushed = accepted_frames_
        <3>1. /\ frames \in Nat /\ since.frames \in Nat
              /\ accepted_frames_ \in Nat /\ dropped_frames_ \in Nat
            BY <2>2, Numbers
        <3> QED BY <2>1, <2>3, <3>1
    <2> QED BY <2>1, <2>2, <2>4, Numbers DEF FramesAccounted
<1> QED BY <1>2, <1>3, <1>4 DEF PipeInv

LEMMA CountStep ==
    ASSUME PipeInv, CountFrame
    PROVE  PipeInv'
<1>1. GatewayType'
    BY TypeParts DEF PipeInv, CountFrame, Count, GatewayType
<1>2. WireExact' /\ pcG' = "ready"
    BY DEF CountFrame, WireExact
<1>3. PTypeOK' /\ MessagesAccounted' /\ AtHand'
    BY <1>1, <1>2, OnlyGateway DEF CountFrame
<1>4. FramesAccounted'
    <2>1. GatewayType
        BY TypeParts DEF PipeInv
    <2>2. /\ frames - since.frames = accepted_frames_ + dropped_frames_ + 1
          /\ Len(pushed) - since.pushed =
                accepted_frames_ + (IF inAccepted THEN 1 ELSE 0)
        BY <2>1, Numbers DEF PipeInv, CountFrame, FramesAccounted
    <2>3. /\ accepted_frames_' = accepted_frames_ + (IF inAccepted THEN 1 ELSE 0)
          /\ dropped_frames_' = dropped_frames_ + (IF inAccepted THEN 0 ELSE 1)
          /\ UNCHANGED <<frames, since, pushed>>
        BY <2>1, Numbers DEF CountFrame, Count
    <2>4. frames - since.frames = accepted_frames_' + dropped_frames_'
        BY <2>1, <2>2, <2>3, Numbers
    <2>5. Len(pushed) - since.pushed = accepted_frames_'
        BY <2>2, <2>3
    <2> QED BY <1>2, <2>3, <2>4, <2>5 DEF FramesAccounted
<1> QED BY <1>2, <1>3, <1>4 DEF PipeInv

LEMMA ResetStep ==
    ASSUME PipeInv, ResetCounters
    PROVE  PipeInv'
<1>1. GatewayType'
    BY TypeParts DEF PipeInv, ResetCounters, GatewayType
<1>2. WireExact' /\ pcG' = "ready"
    BY DEF ResetCounters, WireExact
<1>3. PTypeOK' /\ MessagesAccounted' /\ AtHand'
    BY <1>1, <1>2, OnlyGateway DEF ResetCounters
<1>4. FramesAccounted'
    BY TypeParts DEF PipeInv, ResetCounters, inVars, FramesAccounted,
                     GatewayType
<1> QED BY <1>2, <1>3, <1>4 DEF PipeInv

LEMMA TryPushStep ==
    ASSUME PipeInv, TryPush
    PROVE  PipeInv'
<1>1. /\ InType /\ OutType /\ GatewayType /\ EngineType /\ OtherType
      /\ msg \in Feed /\ pcG = "push" /\ pcG' = "count"
    BY TypeParts DEF PipeInv, AtHand, TryPush
<1>2. /\ pushed' \in Seq(Feed) /\ InType' /\ FramesAccounted'
      /\ MessagesAccounted'
    <2>1. UNCHANGED <<accepted_frames_, dropped_frames_, frames, since>>
        BY DEF TryPush
    <2>2. CASE In!Accept(msg) /\ pushed' = Append(pushed, msg)
        <3>1. /\ inbound' \in Seq(Feed) /\ Len(inbound') = Len(inbound) + 1
              /\ pushed' \in Seq(Feed) /\ Len(pushed') = Len(pushed) + 1
            BY <1>1, <2>2 DEF In!Accept, InType, GatewayType
        <3>2. InType'
            BY <1>1, <2>2, <3>1, FeedAssumption DEF In!Accept, InType
        <3>3. inAccepted' = TRUE
            BY <2>2 DEF In!Accept
        <3>4. FramesAccounted'
            <4>0. FramesAccounted /\ pcG # "ready" /\ pcG # "count"
                BY <1>1 DEF PipeInv
            <4>1. /\ frames - since.frames
                        = accepted_frames_ + dropped_frames_ + 1
                  /\ Len(pushed) - since.pushed = accepted_frames_
                BY <1>1, <4>0, Numbers DEF FramesAccounted
            <4>2. Len(pushed') - since.pushed = accepted_frames_ + 1
                <5>1. Len(pushed) \in Nat /\ since.pushed \in Nat
                      /\ accepted_frames_ \in Nat
                    BY <1>1, Numbers
                <5>2. Len(pushed') = Len(pushed) + 1
                    BY <3>1
                <5> QED BY <4>1, <5>1, <5>2
            <4>3. pcG' = "count"
                BY <1>1
            <4> QED BY <2>1, <3>3, <4>1, <4>2, <4>3 DEF FramesAccounted
        <3>5. /\ handled \in Seq(Feed) /\ InHand \in Seq(Feed)
              /\ inbound \in Seq(Feed)
            BY <1>1 DEF PipeInv, AtHand, InType, EngineType, InHand
        <3>6. pushed = handled \o InHand \o inbound
            BY DEF PipeInv, MessagesAccounted
        <3>7. inbound' = Append(inbound, msg)
            BY <2>2 DEF In!Accept
        <3>8. pushed' = handled \o InHand \o inbound'
            <4>1. msg \in Feed
                BY <1>1
            <4>2. handled \o InHand \in Seq(Feed)
                BY <3>5, ConcatProperties
            <4>3. Append(handled \o InHand \o inbound, msg)
                        = handled \o InHand \o Append(inbound, msg)
                BY <3>5, <4>1, <4>2, PushLast
            <4> QED BY <2>2, <3>6, <3>7, <4>3
        <3>9. MessagesAccounted'
            BY <2>2, <3>8 DEF PipeInv, MessagesAccounted, InHand, In!Accept,
                              TryPush, engineVars
        <3> QED BY <3>1, <3>2, <3>4, <3>9
    <2>3. CASE (\E n \in 0 .. inFreed : In!RefusePush(n)) /\ UNCHANGED pushed
        <3>1. /\ UNCHANGED <<inbound, inFresh, taken>>
              /\ inFreed' \in 0 .. inFreed /\ inAccepted' = FALSE
            BY <2>3 DEF In!RefusePush, In!NoticePops
        <3>2. InType'
            <4>1. /\ kInboundQueueSize \in Nat /\ Len(inbound) \in Nat
                  /\ inFreed \in Nat /\ inFreed' \in Nat /\ inFreed' <= inFreed
                BY <1>1, <3>1, FeedAssumption DEF InType
            <4>2. Len(inbound) + inFreed' < kInboundQueueSize
                <5>1. Len(inbound) + inFreed < kInboundQueueSize
                    BY <1>1 DEF InType
                <5> QED BY <4>1, <5>1
            <4> QED BY <1>1, <3>1, <4>1, <4>2 DEF InType
        <3>3. FramesAccounted'
            BY <1>1, <2>1, <2>3, <3>1 DEF PipeInv, FramesAccounted, GatewayType
        <3>4. MessagesAccounted'
            BY <2>3, <3>1 DEF PipeInv, MessagesAccounted, InHand, TryPush,
                              engineVars
        <3> QED BY <1>1, <2>3, <3>2, <3>3, <3>4 DEF GatewayType
    <2> QED BY <2>2, <2>3 DEF TryPush
<1>3. GatewayType'
    BY <1>1, <1>2 DEF TryPush, GatewayType
<1>4. PTypeOK'
    BY <1>1, <1>2, <1>3, Stays, TypeParts DEF TryPush
<1>5. taken' = taken \/ pcE' # "dispatch"
    BY DEF TryPush, In!Accept, In!RefusePush
<1>6. AtHand' /\ WireExact'
    BY <1>1, <1>5 DEF PipeInv, AtHand, WireExact, TryPush, engineVars, vars
<1> QED BY <1>2, <1>4, <1>6 DEF PipeInv

LEMMA GatewayStep ==
    ASSUME PipeInv, Gateway
    PROVE  PipeInv' /\ UNCHANGED vars
<1>1. Feed \subseteq Message
    BY FeedAssumption
<1>2. CASE \E m \in Feed : ProcessFrame(Encode(m, 0), m) \/ InjectOrder(m)
    <2> PICK m \in Feed : Begin(m, m)
        BY <1>1, <1>2, DecodeEncode DEF ProcessFrame, InjectOrder
    <2> QED BY BeginStep DEF Begin
<1>3. CASE \E m \in Feed : \E f \in Damaged(Encode(m, 0)) :
                ProcessFrame(f, nullopt)
    <2>1. DropFrame
        BY <1>1, <1>3, DamagedInvalid DEF ProcessFrame
    <2> QED BY <2>1, DropStep DEF DropFrame
<1>4. CASE TryPush
    BY <1>4, TryPushStep DEF TryPush
<1>5. CASE CountFrame \/ ResetCounters
    BY <1>5, CountStep, ResetStep DEF CountFrame, ResetCounters
<1> QED BY <1>2, <1>3, <1>4, <1>5 DEF Gateway

-----------------------------------------------------------------------------
(***************************************************************************)
(* The matching thread's steps.                                            *)
(***************************************************************************)
\* The gateway does not move, and keeps its last answer.
LEMMA GatewayStays ==
    ASSUME PipeInv, UNCHANGED gatewayVars, inAccepted' = inAccepted
    PROVE  /\ GatewayType' /\ WireExact' /\ FramesAccounted'
           /\ pcG' = "push" => msg' \in Feed
<1>1. GatewayType'
    BY Stays, TypeParts DEF PipeInv
<1>2. WireExact' /\ FramesAccounted' /\ (pcG' = "push" => msg' \in Feed)
    BY DEF PipeInv, WireExact, FramesAccounted, AtHand, gatewayVars
<1> QED BY <1>1, <1>2

\* The engine goes from one place to another.
LEMMA MoveStep ==
    ASSUME PipeInv, Run \/ StoreRunning \/ TestRunning \/ RunOnce
    PROVE  PipeInv' /\ UNCHANGED vars
<1>1. /\ UNCHANGED <<vars, inVars, outVars, gatewayVars, msgs_processed_,
                     trades_emitted_, handled, matched, received>>
      /\ pcE \in {"out", "enter", "test"}
      /\ pcE' \in {"out", "enter", "test", "drain"}
    BY DEF Run, StoreRunning, TestRunning, RunOnce, Goto, Elsewhere
<1>2. running_' \in BOOLEAN /\ looping' \in BOOLEAN
    BY TypeParts DEF PipeInv, Run, StoreRunning, TestRunning, RunOnce, GoOn,
                     EngineType, OtherType
<1>3. EngineType' /\ OtherType'
    BY <1>1, <1>2, TypeParts DEF PipeInv, EngineType, OtherType
<1>4. inAccepted' = inAccepted
    BY <1>1 DEF inVars
<1>5. GatewayType' /\ WireExact' /\ FramesAccounted'
      /\ (pcG' = "push" => msg' \in Feed)
    BY <1>1, <1>4, GatewayStays
<1>6. PTypeOK'
    BY <1>1, <1>3, <1>5, Stays, TypeParts DEF PipeInv
<1>7. AtHand'
    BY <1>1, <1>5 DEF AtHand
<1>8. MessagesAccounted'
    BY <1>1 DEF PipeInv, MessagesAccounted, InHand, inVars, gatewayVars
<1> QED BY <1>1, <1>5, <1>6, <1>7, <1>8 DEF PipeInv

LEMMA PopMessageStep ==
    ASSUME PipeInv, PopMessage
    PROVE  PipeInv' /\ UNCHANGED vars
<1>1. /\ UNCHANGED <<vars, outVars, gatewayVars, looping, running_,
                     msgs_processed_, trades_emitted_, handled, matched,
                     received>>
      /\ pcE = "drain" /\ pcE' = "dispatch"
    BY DEF PopMessage, Goto, Elsewhere, ThenDispatch
<1>2. /\ Len(inbound) > inFresh
      /\ taken' = Head(inbound) /\ inbound' = Tail(inbound)
      /\ inFreed' = inFreed + 1
      /\ UNCHANGED <<inFresh, inAccepted>>
    BY DEF PopMessage, In!Take
<1>3. InType /\ EngineType
    BY TypeParts DEF PipeInv
<1>4. inbound # <<>>
    BY <1>2, <1>3 DEF InType
<1>5. /\ taken' \in Feed /\ inbound' \in Seq(Feed)
      /\ Len(inbound') = Len(inbound) - 1
    BY <1>2, <1>3, <1>4, HeadTailProperties DEF InType
<1>6. InType'
    BY <1>2, <1>3, <1>5 DEF InType
<1>7. EngineType'
    BY <1>1, <1>3 DEF EngineType
<1>8. GatewayType' /\ WireExact' /\ FramesAccounted'
      /\ (pcG' = "push" => msg' \in Feed)
    BY <1>1, <1>2, GatewayStays
<1>9. PTypeOK'
    BY <1>1, <1>6, <1>7, <1>8, Stays, TypeParts DEF PipeInv
<1>10. AtHand'
    BY <1>1, <1>5, <1>8 DEF AtHand
<1>11. handled \o <<>> \o inbound = handled \o <<Head(inbound)>> \o Tail(inbound)
    BY <1>3, <1>4, TakeFirst DEF InType, EngineType
<1>12. MessagesAccounted'
    BY <1>1, <1>2, <1>11 DEF PipeInv, MessagesAccounted, InHand, gatewayVars
<1> QED BY <1>1, <1>8, <1>9, <1>10, <1>12 DEF PipeInv

LEMMA PopNothingStep ==
    ASSUME PipeInv, PopNothing
    PROVE  PipeInv' /\ UNCHANGED vars
<1>1. /\ UNCHANGED <<vars, outVars, gatewayVars, looping, running_,
                     msgs_processed_, trades_emitted_, handled, matched,
                     received>>
      /\ pcE = "drain" /\ pcE' \in {"test", "out"}
    BY DEF PopNothing, Goto, Elsewhere
<1>2. /\ UNCHANGED <<inbound, inFreed, inAccepted>>
      /\ taken' = nullopt /\ inFresh' \in 0 .. inFresh
    BY DEF PopNothing, In!RefusePop, In!NoticePushes
<1>3. InType /\ EngineType
    BY TypeParts DEF PipeInv
<1>4. InType'
    <2>1. inFresh' \in 0 .. Len(inbound)
        BY <1>2, <1>3 DEF InType
    <2> QED BY <1>2, <1>3, <2>1 DEF InType
<1>5. EngineType'
    BY <1>1, <1>3 DEF EngineType
<1>6. GatewayType' /\ WireExact' /\ FramesAccounted'
      /\ (pcG' = "push" => msg' \in Feed)
    BY <1>1, <1>2, GatewayStays
<1>7. PTypeOK'
    BY <1>1, <1>4, <1>5, <1>6, Stays, TypeParts DEF PipeInv
<1>8. AtHand'
    BY <1>1, <1>6 DEF AtHand
<1>9. MessagesAccounted'
    BY <1>1, <1>2 DEF PipeInv, MessagesAccounted, InHand, gatewayVars
<1> QED BY <1>1, <1>6, <1>7, <1>8, <1>9 DEF PipeInv

LEMMA DispatchStep ==
    ASSUME IInv, PipeInv, Dispatch
    PROVE  PipeInv' /\ [Next]_vars
<1>1. /\ UNCHANGED <<inVars, outVars, gatewayVars, looping, running_,
                     trades_emitted_, matched, received>>
      /\ pcE = "dispatch" /\ pcE' \in {"drain", "book"}
      /\ msgs_processed_' = msgs_processed_ + 1
      /\ handled' = Append(handled, taken)
      /\ Route(taken)
    BY DEF Dispatch, Elsewhere, Route
<1>2. InType /\ EngineType /\ taken \in Feed
    BY <1>1, TypeParts DEF PipeInv, AtHand
<1>3. [Next]_vars
    BY <1>1, <1>2, RouteStep
<1>4. EngineType'
    BY <1>1, <1>2, AppendProperties DEF EngineType
<1>5. GatewayType' /\ WireExact' /\ FramesAccounted'
      /\ (pcG' = "push" => msg' \in Feed)
    BY <1>1, GatewayStays DEF inVars
<1>6. PTypeOK'
    BY <1>1, <1>4, <1>5, Stays, TypeParts DEF PipeInv
<1>7. AtHand'
    BY <1>1, <1>5 DEF AtHand
<1>8. handled \o <<taken>> \o inbound = handled' \o <<>> \o inbound
    BY <1>1, <1>2, HandOver DEF InType, EngineType
<1>9. msgs_processed_' = Len(handled')
    BY <1>1, <1>2 DEF PipeInv, MessagesAccounted, EngineType
<1>10. MessagesAccounted'
    BY <1>1, <1>8, <1>9 DEF PipeInv, MessagesAccounted, InHand, inVars,
                            gatewayVars
<1> QED BY <1>3, <1>5, <1>6, <1>7, <1>10 DEF PipeInv

LEMMA MatchingStep ==
    ASSUME IInv, PipeInv, Match
    PROVE  PipeInv' /\ [Next]_vars
<1>1. /\ UNCHANGED <<inVars, outVars, gatewayVars, looping, running_,
                     msgs_processed_, trades_emitted_, handled, matched,
                     received>>
      /\ pcE = "book" /\ pcE' \in {"book", "trade", "drain"}
    BY DEF Match, Elsewhere
<1>2. [Next]_vars
    BY DEF Match, Next
<1>3. pcE' = "trade" => report' \in TradeReport
    BY ReportTyped DEF Match
<1>4. EngineType'
    BY <1>1, TypeParts DEF PipeInv, EngineType
<1>5. GatewayType' /\ WireExact' /\ FramesAccounted'
      /\ (pcG' = "push" => msg' \in Feed)
    BY <1>1, GatewayStays DEF inVars
<1>6. PTypeOK'
    BY <1>1, <1>4, <1>5, Stays, TypeParts DEF PipeInv
<1>7. AtHand'
    BY <1>1, <1>3, <1>5 DEF AtHand
<1>8. MessagesAccounted'
    BY <1>1 DEF PipeInv, MessagesAccounted, InHand, inVars, gatewayVars
<1> QED BY <1>2, <1>5, <1>6, <1>7, <1>8 DEF PipeInv

LEMMA OnTradeStep ==
    ASSUME PipeInv, OnTrade
    PROVE  PipeInv' /\ UNCHANGED vars
<1>1. /\ UNCHANGED <<vars, inVars, gatewayVars, looping, running_,
                     msgs_processed_, handled, received>>
      /\ pcE = "trade" /\ pcE' = "book"
      /\ trades_emitted_' = trades_emitted_ + 1
      /\ matched' = Append(matched, [report |-> report, at |-> Len(handled),
                                     kept |-> outAccepted'])
    BY DEF OnTrade, Goto, Elsewhere, Offer
<1>2. OutType /\ EngineType /\ report \in TradeReport
    BY <1>1, TypeParts DEF PipeInv, AtHand
<1>3. OutType'
    <2>1. kOutboundQueueSize \in Nat
        BY FeedAssumption
    <2>2. CASE Out!Accept(report)
        <3>1. /\ outbound' \in Seq(TradeReport)
              /\ Len(outbound') = Len(outbound) + 1
            BY <1>2, <2>2, AppendProperties DEF Out!Accept, OutType
        <3> QED BY <1>2, <2>1, <2>2, <3>1 DEF Out!Accept, OutType
    <2>3. CASE \E n \in 0 .. outFreed : Out!RefusePush(n)
        <3>1. /\ UNCHANGED <<outbound, outFresh, outTaken>>
              /\ outFreed' \in 0 .. outFreed /\ outAccepted' = FALSE
            BY <2>3 DEF Out!RefusePush, Out!NoticePops
        <3>2. /\ Len(outbound) \in Nat /\ outFreed \in Nat
              /\ outFreed' \in Nat /\ outFreed' <= outFreed
              /\ Len(outbound) + outFreed < kOutboundQueueSize
            BY <1>2, <3>1 DEF OutType
        <3>3. Len(outbound) + outFreed' < kOutboundQueueSize
            BY <2>1, <3>2
        <3> QED BY <1>2, <3>1, <3>2, <3>3 DEF OutType
    <2> QED BY <2>2, <2>3 DEF OnTrade, Offer
<1>4. EngineType'
    <2>1. [report |-> report, at |-> Len(handled), kept |-> outAccepted']
            \in Trade
        BY <1>2, <1>3 DEF OutType, EngineType, Trade
    <2>2. matched' \in Seq(Trade)
        BY <1>1, <1>2, <2>1, AppendProperties DEF EngineType
    <2> QED BY <1>1, <1>2, <2>2 DEF EngineType
<1>5. GatewayType' /\ WireExact' /\ FramesAccounted'
      /\ (pcG' = "push" => msg' \in Feed)
    BY <1>1, GatewayStays DEF inVars
<1>6. PTypeOK'
    BY <1>1, <1>3, <1>4, <1>5, Stays, TypeParts DEF PipeInv
<1>7. AtHand'
    BY <1>1, <1>5 DEF AtHand
<1>8. MessagesAccounted'
    BY <1>1 DEF PipeInv, MessagesAccounted, InHand, inVars, gatewayVars
<1> QED BY <1>1, <1>5, <1>6, <1>7, <1>8 DEF PipeInv

LEMMA EngineStep ==
    ASSUME IInv, PipeInv, Engine
    PROVE  PipeInv' /\ [Next]_vars
BY MoveStep, PopMessageStep, PopNothingStep, DispatchStep, MatchingStep,
   OnTradeStep DEF Engine

-----------------------------------------------------------------------------
(***************************************************************************)
(* The other threads' steps.                                               *)
(***************************************************************************)
LEMMA StopStep ==
    ASSUME PipeInv, Stop
    PROVE  PipeInv' /\ UNCHANGED vars
<1>1. /\ UNCHANGED <<vars, inVars, outVars, gatewayVars, engineVars, received>>
      /\ running_' = FALSE
    BY DEF Stop
<1>2. GatewayType' /\ WireExact' /\ FramesAccounted'
      /\ (pcG' = "push" => msg' \in Feed)
    BY <1>1, GatewayStays DEF inVars
<1>3. OtherType'
    BY <1>1, TypeParts DEF PipeInv, OtherType
<1>4. PTypeOK'
    BY <1>1, <1>3, Stays, TypeParts DEF PipeInv
<1>5. AtHand'
    BY <1>1, <1>2 DEF PipeInv, AtHand, inVars, engineVars, vars
<1>6. MessagesAccounted'
    BY <1>1 DEF PipeInv, MessagesAccounted, InHand, inVars, gatewayVars,
                engineVars
<1> QED BY <1>1, <1>2, <1>4, <1>5, <1>6 DEF PipeInv

\* Steps at the far end of the outbound queue.
LEMMA OnlyReports ==
    ASSUME PipeInv, UNCHANGED <<vars, inVars, gatewayVars, engineVars, running_>>,
           OutType', received' \in Seq(TradeReport)
    PROVE  PipeInv' /\ UNCHANGED vars
<1>1. GatewayType' /\ WireExact' /\ FramesAccounted'
      /\ (pcG' = "push" => msg' \in Feed)
    BY GatewayStays DEF inVars
<1>2. OtherType'
    BY TypeParts DEF PipeInv, OtherType
<1>3. PTypeOK'
    BY <1>2, Stays, TypeParts DEF PipeInv
<1>4. AtHand'
    BY <1>1 DEF PipeInv, AtHand, inVars, engineVars, vars
<1>5. MessagesAccounted'
    BY DEF PipeInv, MessagesAccounted, InHand, inVars, gatewayVars, engineVars
<1> QED BY <1>1, <1>3, <1>4, <1>5 DEF PipeInv

LEMMA ReadReportStep ==
    ASSUME PipeInv, ReadReport
    PROVE  PipeInv' /\ UNCHANGED vars
<1>1. UNCHANGED <<vars, inVars, gatewayVars, engineVars, running_>>
    BY DEF ReadReport
<1>2. OutType /\ OtherType
    BY TypeParts DEF PipeInv
<1>3. CASE Out!Take /\ received' = Append(received, outTaken')
    <2>1. /\ Len(outbound) > outFresh
          /\ outTaken' = Head(outbound) /\ outbound' = Tail(outbound)
          /\ outFreed' = outFreed + 1 /\ UNCHANGED <<outFresh, outAccepted>>
        BY <1>3 DEF Out!Take
    <2>2. outbound # <<>>
        BY <1>2, <2>1 DEF OutType
    <2>3. /\ outTaken' \in TradeReport /\ outbound' \in Seq(TradeReport)
          /\ Len(outbound') = Len(outbound) - 1
        BY <1>2, <2>1, <2>2, HeadTailProperties DEF OutType
    <2>4. OutType'
        BY <1>2, <2>1, <2>3, FeedAssumption DEF OutType
    <2>5. received' \in Seq(TradeReport)
        BY <1>2, <1>3, <2>3, AppendProperties DEF OtherType
    <2> QED BY <1>1, <2>4, <2>5, OnlyReports
<1>4. CASE (\E n \in 0 .. outFresh : Out!RefusePop(n)) /\ UNCHANGED received
    <2>1. /\ UNCHANGED <<outbound, outFreed, outAccepted>>
          /\ outTaken' = nullopt /\ outFresh' \in 0 .. outFresh
        BY <1>4 DEF Out!RefusePop, Out!NoticePushes
    <2>2. outFresh' \in 0 .. Len(outbound)
        BY <1>2, <2>1 DEF OutType
    <2>3. OutType'
        BY <1>2, <2>1, <2>2 DEF OutType
    <2> QED BY <1>1, <1>2, <1>4, <2>3, OnlyReports DEF OtherType
<1> QED BY <1>3, <1>4 DEF ReadReport

\* An index of the outbound queue becomes visible.
LEMMA ShowOutStep ==
    ASSUME PipeInv, ShowReports \/ ShowReads
    PROVE  PipeInv' /\ UNCHANGED vars
<1>1. /\ UNCHANGED <<vars, inVars, gatewayVars, engineVars, running_, received,
                     outbound, outAccepted, outTaken>>
      /\ \/ outFresh' \in 0 .. outFresh - 1 /\ UNCHANGED outFreed
         \/ outFreed' \in 0 .. outFreed - 1 /\ UNCHANGED outFresh
    BY DEF ShowReports, ShowReads, Out!NoticePushes, Out!NoticePops
<1>2. OutType /\ OtherType
    BY TypeParts DEF PipeInv
<1>3. /\ Len(outbound) \in Nat /\ kOutboundQueueSize \in Nat
      /\ outFreed \in Nat /\ outFresh \in 0 .. Len(outbound)
      /\ Len(outbound) + outFreed < kOutboundQueueSize
    BY <1>2, FeedAssumption DEF OutType
<1>4. /\ outFreed' \in Nat /\ outFresh' \in 0 .. Len(outbound)
      /\ Len(outbound) + outFreed' < kOutboundQueueSize
    BY <1>1, <1>3
<1>5. OutType'
    BY <1>1, <1>2, <1>4 DEF OutType
<1> QED BY <1>1, <1>2, <1>5, OnlyReports DEF OtherType

\* An index of the inbound queue becomes visible.
LEMMA ShowInStep ==
    ASSUME PipeInv, ShowPushes \/ ShowPops
    PROVE  PipeInv' /\ UNCHANGED vars
<1>1. /\ UNCHANGED <<vars, outVars, gatewayVars, engineVars, running_, received,
                     inbound, inAccepted, taken>>
      /\ \/ inFresh' \in 0 .. inFresh - 1 /\ UNCHANGED inFreed
         \/ inFreed' \in 0 .. inFreed - 1 /\ UNCHANGED inFresh
    BY DEF ShowPushes, ShowPops, In!NoticePushes, In!NoticePops
<1>2. InType
    BY TypeParts DEF PipeInv
<1>3. /\ Len(inbound) \in Nat /\ kInboundQueueSize \in Nat
      /\ inFreed \in Nat /\ inFresh \in 0 .. Len(inbound)
      /\ Len(inbound) + inFreed < kInboundQueueSize
    BY <1>2, FeedAssumption DEF InType
<1>4. /\ inFreed' \in Nat /\ inFresh' \in 0 .. Len(inbound)
      /\ Len(inbound) + inFreed' < kInboundQueueSize
    BY <1>1, <1>3
<1>5. InType'
    BY <1>1, <1>2, <1>4 DEF InType
<1>6. GatewayType' /\ WireExact' /\ FramesAccounted'
      /\ (pcG' = "push" => msg' \in Feed)
    BY <1>1, GatewayStays
<1>7. PTypeOK'
    BY <1>1, <1>5, Stays, TypeParts DEF PipeInv
<1>8. AtHand'
    BY <1>1, <1>6 DEF PipeInv, AtHand, engineVars, vars
<1>9. MessagesAccounted'
    BY <1>1 DEF PipeInv, MessagesAccounted, InHand, gatewayVars, engineVars
<1> QED BY <1>1, <1>6, <1>7, <1>8, <1>9 DEF PipeInv

LEMMA AnyStep ==
    ASSUME IInv, PipeInv, [PNext]_pvars
    PROVE  IInv' /\ PipeInv' /\ [Next]_vars
<1>1. CASE UNCHANGED pvars
    <2>1. /\ UNCHANGED <<vars, outVars, gatewayVars, engineVars, running_,
                         received>>
          /\ UNCHANGED inVars
        BY <1>1 DEF pvars
    <2>2. OutType' /\ received' \in Seq(TradeReport)
        BY <2>1, Stays, TypeParts DEF PipeInv, OtherType
    <2>3. PipeInv' /\ UNCHANGED vars
        BY <2>1, <2>2, OnlyReports
    <2> QED BY <2>3, NextInv
<1>2. CASE PNext
    <2>1. PipeInv' /\ [Next]_vars
        BY <1>2, GatewayStep, MoveStep, EngineStep, StopStep, ReadReportStep,
           ShowOutStep, ShowInStep DEF PNext
    <2> QED BY <2>1, NextInv
<1> QED BY <1>1, <1>2

LEMMA PipelineInvariant == PSpec => [](IInv /\ PipeInv)
<1>1. PInit => IInv /\ PipeInv
    BY InitInv, PipeInit DEF PInit
<1>2. IInv /\ PipeInv /\ [PNext]_pvars => (IInv /\ PipeInv)'
    BY AnyStep
<1> QED BY <1>1, <1>2, PTL DEF PSpec

-----------------------------------------------------------------------------
(***************************************************************************)
(* The theorems.                                                           *)
(***************************************************************************)
\* The engine only makes the calls that the book allows, one at a time, and the
\* callback leaves the book alone: dispatch, run_once and on_trade implement
\* a legal client of add_order, cancel_order and modify_order.
THEOREM EngineIsClient == PSpec => ImplementsBook
<1>1. PInit => Init
    BY DEF PInit
<1>2. IInv /\ PipeInv /\ [PNext]_pvars => [Next]_vars
    BY AnyStep
<1> QED BY <1>1, <1>2, PipelineInvariant, PTL DEF PSpec, ImplementsBook, Spec

\* In the whole program, under drops, stops and stale indices, the book's
\* structures agree, it is never crossed, and trades keep their priority.  The
\* best prices are as BestExact says, so on_trade may be called while one still
\* names the level that the fill has emptied.
THEOREM BookHoldsInProgram ==
    PSpec => /\ [](PoolSound /\ LinksSound /\ MapSound)
             /\ [](BestExact /\ FillsSound /\ NotCrossed)
             /\ TradePriority
             /\ ModifyNeverTrades
<1>1. PSpec => Spec
    BY EngineIsClient DEF ImplementsBook
<1> QED BY <1>1, PoolIsSound, ListsAreSound, MapIsSound, BestIsExact,
           FillsAreSound, NeverCrossed, PriorityHolds, ModifyIsQuiet, PTL

\* Messages, reports, counters and places keep their types.
THEOREM PipelineTypeCorrect == PSpec => []PTypeOK
<1>1. PipeInv => PTypeOK
    BY DEF PipeInv
<1> QED BY <1>1, PipelineInvariant, PTL

\* What process_frame pushes is what encode was given, and frames that are cut
\* short or carry another magic number or version get nowhere.
THEOREM WireIsExact == PSpec => []WireExact
<1>1. PipeInv => WireExact
    BY DEF PipeInv
<1> QED BY <1>1, PipelineInvariant, PTL

\* accepted_frames_ and dropped_frames_ account for every frame since
\* reset_counters, one behind at most.
THEOREM FramesAreAccounted == PSpec => []FramesAccounted
<1>1. PipeInv => FramesAccounted
    BY DEF PipeInv
<1> QED BY <1>1, PipelineInvariant, PTL

\* run_once dispatches what was accepted once and in order, over stops,
\* restarts and stale indices.
THEOREM MessagesAreAccounted == PSpec => []MessagesAccounted
<1>1. PipeInv => MessagesAccounted
    BY DEF PipeInv
<1> QED BY <1>1, PipelineInvariant, PTL
-----------------------------------------------------------------------------
(***************************************************************************)
(* Trade reports.                                                          *)
(***************************************************************************)
\* The steps that neither dispatch, nor match, nor move a report.
LEMMA QuietSteps ==
    ASSUME PipeInv, [PNext]_pvars
    PROVE  \/ Dispatch \/ Match \/ OnTrade \/ ReadReport
           \/ /\ UNCHANGED <<vars, trades_emitted_, handled, matched, outbound,
                             received>>
              /\ pcE' = "trade" <=> pcE = "trade"
              /\ pcE' = "book" <=> pcE = "book"
<1> DEFINE Quiet == /\ UNCHANGED <<vars, trades_emitted_, handled, matched,
                                   outbound, received>>
                    /\ pcE' = "trade" <=> pcE = "trade"
                    /\ pcE' = "book" <=> pcE = "book"
<1>1. CASE UNCHANGED pvars
    BY <1>1 DEF pvars, engineVars, outVars
<1>2. CASE Gateway
    <2>1. UNCHANGED <<vars, outVars, engineVars, received>>
        BY <1>2 DEF Gateway, ProcessFrame, InjectOrder, Begin, DropFrame, TryPush,
                    CountFrame, ResetCounters
    <2> QED BY <2>1 DEF outVars, engineVars
<1>3. CASE Run \/ RunOnce \/ StoreRunning \/ TestRunning
    BY <1>3 DEF Run, RunOnce, StoreRunning, TestRunning, Goto, Elsewhere, outVars
<1>4. CASE PopMessage \/ PopNothing
    BY <1>4 DEF PopMessage, PopNothing, Goto, Elsewhere, outVars, ThenDispatch
<1>5. CASE Stop \/ ShowPushes \/ ShowPops
    BY <1>5 DEF Stop, ShowPushes, ShowPops, outVars, engineVars
<1>6. CASE ShowReports \/ ShowReads
    BY <1>6 DEF ShowReports, ShowReads, engineVars
<1> QED BY <1>1, <1>2, <1>3, <1>4, <1>5, <1>6 DEF PNext, Engine

\* How many of the first n trades of m are kept: this grows by one with each
\* that is, and only then.
KeptIn(m, n) == Cardinality({k \in 1 .. n : m[k].kept})

LEMMA KeptCounts ==
    ASSUME NEW m \in Seq(Trade)
    PROVE  /\ \A n \in 0 .. Len(m) : KeptIn(m, n) \in Nat
           /\ \A n \in 1 .. Len(m) :
                KeptIn(m, n) = KeptIn(m, n - 1) + (IF m[n].kept THEN 1 ELSE 0)
           /\ \A n \in 1 .. Len(m) : KeptIn(m, n) <= KeptIn(m, Len(m))
<1> DEFINE K(n) == {k \in 1 .. n : m[k].kept}
<1>0. \A n : KeptIn(m, n) = Cardinality(K(n))
    BY DEF KeptIn
<1>1. ASSUME NEW n \in 0 .. Len(m)
      PROVE  IsFiniteSet(K(n)) /\ Cardinality(K(n)) \in Nat
    <2>1. n \in Int /\ 1 \in Int /\ IsFiniteSet(1 .. n)
        BY FS_Interval
    <2> QED BY <2>1, FS_Subset, FS_CardinalityType
<1>2. ASSUME NEW n \in 1 .. Len(m)
      PROVE  KeptIn(m, n) = KeptIn(m, n - 1) + (IF m[n].kept THEN 1 ELSE 0)
    <2>1. /\ n - 1 \in 0 .. Len(m) /\ 1 .. n = (1 .. n - 1) \cup {n}
          /\ n \notin 1 .. n - 1
        OBVIOUS
    <2>2. IsFiniteSet(K(n - 1)) /\ Cardinality(K(n - 1)) \in Nat
        BY <1>1, <2>1
    <2>3. CASE m[n].kept
        <3>1. K(n) = K(n - 1) \cup {n} /\ n \notin K(n - 1)
            BY <2>1, <2>3
        <3>2. Cardinality(K(n)) = Cardinality(K(n - 1)) + 1
            BY <2>2, <3>1, FS_AddElement
        <3> HIDE DEF K
        <3> QED BY <1>0, <2>3, <3>2
    <2>4. CASE ~ m[n].kept
        <3>1. K(n) = K(n - 1)
            BY <2>1, <2>4
        <3> HIDE DEF K
        <3> QED BY <1>0, <2>2, <2>4, <3>1
    <2> QED BY <2>3, <2>4
<1>3. ASSUME NEW n \in 1 .. Len(m)
      PROVE  Cardinality(K(n)) <= Cardinality(K(Len(m)))
    <2>1. K(n) \subseteq K(Len(m)) /\ Len(m) \in 0 .. Len(m)
        OBVIOUS
    <2> QED BY <1>1, <2>1, FS_Subset
<1> HIDE DEF K
<1> QED BY <1>0, <1>1, <1>2, <1>3

\* What ReportsAccounted says of the reports.
DeliveredAs(m, r) ==
    /\ Len(r) = KeptIn(m, Len(m))
    /\ \A k \in 1 .. Len(m) : m[k].kept => r[KeptIn(m, k)] = m[k].report

Delivered == DeliveredAs(matched, received \o outbound)

\* on_trade puts a kept report at the end.
LEMMA DeliverNext ==
    ASSUME NEW m \in Seq(Trade), NEW r \in Seq(TradeReport), DeliveredAs(m, r),
           NEW t \in Trade
    PROVE  DeliveredAs(Append(m, t), IF t.kept THEN Append(r, t.report) ELSE r)
<1> DEFINE u == Append(m, t)
           s == IF t.kept THEN Append(r, t.report) ELSE r
           n == Len(m)
<1>1. n \in Nat /\ u \in Seq(Trade) /\ Len(u) = n + 1 /\ u[n + 1] = t
      /\ \A k \in 1 .. n : u[k] = m[k]
    BY AppendProperties
<1>2. /\ Len(s) = Len(r) + (IF t.kept THEN 1 ELSE 0) /\ Len(r) \in Nat
      /\ \A k \in 1 .. Len(r) : s[k] = r[k]
      /\ t.kept => s[Len(r) + 1] = t.report
    BY DEF Trade
<1> HIDE DEF u, s
<1>3. /\ Len(r) = KeptIn(m, n)
      /\ \A k \in 1 .. n : m[k].kept => r[KeptIn(m, k)] = m[k].report
    BY DEF DeliveredAs
<1>4. ASSUME NEW k \in 0 .. n
      PROVE  KeptIn(u, k) = KeptIn(m, k)
    <2>1. \A j \in 1 .. k : j \in 1 .. n
        BY <1>1
    <2>2. {j \in 1 .. k : u[j].kept} = {j \in 1 .. k : m[j].kept}
        BY <1>1, <2>1
    <2> QED BY <2>2 DEF KeptIn
<1> HIDE DEF n
<1>5. KeptIn(u, n + 1) = KeptIn(m, n) + (IF t.kept THEN 1 ELSE 0)
    <2>1. n + 1 \in 1 .. Len(u) /\ n + 1 - 1 = n /\ n \in 0 .. n
        BY <1>1
    <2>2. KeptIn(u, n + 1) = KeptIn(u, n + 1 - 1)
                                + (IF u[n + 1].kept THEN 1 ELSE 0)
        <3>1. u \in Seq(Trade)
            BY <1>1
        <3> QED BY <2>1, <3>1, KeptCounts
    <2> QED BY <1>1, <1>4, <2>1, <2>2
<1>6. ASSUME NEW k \in 1 .. n, m[k].kept
      PROVE  KeptIn(m, k) \in 1 .. Len(r)
    <2>1. k \in 1 .. Len(m) /\ k - 1 \in 0 .. Len(m) /\ k \in 0 .. Len(m)
        BY <1>1 DEF n
    <2>2. KeptIn(m, k) = KeptIn(m, k - 1) + 1 /\ KeptIn(m, k - 1) \in Nat
        BY <1>6, <2>1, KeptCounts
    <2>3. KeptIn(m, k) <= Len(r)
        BY <1>3, <2>1, KeptCounts DEF n
    <2> QED BY <1>2, <2>2, <2>3
<1>7. ASSUME NEW k \in 1 .. n + 1, u[k].kept
      PROVE  s[KeptIn(u, k)] = u[k].report
    <2>1. CASE k \in 1 .. n
        <3>1. KeptIn(u, k) = KeptIn(m, k) /\ u[k] = m[k]
            BY <1>1, <1>4, <2>1
        <3> QED BY <1>2, <1>3, <1>6, <1>7, <2>1, <3>1
    <2>2. CASE k = n + 1
        <3>1. KeptIn(u, k) = Len(r) + 1
            BY <1>1, <1>3, <1>5, <1>7, <2>2
        <3> QED BY <1>1, <1>2, <1>7, <2>2, <3>1
    <2>3. k \in 1 .. n \/ k = n + 1
        BY <1>1
    <2> QED BY <2>1, <2>2, <2>3
<1>8. Len(s) = KeptIn(u, n + 1)
    BY <1>2, <1>3, <1>5
<1> QED BY <1>1, <1>7, <1>8 DEF DeliveredAs, u, s

Counted ==
    /\ trades_emitted_ = Len(matched)
    /\ match_count = Len(matched) + (IF pcE = "trade" THEN 1 ELSE 0)

LEMMA ReportsStep ==
    ASSUME IInv, PipeInv, PipeInv', [PNext]_pvars, Delivered, Counted
    PROVE  Delivered' /\ Counted'
<1>1. /\ OutType /\ EngineType /\ OtherType
      /\ OutType' /\ EngineType' /\ OtherType'
    BY TypeParts DEF PipeInv
<1>2. /\ matched \in Seq(Trade) /\ matched' \in Seq(Trade)
      /\ received \in Seq(TradeReport) /\ outbound \in Seq(TradeReport)
      /\ received \o outbound \in Seq(TradeReport)
    BY <1>1, ConcatProperties DEF EngineType, OutType, OtherType
<1>3. CASE UNCHANGED <<trades_emitted_, matched, outbound, received>>
    <2>1. Delivered'
        BY <1>3 DEF Delivered
    <2>2. trades_emitted_' = Len(matched')
        BY <1>3 DEF Counted
    <2>3. CASE match_count' = match_count /\ (pcE' = "trade" <=> pcE = "trade")
        BY <1>3, <2>1, <2>2, <2>3 DEF Counted
    <2>4. CASE match_count' = match_count + 1 /\ pcE = "book" /\ pcE' = "trade"
        BY <1>2, <1>3, <2>1, <2>2, <2>4 DEF Counted
    <2>5. CASE Dispatch
        <3>1. pcE = "dispatch" /\ pcE' # "trade" /\ match_count' = match_count
            BY <2>5 DEF Dispatch, Route, AddOrder, BeginAdd, RejectAdd, CancelOrder,
                        Unbook, Miss, ModifyDown, ModifyUp, vars, statVars
        <3> QED BY <2>3, <3>1
    <2>6. CASE Match
        <3>1. CASE MatchStep
            <4>1. match_count' = match_count + 1 /\ pcE = "book" /\ pcE' = "trade"
                BY <2>6, <3>1, ReportTyped DEF Match, MatchStep, UpdateBest, ReAdd, FinishAdd
            <4> QED BY <2>4, <4>1
        <3>2. CASE ~ MatchStep
            <4>1. match_count' = match_count /\ pcE = "book" /\ pcE' # "trade"
                BY <2>6, <3>2 DEF Match, UpdateBest, ReAdd, BeginAdd, FinishAdd, statVars
            <4> QED BY <2>3, <4>1
        <3> QED BY <3>1, <3>2
    <2>7. CASE ~ (Dispatch \/ Match \/ OnTrade \/ ReadReport)
        BY <2>3, <2>7, QuietSteps DEF vars, statVars
    <2>8. CASE OnTrade
        BY <1>2, <1>3, <2>8 DEF OnTrade, Offer, Counted
    <2>9. CASE ReadReport
        BY <2>3, <2>9 DEF ReadReport, vars, statVars, engineVars
    <2> QED BY <2>5, <2>6, <2>7, <2>8, <2>9
<1>4. CASE OnTrade
    <2> DEFINE t == [report |-> report, at |-> Len(handled), kept |-> outAccepted']
    <2>1. /\ UNCHANGED <<vars, received>> /\ pcE = "trade" /\ pcE' = "book"
          /\ trades_emitted_' = trades_emitted_ + 1 /\ matched' = Append(matched, t)
        BY <1>4 DEF OnTrade, Goto, Elsewhere, Offer
    <2>2. report \in TradeReport /\ t \in Trade
        BY <1>1, <2>1 DEF PipeInv, AtHand, EngineType, OutType, Trade
    <2>3. (received \o outbound)' = IF t.kept
                                    THEN Append(received \o outbound, t.report)
                                    ELSE received \o outbound
        <3>1. CASE Out!Accept(report)
            <4>1. outbound' = Append(outbound, report) /\ t.kept = TRUE
                BY <3>1 DEF Out!Accept
            <4>2. <<report>> \in Seq(TradeReport)
                BY <2>2
            <4>3. /\ Append(outbound, report) = outbound \o <<report>>
                  /\ Append(received \o outbound, report)
                        = received \o outbound \o <<report>>
                BY <1>2, <2>2, AppendIsConcat
            <4>4. received \o (outbound \o <<report>>)
                        = received \o outbound \o <<report>>
                BY <1>2, <4>2, ConcatAssociative
            <4> QED BY <2>1, <4>1, <4>3, <4>4
        <3>2. CASE \E n \in 0 .. outFreed : Out!RefusePush(n)
            <4>1. outbound' = outbound /\ t.kept = FALSE
                BY <3>2 DEF Out!RefusePush
            <4> QED BY <2>1, <4>1
        <3> QED BY <1>4, <3>1, <3>2 DEF OnTrade, Offer
    <2> HIDE DEF t
    <2>4. Delivered'
        BY <1>2, <2>1, <2>2, <2>3, DeliverNext DEF Delivered
    <2>5. Len(matched') = Len(matched) + 1 /\ Len(matched) \in Nat
        BY <1>2, <2>1
    <2>6. match_count' = match_count
        BY <2>1 DEF vars, statVars
    <2> QED BY <2>1, <2>4, <2>5, <2>6 DEF Counted
<1>5. CASE ReadReport /\ Out!Take /\ received' = Append(received, outTaken')
    <2>1. /\ outTaken' = Head(outbound) /\ outbound' = Tail(outbound)
          /\ outbound # <<>>
        BY <1>1, <1>5 DEF Out!Take, OutType
    <2>2. UNCHANGED <<vars, engineVars>>
        BY <1>5 DEF ReadReport
    <2>3. (received \o outbound)' = received \o outbound
        <3>1. /\ Head(outbound) \in TradeReport /\ Tail(outbound) \in Seq(TradeReport)
              /\ <<Head(outbound)>> \in Seq(TradeReport)
              /\ outbound = <<Head(outbound)>> \o Tail(outbound)
            BY <1>2, <2>1
        <3>2. Append(received, Head(outbound)) = received \o <<Head(outbound)>>
            BY <1>2, <3>1, AppendIsConcat
        <3>3. received \o <<Head(outbound)>> \o Tail(outbound)
                = received \o (<<Head(outbound)>> \o Tail(outbound))
            BY <1>2, <3>1, ConcatAssociative
        <3> QED BY <1>5, <2>1, <3>1, <3>2, <3>3
    <2>4. Delivered'
        BY <2>2, <2>3 DEF Delivered, engineVars
    <2>5. Counted'
        BY <2>2 DEF Counted, engineVars, vars, statVars
    <2> QED BY <2>4, <2>5
<1>6. CASE UNCHANGED <<trades_emitted_, matched, outbound, received>>
           \/ OnTrade \/ ReadReport
    <2>1. CASE ReadReport /\ ~ (Out!Take /\ received' = Append(received, outTaken'))
        <3>1. UNCHANGED <<trades_emitted_, matched, outbound, received>>
            BY <2>1 DEF ReadReport, Out!RefusePop, engineVars
        <3> QED BY <1>3, <3>1
    <2> QED BY <1>3, <1>4, <1>5, <1>6, <2>1
<1>7. CASE Dispatch \/ Match
    BY <1>6, <1>7 DEF Dispatch, Match, Elsewhere, outVars
<1> QED BY <1>6, <1>7, QuietSteps

\* Downstream, the reports are the trades in order without those that met a
\* full queue, and on_trade and the book agree on how many trades there were.
THEOREM ReportsAreAccounted == PSpec => []ReportsAccounted
<1>1. PInit => Delivered /\ Counted
    <2> SUFFICES ASSUME PInit
                 PROVE  Delivered /\ Counted
        OBVIOUS
    <2>1. /\ matched = <<>> /\ received = <<>> /\ outbound = <<>>
          /\ trades_emitted_ = 0 /\ match_count = 0 /\ pcE = "out"
        BY DEF PInit, Out!QInit, Init
    <2>2. /\ Len(matched) = 0 /\ 1 .. 0 = {} /\ received \o outbound = <<>>
        BY <2>1
    <2>3. KeptIn(matched, 0) = 0
        BY <2>2, FS_EmptySet DEF KeptIn
    <2>4. Len(received \o outbound) = 0
        BY <2>2
    <2> QED BY <2>1, <2>2, <2>3, <2>4 DEF Delivered, DeliveredAs, Counted
<1>2. IInv /\ PipeInv /\ Delivered /\ Counted /\ [PNext]_pvars
        => (Delivered /\ Counted)'
    BY AnyStep, ReportsStep
<1>3. Delivered /\ Counted => ReportsAccounted
    BY DEF Delivered, DeliveredAs, KeptIn, KeptUpTo, Counted, ReportsAccounted
<1> QED BY <1>1, <1>2, <1>3, PipelineInvariant, PTL DEF PSpec

-----------------------------------------------------------------------------
(***************************************************************************)
(* Reports follow messages.  This needs something of the clients: that no  *)
(* order is sent twice, and that what is cancelled or modified does not    *)
(* meet another order in the map (run id_collision shows what happens when *)
(* it does).                                                               *)
(***************************************************************************)
Targets == {Target(m) : m \in {n \in Feed : n.action \in {Cancel, Modify}}}

TargetsApart ==
    \A t \in Targets : \A m \in Adds :
        HashSlot(m.order_id) = HashSlot(t) => m.order_id = t

OrdersOnce ==
    \A i, j \in 1 .. Len(pushed) :
        /\ pushed[i] \in Adds /\ pushed[j] \in Adds
        /\ pushed[i].order_id = pushed[j].order_id
        => i = j

\* Standing, of any sequence of messages.
StandingIn(h, id, n) ==
    \E i \in 1 .. n :
        /\ h[i].action \in {Add, Execute}
        /\ h[i].order_id = id
        /\ \A j \in i + 1 .. n :
              h[j].action = Cancel => h[j].original_order_id # id

LEMMA StandingGrows ==
    ASSUME NEW h \in Seq(Feed), NEW m \in Feed
    PROVE  /\ \A id : \A k \in 0 .. Len(h) :
                StandingIn(Append(h, m), id, k) <=> StandingIn(h, id, k)
           /\ \A id : /\ StandingIn(h, id, Len(h))
                      /\ ~ (m.action = Cancel /\ m.original_order_id = id)
                      => StandingIn(Append(h, m), id, Len(h) + 1)
           /\ m \in Adds => StandingIn(Append(h, m), m.order_id, Len(h) + 1)
<1> DEFINE g == Append(h, m)
           n == Len(h)
<1>1. n \in Nat /\ g[n + 1] = m /\ \A i \in 1 .. n : g[i] = h[i]
    OBVIOUS
<1> HIDE DEF g, n
<1>2. ASSUME NEW id, NEW k \in 0 .. n
      PROVE  StandingIn(g, id, k) <=> StandingIn(h, id, k)
    <2>1. /\ \A i \in 1 .. k : i \in 1 .. n
          /\ \A i \in 1 .. k : \A j \in i + 1 .. k : j \in 1 .. n
        BY <1>1
    <2> QED BY <1>1, <2>1 DEF StandingIn
<1>3. ASSUME NEW id, StandingIn(h, id, n),
             ~ (m.action = Cancel /\ m.original_order_id = id)
      PROVE  StandingIn(g, id, n + 1)
    <2>1. PICK i \in 1 .. n :
            /\ h[i].action \in {Add, Execute} /\ h[i].order_id = id
            /\ \A j \in i + 1 .. n :
                  h[j].action = Cancel => h[j].original_order_id # id
        BY <1>3 DEF StandingIn
    <2>2. /\ i \in 1 .. n + 1
          /\ \A j \in i + 1 .. n + 1 : j \in i + 1 .. n \/ j = n + 1
          /\ \A j \in i + 1 .. n : j \in 1 .. n
        BY <1>1
    <2>3. \A j \in i + 1 .. n + 1 : g[j].action = Cancel => g[j].original_order_id # id
        BY <1>1, <1>3, <2>1, <2>2
    <2>4. g[i].action \in {Add, Execute} /\ g[i].order_id = id
        BY <1>1, <2>1
    <2> QED BY <2>2, <2>3, <2>4 DEF StandingIn
<1>4. m \in Adds => StandingIn(g, m.order_id, n + 1)
    <2>1. n + 1 \in 1 .. n + 1 /\ \A j \in n + 1 + 1 .. n + 1 : FALSE
        BY <1>1
    <2> QED BY <1>1, <2>1 DEF StandingIn, Adds
<1> QED BY <1>2, <1>3, <1>4 DEF g, n

\* Who is standing was added by a message.
LEMMA StandingAdded ==
    ASSUME NEW h \in Seq(Feed), NEW id, StandingIn(h, id, Len(h))
    PROVE  \E i \in 1 .. Len(h) : h[i] \in Adds /\ h[i].order_id = id
BY DEF StandingIn, Adds

AddedIds == {m.order_id : m \in Adds}

-----------------------------------------------------------------------------
(***************************************************************************)
(* The orders of the book and the ids of the feed.                         *)
(***************************************************************************)
OrdersApart == \A x, y \in Live : orders[x].id = orders[y].id => x = y

TargetsMapped ==
    \A x \in Live : orders[x].id \in Targets =>
        order_map[HashSlot(orders[x].id)] = x

OrdersKnown == OrdersApart /\ TargetsMapped /\ \A x \in Live : orders[x].id \in AddedIds

\* Orders stay, or leave, with their ids.
LiveStays ==
    /\ Live' \subseteq Live
    /\ \A x \in Live' : orders'[x].id = orders[x].id

LEMMA StaysApart ==
    ASSUME OrdersKnown, LiveStays
    PROVE  /\ OrdersApart'
           /\ \A x \in Live' : orders'[x].id \in AddedIds
           /\ order_map' = order_map => OrdersKnown'
BY DEF OrdersKnown, OrdersApart, TargetsMapped, LiveStays

\* Clearing the entry of an order that left does not touch a target's entry.
LEMMA UnmapSound ==
    ASSUME TargetsApart, IInv, OrdersKnown, LiveStays,
           NEW x \in Live, x \notin Live', Unmap(orders[x].id)
    PROVE  OrdersKnown'
<1>1. ASSUME NEW y \in Live', orders[y].id \in Targets
      PROVE  order_map'[HashSlot(orders[y].id)] = y
    <2>1. y \in Live /\ y # x
        BY DEF LiveStays
    <2>2. PICK m \in Adds : m.order_id = orders[x].id
        BY DEF OrdersKnown, AddedIds
    <2>3. orders[x].id # orders[y].id
        BY <2>1 DEF OrdersKnown, OrdersApart
    <2>4. HashSlot(orders[x].id) # HashSlot(orders[y].id)
        BY <1>1, <2>2, <2>3 DEF TargetsApart
    <2>5. order_map[HashSlot(orders[y].id)] = y
        BY <1>1, <2>1 DEF OrdersKnown, TargetsMapped
    <2>6. HashSlot(orders[y].id) \in DOMAIN order_map
        BY <2>1, BookFacts, HashType DEF Live, IInv, TypeOK
    <2> QED BY <2>4, <2>5, <2>6 DEF Unmap
<1>2. TargetsMapped'
    BY <1>1 DEF TargetsMapped, LiveStays
<1> QED BY <1>2, StaysApart DEF OrdersKnown

\* add_order makes an order live that is new.
LEMMA AddSound ==
    ASSUME TargetsApart, IInv, OrdersKnown, incoming = nullptr,
           NEW sent \in AddMessage, NEW o, BeginAdd(sent, o),
           sent.order_id \in AddedIds,
           \A x \in Live : orders[x].id # sent.order_id
    PROVE  /\ OrdersKnown'
           /\ Live' = Live \cup {o} /\ incoming' = o /\ readd' = readd
           /\ orders'[o].id = sent.order_id
           /\ \A x \in Live : orders'[x].id = orders[x].id
<1>1. /\ o \in Slots \ Resting /\ Resting' = Resting /\ incoming' = o
      /\ readd' = readd
      /\ \A x \in Slots \ {o} : orders'[x] = orders[x]
      /\ orders'[o].id = sent.order_id
      /\ order_map' = [order_map EXCEPT ![HashSlot(sent.order_id)] = o]
    BY AddEffect
<1>2. Live = Resting /\ Live' = Live \cup {o} /\ o \notin Live
    BY <1>1, NullFacts DEF Live
<1>3. \A x \in Live : x \in Slots \ {o} /\ orders'[x] = orders[x]
    BY <1>1, <1>2, BookFacts
<1>4. OrdersApart'
    BY <1>1, <1>2, <1>3 DEF OrdersKnown, OrdersApart
<1>5. \A x \in Live' : orders'[x].id \in AddedIds
    BY <1>1, <1>2, <1>3 DEF OrdersKnown
<1>6. ASSUME NEW x \in Live', orders'[x].id \in Targets
      PROVE  order_map'[HashSlot(orders'[x].id)] = x
    <2>1. HashSlot(orders'[x].id) \in DOMAIN order_map
        BY <1>1, <1>2, <1>3, BookFacts, HashType DEF IInv, TypeOK, AddMessage
    <2>2. CASE x = o
        BY <1>1, <2>1, <2>2
    <2>3. CASE x # o
        <3>1. x \in Live /\ orders'[x] = orders[x] /\ orders[x].id # sent.order_id
            BY <1>2, <1>3, <2>3
        <3>2. PICK m \in Adds : m.order_id = sent.order_id
            BY DEF AddedIds
        <3>3. HashSlot(sent.order_id) # HashSlot(orders[x].id)
            BY <1>6, <3>1, <3>2 DEF TargetsApart
        <3> QED BY <1>1, <1>6, <2>1, <3>1, <3>3 DEF OrdersKnown, TargetsMapped
    <2> QED BY <2>2, <2>3
<1>7. TargetsMapped'
    BY <1>6 DEF TargetsMapped
<1> QED BY <1>1, <1>2, <1>3, <1>4, <1>5, <1>7 DEF OrdersKnown

\* A cancel of an order that is found.
LEMMA CancelSound ==
    ASSUME TargetsApart, IInv, OrdersKnown, incoming = nullptr,
           NEW id \in OrderIds, Found(id), Unbook(id)
    PROVE  /\ OrdersKnown' /\ LiveStays /\ incoming' = nullptr
           /\ \E x \in Live : orders[x].id = id
           /\ \A x \in Live' : orders'[x].id # id
<1>1. PICK x : x = order_map[HashSlot(id)]
    OBVIOUS
<1>2. /\ x \in Resting /\ orders[x].id = id /\ Resting' = Resting \ {x}
      /\ \A y \in Slots \ {x} : orders'[y] = orders[y]
      /\ Unmap(id) /\ incoming' = nullptr
    BY <1>1, UnbookEffect
<1>3. Live = Resting /\ Live' = Live \ {x}
    BY <1>2 DEF Live
<1>4. LiveStays
    BY <1>2, <1>3, BookFacts DEF LiveStays
<1>5. OrdersKnown'
    BY <1>2, <1>3, <1>4, UnmapSound
<1>6. \A y \in Live' : orders'[y].id # id
    BY <1>2, <1>3, <1>4 DEF LiveStays, OrdersKnown, OrdersApart
<1> QED BY <1>2, <1>3, <1>4, <1>5, <1>6

\* Not found means that there is no such order.
LEMMA MissSound ==
    ASSUME IInv, OrdersKnown, incoming = nullptr,
           NEW id \in Targets, ~ Found(id)
    PROVE  \A x \in Live : orders[x].id # id
<1> SUFFICES ASSUME NEW x \in Live, orders[x].id = id
             PROVE  FALSE
    OBVIOUS
<1>1. order_map[HashSlot(id)] = x
    BY DEF OrdersKnown, TargetsMapped
<1>2. x \in Resting /\ x \in Slots /\ x # nullptr
    BY NullFacts, BookFacts DEF Live
<1>3. orders[x].status \in {"Active", "PartiallyFilled"}
    BY <1>2, BookFacts DEF Resting, OrderType
<1> QED BY <1>1, <1>2, <1>3 DEF Found

\* A fill is between two orders with different ids.
LEMMA FillSound ==
    ASSUME TargetsApart, IInv, OrdersKnown, MatchStep
    PROVE  /\ OrdersKnown' /\ LiveStays /\ incoming # nullptr
           /\ UNCHANGED <<incoming, readd>>
           /\ \E i, j \in Live :
                /\ incoming \in {i, j} /\ orders[i].id # orders[j].id
                /\ report'.buy_order_id = orders[i].id
                /\ report'.sell_order_id = orders[j].id
<1>1. PICK x, q : Matched(x, q)
    BY MatchEffect
<1>2. incoming # nullptr /\ incoming \in Slots \ Resting /\ incoming \in Live
    BY MatchEffect, BookFacts DEF Live
<1>3. /\ x \in Resting /\ x \in Live /\ x # incoming /\ x \in Slots
      /\ UNCHANGED <<incoming, readd>>
      /\ SameOrder(orders'[incoming], orders[incoming])
      /\ \A y \in Slots \ {x, incoming} : orders'[y] = orders[y]
      /\ report' = Report(orders[x], orders[incoming], q)
    BY <1>1, <1>2, BookFacts DEF Matched, Live
<1>4. Live \subseteq Slots
    BY BookFacts DEF Live
<1>5. OrdersKnown' /\ LiveStays
    <2>1. CASE Resting' = Resting \ {x} /\ Unmap(orders[x].id)
        <3>1. Live' = Live \ {x}
            BY <1>2, <1>3, <2>1 DEF Live
        <3>2. LiveStays
            BY <1>3, <1>4, <3>1 DEF LiveStays, SameOrder
        <3> QED BY <1>3, <2>1, <3>1, <3>2, UnmapSound
    <2>2. CASE /\ Resting' = Resting /\ SameOrder(orders'[x], orders[x])
               /\ order_map' = order_map
        <3>1. Live' = Live
            BY <1>3, <2>2 DEF Live
        <3>2. LiveStays
            BY <1>3, <1>4, <2>2, <3>1 DEF LiveStays, SameOrder
        <3> QED BY <2>2, <3>2, StaysApart
    <2> QED BY <1>1, <2>1, <2>2 DEF Matched
<1>6. orders[x].id # orders[incoming].id
    BY <1>2, <1>3 DEF OrdersKnown, OrdersApart
<1>7. \E i, j \in Live :
        /\ incoming \in {i, j} /\ orders[i].id # orders[j].id
        /\ report'.buy_order_id = orders[i].id
        /\ report'.sell_order_id = orders[j].id
    <2>1. CASE orders[x].side = "Buy"
        <3>1. /\ report'.buy_order_id = orders[x].id
              /\ report'.sell_order_id = orders[incoming].id
            BY <1>3, <2>1 DEF Report
        <3> QED BY <1>2, <1>3, <1>6, <3>1
    <2>2. CASE orders[x].side # "Buy"
        <3>1. /\ report'.buy_order_id = orders[incoming].id
              /\ report'.sell_order_id = orders[x].id
            BY <1>3, <2>2 DEF Report
        <3> QED BY <1>2, <1>3, <1>6, <3>1
    <2> QED BY <2>1, <2>2
<1> QED BY <1>2, <1>3, <1>5, <1>7

-----------------------------------------------------------------------------
(***************************************************************************)
(* The program.                                                            *)
(***************************************************************************)
\* Every order of the book stands in the messages handled, also the one that
\* modify_order is to add again, and a new one comes from the last message.
Followed ==
    /\ OrdersKnown
    /\ \A x \in Live : StandingIn(handled, orders[x].id, Len(handled))
    /\ readd # NoMessage =>
        /\ StandingIn(handled, readd.order_id, Len(handled))
        /\ readd.order_id \in AddedIds
        /\ incoming = nullptr => \A x \in Live : orders[x].id # readd.order_id
    /\ pcE \in {"book", "trade"} \/ Idle
    /\ incoming # nullptr /\ readd = NoMessage =>
        /\ handled # <<>> /\ handled[Len(handled)] \in Adds
        /\ handled[Len(handled)].order_id = orders[incoming].id

\* What ReportsFollowMessages says of a report r after n messages.
Follows(h, r, n) ==
    LET P == {r.buy_order_id, r.sell_order_id}
    IN  /\ h[n].action \in {Add, Execute}
        /\ h[n].order_id \in P
        /\ Cardinality(P) = 2
        /\ \A id \in P : StandingIn(h, id, n)

Traced ==
    /\ \A k \in 1 .. Len(matched) :
          /\ matched[k].at \in 1 .. Len(handled)
          /\ Follows(handled, matched[k].report, matched[k].at)
    /\ pcE = "trade" => /\ handled # <<>>
                        /\ Follows(handled, report, Len(handled))

\* The order of a new message is not one that the engine knows already.
LEMMA FreshOrder ==
    ASSUME PipeInv, OrdersOnce, pcE = "dispatch", taken \in Adds
    PROVE  \A id : StandingIn(handled, id, Len(handled)) => id # taken.order_id
<1> SUFFICES ASSUME NEW id, StandingIn(handled, id, Len(handled)),
                    id = taken.order_id
             PROVE  FALSE
    OBVIOUS
<1>1. /\ handled \in Seq(Feed) /\ inbound \in Seq(Feed) /\ taken \in Feed
      /\ pushed = handled \o <<taken>> \o inbound
    BY TypeParts DEF PipeInv, InType, EngineType, AtHand, MessagesAccounted, InHand
<1>2. PICK i \in 1 .. Len(handled) : handled[i] \in Adds /\ handled[i].order_id = id
    BY <1>1, StandingAdded
<1> DEFINE g == Append(handled, taken)
           n == Len(handled)
<1>3. /\ n \in Nat /\ g \in Seq(Feed) /\ Len(g) = n + 1 /\ g[n + 1] = taken
      /\ g[i] = handled[i]
    BY <1>1
<1>4. pushed = g \o inbound
    BY <1>1, AppendIsConcat
<1> HIDE DEF g
<1>5. /\ i \in 1 .. Len(g) /\ n + 1 \in 1 .. Len(g) /\ Len(inbound) \in Nat
      /\ i # n + 1
    BY <1>1, <1>3
<1>6. /\ Len(pushed) = Len(g) + Len(inbound)
      /\ \A k \in 1 .. Len(g) : pushed[k] = g[k]
    <2>1. /\ Len(pushed) = Len(g) + Len(inbound)
          /\ \A k \in 1 .. Len(g) + Len(inbound) :
                pushed[k] = IF k <= Len(g) THEN g[k] ELSE inbound[k - Len(g)]
        <3>1. /\ Len(g \o inbound) = Len(g) + Len(inbound)
              /\ \A k \in 1 .. Len(g) + Len(inbound) :
                    (g \o inbound)[k] =
                        IF k <= Len(g) THEN g[k] ELSE inbound[k - Len(g)]
            BY <1>1, <1>3, ConcatProperties
        <3> QED BY <1>4, <3>1
    <2>2. \A k \in 1 .. Len(g) : k \in 1 .. Len(g) + Len(inbound) /\ k <= Len(g)
        BY <1>3, <1>5
    <2> QED BY <2>1, <2>2
<1>7. /\ i \in 1 .. Len(pushed) /\ n + 1 \in 1 .. Len(pushed)
      /\ pushed[i] = handled[i] /\ pushed[n + 1] = taken
    BY <1>3, <1>5, <1>6
<1> QED BY <1>2, <1>5, <1>7 DEF OrdersOnce

LEMMA DispatchFollows ==
    ASSUME TargetsApart, IInv, PipeInv, OrdersOnce, Followed, Dispatch
    PROVE  Followed'
<1> DEFINE m == taken
           h == handled
           n == Len(handled)
<1>1. /\ pcE = "dispatch" /\ Route(m) /\ handled' = Append(h, m)
      /\ h \in Seq(Feed) /\ m \in Feed
    BY TypeParts DEF Dispatch, PipeInv, AtHand, EngineType
<1>2. /\ n \in Nat /\ Len(handled') = n + 1 /\ handled' # <<>>
      /\ handled'[n + 1] = m
    BY <1>1
<1>3. /\ \A id : /\ StandingIn(h, id, n)
                 /\ ~ (m.action = Cancel /\ m.original_order_id = id)
                 => StandingIn(handled', id, Len(handled'))
      /\ m \in Adds => StandingIn(handled', m.order_id, Len(handled'))
    BY <1>1, <1>2, StandingGrows
<1>4. /\ OrdersKnown
      /\ \A x \in Live : StandingIn(h, orders[x].id, n) /\ orders[x].id \in AddedIds
    BY DEF Followed, OrdersKnown
<1>5. m.action \in {Cancel, Modify} => Target(m) \in Targets /\ Target(m) \in OrderIds
    BY <1>1, FeedAssumption DEF Targets, Target
<1>6. \* A call that adds no order and cancels none but the target.
      ASSUME OrdersKnown', LiveStays, incoming' = nullptr, readd' = NoMessage,
             m.action = Cancel => \A x \in Live' : orders'[x].id # Target(m)
      PROVE  Followed'
    <2>1. ASSUME NEW x \in Live'
          PROVE  StandingIn(handled', orders'[x].id, Len(handled'))
        <3>1. x \in Live /\ orders'[x].id = orders[x].id
            BY <1>6 DEF LiveStays
        <3> QED BY <1>3, <1>4, <1>6, <3>1 DEF Target
    <2> QED BY <1>6, <2>1 DEF Followed, Idle
<1>7. ASSUME UNCHANGED <<orders, free_stack, order_map, incoming>>
      PROVE  OrdersKnown' /\ LiveStays
    <2>1. Live' = Live /\ LiveStays
        BY <1>7 DEF Live, Resting, Pool!FreeSlots, LiveStays
    <2> QED BY <1>4, <1>7, <2>1, StaysApart
<1>8. CASE IsAdd(m) /\ AddOrder(OrderOf(m)) /\ pcE' = "book"
    <2>1. PICK o \in Slots : BeginAdd(OrderOf(m), o)
        BY <1>8 DEF AddOrder
    <2>2. incoming = nullptr /\ readd = NoMessage
        BY <1>8 DEF AddOrder, Idle
    <2>3. m \in Adds /\ m.order_id \in AddedIds /\ OrderOf(m).order_id = m.order_id
        BY <1>1, <1>8 DEF IsAdd, Adds, AddedIds, OrderOf
    <2>4. OrderOf(m) \in AddMessage
        <3>1. m \in Message /\ m.order_id \in OrderIds /\ m.quantity \in Quantities
            BY <1>1, <2>3, FeedAssumption
        <3> QED BY <3>1 DEF OrderOf, AddMessage, Message, Side
    <2>5. \A x \in Live : orders[x].id # m.order_id
        BY <1>1, <1>4, <2>3, FreshOrder
    <2>6. /\ OrdersKnown' /\ Live' = Live \cup {o} /\ incoming' = o
          /\ readd' = readd /\ orders'[o].id = m.order_id
          /\ \A x \in Live : orders'[x].id = orders[x].id
        BY <1>4, <2>1, <2>2, <2>3, <2>4, <2>5, AddSound
    <2>7. ASSUME NEW x \in Live'
          PROVE  StandingIn(handled', orders'[x].id, Len(handled'))
        <3>1. CASE x \in Live
            <4>1. m.action # Cancel
                BY <1>8 DEF IsAdd, Add, Cancel, Execute
            <4> QED BY <1>3, <1>4, <2>6, <3>1, <4>1
        <3>2. CASE x = o
            BY <1>3, <2>3, <2>6, <3>2
        <3> QED BY <2>6, <3>1, <3>2
    <2> QED BY <1>2, <1>8, <2>2, <2>3, <2>6, <2>7 DEF Followed
<1>9. CASE RejectAdd /\ IsAdd(m)
    <2>1. /\ UNCHANGED <<orders, free_stack, order_map, incoming>>
          /\ incoming' = nullptr /\ readd' = NoMessage
        BY <1>9 DEF RejectAdd, Idle, callVars
    <2>2. m.action # Cancel
        BY <1>9 DEF IsAdd, Add, Cancel, Execute
    <2> QED BY <1>6, <1>7, <2>1, <2>2
<1>10. CASE m.action \in {Cancel, Modify} /\ Miss(Target(m))
    <2>1. /\ UNCHANGED <<orders, free_stack, order_map, incoming>>
          /\ incoming = nullptr /\ incoming' = nullptr /\ readd' = NoMessage
          /\ ~ Found(Target(m))
        BY <1>10 DEF Miss, Idle, callVars
    <2>2. OrdersKnown' /\ LiveStays
        BY <1>7, <2>1
    <2>3. \A x \in Live : orders[x].id # Target(m)
        BY <1>4, <1>5, <1>10, <2>1, MissSound
    <2>4. \A x \in Live' : orders'[x].id # Target(m)
        BY <2>2, <2>3 DEF LiveStays
    <2> QED BY <1>6, <2>1, <2>2, <2>4
<1>11. CASE m.action = Cancel /\ CancelOrder(Target(m))
    <2>1. /\ Found(Target(m)) /\ Unbook(Target(m))
          /\ incoming = nullptr /\ readd' = NoMessage
        BY <1>11 DEF CancelOrder, Idle
    <2>2. /\ OrdersKnown' /\ LiveStays /\ incoming' = nullptr
          /\ \A x \in Live' : orders'[x].id # Target(m)
        BY <1>4, <1>5, <1>11, <2>1, CancelSound
    <2> QED BY <1>6, <2>1, <2>2
<1>12. CASE m.action = Modify /\ ModifyDown(Target(m), m.quantity)
    <2>1. Target(m) \in OrderIds /\ m.quantity \in Quantities \cup {0}
        BY <1>1, <1>5, <1>12, FeedAssumption DEF Message
    <2>2. PICK x : x = order_map[HashSlot(Target(m))]
        OBVIOUS
    <2>3. /\ x \in Resting /\ Resting' = Resting
          /\ SameOrder(orders'[x], orders[x])
          /\ \A y \in Slots \ {x} : orders'[y] = orders[y]
          /\ UNCHANGED <<order_map, incoming, readd>>
        BY <1>12, <2>1, <2>2, ModifyDownEffect
    <2>4. incoming = nullptr /\ readd = NoMessage
        BY <1>12 DEF ModifyDown, Idle
    <2>5. LiveStays
        BY <2>3, BookFacts DEF Live, LiveStays, SameOrder
    <2>6. m.action # Cancel
        BY <1>12 DEF Cancel, Modify
    <2> QED BY <1>4, <1>6, <2>3, <2>4, <2>5, <2>6, StaysApart
<1>13. CASE m.action = Modify /\ ModifyUp(Target(m), m.quantity) /\ pcE' = "book"
    <2>1. /\ Found(Target(m)) /\ Unbook(Target(m)) /\ incoming = nullptr
          /\ readd' = ReaddMessage(Target(m),
                          orders[order_map[HashSlot(Target(m))]], m.quantity)
        BY <1>13 DEF ModifyUp, Idle
    <2>2. /\ OrdersKnown' /\ LiveStays /\ incoming' = nullptr
          /\ \E x \in Live : orders[x].id = Target(m)
          /\ \A x \in Live' : orders'[x].id # Target(m)
        BY <1>4, <1>5, <1>13, <2>1, CancelSound
    <2>3. readd'.order_id = Target(m)
        BY <2>1 DEF ReaddMessage
    <2>4. m.action # Cancel
        BY <1>13 DEF Cancel, Modify
    <2>5. /\ Target(m) \in AddedIds
          /\ StandingIn(handled', Target(m), Len(handled'))
        BY <1>3, <1>4, <2>2, <2>4
    <2>6. ASSUME NEW x \in Live'
          PROVE  StandingIn(handled', orders'[x].id, Len(handled'))
        <3>1. x \in Live /\ orders'[x].id = orders[x].id
            BY <2>2 DEF LiveStays
        <3> QED BY <1>3, <1>4, <2>4, <3>1
    <2> QED BY <1>13, <2>2, <2>3, <2>5, <2>6 DEF Followed
<1>14. CASE m.action \notin {Cancel, Modify} /\ UNCHANGED vars
    <2>1. /\ UNCHANGED <<orders, free_stack, order_map, incoming, readd>>
        BY <1>14 DEF vars, callVars
    <2>2. OrdersKnown' /\ LiveStays
        BY <1>7, <2>1
    <2>3. incoming = nullptr /\ readd = NoMessage
        BY <1>1 DEF Followed, Idle
    <2> QED BY <1>6, <1>14, <2>1, <2>2, <2>3
<1> QED BY <1>1, <1>8, <1>9, <1>10, <1>11, <1>12, <1>13, <1>14
        DEF Route, IsAdd, Add, Execute, Cancel, Modify

\* A set of two.
LEMMA PairCardinality ==
    ASSUME NEW a, NEW b, a # b
    PROVE  Cardinality({a, b}) = 2
<1>1. IsFiniteSet({a}) /\ Cardinality({a}) = 1
    BY FS_Singleton
<1>2. {a, b} = {a} \cup {b} /\ b \notin {a}
    OBVIOUS
<1> QED BY <1>1, <1>2, FS_AddElement

LEMMA MatchFollows ==
    ASSUME TargetsApart, IInv, ReaddApart, PipeInv, Followed, Traced, Match
    PROVE  Followed' /\ Traced'
<1>1. /\ pcE = "book" /\ UNCHANGED <<handled, matched>>
      /\ \/ MatchStep /\ pcE' = "trade"
         \/ (UpdateBest \/ ReAdd) /\ UNCHANGED pcE
         \/ FinishAdd /\ pcE' = "drain"
    BY DEF Match
<1>2. PICK h : h = handled
    OBVIOUS
<1>3. h \in Seq(Feed) /\ handled' = h
    BY <1>1, <1>2, TypeParts DEF PipeInv, EngineType
<1>4. /\ OrdersKnown
      /\ \A x \in Live : StandingIn(h, orders[x].id, Len(h))
    BY <1>2 DEF Followed
<1>5. pcE' # "trade" => Traced'
    BY <1>1 DEF Traced
<1>6. LiveStays => \A x \in Live' : StandingIn(h, orders'[x].id, Len(h))
    BY <1>4 DEF LiveStays
<1>7. CASE MatchStep
    <2>1. /\ OrdersKnown' /\ LiveStays /\ incoming # nullptr
          /\ UNCHANGED <<incoming, readd>>
          /\ \E i, j \in Live :
                /\ incoming \in {i, j} /\ orders[i].id # orders[j].id
                /\ report'.buy_order_id = orders[i].id
                /\ report'.sell_order_id = orders[j].id
        BY <1>4, <1>7, FillSound
    <2>2. readd = NoMessage
        BY <1>7, ReaddNoMatch
    <2>3. pcE' = "trade"
        BY <1>1, <1>7, <2>1, ReportTyped DEF MatchStep, UpdateBest, ReAdd, FinishAdd
    <2>4. /\ h # <<>> /\ h[Len(h)] \in Adds
          /\ h[Len(h)].order_id = orders[incoming].id
        BY <1>2, <2>1, <2>2 DEF Followed
    <2>5. incoming \in Live' /\ incoming \in Live
        BY <2>1 DEF Live
    <2>6. Followed'
        BY <1>3, <1>6, <2>1, <2>2, <2>3, <2>4, <2>5 DEF Followed, LiveStays
    <2>7. Follows(h, report', Len(h))
        <3>1. PICK i, j \in Live :
                /\ incoming \in {i, j} /\ orders[i].id # orders[j].id
                /\ report'.buy_order_id = orders[i].id
                /\ report'.sell_order_id = orders[j].id
            BY <2>1
        <3>2. Cardinality({orders[i].id, orders[j].id}) = 2
            BY <3>1, PairCardinality
        <3>3. /\ h[Len(h)].action \in {Add, Execute}
              /\ h[Len(h)].order_id \in {orders[i].id, orders[j].id}
            BY <2>4, <3>1 DEF Adds
        <3> QED BY <1>4, <3>1, <3>2, <3>3 DEF Follows
    <2> QED BY <1>1, <1>2, <1>3, <2>4, <2>6, <2>7 DEF Traced
<1>8. CASE ReAdd /\ pcE' = "book"
    <2>1. PICK o \in Slots : BeginAdd(readd, o)
        BY <1>8 DEF ReAdd
    <2>2. /\ readd # NoMessage /\ incoming = nullptr /\ readd \in AddMessage
        BY <1>8 DEF ReAdd, IInv, TypeOK
    <2>3. /\ StandingIn(h, readd.order_id, Len(h)) /\ readd.order_id \in AddedIds
          /\ \A x \in Live : orders[x].id # readd.order_id
        BY <1>2, <2>2 DEF Followed
    <2>4. /\ OrdersKnown'
          /\ Live' = Live \cup {o} /\ incoming' = o /\ readd' = readd
          /\ orders'[o].id = readd.order_id
          /\ \A x \in Live : orders'[x].id = orders[x].id
        BY <1>4, <2>1, <2>2, <2>3, AddSound
    <2>5. \A x \in Live' : StandingIn(h, orders'[x].id, Len(h))
        BY <1>4, <2>3, <2>4
    <2>6. incoming' # nullptr
        BY <2>4, NullFacts
    <2>7. Followed'
        BY <1>3, <1>8, <2>2, <2>3, <2>4, <2>5, <2>6 DEF Followed
    <2> QED BY <1>5, <1>8, <2>7
<1>9. CASE FinishAdd /\ pcE' = "drain"
    <2>1. /\ incoming # nullptr /\ orders' = orders /\ order_map' = order_map
          /\ incoming' = nullptr /\ readd' = NoMessage
          /\ Resting' = Resting \/ Resting' = Resting \cup {incoming}
        BY <1>9, FinishEffect
    <2>2. LiveStays
        BY <2>1 DEF Live, LiveStays
    <2>3. Followed'
        BY <1>3, <1>4, <1>6, <2>1, <2>2, StaysApart DEF Followed, Idle
    <2> QED BY <1>5, <1>9, <2>3
<1>10. CASE UpdateBest /\ pcE' = "book"
    <2>1. UNCHANGED <<orders, free_stack, order_map, incoming, readd>>
        BY <1>10 DEF UpdateBest, callVars
    <2>2. Live' = Live /\ LiveStays
        BY <2>1 DEF Live, Resting, Pool!FreeSlots, LiveStays
    <2>3. OrdersKnown'
        BY <1>4, <2>1, <2>2, StaysApart
    <2>4. Followed'
        BY <1>1, <1>3, <1>6, <1>10, <2>1, <2>2, <2>3 DEF Followed, Idle
    <2> QED BY <1>5, <1>10, <2>4
<1> QED BY <1>1, <1>7, <1>8, <1>9, <1>10

\* The other steps leave the book alone; on_trade adds the report to matched.
LEMMA TracedStep ==
    ASSUME TargetsApart, IInv, ReaddApart, PipeInv, OrdersOnce,
           Followed, Traced, [PNext]_pvars
    PROVE  Followed' /\ Traced'
<1>1. /\ handled \in Seq(Feed) /\ matched \in Seq(Trade)
    BY TypeParts DEF PipeInv, EngineType
<1>2. ASSUME UNCHANGED <<vars, handled>>, pcE' = pcE \/ pcE' = "book" \/
                (pcE' \notin {"book", "trade"} /\ pcE \notin {"book", "trade"})
      PROVE  Followed'
    <2>1. /\ UNCHANGED <<orders, free_stack, order_map, incoming, readd, handled>>
        BY <1>2 DEF vars, callVars
    <2>2. Live' = Live /\ LiveStays
        BY <2>1 DEF Live, Resting, Pool!FreeSlots, LiveStays
    <2>3. OrdersKnown'
        BY <2>1, <2>2, StaysApart DEF Followed
    <2> QED BY <1>2, <2>1, <2>2, <2>3 DEF Followed, Idle
<1>3. CASE Dispatch
    <2>1. Followed'
        BY <1>3, DispatchFollows
    <2>2. /\ taken \in Feed /\ handled' = Append(handled, taken)
          /\ matched' = matched /\ pcE' # "trade"
        BY <1>3 DEF Dispatch, Route, PipeInv, AtHand
    <2>3. ASSUME NEW k \in 1 .. Len(matched)
          PROVE  /\ matched[k].at \in 1 .. Len(handled')
                 /\ Follows(handled', matched[k].report, matched[k].at)
        <3>1. PICK n : n = matched[k].at
            OBVIOUS
        <3>2. /\ n \in 1 .. Len(handled) /\ Follows(handled, matched[k].report, n)
            BY <3>1 DEF Traced
        <3>3. /\ n \in 0 .. Len(handled) /\ n \in 1 .. Len(handled')
              /\ handled'[n] = handled[n]
            BY <1>1, <2>2, <3>2
        <3>4. \A id : StandingIn(handled', id, n) <=> StandingIn(handled, id, n)
            BY <1>1, <2>2, <3>3, StandingGrows
        <3> QED BY <3>1, <3>2, <3>3, <3>4 DEF Follows
    <2>4. Traced'
        BY <2>2, <2>3 DEF Traced
    <2> QED BY <2>1, <2>4
<1>4. CASE Match
    BY <1>4, MatchFollows
<1>5. CASE OnTrade
    <2> DEFINE t == [report |-> report, at |-> Len(handled), kept |-> outAccepted']
    <2>1. /\ UNCHANGED <<vars, handled>> /\ pcE = "trade" /\ pcE' = "book"
          /\ matched' = Append(matched, t)
        BY <1>5 DEF OnTrade, Goto, Elsewhere
    <2>2. Followed'
        BY <1>2, <2>1
    <2>3. t.report = report /\ t.at = Len(handled)
        OBVIOUS
    <2> HIDE DEF t
    <2>4. handled # <<>> /\ Follows(handled, report, Len(handled))
        BY <2>1 DEF Traced
    <2>5. Len(handled) \in 1 .. Len(handled)
        BY <1>1, <2>4
    <2>6. PICK n \in Nat : n = Len(matched)
        BY <1>1
    <2>7. /\ Len(matched') = n + 1 /\ matched'[n + 1] = t
          /\ \A k \in 1 .. n : matched'[k] = matched[k]
          /\ \A k \in 1 .. n + 1 : k \in 1 .. n \/ k = n + 1
        BY <1>1, <2>1, <2>6
    <2>8. ASSUME NEW k \in 1 .. n + 1
          PROVE  /\ matched'[k].at \in 1 .. Len(handled)
                 /\ Follows(handled, matched'[k].report, matched'[k].at)
        <3>1. CASE k \in 1 .. n
            BY <2>6, <2>7, <3>1 DEF Traced
        <3>2. CASE k = n + 1
            BY <2>3, <2>4, <2>5, <2>7, <3>2
        <3> QED BY <2>7, <3>1, <3>2
    <2>9. Traced'
        BY <2>1, <2>7, <2>8 DEF Traced
    <2> QED BY <2>2, <2>9
<1>6. CASE UNCHANGED <<vars, handled, matched, pcE>>
    <2>1. Followed'
        BY <1>2, <1>6
    <2>2. Traced'
        BY <1>6 DEF Traced, vars
    <2> QED BY <2>1, <2>2
<1>7. CASE ReadReport
    BY <1>6, <1>7 DEF ReadReport, engineVars
<1>8. CASE /\ UNCHANGED <<vars, handled, matched>>
           /\ pcE' = "trade" <=> pcE = "trade"
           /\ pcE' = "book" <=> pcE = "book"
    <2>1. CASE pcE' = pcE
        BY <1>6, <1>8, <2>1
    <2>2. CASE pcE' # pcE
        <3>1. pcE' \notin {"book", "trade"} /\ pcE \notin {"book", "trade"}
            BY <1>8, <2>2
        <3>2. Followed'
            BY <1>2, <1>8, <3>1
        <3>3. Traced'
            BY <1>8, <3>1 DEF Traced
        <3> QED BY <3>2, <3>3
    <2> QED BY <2>1, <2>2
<1> QED BY <1>3, <1>4, <1>5, <1>7, <1>8, QuietSteps

\* Whatever is dropped or refused between: if no order is sent twice, and the
\* orders that are cancelled or modified meet no other in the map, then every
\* report comes from an order just handled, and names orders that were added
\* and whose cancels, if any, are still to be handled.
THEOREM ReportsFollow ==
    ASSUME TargetsApart
    PROVE  PSpec => ([]OrdersOnce => []ReportsFollowMessages)
<1>1. PInit => Followed /\ Traced
    <2> SUFFICES ASSUME PInit
                 PROVE  Followed /\ Traced
        OBVIOUS
    <2>1. Live = {} /\ incoming = nullptr /\ readd = NoMessage
        BY InitLive DEF PInit, Init
    <2>2. OrdersKnown
        BY <2>1 DEF OrdersKnown, OrdersApart, TargetsMapped
    <2>3. Followed
        BY <2>1, <2>2 DEF Followed, Idle
    <2>4. matched = <<>> /\ pcE = "out"
        BY DEF PInit
    <2>5. Len(matched) = 0 /\ \A k \in 1 .. 0 : FALSE
        BY <2>4
    <2> QED BY <2>3, <2>4, <2>5 DEF Traced
<1>2. IInv /\ PipeInv /\ ReaddApart /\ OrdersOnce /\ Followed /\ Traced
            /\ [PNext]_pvars
        => (Followed /\ Traced)'
    BY TracedStep
<1>3. Traced => ReportsFollowMessages
    BY DEF Traced, Follows, StandingIn, Standing, Parties, ReportsFollowMessages
<1>4. PSpec => [](IInv /\ ReaddApart)
    BY EngineIsClient, ReaddApartHolds, PTL DEF ImplementsBook
<1> QED BY <1>1, <1>2, <1>3, <1>4, PipelineInvariant, PTL DEF PSpec
============================================================================
