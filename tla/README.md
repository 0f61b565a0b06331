# A verification project for the order matching engine

The program is a single-process order matching engine with a market data
gateway, written as a C++20 header library plus `src/order_book.cpp`. A gateway
thread decodes frames and pushes messages into a lock-free ring; a matching
thread pops them, runs them through a limit order book, and pushes trade reports
into a second ring. This directory models the program in TLA+, checks the models
with TLC on small instances, and proves all their safety properties with TLAPS for
every value of the constants: the invariants, the action properties, and the
refinements of the abstract specifications. `Pipeline` puts all parts together:
gateway, ring, engine, book, ring.

## 1. Inventory

| Component | Source | State | Operations |
|---|---|---|---|
| Order book | `include/order_book.hpp`, `src/order_book.cpp` | two arrays of price levels, order pool, order-id map, cached best bid and ask, match count, volume, trade callback | `add_order`, `cancel_order`, `modify_order`; inside them `match`, `fill`, `rest_order`, `update_best_bid/ask` |
| Price level | `include/types.hpp` (`LimitLevel`) | head, tail, total quantity, order count; next and prev live in the orders | `push_back`, `remove` |
| Memory pool | `include/memory_pool.hpp` | slab of slots, stack of free ones | `acquire`, `release`, `construct`, `destroy` |
| SPSC queue | `include/spsc_queue.hpp` | atomic head and tail, slots | `try_push`, `try_pop`, `size`, `empty`, `full` |
| Matching engine | `include/matching_engine.hpp` | the book, `running_`, two counters | `run`, `run_once`, `stop`, `dispatch`, `on_trade` |
| Gateway | `include/market_data_gateway.hpp` | two counters | `process_frame`, `inject_order`, `reset_counters` |
| Wire protocol | `include/protocol.hpp` | none | `decode`, `encode` |
| Intrusive list | `include/intrusive_list.hpp` | two sentinels, count; next and prev live in the nodes | `insert_back`, `insert_front`, `remove`, `front`, `back`, iteration (no user in the program) |
| Cycle counter | `include/rdtsc.hpp` | a hardware register | `rdtsc` and variants |
| Benchmark | `src/benchmark.cpp` | local | a single-threaded measurement loop |

How they interact. The gateway is the only producer of the inbound ring and the
engine its only consumer; the engine is the only producer of the outbound ring.
`dispatch` calls the book synchronously, and the book calls `on_trade` back once
per fill, in the middle of `match`. Orders are owned by the pool; the levels'
lists and the order-id map only point to them. `stop` writes `running_` from
another thread. Nothing is persisted and nothing is retried: a full ring drops.

What is hard here, by component, with what makes it correct:

* Order book: long sequences of calls over four structures that must agree (the
  pool, the lists, the map, the cached best prices), partial fills, sweeps over
  levels, ids that collide modulo `kMaxOrders`, pool exhaustion, and `modify_order`
  that cancels and re-adds. It is correct when the structures agree after every
  step, trades follow price-time priority, the book is never crossed, quantities
  add up, and every call returns.
* Pool and lists: no slot handed out twice or linked after its release.
* SPSC queue: two threads without locks, stale head and tail, wrap-around; correct
  when it is a bounded FIFO and no slot is read and written concurrently.
* Engine and gateway: drops at full rings, `stop` racing `run`, a drain loop that
  does not look at `running_`, counters that count what was dropped, a callback in
  the middle of `match`. Correct when every frame, message and trade is accounted
  for, the book is only called as it expects, and the engine handles what was
  accepted and returns when it is stopped.
* Protocol: what `encode` writes `decode` reads back; frames that are cut short, or
  have another magic number or version, are refused; there is no checksum, and enum
  bytes are not checked.

`PROJECT.json` lists the hazards one by one, with the source line and the
properties that would catch them.

## 2. What the modules model

| Module | Models |
|---|---|
| `MemoryPool` | the free stack of `MemoryPool<T, Capacity>`; `Acquire`, `Release` are conjuncts its owner uses |
| `LimitLevel` | the levels' intrusive lists, every pointer; `PushBack`, `Remove`, `Reduce` are conjuncts too; `WellLinked` says what a sound family of lists is |
| `OrderBook` | the order book over one pool and all levels |
| `Market` | abstract specification: a set of resting orders with price-time priority, no data structures |
| `OrderBookLedger` | `OrderBook` with two history variables (what entered, what was withdrawn), distinct ids, the accounts, and the refinement mapping to `Market` |
| `MCOrderBook`, `MCLedger` | the bounds for TLC |
| `OrderBookProofs` | lemmas, the inductive invariant and the theorems about the book |
| `OrderBookSteps` | lemmas on what each step does to the book as a set of orders |
| `SumFacts` | lemmas on sums over finite sets |
| `OrderBookLedgerProofs` | the theorems about the accounts, the levels' counts and totals, and the order-id map |
| `MarketProofs` | the proof that the book implements `Market` |
| `SPSCQueue` | the ring and its two threads, one action per access to shared memory |
| `BoundedQueue` | abstract specification of the ring: a FIFO whose two users notice each other's operations late |
| `MCSPSCQueue` | the bound and the fairness for TLC |
| `Protocol` | `encode`, `decode` and its checks, on frames as records of their fields |
| `Pipeline` | the whole program: gateway, engine with `OrderBook`, two `BoundedQueue`s, `stop()`, the downstream reader |
| `MCPipeline` | its messages, bounds and fairness for TLC, and its liveness properties |
| `PipelineClaims` | `MCPipeline` with cycle readings and with `stop()` calls remembered, for two claims of the documents |
| `PipelineProofs` | the program's inductive invariant, its theorems, and the refinement to `OrderBook` |
| `IntrusiveList` | the sentinel lists, every pointer; conjuncts for their owner |
| `OrderStore` | one thread that keeps objects of a `MemoryPool` in `IntrusiveList`s and loops over them |
| `OrderStoreProofs` | the inductive invariant of pool, lists and loop, and its theorems |
| `SPSCQueueProofs` | the ring's inductive invariant, its theorems, and the refinement to `BoundedQueue` |

### State and steps of `OrderBook`

The variables are the data members: `orders` (the pool's slab), `next`/`prev`
(the nodes in the orders), `head`/`tail`/`total_quantity`/`order_count` (the level
arrays, indexed by side and price), `free_stack`, `order_map`, `best` (bid and
ask), `match_count`, `trade_volume`. Three more stand for local state: `incoming`
is the order that `add_order` is working on, `readd` the message `modify_order`
re-adds, `report` the `TradeReport` that the last step gave to the callback.

A call that does not match is one step: `RejectAdd`, `CancelOrder`, `ModifyDown`,
`Miss`. `add_order` is cut where the callback can look at the program: `AddOrder`
(allocate, build, register), one `MatchStep` per fill, which ends in the callback,
one `UpdateBest` for each level that a fill emptied, and `FinishAdd` (`rest_order`, or
return). The code calls back from inside `fill()`, before `match()` looks at the
level again and moves the best price; so `MatchStep` leaves `best` alone, and whatever
looks at the book between the two steps may find a best price at which nothing
rests. `ModifyUp` is the cancel inside `modify_order`, `ReAdd` the start of its
`add_order`. While a call runs no other starts (`Idle`): the book has one thread, and
the callback that the engine installs does not call the book.

The inner loop of `match()` walks a cursor over the level. It only moves past an
order that was filled and so unlinked, hence the cursor is always the level's
head and one iteration of the inner loop is one `MatchStep`. `match()` tests a level for
being empty behind the inner loop and again in front of it; the level is empty at
one of them exactly when it is `Emptied`, and both lead to `UpdateBest`.

Some definitions are preceded by a variant with a slip in it (`UnlinkKeepTail`,
`ScanBestShort`, ...). No specification uses a variant. Each is substituted for
the real definition to see that the property that is meant to catch the slip does
catch it; `PROJECT.json` lists the pairs under `mutants`.

### State and steps of `SPSCQueue`

The ring is shared by two threads without a lock, so the model keeps what the
C++ memory model lets them see, not one value per variable:

* `head_` and `tail_` are the sequences of the stores made to them. Each has one
  writer, which always reads its own last store (the relaxed load in `try_push`
  and `try_pop`). The other thread's acquire load may return any store that is not
  older than one it has seen (`headSeen`, `tailSeen`).
* A store records how many slot accesses its thread made before it (`after`):
  that is what its release publishes, and what an acquire load that returns it
  makes known (`readsKnown`, `writesKnown`).
* Slots are plain memory. `lastRead` and `lastWrite` number the last access to each
  slot by either thread; an access by the other thread is a data race unless it
  knows of that number. `NoDataRace` says this never happens.

`try_push` is `PushLoad` (its test), `PushWrite` (the slot) and `PushStore` (the new
tail); `try_pop` is `PopLoad`, `PopRead` and `PopStore`. Between them the other thread
takes any steps. `Full` and `Empty` are the diagnostics as the owner of the end
calls them; from a third thread they change nothing and promise nothing, nor does
`size()`, so these are left out. `ShowHead` and `ShowTail` are not code: a store
becomes visible. `Capacity` is a power of two in the code (a `static_assert`),
which makes `& kMask` the remainder `% Capacity`; nothing else depends on it, so
the theorems hold for any capacity from 2 on.

`sent` and `received` are history. A slot's `T` is moved out by `try_pop` and the
moved-from value is never read; the model leaves the old item there.

### State and steps of `Pipeline`

`Pipeline` extends `OrderBook`: the book's variables are its own, and the matching
thread takes the book's steps. The two rings are instances of `BoundedQueue`, which
`SPSCQueue` is shown to implement; so a push may be refused, and a pop may find
nothing, because an index of the other thread is seen late. Each thread has a
place: `pcG` is the gateway's (`ready`, `push`, `count`), `pcE` the matching
thread's, with `looping` for "inside `run()`".

| Steps | Code |
|---|---|
| `ProcessFrame` (`Begin` or `DropFrame`), `InjectOrder`; `TryPush`; `CountFrame` | `process_frame` and `inject_order`, cut at the push: the message is in the ring before its frame is counted |
| `Run`; `StoreRunning`; `TestRunning` | `run()`: the call, its store of true, its loop's load. `Stop` is `stop()`, from another thread, at any time |
| `RunOnce`; `PopMessage`, `PopNothing`; `Dispatch` | `run_once()`, called by the thread itself or by `run()`; `Dispatch` counts and makes the book's call up to where `match()` begins |
| `Match`; `OnTrade` | the book's steps; each fill is interrupted by the callback, which pushes the report best effort and counts it |

`ReadReport` is the thread downstream, `ShowPushes` and its like are an index that becomes
visible. The history is what was meant by a frame, how many came, and the
sequences `pushed`, `handled`, `matched` (each trade with the message it came from
and whether its report fitted) and `received`. The counters are read by their own
thread only: from another one they are plain memory without synchronisation, and the
program does not do that while both run.

A frame is a record of its fields and its length. Both ends read and write the
fields through the same packed structs in native order, so the bytes within a
field are not taken apart. `Damaged` frames are those that arrive cut short, with a
wrong magic number or of another version, which is all that `decode` tests. A frame
altered in its body would be taken for another message; this is not modelled.

`PipelineClaims` adds a cycle counter that is read, as in the code, when a message
comes in, when `add_order` builds an order and when `fill` reports, and keeps these
readings with the messages and the incoming order. (`inject_order` keeps a stamp that
its client has set; clients here leave it at 0, and it stamps.)

### State and steps of `OrderStore`

No part of the program uses `IntrusiveList`: the book's levels link their orders
themselves. Both headers describe one use ("the pool owns objects; this list just
links"), and `OrderStore` is that use, with a client that keeps to the assertions:
it constructs and destroys objects, moves them between lists, and runs
`for (T& x : list)` with a body that does the same to all but the object the loop is
at. A node is in its object, so a slot's links outlive the object, and a new object
starts with none. `held`, `contents` and `due` are history.

### Abstractions, and what is taken as given

* Prices are `0 .. kMaxPriceTicks - 1` and quantities at least 1, which
  `add_order` asserts: a debug build stops on anything else, and the release build
  relies on the feed. `modify_order` asserts nothing, so it is given 0 too.
* Timestamps (`entry_nanos`, from the cycle counter) keep only their order: each
  `add_order` reads a later value than the one before it.
* Quantities and counts are integers, not 64-bit words: in the checked bounds none
  comes near a limit. `TotalCovers` shows that a level's total, unsigned in the
  code, never goes below what rests there and so never wraps.
* Two places use an order just after it was destroyed: `fill()` builds the report
  from a filled resting order, `modify_order` the new message from the cancelled
  one. That is undefined behaviour in C++. `destroy` runs a trivial destructor and
  pushes the slot's index on a separate free stack, so nothing overwrites the bytes
  before they are read; compiled programs, optimised or with the address
  sanitizer, read the old values. The model gives that outcome, and what is shown
  of reports and of `modify_order` rests on it.
* In the pipeline, clients send sides and prices that the book can index its levels
  with, positive quantities and nonzero ids in adds; `decode` does not check this.
  Actions are any byte.
* A released slot is modelled as blank, so that a stale pointer would not be
  mistaken for a live order.
* `retire_order` is declared and defined but never called, and is left out.

## 3. Runs

`tlc -config X.cfg M` runs each; all quote the bounds in their cfg.

| Run | Module, cfg | Question |
|---|---|---|
| `book` | `MCOrderBook` | do the structures stay consistent and trades keep priority under every sequence of calls? |
| `ledger` | `MCLedger` | does the book implement `Market`, do its quantities add up, does every call return? |
| `queue` | `MCSPSCQueue` | is the ring a race-free bounded FIFO under every interleaving and every stale load, and does it transfer everything? |
| `pipeline` | `MCPipeline` | is everything accounted for from frame to report under drops, stops and restarts, is the book only called as it expects, is what was accepted handled? |
| `traffic` | `MCPipeline`, `MCTraffic.cfg` | do reports still name the right orders, and arrive in order, after messages and reports were dropped and adds refused? |
| `store` | `OrderStore`, `MCOrderStore.cfg` | do pool and lists stay exact, and loops over them, whatever moves? |
| `live_count` | `MCLedger`, `LiveCount.cfg` | violated: `order_count()` is not the number of live orders |
| `level_totals` | `MCLedger`, `LevelTotals.cfg` | violated: a level's total is not what rests there |
| `modify_time` | `MCLedger`, `ModifyTime.cfg` | violated: `modify_order` does not preserve time |
| `id_collision` | `MCLedger`, `IdCollision.cfg` | violated: a resting order cannot be found by its id |
| `stop_heard` | `PipelineClaims`, `StopIsHeard.cfg` | violated: a `stop()` during `run()` can be lost |
| `tick_to_trade` | `PipelineClaims`, `TickToTrade.cfg` | violated: the reported latency is not tick to trade |

`book`: two prices, three pool slots, ids 1, 2 and 4 (1 and 4 share an entry of
the map, and every id may be used again while it is live), quantities 1 and 2, at
most four additions (re-adds included). That reaches levels of three orders, so
removals at the head, in the middle and at the tail; sweeps over two levels; an
exhausted pool; collisions, repeated ids and slots that are used again. A second
price is what best-price updates and crossing need; prices only enter through
comparisons, so more levels add no new case to a scan that finds the next level
or none. It checks

* `PoolSound`, `LinksSound`, `MapSound`: the pool, the lists and the map agree on
  which orders exist, whatever the ids;
* `BestExact`: no level ever has priority over the cached best price, and the best
  level holds an order, except from a fill that empties it, through the callback of
  this fill, until `match()` moves the price (`JustEmptied`);
* `NotCrossed`: no buy rests at or above a sell, also in the middle of a match;
* `FillsSound`: quantities and status of every order agree;
* `TradePriority`: each fill takes the first order in price-time order, at its
  price, within the limit, and reports those two orders;
* `ModifyNeverTrades`: the re-add inside `modify_order` never matches.

`ledger`: four slots, two prices, four additions as in `book`, at most three units
taken out by cancels and modifies, and distinct ids numbered in the order of their
first arrival, as the benchmark and the tests feed them. Three units are up to three
removals, from the middle or either end of a level, or by re-adds. It checks

* `ImplementsMarket`: the refinement to `Market`, by the mapping in
  `OrderBookLedger` (the book's orders are the live slots, the queue position is
  the time of entry);
* `Conservation`: entered = 2 x traded + withdrawn + open;
* `CountExact`, `TotalCovers`: a level's count is exact, its total never too low;
* `MapComplete`: every resting order is found by its id as long as ids do not
  collide;
* `CallReturns`: every call returns. The fairness is weak fairness of the running
  call (`ReAdd`, `MatchStep`, `UpdateBest`, `FinishAdd`): the matching thread is a loop
  that does nothing else and is only assumed to be scheduled. No client is assumed
  to call.

No state of these two runs deadlocks: at the bounds the calls that stay within them
go on.

`queue`: four slots (the smallest ring in which a stale index can be one, two or
three stores old), two kinds of item, six items, so that every index wraps. It checks

* `NoDataRace`: no slot is read and written concurrently;
* `InOrder`: nothing is lost, doubled, reordered or read early, at most three items
  are in the ring;
* `AnswersHold`: what `full()` and `empty()` told the owner of the end is still true
  when it acts on it;
* `ImplementsQueue`: the refinement to `BoundedQueue`, where a push may be refused
  only if the ring is full as far as the producer has noticed the pops, and
  a pop correspondingly;
* `AllTransferred`: every item that is pushed is popped. The fairness, in
  `MCSPSCQueue`, is that both threads are scheduled and keep polling, as the loops
  of the engine and of the tests do, and that a store becomes visible in finite
  time, which C++ asks of an implementation.

`pipeline`: three frames of six messages, one price, a pool of two, an inbound
ring for two messages and an outbound one for one report; clients send cancels,
modifies and other actions only once an order was accepted. Three messages fill and
overflow the inbound ring and reach an exhausted pool; a buy of two filled by two sells
makes two reports in a row, of which the outbound ring drops one unless it is read
between them; a modify increases a partly filled order while messages wait. The
book itself is checked on larger instances in `book`. It checks

* `WireExact`, `FramesAccounted`: what is pushed is what the client encoded, and the
  counters account for each frame, one behind at most;
* `MessagesAccounted`: accepted messages are dispatched once, in order, over any
  stops, restarts and calls of `run_once()`;
* `ReportsAccounted`: received reports are the trades in order without the dropped
  ones; `trades_emitted_` and the book's `match_count` agree;
* `ImplementsBook`: the engine's steps are those of `OrderBook!Spec`: whatever the
  action byte, `dispatch` makes one call with arguments the book asserts and waits
  for its end; so all that is checked and proved of the book holds in the program.
  That the callback leaves the book alone is in the model (`OnTrade` is `on_trade`,
  which pushes and counts), not a result of the check;
* `StopReturns`: once `run()` loops, a `stop()` makes it return;
* `AllHandled`: while it is not stopped, all that was accepted is dispatched.

Both liveness properties hold unless new messages are pushed for ever: `run_once`
looks only at the queue, so a gateway that keeps up holds the thread in it. The
premise is in the properties because the model has no bound on pushes of
cancels and modifies but `MaxFrames`. The fairness is weak fairness of the matching
thread inside `run()` or `run_once()` (it spins and is assumed to be scheduled) and
of `ShowPushes` (C++ asks that a store become visible in finite time). Nothing is
assumed of the gateway, of callers of `stop()`, or of the reader downstream.

`traffic`: seven messages are sent, one price, a pool of three, inbound and outbound
rings for one message each. To make room for histories of this length, clients
inject orders with ids that ascend, as the benchmark's do, the matching thread calls
`run_once()`, and no message is sent again once it was accepted; frames, `run()`,
`stop()` and `reset_counters()` are in `pipeline`. With seven sent, messages follow one
that was dropped and an add that the pool refused: the cancel comes for an order that
the book never saw, or frees a slot after an add was refused, and orders trade after
either. One sell trades with two buys, and what is left of it with a third, so
reports are kept after dropped ones. It checks

* `ReportsFollowMessages`: whatever was dropped or refused before, a report names the
  order of the message being handled and one added before and not cancelled;
* `ReportsAccounted`, here with more trades.

`store`: two lists, four slots, so that an object is removed at the front, in the
middle and at the end, moves to the other list, and has its slot used again. It checks

* `PoolExact`: each slot is free once or held once;
* `ListsExact`: each list is the sequence put into it, both ways, with its count,
  front and back;
* `LinkedTest`: what `remove()` asserts tells exactly the linked objects;
* `WalkExact`: a loop visits what is there, in order, and never strays.

### What the code does and its documents do not say

The six violated properties restate a test or a comment of the repository;
`PROJECT.json` quotes it under `findings`.

* A fully filled incoming order is never released: `order_count()` stays at 1 after
  a full match, where the test expects 0, and the pool drains.
* A partly filled order that rests adds its whole quantity to the level's total,
  which then stays too high for good.
* An increase by `modify_order` moves the order behind its level, where the header
  says "preserving time".
* An id that equals a resting order's id modulo `kMaxOrders` takes its map entry:
  the earlier order rests and trades but cannot be cancelled.
* `run()` stores true in `running_` when it begins: a `stop()` that another thread
  calls just before that store is overwritten, and `run()` never returns.
* `latency_cycles` of a report is counted from `add_order`, not from the gateway's
  stamp `arrival_cycles`, which the book copies and never uses: the time in the inbound
  ring is missing from the tick-to-trade latency.

No document says what `modify_order(id, 0)` does, so there is no run for it: it leaves
the order in its level with nothing open, and the next incoming order within its
limit trades 0 with it. The models contain this, and what is checked and proved
holds with it.

## 4. Proofs

`OrderBookProofs` proves, for every number of prices, pool size and set of ids and
quantities, that `Spec` implies always `TypeOK`, `PoolSound`, `LinksSound`,
`BestExact`, `MapSound`, `FillsSound` and `NotCrossed`, and that every step
satisfies `TradePriority` and `ModifyNeverTrades`.

The assumptions are those of `OrderBook`: at least one price and one slot, ids
and quantities positive, `nullptr` not a slot, `NoMessage` not a message and
`NoReport` not a report.

None of these is inductive alone. `LinksSound` needs the pool (a slot that is
handed out must not be linked), `BestExact` needs the lists (an emptied head must
mean that the level is empty), `NotCrossed` needs both and the order of the
cached prices. The invariant that is inductive, `IInv`, adds three parts: slots
in use hold an id and a price of the feed (`Stored`), each level is queued by
entry and the incoming order is the newest (`Queued`), and the best bid is below
the best ask (`BestApart`). `BestExact` allows for a level just emptied; where none
is, it is the stronger `BestFirm`: between calls, and in a call whenever the next
fill is about to begin or the order to rest (`BestSettled`). A fill takes `BestFirm` to
`BestExact` (`FillBest`), and `UpdateBest` back to `BestFirm` (`UpdateBestStep`).

The argument goes bottom up: what `ScanBest` returns (a nonempty set of prices
has a first one, by well-foundedness of the naturals); what `Acquire` and `Release`
do to the set of free slots; what `Link` and `Unlink` do to each pointer, and that
they keep `LinksSound`, the best prices and the queues; then one lemma for each
kind of step (`BeginAddStep`, `FinishAddStep`, `LeaveStep` for an order that
leaves the book, used by cancel and by a whole fill, `InPlace` for partial fills and
reductions, `MatchStepStep`), and `NextInv`. `HeadFirst` (the head of a level
entered before every other order there) takes the oldest order of the level: its
`prev` would be older still, so it has none and is the head. With `BestBounds`
it gives `NotCrossed` and price-time priority. `ModifyNeverTrades` needs one more
invariant, `ReaddApart`: the cancel inside `modify_order` leaves the other side
alone, so the order's own price is still not within reach of it, and no level was
emptied by a trade.

`OrderBookSteps` restates each step without pointers and pool: which order joins or
leaves the set of resting orders, and which changes in what is filled
(`AddEffect`, `UnbookEffect`, `ModifyDownEffect`, `FinishEffect`, `MatchEffect`). The
theorems about the accounts, the map, `Market` and the program rest on these facts
and on `IInv`.

`OrderBookLedgerProofs` proves the accounts. They are sums over finite sets, which
the community modules define by recursion on a set; the induction theorems of the
library are out of the provers' reach. `SumFacts` gets by without them: if adding
an element to a set did not add its weight, there would be a smallest set for which
it does not, and there is none (`SmallestSet`, from the well-foundedness of the
naturals). The theorems are

* `CountIsExact` and `TotalsCover`, for `Spec`: any ids, also colliding ones;
* `QuantityConserved`, for `LedgerSpec`. The invariant is `Conservation` with one sum
  over all live orders, the incoming one included. A fill takes the same quantity
  from two of them;
* `RestingIsMapped`: in a behaviour in which no two live orders' ids ever meet in the
  map (`LiveApart`), `MapComplete` always holds. The premise is needed: see
  `id_collision`. `LedgerIsMapped` discharges it for `LedgerSpec` when the ids are apart
  in the map (`IdsHashApart`, as in the run), since each id is given out once
  (`NumbersApart`).

`MarketProofs` proves that the book implements `Market`, again for `Spec` and
any ids (`BookIsMarket`); `LedgerIsMarket` is the same of the specification of the
run. Each step of the book is simulated by one step of the market, a `Miss` or
`RejectAdd` by `Refuse`, `UpdateBest` by `Settle`, in which nothing moves but that the
trade is over. Two facts make the mapping work. It takes
slots to records, so two slots must not give one record: live orders entered at
different times (`EntriesApart`, one more invariant, needed because ids may
repeat). And the order that a step fills is the one that `Market` requires, the first
in price-time order: `HeadFirst` and `BestBounds` again. The assumption
`ViewAssumption` says that `nullptr`, which stands for "no order" in `Market`, is not
the view of one.

Only model-checked: `CallReturns`, which is liveness under fairness.

`SPSCQueueProofs` proves, for every capacity from 2 on and every set of items, that
the ring's `Spec` implies always `TypeOK`, `NoDataRace` and `InOrder`, every step
satisfies `AnswersHold`, and it implements `BoundedQueue`. The only assumptions are
that the capacity is at least 2 and that `nullopt` is not an item.

The argument measures distances on the ring (`Ahead`). The heart of the inductive
invariant is `Windows`: every store to `head_` that the producer can still load is
less than a whole ring behind its own tail, so an old value never looks newer by
a wrap, and the distance of the indices is the number of stores between them; and
the same for the consumer. Without it the test `next_tail == head` says nothing
about how many items there are. `Granted` carries what the test found across the
next steps of the thread while the other one moves on, `Accesses` bounds the last
access to each slot by its distance (`NoDataRace` is the case of distance zero), and
`Holds` says which item is in which slot. One lemma treats each kind of step;
`LoadedHead` and `LoadedTail` turn the code's index comparisons into statements
about counts. The refinement rests on `ContentsIs`: the slots from the head to the
tail are `sent` without what was popped, so only `PushStore` and `PopStore` change
the abstract queue.

Only model-checked: `AllTransferred`, which is liveness.

`PipelineProofs` proves, for every feed within the contract, every size of the
queues and every book, that `PSpec` implies `ImplementsBook`, and always `PTypeOK`,
`WireExact`, `FramesAccounted`, `MessagesAccounted` and `ReportsAccounted`; and
`ReportsFollowMessages`, under two conditions on the feed given below. With `ImplementsBook` the
theorems of `OrderBookProofs` hold in the whole program (`BookHoldsInProgram`). The
assumptions are those of `OrderBook` and `FeedAssumption`: adds carry an id and a
quantity that the book takes, cancels and modifies a nonzero id, and `nullopt` is
not a message.

Neither half of the invariant is inductive alone. That a step of the engine is one
of the book's (`RouteStep`) needs the message in hand to be one of the feed, which is a
fact about the queue (`AtHand`, `PTypeOK`), and, for a modify to quantity 0, the
book's `FillsSound`: it is never an increase, since no order is filled beyond its
quantity. That only reports of two orders with ids are sent (`ReportTyped`) needs the
book's `Stored` and `LinksSound`. So the invariant is `IInv` of the book together
with `PipeInv`. `MessagesAccounted` is three equations of sequences: a push extends the
tail (`PushLast`), a pop moves the first message in hand (`TakeFirst`), a dispatch
hands it over (`HandOver`).

`ReportsAccounted` counts: the k-th trade that was kept is the k-th report, where its
rank is the number of kept trades up to it (`KeptIn`). The inductive form has the reports
received and those in the ring in one sequence (`Delivered`), and lets `match_count` be
one ahead of `trades_emitted_` between the fill and the callback (`Counted`).

`ReportsFollow` proves `ReportsFollowMessages` from two conditions. `TargetsApart`
is one on the constants: the ids that the feed's cancels and modifies name do not
meet the id of another order of the feed in the map. `OrdersOnce` is one on the
behaviour: no order's id is accepted twice. Without the first, a cancel takes out
another order than it names; without the second, a cancel finds only one
of two orders with the id. Both are violations of the clients' contract, which the
engine does not check. Both hold in the run `traffic`: its messages only cancel an
order whose entry is its own, and no message is sent again once it was accepted. The
invariant relates the book to the messages handled: every
live order was added by one of them and not cancelled since, what cancels and
modifies may name is found by the map while it lives, and during a call the book
works on the last message (`Followed`); every trade kept what was true when it was
made (`Traced`).

Only model-checked: `StopReturns` and `AllHandled`, which are liveness.

`OrderStoreProofs` proves, for every capacity and every set of lists, that `StoreSpec`
implies always `StoreTypeOK`, `PoolExact`, `ListsExact`, `LinkedTest` and `WalkExact`. The
assumptions are that the capacity is positive, that `nullptr` is not an address, and
that "no loop" is not a loop.

`PoolExact` needs that the free stack holds no slot twice; the lists need that no
object is in two places (`Apart`), that only held objects are linked (`Owned`), and
that a held object in no list has null pointers (`Unlinked`), or else `LinkedTest`
would fail in a slot used again. `Chained` states a list by positions, sentinels
included (`Place`): the pointers at position i lead to i + 1 and back. Insertion and removal
are then statements about how positions shift (`SpliceSound`, `CutSound`), and the
loop is at a position k with the rest of the list due (`WalkAt`); a removal before
the cursor makes it k - 1, an insertion before it k + 1.

## 5. Not modelled, and what is left

Every part of the program that keeps state is modelled. Left out for good:

* `rdtsc.hpp`: it reads a hardware register; the models keep the order of its values.
* `benchmark.cpp`: a single-threaded measurement loop, statistics and printing.
* Behaviour after a broken assertion of `add_order` (a price outside the levels, a
  quantity of 0): it is undefined in a release build.
* Reads of the plain counters from a third thread, and `size()` of the ring: they
  promise nothing.

Every invariant, action property and refinement that a passing run checks is also
proved. What stays with TLC alone is liveness under fairness, which is out of the
prover's reach: `CallReturns`, `AllTransferred`, `StopReturns` and `AllHandled`.
