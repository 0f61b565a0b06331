-------------------------- MODULE PipelineClaims --------------------------
(***************************************************************************)
(* Two things the documents say of the whole program and it does not do.   *)
(* Pipeline with the readings of the cycle counter, which only grow, and   *)
(* with whether stop() was called since run() was.                         *)
(***************************************************************************)
EXTENDS MCPipeline

VARIABLES
    cycles,   \* the next reading of rdtsc()
    arrival,  \* process_frame's and inject_order's reading for msg
    arrived,  \* arrival_cycles of the messages pushed
    entry,    \* entry_nanos of the incoming order
    latency,  \* latency_cycles and tick to trade of the last report
    told      \* stop() was called since run() was

cvars == <<pvars, cycles, arrival, arrived, entry, latency, told>>

CInit ==
    /\ PInit
    /\ cycles = 1 /\ arrival = 0 /\ arrived = <<>> /\ entry = 0
    /\ latency = [reported |-> 0, tickToTrade |-> 0]
    /\ told = FALSE

\* A message is stamped when it comes in, before it is pushed: process_frame
\* stamps each, inject_order those whose client left arrival_cycles at 0, as
\* these clients do.
Arrives == pcG = "ready" /\ pcG' = "push"

\* add_order stamps the order when the engine has got to it.
Enters == clock' # clock

\* fill stamps the report and takes the latency from the aggressor's entry.
Fills == match_count' # match_count

Latency == [reported |-> cycles - entry,
            tickToTrade |-> cycles - arrived[Len(handled)]]

CNext ==
    /\ MCPNext
    /\ cycles' = IF Arrives \/ Enters \/ Fills THEN cycles + 1 ELSE cycles
    /\ arrival' = IF Arrives THEN cycles ELSE arrival
    /\ arrived' = IF pushed' # pushed THEN Append(arrived, arrival) ELSE arrived
    /\ entry' = IF Enters THEN cycles ELSE entry
    /\ latency' = IF Fills THEN Latency ELSE latency
    /\ told' = IF Stop THEN pcE # "out" ELSE pcE' # "enter" /\ told

CSpec == CInit /\ [][CNext]_cvars /\ WF_cvars(CNext /\ Engine)

\* The latency in a trade report is the one from the gateway to the trade: the
\* gateway stamps messages for that (market_data_gateway.hpp).
TickToTrade == latency.reported = latency.tickToTrade

\* run() spins until stop() is called (matching_engine.hpp): a stop() during
\* run() makes it return.
StopIsHeard == told ~> pcE = "out"
============================================================================
