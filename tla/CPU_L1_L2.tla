----------------------------- MODULE CPU_L1_L2 -----------------------------
(***************************************************************************)
(* struct CPU_L1_L2 (modules.hpp): L1, L2, the memory and the buffers bound *)
(* together, driven by send_request() and finish_memory() in the order in   *)
(* which run_simulation() (simulator.cpp) calls them.                       *)
(***************************************************************************)
EXTENDS L1Cache, L2Cache, MainMemory, FiniteSets

CONSTANTS
    Requests,      \* the requests run_simulation() may find in its array
    TrackCycles,   \* whether the cycle budget is counted
    Cycles,        \* the budget, when it is; otherwise it may end any time
    CountCap       \* cycle counts are kept up to this bound

VARIABLES
    stage,         \* where run_simulation() is
    request,       \* the request being served
    cycles,        \* cycles left (int &cycles)
    cycle_count, l2_executes,   \* the locals of send_request()
    stats          \* what the last request returned (CacheStats)

Request == [we : BOOLEAN, addr : Address, data : Value]
NoRequest == [we |-> FALSE, addr |-> 0, data |-> Zero]

(* The fields of CacheStats of one request are all determined by these; data *)
(* is what the bus towards the CPU holds when the request is answered.      *)
Stats == [answered : BOOLEAN, cycles : Nat, we : BOOLEAN, hit_L1 : BOOLEAN,
          hit_L2 : BOOLEAN, l2_executes : BOOLEAN, data : Value]
NoStats == [answered |-> FALSE, cycles |-> 0, we |-> FALSE, hit_L1 |-> FALSE,
            hit_L2 |-> FALSE, l2_executes |-> FALSE, data |-> Zero]

(* "idle": between requests; "request": in the loop of send_request();      *)
(* "probe", "finish": in finish_memory(); "done": the simulation ended;     *)
(* "exhausted", "unfinished": it ended because no cycles were left in       *)
(* send_request() or finish_memory().                                       *)
Stage == {"idle", "request", "probe", "finish",
          "done", "exhausted", "unfinished"}

driverVars == <<stage, request, cycles, cycle_count, l2_executes, stats>>
moduleVars == <<l1, l2, storeback, prefetch, memory_blocks, memory>>
vars == <<kernelVars, moduleVars, driverVars>>

(* What input_checker() asks for, and the alignment that keeps the word      *)
(* granularity of this model exact.                                         *)
ASSUME ConstantsAssumption ==
    /\ MaxAddress \in Nat /\ LineWords \in Nat \ {0} /\ Zero \in Value
    /\ L1Lines \in Nat \ {0} /\ L2Lines \in Nat \ {0} /\ L1Lines <= L2Lines
    /\ L1Latency \in Nat \ {0} /\ L2Latency \in Nat \ {0}
    /\ MemoryLatency \in Nat \ {0}
    /\ L1Latency <= L2Latency /\ L2Latency <= MemoryLatency
    /\ StorebackLines \in Nat /\ PrefetchLines \in Nat
    /\ Conditional \in BOOLEAN
    /\ InitialPointers \subseteq Nat \X Nat
    /\ Elsewhere \notin Address
    /\ Requests \subseteq Request
    /\ TrackCycles \in BOOLEAN /\ Cycles \in Nat /\ CountCap \in Nat

Reach == IF HasPrefetch THEN PrefetchLines + 1 ELSE 0

(* The lines prefetched for a request stay below the end of the address     *)
(* space.                                                                   *)
ASSUME ReachAssumption ==
    \A r \in Requests : r.addr + (Reach + 1) * LineWords - 1 <= MaxAddress

(* The line size is a power of two, which the comment in L1::update() takes  *)
(* for granted and the program does not ask for.                            *)
LineIsPower == FloorPower(LineWords) = LineWords

(* What is used of the arithmetic with powers of two.                       *)
ASSUME PowerAssumption ==
    /\ \A lines \in {L1Lines, L2Lines} :
          /\ PowerOfTwo(lines) \in Nat \ {0, 1} /\ PowerOfTwo(lines) % 2 = 0
          /\ lines <= PowerOfTwo(lines) /\ PowerOfTwo(lines) \div 2 <= lines
    /\ FloorPower(LineWords) \in Nat \ {0}
    /\ \A a \in Address :
          /\ Offset(a, LineWords) \in 0 .. LineWords - 1
          /\ LineIsPower => Offset(a, LineWords) = a % LineWords

(* Every signal, bus, thread, cache, buffer and counter of CPU_L1_L2        *)
(* (modules.hpp) keeps its type; the waits of the threads are counted, so   *)
(* that none is counted below zero.                                         *)
TypeOK ==
    /\ KernelTypeOK /\ L1TypeOK /\ L2TypeOK /\ MemoryTypeOK
    /\ StorebackTypeOK /\ PrefetchTypeOK
    /\ stage \in Stage /\ request \in Request
    /\ cycles \in Int /\ cycle_count \in Nat /\ l2_executes \in BOOLEAN
    /\ stats \in Stats

Init ==
    /\ KernelInit /\ L1Init /\ L2Init /\ MemoryInit
    /\ StorebackInit /\ PrefetchInit
    /\ stage = "idle" /\ request = NoRequest
    /\ cycles = Cycles /\ cycle_count = 0 /\ l2_executes = FALSE
    /\ stats = NoStats

-----------------------------------------------------------------------------
(* One step of a thread, and the end of a delta cycle for everybody.        *)

L1Step == L1Next /\ UNCHANGED <<l2, memoryVars, bufferVars, driverVars>>
L2Step == L2Next /\ UNCHANGED <<l1, memoryVars, driverVars>>
MemoryStep == MemoryNext /\ UNCHANGED <<l1, l2, driverVars>>

Settled ==
    /\ SignalsSettled
    /\ FifoSettled(storeback.fifo, StorebackLines)
    /\ FifoSettled(prefetch, PrefetchLines)

Delta ==
    /\ DeltaCycle
    /\ ~Settled \/ run = "zero"
    /\ StorebackUpdate /\ PrefetchUpdate
    /\ UNCHANGED <<l1, l2, memoryVars, driverVars>>

-----------------------------------------------------------------------------
(* send_request()                                                           *)

Count == IF cycle_count < CountCap THEN cycle_count + 1 ELSE cycle_count
CyclesAfter == IF TrackCycles THEN cycles - 1 ELSE cycles

(* if (cycles < 0): a budget that is not counted may run out in any cycle.  *)
BudgetEnds == TrackCycles => CyclesAfter < 0

SendRequest(r) ==
    /\ stage = "idle"
    /\ stage' = "request"
    /\ request' = r
    /\ bus' = [bus EXCEPT !.data_in = r.data]
    /\ AssignNow([flag EXCEPT !["valid"] = TRUE, !["write_enable"] = r.we])
    /\ addr' = [addr EXCEPT !["address"] = r.addr]
    /\ addrNext' = [addrNext EXCEPT !["address"] = r.addr]
    /\ cycle_count' = 0 /\ l2_executes' = FALSE /\ stats' = NoStats
    /\ UNCHANGED <<pc, delay, run, moduleVars, cycles>>

(* sc_start(period, unit), up to its end.                                   *)
StartCycle ==
    /\ stage = "request" \/ (stage = "finish" /\ run = "stopped")
    /\ ClockEdge
    /\ run' = "cycle"
    /\ UNCHANGED <<signalVars, bus, pc, moduleVars, driverVars>>

CycleEnds == run = "cycle" /\ Settled /\ run' = "stopped"

RequestExhausted ==
    /\ stage = "request"
    /\ CycleEnds
    /\ BudgetEnds
    /\ cycles' = CyclesAfter
    /\ stage' = "exhausted"
    /\ UNCHANGED <<signalVars, bus, pc, delay, moduleVars, request,
                   cycle_count, l2_executes, stats>>

(* A mistake: the command to L2 is looked at only when the request ends.    *)
RequestContinuesUnsampled ==
    /\ stage = "request"
    /\ CycleEnds
    /\ CyclesAfter >= 0
    /\ ~flag["done_from_L1"]
    /\ cycles' = CyclesAfter
    /\ cycle_count' = Count
    /\ UNCHANGED <<signalVars, bus, pc, delay, moduleVars, stage, request,
                   l2_executes, stats>>

RequestContinues ==
    /\ stage = "request"
    /\ CycleEnds
    /\ CyclesAfter >= 0
    /\ ~flag["done_from_L1"]
    /\ cycles' = CyclesAfter
    /\ l2_executes' = (l2_executes \/ flag["valid_from_L1_to_L2"])
    /\ cycle_count' = Count
    /\ UNCHANGED <<signalVars, bus, pc, delay, moduleVars, stage, request,
                   stats>>

(* A mistake: the cycle in which the answer comes is not counted.           *)
RequestAnsweredUncounted ==
    /\ stage = "request"
    /\ CycleEnds
    /\ CyclesAfter >= 0
    /\ flag["done_from_L1"]
    /\ cycles' = CyclesAfter
    /\ stage' = "idle" /\ request' = NoRequest
    /\ stats' = [NoStats EXCEPT !.answered = TRUE, !.cycles = cycle_count]
    /\ cycle_count' = 0 /\ l2_executes' = FALSE
    /\ AssignNow([flag EXCEPT !["valid"] = FALSE])
    /\ UNCHANGED <<addr, addrNext, bus, pc, delay, moduleVars>>

RequestAnswered ==
    /\ stage = "request"
    /\ CycleEnds
    /\ CyclesAfter >= 0
    /\ flag["done_from_L1"]
    /\ cycles' = CyclesAfter
    /\ stage' = "idle" /\ request' = NoRequest
    /\ stats' = [answered |-> TRUE, cycles |-> Count, we |-> request.we,
                 hit_L1 |-> flag["hit_from_L1"],
                 hit_L2 |-> flag["hit_from_L2"],
                 l2_executes |-> l2_executes \/ flag["valid_from_L1_to_L2"],
                 data |-> bus.data_out]
    /\ cycle_count' = 0 /\ l2_executes' = FALSE
    /\ AssignNow([flag EXCEPT !["valid"] = FALSE])
    /\ UNCHANGED <<addr, addrNext, bus, pc, delay, moduleVars>>

-----------------------------------------------------------------------------
(* finish_memory()                                                          *)

(* Nothing to wait for without a store-back buffer; otherwise two zero-time *)
(* starts run the first delta cycle of the next clock edge.                 *)
Finish ==
    /\ stage = "idle"
    /\ IF HasStoreback
       THEN /\ stage' = "probe"
            /\ ClockEdge /\ run' = "zero"
            /\ AssignNow([flag EXCEPT !["valid_from_L1_to_L2"] = FALSE])
       ELSE /\ stage' = "done"
            /\ UNCHANGED <<flag, flagNext, delay, run>>
    /\ UNCHANGED <<addr, addrNext, bus, pc, moduleVars, request, cycles,
                   cycle_count, l2_executes, stats>>

NothingToWrite == ~memory.write_underway /\ is_empty

FinishLooks ==
    \/ stage = "probe" /\ run = "paused"
    \/ stage = "finish" /\ run = "cycle" /\ Settled

(* while (!done_from_Memory) { cycles--; ... sc_start(period, unit); }      *)
FinishWaits ==
    /\ FinishLooks
    /\ stage = "probe" => ~NothingToWrite
    /\ ~flag["done_from_Memory"]
    /\ cycles' = CyclesAfter
    /\ \/ /\ BudgetEnds
          /\ stage' = "unfinished" /\ UNCHANGED <<run, cycle_count>>
       \/ /\ CyclesAfter >= 0
          /\ stage' = "finish" /\ cycle_count' = Count
          /\ run' = IF run = "paused" THEN "cycle" ELSE "stopped"
    /\ UNCHANGED <<signalVars, bus, pc, delay, moduleVars, request,
                   l2_executes, stats>>

Finished ==
    /\ FinishLooks
    /\ \/ stage = "probe" /\ NothingToWrite
       \/ flag["done_from_Memory"]
    /\ stage' = "done"
    /\ run' = "stopped"
    /\ UNCHANGED <<signalVars, bus, pc, delay, moduleVars, request, cycles,
                   cycle_count, l2_executes, stats>>

Stopped ==
    /\ stage \in {"done", "exhausted", "unfinished"}
    /\ UNCHANGED vars

Driver ==
    \/ \E r \in Requests : SendRequest(r)
    \/ StartCycle \/ RequestExhausted \/ RequestContinues \/ RequestAnswered
    \/ Finish \/ FinishWaits \/ Finished \/ Stopped

Next == L1Step \/ L2Step \/ MemoryStep \/ Delta \/ Driver

Spec == Init /\ [][Next]_vars

(* The kernel keeps running whatever is ready, and the driver's loops call  *)
(* sc_start() again; whether and when another request comes is left open.   *)
Running ==
    \/ L1Step \/ L2Step \/ MemoryStep \/ Delta
    \/ StartCycle \/ RequestExhausted \/ RequestContinues \/ RequestAnswered
    \/ FinishWaits \/ Finished

FairSpec == Spec /\ WF_vars(Running)
=============================================================================
