----------------------------- MODULE Simulation -----------------------------
(***************************************************************************)
(* run_simulation() (simulator.cpp) around CPU_L1_L2: the loop over the     *)
(* requests, the cycle budget it hands down, and the statistics it adds up. *)
(***************************************************************************)
EXTENDS CPU_L1_L2

CONSTANT NumRequests   \* the length of the request array

VARIABLES
    served,       \* requests taken from the array
    cacheStats,   \* the counters of all answered requests
    result        \* what run_simulation() reports as cycles

simulationVars == <<served, cacheStats, result>>

Counter == {"cycles", "hits", "misses", "read_hits", "read_misses",
            "write_hits", "write_misses",
            "read_hits_L1", "read_misses_L1", "write_hits_L1", "write_misses_L1",
            "read_hits_L2", "read_misses_L2", "write_hits_L2", "write_misses_L2"}

(* cycles is SIZE_MAX (overrun) when the budget did not suffice.            *)
NoResult == [ended |-> FALSE, overrun |-> FALSE, cycles |-> 0]

(* The 0-or-1 fields of the CacheStats of one request.                      *)
Counts(s) ==
    LET hit == s.hit_L1 \/ (s.l2_executes /\ s.hit_L2)
    IN {c \in Counter :
          \/ c = "hits" /\ hit
          \/ c = "misses" /\ ~hit
          \/ c = "read_hits" /\ hit /\ ~s.we
          \/ c = "read_misses" /\ ~hit /\ ~s.we
          \/ c = "write_hits" /\ hit /\ s.we
          \/ c = "write_misses" /\ ~hit /\ s.we
          \/ c = "read_hits_L1" /\ s.hit_L1 /\ ~s.we
          \/ c = "read_misses_L1" /\ ~s.hit_L1 /\ ~s.we
          \/ c = "write_hits_L1" /\ s.hit_L1 /\ s.we
          \/ c = "write_misses_L1" /\ ~s.hit_L1 /\ s.we
          \/ c = "read_hits_L2" /\ s.l2_executes /\ s.hit_L2 /\ ~s.we
          \/ c = "read_misses_L2" /\ s.l2_executes /\ ~s.hit_L2 /\ ~s.we
          \/ c = "write_hits_L2" /\ s.l2_executes /\ s.hit_L2 /\ s.we
          \/ c = "write_misses_L2" /\ s.l2_executes /\ ~s.hit_L2 /\ s.we}

(* A mistake: the counters of L2 count although L2 did not execute.         *)
statsUpdaterAlways(s) ==
    cacheStats' = [c \in Counter |->
        cacheStats[c] + (IF c = "cycles" THEN s.cycles
                         ELSE IF c \in Counts([s EXCEPT !.l2_executes = TRUE])
                              THEN 1 ELSE 0)]

statsUpdater(s) ==
    cacheStats' = [c \in Counter |->
        cacheStats[c] + (IF c = "cycles" THEN s.cycles
                         ELSE IF c \in Counts(s) THEN 1 ELSE 0)]

SimulationInit ==
    /\ Init
    /\ served = 0
    /\ cacheStats = [c \in Counter |-> 0]
    /\ result = NoResult

(* requests[i] is sent and the loop goes on.                                *)
TakeRequest ==
    /\ served < NumRequests
    /\ \E r \in Requests : SendRequest(r)
    /\ served' = served + 1
    /\ UNCHANGED <<cacheStats, result>>

AddRequest ==
    /\ RequestAnswered
    /\ statsUpdater(stats')
    /\ UNCHANGED <<served, result>>

(* The loop is left at the end of the array or at a request with we = -1.   *)
LeaveLoop ==
    /\ Finish
    /\ result' = IF stage' = "done"
                 THEN [ended |-> TRUE, overrun |-> FALSE,
                       cycles |-> cacheStats["cycles"]]
                 ELSE result
    /\ UNCHANGED <<served, cacheStats>>

Overrun ==
    /\ RequestExhausted \/ (FinishWaits /\ stage' = "unfinished")
    /\ result' = [ended |-> TRUE, overrun |-> TRUE, cycles |-> 0]
    /\ UNCHANGED <<served, cacheStats>>

(* A mistake: the cycles of finish_memory() are not added.                  *)
ForgetMemoryCycles ==
    /\ Finished
    /\ result' = [ended |-> TRUE, overrun |-> FALSE,
                  cycles |-> cacheStats["cycles"]]
    /\ UNCHANGED <<served, cacheStats>>

(* cacheStats->cycles += memory_cycles                                      *)
AddMemoryCycles ==
    /\ Finished
    /\ result' = [ended |-> TRUE, overrun |-> FALSE,
                  cycles |-> cacheStats["cycles"]
                               + IF stage = "finish" THEN cycle_count ELSE 0]
    /\ UNCHANGED <<served, cacheStats>>

SimulationGoesOn ==
    /\ \/ L1Step \/ L2Step \/ MemoryStep \/ Delta
       \/ StartCycle \/ RequestContinues \/ Stopped
       \/ FinishWaits /\ stage' = "finish"
    /\ UNCHANGED simulationVars

SimulationNext ==
    \/ TakeRequest \/ AddRequest \/ LeaveLoop \/ Overrun \/ AddMemoryCycles
    \/ SimulationGoesOn

SimulationSpec ==
    SimulationInit /\ [][SimulationNext]_<<vars, simulationVars>>

-----------------------------------------------------------------------------
Sum2(a, b) == cacheStats[a] + cacheStats[b]
Answered == IF stage = "request" THEN served - 1 ELSE served

(* The budget and the reported cycles are two counters kept by two           *)
(* functions; no cycle is missing from either (send_request():               *)
(* cycle_count++ and cycles--).                                              *)
CyclesAddUp ==
    stage = "idle" => cacheStats["cycles"] + cycles = Cycles

(* The counters of the two levels are consistent: every request is a hit or  *)
(* a miss, L2 sees exactly the reads that missed in L1 and all the writes.   *)
CountersAgree ==
    stage = "idle" =>
        /\ Sum2("hits", "misses") = Answered
        /\ Sum2("read_hits", "read_misses")
             = Sum2("read_hits_L1", "read_misses_L1")
        /\ Sum2("read_hits_L2", "read_misses_L2") = cacheStats["read_misses_L1"]
        /\ cacheStats["read_misses"] = cacheStats["read_misses_L2"]
        /\ Sum2("write_hits_L2", "write_misses_L2")
             = Sum2("write_hits", "write_misses")

(* A number of cycles is reported exactly when the simulation was not cut    *)
(* off, it is what the clock spent, and it is within the budget              *)
(* (simulator.cpp: "if forced to stop, cycles need to be SIZE_MAX").         *)
ResultHonest ==
    result.ended =>
        /\ result.overrun <=> cycles < 0
        /\ ~result.overrun => /\ result.cycles + cycles = Cycles
                              /\ result.cycles <= Cycles
=============================================================================
