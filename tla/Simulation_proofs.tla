------------------------- MODULE Simulation_proofs -------------------------
(***************************************************************************)
(* The cycles run_simulation() reports and the cycles it has left are two   *)
(* counters, kept by send_request(), finish_memory() and itself; they add   *)
(* up to the budget for every number of requests and every configuration.   *)
(* The hit and miss counters that statsUpdater() adds up agree with each     *)
(* other, because they are sums of statistics that the handshake keeps       *)
(* truthful.                                                                *)
(***************************************************************************)
EXTENDS Simulation, Hierarchy_proofs

(* The budget is counted, and no count of cycles reaches its bound.         *)
BudgetCounted == TrackCycles /\ Cycles <= CountCap

(* The cycles of the request, or of finish_memory(), that is under way.     *)
Underway == IF stage \in {"request", "finish"} THEN cycle_count ELSE 0

(* What the three counters say at each stage: while the simulation runs     *)
(* they add up to the budget, and what is reported at its end is final.     *)
Budget ==
    /\ cacheStats \in [Counter -> Nat]
    /\ stage \in {"idle", "request", "probe", "finish"} =>
         /\ ~result.ended /\ cycles >= 0
         /\ cacheStats["cycles"] + Underway + cycles = Cycles
    /\ stage \in {"idle", "probe"} => cycle_count = 0
    /\ stage = "done" =>
         /\ ~result.overrun /\ cycles >= 0 /\ result.cycles \in Nat
         /\ result.cycles + cycles = Cycles
    /\ stage \in {"exhausted", "unfinished"} => result.overrun /\ cycles < 0

(* A simulation takes steps of CPU_L1_L2 only.                              *)
LEMMA SimulationStep ==
    SimulationNext => [Next]_vars
  BY DEF SimulationNext, TakeRequest, AddRequest, LeaveLoop, Overrun,
         AddMemoryCycles, SimulationGoesOn, Next, Driver

(* A new simulation has its whole budget.                                   *)
LEMMA InitBudget == SimulationInit => Budget
<1> SUFFICES ASSUME SimulationInit PROVE Budget
  OBVIOUS
<1>1. stage = "idle" /\ cycles = Cycles /\ cycle_count = 0
  BY DEF SimulationInit, Init
<1>2. /\ cacheStats = [c \in Counter |-> 0] /\ result = NoResult
      /\ "cycles" \in Counter
  BY DEF SimulationInit, Counter
<1>3. cacheStats \in [Counter -> Nat] /\ cacheStats["cycles"] = 0
  BY <1>2
<1>4. Cycles \in Nat
  BY ConstantsAssumption
<1>5. QED
  BY <1>1, <1>2, <1>3, <1>4 DEF Budget, Underway, NoResult

(* A counted cycle leaves the budget and enters the count.                  *)
LEMMA CycleCounted ==
    ASSUME BudgetCounted, NEW s \in Nat, cycle_count \in Nat, cycles \in Int,
           s + cycle_count + cycles = Cycles, CyclesAfter >= 0
    PROVE  Count = cycle_count + 1 /\ CyclesAfter = cycles - 1
<1>1. CyclesAfter = cycles - 1 /\ cycles >= 1
  BY DEF CyclesAfter, BudgetCounted
<1>2. cycle_count < CountCap
  BY <1>1, ConstantsAssumption DEF BudgetCounted
<1>3. QED
  BY <1>1, <1>2 DEF Count

(* Every step of the simulation keeps the counters balanced.                *)
LEMMA NextBudget ==
    ASSUME BudgetCounted, IInv, IInv', Budget,
           [SimulationNext]_<<vars, simulationVars>>
    PROVE  Budget'
<1> DEFINE total == cacheStats["cycles"]
<1>1. /\ stage \in Stage /\ cycles \in Int /\ cycle_count \in Nat
      /\ Cycles \in Nat /\ CountCap \in Nat /\ stats' \in Stats
      /\ cacheStats \in [Counter -> Nat] /\ total \in Nat
  BY ConstantsAssumption DEF IInv, TypeOK, Budget, Counter
<1>2. CASE TakeRequest
  BY <1>1, <1>2 DEF TakeRequest, SendRequest, Budget, Underway
<1>3. CASE AddRequest
  <2>1. /\ stage = "request" /\ stage' = "idle" /\ cycle_count' = 0
        /\ cycles' = CyclesAfter /\ CyclesAfter >= 0
        /\ stats'.cycles = Count /\ result' = result
    BY <1>3 DEF AddRequest, RequestAnswered
  <2>2. Count = cycle_count + 1 /\ CyclesAfter = cycles - 1
    BY <1>1, <2>1, CycleCounted DEF Budget, Underway
  <2>3. Count \in Nat
    BY <1>1, <2>2
  <2>4. cacheStats' = [c \in Counter |->
          cacheStats[c] + (IF c = "cycles" THEN Count
                           ELSE IF c \in Counts(stats') THEN 1 ELSE 0)]
    BY <1>3, <2>1 DEF AddRequest, statsUpdater
  <2>5. cacheStats' \in [Counter -> Nat]
    BY <1>1, <2>3, <2>4
  <2>6. cacheStats'["cycles"] = total + Count
    BY <2>4 DEF Counter
  <2>7. QED
    BY <1>1, <2>1, <2>2, <2>5, <2>6 DEF Budget, Underway
<1>4. CASE LeaveLoop
  <2>1. CASE HasStoreback
    BY <1>1, <1>4, <2>1 DEF LeaveLoop, Finish, Budget, Underway
  <2>2. CASE ~HasStoreback
    BY <1>1, <1>4, <2>2 DEF LeaveLoop, Finish, Budget, Underway
  <2>3. QED
    BY <2>1, <2>2
<1>5. CASE Overrun
  <2>1. /\ stage' \in {"exhausted", "unfinished"}
        /\ cycles' = CyclesAfter /\ CyclesAfter < 0
    <3>1. /\ BudgetEnds /\ stage' \in {"exhausted", "unfinished"}
          /\ cycles' = CyclesAfter
      BY <1>5 DEF Overrun, RequestExhausted, FinishWaits
    <3>2. QED
      BY <3>1 DEF BudgetEnds, BudgetCounted
  <2>2. result'.overrun /\ cacheStats' = cacheStats
    BY <1>5 DEF Overrun
  <2>3. QED
    BY <1>1, <2>1, <2>2 DEF Budget
<1>6. CASE AddMemoryCycles
  <2>1. /\ stage \in {"probe", "finish"} /\ stage' = "done"
        /\ cycles' = cycles /\ cacheStats' = cacheStats
        /\ ~result'.overrun
        /\ result'.cycles = total + Underway
    BY <1>6 DEF AddMemoryCycles, Finished, FinishLooks, Underway
  <2>2. Underway \in Nat
    BY <1>1 DEF Underway
  <2>3. QED
    BY <1>1, <2>1, <2>2 DEF Budget
<1>7. CASE SimulationGoesOn
  <2>1. cacheStats' = cacheStats /\ result' = result
    BY <1>7 DEF SimulationGoesOn, simulationVars
  <2>2. CASE RequestContinues
    <3>1. /\ stage = "request" /\ stage' = "request" /\ cycles' = CyclesAfter
          /\ CyclesAfter >= 0 /\ cycle_count' = Count
      BY <2>2 DEF RequestContinues
    <3>2. Count = cycle_count + 1 /\ CyclesAfter = cycles - 1
      BY <1>1, <3>1, CycleCounted DEF Budget, Underway
    <3>3. QED
      BY <1>1, <2>1, <3>1, <3>2 DEF Budget, Underway
  <2>3. CASE FinishWaits /\ stage' = "finish"
    <3>1. /\ stage \in {"probe", "finish"} /\ cycles' = CyclesAfter
          /\ CyclesAfter >= 0 /\ cycle_count' = Count
      BY <2>3 DEF FinishWaits, FinishLooks
    <3>2. total + cycle_count + cycles = Cycles
      BY <1>1, <3>1 DEF Budget, Underway
    <3>3. Count = cycle_count + 1 /\ CyclesAfter = cycles - 1
      BY <1>1, <3>1, <3>2, CycleCounted
    <3>4. QED
      BY <1>1, <2>1, <2>3, <3>1, <3>2, <3>3 DEF Budget, Underway
  <2>4. CASE \/ L1Step \/ L2Step \/ MemoryStep \/ Delta
             \/ StartCycle \/ Stopped
    <3>1. UNCHANGED driverVars
      BY <2>4 DEF L1Step, L2Step, MemoryStep, Delta, StartCycle, Stopped, vars
    <3>2. QED
      BY <2>1, <3>1 DEF driverVars, Budget, Underway
  <2>5. QED
    BY <1>7, <2>2, <2>3, <2>4 DEF SimulationGoesOn
<1>8. CASE UNCHANGED <<vars, simulationVars>>
  BY <1>8 DEF vars, driverVars, simulationVars, Budget, Underway
<1>9. QED
  BY <1>2, <1>3, <1>4, <1>5, <1>6, <1>7, <1>8 DEF SimulationNext

(* The invariant of the proof, and what follows from it.                    *)
LEMMA BudgetCorrect ==
    ASSUME BudgetCounted
    PROVE  SimulationSpec => [](IInv /\ Budget)
<1>1. SimulationInit => IInv /\ Budget
  BY InitIInv, InitBudget DEF SimulationInit
<1>2. IInv /\ Budget /\ [SimulationNext]_<<vars, simulationVars>>
        => (IInv /\ Budget)'
  <2> SUFFICES ASSUME IInv, Budget, [SimulationNext]_<<vars, simulationVars>>
               PROVE  (IInv /\ Budget)'
    OBVIOUS
  <2>1. [Next]_vars
    BY SimulationStep
  <2>2. IInv'
    BY <2>1, NextIInv
  <2>3. QED
    BY <2>2, NextBudget
<1>3. QED
  BY <1>1, <1>2, PTL DEF SimulationSpec

(* Between two requests every cycle of the budget is either reported or     *)
(* left (send_request(): cycle_count++ and cycles--).                       *)
THEOREM CyclesAddUpCorrect ==
    ASSUME BudgetCounted
    PROVE  SimulationSpec => []CyclesAddUp
<1>1. IInv /\ Budget => CyclesAddUp
  <2> SUFFICES ASSUME IInv, Budget, stage = "idle"
               PROVE  cacheStats["cycles"] + cycles = Cycles
    BY DEF CyclesAddUp
  <2>1. cacheStats["cycles"] \in Nat /\ cycles \in Int
    BY DEF Budget, Counter, IInv, TypeOK
  <2>2. QED
    BY <2>1 DEF Budget, Underway
<1>2. QED
  BY <1>1, BudgetCorrect, PTL

(* What run_simulation() reports is what the clock spent, and SIZE_MAX      *)
(* exactly when the budget did not suffice (simulator.cpp).                 *)
THEOREM ResultCorrect ==
    ASSUME BudgetCounted
    PROVE  SimulationSpec => []ResultHonest
<1>1. IInv /\ Budget => ResultHonest
  <2> SUFFICES ASSUME IInv, Budget, result.ended
               PROVE  /\ result.overrun <=> cycles < 0
                      /\ ~result.overrun => /\ result.cycles + cycles = Cycles
                                            /\ result.cycles <= Cycles
    BY DEF ResultHonest
  <2>1. /\ cycles \in Int /\ Cycles \in Nat
        /\ stage \in {"done", "exhausted", "unfinished"}
    BY ConstantsAssumption DEF IInv, TypeOK, Budget, Stage
  <2>2. CASE stage = "done"
    BY <2>1, <2>2 DEF Budget
  <2>3. CASE stage \in {"exhausted", "unfinished"}
    BY <2>1, <2>3 DEF Budget
  <2>4. QED
    BY <2>1, <2>2, <2>3
<1>2. QED
  BY <1>1, BudgetCorrect, PTL

-----------------------------------------------------------------------------
(* The equations between the counters, whatever the stage.                  *)
Agreed ==
    /\ Sum2("hits", "misses") = Answered
    /\ Sum2("read_hits", "read_misses")
         = Sum2("read_hits_L1", "read_misses_L1")
    /\ Sum2("read_hits_L2", "read_misses_L2") = cacheStats["read_misses_L1"]
    /\ cacheStats["read_misses"] = cacheStats["read_misses_L2"]
    /\ Sum2("write_hits_L2", "write_misses_L2")
         = Sum2("write_hits", "write_misses")

(* They hold from the first request to the last, while one is served too.   *)
Tally ==
    /\ cacheStats \in [Counter -> Nat]
    /\ served \in Nat
    /\ stage \in {"idle", "request"} => Agreed

(* What the statistics of one request add to a counter other than cycles.   *)
Added(c, s) == IF c \in Counts(s) THEN 1 ELSE 0

(* Every request is a hit or a miss, of the kind it is; what L2 counts are  *)
(* the reads that missed in L1 and the writes, because the statistics of    *)
(* the request are truthful.                                                *)
LEMMA AddedBalance ==
    ASSUME NEW s \in Stats,
           s.l2_executes <=> s.we \/ ~s.hit_L1,
           ~s.l2_executes => ~s.hit_L2
    PROVE  /\ Added("hits", s) + Added("misses", s) = 1
           /\ Added("read_hits", s) + Added("read_misses", s)
                = Added("read_hits_L1", s) + Added("read_misses_L1", s)
           /\ Added("read_hits_L2", s) + Added("read_misses_L2", s)
                = Added("read_misses_L1", s)
           /\ Added("read_misses", s) = Added("read_misses_L2", s)
           /\ Added("write_hits_L2", s) + Added("write_misses_L2", s)
                = Added("write_hits", s) + Added("write_misses", s)
<1> DEFINE hit == s.hit_L1 \/ (s.l2_executes /\ s.hit_L2)
<1>1. /\ s.we \in BOOLEAN /\ s.hit_L1 \in BOOLEAN /\ s.hit_L2 \in BOOLEAN
      /\ s.l2_executes \in BOOLEAN
  BY DEF Stats
<1>2. /\ "hits" \in Counts(s) <=> hit
      /\ "misses" \in Counts(s) <=> ~hit
      /\ "read_hits" \in Counts(s) <=> hit /\ ~s.we
      /\ "read_misses" \in Counts(s) <=> ~hit /\ ~s.we
      /\ "write_hits" \in Counts(s) <=> hit /\ s.we
      /\ "write_misses" \in Counts(s) <=> ~hit /\ s.we
  BY DEF Counts, Counter
<1>3. /\ "read_hits_L1" \in Counts(s) <=> s.hit_L1 /\ ~s.we
      /\ "read_misses_L1" \in Counts(s) <=> ~s.hit_L1 /\ ~s.we
      /\ "read_hits_L2" \in Counts(s) <=> s.l2_executes /\ s.hit_L2 /\ ~s.we
      /\ "read_misses_L2" \in Counts(s) <=> s.l2_executes /\ ~s.hit_L2 /\ ~s.we
      /\ "write_hits_L2" \in Counts(s) <=> s.l2_executes /\ s.hit_L2 /\ s.we
      /\ "write_misses_L2" \in Counts(s) <=> s.l2_executes /\ ~s.hit_L2 /\ s.we
  BY DEF Counts, Counter
<1>4. QED
  BY <1>1, <1>2, <1>3 DEF Added

(* A new simulation has counted nothing.                                    *)
LEMMA InitTally == SimulationInit => Tally
<1> SUFFICES ASSUME SimulationInit PROVE Tally
  OBVIOUS
<1>1. /\ cacheStats = [c \in Counter |-> 0] /\ served = 0 /\ stage = "idle"
  BY DEF SimulationInit, Init
<1>2. QED
  BY <1>1 DEF Tally, Agreed, Answered, Sum2, Counter

(* An answered request is added to the counters.                            *)
LEMMA AddRequestTally ==
    ASSUME IInv, IInv', Handshake, Tally, AddRequest
    PROVE  Tally'
<1>1. /\ stage = "request" /\ stage' = "idle" /\ served' = served
      /\ stats'.answered /\ stats' \in Stats
  BY DEF AddRequest, RequestAnswered, IInv, TypeOK
<1>2. /\ stats'.l2_executes <=> stats'.we \/ ~stats'.hit_L1
      /\ ~stats'.l2_executes => ~stats'.hit_L2
  BY <1>1, AnsweredTruthful DEF AddRequest, StatsTruthful
<1>3. cacheStats' = [c \in Counter |->
        cacheStats[c] + (IF c = "cycles" THEN stats'.cycles
                         ELSE Added(c, stats'))]
  BY DEF AddRequest, statsUpdater, Added
<1>4. \A c \in Counter : Added(c, stats') \in Nat /\ cacheStats[c] \in Nat
  BY DEF Added, Tally
<1>5. stats'.cycles \in Nat
  BY <1>1 DEF Stats
<1>6. cacheStats' \in [Counter -> Nat]
  BY <1>3, <1>4, <1>5
<1>7. \A c \in Counter \ {"cycles"} :
        cacheStats'[c] = cacheStats[c] + Added(c, stats')
  BY <1>3
<1>8. Answered' = Answered + 1
  BY <1>1 DEF Answered, Tally
<1>9. Agreed
  BY <1>1 DEF Tally
<1>10. ASSUME NEW a \in Counter \ {"cycles"}, NEW b \in Counter \ {"cycles"}
       PROVE  /\ Sum2(a, b)' = Sum2(a, b) + (Added(a, stats') + Added(b, stats'))
              /\ Sum2(a, b) \in Nat
  BY <1>4, <1>7 DEF Sum2
<1>11. Agreed'
  <2> USE <1>1, <1>2, <1>9, <1>10, AddedBalance DEF Agreed, Counter
  <2>1. Sum2("hits", "misses")' = Answered'
    BY <1>8 DEF Answered, Tally
  <2>2. Sum2("read_hits", "read_misses")'
          = Sum2("read_hits_L1", "read_misses_L1")'
    OBVIOUS
  <2>3. Sum2("read_hits_L2", "read_misses_L2")' = cacheStats'["read_misses_L1"]
    BY <1>7
  <2>4. cacheStats'["read_misses"] = cacheStats'["read_misses_L2"]
    BY <1>7
  <2>5. Sum2("write_hits_L2", "write_misses_L2")'
          = Sum2("write_hits", "write_misses")'
    OBVIOUS
  <2>6. QED
    BY <2>1, <2>2, <2>3, <2>4, <2>5
<1>12. QED
  BY <1>1, <1>6, <1>11 DEF Tally

(* Every step of the simulation keeps the counters in agreement.            *)
LEMMA NextTally ==
    ASSUME IInv, IInv', Handshake, Tally,
           [SimulationNext]_<<vars, simulationVars>>
    PROVE  Tally'
<1>1. CASE TakeRequest
  <2>1. /\ stage = "idle" /\ stage' = "request" /\ served' = served + 1
        /\ cacheStats' = cacheStats
    BY <1>1 DEF TakeRequest, SendRequest
  <2>2. Answered' = Answered
    BY <2>1 DEF Answered, Tally
  <2>3. QED
    BY <2>1, <2>2 DEF Tally, Agreed, Sum2
<1>2. CASE AddRequest
  BY <1>2, AddRequestTally
<1>3. CASE LeaveLoop \/ Overrun \/ AddMemoryCycles
  <2>1. /\ stage' \notin {"idle", "request"}
        /\ served' = served /\ cacheStats' = cacheStats
    BY <1>3
    DEF LeaveLoop, Finish, Overrun, RequestExhausted, FinishWaits,
        AddMemoryCycles, Finished
  <2>2. QED
    BY <2>1 DEF Tally
<1>4. CASE SimulationGoesOn \/ UNCHANGED <<vars, simulationVars>>
  <2>1. served' = served /\ cacheStats' = cacheStats
    BY <1>4 DEF SimulationGoesOn, simulationVars
  <2>2. stage' = stage \/ stage' = "finish"
    BY <1>4
    DEF SimulationGoesOn, L1Step, L2Step, MemoryStep, Delta, StartCycle,
        RequestContinues, Stopped, vars, driverVars
  <2>3. QED
    BY <2>1, <2>2 DEF Tally, Agreed, Sum2, Answered
<1>5. QED
  BY <1>1, <1>2, <1>3, <1>4 DEF SimulationNext

(* The counters run_simulation() hands back are consistent, for every        *)
(* request array and configuration (simulator.cpp, statsUpdater()): every    *)
(* request is counted once, and L2 counts exactly what left L1.             *)
THEOREM CountersCorrect == SimulationSpec => []CountersAgree
<1> DEFINE Inv == IInv /\ Handshake /\ Tally
<1>1. SimulationInit => Inv
  BY InitIInv, InitHandshake, InitTally DEF SimulationInit
<1>2. Inv /\ [SimulationNext]_<<vars, simulationVars>> => Inv'
  <2> SUFFICES ASSUME Inv, [SimulationNext]_<<vars, simulationVars>>
               PROVE  Inv'
    OBVIOUS
  <2>1. [Next]_vars
    BY SimulationStep
  <2>2. IInv' /\ Handshake'
    BY <2>1, NextIInv, NextHandshake
  <2>3. QED
    BY <2>2, NextTally
<1>3. Inv => CountersAgree
  BY DEF Tally, Agreed, CountersAgree
<1>4. QED
  BY <1>1, <1>2, <1>3, PTL DEF SimulationSpec
=============================================================================
