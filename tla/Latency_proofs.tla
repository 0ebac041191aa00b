--------------------------- MODULE Latency_proofs ---------------------------
(***************************************************************************)
(* How many cycles a request takes, without a store-back buffer: the phases *)
(* a request goes through in L1, L2 and MEMORY, and the clock cycle of each. *)
(***************************************************************************)
EXTENDS Hierarchy_proofs

(* The time MEMORY needs for the line of a request and n lines after it.    *)
Reading(n) == MemoryLatency * (n + 1)

(* The cycles of a request, by what it is and where it hits.                *)
InL1For == 1 + L1Latency
InL2For == InL1For + L2Latency
Due(we, hit_L1, hit_L2) ==
    CASE ~we /\ hit_L1             -> InL1For
      [] ~we /\ ~hit_L1 /\ hit_L2  -> InL2For
      [] ~we /\ ~hit_L1 /\ ~hit_L2 -> InL2For + Reading(PrefetchLines)
      [] we                        -> InL2For + Reading(0)

(* The configurations this is about: there is no store-back buffer, and no  *)
(* request takes more cycles than are counted.                              *)
WholeCount ==
    StorebackLines = 0 /\ InL2For + Reading(PrefetchLines) <= CountCap

(* The clock edges since the request was given.                             *)
Elapsed == IF run = "cycle" THEN cycle_count + 1 ELSE cycle_count

(* A thread is to run in this clock cycle, n delta cycles from now.         *)
RunsIn(t, n) == delay[t] = Waiting(0, n)

(* A thread runs in this clock cycle, in at most n delta cycles.            *)
RunsWithin(t, n) == delay[t].clk = 0 /\ delay[t].delta <= n

(* L1 looks for the answer at least n delta cycles after L2 runs.           *)
L1RunsAfter(n) ==
    delay["L2"].clk = 0 =>
        delay["L1"].clk = 0 /\ delay["L1"].delta >= delay["L2"].delta + n

-----------------------------------------------------------------------------
(* The threads without a request.                                           *)
L2Rests ==
    \/ pc["L2"] = "restart"
    \/ pc["L2"] = "poll" /\ (delay["L2"] = Waiting(1, 1) \/ RunsWithin("L2", 2))

MemoryPolls ==
    /\ pc["MEMORY"] = "poll"
    /\ delay["MEMORY"] = Waiting(1, 2) \/ RunsWithin("MEMORY", 2)
    /\ ~flagNext["done_from_Memory"] /\ ~flag["valid_from_L2_to_Memory"]
    /\ flag["done_from_Memory"] => RunsIn("MEMORY", 2)

MemoryRestarts ==
    /\ pc["MEMORY"] = "restart"
    /\ delay["MEMORY"] = Waiting(1, 2) \/ RunsWithin("MEMORY", 2)
    /\ flag["valid_from_L2_to_Memory"] => delay["MEMORY"].delta = 2

(* The last line of a read is out.                                          *)
MemoryLeaves ==
    /\ pc["MEMORY"] = "prefetch" /\ delay["MEMORY"] = Waiting(0, 0)
    /\ memory.i > PrefetchLines

MemoryRests ==
    /\ ~flagNext["valid_from_L2_to_Memory"]
    /\ MemoryPolls \/ MemoryRestarts \/ MemoryLeaves

(* After the first clock edge of a request MEMORY is back at its poll.      *)
MemoryReady ==
    /\ ~flagNext["valid_from_L2_to_Memory"]
    /\ MemoryPolls \/ MemoryRestarts
    /\ Elapsed >= 1 /\ pc["MEMORY"] = "restart" => delay["MEMORY"].clk = 0
    /\ Elapsed >= 2 => pc["MEMORY"] = "poll" /\ ~flag["done_from_Memory"]

NoLines == Len(prefetch.queue) = 0 /\ prefetch.free = PrefetchLines

Idle == L2Rests /\ MemoryRests /\ NoLines

-----------------------------------------------------------------------------
(* The phases of a request.                                                 *)

(* L1 has not seen it.                                                      *)
Arrives ==
    /\ pc["L1"] \in {"restart", "poll"}
    /\ Elapsed + delay["L1"].clk = 1
    /\ L2Rests /\ MemoryReady /\ NoLines

(* L1 looks it up.                                                          *)
L1Looks ==
    /\ pc["L1"] = "access" /\ delay["L1"].delta = 0
    /\ Elapsed + delay["L1"].clk = InL1For
    /\ pc["L2"] = "poll" /\ L2Rests
    /\ delay["L1"].clk = 0 => RunsIn("L2", 1)
    /\ MemoryReady /\ NoLines

(* L1 has asked L2 ...                                                      *)
Asked == L1Awaits /\ flagNext["write_enable_from_L1_to_L2"] = request.we

L2Asked ==
    /\ Asked /\ delay["L1"] \in {Waiting(0, 0), Waiting(1, 6)}
    /\ Elapsed = InL1For
    /\ pc["L2"] = "poll"
    /\ \/ RunsIn("L2", 1)
       \/ /\ RunsIn("L2", 0) /\ flag["valid_from_L1_to_L2"]
          /\ flag["write_enable_from_L1_to_L2"] = request.we
    /\ MemoryReady /\ NoLines

(* ... which has seen the command, and has found nothing yet.               *)
L2Serves ==
    /\ Asked /\ flag["write_enable_from_L1_to_L2"] = request.we
    /\ delay["L1"] = Waiting(1, 6) \/ RunsWithin("L1", 6)
    /\ ~request.we => ~flagNext["hit_from_L2"]

L2Looks ==
    /\ L2Serves
    /\ pc["L2"] = "access" /\ delay["L2"].delta = 0
    /\ Elapsed + delay["L2"].clk = InL2For
    /\ delay["L2"].clk = 0 => RunsIn("L1", 6) /\ RunsIn("MEMORY", 2)
    /\ MemoryReady /\ NoLines

Issues ==
    /\ L2Serves /\ ~request.we
    /\ pc["L2"] = "issue" /\ RunsIn("L2", 0) /\ RunsIn("L1", 6)
    /\ RunsIn("MEMORY", 2)
    /\ Elapsed = InL2For
    /\ MemoryReady /\ NoLines

(* L2 has asked MEMORY ...                                                  *)
L2Waits ==
    /\ L2Serves
    /\ pc["L2"] = IF request.we THEN "await_write" ELSE "await_read"
    /\ flagNext["valid_from_L2_to_Memory"]
    /\ delay["L2"] = Waiting(1, 2) \/ RunsWithin("L2", 2)
    /\ L1RunsAfter(4)
    /\ NoLines

MemoryAsked ==
    /\ L2Waits
    /\ pc["MEMORY"] = "poll" /\ RunsWithin("MEMORY", 2)
    /\ delay["L2"] \in {Waiting(0, 0), Waiting(1, 2)}
    /\ ~flag["done_from_Memory"] /\ ~flagNext["done_from_Memory"]
    /\ flagNext["write_enable_from_L2_to_Memory"] = request.we
    /\ \/ RunsIn("MEMORY", 2)
       \/ /\ flag["valid_from_L2_to_Memory"]
          /\ flag["write_enable_from_L2_to_Memory"] = request.we
    /\ Elapsed = InL2For

(* ... which has taken the command ...                                      *)
MemoryWorks ==
    /\ L2Waits
    /\ pc["MEMORY"] = IF request.we THEN "write" ELSE "read"
    /\ delay["MEMORY"].delta = 0
    /\ ~flag["done_from_Memory"] /\ ~flagNext["done_from_Memory"]
    /\ Elapsed + delay["MEMORY"].clk = InL2For + Reading(0)
    /\ delay["MEMORY"].clk = 0 => RunsIn("L2", 2)

(* ... and answered.                                                        *)
MemoryAnswers ==
    /\ L2Waits
    /\ delay["L2"].clk = 0
    /\ flagNext["done_from_Memory"] /\ (RunsIn("L2", 2) \/ flag["done_from_Memory"])
    /\ Elapsed = InL2For + Reading(0)
    /\ \/ /\ request.we
          /\ pc["MEMORY"] = "restart" /\ delay["MEMORY"] = Waiting(1, 2)
       \/ /\ ~request.we
          /\ pc["MEMORY"] = "prefetch" /\ delay["MEMORY"] = delay["L2"]
          /\ memory.i = 1
       \/ /\ ~request.we /\ RunsIn("L2", 0) /\ PrefetchLines = 0
          /\ pc["MEMORY"] = "restart" /\ RunsIn("MEMORY", 2)
       \/ /\ ~request.we /\ RunsIn("L2", 0) /\ PrefetchLines > 0
          /\ pc["MEMORY"] = "put" /\ memory.i = 1
          /\ delay["MEMORY"] = Waiting(MemoryLatency, 2)

(* MEMORY reads the lines that follow.                                      *)
MemoryFetches ==
    \/ /\ pc["MEMORY"] = "prefetch" /\ RunsIn("MEMORY", 0)
       /\ memory.i \in 1 .. PrefetchLines
       /\ Elapsed = InL2For + Reading(memory.i - 1)
    \/ /\ pc["MEMORY"] = "put" /\ memory.i \in 1 .. PrefetchLines
       /\ Elapsed + delay["MEMORY"].clk = InL2For + Reading(memory.i)
       /\ IF delay["MEMORY"].clk = 0 THEN delay["MEMORY"].delta <= 2
                                     ELSE delay["MEMORY"].delta = 2

LinesPut ==
    IF pc["MEMORY"] \in {"prefetch", "put"} THEN memory.i - 1 ELSE PrefetchLines

(* L2 waits for the next line ...                                           *)
LineAwaited ==
    /\ pc["L2"] = "prefetch" /\ NoLines
    /\ delay["L2"] = Waiting(1, 3) \/ RunsWithin("L2", 3)
    /\ L1RunsAfter(1)
    /\ MemoryFetches /\ l2.i = LinesPut
    /\ pc["MEMORY"] = "put" /\ delay["MEMORY"].clk = 0 =>
           /\ RunsIn("L2", delay["MEMORY"].delta + 1)
           /\ RunsIn("L1", delay["MEMORY"].delta + 4)

MemoryFetchesOn ==
    \/ MemoryFetches /\ pc["MEMORY"] = "put" /\ delay["MEMORY"].clk > 0
    \/ MemoryRests /\ pc["MEMORY"] # "prefetch"

(* ... which is in the buffer ...                                           *)
LineThere ==
    /\ pc["L2"] = "prefetch" /\ Len(prefetch.queue) = 1
    /\ RunsWithin("L2", 1) /\ RunsIn("L1", delay["L2"].delta + 3)
    /\ delay["L2"].delta = 0 => prefetch.avail = 1
    /\ \/ (MemoryFetches \/ MemoryRests)
            /\ pc["MEMORY"] = "prefetch" /\ delay["L2"].delta = 1
       \/ MemoryFetchesOn
    /\ l2.i + 1 = LinesPut
    /\ Elapsed = InL2For + Reading(LinesPut)

(* ... and which L2 has taken out.                                          *)
LineTaken ==
    /\ pc["L2"] = "install" /\ Len(prefetch.queue) = 0
    /\ RunsWithin("L2", 1) /\ RunsIn("L1", delay["L2"].delta + 2)
    /\ delay["L2"].delta = 0 => prefetch.free = PrefetchLines
    /\ MemoryFetchesOn
    /\ l2.i + 1 = LinesPut
    /\ Elapsed = InL2For + Reading(LinesPut)

Fetches ==
    /\ L2Serves /\ ~request.we /\ l2.i < PrefetchLines
    /\ ~flagNext["valid_from_L2_to_Memory"]
    /\ LineAwaited \/ LineThere \/ LineTaken

(* L2 has answered, in time for L1 to see it in the same cycle.             *)
L2Answers ==
    /\ L1Awaits /\ RunsWithin("L1", 6)
    /\ pc["L2"] = "restart" /\ delay["L2"] = Waiting(1, 0)
    /\ flagNext["done_from_L2"] /\ (RunsIn("L1", 0) => flag["done_from_L2"])
    /\ Elapsed = Due(request.we, FALSE, flagNext["hit_from_L2"])
    /\ MemoryRests /\ NoLines

(* L1 has answered, in time for send_request().                             *)
L1Answers ==
    /\ run = "cycle"
    /\ pc["L1"] = "restart" /\ delay["L1"] = Waiting(1, 0)
    /\ flagNext["done_from_L1"]
    /\ Elapsed = Due(request.we, flagNext["hit_from_L1"], flagNext["hit_from_L2"])
    /\ L2Rests /\ MemoryRests /\ NoLines

Phases ==
    \/ Arrives \/ L1Looks \/ L2Asked \/ L2Looks \/ Issues
    \/ MemoryAsked \/ MemoryWorks \/ MemoryAnswers \/ Fetches
    \/ L2Answers \/ L1Answers

Timeline ==
    /\ stage \in {"idle", "request"} => ~memory.write_underway
    /\ stage = "idle" => Idle
    /\ stage = "request" =>
           flag["valid"] /\ flagNext["valid"] /\ ~stats.answered /\ Phases

-----------------------------------------------------------------------------
(* What the numbers are.                                                    *)
LEMMA Numbers ==
    ASSUME IInv
    PROVE  /\ PrefetchLines \in Nat /\ l2.i \in Nat /\ memory.i \in Nat
           /\ Len(prefetch.queue) \in Nat /\ prefetch.free \in Nat
           /\ prefetch.avail \in Nat
           /\ prefetch.avail <= Len(prefetch.queue)
           /\ pc \in [Thread -> Label]
           /\ flag \in [Flag -> BOOLEAN] /\ flagNext \in [Flag -> BOOLEAN]
           /\ \A t \in Thread : /\ delay[t].clk \in Nat /\ delay[t].delta \in Nat
                                /\ delay[t] = Waiting(delay[t].clk, delay[t].delta)
           /\ L1Latency \in Nat \ {0} /\ L2Latency \in Nat \ {0}
           /\ MemoryLatency \in Nat \ {0} /\ Elapsed \in Nat /\ CountCap \in Nat
<1>1. Len(prefetch.queue) \in Nat /\ prefetch.free \in Nat /\ prefetch.avail \in Nat
  BY LenProperties DEF IInv, TypeOK, PrefetchTypeOK
<1>2. prefetch.avail <= Len(prefetch.queue)
  BY DEF IInv, BuffersOK, FifoBounded
<1>3. /\ pc \in [Thread -> Label] /\ flag \in [Flag -> BOOLEAN]
      /\ flagNext \in [Flag -> BOOLEAN]
      /\ \A t \in Thread : /\ delay[t].clk \in Nat /\ delay[t].delta \in Nat
                           /\ delay[t] = Waiting(delay[t].clk, delay[t].delta)
  BY DEF IInv, TypeOK, KernelTypeOK, Delay, Waiting
<1>4. l2.i \in Nat /\ memory.i \in Nat /\ Elapsed \in Nat
  BY DEF IInv, TypeOK, L2TypeOK, MemoryTypeOK, Elapsed
<1>5. QED
  BY <1>1, <1>2, <1>3, <1>4, ConstantsAssumption

(* How the time for the lines of a read grows.                              *)
LEMMA ReadingNumbers ==
    /\ InL1For \in Nat /\ InL1For >= 2 /\ InL2For \in Nat /\ InL2For >= 3
    /\ Reading(0) = MemoryLatency /\ Reading(1) = 2 * MemoryLatency
    /\ \A n \in Nat : /\ Reading(n) \in Nat \ {0}
                      /\ Reading(n + 1) = Reading(n) + MemoryLatency
    /\ \A m, n \in Nat : m <= n => Reading(m) <= Reading(n)
<1>1. MemoryLatency \in Nat \ {0}
  BY ConstantsAssumption
<1>2. Reading(0) = MemoryLatency /\ Reading(1) = 2 * MemoryLatency
  BY <1>1 DEF Reading
<1>3. ASSUME NEW n \in Nat
      PROVE  /\ Reading(n) \in Nat \ {0}
             /\ Reading(n + 1) = Reading(n) + MemoryLatency
  BY <1>1 DEF Reading
<1>4. ASSUME NEW m \in Nat, NEW n \in Nat, m <= n
      PROVE  Reading(m) <= Reading(n)
  <2>1. PICK k \in Nat : n = m + k
    <3>1. n - m \in Nat /\ n = m + (n - m)
      BY <1>4
    <3>2. QED
      BY <3>1
  <2>2. MemoryLatency * k \in Nat /\ Reading(n) = Reading(m) + MemoryLatency * k
    BY <1>1, <2>1 DEF Reading
  <2>3. QED
    BY <1>3, <2>2
<1>5. /\ InL1For \in Nat /\ InL1For >= 2 /\ InL2For \in Nat /\ InL2For >= 3
  BY ConstantsAssumption DEF InL1For, InL2For
<1>6. QED
  BY <1>2, <1>3, <1>4, <1>5

(* A thread that runs is told from one that waits.                          *)
LEMMA NowOrLater ==
    ASSUME IInv, NEW t \in Thread
    PROVE  /\ \A n \in Nat : RunsIn(t, n) <=> delay[t].clk = 0 /\ delay[t].delta = n
           /\ \A c, d : delay[t] = Waiting(c, d)
                          <=> delay[t].clk = c /\ delay[t].delta = d
  BY SMTT(30), Numbers, WaitingFields, WaitingDiffers DEF RunsIn

(* What a step of a thread leaves alone of the request and its time.        *)
Sameclock ==
    /\ run' = run /\ cycle_count' = cycle_count /\ request' = request
    /\ stage' = stage /\ stats' = stats

(* The request is being served.                                             *)
AtWork == IInv /\ Serves /\ Timeline /\ WholeCount

(* Where a thread waits tells the phase.                                    *)
LEMMA PhaseOfL1 ==
    ASSUME Phases
    PROVE  /\ pc["L1"] = "restart" => Arrives \/ L1Answers
           /\ pc["L1"] = "poll" => Arrives
           /\ pc["L1"] = "access" => L1Looks
           /\ L1Awaits => \/ L2Asked \/ L2Looks \/ Issues \/ MemoryAsked
                          \/ MemoryWorks \/ MemoryAnswers \/ Fetches \/ L2Answers
  BY DEF Phases, Arrives, L1Looks, L1Answers, L2Asked, L2Looks, Issues,
         MemoryAsked, MemoryWorks, MemoryAnswers, Fetches, L2Answers, L2Waits,
         L2Serves, Asked, L1Awaits

LEMMA PhaseOfL2 ==
    ASSUME Phases
    PROVE  /\ pc["L2"] = "restart" => Arrives \/ L2Answers \/ L1Answers
           /\ pc["L2"] = "poll" => Arrives \/ L1Looks \/ L2Asked \/ L1Answers
           /\ pc["L2"] = "access" => L2Looks
           /\ pc["L2"] = "issue" => Issues
           /\ pc["L2"] \in {"await_write", "await_read"} =>
                  MemoryAsked \/ MemoryWorks \/ MemoryAnswers
           /\ pc["L2"] \in {"prefetch", "install"} => Fetches
           /\ pc["L2"] \notin {"store", "retry", "flush"}
  BY DEF Phases, Arrives, L1Looks, L1Answers, L2Asked, L2Looks, Issues,
         MemoryAsked, MemoryWorks, MemoryAnswers, Fetches, L2Answers, L2Waits,
         L2Rests, LineAwaited, LineThere, LineTaken

LEMMA PhaseOfMemory ==
    ASSUME Phases
    PROVE  /\ pc["MEMORY"] \in {"restart", "poll"} =>
                  \/ Arrives \/ L1Looks \/ L2Asked \/ L2Looks \/ Issues
                  \/ MemoryAsked \/ MemoryAnswers \/ Fetches
                  \/ L2Answers \/ L1Answers
           /\ pc["MEMORY"] \in {"read", "write"} => MemoryWorks
           /\ pc["MEMORY"] = "prefetch" =>
                  MemoryAnswers \/ Fetches \/ L2Answers \/ L1Answers
           /\ pc["MEMORY"] = "put" => MemoryAnswers \/ Fetches
           /\ pc["MEMORY"] \in {"restart", "poll", "read", "write", "prefetch",
                                "put"}
  BY DEF Phases, Arrives, L1Looks, L1Answers, L2Asked, L2Looks, Issues,
         MemoryAsked, MemoryWorks, MemoryAnswers, Fetches, L2Answers, L2Waits,
         LineAwaited, LineThere, LineTaken, MemoryReady, MemoryRests, MemoryPolls,
         MemoryRestarts, MemoryLeaves, MemoryFetches, MemoryFetchesOn

-----------------------------------------------------------------------------
(* L1.                                                                      *)

(* What L2 and MEMORY wait for is not touched by a step of L1.              *)
LEMMA L1Leaves ==
    ASSUME Sameclock, UNCHANGED <<l2, memory, prefetch>>,
           \A t \in {"L2", "MEMORY"} : pc'[t] = pc[t] /\ delay'[t] = delay[t],
           flag' = flag,
           \A s \in {"valid_from_L2_to_Memory", "done_from_Memory", "valid",
                     "write_enable_from_L2_to_Memory"} : flagNext'[s] = flagNext[s]
    PROVE  /\ Elapsed' = Elapsed
           /\ L2Rests <=> L2Rests'
           /\ MemoryRests <=> MemoryRests'
           /\ MemoryReady <=> MemoryReady'
           /\ NoLines <=> NoLines'
           /\ MemoryFetches <=> MemoryFetches'
           /\ MemoryFetchesOn <=> MemoryFetchesOn'
           /\ LinesPut' = LinesPut
<1>1. Elapsed' = Elapsed /\ (L2Rests <=> L2Rests') /\ (NoLines <=> NoLines')
  BY DEF Sameclock, Elapsed, L2Rests, RunsWithin, NoLines
<1>2. /\ MemoryPolls <=> MemoryPolls' 
      /\ MemoryRestarts <=> MemoryRestarts'
      /\ MemoryLeaves <=> MemoryLeaves'
  BY DEF MemoryPolls, MemoryRestarts, MemoryLeaves, RunsWithin, RunsIn
<1>3. /\ MemoryRests <=> MemoryRests' 
      /\ MemoryReady <=> MemoryReady'
  BY <1>1, <1>2 DEF MemoryRests, MemoryReady
<1>4. MemoryFetches <=> MemoryFetches'
  BY <1>1 DEF MemoryFetches, RunsIn
<1>5. MemoryFetchesOn <=> MemoryFetchesOn'
  BY <1>3, <1>4 DEF MemoryFetchesOn
<1>6. LinesPut' = LinesPut
  BY DEF LinesPut
<1>7. QED
  BY <1>1, <1>3, <1>4, <1>5, <1>6

(* The phase that a step leads to is a phase of the same request.           *)
LEMMA NextPhase ==
    ASSUME AtWork, Sameclock, memory'.write_underway = memory.write_underway,
           flag'["valid"] = flag["valid"], flagNext'["valid"] = flagNext["valid"],
           Phases'
    PROVE  Timeline'
  BY DEF AtWork, Timeline, Sameclock, Serves

(* L1 begins to look for the request.                                       *)
LEMMA L1RestartTime ==
    ASSUME AtWork, Sameclock, L1Restart, UNCHANGED <<l2, memory, prefetch>>
    PROVE  Timeline'
<1>1. ThreadMoves("L1", "restart", "poll", 0, 2)
  BY ThreadMovesSuspend DEF L1Restart, Thread, AtWork
<1>2. /\ Drives({"done_from_L1", "hit_from_L1"})
  BY DEF L1Restart, Drive, Drives, Flag, AtWork, IInv, TypeOK, KernelTypeOK
<1> USE <1>1, <1>2, Numbers, WaitingFields, WaitingDiffers
    DEF AtWork, ThreadMoves, Drives, Flag, Thread
<1>3. Arrives
  BY PhaseOfL1 DEF Timeline, Serves, L1Answers
<1>4. Arrives'
  BY <1>3, L1Leaves DEF Arrives
<1>5. QED
  BY <1>4, NextPhase DEF Phases

(* It sees it two delta cycles later.                                       *)
LEMMA L1PollTime ==
    ASSUME AtWork, Sameclock, L1Poll, UNCHANGED <<l2, memory, prefetch>>
    PROVE  Timeline'
<1>1. Arrives /\ flag["valid"]
  BY PhaseOfL1 DEF AtWork, Timeline, Serves, L1Poll, Runs
<1>2. ThreadMoves("L1", "poll", "access", L1Latency, 0)
  BY <1>1, ThreadMovesSuspend DEF L1Poll, Thread, AtWork
<1>3. flag' = flag /\ flagNext' = flagNext
  BY DEF L1Poll, signalVars
<1> USE <1>1, <1>2, <1>3, Numbers, WaitingFields, WaitingDiffers
    DEF AtWork, ThreadMoves, Flag, Thread
<1>4. pc["L2"] = "poll"
  BY DEF Arrives, L2Rests, Serves, AnswerUp, L1AtEdge, L1Awaits
<1>5. L1Looks'
  BY SMTT(30), <1>4, L1Leaves DEF Arrives, L1Looks, InL1For
<1>6. QED
  BY <1>5, NextPhase DEF Phases

(* It passes a write, or a read that it misses, on to L2.                   *)
LEMMA L1PropagateTime ==
    ASSUME AtWork, Sameclock, L1Write \/ L1ReadMiss,
           UNCHANGED <<l2, memory, prefetch>>
    PROVE  Timeline'
<1>1. \/ ThreadMoves("L1", "access", "await_write", 0, 0)
      \/ ThreadMoves("L1", "access", "await_read", 0, 0)
  BY ThreadMovesSuspend DEF L1Write, L1ReadMiss, Thread, AtWork
<1>2. /\ Drives({"hit_from_L1", "write_enable_from_L1_to_L2",
                 "valid_from_L1_to_L2"})
      /\ flagNext'["write_enable_from_L1_to_L2"] = flag["write_enable"]
  BY DEF L1Write, L1ReadMiss, L1Propagate, Drive, Drives, Flag, AtWork, IInv,
         TypeOK, KernelTypeOK
<1> USE <1>1, <1>2, Numbers, WaitingFields, WaitingDiffers
    DEF AtWork, ThreadMoves, Drives, Flag, Thread
<1>3. L1Looks /\ flag["write_enable"] = request.we
  BY PhaseOfL1 DEF Timeline, Serves, Sampled
<1>4. Elapsed' = InL1For /\ MemoryReady' /\ NoLines'
  <2>1. Elapsed' = Elapsed /\ MemoryReady' /\ NoLines'
    BY <1>3, L1Leaves DEF L1Looks
  <2>2. delay["L1"].clk = 0
    OBVIOUS
  <2>3. QED
    BY <1>3, <2>1, <2>2 DEF L1Looks
<1>5. RunsIn("L2", 1)' /\ pc'["L2"] = "poll"
  BY SMTT(30), <1>3 DEF L1Looks, RunsIn
<1>6. Asked'
  BY <1>3 DEF Asked, L1Awaits, Sameclock
<1>7. L2Asked'
  BY <1>4, <1>5, <1>6 DEF L2Asked
<1>8. QED
  BY <1>7, NextPhase DEF Phases

(* It finds the word of a read.                                             *)
LEMMA L1ReadHitTime ==
    ASSUME AtWork, Sameclock, L1ReadHit, UNCHANGED <<l2, memory, prefetch>>
    PROVE  Timeline'
<1>1. ThreadMoves("L1", "access", "restart", 1, 0) /\ ~flag["write_enable"]
  BY ThreadMovesSuspend DEF L1ReadHit, Thread, AtWork
<1>2. /\ Drives({"hit_from_L1", "done_from_L1"})
      /\ flagNext'["hit_from_L1"] /\ flagNext'["done_from_L1"]
  BY DEF L1ReadHit, Drive, Drives, Flag, AtWork, IInv, TypeOK, KernelTypeOK
<1> USE <1>1, <1>2, Numbers, WaitingFields, WaitingDiffers
    DEF AtWork, ThreadMoves, Drives, Flag, Thread
<1>3. L1Looks /\ ~request.we
  BY PhaseOfL1 DEF Timeline, Serves, Sampled
<1>4. Elapsed' = Due(request'.we, flagNext'["hit_from_L1"], flagNext'["hit_from_L2"])
  <2>1. Elapsed' = Elapsed
    BY L1Leaves
  <2>2. Elapsed' = InL1For
    BY <1>3, <2>1 DEF L1Looks
  <2>3. Due(request'.we, flagNext'["hit_from_L1"], flagNext'["hit_from_L2"]) = InL1For
    BY <1>3 DEF Due, Sameclock
  <2>4. QED
    BY <2>2, <2>3
<1>5. MemoryRests
  BY <1>3 DEF L1Looks, MemoryReady, MemoryRests
<1>6. L1Answers'
  BY <1>3, <1>4, <1>5, L1Leaves DEF L1Looks, L1Answers, Serves
<1>7. QED
  BY <1>6, NextPhase DEF Phases

(* It goes on waiting; L2 does not look in this cycle any more.             *)
LEMMA L1StillWaitingTime ==
    ASSUME AtWork, Sameclock, L1StillWaiting, UNCHANGED <<l2, memory, prefetch>>
    PROVE  Timeline'
<1>1. /\ \/ ThreadMoves("L1", "await_write", "await_write", 1, 6)
         \/ ThreadMoves("L1", "await_read", "await_read", 1, 6)
      /\ ~flag["done_from_L2"]
  BY ThreadMovesSuspend DEF L1StillWaiting, Thread, AtWork
<1>2. flag' = flag /\ flagNext' = flagNext
  BY DEF L1StillWaiting, signalVars
<1> USE <1>1, <1>2, Numbers, WaitingFields, WaitingDiffers, L1Leaves
    DEF AtWork, ThreadMoves, Flag, Thread
<1>3. Asked => Asked'
  BY DEF Asked, L1Awaits, Sameclock
<1>4. L2Serves => L2Serves'
  BY <1>3 DEF L2Serves, Sameclock
<1>5. \/ L2Asked \/ L2Looks \/ Issues \/ MemoryAsked \/ MemoryWorks
      \/ MemoryAnswers \/ Fetches \/ L2Answers
  BY PhaseOfL1 DEF Timeline, Serves, L1Awaits
<1>6. CASE L2Asked
  <2>1. L2Asked'
    BY <1>3, <1>6 DEF L2Asked, RunsIn, Sameclock
  <2>2. QED
    BY <2>1, NextPhase DEF Phases
<1>7. CASE L2Looks
  <2>1. delay["L2"].clk # 0
    BY <1>7, NowOrLater DEF L2Looks
  <2>2. L2Looks'
    BY <1>4, <1>7, <2>1 DEF L2Looks
  <2>3. QED
    BY <2>2, NextPhase DEF Phases
<1>8. ~Issues /\ ~L2Answers
  <2>1. RunsIn("L1", 0) /\ ~RunsIn("L1", 6)
    BY DEF RunsIn
  <2>2. QED
    BY <2>1 DEF Issues, L2Answers
<1>9. L2Waits => L2Waits' /\ delay["L2"].clk # 0
  BY SMTT(30), <1>4 DEF L2Waits, L1RunsAfter, RunsWithin, Sameclock
<1>10. CASE MemoryAsked
  <2>1. MemoryAsked'
    BY <1>9, <1>10 DEF MemoryAsked, RunsWithin, RunsIn, Sameclock
  <2>2. QED
    BY <2>1, NextPhase DEF Phases
<1>11. CASE MemoryWorks
  <2>1. MemoryWorks'
    BY <1>9, <1>11 DEF MemoryWorks, RunsIn, Sameclock
  <2>2. QED
    BY <2>1, NextPhase DEF Phases
<1>12. ~MemoryAnswers
  BY <1>9 DEF MemoryAnswers
<1>13. CASE Fetches
  <2>1. ~LineThere /\ ~LineTaken
    BY NowOrLater DEF LineThere, LineTaken, RunsIn, RunsWithin
  <2>2. LineAwaited /\ delay["L2"].clk # 0
    BY SMTT(30), <1>13, <2>1 DEF Fetches, LineAwaited, L1RunsAfter
  <2>3. pc["MEMORY"] = "put" => delay["MEMORY"].clk # 0
    BY SMTT(30), <2>2 DEF LineAwaited, RunsIn
  <2>4. pc'["L2"] = pc["L2"] /\ delay'["L2"] = delay["L2"]
        /\ pc'["MEMORY"] = pc["MEMORY"] /\ delay'["MEMORY"] = delay["MEMORY"]
    OBVIOUS
  <2>5. LineAwaited'
    BY <2>2, <2>3, <2>4 DEF LineAwaited, L1RunsAfter, RunsWithin
  <2>6. Fetches'
    BY <1>4, <1>13, <2>5 DEF Fetches, Sameclock
  <2>7. QED
    BY <2>6, NextPhase DEF Phases
<1>14. QED
  BY <1>5, <1>6, <1>7, <1>8, <1>10, <1>11, <1>12, <1>13

(* It sees the answer of L2.                                                *)
LEMMA L1CompleteTime ==
    ASSUME AtWork, Sameclock, L1WriteDone \/ L1Fill,
           UNCHANGED <<l2, memory, prefetch>>
    PROVE  Timeline'
<1>1. /\ \/ ThreadMoves("L1", "await_write", "restart", 1, 0)
         \/ ThreadMoves("L1", "await_read", "restart", 1, 0)
      /\ flag["done_from_L2"]
  BY ThreadMovesSuspend DEF L1WriteDone, L1Fill, L1Complete, Thread, AtWork
<1>2. /\ Drives({"valid_from_L1_to_L2", "done_from_L1"})
      /\ flagNext'["done_from_L1"]
  BY DEF L1WriteDone, L1Fill, L1Complete, Drive, Drives, Flag, AtWork, IInv,
         TypeOK, KernelTypeOK
<1> USE <1>1, <1>2, Numbers, WaitingFields, WaitingDiffers, L1Leaves
    DEF AtWork, ThreadMoves, Drives, Flag, Thread
<1>3. pc["L2"] = "restart"
  BY SMTT(30) DEF Serves, AnswerUp, L2Withdraws, L1AtEdge, L1Awaits
<1>4. L2Answers
  BY <1>3, PhaseOfL2 DEF Timeline, Serves, Arrives, L1Answers
<1>5. ~request.we => ~flagNext["hit_from_L1"]
  BY DEF Serves, Sampled
<1>6. Elapsed' = Due(request'.we, flagNext'["hit_from_L1"], flagNext'["hit_from_L2"])
  <2>1. Elapsed' = Due(request.we, FALSE, flagNext["hit_from_L2"])
    BY <1>4 DEF L2Answers
  <2>2. Due(request'.we, flagNext'["hit_from_L1"], flagNext'["hit_from_L2"])
          = Due(request.we, FALSE, flagNext["hit_from_L2"])
    BY <1>5 DEF Due, Sameclock
  <2>3. QED
    BY <2>1, <2>2
<1>7. L1Answers'
  BY <1>4, <1>6 DEF L2Answers, L1Answers, L2Rests, Serves
<1>8. QED
  BY <1>7, NextPhase DEF Phases

-----------------------------------------------------------------------------
(* L2.                                                                      *)

(* What a step of L2 that gives MEMORY no command leaves alone.             *)
LEMMA L2Leaves ==
    ASSUME Sameclock, UNCHANGED memory,
           \A t \in {"L1", "MEMORY"} : pc'[t] = pc[t] /\ delay'[t] = delay[t],
           flag' = flag,
           \A s \in {"valid_from_L2_to_Memory", "done_from_Memory"} :
               flagNext'[s] = flagNext[s]
    PROVE  /\ Elapsed' = Elapsed
           /\ MemoryRests <=> MemoryRests'
           /\ MemoryReady <=> MemoryReady'
           /\ MemoryFetches <=> MemoryFetches'
           /\ MemoryFetchesOn <=> MemoryFetchesOn'
           /\ LinesPut' = LinesPut
<1>1. Elapsed' = Elapsed
  BY DEF Sameclock, Elapsed
<1>2. /\ MemoryPolls <=> MemoryPolls'
      /\ MemoryRestarts <=> MemoryRestarts'
      /\ MemoryLeaves <=> MemoryLeaves'
  BY DEF MemoryPolls, MemoryRestarts, MemoryLeaves, RunsWithin, RunsIn
<1>3. /\ MemoryRests <=> MemoryRests'
      /\ MemoryReady <=> MemoryReady'
  BY <1>1, <1>2 DEF MemoryRests, MemoryReady
<1>4. MemoryFetches <=> MemoryFetches'
  BY <1>1 DEF MemoryFetches, RunsIn
<1>5. MemoryFetchesOn <=> MemoryFetchesOn'
  BY <1>3, <1>4 DEF MemoryFetchesOn
<1>6. LinesPut' = LinesPut
  BY DEF LinesPut
<1>7. QED
  BY <1>1, <1>3, <1>4, <1>5, <1>6

(* L2 withdraws its answer to the request before.                           *)
LEMMA L2RestartTime ==
    ASSUME AtWork, Sameclock, L2Restart, UNCHANGED <<memory, prefetch>>
    PROVE  Timeline'
<1>1. ThreadMoves("L2", "restart", "poll", 0, 2)
  BY ThreadMovesSuspend DEF L2Restart, Thread, AtWork
<1>2. Drives({"done_from_L2", "hit_from_L2"})
  BY DEF L2Restart, Drive, Drives, Flag, AtWork, IInv, TypeOK, KernelTypeOK
<1> USE <1>1, <1>2, Numbers, WaitingFields, WaitingDiffers
    DEF AtWork, ThreadMoves, Drives, Flag, Thread
<1>3. Arrives
  <2>1. Arrives \/ L2Answers \/ L1Answers
    BY PhaseOfL2 DEF Timeline, Serves
  <2>2. delay["L2"] # Waiting(1, 0)
    BY WaitingDiffers
  <2>3. L1AtEdge
    BY DEF Serves, AnswerUp
  <2>4. ~L1Answers
    BY <2>3 DEF L1Answers, L1AtEdge, L1Awaits
  <2>5. QED
    BY <2>1, <2>2, <2>4 DEF L2Answers
<1>4. L2Rests'
  BY DEF L2Rests, RunsWithin
<1>5. Arrives'
  BY <1>3, <1>4, L2Leaves DEF Arrives, NoLines
<1>6. QED
  BY <1>5, NextPhase DEF Phases

(* It looks for a command of L1.                                            *)
LEMMA L2PollTime ==
    ASSUME AtWork, Sameclock, L2Poll, UNCHANGED <<memory, prefetch>>
    PROVE  Timeline'
<1>1. flag' = flag /\ flagNext' = flagNext
  BY DEF L2Poll, signalVars
<1>2. pc["L2"] = "poll" /\ delay["L2"] = Waiting(0, 0)
  BY WaitingFields DEF L2Poll, Runs
<1>3. CASE flag["valid_from_L1_to_L2"]
  <2>1. ThreadMoves("L2", "poll", "access", L2Latency, 0)
    BY <1>3, ThreadMovesSuspend DEF L2Poll, Thread, AtWork
  <2> USE <1>1, <2>1, Numbers, WaitingFields, WaitingDiffers
      DEF AtWork, ThreadMoves, Flag, Thread
  <2>2. L1Awaits
    BY <1>3 DEF Serves, CommandUp
  <2>3. L2Asked
    BY <2>2, PhaseOfL2 DEF Timeline, Serves, Arrives, L1Looks, L1Answers, L1Awaits
  <2>4. flag["write_enable_from_L1_to_L2"] = request.we
    BY <2>3 DEF L2Asked, RunsIn
  <2>5. ~flagNext["hit_from_L2"]
    BY DEF Serves, AnswerUp, L2Withdraws
  <2>6. L2Serves'
    BY <2>3, <2>4, <2>5
    DEF L2Serves, L2Asked, Asked, L1Awaits, Sameclock, RunsWithin
  <2>7. Elapsed' + delay'["L2"].clk = InL2For /\ MemoryReady' /\ NoLines'
    BY <2>3, L2Leaves DEF L2Asked, InL2For, NoLines
  <2>8. L2Looks'
    BY <2>6, <2>7 DEF L2Looks
  <2>9. QED
    BY <2>8, NextPhase DEF Phases
<1>4. CASE ~flag["valid_from_L1_to_L2"]
  <2>1. ThreadMoves("L2", "poll", "poll", 1, 1)
    BY <1>4, ThreadMovesSuspend DEF L2Poll, Thread, AtWork
  <2> USE <1>1, <2>1, Numbers, WaitingFields, WaitingDiffers
      DEF AtWork, ThreadMoves, Flag, Thread
  <2>2. L2Rests'
    BY DEF L2Rests
  <2>3. ~L2Asked
    BY <1>4 DEF L2Asked, RunsIn
  <2>4. CASE Arrives
    <3>1. Arrives'
      BY <2>2, <2>4, L2Leaves DEF Arrives, NoLines
    <3>2. QED
      BY <3>1, NextPhase DEF Phases
  <2>5. CASE L1Looks
    <3>1. delay["L1"].clk # 0
      BY <2>5 DEF L1Looks, RunsIn
    <3>2. L1Looks'
      BY <2>2, <2>5, <3>1, L2Leaves DEF L1Looks, NoLines
    <3>3. QED
      BY <3>2, NextPhase DEF Phases
  <2>6. CASE L1Answers
    <3>1. L1Answers'
      BY <2>2, <2>6, L2Leaves DEF L1Answers, NoLines, Sameclock
    <3>2. QED
      BY <3>1, NextPhase DEF Phases
  <2>7. QED
    BY <2>3, <2>4, <2>5, <2>6, PhaseOfL2 DEF Timeline, Serves
<1>5. QED
  BY <1>3, <1>4

(* When L2 has looked a request up MEMORY is about to poll, and L1 looks     *)
(* for the answer six delta cycles later.                                   *)
LEMMA L2LooksNow ==
    ASSUME AtWork, L2Looks, delay["L2"] = Waiting(0, 0)
    PROVE  /\ RunsIn("L1", 6) /\ RunsIn("MEMORY", 2) /\ Elapsed = InL2For
           /\ pc["MEMORY"] = "poll"
           /\ ~flag["done_from_Memory"] /\ ~flagNext["done_from_Memory"]
           /\ flag["write_enable_from_L1_to_L2"] = request.we
<1>1. delay["L2"].clk = 0 /\ Elapsed \in Nat
  BY WaitingFields, Numbers DEF AtWork
<1>2. RunsIn("L1", 6) /\ RunsIn("MEMORY", 2) /\ Elapsed = InL2For
  BY <1>1 DEF L2Looks
<1>3. Elapsed >= 2
  BY <1>2, Numbers DEF AtWork, InL2For, InL1For
<1>4. QED
  BY <1>2, <1>3 DEF L2Looks, L2Serves, MemoryReady, MemoryPolls, MemoryRestarts

(* A write goes on to MEMORY.                                               *)
LEMMA L2WriteTime ==
    ASSUME AtWork, Sameclock, L2Write, UNCHANGED <<memory, prefetch>>
    PROVE  Timeline'
<1>1. ~HasStoreback
  BY Numbers DEF AtWork, WholeCount, HasStoreback
<1>2. ThreadMoves("L2", "access", "await_write", 0, 0)
  BY <1>1, ThreadMovesSuspend DEF L2Write, Thread, AtWork
<1>3. /\ Drives({"hit_from_L2", "valid_from_L2_to_Memory",
                 "write_enable_from_L2_to_Memory"})
      /\ flagNext'["valid_from_L2_to_Memory"]
      /\ flagNext'["write_enable_from_L2_to_Memory"]
      /\ flag["write_enable_from_L1_to_L2"]
  BY DEF L2Write, Drive, Drives, Flag, AtWork, IInv, TypeOK, KernelTypeOK
<1> USE <1>2, <1>3, Numbers, WaitingFields, WaitingDiffers
    DEF AtWork, ThreadMoves, Drives, Flag, Thread
<1>4. L2Looks
  BY PhaseOfL2 DEF Timeline, Serves
<1>5. /\ RunsIn("L1", 6) /\ RunsIn("MEMORY", 2) /\ Elapsed = InL2For
      /\ pc["MEMORY"] = "poll" /\ request.we
      /\ ~flag["done_from_Memory"] /\ ~flagNext["done_from_Memory"]
  BY <1>4, L2LooksNow
<1>6. L2Serves'
  BY <1>4, <1>5 DEF L2Looks, L2Serves, Asked, L1Awaits, Sameclock, RunsWithin
<1>7. L2Waits'
  BY SMTT(30), <1>4, <1>5, <1>6
  DEF L2Looks, L2Waits, L1RunsAfter, NoLines, Sameclock, RunsWithin, RunsIn
<1>8. Elapsed' = InL2For /\ RunsIn("MEMORY", 2)' /\ RunsWithin("MEMORY", 2)'
  BY SMTT(30), <1>5 DEF Sameclock, Elapsed, RunsIn, RunsWithin
<1>9. /\ ~flag'["done_from_Memory"] /\ ~flagNext'["done_from_Memory"]
      /\ flagNext'["write_enable_from_L2_to_Memory"] = request'.we
  <2>1. request.we \in BOOLEAN /\ flagNext'["write_enable_from_L2_to_Memory"] = TRUE
    BY DEF IInv, TypeOK, Request, L2Write, Drive, KernelTypeOK
  <2>2. QED
    BY <1>5, <2>1 DEF Sameclock
<1>10. MemoryAsked'
  BY <1>5, <1>7, <1>8, <1>9 DEF MemoryAsked
<1>11. QED
  BY <1>10, NextPhase DEF Phases

(* L2 finds the line of a read.                                             *)
LEMMA L2ReadHitTime ==
    ASSUME AtWork, Sameclock, L2ReadHit, UNCHANGED <<memory, prefetch>>
    PROVE  Timeline'
<1>1. ThreadMoves("L2", "access", "restart", 1, 0)
  BY ThreadMovesSuspend DEF L2ReadHit, L2Complete, Thread, AtWork
<1>2. /\ Drives({"hit_from_L2", "done_from_L2"})
      /\ flagNext'["hit_from_L2"] /\ flagNext'["done_from_L2"]
      /\ ~flag["write_enable_from_L1_to_L2"]
  BY DEF L2ReadHit, L2Complete, Drive, Drives, Flag, AtWork, IInv, TypeOK,
         KernelTypeOK
<1> USE <1>1, <1>2, Numbers, WaitingFields, WaitingDiffers
    DEF AtWork, ThreadMoves, Drives, Flag, Thread
<1>3. L2Looks
  BY PhaseOfL2 DEF Timeline, Serves
<1>4. RunsIn("L1", 6) /\ Elapsed = InL2For /\ ~request.we
  BY <1>3, L2LooksNow
<1>5. Elapsed' = Due(request'.we, FALSE, flagNext'["hit_from_L2"])
  <2>1. Elapsed' = InL2For
    BY <1>4 DEF Elapsed, Sameclock
  <2>2. Due(request'.we, FALSE, flagNext'["hit_from_L2"]) = InL2For
    BY <1>4 DEF Due, Sameclock
  <2>3. QED
    BY <2>1, <2>2
<1>6. MemoryRests' /\ NoLines'
  BY <1>3, L2Leaves DEF L2Looks, MemoryReady, MemoryRests, NoLines
<1>7. L2Answers'
  BY SMTT(30), <1>3, <1>4, <1>5, <1>6
  DEF L2Looks, L2Serves, Asked, L2Answers, L1Awaits, RunsIn, RunsWithin
<1>8. QED
  BY <1>7, NextPhase DEF Phases

(* L2 does not find it, and will ask MEMORY at once.                        *)
LEMMA L2ReadMissTime ==
    ASSUME AtWork, Sameclock, L2ReadMiss, UNCHANGED <<memory, prefetch>>
    PROVE  Timeline'
<1>1. ~HasStoreback
  BY Numbers DEF AtWork, WholeCount, HasStoreback
<1>2. ThreadMoves("L2", "access", "issue", 0, 0)
  BY <1>1, ThreadMovesSuspend DEF L2ReadMiss, Thread, AtWork
<1>3. /\ flag' = flag /\ flagNext' = flagNext
      /\ ~flag["write_enable_from_L1_to_L2"]
  BY DEF L2ReadMiss, signalVars
<1> USE <1>2, <1>3, Numbers, WaitingFields, WaitingDiffers
    DEF AtWork, ThreadMoves, Flag, Thread
<1>4. L2Looks
  BY PhaseOfL2 DEF Timeline, Serves
<1>5. /\ RunsIn("L1", 6) /\ RunsIn("MEMORY", 2) /\ Elapsed = InL2For
      /\ ~request.we
  BY <1>4, L2LooksNow
<1>6. L2Serves'
  BY <1>4 DEF L2Looks, L2Serves, Asked, L1Awaits, Sameclock, RunsWithin
<1>7. MemoryReady' /\ NoLines' /\ Elapsed' = InL2For
  BY <1>4, <1>5, L2Leaves DEF L2Looks, NoLines
<1>8. Issues'
  BY <1>5, <1>6, <1>7 DEF Issues, Sameclock, RunsIn
<1>9. QED
  BY <1>8, NextPhase DEF Phases

LEMMA L2IssueTime ==
    ASSUME AtWork, Sameclock, L2Issue, UNCHANGED <<memory, prefetch>>
    PROVE  Timeline'
<1>1. ThreadMoves("L2", "issue", "await_read", 0, 0)
  BY ThreadMovesSuspend DEF L2Issue, Thread, AtWork
<1>2. /\ Drives({"valid_from_L2_to_Memory", "write_enable_from_L2_to_Memory"})
      /\ flagNext'["valid_from_L2_to_Memory"]
      /\ flagNext'["write_enable_from_L2_to_Memory"]
            = flag["write_enable_from_L1_to_L2"]
  BY DEF L2Issue, Drive, Drives, Flag, AtWork, IInv, TypeOK, KernelTypeOK
<1> USE <1>1, <1>2, Numbers, WaitingFields, WaitingDiffers
    DEF AtWork, ThreadMoves, Drives, Flag, Thread
<1>3. Issues
  BY PhaseOfL2 DEF Timeline, Serves
<1>4. Elapsed >= 2
  BY <1>3 DEF Issues, InL2For, InL1For
<1>5. /\ pc["MEMORY"] = "poll"
      /\ ~flag["done_from_Memory"] /\ ~flagNext["done_from_Memory"]
  BY <1>3, <1>4 DEF Issues, MemoryReady, MemoryPolls, MemoryRestarts
<1>6. L2Serves'
  BY <1>3 DEF Issues, L2Serves, Asked, L1Awaits, Sameclock, RunsWithin
<1>7. L2Waits'
  BY SMTT(30), <1>3, <1>6
  DEF Issues, L2Waits, L1RunsAfter, NoLines, Sameclock, RunsWithin, RunsIn
<1>8. MemoryAsked'
  BY SMTT(30), <1>3, <1>5, <1>7
  DEF Issues, L2Serves, MemoryAsked, Sameclock, Elapsed, RunsIn, RunsWithin
<1>9. QED
  BY <1>8, NextPhase DEF Phases

(* L2 goes on waiting for MEMORY, which does not answer in this cycle.       *)
LEMMA L2StillWaitingTime ==
    ASSUME AtWork, Sameclock, L2StillWaiting, UNCHANGED <<l2, memory, prefetch>>
    PROVE  Timeline'
<1>1. pc["L2"] # "flush"
  BY PhaseOfL2 DEF AtWork, Timeline, Serves
<1>2. /\ \/ ThreadMoves("L2", "await_write", "await_write", 1, 2)
         \/ ThreadMoves("L2", "await_read", "await_read", 1, 2)
      /\ ~flag["done_from_Memory"]
  BY <1>1, ThreadMovesSuspend DEF L2StillWaiting, Runs, Thread, AtWork
<1>3. flag' = flag /\ flagNext' = flagNext
  BY DEF L2StillWaiting, signalVars
<1> USE <1>2, <1>3, Numbers, WaitingFields, WaitingDiffers
    DEF AtWork, ThreadMoves, Flag, Thread
<1>4. L2Waits => L2Waits'
  <2>1. SUFFICES ASSUME L2Waits PROVE L2Waits'
    OBVIOUS
  <2>2. L2Serves'
    BY <2>1 DEF L2Waits, L2Serves, Asked, L1Awaits, Sameclock, RunsWithin
  <2>3. pc'["L2"] = pc["L2"] /\ delay'["L2"] = Waiting(1, 2)
    OBVIOUS
  <2>4. QED
    BY <2>1, <2>2, <2>3 DEF L2Waits, L1RunsAfter, NoLines, Sameclock
<1>5. RunsIn("L2", 0) /\ ~RunsIn("L2", 2)
  BY DEF RunsIn
<1>6. CASE MemoryAsked
  <2>1. MemoryAsked'
    BY <1>4, <1>6 DEF MemoryAsked, RunsWithin, RunsIn, Sameclock, Elapsed
  <2>2. QED
    BY <2>1, NextPhase DEF Phases
<1>7. CASE MemoryWorks
  <2>1. delay["MEMORY"].clk # 0
    BY <1>5, <1>7 DEF MemoryWorks
  <2>2. MemoryWorks'
    BY <1>4, <1>7, <2>1 DEF MemoryWorks, Sameclock, Elapsed
  <2>3. QED
    BY <2>2, NextPhase DEF Phases
<1>8. ~MemoryAnswers
  BY <1>5 DEF MemoryAnswers
<1>9. QED
  BY <1>6, <1>7, <1>8, PhaseOfL2 DEF Timeline, Serves

(* L2 sees the answer of MEMORY.                                            *)
LEMMA L2SeesAnswer ==
    ASSUME AtWork, pc["L2"] \in {"await_write", "await_read"},
           delay["L2"] = Waiting(0, 0), flag["done_from_Memory"]
    PROVE  /\ MemoryAnswers
           /\ delay["L1"].clk = 0 /\ delay["L1"].delta \in 4 .. 6
<1>1. MemoryAnswers
  BY PhaseOfL2 DEF AtWork, Timeline, Serves, MemoryAsked, MemoryWorks
<1>2. delay["L2"].clk = 0 /\ delay["L2"].delta = 0
  BY WaitingFields
<1>3. delay["L1"].clk = 0 /\ delay["L1"].delta >= 4
  BY <1>1, <1>2, Numbers DEF MemoryAnswers, L2Waits, L1RunsAfter, AtWork, Thread
<1>4. delay["L1"].delta <= 6
  BY <1>1, <1>3, WaitingFields
  DEF MemoryAnswers, L2Waits, L2Serves, RunsWithin
<1>5. delay["L1"].delta \in Nat
  BY Numbers DEF AtWork, Thread
<1>6. QED
  BY <1>1, <1>3, <1>4, <1>5

(* A write is done.                                                         *)
LEMMA L2WriteDoneTime ==
    ASSUME AtWork, Sameclock, L2WriteDone, UNCHANGED <<memory, prefetch>>
    PROVE  Timeline'
<1>1. ThreadMoves("L2", "await_write", "restart", 1, 0) /\ flag["done_from_Memory"]
  BY ThreadMovesSuspend DEF L2WriteDone, L2Complete, Thread, AtWork
<1>2. /\ Drives({"valid_from_L2_to_Memory", "done_from_L2"})
      /\ ~flagNext'["valid_from_L2_to_Memory"] /\ flagNext'["done_from_L2"]
  BY DEF L2WriteDone, L2Complete, Withdrawn, Drive, Drives, Flag, AtWork, IInv,
         TypeOK, KernelTypeOK
<1>3. MemoryAnswers /\ delay["L1"].clk = 0 /\ delay["L1"].delta \in 4 .. 6
  <2>1. /\ pc["L2"] \in {"await_write", "await_read"}
        /\ delay["L2"] = Waiting(0, 0) /\ flag["done_from_Memory"]
    BY <1>1 DEF ThreadMoves
  <2>2. QED
    BY <2>1, L2SeesAnswer
<1> USE <1>1, <1>2, Numbers, WaitingFields, WaitingDiffers
    DEF AtWork, ThreadMoves, Drives, Flag, Thread
<1>4. request.we
  BY <1>3 DEF MemoryAnswers, L2Waits
<1>5. Elapsed' = Due(request'.we, FALSE, flagNext'["hit_from_L2"])
  <2>1. Elapsed' = InL2For + Reading(0)
    BY <1>3 DEF MemoryAnswers, Elapsed, Sameclock
  <2>2. Due(request'.we, FALSE, flagNext'["hit_from_L2"]) = InL2For + Reading(0)
    BY <1>4 DEF Due, Sameclock
  <2>3. QED
    BY <2>1, <2>2
<1>6. MemoryRests' /\ NoLines'
  <2>1. pc["MEMORY"] = "restart" /\ delay["MEMORY"] = Waiting(1, 2) /\ NoLines
    BY <1>3, <1>4 DEF MemoryAnswers, L2Waits
  <2>2. MemoryRestarts'
    BY SMTT(30), <2>1 DEF MemoryRestarts
  <2>3. QED
    BY <2>1, <2>2 DEF MemoryRests, NoLines
<1>7. L2Answers'
  BY SMTT(30), <1>3, <1>5, <1>6
  DEF MemoryAnswers, L2Waits, L2Serves, Asked, L2Answers, L1Awaits, RunsIn,
      RunsWithin
<1>8. QED
  BY <1>7, NextPhase DEF Phases

(* The line of a read has come; without a prefetch buffer that is all.       *)
LEMMA L2FillTime ==
    ASSUME AtWork, Sameclock, L2Fill, UNCHANGED <<memory, prefetch>>
    PROVE  Timeline'
<1>1. /\ pc["L2"] = "await_read" /\ delay["L2"] = Waiting(0, 0)
      /\ flag["done_from_Memory"]
  BY WaitingFields DEF L2Fill, Runs
<1>2. MemoryAnswers /\ delay["L1"].clk = 0 /\ delay["L1"].delta \in 4 .. 6
  BY <1>1, L2SeesAnswer
<1>3. ~request.we /\ L2Serves /\ NoLines
  BY <1>1, <1>2 DEF MemoryAnswers, L2Waits
<1>4. /\ Withdrawn \in [Flag -> BOOLEAN] /\ ~Withdrawn["valid_from_L2_to_Memory"]
      /\ \A s \in Flag \ {"valid_from_L2_to_Memory"} : Withdrawn[s] = flagNext[s]
  BY DEF Withdrawn, Flag, AtWork, IInv, TypeOK, KernelTypeOK
<1>5. Elapsed' = InL2For + Reading(0)
  BY <1>2, Numbers
  DEF MemoryAnswers, Elapsed, Sameclock, AtWork, L2Fill, L2Answer, L2Complete,
      Suspend
<1>6. \/ pc["MEMORY"] = "prefetch" /\ delay["MEMORY"] = Waiting(0, 0) /\ memory.i = 1
      \/ /\ PrefetchLines = 0
         /\ pc["MEMORY"] = "restart" /\ delay["MEMORY"] = Waiting(0, 2)
      \/ /\ PrefetchLines > 0 /\ pc["MEMORY"] = "put" /\ memory.i = 1
         /\ delay["MEMORY"] = Waiting(MemoryLatency, 2)
  BY <1>1, <1>2, <1>3 DEF MemoryAnswers, RunsIn
<1>7. CASE HasPrefetch
  <2>1. ThreadMoves("L2", "await_read", "prefetch", 0, 1)
    BY <1>7, ThreadMovesSuspend DEF L2Fill, Thread, AtWork
  <2>2. flag' = flag /\ flagNext' = Withdrawn
    BY <1>7 DEF L2Fill, Drive
  <2>3. l2'.i = 0
    BY DEF L2Fill, Filled, AtWork, IInv, TypeOK, L2TypeOK
  <2> USE <2>1, <2>2, <2>3, <1>4, Numbers, WaitingFields, WaitingDiffers
      DEF AtWork, ThreadMoves, Flag, Thread
  <2>4. PrefetchLines > 0
    BY <1>7 DEF HasPrefetch
  <2>5. L2Serves'
    BY <1>3 DEF L2Serves, Asked, L1Awaits, Sameclock, RunsWithin
  <2>6. MemoryFetches' /\ l2'.i = LinesPut'
    <3>1. memory.i = 1 /\ memory'.i = 1 /\ 1 \in 1 .. PrefetchLines
      BY <1>6, <2>4
    <3>2. /\ Elapsed' = InL2For + Reading(1 - 1)
          /\ Elapsed' + MemoryLatency = InL2For + Reading(1)
      <4>1. /\ Reading(0) = MemoryLatency /\ Reading(1) = 2 * MemoryLatency
            /\ InL2For \in Nat
        BY ReadingNumbers
      <4>2. QED
        BY <1>5, <4>1
    <3>3. MemoryFetches'
      BY <1>6, <2>4, <3>1, <3>2 DEF MemoryFetches, RunsIn
    <3>4. LinesPut' = 0
      BY <1>6, <2>4, <3>1 DEF LinesPut
    <3>5. QED
      BY <3>3, <3>4
  <2>7. pc["MEMORY"] = "put" => delay["MEMORY"].clk # 0
    BY <1>6
  <2>8. LineAwaited'
    <3>1. /\ delay'["L1"].clk = 0 /\ delay'["L1"].delta \in 4 .. 6
          /\ delay'["L2"].clk = 0 /\ delay'["L2"].delta = 1
          /\ pc'["L2"] = "prefetch"
      BY <1>2
    <3>11. NoLines' /\ RunsWithin("L2", 3)' /\ L1RunsAfter(1)'
      BY SMTT(30), <1>3, <3>1 DEF NoLines, RunsWithin, L1RunsAfter
    <3>2. ~(pc'["MEMORY"] = "put" /\ delay'["MEMORY"].clk = 0)
      BY <2>7
    <3>3. QED
      BY <2>6, <3>1, <3>11, <3>2 DEF LineAwaited
  <2>9. Fetches'
    BY <1>3, <2>4, <2>5, <2>8 DEF Fetches, Sameclock
  <2>10. QED
    BY <2>9, NextPhase DEF Phases
<1>8. CASE ~HasPrefetch
  <2>1. ThreadMoves("L2", "await_read", "restart", 1, 0)
    BY <1>8, ThreadMovesSuspend DEF L2Fill, L2Answer, L2Complete, Thread, AtWork
  <2>2. /\ flag' = flag
        /\ \A s \in Flag \ {"done_from_L2"} : flagNext'[s] = Withdrawn[s]
        /\ flagNext'["done_from_L2"]
    BY <1>4, <1>8 DEF L2Fill, L2Answer, L2Complete, Drive, Flag
  <2> USE <2>1, <2>2, <1>4, Numbers, WaitingFields, WaitingDiffers
      DEF AtWork, ThreadMoves, Flag, Thread
  <2>3. PrefetchLines = 0
    BY <1>8 DEF HasPrefetch
  <2>4. ~flagNext["hit_from_L2"]
    BY <1>3 DEF L2Serves
  <2>5. Elapsed' = Due(request'.we, FALSE, flagNext'["hit_from_L2"])
    <3>1. Due(request'.we, FALSE, flagNext'["hit_from_L2"])
            = InL2For + Reading(PrefetchLines)
      BY <1>3, <2>4 DEF Due, Sameclock
    <3>2. QED
      BY <1>5, <2>3, <3>1
  <2>6. MemoryRests' /\ NoLines'
    <3>1. MemoryLeaves' \/ MemoryRestarts'
      BY <1>6, <2>3 DEF MemoryLeaves, MemoryRestarts, RunsWithin
    <3>2. QED
      BY <1>3, <3>1 DEF MemoryRests, NoLines
  <2>7. L1Awaits' /\ RunsWithin("L1", 6)' /\ ~RunsIn("L1", 0)'
    <3>1. /\ delay'["L1"].clk = 0 /\ delay'["L1"].delta \in 4 .. 6
          /\ pc'["L1"] = pc["L1"]
      BY <1>2
    <3>2. QED
      BY SMTT(30), <1>3, <3>1 DEF L2Serves, Asked, L1Awaits, RunsIn, RunsWithin
  <2>8. L2Answers'
    BY <2>5, <2>6, <2>7 DEF L2Answers
  <2>9. QED
    BY <2>8, NextPhase DEF Phases
<1>9. QED
  BY <1>7, <1>8

(* L2 waits for the next prefetched line for another cycle: MEMORY has not   *)
(* put it into the buffer and will not in this one.                         *)
LEMMA L2PrefetchEmptyTime ==
    ASSUME AtWork, Sameclock, L2PrefetchEmpty, UNCHANGED <<l2, memory, prefetch>>
    PROVE  Timeline'
<1>1. ThreadMoves("L2", "prefetch", "prefetch", 1, 3)
  BY ThreadMovesSuspend DEF L2PrefetchEmpty, Thread, AtWork
<1>2. flag' = flag /\ flagNext' = flagNext /\ prefetch.avail = 0
  BY DEF L2PrefetchEmpty, signalVars
<1> USE <1>1, <1>2, Numbers, WaitingFields, WaitingDiffers
    DEF AtWork, ThreadMoves, Flag, Thread
<1>3. Fetches
  BY PhaseOfL2 DEF Timeline, Serves
<1>4. LineAwaited
  BY <1>3 DEF Fetches, LineThere, LineTaken
<1>5. pc["MEMORY"] = "put" => delay["MEMORY"].clk # 0
  BY <1>4 DEF LineAwaited, RunsIn
<1>6. LineAwaited'
  <2>1. MemoryFetches' /\ l2'.i = LinesPut'
    BY <1>4, L2Leaves DEF LineAwaited
  <2>2. QED
    BY <1>4, <1>5, <2>1 DEF LineAwaited, NoLines, L1RunsAfter
<1>7. L2Serves'
  BY <1>3 DEF Fetches, L2Serves, Asked, L1Awaits, Sameclock, RunsWithin
<1>8. Fetches'
  BY <1>3, <1>6, <1>7 DEF Fetches, Sameclock
<1>9. QED
  BY <1>8, NextPhase DEF Phases

(* It takes the line in the cycle in which it was put.                      *)
LEMMA L2PrefetchTakeTime ==
    ASSUME AtWork, Sameclock, L2PrefetchTake, UNCHANGED memory
    PROVE  Timeline'
<1>1. ThreadMoves("L2", "prefetch", "install", 0, 1)
  BY ThreadMovesSuspend DEF L2PrefetchTake, Thread, AtWork
<1>2. flag' = flag /\ flagNext' = flagNext /\ prefetch.avail > 0
  BY DEF L2PrefetchTake, signalVars
<1>3. l2'.i = l2.i
  BY DEF L2PrefetchTake, AtWork, IInv, TypeOK, L2TypeOK
<1> USE <1>1, <1>2, <1>3, Numbers, WaitingFields, WaitingDiffers
    DEF AtWork, ThreadMoves, Flag, Thread
<1>4. Fetches
  BY PhaseOfL2 DEF Timeline, Serves
<1>5. LineThere
  BY SMTT(30), <1>4 DEF Fetches, LineAwaited, LineTaken, NoLines
<1>6. Len(prefetch'.queue) = 0
  <2>1. prefetch.queue \in Seq(PrefetchedLine) /\ Len(prefetch.queue) = 1
    BY <1>5 DEF IInv, TypeOK, PrefetchTypeOK, LineThere
  <2>2. Len(Tail(prefetch.queue)) = 0
    BY <2>1, EmptySeq, HeadTailProperties
  <2>3. prefetch'.queue = Tail(prefetch.queue)
    BY DEF L2PrefetchTake, PrefetchTake, FifoRead, IInv, TypeOK, PrefetchTypeOK
  <2>4. QED
    BY <2>2, <2>3
<1>7. RunsIn("L1", 3) /\ MemoryFetchesOn
  BY <1>5 DEF LineThere, RunsIn
<1>8. LineTaken'
  <2>1. RunsWithin("L2", 1)' /\ RunsIn("L1", delay["L2"].delta + 2)'
    BY SMTT(30), <1>7 DEF RunsIn, RunsWithin
  <2>2. /\ MemoryFetchesOn' /\ l2'.i + 1 = LinesPut'
        /\ Elapsed' = InL2For + Reading(LinesPut')
    BY <1>5, <1>7, L2Leaves DEF LineThere
  <2>3. QED
    BY <1>6, <2>1, <2>2 DEF LineTaken
<1>9. L2Serves'
  BY <1>4 DEF Fetches, L2Serves, Asked, L1Awaits, Sameclock, RunsWithin
<1>10. Fetches'
  BY <1>4, <1>8, <1>9 DEF Fetches, Sameclock
<1>11. QED
  BY <1>10, NextPhase DEF Phases

(* It installs the line, and waits for the next or answers L1.              *)
LEMMA L2InstallTime ==
    ASSUME AtWork, Sameclock, L2Install, UNCHANGED <<memory, prefetch>>
    PROVE  Timeline'
<1>1. pc["L2"] = "install" /\ delay["L2"] = Waiting(0, 0)
  BY WaitingFields DEF L2Install, Runs
<1>2. l2'.i = l2.i + 1
  <2>1. PICK filled : filled = Filled(l2.fetched.address, l2.fetched.data)
                      /\ l2' = [filled EXCEPT !.i = @ + 1]
    BY DEF L2Install
  <2>2. filled.i = l2.i
    BY <2>1 DEF Filled, AtWork, IInv, TypeOK, L2TypeOK
  <2>3. DOMAIN filled = DOMAIN l2 /\ "i" \in DOMAIN l2
    BY <2>1 DEF Filled, AtWork, IInv, TypeOK, L2TypeOK
  <2>4. QED
    BY <2>1, <2>2, <2>3
<1>3. Fetches
  BY <1>1, PhaseOfL2 DEF AtWork, Timeline, Serves
<1>4. /\ LineTaken /\ L2Serves /\ ~request.we /\ l2.i < PrefetchLines
      /\ ~flagNext["valid_from_L2_to_Memory"]
  BY <1>1, <1>3 DEF Fetches, LineAwaited, LineThere
<1>5. /\ NoLines /\ RunsIn("L1", 2) /\ MemoryFetchesOn /\ l2.i + 1 = LinesPut
      /\ Elapsed = InL2For + Reading(LinesPut)
  <2>1. delay["L2"].delta = 0
    BY <1>1, WaitingFields
  <2>2. 0 + 2 = 2
    OBVIOUS
  <2>3. QED
    BY <1>4, <2>1, <2>2 DEF LineTaken, NoLines
<1>6. CASE l2'.i < PrefetchLines
  <2>1. ThreadMoves("L2", "install", "prefetch", 0, 1)
    BY <1>6, ThreadMovesSuspend DEF L2Install, Thread, AtWork
  <2>2. flag' = flag /\ flagNext' = flagNext
    BY <1>6 DEF L2Install, signalVars
  <2> USE <1>2, <2>1, <2>2, Numbers, WaitingFields, WaitingDiffers
      DEF AtWork, ThreadMoves, Flag, Thread
  <2>3. MemoryFetches /\ pc["MEMORY"] = "put" /\ delay["MEMORY"].clk # 0
    <3>1. LinesPut < PrefetchLines
      BY <1>5, <1>6
    <3>2. MemoryRests /\ pc["MEMORY"] # "prefetch" => LinesPut = PrefetchLines
      BY DEF MemoryRests, MemoryPolls, MemoryRestarts, MemoryLeaves, LinesPut
    <3>3. QED
      BY <1>5, <3>1, <3>2 DEF MemoryFetchesOn
  <2>4. MemoryFetches' /\ l2'.i = LinesPut'
    BY <1>5, <2>3, L2Leaves
  <2>5. LineAwaited'
    <3>1. delay'["L1"] = Waiting(0, 2) /\ delay'["L2"] = Waiting(0, 1)
          /\ pc'["L2"] = "prefetch"
      BY <1>5 DEF RunsIn
    <3>2. NoLines' /\ RunsWithin("L2", 3)' /\ L1RunsAfter(1)'
      BY <1>5, <3>1 DEF NoLines, RunsWithin, L1RunsAfter
    <3>3. ~(delay'["MEMORY"].clk = 0)
      BY <2>3
    <3>4. QED
      BY <2>4, <3>1, <3>2, <3>3 DEF LineAwaited
  <2>6. L2Serves'
    BY <1>4 DEF L2Serves, Asked, L1Awaits, Sameclock, RunsWithin
  <2>7. Fetches'
    BY <1>4, <1>6, <2>5, <2>6 DEF Fetches, Sameclock
  <2>8. QED
    BY <2>7, NextPhase DEF Phases
<1>7. CASE ~(l2'.i < PrefetchLines)
  <2>1. ThreadMoves("L2", "install", "restart", 1, 0)
    BY <1>7, ThreadMovesSuspend DEF L2Install, L2Answer, L2Complete, Thread, AtWork
  <2>2. Drives({"done_from_L2"}) /\ flagNext'["done_from_L2"]
    BY <1>7
    DEF L2Install, L2Answer, L2Complete, Drive, Drives, Flag, AtWork, IInv, TypeOK,
        KernelTypeOK
  <2> USE <1>2, <2>1, <2>2, Numbers, WaitingFields, WaitingDiffers
      DEF AtWork, ThreadMoves, Drives, Flag, Thread
  <2>3. LinesPut = PrefetchLines
    BY <1>4, <1>5, <1>7
  <2>4. ~flagNext["hit_from_L2"]
    BY <1>4 DEF L2Serves
  <2>5. Elapsed' = Due(request'.we, FALSE, flagNext'["hit_from_L2"])
    <3>1. Due(request'.we, FALSE, flagNext'["hit_from_L2"])
            = InL2For + Reading(PrefetchLines)
      BY <1>4, <2>4 DEF Due, Sameclock
    <3>2. QED
      BY <1>5, <2>3, <3>1, L2Leaves
  <2>6. MemoryRests
    BY <1>5, <2>3 DEF MemoryFetchesOn, MemoryFetches, LinesPut
  <2>7. MemoryRests' /\ NoLines'
    BY <1>5, <2>6, L2Leaves DEF NoLines
  <2>8. L1Awaits' /\ RunsWithin("L1", 6)' /\ ~RunsIn("L1", 0)'
    BY SMTT(30), <1>4, <1>5 DEF L2Serves, Asked, L1Awaits, RunsIn, RunsWithin
  <2>9. L2Answers'
    BY <2>5, <2>7, <2>8 DEF L2Answers
  <2>10. QED
    BY <2>9, NextPhase DEF Phases
<1>8. QED
  BY <1>6, <1>7

(* Every step of L2 keeps to the phases; those of the store-back buffer are  *)
(* never taken.                                                             *)
LEMMA L2StepTime ==
    ASSUME AtWork, Sameclock, L2Next, UNCHANGED memory
    PROVE  Timeline'
<1>1. pc["L2"] \notin {"store", "retry", "flush"}
  BY PhaseOfL2 DEF AtWork, Timeline, Serves
<1>2. \/ L2Restart \/ L2Poll \/ L2Write \/ L2ReadHit \/ L2ReadMiss
      \/ L2StillWaiting \/ L2WriteDone \/ L2Issue \/ L2Fill \/ L2PrefetchTake
      \/ L2PrefetchEmpty \/ L2Install
  BY <1>1 DEF L2Next, L2Store, L2StoreFails, L2Retry, L2FlushDone, Runs
<1>3. CASE L2PrefetchTake
  BY <1>3, L2PrefetchTakeTime
<1>4. CASE ~L2PrefetchTake
  <2>1. prefetch' = prefetch
    BY <1>2, <1>4
    DEF L2Restart, L2Poll, L2Write, L2ReadHit, L2ReadMiss, L2StillWaiting,
        L2WriteDone, L2Issue, L2Fill, L2PrefetchEmpty, L2Install, bufferVars
  <2>2. L2StillWaiting \/ L2PrefetchEmpty => l2' = l2
    BY DEF L2StillWaiting, L2PrefetchEmpty
  <2>3. QED
    BY <1>2, <1>4, <2>1, <2>2, L2RestartTime, L2PollTime, L2WriteTime,
       L2ReadHitTime, L2ReadMissTime, L2StillWaitingTime, L2WriteDoneTime,
       L2IssueTime, L2FillTime, L2PrefetchEmptyTime, L2InstallTime
<1>5. QED
  BY <1>3, <1>4

(* So does every step of L1.                                                *)
LEMMA L1StepTime ==
    ASSUME AtWork, Sameclock, L1Next, UNCHANGED <<l2, memory, prefetch>>
    PROVE  Timeline'
  BY L1RestartTime, L1PollTime, L1PropagateTime, L1ReadHitTime,
     L1StillWaitingTime, L1CompleteTime
  DEF L1Next

-----------------------------------------------------------------------------
(* MEMORY.                                                                  *)

(* What a step of MEMORY leaves alone.                                      *)
LEMMA MemoryKeeps ==
    ASSUME Sameclock, UNCHANGED l2,
           \A t \in {"L1", "L2"} : pc'[t] = pc[t] /\ delay'[t] = delay[t],
           flag' = flag,
           \A s \in Flag \ {"done_from_Memory"} : flagNext'[s] = flagNext[s]
    PROVE  /\ Elapsed' = Elapsed
           /\ L2Rests <=> L2Rests'
           /\ Asked <=> Asked'
           /\ L2Serves <=> L2Serves'
           /\ prefetch' = prefetch => (NoLines <=> NoLines') /\ (L2Waits <=> L2Waits')
<1>1. Elapsed' = Elapsed
  BY DEF Sameclock, Elapsed
<1>2. L2Rests <=> L2Rests'
  BY DEF L2Rests, RunsWithin
<1>3. Asked <=> Asked'
  BY DEF Asked, L1Awaits, Sameclock, Flag
<1>4. L2Serves <=> L2Serves'
  BY <1>3 DEF L2Serves, RunsWithin, Sameclock, Flag
<1>5. prefetch' = prefetch => (NoLines <=> NoLines') /\ (L2Waits <=> L2Waits')
  BY <1>4 DEF NoLines, L2Waits, RunsWithin, L1RunsAfter, Sameclock, Flag
<1>6. QED
  BY <1>1, <1>2, <1>3, <1>4, <1>5

(* MEMORY withdraws its answer, or finds no command: it still rests, and is  *)
(* at its poll.                                                             *)
LEMMA MemoryIdles ==
    ASSUME AtWork, Sameclock, UNCHANGED <<l2, memory, prefetch>>,
           \/ /\ ThreadMoves("MEMORY", "restart", "poll", 0, 2)
              /\ Drives({"done_from_Memory"})
              /\ ~flagNext'["done_from_Memory"]
           \/ /\ ThreadMoves("MEMORY", "poll", "poll", 1, 2) /\ Drives({})
              /\ ~flag["valid_from_L2_to_Memory"]
    PROVE  Timeline'
<1>a. /\ flag' = flag
      /\ \A s \in Flag \ {"done_from_Memory"} : flagNext'[s] = flagNext[s]
  BY DEF Drives
<1>b. /\ \A t \in {"L1", "L2"} : pc'[t] = pc[t] /\ delay'[t] = delay[t]
      /\ pc["MEMORY"] \in {"restart", "poll"} /\ delay["MEMORY"] = Waiting(0, 0)
  BY DEF ThreadMoves, Thread
<1>c. pc'["MEMORY"] = "poll"
  BY Numbers DEF ThreadMoves, Thread, AtWork
<1>d. delay["MEMORY"].clk = 0 /\ delay["MEMORY"].delta = 0
  BY <1>b, WaitingFields
<1>1. /\ flag' = flag
      /\ \A s \in Flag \ {"done_from_Memory"} : flagNext'[s] = flagNext[s]
      /\ \A t \in {"L1", "L2"} : pc'[t] = pc[t] /\ delay'[t] = delay[t]
      /\ pc["MEMORY"] \in {"restart", "poll"} /\ delay["MEMORY"] = Waiting(0, 0)
      /\ pc'["MEMORY"] = "poll"
      /\ delay["MEMORY"].clk = 0 /\ delay["MEMORY"].delta = 0
  BY <1>a, <1>b, <1>c, <1>d
<1>2. MemoryPolls \/ MemoryRestarts => MemoryPolls'
  <2>1. ~RunsIn("MEMORY", 2) /\ Waiting(1, 2) # Waiting(0, 0)
    BY <1>b, WaitingDiffers DEF RunsIn
  <2>2. CASE /\ ThreadMoves("MEMORY", "restart", "poll", 0, 2)
             /\ Drives({"done_from_Memory"})
             /\ ~flagNext'["done_from_Memory"]
    <3>1. pc["MEMORY"] = "restart" /\ delay'["MEMORY"] = Waiting(0, 2)
      BY <2>2, Numbers DEF ThreadMoves, Thread, AtWork
    <3>2. RunsIn("MEMORY", 2)' /\ RunsWithin("MEMORY", 2)'
      BY <3>1, WaitingFields DEF RunsIn, RunsWithin
    <3>3. MemoryPolls \/ MemoryRestarts => ~flag["valid_from_L2_to_Memory"]
      BY <1>d, <3>1 DEF MemoryPolls, MemoryRestarts
    <3>4. QED
      BY <1>a, <1>c, <2>2, <3>2, <3>3 DEF MemoryPolls
  <2>3. CASE /\ ThreadMoves("MEMORY", "poll", "poll", 1, 2) /\ Drives({})
             /\ ~flag["valid_from_L2_to_Memory"]
    <3>1. pc["MEMORY"] = "poll" /\ delay'["MEMORY"] = Waiting(1, 2)
      BY <2>3, Numbers DEF ThreadMoves, Thread, AtWork
    <3>2. MemoryPolls \/ MemoryRestarts =>
              ~flagNext["done_from_Memory"] /\ ~flag["done_from_Memory"]
      BY <2>1, <3>1 DEF MemoryPolls, MemoryRestarts
    <3>3. flagNext'["done_from_Memory"] = flagNext["done_from_Memory"]
      BY <2>3 DEF Drives, Flag
    <3>4. QED
      BY <1>a, <1>c, <2>3, <3>1, <3>2, <3>3 DEF MemoryPolls
  <2>4. QED
    BY <2>2, <2>3
<1> USE Numbers, WaitingFields, WaitingDiffers
    DEF AtWork, ThreadMoves, Drives, Flag, Thread
<1>3. MemoryRests => MemoryRests' /\ MemoryPolls'
  BY <1>1, <1>2 DEF MemoryRests, MemoryLeaves
<1>4. Elapsed' = Elapsed
  BY <1>1, MemoryKeeps
<1>5. MemoryReady => MemoryReady'
  BY <1>1, <1>2, <1>4 DEF MemoryReady
<1>6. (L2Rests <=> L2Rests') /\ (Asked <=> Asked') /\ (NoLines <=> NoLines')
      /\ (L2Serves <=> L2Serves')
  BY <1>1, MemoryKeeps
<1>7. \/ Arrives \/ L1Looks \/ L2Asked \/ L2Looks \/ Issues \/ MemoryAsked
      \/ MemoryAnswers \/ Fetches \/ L2Answers \/ L1Answers
  BY <1>1, PhaseOfMemory DEF Timeline, Serves
<1>8. CASE Arrives \/ L1Looks
  <2>1. Arrives => Arrives'
    BY <1>1, <1>4, <1>5, <1>6 DEF Arrives
  <2>2. L1Looks => L1Looks'
    BY <1>1, <1>4, <1>5, <1>6 DEF L1Looks, RunsIn
  <2>3. QED
    BY <1>1, <1>8, <2>1, <2>2, NextPhase DEF Phases
<1>9. CASE L2Asked
  <2>1. L2Asked'
    BY <1>1, <1>4, <1>5, <1>6, <1>9 DEF L2Asked, RunsIn, Sameclock
  <2>2. QED
    BY <1>1, <2>1, NextPhase DEF Phases
<1>10. CASE L2Looks
  <2>1. delay["L2"].clk # 0
    BY <1>1, <1>10 DEF L2Looks, RunsIn
  <2>2. L2Looks'
    BY <1>1, <1>4, <1>5, <1>6, <1>10, <2>1 DEF L2Looks
  <2>3. QED
    BY <1>1, <2>2, NextPhase DEF Phases
<1>11. ~Issues
  BY <1>1 DEF Issues, RunsIn
<1>12. ~MemoryAsked
  BY <1>1 DEF MemoryAsked, RunsIn
<1>13. ~MemoryAnswers
  BY <1>1 DEF MemoryAnswers, RunsIn
<1>14. CASE Fetches
  <2>1. ~MemoryFetches /\ ~LineAwaited
    BY <1>1 DEF LineAwaited, MemoryFetches
  <2>2. MemoryFetchesOn => MemoryFetchesOn'
    BY <1>1, <1>3, <2>1 DEF MemoryFetchesOn
  <2>3. LinesPut' = LinesPut
    BY <1>1 DEF LinesPut
  <2>4. LineThere => LineThere'
    BY <1>1, <1>4, <2>1, <2>2, <2>3 DEF LineThere, RunsIn, RunsWithin
  <2>5. LineTaken => LineTaken'
    BY <1>1, <1>4, <2>1, <2>2, <2>3 DEF LineTaken, RunsIn, RunsWithin
  <2>6. Fetches'
    BY <1>1, <1>6, <1>14, <2>1, <2>4, <2>5 DEF Fetches, Sameclock
  <2>7. QED
    BY <1>1, <2>6, NextPhase DEF Phases
<1>15. CASE L2Answers
  <2>1. L2Answers'
    BY <1>1, <1>3, <1>4, <1>6, <1>15
    DEF L2Answers, L1Awaits, RunsIn, RunsWithin, Sameclock
  <2>2. QED
    BY <1>1, <2>1, NextPhase DEF Phases
<1>16. CASE L1Answers
  <2>1. L1Answers'
    BY <1>1, <1>3, <1>4, <1>6, <1>16 DEF L1Answers, Sameclock
  <2>2. QED
    BY <1>1, <2>1, NextPhase DEF Phases
<1>17. QED
  BY <1>7, <1>8, <1>9, <1>10, <1>11, <1>12, <1>13, <1>14, <1>15, <1>16

LEMMA MemoryRestartTime ==
    ASSUME AtWork, Sameclock, MemoryRestart, UNCHANGED l2
    PROVE  Timeline'
<1>1. ThreadMoves("MEMORY", "restart", "poll", 0, 2)
  BY ThreadMovesSuspend DEF MemoryRestart, Thread, AtWork
<1>2. Drives({"done_from_Memory"}) /\ ~flagNext'["done_from_Memory"]
  BY DEF MemoryRestart, Drive, Drives, Flag, AtWork, IInv, TypeOK, KernelTypeOK
<1>3. UNCHANGED <<memory, prefetch>>
  BY DEF MemoryRestart, memoryVars, memoryBuffers
<1>4. QED
  BY <1>1, <1>2, <1>3, MemoryIdles

LEMMA MemoryIdleTime ==
    ASSUME AtWork, Sameclock, MemoryIdle, UNCHANGED l2
    PROVE  Timeline'
<1>1. ThreadMoves("MEMORY", "poll", "poll", 1, 2)
  BY ThreadMovesSuspend DEF MemoryIdle, Thread, AtWork
<1>2. Drives({}) /\ ~flag["valid_from_L2_to_Memory"]
  BY DEF MemoryIdle, signalVars, Drives
<1>3. UNCHANGED <<memory, prefetch>>
  BY DEF MemoryIdle, memoryVars, memoryBuffers
<1>4. QED
  BY <1>1, <1>2, <1>3, MemoryIdles

(* A command MEMORY finds at its poll is the one that L2 waits for.          *)
LEMMA PolledIsAsked ==
    ASSUME AtWork, Polled
    PROVE  /\ MemoryAsked /\ delay["MEMORY"] = Waiting(0, 0)
           /\ flag["write_enable_from_L2_to_Memory"] = request.we
<1>1. pc["MEMORY"] = "poll" /\ delay["MEMORY"] = Waiting(0, 0)
  BY WaitingFields DEF Polled, Runs
<1>2. flag["valid_from_L2_to_Memory"]
  BY DEF Polled, AtWork, Timeline, Serves
<1>3. ~MemoryReady /\ ~MemoryRests
  BY <1>1, <1>2 DEF MemoryReady, MemoryRests, MemoryPolls, MemoryRestarts, MemoryLeaves
<1>4. ~MemoryFetches /\ ~MemoryFetchesOn
  BY <1>1, <1>3 DEF MemoryFetches, MemoryFetchesOn
<1>5. MemoryAsked
  BY <1>1, <1>3, <1>4, PhaseOfMemory
  DEF AtWork, Timeline, Serves, Arrives, L1Looks, L2Asked, L2Looks, Issues,
      MemoryAnswers, Fetches, LineAwaited, LineThere, LineTaken, L2Answers, L1Answers
<1>6. ~RunsIn("MEMORY", 2)
  BY <1>1, WaitingDiffers DEF RunsIn
<1>7. QED
  BY <1>1, <1>5, <1>6 DEF MemoryAsked

(* It takes the command, and needs its latency.                             *)
LEMMA MemoryAccepts ==
    ASSUME AtWork, Sameclock, UNCHANGED <<l2, prefetch>>, Polled,
           memory'.write_underway = memory.write_underway,
           NEW next, ThreadMoves("MEMORY", "poll", next, MemoryLatency, 0),
           next = IF request.we THEN "write" ELSE "read",
           Drives({})
    PROVE  Timeline'
<1>1. MemoryAsked
  BY PolledIsAsked
<1>2. /\ flag' = flag
      /\ \A s \in Flag : flagNext'[s] = flagNext[s]
      /\ \A t \in {"L1", "L2"} : pc'[t] = pc[t] /\ delay'[t] = delay[t]
  BY DEF ThreadMoves, Drives, Thread
<1>3. pc'["MEMORY"] = next /\ delay'["MEMORY"] = Waiting(MemoryLatency, 0)
  BY DEF ThreadMoves
<1>4. delay'["MEMORY"].clk = MemoryLatency /\ delay'["MEMORY"].delta = 0
  BY <1>3, WaitingFields
<1>5. L2Waits' /\ Elapsed' = Elapsed
  BY <1>1, <1>2, MemoryKeeps DEF MemoryAsked
<1>6. Elapsed' + delay'["MEMORY"].clk = InL2For + Reading(0)
  BY <1>1, <1>4, <1>5, Numbers, ReadingNumbers DEF MemoryAsked, AtWork
<1>7. ~(delay'["MEMORY"].clk = 0)
  BY <1>4, Numbers DEF AtWork
<1>8. ~flag'["done_from_Memory"] /\ ~flagNext'["done_from_Memory"]
  BY <1>1, <1>2 DEF MemoryAsked, Flag
<1>9. MemoryWorks'
  BY <1>3, <1>4, <1>5, <1>6, <1>7, <1>8 DEF MemoryWorks, Sameclock
<1>10. flag'["valid"] = flag["valid"] /\ flagNext'["valid"] = flagNext["valid"]
  BY <1>2 DEF Flag
<1>11. QED
  BY <1>9, <1>10, NextPhase DEF Phases

LEMMA MemoryAcceptTime ==
    ASSUME AtWork, Sameclock, MemoryAcceptRead \/ MemoryAcceptWrite, UNCHANGED l2
    PROVE  Timeline'
<1>1. Polled /\ flag["write_enable_from_L2_to_Memory"] = request.we
  BY PolledIsAsked DEF MemoryAcceptRead, MemoryAcceptWrite
<1>2. Drives({}) /\ prefetch' = prefetch
  BY DEF MemoryAcceptRead, MemoryAcceptWrite, signalVars, Drives, memoryBuffers
<1>3. memory'.write_underway = memory.write_underway
  BY DEF MemoryAcceptRead, MemoryAcceptWrite, AtWork, IInv, TypeOK, MemoryTypeOK
<1>4. Runs("MEMORY", "poll")
  BY <1>1 DEF Polled
<1>5. CASE MemoryAcceptRead
  <2>1. ThreadMoves("MEMORY", "poll", "read", MemoryLatency, 0)
    BY <1>4, <1>5, ThreadMovesSuspend DEF MemoryAcceptRead, Thread, AtWork
  <2>2. "read" = IF request.we THEN "write" ELSE "read"
    BY <1>1, <1>5 DEF MemoryAcceptRead
  <2>3. QED
    BY <1>1, <1>2, <1>3, <2>1, <2>2, MemoryAccepts
<1>6. CASE MemoryAcceptWrite
  <2>1. ThreadMoves("MEMORY", "poll", "write", MemoryLatency, 0)
    BY <1>4, <1>6, ThreadMovesSuspend DEF MemoryAcceptWrite, Thread, AtWork
  <2>2. "write" = IF request.we THEN "write" ELSE "read"
    BY <1>1, <1>6 DEF MemoryAcceptWrite
  <2>3. QED
    BY <1>1, <1>2, <1>3, <2>1, <2>2, MemoryAccepts
<1>7. QED
  BY <1>5, <1>6

(* It answers, in time for L2 to see it.                                    *)
LEMMA MemoryReadTime ==
    ASSUME AtWork, Sameclock, MemoryRead, UNCHANGED <<l2, prefetch>>
    PROVE  Timeline'
<1>1. ThreadMoves("MEMORY", "read", "prefetch", 0, 2)
  BY ThreadMovesSuspend DEF MemoryRead, Thread, AtWork
<1>2. Drives({"done_from_Memory"}) /\ flagNext'["done_from_Memory"]
  BY DEF MemoryRead, Drive, Drives, Flag, AtWork, IInv, TypeOK, KernelTypeOK
<1>3. memory'.write_underway = memory.write_underway /\ memory'.i = 1
  BY DEF MemoryRead, AtWork, IInv, TypeOK, MemoryTypeOK
<1>4. /\ flag' = flag
      /\ \A s \in Flag \ {"done_from_Memory"} : flagNext'[s] = flagNext[s]
      /\ \A t \in {"L1", "L2"} : pc'[t] = pc[t] /\ delay'[t] = delay[t]
  BY <1>1, <1>2 DEF ThreadMoves, Drives, Thread
<1>5. /\ pc["MEMORY"] = "read" /\ delay["MEMORY"].clk = 0
      /\ pc'["MEMORY"] = "prefetch" /\ delay'["MEMORY"] = Waiting(0, 2)
  BY <1>1, WaitingFields DEF ThreadMoves
<1>6. MemoryWorks /\ ~request.we /\ RunsIn("L2", 2)
  BY <1>5, PhaseOfMemory DEF AtWork, Timeline, Serves, MemoryWorks
<1>7. L2Waits' /\ Elapsed' = InL2For + Reading(0)
  BY <1>4, <1>5, <1>6, MemoryKeeps, Numbers DEF MemoryWorks, AtWork
<1>8. delay'["L2"] = Waiting(0, 2) /\ delay'["L2"].clk = 0
  BY <1>4, <1>6, WaitingFields DEF RunsIn
<1>9. MemoryAnswers'
  BY <1>2, <1>3, <1>5, <1>6, <1>7, <1>8 DEF MemoryAnswers, RunsIn, Sameclock
<1>10. flag'["valid"] = flag["valid"] /\ flagNext'["valid"] = flagNext["valid"]
  BY <1>4 DEF Flag
<1>11. QED
  BY <1>3, <1>9, <1>10, NextPhase DEF Phases

LEMMA MemoryWriteTime ==
    ASSUME AtWork, Sameclock, MemoryWrite, UNCHANGED <<l2, prefetch>>
    PROVE  Timeline'
<1>1. ThreadMoves("MEMORY", "write", "restart", 1, 2)
  BY ThreadMovesSuspend DEF MemoryWrite, Thread, AtWork
<1>2. Drives({"done_from_Memory"}) /\ flagNext'["done_from_Memory"]
  BY DEF MemoryWrite, Drive, Drives, Flag, AtWork, IInv, TypeOK, KernelTypeOK
<1>3. memory'.write_underway = memory.write_underway
  BY DEF MemoryWrite
<1>4. /\ flag' = flag
      /\ \A s \in Flag \ {"done_from_Memory"} : flagNext'[s] = flagNext[s]
      /\ \A t \in {"L1", "L2"} : pc'[t] = pc[t] /\ delay'[t] = delay[t]
  BY <1>1, <1>2 DEF ThreadMoves, Drives, Thread
<1>5. /\ pc["MEMORY"] = "write" /\ delay["MEMORY"].clk = 0
      /\ pc'["MEMORY"] = "restart" /\ delay'["MEMORY"] = Waiting(1, 2)
  BY <1>1, WaitingFields DEF ThreadMoves
<1>6. MemoryWorks /\ request.we /\ RunsIn("L2", 2)
  BY <1>5, PhaseOfMemory DEF AtWork, Timeline, Serves, MemoryWorks
<1>7. L2Waits' /\ Elapsed' = InL2For + Reading(0)
  BY <1>4, <1>5, <1>6, MemoryKeeps, Numbers DEF MemoryWorks, AtWork
<1>8. delay'["L2"] = Waiting(0, 2) /\ delay'["L2"].clk = 0
  BY <1>4, <1>6, WaitingFields DEF RunsIn
<1>9. MemoryAnswers'
  BY <1>2, <1>3, <1>5, <1>6, <1>7, <1>8 DEF MemoryAnswers, RunsIn, Sameclock
<1>10. flag'["valid"] = flag["valid"] /\ flagNext'["valid"] = flagNext["valid"]
  BY <1>4 DEF Flag
<1>11. QED
  BY <1>3, <1>9, <1>10, NextPhase DEF Phases

(* Between two lines it reads the next, at once after the answer and each    *)
(* line.                                                                    *)
LEMMA MemoryPrefetchTime ==
    ASSUME AtWork, Sameclock, MemoryPrefetch, UNCHANGED <<l2, prefetch>>
    PROVE  Timeline'
<1>1. ThreadMoves("MEMORY", "prefetch", "put", MemoryLatency, 2)
  BY ThreadMovesSuspend DEF MemoryPrefetch, Thread, AtWork
<1>2. flag' = flag /\ flagNext' = flagNext
  BY DEF MemoryPrefetch, signalVars
<1>3. /\ memory'.write_underway = memory.write_underway /\ memory'.i = memory.i
      /\ memory.i <= PrefetchLines
  BY DEF MemoryPrefetch, AtWork, IInv, TypeOK, MemoryTypeOK
<1>4. \A t \in {"L1", "L2"} : pc'[t] = pc[t] /\ delay'[t] = delay[t]
  BY <1>1 DEF ThreadMoves, Thread
<1>5. /\ pc["MEMORY"] = "prefetch" /\ delay["MEMORY"] = Waiting(0, 0)
      /\ pc'["MEMORY"] = "put" /\ delay'["MEMORY"] = Waiting(MemoryLatency, 2)
  BY <1>1 DEF ThreadMoves
<1>6. delay'["MEMORY"].clk = MemoryLatency /\ delay'["MEMORY"].delta = 2
  BY <1>5, WaitingFields
<1>7. memory.i \in Nat /\ PrefetchLines \in Nat /\ MemoryLatency \in Nat \ {0}
  BY Numbers DEF AtWork
<1>8. /\ Elapsed' = Elapsed /\ (NoLines <=> NoLines')
      /\ (L2Waits <=> L2Waits') /\ (L2Serves <=> L2Serves')
  BY <1>2, <1>4, MemoryKeeps
<1>9. ~MemoryRests /\ ~MemoryFetchesOn
  BY <1>3, <1>5, <1>7
  DEF MemoryRests, MemoryPolls, MemoryRestarts, MemoryLeaves, MemoryFetchesOn,
      MemoryFetches
<1>10. MemoryAnswers \/ Fetches
  BY <1>5, <1>9, PhaseOfMemory DEF AtWork, Timeline, Serves, L2Answers, L1Answers
<1>11. flag'["valid"] = flag["valid"] /\ flagNext'["valid"] = flagNext["valid"]
  BY <1>2
<1>12. CASE MemoryAnswers
  <2>1. ~request.we /\ delay["L2"] = Waiting(0, 0) /\ memory.i = 1
    BY <1>5, <1>12 DEF MemoryAnswers
  <2>2. PrefetchLines > 0
    BY <1>3, <1>7, <2>1
  <2>3. L2Waits' /\ delay'["L2"].clk = 0 /\ delay'["L2"] = Waiting(0, 0)
    BY <1>4, <1>8, <1>12, <2>1, WaitingFields DEF MemoryAnswers
  <2>4. flagNext'["done_from_Memory"] /\ (RunsIn("L2", 2)' \/ flag'["done_from_Memory"])
    BY <1>2, <1>4, <1>12 DEF MemoryAnswers, RunsIn
  <2>5. MemoryAnswers'
    BY <1>3, <1>5, <1>8, <1>12, <2>1, <2>2, <2>3, <2>4
    DEF MemoryAnswers, RunsIn, Sameclock
  <2>6. QED
    BY <1>3, <1>11, <2>5, NextPhase DEF Phases
<1>13. CASE Fetches
  <2>1. MemoryFetches /\ (LineAwaited \/ LineThere)
    BY <1>9, <1>13 DEF Fetches, LineAwaited, LineThere, LineTaken
  <2>2. memory.i \in 1 .. PrefetchLines /\ Elapsed = InL2For + Reading(memory.i - 1)
    BY <1>5, <2>1 DEF MemoryFetches
  <2>3. Reading(memory.i) = Reading(memory.i - 1) + MemoryLatency
        /\ Reading(memory.i - 1) \in Nat /\ Reading(memory.i) \in Nat
    <3>1. memory.i - 1 \in Nat /\ memory.i - 1 + 1 = memory.i
      BY <1>7, <2>2
    <3>2. QED
      BY <1>7, <3>1, ReadingNumbers
  <2>4. Elapsed' + delay'["MEMORY"].clk = InL2For + Reading(memory'.i)
    BY <1>3, <1>6, <1>7, <1>8, <2>2, <2>3, ReadingNumbers
  <2>5. ~(delay'["MEMORY"].clk = 0) /\ delay'["MEMORY"].clk > 0
    BY <1>6, <1>7
  <2>6. MemoryFetches' /\ MemoryFetchesOn' /\ LinesPut' = LinesPut
    BY <1>3, <1>5, <1>6, <2>2, <2>4, <2>5 DEF MemoryFetches, MemoryFetchesOn, LinesPut
  <2>7. LineAwaited => LineAwaited'
    BY <1>2, <1>4, <1>8, <2>5, <2>6 DEF LineAwaited, RunsWithin, L1RunsAfter
  <2>8. LineThere => LineThere'
    BY <1>2, <1>4, <1>8, <2>6 DEF LineThere, RunsWithin, RunsIn
  <2>9. Fetches'
    BY <1>2, <1>8, <1>13, <2>1, <2>7, <2>8 DEF Fetches, Sameclock
  <2>10. QED
    BY <1>3, <1>11, <2>9, NextPhase DEF Phases
<1>14. QED
  BY <1>10, <1>12, <1>13

(* It writes the line into the buffer, one delta cycle before L2 looks.      *)
LEMMA MemoryPutTime ==
    ASSUME AtWork, Sameclock, MemoryPut, UNCHANGED l2
    PROVE  Timeline'
<1>1. ThreadMoves("MEMORY", "put", "prefetch", 0, 0)
  BY ThreadMovesSuspend DEF MemoryPut, Thread, AtWork
<1>2. flag' = flag /\ flagNext' = flagNext
  BY DEF MemoryPut, signalVars
<1>3. memory'.write_underway = memory.write_underway /\ memory'.i = memory.i + 1
  BY DEF MemoryPut, AtWork, IInv, TypeOK, MemoryTypeOK
<1>4. \A t \in {"L1", "L2"} : pc'[t] = pc[t] /\ delay'[t] = delay[t]
  BY <1>1 DEF ThreadMoves, Thread
<1>5. /\ pc["MEMORY"] = "put" /\ delay["MEMORY"] = Waiting(0, 0)
      /\ pc'["MEMORY"] = "prefetch" /\ delay'["MEMORY"] = Waiting(0, 0)
  BY <1>1 DEF ThreadMoves
<1>6. delay["MEMORY"].clk = 0 /\ delay["MEMORY"].delta = 0
  BY <1>5, WaitingFields
<1>7. memory.i \in Nat /\ PrefetchLines \in Nat /\ MemoryLatency \in Nat \ {0}
  BY Numbers DEF AtWork
<1>8. Elapsed' = Elapsed /\ (L2Serves <=> L2Serves')
  BY <1>2, <1>4, MemoryKeeps
<1>9. ~MemoryRests /\ ~MemoryFetchesOn
  BY <1>5, <1>6, <1>7
  DEF MemoryRests, MemoryPolls, MemoryRestarts, MemoryLeaves, MemoryFetchesOn
<1>10. ~MemoryAnswers
  <2>1. Waiting(MemoryLatency, 2) # Waiting(0, 0)
    BY WaitingDiffers
  <2>2. QED
    BY <1>5, <2>1 DEF MemoryAnswers
<1>11. Fetches /\ LineAwaited
  BY <1>5, <1>9, <1>10, PhaseOfMemory
  DEF AtWork, Timeline, Serves, Fetches, LineThere, LineTaken
<1>12. memory.i \in 1 .. PrefetchLines /\ Elapsed = InL2For + Reading(memory.i)
       /\ l2.i = memory.i - 1
  <2>1. Elapsed + delay["MEMORY"].clk = InL2For + Reading(memory.i)
        /\ memory.i \in 1 .. PrefetchLines
    BY <1>5, <1>11 DEF LineAwaited, MemoryFetches
  <2>2. Elapsed \in Nat
    BY Numbers DEF AtWork
  <2>3. l2.i = memory.i - 1
    BY <1>5, <1>11 DEF LineAwaited, LinesPut
  <2>4. QED
    BY <1>6, <2>1, <2>2, <2>3
<1>13. RunsIn("L2", 1) /\ RunsIn("L1", 4)
  BY <1>5, <1>6, <1>11 DEF LineAwaited
<1>14. Len(prefetch'.queue) = 1
  <2>1. prefetch.free > 0 /\ Len(prefetch.queue) = 0
    BY <1>7, <1>11, <1>12 DEF LineAwaited, NoLines
  <2>2. prefetch' = FifoWrite(prefetch, memory.prefetched_line)
    BY <2>1 DEF MemoryPut, PrefetchWrite
  <2>3. prefetch.queue \in Seq(PrefetchedLine) /\ memory.prefetched_line \in PrefetchedLine
    BY DEF AtWork, IInv, TypeOK, PrefetchTypeOK, MemoryTypeOK
  <2>4. prefetch'.queue = Append(prefetch.queue, memory.prefetched_line)
    BY <2>2 DEF FifoWrite, AtWork, IInv, TypeOK, PrefetchTypeOK
  <2>5. QED
    BY <2>1, <2>3, <2>4, AppendProperties
<1>15. LinesPut' = memory.i /\ l2'.i + 1 = LinesPut'
       /\ Elapsed' = InL2For + Reading(LinesPut')
  BY <1>3, <1>5, <1>7, <1>8, <1>12 DEF LinesPut
<1>16. ~flagNext'["valid_from_L2_to_Memory"]
  BY <1>2, <1>11 DEF Fetches
<1>17. MemoryFetches' \/ MemoryRests'
  <2>1. CASE memory'.i <= PrefetchLines
    <3>1. memory'.i \in 1 .. PrefetchLines /\ memory'.i - 1 = memory.i
      BY <1>3, <1>7, <2>1
    <3>2. QED
      BY <1>5, <1>8, <1>12, <3>1 DEF MemoryFetches, RunsIn
  <2>2. CASE ~(memory'.i <= PrefetchLines)
    <3>1. memory'.i > PrefetchLines
      BY <1>3, <1>7, <2>2
    <3>2. QED
      BY <1>5, <1>16, <3>1 DEF MemoryRests, MemoryLeaves
  <2>3. QED
    BY <2>1, <2>2
<1>18. LineThere'
  <2>1. delay'["L2"] = Waiting(0, 1) /\ delay'["L1"] = Waiting(0, 4)
    BY <1>4, <1>13 DEF RunsIn
  <2>2. delay'["L2"].clk = 0 /\ delay'["L2"].delta = 1
    BY <2>1, WaitingFields
  <2>3. RunsWithin("L2", 1)' /\ RunsIn("L1", delay["L2"].delta + 3)'
    <3>1. delay'["L1"] = Waiting(0, delay'["L2"].delta + 3)
      BY <2>1, <2>2
    <3>2. QED
      BY <2>2, <3>1 DEF RunsWithin, RunsIn
  <2>4. pc'["L2"] = "prefetch"
    BY <1>4, <1>11 DEF LineAwaited
  <2>5. QED
    BY <1>5, <1>14, <1>15, <1>17, <2>2, <2>3, <2>4 DEF LineThere
<1>19. Fetches'
  BY <1>2, <1>8, <1>11, <1>18 DEF Fetches, Sameclock
<1>20. flag'["valid"] = flag["valid"] /\ flagNext'["valid"] = flagNext["valid"]
  BY <1>2
<1>21. QED
  BY <1>3, <1>19, <1>20, NextPhase DEF Phases

(* After the last line it withdraws the answer and is ready for the next     *)
(* command in the same cycle.                                               *)
LEMMA MemoryReadDoneTime ==
    ASSUME AtWork, Sameclock, MemoryReadDone, UNCHANGED l2
    PROVE  Timeline'
<1>1. ThreadMoves("MEMORY", "prefetch", "restart", 0, 2)
      /\ flag' = flag /\ flagNext' = flagNext
  BY ThreadMovesSuspend DEF MemoryReadDone, Thread, AtWork, Timeline, Serves
<1>2. memory' = memory /\ prefetch' = prefetch /\ memory.i > PrefetchLines
  BY DEF MemoryReadDone, memoryVars, memoryBuffers
<1>3. \A t \in {"L1", "L2"} : pc'[t] = pc[t] /\ delay'[t] = delay[t]
  BY <1>1 DEF ThreadMoves, Thread
<1>4. /\ pc["MEMORY"] = "prefetch" /\ delay["MEMORY"] = Waiting(0, 0)
      /\ pc'["MEMORY"] = "restart" /\ delay'["MEMORY"] = Waiting(0, 2)
  BY <1>1 DEF ThreadMoves
<1>5. delay'["MEMORY"].clk = 0 /\ delay'["MEMORY"].delta = 2
  BY <1>4, WaitingFields
<1>6. memory.i \in Nat /\ PrefetchLines \in Nat /\ l2.i \in Nat
  BY Numbers DEF AtWork
<1>7. /\ Elapsed' = Elapsed /\ (NoLines <=> NoLines') /\ (L2Rests <=> L2Rests')
      /\ (L2Waits <=> L2Waits') /\ (L2Serves <=> L2Serves')
  BY <1>1, <1>2, <1>3, MemoryKeeps
<1>8. MemoryRests => MemoryRests' /\ MemoryFetchesOn'
  <2>1. MemoryRestarts'
    BY <1>4, <1>5 DEF MemoryRestarts, RunsWithin
  <2>2. QED
    BY <1>1, <1>4, <2>1 DEF MemoryRests, MemoryFetchesOn
<1>9. ~MemoryFetches /\ ~MemoryFetchesOn
  BY <1>2, <1>4, <1>6 DEF MemoryFetches, MemoryFetchesOn
<1>10. flag'["valid"] = flag["valid"] /\ flagNext'["valid"] = flagNext["valid"]
  BY <1>1
<1>11. CASE MemoryAnswers
  <2>1. ~request.we /\ delay["L2"] = Waiting(0, 0) /\ memory.i = 1
    BY <1>4, <1>11 DEF MemoryAnswers
  <2>2. PrefetchLines = 0
    BY <1>2, <1>6, <2>1
  <2>3. L2Waits' /\ delay'["L2"].clk = 0 /\ delay'["L2"] = Waiting(0, 0)
    BY <1>3, <1>7, <1>11, <2>1, WaitingFields DEF MemoryAnswers
  <2>4. flagNext'["done_from_Memory"] /\ (RunsIn("L2", 2)' \/ flag'["done_from_Memory"])
    BY <1>1, <1>3, <1>11 DEF MemoryAnswers, RunsIn
  <2>5. MemoryAnswers'
    BY <1>4, <1>7, <1>11, <2>1, <2>2, <2>3, <2>4
    DEF MemoryAnswers, RunsIn, Sameclock
  <2>6. QED
    BY <1>2, <1>10, <2>5, NextPhase DEF Phases
<1>12. CASE Fetches
  <2>1. LineThere /\ MemoryRests /\ l2.i < PrefetchLines
    BY <1>9, <1>12 DEF Fetches, LineAwaited, LineThere, LineTaken
  <2>2. LinesPut = PrefetchLines
    BY <1>2, <1>4, <1>6, <2>1 DEF LineThere, LinesPut
  <2>3. LinesPut' = LinesPut
    BY <1>4, <2>2 DEF LinesPut
  <2>4. LineThere'
    BY <1>2, <1>3, <1>7, <1>8, <2>1, <2>3 DEF LineThere, RunsIn, RunsWithin
  <2>5. Fetches'
    BY <1>1, <1>2, <1>7, <1>12, <2>4 DEF Fetches, Sameclock
  <2>6. QED
    BY <1>2, <1>10, <2>5, NextPhase DEF Phases
<1>13. CASE L2Answers
  <2>1. L2Answers'
    BY <1>1, <1>3, <1>7, <1>8, <1>13
    DEF L2Answers, L1Awaits, RunsIn, RunsWithin, Sameclock
  <2>2. QED
    BY <1>2, <1>10, <2>1, NextPhase DEF Phases
<1>14. CASE L1Answers
  <2>1. L1Answers'
    BY <1>1, <1>3, <1>7, <1>8, <1>14 DEF L1Answers, Sameclock
  <2>2. QED
    BY <1>2, <1>10, <2>1, NextPhase DEF Phases
<1>15. QED
  BY <1>4, <1>11, <1>12, <1>13, <1>14, PhaseOfMemory DEF AtWork, Timeline, Serves

(* Every step of MEMORY keeps to the phases; those of the store-back buffer  *)
(* are never taken.                                                         *)
LEMMA MemoryStepTime ==
    ASSUME AtWork, Sameclock, MemoryNext, UNCHANGED l2
    PROVE  Timeline'
<1>1. pc["MEMORY"] \in {"restart", "poll", "read", "write", "prefetch", "put"}
  BY PhaseOfMemory DEF AtWork, Timeline, Serves
<1>2. ~HasStoreback
  BY DEF AtWork, WholeCount, HasStoreback
<1>3. \/ MemoryRestart \/ MemoryIdle \/ MemoryAcceptRead \/ MemoryAcceptWrite
      \/ MemoryRead \/ MemoryWrite \/ MemoryPrefetch \/ MemoryPut \/ MemoryReadDone
  BY <1>1, <1>2
  DEF MemoryNext, MemoryAcceptDrain, MemoryResume, MemoryCallRead, MemoryTake,
      MemoryDrained, MemoryTaken, MemoryAbort, MemoryLatencyStep, MemoryCommit, Runs
<1>4. MemoryRead \/ MemoryWrite \/ MemoryPrefetch => prefetch' = prefetch
  BY DEF MemoryRead, MemoryWrite, MemoryPrefetch, memoryBuffers
<1>5. QED
  BY <1>3, <1>4, MemoryRestartTime, MemoryIdleTime, MemoryAcceptTime,
     MemoryReadTime, MemoryWriteTime, MemoryPrefetchTime, MemoryPutTime,
     MemoryReadDoneTime

-----------------------------------------------------------------------------
(* The end of a delta cycle: what was requested is published, and every      *)
(* thread of this clock cycle is one delta cycle nearer.                    *)
Published ==
    /\ Sameclock /\ UNCHANGED <<l2, memory>>
    /\ flag' = flagNext /\ flagNext' = flagNext /\ pc' = pc
    /\ prefetch'.queue = prefetch.queue
    /\ prefetch'.avail = Len(prefetch.queue)
    /\ prefetch'.free = PrefetchLines - Len(prefetch.queue)
    /\ \A t \in Thread :
          /\ delay[t].clk # 0 => delay'[t] = delay[t]
          /\ delay[t].clk = 0 => /\ delay[t].delta # 0
                                 /\ delay'[t] = Waiting(0, delay[t].delta - 1)
                                 /\ delay'[t].clk = 0
                                 /\ delay'[t].delta = delay[t].delta - 1

LEMMA DeltaPublishes ==
    ASSUME AtWork, Delta
    PROVE  Published
<1>1. /\ flag' = flagNext /\ flagNext' = flagNext /\ pc' = pc /\ run' = run
  BY DEF Delta, DeltaCycle, AtWork, Serves
<1>2. Sameclock /\ UNCHANGED <<l2, memory>>
  BY <1>1 DEF Delta, driverVars, memoryVars, Sameclock
<1>3. /\ prefetch'.queue = prefetch.queue
      /\ prefetch'.avail = Len(prefetch.queue)
      /\ prefetch'.free = PrefetchLines - Len(prefetch.queue)
  BY DEF Delta, PrefetchUpdate, FifoUpdate, AtWork, IInv, TypeOK, PrefetchTypeOK
<1>4. ASSUME NEW t \in Thread
      PROVE  /\ delay[t].clk # 0 => delay'[t] = delay[t]
             /\ delay[t].clk = 0 => /\ delay[t].delta # 0
                                    /\ delay'[t] = Waiting(0, delay[t].delta - 1)
  <2>1. delay[t] = Waiting(delay[t].clk, delay[t].delta)
    BY Numbers DEF AtWork
  <2>2. delay[t] # Waiting(0, 0)
    BY WaitingFields DEF Delta, DeltaCycle, NoThreadReady
  <2>3. delay'[t] = IF delay[t].clk = 0 THEN [delay[t] EXCEPT !.delta = @ - 1]
                                        ELSE delay[t]
    BY DEF Delta, DeltaCycle
  <2>4. delay[t].clk = 0 => delay'[t] = Waiting(0, delay[t].delta - 1)
    BY <2>1, <2>3 DEF Waiting
  <2>5. QED
    BY <2>1, <2>2, <2>3, <2>4
<1>5. QED
  BY <1>1, <1>2, <1>3, <1>4, WaitingFields DEF Published

(* What rests still rests, and what is fetched is still fetched.             *)
LEMMA PublishedKeeps ==
    ASSUME AtWork, Published
    PROVE  /\ Elapsed' = Elapsed
           /\ \A t \in Thread, n \in Nat : RunsWithin(t, n) => RunsWithin(t, n)'
           /\ \A t \in Thread : ~RunsIn(t, 0)
           /\ L2Rests => L2Rests'
           /\ MemoryRests => MemoryRests' /\ pc["MEMORY"] # "prefetch"
           /\ MemoryReady => MemoryReady'
           /\ NoLines => NoLines'
           /\ MemoryFetches => MemoryFetches'
                               /\ pc["MEMORY"] = "put"
           /\ MemoryFetchesOn => MemoryFetchesOn'
           /\ LinesPut' = LinesPut
           /\ L2Serves => L2Serves'
           /\ L2Waits => L2Waits'
<1> USE DEF Published
<1>1. Elapsed' = Elapsed
  BY DEF Elapsed, Sameclock
<1>2. ASSUME NEW t \in Thread, NEW n \in Nat, RunsWithin(t, n)
      PROVE  RunsWithin(t, n)'
  <2>1. delay[t].delta \in Nat
    BY Numbers DEF AtWork
  <2>2. QED
    BY <1>2, <2>1 DEF RunsWithin
<1>3. \A t \in Thread : ~RunsIn(t, 0)
  BY WaitingFields DEF RunsIn
<1>4. ASSUME NEW t \in Thread, NEW c, NEW d, c # 0, delay[t] = Waiting(c, d)
      PROVE  delay'[t] = delay[t]
  BY <1>4, WaitingFields
<1>5. L2Rests => L2Rests'
  BY <1>2, <1>4 DEF L2Rests, Thread
<1>6. MemoryRests => /\ MemoryPolls => MemoryPolls'
                     /\ MemoryRestarts => MemoryRestarts'
                     /\ ~MemoryLeaves
  <2>1. ~flagNext["valid_from_L2_to_Memory"] => (MemoryPolls => MemoryPolls')
    BY <1>2, <1>4 DEF MemoryPolls, Thread
  <2>2. ~flagNext["valid_from_L2_to_Memory"] => (MemoryRestarts => MemoryRestarts')
    BY <1>2, <1>4 DEF MemoryRestarts, Thread
  <2>3. ~MemoryLeaves
    BY <1>3 DEF MemoryLeaves, RunsIn, Thread
  <2>4. QED
    BY <2>1, <2>2, <2>3 DEF MemoryRests
<1>7. MemoryRests => MemoryRests' /\ pc["MEMORY"] # "prefetch"
  BY <1>6 DEF MemoryRests, MemoryPolls, MemoryRestarts
<1>8. MemoryReady => MemoryReady'
  <2>1. MemoryReady => MemoryRests
    BY DEF MemoryReady, MemoryRests
  <2>2. delay["MEMORY"].clk = 0 => delay'["MEMORY"].clk = 0
    BY DEF Thread
  <2>3. MemoryPolls => ~flagNext["done_from_Memory"]
    BY DEF MemoryPolls
  <2>4. MemoryReady /\ pc["MEMORY"] = "poll" => MemoryPolls
    BY DEF MemoryReady, MemoryRestarts
  <2>5. QED
    BY <1>1, <1>6, <2>1, <2>2, <2>3, <2>4 DEF MemoryReady
<1>9. NoLines => NoLines'
  BY Numbers DEF NoLines, AtWork
<1>10. MemoryFetches => MemoryFetches' /\ pc["MEMORY"] = "put"
  <2>1. delay["MEMORY"].clk \in Nat /\ delay["MEMORY"].delta \in Nat
    BY Numbers DEF AtWork, Thread
  <2>2. QED
    BY <1>1, <1>3, <2>1 DEF MemoryFetches, Thread
<1>11. MemoryFetchesOn => MemoryFetchesOn'
  <2>1. delay["MEMORY"].clk \in Nat
    BY Numbers DEF AtWork, Thread
  <2>2. delay["MEMORY"].clk > 0 => delay'["MEMORY"] = delay["MEMORY"]
    BY <2>1 DEF Thread
  <2>3. QED
    BY <1>7, <1>10, <2>2 DEF MemoryFetchesOn
<1>12. LinesPut' = LinesPut
  BY DEF LinesPut
<1>13. L2Serves => L2Serves'
  BY <1>2, <1>4 DEF L2Serves, Asked, L1Awaits, Sameclock, Thread
<1>14. L1RunsAfter(4) => L1RunsAfter(4)'
  <2>1. delay["L1"].delta \in Nat /\ delay["L2"].delta \in Nat
    BY Numbers DEF AtWork, Thread
  <2>2. QED
    BY SMTT(30), <2>1 DEF L1RunsAfter, Thread
<1>15. L2Waits => L2Waits'
  BY <1>2, <1>4, <1>9, <1>13, <1>14 DEF L2Waits, Sameclock, Thread
<1>16. QED
  BY <1>1, <1>2, <1>3, <1>5, <1>7, <1>8, <1>9, <1>10, <1>11, <1>12, <1>13, <1>15

LEMMA DeltaTime ==
    ASSUME AtWork, Delta
    PROVE  Timeline'
<1>1. Published
  BY DeltaPublishes
<1> USE <1>1, PublishedKeeps DEF Published
<1>2. /\ Phases
      /\ flag'["valid"] = flag["valid"] /\ flagNext'["valid"] = flagNext["valid"]
  BY DEF AtWork, Timeline, Serves
<1>3. \A t \in Thread : delay[t].clk \in Nat /\ delay[t].delta \in Nat
  BY Numbers DEF AtWork
<1>4. ASSUME NEW t \in Thread, NEW c, NEW d, c # 0, delay[t] = Waiting(c, d)
      PROVE  delay'[t] = delay[t]
  BY <1>4, WaitingFields
<1>5. ASSUME NEW t \in Thread, NEW n \in Nat, RunsIn(t, n)
      PROVE  n # 0 /\ RunsIn(t, n - 1)'
  BY <1>5, WaitingFields DEF RunsIn
<1>6. CASE Arrives
  <2>1. delay'["L1"].clk = delay["L1"].clk
    BY DEF Thread
  <2>2. Arrives'
    BY <1>6, <2>1 DEF Arrives
  <2>3. QED
    BY <1>2, <2>2, NextPhase DEF Phases
<1>7. CASE L1Looks
  <2>1. delay["L1"].clk # 0 /\ delay'["L1"] = delay["L1"]
    BY <1>7 DEF L1Looks, Thread
  <2>2. L1Looks'
    BY <1>7, <2>1 DEF L1Looks
  <2>3. QED
    BY <1>2, <2>2, NextPhase DEF Phases
<1>8. CASE L2Asked
  <2>1. delay["L1"] = Waiting(1, 6) /\ delay'["L1"] = delay["L1"]
    BY <1>4, <1>8 DEF L2Asked, RunsIn, Thread
  <2>2. RunsIn("L2", 1) /\ RunsIn("L2", 0)'
    BY <1>5, <1>8 DEF L2Asked, Thread
  <2>3. flagNext["valid_from_L1_to_L2"]
    BY <1>8 DEF L2Asked, Asked, AtWork, Serves, CommandUp
  <2>4. Asked' /\ flag'["write_enable_from_L1_to_L2"] = request'.we
    BY <1>8 DEF L2Asked, Asked, L1Awaits, Sameclock
  <2>5. L2Asked'
    BY <1>8, <2>1, <2>2, <2>3, <2>4 DEF L2Asked
  <2>6. QED
    BY <1>2, <2>5, NextPhase DEF Phases
<1>9. CASE L2Looks
  <2>1. delay["L2"].clk # 0 /\ delay'["L2"] = delay["L2"]
    BY <1>9 DEF L2Looks, Thread
  <2>2. L2Looks'
    BY <1>9, <2>1 DEF L2Looks
  <2>3. QED
    BY <1>2, <2>2, NextPhase DEF Phases
<1>10. ~Issues
  BY DEF Issues, Thread
<1>11. CASE MemoryAsked
  <2>1. delay["L2"] = Waiting(1, 2) /\ delay'["L2"] = delay["L2"]
    BY <1>4, <1>11 DEF MemoryAsked, RunsIn, Thread
  <2>2. flagNext["valid_from_L2_to_Memory"]
    BY <1>11 DEF MemoryAsked, L2Waits
  <2>3. RunsWithin("MEMORY", 2)'
    BY <1>11 DEF MemoryAsked, Thread
  <2>4. MemoryAsked'
    BY <1>11, <2>1, <2>2, <2>3 DEF MemoryAsked, Sameclock
  <2>5. QED
    BY <1>2, <2>4, NextPhase DEF Phases
<1>12. CASE MemoryWorks
  <2>1. delay["MEMORY"].clk # 0 /\ delay'["MEMORY"] = delay["MEMORY"]
    BY <1>12 DEF MemoryWorks, Thread
  <2>2. MemoryWorks'
    BY <1>12, <2>1 DEF MemoryWorks, Sameclock
  <2>3. QED
    BY <1>2, <2>2, NextPhase DEF Phases
<1>13. CASE MemoryAnswers
  <2>1. ~RunsIn("L2", 0)
    BY DEF Thread
  <2>2. delay'["L2"].clk = 0 /\ flag'["done_from_Memory"] /\ flagNext'["done_from_Memory"]
    BY <1>13 DEF MemoryAnswers, Thread
  <2>3. delay["MEMORY"] = Waiting(1, 2) => delay'["MEMORY"] = Waiting(1, 2)
    BY <1>4 DEF Thread
  <2>4. delay["MEMORY"] = delay["L2"] => delay'["MEMORY"] = delay'["L2"]
    BY <1>13 DEF MemoryAnswers, Thread
  <2>5. MemoryAnswers'
    BY <1>13, <2>1, <2>2, <2>3, <2>4 DEF MemoryAnswers, Sameclock
  <2>6. QED
    BY <1>2, <2>5, NextPhase DEF Phases
<1>14. CASE Fetches
  <2>1. LineAwaited => LineAwaited'
    <3>1. L1RunsAfter(1) => L1RunsAfter(1)'
      <4>1. delay["L1"].delta \in Nat /\ delay["L2"].delta \in Nat
        BY <1>3 DEF Thread
      <4>2. QED
        BY SMTT(30), <4>1 DEF L1RunsAfter, Thread
    <3>2. RunsWithin("L2", 3) => RunsWithin("L2", 3)'
      BY DEF Thread
    <3>3. delay["L2"] = Waiting(1, 3) => delay'["L2"] = Waiting(1, 3)
      BY <1>4 DEF Thread
    <3>4. SUFFICES ASSUME LineAwaited, pc["MEMORY"] = "put", delay'["MEMORY"].clk = 0
                   PROVE  /\ RunsIn("L2", delay["MEMORY"].delta + 1)'
                          /\ RunsIn("L1", delay["MEMORY"].delta + 4)'
      BY <3>1, <3>2, <3>3 DEF LineAwaited
    <3>5. delay["MEMORY"].clk = 0 /\ delay'["MEMORY"].delta = delay["MEMORY"].delta - 1
          /\ delay["MEMORY"].delta \in Nat \ {0}
      BY <1>3, <3>4 DEF Thread
    <3>6. /\ RunsIn("L2", delay["MEMORY"].delta + 1)
          /\ RunsIn("L1", delay["MEMORY"].delta + 4)
      BY <3>4, <3>5 DEF LineAwaited
    <3>7. /\ delay'["L2"] = Waiting(0, (delay["MEMORY"].delta + 1) - 1)
          /\ delay'["L1"] = Waiting(0, (delay["MEMORY"].delta + 4) - 1)
      BY <3>5, <3>6, WaitingFields DEF RunsIn, Thread
    <3>8. /\ delay'["MEMORY"].delta + 1 = (delay["MEMORY"].delta + 1) - 1
          /\ delay'["MEMORY"].delta + 4 = (delay["MEMORY"].delta + 4) - 1
      BY <3>5
    <3>9. QED
      BY <3>7, <3>8 DEF RunsIn
  <2>2. LineThere => LineThere'
    <3>1. SUFFICES ASSUME LineThere PROVE LineThere'
      OBVIOUS
    <3>2. delay["L2"].clk = 0 /\ delay["L2"].delta = 1
          /\ delay'["L2"].clk = 0 /\ delay'["L2"].delta = 0
      BY <1>3, <3>1 DEF LineThere, RunsWithin, Thread
    <3>3. RunsIn("L1", 4) /\ RunsIn("L1", 3)'
      <4>1. delay["L1"] = Waiting(0, 4)
        BY <3>1, <3>2 DEF LineThere, RunsIn
      <4>2. delay'["L1"] = Waiting(0, 3)
        BY <4>1, WaitingFields DEF Thread
      <4>3. QED
        BY <4>1, <4>2 DEF RunsIn
    <3>4. RunsWithin("L2", 1)' /\ RunsIn("L1", delay["L2"].delta + 3)'
      <4>1. delay'["L1"] = Waiting(0, delay'["L2"].delta + 3)
        BY <3>2, <3>3 DEF RunsIn
      <4>2. QED
        BY <3>2, <4>1 DEF RunsIn, RunsWithin
    <3>5. MemoryFetchesOn
      BY <3>1 DEF LineThere
    <3>6. QED
      BY <3>1, <3>4, <3>5 DEF LineThere
  <2>3. LineTaken => LineTaken'
    <3>1. SUFFICES ASSUME LineTaken PROVE LineTaken'
      OBVIOUS
    <3>2. delay["L2"].clk = 0 /\ delay["L2"].delta = 1
          /\ delay'["L2"].clk = 0 /\ delay'["L2"].delta = 0
      BY <1>3, <3>1 DEF LineTaken, RunsWithin, Thread
    <3>3. RunsIn("L1", 3) /\ RunsIn("L1", 2)'
      <4>1. delay["L1"] = Waiting(0, 3)
        BY <3>1, <3>2 DEF LineTaken, RunsIn
      <4>2. delay'["L1"] = Waiting(0, 2)
        BY <4>1, WaitingFields DEF Thread
      <4>3. QED
        BY <4>1, <4>2 DEF RunsIn
    <3>4. RunsWithin("L2", 1)' /\ RunsIn("L1", delay["L2"].delta + 2)'
      <4>1. delay'["L1"] = Waiting(0, delay'["L2"].delta + 2)
        BY <3>2, <3>3 DEF RunsIn
      <4>2. QED
        BY <3>2, <4>1 DEF RunsIn, RunsWithin
    <3>5. prefetch'.free = PrefetchLines
      <4>1. PrefetchLines \in Nat
        BY Numbers DEF AtWork
      <4>2. QED
        BY <3>1, <4>1 DEF LineTaken
    <3>6. QED
      BY <3>1, <3>4, <3>5 DEF LineTaken
  <2>4. Fetches'
    BY <1>14, <2>1, <2>2, <2>3 DEF Fetches, Sameclock
  <2>5. QED
    BY <1>2, <2>4, NextPhase DEF Phases
<1>15. CASE L2Answers
  <2>1. RunsWithin("L1", 6)'
    BY <1>15 DEF L2Answers, Thread
  <2>2. delay'["L2"] = delay["L2"]
    BY <1>4, <1>15 DEF L2Answers, Thread
  <2>3. L2Answers'
    BY <1>15, <2>1, <2>2 DEF L2Answers, L1Awaits, Sameclock
  <2>4. QED
    BY <1>2, <2>3, NextPhase DEF Phases
<1>16. CASE L1Answers
  <2>1. delay'["L1"] = delay["L1"]
    BY <1>4, <1>16 DEF L1Answers, Thread
  <2>2. L1Answers'
    BY <1>16, <2>1 DEF L1Answers, Sameclock
  <2>3. QED
    BY <1>2, <2>2, NextPhase DEF Phases
<1>17. QED
  BY <1>2, <1>6, <1>7, <1>8, <1>9, <1>10, <1>11, <1>12, <1>13, <1>14, <1>15, <1>16
  DEF Phases

-----------------------------------------------------------------------------
(* The clock.                                                               *)
AtStop == IInv /\ Handshake /\ Timeline /\ WholeCount

(* The edge that starts a cycle releases every thread that waits for it      *)
(* alone, and counts.                                                       *)
LEMMA StartCycleTime ==
    ASSUME AtStop, StartCycle
    PROVE  Timeline'
<1>1. /\ run = "stopped" /\ run' = "cycle" /\ stage \in {"request", "finish"}
      /\ UNCHANGED <<signalVars, pc, moduleVars, driverVars>>
  BY DEF StartCycle, ClockEdge
<1>2. CASE stage = "finish"
  BY <1>1, <1>2 DEF Timeline, driverVars
<1>3. CASE stage = "request"
  <2>1. ASSUME NEW t \in Thread
        PROVE  /\ delay[t] = Waiting(delay[t].clk, delay[t].delta)
               /\ delay'[t] = Waiting(delay[t].clk - 1, delay[t].delta)
               /\ delay[t].clk \in Nat \ {0} /\ delay[t].delta \in Nat
               /\ delay'[t].clk = delay[t].clk - 1
               /\ delay'[t].delta = delay[t].delta
    <3>1. delay[t].clk > 0
      BY <1>1, <1>3 DEF AtStop, IInv, ThreadsHeld
    <3>2. delay \in [Thread -> Delay]
      BY DEF AtStop, IInv, TypeOK, KernelTypeOK
    <3>3. delay'[t] = [delay[t] EXCEPT !.clk = @ - 1]
      BY DEF StartCycle, ClockEdge
    <3>4. delay[t] = Waiting(delay[t].clk, delay[t].delta)
          /\ delay[t].clk \in Nat /\ delay[t].delta \in Nat
      BY <3>2 DEF Delay, Waiting
    <3>5. delay'[t] = Waiting(delay[t].clk - 1, delay[t].delta)
      BY <3>3, <3>4 DEF Waiting
    <3>6. QED
      BY <3>1, <3>4, <3>5, WaitingFields
  <2>2. /\ Phases /\ flag = flagNext /\ flag["valid"] /\ flagNext["valid"]
        /\ ~stats.answered /\ ~memory.write_underway
    BY <1>1, <1>3 DEF AtStop, Timeline, Handshake
  <2>3. Elapsed \in Nat /\ Elapsed' = Elapsed + 1
    BY <1>1, Numbers DEF AtStop, Elapsed, driverVars
  <2>4. /\ flag' = flag /\ flagNext' = flagNext /\ pc' = pc /\ request' = request
        /\ stage' = stage /\ stats' = stats
        /\ memory' = memory /\ l2' = l2 /\ prefetch' = prefetch
    BY <1>1 DEF signalVars, driverVars, moduleVars
  <2>5. \A t \in Thread : \A n : ~RunsIn(t, n) /\ ~RunsWithin(t, n)
    BY <2>1, WaitingFields DEF RunsIn, RunsWithin
  <2>6. ASSUME NEW t \in Thread, NEW n, delay[t] = Waiting(1, n)
        PROVE  /\ delay'[t] = Waiting(0, n) /\ RunsIn(t, n)'
               /\ delay'[t].clk = 0 /\ delay'[t].delta = n
    BY <2>1, <2>6, WaitingFields DEF RunsIn
  <2>7. L2Rests => L2Rests' /\ (pc["L2"] = "poll" => RunsIn("L2", 1)')
    BY <2>4, <2>5, <2>6 DEF L2Rests, RunsWithin, Thread
  <2>8. MemoryReady => MemoryReady' /\ RunsIn("MEMORY", 2)'
    <3>1. MemoryReady => delay["MEMORY"] = Waiting(1, 2)
      BY <2>5 DEF MemoryReady, MemoryPolls, MemoryRestarts, Thread
    <3>2. MemoryReady => RunsIn("MEMORY", 2)' /\ RunsWithin("MEMORY", 2)'
                         /\ delay'["MEMORY"].clk = 0 /\ delay'["MEMORY"].delta = 2
      BY <2>6, <3>1 DEF RunsWithin, Thread
    <3>3. MemoryReady => (MemoryPolls \/ MemoryRestarts)'
      BY <2>2, <2>4, <3>2 DEF MemoryReady, MemoryPolls, MemoryRestarts
    <3>4. MemoryReady /\ Elapsed >= 1 => pc["MEMORY"] = "poll" /\ ~flagNext["done_from_Memory"]
      <4>1. delay["MEMORY"].clk # 0
        BY <2>1 DEF Thread
      <4>2. QED
        BY <4>1 DEF MemoryReady, MemoryPolls, MemoryRestarts
    <3>5. Elapsed' >= 2 => Elapsed >= 1
      BY <2>3
    <3>6. QED
      BY <2>2, <2>4, <3>2, <3>3, <3>4, <3>5 DEF MemoryReady
  <2>9. NoLines => NoLines'
    BY <2>4 DEF NoLines
  <2>10. Asked => Asked'
    BY <2>4 DEF Asked, L1Awaits
  <2>11. L2Serves => L2Serves' /\ RunsIn("L1", 6)'
    <3>1. L2Serves => delay["L1"] = Waiting(1, 6)
      BY <2>5 DEF L2Serves, Thread
    <3>2. L2Serves => RunsIn("L1", 6)' /\ RunsWithin("L1", 6)'
      BY <2>6, <3>1 DEF RunsWithin, Thread
    <3>3. QED
      BY <2>4, <2>10, <3>2 DEF L2Serves
  <2>12. CASE Arrives
    <3>1. Elapsed' + delay'["L1"].clk = 1
      BY <2>1, <2>3, <2>12 DEF Arrives, Thread
    <3>2. Arrives'
      BY <2>4, <2>7, <2>8, <2>9, <2>12, <3>1 DEF Arrives
    <3>3. QED
      BY <2>2, <2>4, <3>2, <1>3 DEF Timeline, Phases
  <2>13. CASE L1Looks
    <3>1. Elapsed' + delay'["L1"].clk = InL1For /\ delay'["L1"].delta = 0
      <4>1. delay["L1"].clk \in Nat /\ delay'["L1"].clk = delay["L1"].clk - 1
            /\ delay'["L1"].delta = delay["L1"].delta
        BY <2>1 DEF Thread
      <4>2. Elapsed + delay["L1"].clk = InL1For /\ delay["L1"].delta = 0
        BY <2>13 DEF L1Looks
      <4>3. QED
        BY <2>3, <4>1, <4>2
    <3>2. L1Looks'
      BY <2>4, <2>7, <2>8, <2>9, <2>13, <3>1 DEF L1Looks
    <3>3. QED
      BY <2>2, <2>4, <3>2, <1>3 DEF Timeline, Phases
  <2>14. CASE L2Looks
    <3>1. Elapsed' + delay'["L2"].clk = InL2For /\ delay'["L2"].delta = 0
      <4>1. delay["L2"].clk \in Nat /\ delay'["L2"].clk = delay["L2"].clk - 1
            /\ delay'["L2"].delta = delay["L2"].delta
        BY <2>1 DEF Thread
      <4>2. Elapsed + delay["L2"].clk = InL2For /\ delay["L2"].delta = 0
        BY <2>14 DEF L2Looks
      <4>3. QED
        BY <2>3, <4>1, <4>2
    <3>2. L2Looks'
      BY <2>4, <2>8, <2>9, <2>11, <2>14, <3>1 DEF L2Looks
    <3>3. QED
      BY <2>2, <2>4, <3>2, <1>3 DEF Timeline, Phases
  <2>15. CASE MemoryWorks
    <3>1. L2Serves /\ NoLines /\ delay["L2"] = Waiting(1, 2)
      BY <2>5, <2>15 DEF MemoryWorks, L2Waits, Thread
    <3>2. /\ delay'["L2"].clk = 0 /\ delay'["L2"].delta = 2 /\ RunsIn("L2", 2)'
          /\ delay'["L1"].clk = 0 /\ delay'["L1"].delta = 6
      BY <2>6, <2>11, <3>1, WaitingFields DEF RunsIn, Thread
    <3>3. L1RunsAfter(4)' /\ RunsWithin("L2", 2)'
      BY <3>2 DEF L1RunsAfter, RunsWithin
    <3>4. L2Waits'
      BY <2>4, <2>9, <2>11, <2>15, <3>1, <3>3 DEF MemoryWorks, L2Waits
    <3>5. Elapsed' + delay'["MEMORY"].clk = InL2For + Reading(0)
          /\ delay'["MEMORY"].delta = 0
      <4>1. delay["MEMORY"].clk \in Nat /\ delay'["MEMORY"].clk = delay["MEMORY"].clk - 1
            /\ delay'["MEMORY"].delta = delay["MEMORY"].delta
        BY <2>1 DEF Thread
      <4>2. Elapsed + delay["MEMORY"].clk = InL2For + Reading(0)
            /\ delay["MEMORY"].delta = 0
        BY <2>15 DEF MemoryWorks
      <4>3. QED
        BY <2>3, <4>1, <4>2
    <3>6. MemoryWorks'
      BY <2>4, <2>15, <3>2, <3>4, <3>5 DEF MemoryWorks
    <3>7. QED
      BY <2>2, <2>4, <3>6, <1>3 DEF Timeline, Phases
  <2>16. CASE Fetches
    <3>1. L2Serves /\ LineAwaited
      <4>1. ~LineThere /\ ~LineTaken
        BY <2>5 DEF LineThere, LineTaken, Thread
      <4>2. QED
        BY <2>16, <4>1 DEF Fetches
    <3>2. delay["L2"] = Waiting(1, 3) /\ NoLines /\ MemoryFetches /\ l2.i = LinesPut
          /\ pc["L2"] = "prefetch"
      BY <2>5, <3>1 DEF LineAwaited, Thread
    <3>3. /\ delay'["L2"] = Waiting(0, 3) /\ delay'["L2"].clk = 0 /\ delay'["L2"].delta = 3
          /\ delay'["L1"] = Waiting(0, 6) /\ delay'["L1"].clk = 0 /\ delay'["L1"].delta = 6
      BY <2>6, <2>11, <3>1, <3>2, WaitingFields DEF RunsIn, Thread
    <3>4. L1RunsAfter(1)' /\ RunsWithin("L2", 3)'
      BY <3>3 DEF L1RunsAfter, RunsWithin
    <3>5. /\ pc["MEMORY"] = "put" /\ memory.i \in 1 .. PrefetchLines
          /\ Elapsed + delay["MEMORY"].clk = InL2For + Reading(memory.i)
          /\ delay["MEMORY"].delta = 2
      <4>1. delay["MEMORY"].clk # 0
        BY <2>1 DEF Thread
      <4>2. QED
        BY <2>5, <3>2, <4>1 DEF MemoryFetches, Thread
    <3>6. delay'["MEMORY"].delta = 2
          /\ Elapsed' + delay'["MEMORY"].clk = InL2For + Reading(memory.i)
      <4>1. delay["MEMORY"].clk \in Nat /\ delay'["MEMORY"].clk = delay["MEMORY"].clk - 1
            /\ delay'["MEMORY"].delta = delay["MEMORY"].delta
        BY <2>1 DEF Thread
      <4>2. QED
        BY <2>3, <3>5, <4>1
    <3>7. MemoryFetches' /\ LinesPut' = LinesPut
      BY <2>4, <3>5, <3>6 DEF MemoryFetches, LinesPut
    <3>8. RunsIn("L2", delay["MEMORY"].delta + 1)'
          /\ RunsIn("L1", delay["MEMORY"].delta + 4)'
      <4>1. delay'["MEMORY"].delta + 1 = 3 /\ delay'["MEMORY"].delta + 4 = 6
        BY <3>6
      <4>2. QED
        BY <3>3, <4>1 DEF RunsIn
    <3>9. LineAwaited'
      BY <2>4, <2>9, <3>2, <3>4, <3>7, <3>8 DEF LineAwaited
    <3>10. Fetches'
      BY <2>4, <2>11, <2>16, <3>1, <3>9 DEF Fetches
    <3>11. QED
      BY <2>2, <2>4, <3>10, <1>3 DEF Timeline, Phases
  <2>17. ~L2Asked /\ ~Issues /\ ~MemoryAsked /\ ~L2Answers /\ ~L1Answers
    BY <1>1, <2>5 DEF L2Asked, Issues, MemoryAsked, L2Answers, L1Answers, Thread
  <2>18. ~MemoryAnswers
    BY <2>1 DEF MemoryAnswers, Thread
  <2>19. QED
    BY <2>2, <2>12, <2>13, <2>14, <2>15, <2>16, <2>17, <2>18 DEF Phases
<1>4. QED
  BY <1>1, <1>2, <1>3

(* At the end of a cycle without an answer the request is looked up, or the  *)
(* memory works for it; the count has not reached its bound.                *)
LEMMA UnansweredCycle ==
    ASSUME AtStop, stage = "request", run = "cycle",
           \A t \in Thread : delay[t].clk > 0
    PROVE  /\ L1Looks \/ L2Looks \/ MemoryWorks \/ Fetches \/ L1Answers
           /\ Elapsed <= CountCap /\ Elapsed = cycle_count + 1
<1>1. Phases
  BY DEF AtStop, Timeline
<1>2. \A t \in Thread : delay[t].clk \in Nat \ {0}
  BY Numbers DEF AtStop
<1>3. \A t \in Thread : \A n : ~RunsIn(t, n) /\ ~RunsWithin(t, n)
  BY <1>2, WaitingFields DEF RunsIn, RunsWithin
<1>4. Elapsed = cycle_count + 1 /\ cycle_count \in Nat
  BY DEF Elapsed, AtStop, IInv, TypeOK
<1>5. PrefetchLines \in Nat /\ CountCap \in Nat
  BY Numbers DEF AtStop
<1>6. ~Arrives
  BY <1>2, <1>4 DEF Arrives, Thread
<1>7. ~L2Asked /\ ~Issues /\ ~MemoryAsked /\ ~L2Answers
  BY <1>3 DEF L2Asked, Issues, MemoryAsked, L2Answers, Thread
<1>8. ~MemoryAnswers
  BY <1>2 DEF MemoryAnswers, Thread
<1>9. L1Looks \/ L2Looks \/ MemoryWorks \/ Fetches \/ L1Answers
  BY <1>1, <1>6, <1>7, <1>8 DEF Phases
<1>10. InL1For \in Nat /\ L2Latency \in Nat /\ InL2For = InL1For + L2Latency
  BY ReadingNumbers, ConstantsAssumption DEF InL2For
<1>11. /\ Reading(0) \in Nat /\ Reading(PrefetchLines) \in Nat
       /\ Reading(0) <= Reading(PrefetchLines)
       /\ InL2For + Reading(PrefetchLines) <= CountCap
  BY <1>5, ReadingNumbers DEF AtStop, WholeCount
<1>12. L1Looks => Elapsed <= InL1For
  BY <1>2, <1>4, <1>10 DEF L1Looks, Thread
<1>13. L2Looks => Elapsed <= InL2For
  BY <1>2, <1>4, <1>10 DEF L2Looks, Thread
<1>14. MemoryWorks => Elapsed <= InL2For + Reading(0)
  BY <1>2, <1>4, <1>10, <1>11 DEF MemoryWorks, Thread
<1>15. Fetches => Elapsed <= InL2For + Reading(PrefetchLines)
  <2>1. SUFFICES ASSUME Fetches
                 PROVE  Elapsed <= InL2For + Reading(PrefetchLines)
    OBVIOUS
  <2>2. MemoryFetches
    BY <1>3, <2>1 DEF Fetches, LineAwaited, LineThere, LineTaken, Thread
  <2>3. /\ memory.i \in 1 .. PrefetchLines
        /\ Elapsed + delay["MEMORY"].clk = InL2For + Reading(memory.i)
    BY <1>3, <2>2 DEF MemoryFetches, Thread
  <2>4. Reading(memory.i) <= Reading(PrefetchLines) /\ Reading(memory.i) \in Nat
    <3>1. memory.i \in Nat /\ memory.i <= PrefetchLines
      BY <1>5, <2>3
    <3>2. QED
      BY <1>5, <3>1, ReadingNumbers
  <2>5. delay["MEMORY"].clk \in Nat
    BY <1>2 DEF Thread
  <2>6. QED
    BY <1>4, <1>10, <1>11, <2>3, <2>4, <2>5
<1>16. L1Answers => Elapsed <= InL2For + Reading(PrefetchLines)
  BY <1>4, <1>10, <1>11 DEF L1Answers, Due
<1>17. Elapsed <= CountCap
  BY <1>4, <1>5, <1>9, <1>10, <1>11, <1>12, <1>13, <1>14, <1>15, <1>16
<1>18. QED
  BY <1>4, <1>9, <1>17

(* A cycle without an answer changes no phase.                              *)
LEMMA RequestContinuesTime ==
    ASSUME AtStop, RequestContinues
    PROVE  Timeline'
<1>1. /\ stage = "request" /\ run = "cycle" /\ run' = "stopped"
      /\ \A t \in Thread : delay[t].clk > 0
      /\ ~flag["done_from_L1"] /\ flagNext = flag
      /\ stage' = stage /\ request' = request /\ stats' = stats
      /\ flag' = flag /\ flagNext' = flagNext /\ pc' = pc /\ delay' = delay
      /\ memory' = memory /\ l2' = l2 /\ prefetch' = prefetch
      /\ cycle_count' = Count
  BY DEF RequestContinues, CycleEnds, Settled, SignalsSettled, signalVars, moduleVars
<1>2. /\ L1Looks \/ L2Looks \/ MemoryWorks \/ Fetches \/ L1Answers
      /\ Elapsed <= CountCap /\ Elapsed = cycle_count + 1
  BY <1>1, UnansweredCycle
<1>3. Elapsed' = Elapsed
  <2>1. cycle_count \in Nat /\ CountCap \in Nat
    BY ConstantsAssumption DEF AtStop, IInv, TypeOK
  <2>2. cycle_count < CountCap
    BY <1>2, <2>1
  <2>3. QED
    BY <1>1, <1>2, <2>2 DEF Count, Elapsed
<1>4. ~L1Answers
  BY <1>1 DEF L1Answers
<1>5. /\ L2Rests <=> L2Rests'
      /\ MemoryPolls <=> MemoryPolls'
      /\ MemoryRestarts <=> MemoryRestarts'
      /\ MemoryLeaves <=> MemoryLeaves'
      /\ NoLines <=> NoLines'
      /\ LinesPut' = LinesPut
      /\ L2Serves <=> L2Serves'
  BY <1>1
  DEF L2Rests, RunsWithin, RunsIn, MemoryPolls, MemoryRestarts, MemoryLeaves,
      NoLines, LinesPut, L2Serves, Asked, L1Awaits
<1>6. /\ MemoryRests <=> MemoryRests' 
      /\ MemoryReady <=> MemoryReady'
      /\ MemoryFetches <=> MemoryFetches'
      /\ L2Waits <=> L2Waits'
  <2>1. MemoryRests <=> MemoryRests' 
    BY <1>1, <1>5 DEF MemoryRests
  <2>2. MemoryReady <=> MemoryReady'
    BY <1>1, <1>3, <1>5 DEF MemoryReady
  <2>3. MemoryFetches <=> MemoryFetches'
    BY <1>1, <1>3 DEF MemoryFetches, RunsIn
  <2>4. L2Waits <=> L2Waits'
    <3>1. RunsWithin("L2", 2) <=> RunsWithin("L2", 2)'
      BY <1>1 DEF RunsWithin
    <3>2. L1RunsAfter(4) <=> L1RunsAfter(4)'
      BY <1>1 DEF L1RunsAfter
    <3>3. QED
      <4>1. (delay["L2"] = Waiting(1, 2)) <=> (delay["L2"] = Waiting(1, 2))'
        BY <1>1
      <4>2. /\ pc' = pc /\ request' = request /\ flagNext' = flagNext
            /\ (L2Serves <=> L2Serves') /\ (NoLines <=> NoLines')
        BY <1>1, <1>5
      <4>3. QED
        BY <3>1, <3>2, <4>1, <4>2 DEF L2Waits
  <2>5. QED
    BY <2>1, <2>2, <2>3, <2>4
<1>7. L1Looks => L1Looks'
  BY <1>1, <1>3, <1>5, <1>6 DEF L1Looks, RunsIn
<1>8. L2Looks => L2Looks'
  BY <1>1, <1>3, <1>5, <1>6 DEF L2Looks, RunsIn
<1>9. MemoryWorks => MemoryWorks'
  BY <1>1, <1>3, <1>6 DEF MemoryWorks, RunsIn
<1>10. Fetches => Fetches'
  <2>1. MemoryFetchesOn <=> MemoryFetchesOn'
    BY <1>1, <1>6 DEF MemoryFetchesOn
  <2>2. LineAwaited => LineAwaited'
    BY <1>1, <1>5, <1>6 DEF LineAwaited, RunsIn, RunsWithin, L1RunsAfter
  <2>3. ~LineThere /\ ~LineTaken
    <3>1. delay["L2"].clk # 0
      BY <1>1 DEF Thread
    <3>2. QED
      BY <3>1 DEF LineThere, LineTaken, RunsWithin
  <2>4. QED
    BY <1>1, <1>5, <2>2, <2>3 DEF Fetches
<1>11. Phases'
  BY <1>2, <1>4, <1>7, <1>8, <1>9, <1>10 DEF Phases
<1>12. QED
  BY <1>1, <1>11 DEF AtStop, Timeline

(* The answer: its cycles are those of the phase, and the threads rest.      *)
LEMMA RequestAnsweredTime ==
    ASSUME AtStop, RequestAnswered
    PROVE  Timeline' /\ RequestLatency'
<1>1. /\ stage = "request" /\ stage' = "idle" /\ run = "cycle"
      /\ \A t \in Thread : delay[t].clk > 0
      /\ flag["done_from_L1"] /\ flagNext = flag
      /\ pc' = pc /\ delay' = delay
      /\ memory' = memory /\ prefetch' = prefetch
  BY DEF RequestAnswered, CycleEnds, Settled, SignalsSettled, moduleVars
<1>2. /\ stats'.answered /\ stats'.cycles = Count /\ stats'.we = request.we
      /\ stats'.hit_L1 = flag["hit_from_L1"] /\ stats'.hit_L2 = flag["hit_from_L2"]
      /\ flag' = [flag EXCEPT !["valid"] = FALSE] /\ flagNext' = flag'
  BY DEF RequestAnswered, AssignNow
<1>3. /\ L1Looks \/ L2Looks \/ MemoryWorks \/ Fetches \/ L1Answers
      /\ Elapsed <= CountCap /\ Elapsed = cycle_count + 1
  BY <1>1, UnansweredCycle
<1>4. L1Answers
  <2>1. pc["L1"] = "restart"
    BY <1>1, WaitingFields DEF AtStop, Handshake, DoneUp, Thread
  <2>2. ~L1Awaits /\ pc["L1"] # "access"
    BY <2>1 DEF L1Awaits
  <2>3. QED
    BY <1>3, <2>2
    DEF L1Looks, L2Looks, MemoryWorks, L2Waits, Fetches, L2Serves, Asked
<1>5. stats'.cycles = Elapsed
  <2>1. cycle_count \in Nat /\ CountCap \in Nat
    BY ConstantsAssumption DEF AtStop, IInv, TypeOK
  <2>2. cycle_count < CountCap
    BY <1>3, <2>1
  <2>3. QED
    BY <1>2, <1>3, <2>2 DEF Count
<1>6. stats'.cycles = Due(stats'.we, stats'.hit_L1, stats'.hit_L2)
  BY <1>1, <1>2, <1>4, <1>5 DEF L1Answers
<1>7. RequestLatency'
  <2>1. stats'.we \in BOOLEAN /\ stats'.hit_L1 \in BOOLEAN /\ stats'.hit_L2 \in BOOLEAN
    BY <1>2 DEF AtStop, IInv, TypeOK, KernelTypeOK, Flag, Request
  <2>2. L1Latency \in Nat /\ L2Latency \in Nat /\ MemoryLatency \in Nat
        /\ PrefetchLines \in Nat
    BY ConstantsAssumption
  <2>3. CASE stats'.we
    BY <1>6, <2>2, <2>3, ReadingNumbers DEF RequestLatency, Due, InL2For, InL1For
  <2>4. CASE ~stats'.we /\ stats'.hit_L1
    BY <1>6, <2>2, <2>4 DEF RequestLatency, Due, InL1For
  <2>5. CASE ~stats'.we /\ ~stats'.hit_L1 /\ stats'.hit_L2
    BY <1>6, <2>2, <2>5 DEF RequestLatency, Due, InL1For, InL2For
  <2>6. CASE ~stats'.we /\ ~stats'.hit_L1 /\ ~stats'.hit_L2
    <3>1. stats'.cycles = InL2For + Reading(PrefetchLines)
      BY <1>6, <2>6 DEF Due
    <3>2. Reading(PrefetchLines) = MemoryLatency * (PrefetchLines + 1)
      BY DEF Reading
    <3>3. MemoryLatency * (PrefetchLines + 1) \in Nat
      BY <2>2
    <3>4. stats'.cycles = 1 + L1Latency + (L2Latency + MemoryLatency * (PrefetchLines + 1))
      BY <2>2, <3>1, <3>2, <3>3 DEF InL1For, InL2For
    <3>5. QED
      BY <2>6, <3>4 DEF RequestLatency
  <2>7. QED
    BY <2>1, <2>3, <2>4, <2>5, <2>6
<1>8. \A s \in Flag \ {"valid"} : flag'[s] = flag[s] /\ flagNext'[s] = flagNext[s]
  BY <1>1, <1>2 DEF AtStop, IInv, TypeOK, KernelTypeOK
<1>9. L2Rests' /\ NoLines'
  BY <1>1, <1>4 DEF L1Answers, L2Rests, RunsWithin, NoLines
<1>10. MemoryRests'
  <2>1. MemoryPolls => MemoryPolls'
    BY <1>1, <1>8 DEF MemoryPolls, RunsIn, RunsWithin, Flag
  <2>2. MemoryRestarts => MemoryRestarts'
    BY <1>1, <1>8 DEF MemoryRestarts, RunsIn, RunsWithin, Flag
  <2>3. MemoryLeaves => MemoryLeaves'
    BY <1>1 DEF MemoryLeaves
  <2>4. QED
    BY <1>4, <1>8, <2>1, <2>2, <2>3 DEF L1Answers, MemoryRests, Flag
<1>11. Timeline'
  BY <1>1, <1>9, <1>10 DEF Timeline, Idle, AtStop
<1>12. QED
  BY <1>7, <1>11

(* A request is given to threads that rest.                                 *)
LEMMA SendRequestTime ==
    ASSUME AtStop, NEW r \in Requests, SendRequest(r)
    PROVE  Timeline' /\ RequestLatency'
<1>1. /\ stage = "idle" /\ stage' = "request" /\ run' = run
      /\ pc' = pc /\ delay' = delay
      /\ memory' = memory /\ prefetch' = prefetch
      /\ cycle_count' = 0 /\ ~stats'.answered
      /\ flag' = [flag EXCEPT !["valid"] = TRUE, !["write_enable"] = r.we]
      /\ flagNext' = flag'
  BY DEF SendRequest, AssignNow, moduleVars, NoStats
<1>2. /\ flag = flagNext /\ pc["L1"] = "restart" /\ run = "stopped"
      /\ Idle /\ ~memory.write_underway
      /\ delay["L1"] \in {Waiting(1, 0), Now}
  BY <1>1 DEF AtStop, Handshake, Waits, Timeline
<1>3. \A t \in Thread : delay[t].clk > 0
  BY <1>1, <1>2 DEF AtStop, IInv, ThreadsHeld
<1>4. delay["L1"].clk = 1
  BY <1>2, <1>3, WaitingFields DEF Thread
<1>5. /\ flag'["valid"]
      /\ \A s \in Flag \ {"valid", "write_enable"} :
            flag'[s] = flag[s] /\ flagNext'[s] = flagNext[s]
  BY <1>1, <1>2 DEF AtStop, IInv, TypeOK, KernelTypeOK, Flag
<1>6. Elapsed' = 0
  BY <1>1, <1>2 DEF Elapsed
<1>7. L2Rests' /\ NoLines'
  BY <1>1, <1>2 DEF Idle, L2Rests, RunsWithin, NoLines
<1>8. MemoryReady'
  <2>1. ~MemoryLeaves
    BY <1>3, WaitingFields DEF MemoryLeaves, Thread
  <2>2. MemoryPolls => MemoryPolls'
    BY <1>1, <1>5 DEF MemoryPolls, RunsIn, RunsWithin, Flag
  <2>3. MemoryRestarts => MemoryRestarts'
    BY <1>1, <1>5 DEF MemoryRestarts, RunsIn, RunsWithin, Flag
  <2>4. QED
    BY <1>2, <1>5, <1>6, <2>1, <2>2, <2>3 DEF Idle, MemoryRests, MemoryReady, Flag
<1>9. Arrives'
  BY <1>1, <1>2, <1>4, <1>6, <1>7, <1>8 DEF Arrives
<1>10. Timeline'
  BY <1>1, <1>2, <1>5, <1>9 DEF Timeline, Phases
<1>11. QED
  BY <1>1, <1>10 DEF RequestLatency

-----------------------------------------------------------------------------
(* The invariant holds at the start ...                                     *)
LEMMA InitTimeline == Init => Timeline /\ RequestLatency
<1> SUFFICES ASSUME Init PROVE Timeline /\ RequestLatency
  OBVIOUS
<1>1. /\ flag = [s \in Flag |-> FALSE] /\ flagNext = flag
      /\ pc["L2"] = "restart" /\ pc["MEMORY"] = "restart"
      /\ delay["MEMORY"] = Waiting(1, 2) /\ stage = "idle"
      /\ ~memory.write_underway /\ prefetch = EmptyFifo(PrefetchLines)
  BY DEF Init, KernelInit, Thread, Waiting, MemoryInit, PrefetchInit
<1>2. NoLines
  <2>1. prefetch.queue = <<>> /\ prefetch.free = PrefetchLines
    BY <1>1 DEF EmptyFifo
  <2>2. QED
    BY <2>1 DEF NoLines
<1>3. MemoryRests
  BY <1>1 DEF MemoryRests, MemoryRestarts, Flag
<1>4. Timeline
  BY <1>1, <1>2, <1>3 DEF Timeline, Idle, L2Rests
<1>5. RequestLatency
  BY DEF Init, NoStats, RequestLatency
<1>6. QED
  BY <1>4, <1>5

(* ... and every step keeps it.                                             *)
LEMMA NextTimeline ==
    ASSUME AtStop, RequestLatency, [Next]_vars
    PROVE  Timeline' /\ RequestLatency'
<1>1. CASE UNCHANGED vars
  <2>1. /\ run' = run /\ stage' = stage /\ stats' = stats /\ request' = request
        /\ flag' = flag /\ flagNext' = flagNext /\ pc' = pc /\ delay' = delay
        /\ memory' = memory /\ l2' = l2 /\ prefetch' = prefetch
        /\ cycle_count' = cycle_count
    BY <1>1 DEF vars, kernelVars, moduleVars, driverVars
  <2>2. /\ Elapsed' = Elapsed /\ L2Rests = L2Rests'
        /\ MemoryPolls = MemoryPolls' /\ MemoryRestarts = MemoryRestarts'
        /\ MemoryLeaves = MemoryLeaves' /\ MemoryFetches = MemoryFetches'
        /\ NoLines = NoLines' /\ LinesPut' = LinesPut /\ L2Serves = L2Serves'
    BY <2>1
    DEF Elapsed, L2Rests, RunsWithin, RunsIn, MemoryPolls, MemoryRestarts, MemoryLeaves,
        MemoryFetches, NoLines, LinesPut, L2Serves, Asked, L1Awaits
  <2>3. /\ MemoryRests = MemoryRests' /\ MemoryReady = MemoryReady'
        /\ MemoryFetchesOn = MemoryFetchesOn' /\ L2Waits = L2Waits'
    BY <2>1, <2>2
    DEF MemoryRests, MemoryReady, MemoryFetchesOn, L2Waits, RunsIn, RunsWithin, L1RunsAfter
  <2>4. /\ Arrives = Arrives' /\ L1Looks = L1Looks' /\ L2Asked = L2Asked'
        /\ L2Looks = L2Looks' /\ Issues = Issues' /\ MemoryAsked = MemoryAsked'
    BY <2>1, <2>2, <2>3
    DEF Arrives, L1Looks, L2Asked, L2Looks, Issues, MemoryAsked, RunsIn, RunsWithin,
        Asked, L1Awaits
  <2>5. /\ MemoryWorks = MemoryWorks' /\ MemoryAnswers = MemoryAnswers'
        /\ L2Answers = L2Answers' /\ L1Answers = L1Answers'
    BY <2>1, <2>2, <2>3
    DEF MemoryWorks, MemoryAnswers, L2Answers, L1Answers, RunsIn, RunsWithin, L1Awaits
  <2>6. /\ LineAwaited = LineAwaited' /\ LineThere = LineThere' /\ LineTaken = LineTaken'
    BY <2>1, <2>2, <2>3
    DEF LineAwaited, LineThere, LineTaken, RunsIn, RunsWithin, L1RunsAfter
  <2>7. Fetches = Fetches' /\ Idle = Idle'
    BY <2>1, <2>2, <2>3, <2>6 DEF Fetches, Idle
  <2>8. Phases = Phases'
    BY <2>4, <2>5, <2>7 DEF Phases
  <2>9. Timeline'
    BY <2>1, <2>7, <2>8 DEF AtStop, Timeline
  <2>10. QED
    BY <2>1, <2>9 DEF RequestLatency
<1>2. CASE L1Step \/ L2Step \/ MemoryStep \/ Delta
  <2>1. UNCHANGED driverVars /\ run \in {"cycle", "zero"}
    <3>1. Delta => UNCHANGED driverVars /\ run \in {"cycle", "zero"}
      BY DEF Delta, DeltaCycle
    <3>2. L1Step \/ L2Step \/ MemoryStep => UNCHANGED driverVars
      BY DEF L1Step, L2Step, MemoryStep
    <3>3. L1Step \/ L2Step \/ MemoryStep => run \in {"cycle", "zero"}
      BY ThreadStepRuns DEF AtStop
    <3>4. QED
      BY <1>2, <3>1, <3>2, <3>3
  <2>2. RequestLatency'
    BY <2>1 DEF driverVars, RequestLatency
  <2>3. CASE stage \notin {"idle", "request"}
    BY <2>1, <2>2, <2>3 DEF Timeline, driverVars
  <2>4. CASE stage \in {"idle", "request"}
    <3>1. AtWork
      BY <2>1, <2>4 DEF AtStop, AtWork, Handshake, Serves
    <3>2. CASE Delta
      BY <2>2, <3>1, <3>2, DeltaTime
    <3>3. CASE L1Step \/ L2Step \/ MemoryStep
      <4>1. Sameclock
        BY <2>1, <3>3, ThreadStepRuns DEF AtStop, Sameclock, driverVars
      <4>2. L1Step => Timeline'
        BY <3>1, <4>1, L1StepTime DEF L1Step, memoryVars, bufferVars
      <4>3. L2Step => Timeline'
        BY <3>1, <4>1, L2StepTime DEF L2Step, memoryVars
      <4>4. MemoryStep => Timeline'
        BY <3>1, <4>1, MemoryStepTime DEF MemoryStep
      <4>5. QED
        BY <2>2, <3>3, <4>2, <4>3, <4>4
    <3>4. QED
      BY <1>2, <3>2, <3>3
  <2>5. QED
    BY <2>3, <2>4
<1>3. CASE Driver
  <2>1. CASE \E r \in Requests : SendRequest(r)
    BY <2>1, SendRequestTime
  <2>2. CASE StartCycle
    BY <2>2, StartCycleTime DEF StartCycle, driverVars, RequestLatency
  <2>3. CASE RequestContinues
    BY <2>3, RequestContinuesTime DEF RequestContinues, RequestLatency
  <2>4. CASE RequestAnswered
    BY <2>4, RequestAnsweredTime
  <2>5. CASE RequestExhausted \/ Finish \/ FinishWaits \/ Finished
    <3>1. stage' \notin {"idle", "request"} /\ stats' = stats
      BY <2>5 DEF RequestExhausted, Finish, FinishWaits, Finished
    <3>2. QED
      BY <3>1 DEF Timeline, RequestLatency
  <2>6. CASE Stopped
    BY <1>1, <2>6 DEF Stopped
  <2>7. QED
    BY <1>3, <2>1, <2>2, <2>3, <2>4, <2>5, <2>6 DEF Driver
<1>4. QED
  BY <1>1, <1>2, <1>3 DEF Next

(* A request takes as many cycles as its latencies add up to, for every       *)
(* configuration without a store-back buffer and every schedule of the       *)
(* threads within a cycle (modules.hpp, "Cases for cycles"): no answer is     *)
(* taken an edge too early or too late, and none is lost.                    *)
THEOREM LatencyCorrect == WholeCount => (Spec => []RequestLatency)
<1> SUFFICES ASSUME WholeCount PROVE Spec => []RequestLatency
  OBVIOUS
<1> DEFINE Inv == IInv /\ Handshake /\ Timeline /\ RequestLatency
<1>1. Init => Inv
  BY InitIInv, InitHandshake, InitTimeline
<1>2. Inv /\ [Next]_vars => Inv'
  BY NextIInv, NextHandshake, NextTimeline DEF AtStop
<1>3. Inv => RequestLatency
  OBVIOUS
<1>4. QED
  BY <1>1, <1>2, <1>3, PTL DEF Spec
=============================================================================
