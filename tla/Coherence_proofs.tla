-------------------------- MODULE Coherence_proofs --------------------------
(***************************************************************************)
(* Without a store-back buffer the two caches and the memory behave as one   *)
(* memory, for every number of lines, line size that is a power of two and  *)
(* latency: the copies in the caches are those of memory, and CPU_L1_L2     *)
(* implements CoherentMemory.                                               *)
(***************************************************************************)
EXTENDS Storeback_proofs

(* The configurations this is about: without a store-back buffer writes go   *)
(* through to memory.                                                        *)
Unbuffered == StorebackLines = 0

(* Besides, the line size is a power of two, as the comment in L1::update()  *)
(* says, requests are to the first word of a line, which is all that L2      *)
(* hands to L1, and no line prefetched for a request takes the place of the  *)
(* line itself.                                                              *)
WriteThrough ==
    /\ Unbuffered
    /\ LineIsPower
    /\ \A r \in Requests : Offset(r.addr, LineWords) = 0
    /\ \A r \in Requests : \A k \in 2 .. PrefetchLines + 1 :
           Index(r.addr + k * LineWords, LineWords, L2Lines)
               # Index(r.addr, LineWords, L2Lines)

(* It has put the last prefetched line into the buffer, too.                *)
MemoryEnds ==
    /\ delay["MEMORY"].clk = 0
    /\ \/ pc["MEMORY"] = "restart"
       \/ pc["MEMORY"] = "prefetch" /\ memory.i > PrefetchLines

LEMMA WritesGoThrough == WriteThrough => Unbuffered
  BY DEF WriteThrough

(* Where MEMORY and L2 can wait, and how long.                              *)
MemoryWaits ==
    /\ pc["MEMORY"] \in {"restart", "poll", "read", "write", "prefetch", "put"}
    /\ ~memory.write_underway
    /\ pc["MEMORY"] = "restart" =>
           delay["MEMORY"] = Waiting(1, 2) \/ delay["MEMORY"].clk = 0
    /\ pc["MEMORY"] = "prefetch" => delay["MEMORY"].clk = 0
    /\ pc["MEMORY"] \in {"read", "write"} => delay["MEMORY"].delta = 0
    /\ pc["L2"] \notin {"store", "retry", "flush"}
    /\ L2Awaits => delay["L2"] = Waiting(1, 2) \/ delay["L2"].clk = 0
    /\ pc["L2"] = "issue" => delay["L2"] = Waiting(0, 0)

(* When L2 is about to give a command MEMORY is polling.                    *)
MemoryReady ==
    /\ pc["L2"] \in {"restart", "poll", "access", "issue"} =>
           \/ pc["MEMORY"] = "poll" \/ MemoryEnds
           \/ /\ pc["MEMORY"] = "restart" /\ delay["MEMORY"] = Waiting(1, 2)
              /\ pc["L2"] = "restart" /\ delay["L2"] = Waiting(1, 0)
    /\ pc["L2"] \in {"access", "issue"} /\ delay["L2"].clk = 0 =>
           /\ pc["MEMORY"] = "poll"
           /\ ~flag["done_from_Memory"] /\ ~flagNext["done_from_Memory"]

(* The command stands while L2 awaits the answer.  Once withdrawn it is      *)
(* visible to MEMORY for less than MEMORY takes to poll again.              *)
MemoryCommandUp ==
    /\ flagNext["valid_from_L2_to_Memory"] <=> L2Awaits
    /\ flag["valid_from_L2_to_Memory"] /\ ~L2Awaits =>
           \/ pc["MEMORY"] \in {"prefetch", "put"}
           \/ pc["MEMORY"] = "restart" /\ delay["MEMORY"].delta = 2
    /\ pc["MEMORY"] = "read" => pc["L2"] = "await_read"
    /\ pc["MEMORY"] = "write" => pc["L2"] = "await_write"
    /\ pc["MEMORY"] \in {"read", "write"} /\ delay["MEMORY"].clk = 0 =>
           delay["L2"] = Waiting(0, 2)

(* L2 looks while the answer is up, and not while an older one still is.     *)
MemoryDoneUp ==
    /\ flag["done_from_Memory"] \/ flagNext["done_from_Memory"] =>
           \/ Answers
           \/ /\ pc["MEMORY"] = "poll" /\ delay["MEMORY"] = Waiting(0, 2)
              /\ ~flagNext["done_from_Memory"] /\ ~L2Awaits
    /\ L2Awaits /\ Answers =>
           /\ flagNext["done_from_Memory"]
           /\ delay["L2"] = Waiting(0, 2) \/ flag["done_from_Memory"]
           /\ delay["L2"].clk = 0
           /\ \/ /\ pc["MEMORY"] = "prefetch" /\ delay["MEMORY"] = delay["L2"]
                 /\ pc["L2"] = "await_read" /\ memory.i = 1
              \/ /\ pc["MEMORY"] = "put" /\ delay["MEMORY"].clk > 0
                 /\ pc["L2"] = "await_read" /\ memory.i = 1
                 /\ delay["L2"] = Waiting(0, 0)
              \/ /\ pc["MEMORY"] = "restart" /\ delay["MEMORY"] = Waiting(0, 2)
                 /\ pc["L2"] = "await_read" /\ delay["L2"] = Waiting(0, 0)
              \/ /\ pc["MEMORY"] = "restart" /\ delay["MEMORY"] = Waiting(1, 2)
                 /\ pc["L2"] = "await_write"
    /\ L2Fetches /\ pc["MEMORY"] = "restart" => delay["MEMORY"].clk = 0

(* L2 takes what MEMORY puts, and leaves nothing behind.                     *)
Prefetching ==
    /\ pc["MEMORY"] \in {"prefetch", "put"} => memory.i \in 1 .. PrefetchLines + 1
    /\ pc["MEMORY"] = "put" => memory.i <= PrefetchLines
    /\ pc["MEMORY"] \in {"prefetch", "put"} /\ memory.i <= PrefetchLines =>
           pc["L2"] = "await_read" \/ L2Fetches
    /\ ~L2Fetches => Len(prefetch.queue) = 0
    /\ L2Fetches => /\ l2.i < PrefetchLines
                    /\ LinesTaken + Len(prefetch.queue) <= LinesPut

MemoryHandshake ==
    MemoryWaits /\ MemoryReady /\ MemoryCommandUp /\ MemoryDoneUp /\ Prefetching

-----------------------------------------------------------------------------
(* Steps that leave both threads and what is between them alone.            *)
LEMMA ElsewhereHandshake ==
    ASSUME IInv, MemoryHandshake,
           \A t \in {"L2", "MEMORY"} : pc'[t] = pc[t] /\ delay'[t] = delay[t],
           \A s \in {"valid_from_L2_to_Memory", "done_from_Memory"} :
               flag'[s] = flag[s] /\ flagNext'[s] = flagNext[s],
           UNCHANGED <<l2, memory, prefetch>>
    PROVE  MemoryHandshake'
<1> USE DEF L2Awaits, L2Fetches, Answers, MemoryEnds
<1>1. MemoryWaits' /\ MemoryReady'
  BY DEF MemoryHandshake, MemoryWaits, MemoryReady
<1>2. MemoryCommandUp' /\ MemoryDoneUp'
  BY DEF MemoryHandshake, MemoryCommandUp, MemoryDoneUp
<1>3. Prefetching'
  BY DEF MemoryHandshake, Prefetching, LinesPut, LinesTaken
<1>4. QED
  BY <1>1, <1>2, <1>3 DEF MemoryHandshake

-----------------------------------------------------------------------------
(* L2 has no command for MEMORY yet, or none any more.                      *)
LEMMA L2StartHandshake ==
    ASSUME IInv, MemoryHandshake, UNCHANGED <<memory, prefetch>>, l2'.i = l2.i,
           \/ /\ ThreadMoves("L2", "restart", "poll", 0, 2)
              /\ Drives({"done_from_L2", "hit_from_L2"})
           \/ /\ ThreadMoves("L2", "poll", "poll", 1, 1) /\ Drives({})
           \/ /\ ThreadMoves("L2", "poll", "access", L2Latency, 0) /\ Drives({})
           \/ /\ ThreadMoves("L2", "access", "restart", 1, 0)
              /\ Drives({"done_from_L2", "hit_from_L2"})
           \/ /\ ThreadMoves("L2", "access", "issue", 0, 0) /\ Drives({})
    PROVE  MemoryHandshake'
<1> USE NumberTypes, WaitingFields, WaitingDiffers
    DEF L2Awaits, L2Fetches, Answers, MemoryEnds, ThreadMoves, Drives, Flag,
        Thread
<1>1. MemoryWaits'
  BY DEF MemoryHandshake, MemoryWaits
<1>2. MemoryReady'
  BY SMTT(30) DEF MemoryHandshake, MemoryReady
<1>3. MemoryCommandUp'
  BY SMTT(30) DEF MemoryHandshake, MemoryCommandUp
<1>4. MemoryDoneUp'
  BY DEF MemoryHandshake, MemoryDoneUp
<1>5. Prefetching'
  BY DEF MemoryHandshake, Prefetching, LinesPut, LinesTaken
<1>6. QED
  BY <1>1, <1>2, <1>3, <1>4, <1>5 DEF MemoryHandshake

(* L2 gives a command: MEMORY polls and its last answer is withdrawn.        *)
LEMMA L2CommandHandshake ==
    ASSUME IInv, MemoryHandshake, UNCHANGED <<memory, prefetch>>, l2'.i = l2.i,
           \/ ThreadMoves("L2", "access", "await_write", 0, 0)
           \/ ThreadMoves("L2", "issue", "await_read", 0, 0),
           Drives({"hit_from_L2", "valid_from_L2_to_Memory",
                   "write_enable_from_L2_to_Memory"}),
           flagNext'["valid_from_L2_to_Memory"]
    PROVE  MemoryHandshake'
<1> USE NumberTypes, WaitingFields, WaitingDiffers
    DEF L2Awaits, L2Fetches, Answers, MemoryEnds, ThreadMoves, Drives, Flag,
        Thread
<1>1. MemoryWaits'
  BY DEF MemoryHandshake, MemoryWaits
<1>2. MemoryReady'
  BY DEF MemoryHandshake, MemoryReady
<1>3. MemoryCommandUp'
  BY DEF MemoryHandshake, MemoryReady, MemoryCommandUp
<1>4. MemoryDoneUp'
  BY DEF MemoryHandshake, MemoryReady, MemoryDoneUp
<1>5. Prefetching'
  BY DEF MemoryHandshake, MemoryReady, Prefetching, LinesPut, LinesTaken
<1>6. QED
  BY <1>1, <1>2, <1>3, <1>4, <1>5 DEF MemoryHandshake

(* L2 goes on waiting: MEMORY has not answered.                             *)
LEMMA L2WaitHandshake ==
    ASSUME IInv, MemoryHandshake, UNCHANGED <<memory, prefetch>>, l2'.i = l2.i,
           \/ ThreadMoves("L2", "await_write", "await_write", 1, 2)
           \/ ThreadMoves("L2", "await_read", "await_read", 1, 2),
           Drives({}), ~flag["done_from_Memory"]
    PROVE  MemoryHandshake'
<1> USE NumberTypes, WaitingFields, WaitingDiffers
    DEF L2Awaits, L2Fetches, Answers, MemoryEnds, ThreadMoves, Drives, Flag,
        Thread
<1>1. MemoryWaits'
  BY DEF MemoryHandshake, MemoryWaits
<1>2. MemoryReady'
  BY DEF MemoryHandshake, MemoryReady
<1>3. MemoryCommandUp'
  BY DEF MemoryHandshake, MemoryCommandUp
<1>4. MemoryDoneUp'
  BY SMTT(30) DEF MemoryHandshake, MemoryDoneUp
<1>5. Prefetching'
  BY DEF MemoryHandshake, Prefetching, LinesPut, LinesTaken
<1>6. QED
  BY <1>1, <1>2, <1>3, <1>4, <1>5 DEF MemoryHandshake

(* L2 sees the answer, and withdraws the command while MEMORY cannot poll.   *)
LEMMA L2AnsweredHandshake ==
    ASSUME IInv, MemoryHandshake, UNCHANGED <<memory, prefetch>>,
           \/ ThreadMoves("L2", "await_write", "restart", 1, 0) /\ l2'.i = l2.i
           \/ /\ ThreadMoves("L2", "await_read", "restart", 1, 0)
              /\ PrefetchLines = 0
           \/ /\ ThreadMoves("L2", "await_read", "prefetch", 0, 1)
              /\ PrefetchLines > 0 /\ l2'.i = 0,
           flag["done_from_Memory"],
           Drives({"done_from_L2", "valid_from_L2_to_Memory"}),
           ~flagNext'["valid_from_L2_to_Memory"]
    PROVE  MemoryHandshake'
<1> USE NumberTypes, WaitingFields, WaitingDiffers
    DEF L2Awaits, L2Fetches, Answers, MemoryEnds, ThreadMoves, Drives, Flag,
        Thread
<1>0. Answers /\ delay["L2"] = Waiting(0, 0)
  BY DEF MemoryHandshake, MemoryDoneUp
<1>1. MemoryWaits'
  BY DEF MemoryHandshake, MemoryWaits
<1>2. MemoryReady'
  BY SMTT(30), <1>0 DEF MemoryHandshake, MemoryReady, MemoryDoneUp, Prefetching
<1>3. MemoryCommandUp'
  BY SMTT(30), <1>0 DEF MemoryHandshake, MemoryCommandUp, MemoryDoneUp
<1>4. MemoryDoneUp'
  BY <1>0 DEF MemoryHandshake, MemoryDoneUp
<1>5. Prefetching'
  BY SMTT(30), <1>0 DEF MemoryHandshake, MemoryDoneUp, Prefetching, LinesPut, LinesTaken
<1>6. QED
  BY <1>1, <1>2, <1>3, <1>4, <1>5 DEF MemoryHandshake

(* L2 looks for a prefetched line and takes it: out of the buffer, then into *)
(* the cache.                                                               *)
LEMMA L2FetchHandshake ==
    ASSUME IInv, MemoryHandshake, UNCHANGED memory, Drives({}),
           \/ /\ ThreadMoves("L2", "prefetch", "prefetch", 1, 3)
              /\ Len(prefetch'.queue) = Len(prefetch.queue) /\ l2'.i = l2.i
           \/ /\ ThreadMoves("L2", "prefetch", "install", 0, 1)
              /\ Len(prefetch'.queue) = Len(prefetch.queue) - 1
              /\ l2'.i = l2.i
           \/ /\ ThreadMoves("L2", "install", "prefetch", 0, 1)
              /\ Len(prefetch'.queue) = Len(prefetch.queue)
              /\ l2'.i = l2.i + 1 /\ l2'.i < PrefetchLines
    PROVE  MemoryHandshake'
<1>0. /\ l2'.i < PrefetchLines
      /\ LinesTaken' + Len(prefetch'.queue) = LinesTaken + Len(prefetch.queue)
  <2>1. /\ l2.i < PrefetchLines /\ l2.i \in Nat /\ Len(prefetch.queue) \in Nat
        /\ pc \in [Thread -> Label]
    BY NumberTypes
    DEF MemoryHandshake, Prefetching, ThreadMoves, L2Fetches
  <2>2. /\ pc["L2"] = "prefetch" => LinesTaken = l2.i
        /\ pc["L2"] = "install" => LinesTaken = l2.i + 1
        /\ pc'["L2"] = "prefetch" => LinesTaken' = l2'.i
        /\ pc'["L2"] = "install" => LinesTaken' = l2'.i + 1
    BY DEF LinesTaken
  <2>3. \/ /\ pc["L2"] = "prefetch" /\ pc'["L2"] = "prefetch"
           /\ Len(prefetch'.queue) = Len(prefetch.queue) /\ l2'.i = l2.i
        \/ /\ pc["L2"] = "prefetch" /\ pc'["L2"] = "install"
           /\ Len(prefetch'.queue) = Len(prefetch.queue) - 1
           /\ l2'.i = l2.i
        \/ /\ pc["L2"] = "install" /\ pc'["L2"] = "prefetch"
           /\ Len(prefetch'.queue) = Len(prefetch.queue)
           /\ l2'.i = l2.i + 1 /\ l2'.i < PrefetchLines
    BY <2>1 DEF ThreadMoves, Thread
  <2>4. QED
    BY SMTT(30), <2>1, <2>2, <2>3
<1> USE NumberTypes, WaitingFields, WaitingDiffers
    DEF L2Awaits, L2Fetches, Answers, MemoryEnds, ThreadMoves, Drives, Flag,
        Thread
<1>1. MemoryWaits'
  BY DEF MemoryHandshake, MemoryWaits
<1>2. MemoryReady'
  BY DEF MemoryHandshake, MemoryReady
<1>3. MemoryCommandUp'
  BY DEF MemoryHandshake, MemoryCommandUp
<1>4. MemoryDoneUp'
  BY DEF MemoryHandshake, MemoryDoneUp
<1>5. Prefetching'
  <2>1. LinesPut' = LinesPut /\ L2Fetches /\ L2Fetches'
    BY DEF LinesPut
  <2>2. QED
    BY <1>0, <2>1 DEF MemoryHandshake, Prefetching
<1>6. QED
  BY <1>1, <1>2, <1>3, <1>4, <1>5 DEF MemoryHandshake

(* L2 has taken as many lines as there are slots: MEMORY has put as many.    *)
LEMMA L2FetchedHandshake ==
    ASSUME IInv, MemoryHandshake, UNCHANGED <<memory, prefetch>>,
           ThreadMoves("L2", "install", "restart", 1, 0),
           l2.i + 1 >= PrefetchLines, Drives({"done_from_L2"})
    PROVE  MemoryHandshake'
<1> USE NumberTypes, WaitingFields, WaitingDiffers
    DEF L2Awaits, L2Fetches, Answers, MemoryEnds, ThreadMoves, Drives, Flag,
        Thread
<1>0. /\ Len(prefetch.queue) = 0 /\ LinesPut >= PrefetchLines
      /\ pc["MEMORY"] \in {"prefetch", "put"} =>
            pc["MEMORY"] = "prefetch" /\ memory.i > PrefetchLines
  <2>1. l2.i + 1 + Len(prefetch.queue) <= LinesPut
    BY DEF MemoryHandshake, Prefetching, LinesTaken
  <2>2. CASE pc["MEMORY"] \in {"prefetch", "put"}
    <3>1. LinesPut = memory.i - 1 /\ memory.i \in 1 .. PrefetchLines + 1
      BY <2>2 DEF MemoryHandshake, Prefetching, LinesPut
    <3>2. memory.i > PrefetchLines /\ Len(prefetch.queue) = 0
      BY SMTT(30), <2>1, <3>1
    <3>3. QED
      BY SMTT(30), <2>2, <3>1, <3>2 DEF MemoryHandshake, Prefetching
  <2>3. CASE pc["MEMORY"] \notin {"prefetch", "put"}
    <3>1. LinesPut = PrefetchLines
      BY <2>3 DEF LinesPut
    <3>2. QED
      BY <2>1, <2>3, <3>1
  <2>4. QED
    BY <2>2, <2>3
<1>1. MemoryWaits'
  BY DEF MemoryHandshake, MemoryWaits
<1>2. MemoryReady'
  BY <1>0 DEF MemoryHandshake, MemoryWaits, MemoryCommandUp, MemoryDoneUp,
              MemoryReady
<1>3. MemoryCommandUp'
  BY DEF MemoryHandshake, MemoryCommandUp
<1>4. MemoryDoneUp'
  BY DEF MemoryHandshake, MemoryDoneUp
<1>5. Prefetching'
  BY <1>0 DEF MemoryHandshake, Prefetching, LinesPut, LinesTaken
<1>6. QED
  BY <1>1, <1>2, <1>3, <1>4, <1>5 DEF MemoryHandshake

-----------------------------------------------------------------------------
(* MEMORY withdraws its answer, or finds no command.                         *)
LEMMA MemoryPollHandshake ==
    ASSUME IInv, MemoryHandshake, UNCHANGED <<l2, memory, prefetch>>,
           \/ /\ ThreadMoves("MEMORY", "restart", "poll", 0, 2)
              /\ Drives({"done_from_Memory"})
              /\ ~flagNext'["done_from_Memory"]
           \/ /\ ThreadMoves("MEMORY", "poll", "poll", 1, 2) /\ Drives({})
              /\ ~flag["valid_from_L2_to_Memory"]
    PROVE  MemoryHandshake'
<1> USE NumberTypes, WaitingFields, WaitingDiffers
    DEF L2Awaits, L2Fetches, Answers, MemoryEnds, ThreadMoves, Drives, Flag,
        Thread
<1>1. MemoryWaits'
  BY DEF MemoryHandshake, MemoryWaits
<1>2. MemoryReady'
  BY DEF MemoryHandshake, MemoryReady
<1>3. MemoryCommandUp'
  BY SMTT(30) DEF MemoryHandshake, MemoryCommandUp
<1>4. MemoryDoneUp'
  BY SMTT(30) DEF MemoryHandshake, MemoryDoneUp
<1>5. Prefetching'
  BY DEF MemoryHandshake, Prefetching, LinesPut, LinesTaken
<1>6. QED
  BY <1>1, <1>2, <1>3, <1>4, <1>5 DEF MemoryHandshake

(* MEMORY takes the command L2 is waiting for.                              *)
LEMMA MemoryAcceptHandshake ==
    ASSUME IInv, MemoryHandshake, UNCHANGED <<l2, prefetch>>, memory'.i = memory.i,
           memory'.write_underway = memory.write_underway, Drives({}),
           \/ /\ ThreadMoves("MEMORY", "poll", "read", MemoryLatency, 0)
              /\ pc["L2"] = "await_read"
           \/ /\ ThreadMoves("MEMORY", "poll", "write", MemoryLatency, 0)
              /\ pc["L2"] = "await_write"
    PROVE  MemoryHandshake'
<1> USE NumberTypes, WaitingFields, WaitingDiffers
    DEF L2Awaits, L2Fetches, Answers, MemoryEnds, ThreadMoves, Drives, Flag,
        Thread
<1>1. MemoryWaits'
  BY DEF MemoryHandshake, MemoryWaits
<1>2. MemoryReady'
  BY DEF MemoryHandshake, MemoryReady
<1>3. MemoryCommandUp'
  BY SMTT(30) DEF MemoryHandshake, MemoryCommandUp
<1>4. MemoryDoneUp'
  BY DEF MemoryHandshake, MemoryDoneUp
<1>5. Prefetching'
  BY DEF MemoryHandshake, Prefetching, LinesPut, LinesTaken
<1>6. QED
  BY <1>1, <1>2, <1>3, <1>4, <1>5 DEF MemoryHandshake

(* MEMORY answers: L2 looks two delta cycles later.                         *)
LEMMA MemoryAnswerHandshake ==
    ASSUME IInv, MemoryHandshake, UNCHANGED <<l2, prefetch>>,
           memory'.write_underway = memory.write_underway,
           Drives({"done_from_Memory"}), flagNext'["done_from_Memory"],
           \/ /\ ThreadMoves("MEMORY", "read", "prefetch", 0, 2)
              /\ memory'.i = 1
           \/ /\ ThreadMoves("MEMORY", "write", "restart", 1, 2)
              /\ memory'.i = memory.i
    PROVE  MemoryHandshake'
<1> USE NumberTypes, WaitingFields, WaitingDiffers
    DEF L2Awaits, L2Fetches, Answers, MemoryEnds, ThreadMoves, Drives, Flag,
        Thread
<1>1. MemoryWaits'
  BY DEF MemoryHandshake, MemoryWaits
<1>2. MemoryReady'
  BY DEF MemoryHandshake, MemoryReady, MemoryCommandUp
<1>3. MemoryCommandUp'
  BY DEF MemoryHandshake, MemoryCommandUp
<1>4. MemoryDoneUp'
  BY DEF MemoryHandshake, MemoryDoneUp, MemoryCommandUp
<1>5. Prefetching'
  BY DEF MemoryHandshake, Prefetching, LinesPut, LinesTaken, MemoryCommandUp
<1>6. QED
  BY <1>1, <1>2, <1>3, <1>4, <1>5 DEF MemoryHandshake

(* MEMORY reads the next line, or has read them all.                        *)
LEMMA MemoryPrefetchHandshake ==
    ASSUME IInv, MemoryHandshake, UNCHANGED <<l2, prefetch>>, memory'.i = memory.i,
           memory'.write_underway = memory.write_underway, Drives({}),
           \/ /\ ThreadMoves("MEMORY", "prefetch", "put", MemoryLatency, 2)
              /\ memory.i <= PrefetchLines
           \/ /\ ThreadMoves("MEMORY", "prefetch", "restart", 0, 2)
              /\ memory.i > PrefetchLines
    PROVE  MemoryHandshake'
<1>0. LinesPut' = LinesPut /\ LinesTaken' = LinesTaken
  <2>1. LinesTaken' = LinesTaken
    BY DEF LinesTaken, ThreadMoves, Thread
  <2>2. /\ PrefetchLines \in Nat
        /\ pc["MEMORY"] = "prefetch" => memory.i \in 1 .. PrefetchLines + 1
    BY NumberTypes DEF MemoryHandshake, Prefetching
  <2>3. LinesPut' = LinesPut
    BY <2>2 DEF LinesPut, ThreadMoves
  <2>4. QED
    BY <2>1, <2>3
<1> USE NumberTypes, WaitingFields, WaitingDiffers
    DEF L2Awaits, L2Fetches, Answers, MemoryEnds, ThreadMoves, Drives, Flag,
        Thread
<1>1. MemoryWaits'
  BY SMTT(30) DEF MemoryHandshake, MemoryWaits
<1>2. MemoryReady'
  BY SMTT(30) DEF MemoryHandshake, MemoryReady
<1>3. MemoryCommandUp'
  BY SMTT(30) DEF MemoryHandshake, MemoryCommandUp
<1>4. MemoryDoneUp'
  BY SMTT(30) DEF MemoryHandshake, MemoryDoneUp
<1>5. Prefetching'
  <2>1. /\ memory.i \in 1 .. PrefetchLines + 1
        /\ memory.i <= PrefetchLines => pc["L2"] = "await_read" \/ L2Fetches
    BY DEF MemoryHandshake, Prefetching
  <2>2. QED
    BY <1>0, <2>1 DEF MemoryHandshake, Prefetching
<1>6. QED
  BY <1>1, <1>2, <1>3, <1>4, <1>5 DEF MemoryHandshake

(* It puts a line into the buffer, for an L2 that has taken all before it.   *)
LEMMA MemoryPutHandshake ==
    ASSUME IInv, MemoryHandshake, UNCHANGED l2, memory'.i = memory.i + 1,
           memory'.write_underway = memory.write_underway, Drives({}),
           ThreadMoves("MEMORY", "put", "prefetch", 0, 0),
           Len(prefetch'.queue) \in Nat,
           Len(prefetch'.queue) <= Len(prefetch.queue) + 1
    PROVE  MemoryHandshake'
<1>1. LinesTaken' = LinesTaken
  BY DEF LinesTaken, ThreadMoves, Thread
<1>2. LinesPut = memory.i - 1 /\ LinesPut' = memory.i
  BY NumberTypes DEF LinesPut, ThreadMoves
<1>3. LinesTaken + Len(prefetch.queue) <= LinesPut =>
          LinesTaken' + Len(prefetch'.queue) <= LinesPut'
  <2>1. memory.i \in Nat /\ LinesTaken \in Nat /\ Len(prefetch.queue) \in Nat
    BY NumberTypes DEF LinesTaken
  <2>2. QED
    BY <1>1, <1>2, <2>1
<1> USE NumberTypes, WaitingFields, WaitingDiffers
    DEF L2Awaits, L2Fetches, Answers, MemoryEnds, ThreadMoves, Drives, Flag,
        Thread
<1>4. L2Fetches /\ memory.i \in 1 .. PrefetchLines
  BY DEF MemoryHandshake, MemoryDoneUp, Prefetching
<1>5. MemoryWaits'
  BY SMTT(30), <1>4 DEF MemoryHandshake, MemoryWaits
<1>6. MemoryReady'
  BY <1>4 DEF MemoryHandshake, MemoryReady
<1>7. MemoryCommandUp'
  BY <1>4 DEF MemoryHandshake, MemoryCommandUp
<1>8. MemoryDoneUp'
  BY <1>4 DEF MemoryHandshake, MemoryDoneUp
<1>9. Prefetching'
  <2>1. LinesTaken + Len(prefetch.queue) <= LinesPut
    BY <1>4 DEF MemoryHandshake, Prefetching
  <2>2. LinesTaken' + Len(prefetch'.queue) <= LinesPut'
    BY <1>3, <2>1
  <2>3. QED
    BY SMTT(30), <1>4, <2>2 DEF MemoryHandshake, Prefetching
<1>10. QED
  BY <1>5, <1>6, <1>7, <1>8, <1>9 DEF MemoryHandshake

-----------------------------------------------------------------------------
(* The end of a delta cycle.                                                *)
LEMMA DeltaMemory ==
    ASSUME IInv, MemoryHandshake, Delta
    PROVE  MemoryHandshake'
<1>1. /\ flag' = flagNext /\ flagNext' = flagNext /\ pc' = pc
      /\ UNCHANGED <<l2, memory>>
  BY DEF Delta, DeltaCycle, memoryVars
<1>2. Len(prefetch'.queue) = Len(prefetch.queue)
  BY DEF Delta, PrefetchUpdate, FifoUpdate, IInv, TypeOK, PrefetchTypeOK
<1>3. \A t \in Thread :
        /\ delay[t] = Waiting(delay[t].clk, delay[t].delta)
        /\ delay[t] # Waiting(0, 0)
        /\ delay[t].clk # 0 => delay'[t] = delay[t]
        /\ delay[t].clk = 0 => delay'[t] = Waiting(0, delay[t].delta - 1)
        /\ delay'[t].clk = delay[t].clk
  <2>1. delay \in [Thread -> Delay]
    BY DEF IInv, TypeOK, KernelTypeOK
  <2>2. QED
    BY <2>1, WaitingFields
    DEF Delta, DeltaCycle, NoThreadReady, Delay, Waiting
<1>4. LinesPut' = LinesPut /\ LinesTaken' = LinesTaken
  BY <1>1 DEF LinesPut, LinesTaken
<1> USE <1>1, <1>3, NumberTypes, WaitingFields, WaitingDiffers
    DEF L2Awaits, L2Fetches, Answers, MemoryEnds, Flag, Thread
<1>5. MemoryWaits'
  BY DEF MemoryHandshake, MemoryWaits
<1>6. MemoryReady'
  BY SMTT(30) DEF MemoryHandshake, MemoryReady
<1>7. MemoryCommandUp'
  BY SMTT(30) DEF MemoryHandshake, MemoryWaits, MemoryCommandUp
<1>8. MemoryDoneUp'
  BY SMTT(30) DEF MemoryHandshake, MemoryDoneUp
<1>9. Prefetching'
  BY <1>2, <1>4 DEF MemoryHandshake, Prefetching
<1>10. QED
  BY <1>5, <1>6, <1>7, <1>8, <1>9 DEF MemoryHandshake

(* The next clock edge.                                                     *)
LEMMA StartCycleMemory ==
    ASSUME IInv, Handshake, MemoryHandshake, StartCycle, stage = "request"
    PROVE  MemoryHandshake'
<1>1. /\ flag = flagNext /\ flag' = flag /\ flagNext' = flagNext /\ pc' = pc
      /\ UNCHANGED <<l2, memory, prefetch>> /\ run = "stopped"
  BY DEF StartCycle, ClockEdge, signalVars, moduleVars, Handshake
<1>2. \A t \in Thread :
        /\ delay[t].clk \in Nat \ {0} /\ delay[t].delta \in Nat
        /\ delay'[t].clk = delay[t].clk - 1
        /\ delay'[t].delta = delay[t].delta
        /\ \A c, d : delay[t] = Waiting(c, d)
                       <=> delay[t].clk = c /\ delay[t].delta = d
        /\ \A c, d : delay'[t] = Waiting(c, d)
                       <=> delay'[t].clk = c /\ delay'[t].delta = d
  <2>1. delay \in [Thread -> Delay]
    BY DEF IInv, TypeOK, KernelTypeOK
  <2>2. \A t \in Thread : delay[t].clk > 0
    BY <1>1 DEF IInv, ThreadsHeld
  <2>3. QED
    BY <2>1, <2>2 DEF StartCycle, ClockEdge, Delay, Waiting
<1>3. LinesPut' = LinesPut /\ LinesTaken' = LinesTaken
  BY <1>1 DEF LinesPut, LinesTaken
<1> USE <1>1, <1>2
    DEF L2Awaits, L2Fetches, Answers, MemoryEnds, Flag, Thread
<1>4. MemoryWaits'
  BY DEF MemoryHandshake, MemoryWaits
<1>5. MemoryReady'
  BY DEF MemoryHandshake, MemoryReady, MemoryDoneUp, MemoryWaits
<1>6. MemoryCommandUp'
  BY DEF MemoryHandshake, MemoryWaits, MemoryCommandUp
<1>7. MemoryDoneUp'
  BY DEF MemoryHandshake, MemoryDoneUp
<1>8. Prefetching'
  BY <1>3 DEF MemoryHandshake, Prefetching
<1>9. QED
  BY <1>4, <1>5, <1>6, <1>7, <1>8 DEF MemoryHandshake

-----------------------------------------------------------------------------
(* Index and tag of a line, taken together, are its number.                  *)

(* A number below a multiple of h has a smaller quotient than one that is    *)
(* not below it.                                                            *)
LEMMA QuotientBelow ==
    ASSUME NEW h \in Nat \ {0}, NEW m \in Nat, NEW x \in Nat, NEW y \in Nat,
           x < h * m, y >= h * m
    PROVE  x \div h < y \div h
<1>1. /\ x = h * (x \div h) + (x % h) /\ x \div h \in Nat /\ x % h \in 0 .. h - 1
      /\ y = h * (y \div h) + (y % h) /\ y \div h \in Nat /\ y % h \in 0 .. h - 1
  BY ModSplit
<1> DEFINE p == x \div h
           q == y \div h
<1>2. p \in Nat /\ q \in Nat /\ h * p <= x /\ y < h * q + h
  BY <1>1
<1> HIDE DEF p, q
<1>3. p < m
  <2>1. SUFFICES ASSUME p >= m PROVE FALSE
    BY <1>2
  <2>2. h * p >= h * m
    BY <1>2, <2>1
  <2>3. QED
    BY <1>2, <2>2
<1>4. m <= q
  <2>1. SUFFICES ASSUME q + 1 <= m PROVE FALSE
    BY <1>2
  <2>2. h * (q + 1) <= h * m
    BY <1>2, <2>1
  <2>3. h * (q + 1) = h * q + h
    BY <1>2
  <2>4. QED
    BY <1>2, <2>2, <2>3
<1>5. QED
  BY <1>2, <1>3, <1>4 DEF p, q

(* Of two numbers with the same tag, the greater one has another index.      *)
LEMMA IndexApart ==
    ASSUME NEW lines \in Nat \ {0}, NEW h \in Nat \ {0}, h <= lines,
           NEW y \in Nat, NEW d \in Nat \ {0}, (y + d) \div h = y \div h
    PROVE  ((y + d) % (2 * h)) % lines # (y % (2 * h)) % lines
<1> DEFINE u == y % (2 * h)
           k == y \div (2 * h)
<1>1. 2 * h \in Nat \ {0}
  OBVIOUS
<1>2. y = (2 * h) * k + u /\ k \in Nat /\ u \in 0 .. 2 * h - 1
  BY <1>1, ModSplit
<1> HIDE DEF u, k
<1>3. d < h
  <2>1. /\ y = h * (y \div h) + (y % h) /\ y % h \in 0 .. h - 1
        /\ y + d = h * ((y + d) \div h) + ((y + d) % h)
        /\ (y + d) % h \in 0 .. h - 1 /\ y \div h \in Nat
    <3>1. y + d \in Nat
      OBVIOUS
    <3>2. QED
      BY <3>1, ModSplit
  <2> DEFINE p == h * (y \div h)
  <2>2. p \in Nat /\ y = p + (y % h) /\ y + d = p + ((y + d) % h)
    BY <2>1, MulNat
  <2> HIDE DEF p
  <2>3. QED
    BY <2>1, <2>2
<1>4. u + d < 2 * h
  <2>1. SUFFICES ASSUME u + d >= 2 * h PROVE FALSE
    BY <1>2, <1>3
  <2> DEFINE m == 2 * k + 2
  <2>2. m \in Nat /\ h * m = (2 * h) * k + 2 * h
    BY <1>2
  <2>3. (2 * h) * k \in Nat
    BY <1>1, <1>2, MulNat
  <2> HIDE DEF m
  <2>4. y < h * m /\ y + d >= h * m
    BY <1>2, <2>1, <2>2, <2>3
  <2>5. y \div h < (y + d) \div h
    BY SMTT(30), <2>2, <2>4, QuotientBelow
  <2>6. y \div h \in Nat
    BY DivNat
  <2>7. QED
    BY <2>5, <2>6
<1>5. (y + d) % (2 * h) = u + d
  <2>1. y + d = (2 * h) * k + (u + d) /\ u + d \in 0 .. 2 * h - 1
    <3>1. (2 * h) * k \in Nat
      BY <1>1, <1>2, MulNat
    <3>2. QED
      BY <1>2, <1>4, <3>1
  <2>2. QED
    BY <1>1, <1>2, <2>1, ModSame
<1>6. u % lines # (u + d) % lines
  <2>1. u \in Nat /\ d \in 1 .. lines - 1
    BY <1>2, <1>3
  <2>2. QED
    BY <2>1, ModApart
<1>7. QED
  BY <1>5, <1>6 DEF u

(* Two addresses of lines that a cache cannot tell apart are the same.       *)
LEMMA SameLine ==
    ASSUME LineIsPower,
           NEW a \in Address, NEW b \in Address, NEW lines \in {L1Lines, L2Lines},
           Offset(a, LineWords) = 0, Offset(b, LineWords) = 0,
           Index(a, LineWords, lines) = Index(b, LineWords, lines),
           TagOf(a, LineWords, lines) = TagOf(b, LineWords, lines)
    PROVE  a = b
<1> DEFINE x == LineNumber(a, LineWords)
           y == LineNumber(b, LineWords)
           P == PowerOfTwo(lines)
<1>1. /\ lines \in Nat \ {0} /\ P \in Nat \ {0, 1} /\ P % 2 = 0
      /\ lines <= P /\ P \div 2 <= lines
      /\ x \in Nat /\ y \in Nat /\ LineWords \in Nat \ {0}
  BY IndexType, ConstantsAssumption, PowerAssumption
<1>2. (x % P) % lines = (y % P) % lines
  BY DEF Index
<1>3. x \div (IF P # lines THEN P \div 2 ELSE lines)
        = y \div (IF P # lines THEN P \div 2 ELSE lines)
  BY DEF TagOf
<1>4. a = LineWords * x /\ b = LineWords * y
  <2>1. a \in Nat /\ b \in Nat
    BY ConstantsAssumption DEF Address
  <2>2. /\ a = LineWords * (a \div LineWords) + (a % LineWords)
        /\ b = LineWords * (b \div LineWords) + (b % LineWords)
        /\ a % LineWords = 0 /\ b % LineWords = 0
    BY <1>1, <2>1, ModSplit, PowerAssumption
  <2>3. /\ x = a \div LineWords /\ y = b \div LineWords
        /\ LineWords * x \in Nat /\ LineWords * y \in Nat
    BY <1>1, MulNat DEF LineNumber, LineIsPower
  <2>4. QED
    BY <2>2, <2>3
<1> HIDE DEF x, y, P
<1>5. CASE P = lines
  <2>1. x \div lines = y \div lines
    BY <1>3, <1>5
  <2>2. x % lines = y % lines
    <3>1. x % lines \in 0 .. lines - 1 /\ y % lines \in 0 .. lines - 1
      BY <1>1, ModSplit
    <3>2. QED
      BY <1>1, <1>2, <1>5, <3>1, ModBelow
  <2>3. /\ x = lines * (x \div lines) + (x % lines)
        /\ y = lines * (y \div lines) + (y % lines)
    BY <1>1, ModSplit
  <2>4. x = y
    BY <2>1, <2>2, <2>3
  <2>5. QED
    BY <1>4, <2>4
<1>6. CASE P # lines
  <2> DEFINE h == P \div 2
  <2>1. h \in Nat \ {0} /\ P = 2 * h /\ h <= lines
    BY <1>1
  <2>2. x \div h = y \div h
    BY <1>3, <1>6
  <2>3. (x % (2 * h)) % lines = (y % (2 * h)) % lines
    BY <1>2, <2>1
  <2> HIDE DEF h
  <2>4. \A m, n \in Nat :
            (m \div h = n \div h)
                /\ ((m % (2 * h)) % lines = (n % (2 * h)) % lines) => ~(m > n)
    <3>1. SUFFICES ASSUME NEW m \in Nat, NEW n \in Nat, m > n,
                          m \div h = n \div h,
                          (m % (2 * h)) % lines = (n % (2 * h)) % lines
                   PROVE  FALSE
      OBVIOUS
    <3> DEFINE d == m - n
    <3>2. d \in Nat \ {0} /\ m = n + d
      BY <3>1
    <3> HIDE DEF d
    <3>3. (n + d) \div h = n \div h
      BY <3>1, <3>2
    <3>4. QED
      BY <1>1, <2>1, <3>1, <3>2, <3>3, IndexApart
  <2>5. ~(x > y) /\ ~(y > x)
    BY <1>1, <2>2, <2>3, <2>4
  <2>6. x = y
    BY <1>1, <2>5
  <2>7. QED
    BY <1>4, <2>6
<1>7. QED
  BY <1>5, <1>6

-----------------------------------------------------------------------------
(* What is on the way between the modules while a request is served.         *)

(* The request stands at the CPU's side.                                    *)
RequestStands ==
    /\ request \in Requests /\ ~stats.answered
    /\ addr["address"] = request.addr /\ addrNext["address"] = request.addr
    /\ bus.data_in = request.data

(* L1 serves it, and has passed it on when it awaits L2.                    *)
L1Path ==
    /\ pc["L1"] \in {"access", "await_write", "await_read"} =>
           l1.address_int = request.addr
    /\ L1Awaits => /\ addrNext["address_from_L1_to_L2"] = request.addr
                   /\ flagNext["write_enable_from_L1_to_L2"] = request.we
    /\ L1Awaits /\ flag["valid_from_L1_to_L2"] =>
           /\ addr["address_from_L1_to_L2"] = request.addr
           /\ flag["write_enable_from_L1_to_L2"] = request.we
    /\ pc["L1"] = "await_write" => bus.data_from_L1_to_L2 = request.data

(* L2 likewise.                                                             *)
L2Path ==
    /\ L2Works => l2.address_int = request.addr
    /\ pc["L2"] = "await_write" =>
           request.we /\ bus.data_from_L2_to_Memory = request.data
    /\ pc["L2"] \in {"issue", "await_read", "prefetch", "install"} => ~request.we
    /\ L2Awaits => /\ addrNext["address_from_L2_to_Memory"] = request.addr
                   /\ flagNext["write_enable_from_L2_to_Memory"] = request.we
    /\ L2Awaits /\ flag["valid_from_L2_to_Memory"] =>
           /\ addr["address_from_L2_to_Memory"] = request.addr
           /\ flag["write_enable_from_L2_to_Memory"] = request.we

MemoryPath ==
    /\ pc["MEMORY"] \in {"read", "write"} => memory.address_u = request.addr
    /\ pc["MEMORY"] \in {"prefetch", "put"} /\ memory.i <= PrefetchLines =>
           memory.address_u = request.addr

DataPath == RequestStands /\ L1Path /\ L2Path /\ MemoryPath

(* The copies in L1, and in L2, are those of memory; the word that is being  *)
(* written is ahead of it.                                                  *)
L1Copies ==
    \A a \in Requested : InL1(a) =>
        L1Word(a) = IF pc["L1"] = "await_write" /\ a = request.addr
                    THEN request.data ELSE memory_blocks[a]
L2Copies ==
    \A a \in Requested : InL2(a) =>
        L2Word(a) = IF pc["L2"] = "await_write" /\ a = request.addr
                    THEN request.data ELSE memory_blocks[a]

(* What L2 has answered, and what MEMORY has.                               *)
L2Answered ==
    /\ pc["L1"] = "await_write" /\ pc["L2"] = "restart" =>
           memory_blocks[request.addr] = request.data
    /\ pc["L1"] = "await_read" /\ pc["L2"] = "restart" =>
           bus.data_from_L2_to_L1[0] = memory_blocks[request.addr]
MemoryAnswered ==
    /\ pc["L2"] = "await_write" /\ pc["MEMORY"] = "restart" =>
           memory_blocks[request.addr] = request.data
    /\ pc["L2"] = "await_read" /\ Answers =>
           bus.data_from_Memory_to_L2[0] = memory_blocks[request.addr]
    /\ L2Fetches => l2.cache_blocks[L2Index][0] = memory_blocks[request.addr]

(* A prefetched line is one of those behind the line requested.              *)
Ahead(line) ==
    /\ \E k \in 2 .. PrefetchLines + 1 :
           line.address = request.addr + k * LineWords
    /\ line.data[0] = memory_blocks[line.address]
LinesAhead ==
    /\ pc["L2"] = "install" => Ahead(l2.fetched)
    /\ pc["MEMORY"] = "put" => Ahead(memory.prefetched_line)
    /\ \A i \in DOMAIN prefetch.queue : Ahead(prefetch.queue[i])

(* The request is done when L1 says so.                                     *)
RequestDone ==
    stage = "request" /\ run = "cycle" /\ pc["L1"] = "restart"
    /\ delay["L1"] = Waiting(1, 0) =>
        IF request.we THEN memory_blocks[request.addr] = request.data
                      ELSE bus.data_out = memory_blocks[request.addr]

Contents ==
    /\ L1Copies /\ L2Copies /\ L2Answered /\ MemoryAnswered
    /\ LinesAhead /\ RequestDone

-----------------------------------------------------------------------------
(* L1.                                                                      *)

(* What a step of L1 leaves alone.                                          *)
LEMMA L1Frame ==
    ASSUME IInv, L1Step
    PROVE  /\ UNCHANGED <<l2, memory_blocks, memory, prefetch, driverVars, run>>
           /\ \A t \in {"L2", "MEMORY"} : pc'[t] = pc[t] /\ delay'[t] = delay[t]
           /\ Drives({"hit_from_L1", "write_enable_from_L1_to_L2",
                      "valid_from_L1_to_L2", "done_from_L1"})
           /\ addr' = addr
           /\ \A s \in {"address", "address_from_L2_to_Memory"} :
                  addrNext'[s] = addrNext[s]
           /\ bus'.data_in = bus.data_in
           /\ bus'.data_from_L2_to_L1 = bus.data_from_L2_to_L1
           /\ bus'.data_from_L2_to_Memory = bus.data_from_L2_to_Memory
           /\ bus'.data_from_Memory_to_L2 = bus.data_from_Memory_to_L2
<1> USE DEF Suspend, Drive, DriveAddress, Drives, Flag, AddressSignal, Thread,
            signalVars, IInv, TypeOK, KernelTypeOK, Bus
<1>1. UNCHANGED <<l2, memory_blocks, memory, prefetch, driverVars>>
  BY DEF L1Step, memoryVars, bufferVars
<1>2. L1Next
  BY DEF L1Step
<1>3. CASE L1Restart \/ L1Poll \/ L1StillWaiting
  BY <1>1, <1>3 DEF L1Restart, L1Poll, L1StillWaiting
<1>4. CASE L1Write \/ L1ReadHit \/ L1ReadMiss
  BY ZenonT(60), <1>1, <1>4 DEF L1Write, L1ReadHit, L1ReadMiss, L1Propagate
<1>5. CASE L1WriteDone \/ L1Fill
  BY <1>1, <1>5 DEF L1WriteDone, L1Fill, L1Complete
<1>6. QED
  BY <1>2, <1>3, <1>4, <1>5 DEF L1Next

(* So it keeps what is said of the others.                                  *)
LEMMA L1Elsewhere ==
    ASSUME IInv, MemoryHandshake, L1Step, L2Path, MemoryPath, L2Copies,
           MemoryAnswered, LinesAhead
    PROVE  /\ MemoryHandshake' /\ L2Path' /\ MemoryPath' /\ L2Copies'
           /\ MemoryAnswered' /\ LinesAhead'
<1> USE L1Frame DEF Drives, Flag, driverVars
<1>1. MemoryHandshake'
  BY ElsewhereHandshake
<1>2. L2Path' /\ MemoryPath'
  BY DEF L2Path, MemoryPath, L2Works, L2Awaits
<1>3. L2Copies'
  BY DEF L2Copies, InL2, L2Word
<1>4. MemoryAnswered'
  BY DEF MemoryAnswered, L2Fetches, Answers, L2Index
<1>5. LinesAhead'
  BY DEF LinesAhead, Ahead
<1>6. QED
  BY <1>1, <1>2, <1>3, <1>4, <1>5

(* What L1 itself is to keep.                                               *)
L1Part == RequestStands /\ L1Path /\ L1Copies /\ L2Answered /\ RequestDone

(* Requests are to first words of lines.                                    *)
LEMMA RequestedLines ==
    ASSUME WriteThrough
    PROVE  /\ 0 \in LineOffset
           /\ \A r \in Requests : r.addr \in Requested /\ r.we \in BOOLEAN
                                  /\ r.data \in Value
           /\ \A a \in Requested : a \in Address /\ Offset(a, LineWords) = 0
           /\ \A lines \in {L1Lines, L2Lines} : \A a, b \in Requested :
                  /\ Index(a, LineWords, lines) = Index(b, LineWords, lines)
                  /\ TagOf(a, LineWords, lines) = TagOf(b, LineWords, lines)
                  => a = b
<1>1. 0 \in LineOffset
  BY ConstantsAssumption DEF LineOffset
<1>2. \A r \in Requests : r.addr \in Requested /\ r.addr \in Address
                          /\ r.we \in BOOLEAN /\ r.data \in Value
  BY ConstantsAssumption DEF Request, Requested
<1>3. \A a \in Requested : a \in Address /\ Offset(a, LineWords) = 0
  BY <1>2 DEF Requested, WriteThrough
<1>4. QED
  BY <1>1, <1>2, <1>3, SameLine DEF WriteThrough

(* L1 withdraws its answer and polls, goes on waiting, or passes a read on.  *)
LEMMA L1WaitsPart ==
    ASSUME IInv, Serves, L1Part, L1Step,
           L1Restart \/ L1Poll \/ L1StillWaiting
    PROVE  L1Part'
<1>1. \/ ThreadMoves("L1", "restart", "poll", 0, 2) /\ l1' = l1
      \/ ThreadMoves("L1", "poll", "poll", 1, 0) /\ l1' = l1
      \/ /\ ThreadMoves("L1", "poll", "access", L1Latency, 0)
         /\ l1' = [l1 EXCEPT !.address_int = addr["address"]]
      \/ ThreadMoves("L1", "await_write", "await_write", 1, 6) /\ l1' = l1
      \/ ThreadMoves("L1", "await_read", "await_read", 1, 6) /\ l1' = l1
  BY ThreadMovesSuspend DEF L1Restart, L1Poll, L1StillWaiting, Thread
<1>2. /\ bus' = bus /\ addrNext' = addrNext
      /\ \A s \in {"write_enable_from_L1_to_L2", "valid_from_L1_to_L2"} :
             flagNext'[s] = flagNext[s]
  BY DEF L1Restart, L1Poll, L1StillWaiting, signalVars, Drive, IInv, TypeOK,
         KernelTypeOK, Flag
<1>3. /\ l1'.cache_blocks = l1.cache_blocks /\ l1'.valid = l1.valid
      /\ l1'.tags = l1.tags
      /\ pc'["L1"] = "access" => pc["L1"] # "access"
                                 /\ l1'.address_int = addr["address"]
      /\ pc'["L1"] # "access" => l1'.address_int = l1.address_int
  BY <1>1 DEF IInv, TypeOK, L1TypeOK, ThreadMoves
<1>4. /\ UNCHANGED <<memory_blocks, request, stats, stage, run, flag, addr>>
      /\ pc'["L2"] = pc["L2"]
  BY L1Frame DEF driverVars, Drives
<1> USE <1>1, <1>2, <1>3, <1>4, WaitingFields, WaitingDiffers
    DEF ThreadMoves, L1Awaits, L1Part
<1>5. RequestStands'
  BY DEF RequestStands
<1>6. L1Path'
  BY DEF L1Path, RequestStands
<1>7. L1Copies'
  BY DEF L1Copies, InL1, L1Word
<1>8. L2Answered'
  BY DEF L2Answered
<1>9. RequestDone'
  BY DEF RequestDone
<1>10. QED
  BY <1>5, <1>6, <1>7, <1>8, <1>9

(* How L1 looks up the request it serves.                                   *)
LEMMA L1Looks ==
    ASSUME IInv, WriteThrough, request \in Requests, l1.address_int = request.addr
    PROVE  /\ request.addr \in Requested /\ request.addr \in Address
           /\ L1Index = Index(request.addr, LineWords, L1Lines)
           /\ L1Index \in L1Line /\ L1Offset = 0 /\ 0 \in LineOffset
           /\ L1Tag = TagOf(request.addr, LineWords, L1Lines)
           /\ L1Matches <=> InL1(request.addr)
           /\ L1Word(request.addr) = l1.cache_blocks[L1Index][0]
           /\ \A a \in Requested :
                  /\ Index(a, LineWords, L1Lines) \in L1Line
                  /\ Offset(a, LineWords) = 0
                  /\ Index(a, LineWords, L1Lines) = L1Index
                     /\ TagOf(a, LineWords, L1Lines) = L1Tag => a = request.addr
<1>1. /\ request.addr \in Requested /\ request.addr \in Address
      /\ Offset(request.addr, LineWords) = 0 /\ 0 \in LineOffset
  BY RequestedLines
<1>2. \A a \in Requested : /\ Index(a, LineWords, L1Lines) \in L1Line
                           /\ Offset(a, LineWords) = 0
  BY RequestedLines, IndexType DEF L1Line
<1>3. QED
  BY <1>1, <1>2, RequestedLines
  DEF L1Index, L1Offset, L1Tag, L1Matches, InL1, L1Word

(* A write: the copy in L1 is ahead of memory from here on.                 *)
LEMMA L1WritePart ==
    ASSUME IInv, WriteThrough, Serves, L1Part, L1Step, L1Write
    PROVE  L1Part'
<1>1. ThreadMoves("L1", "access", "await_write", 0, 0) /\ flag["write_enable"]
  BY ThreadMovesSuspend DEF L1Write, Thread
<1>2. /\ addrNext'["address_from_L1_to_L2"] = addr["address"]
      /\ addrNext'["address"] = addrNext["address"]
      /\ flagNext'["write_enable_from_L1_to_L2"] = flag["write_enable"]
      /\ bus'.data_from_L1_to_L2 = bus.data_in /\ bus'.data_in = bus.data_in
  BY DEF L1Write, L1Propagate, Drive, DriveAddress, IInv, TypeOK, KernelTypeOK,
         Flag, AddressSignal, Bus
<1>3. /\ UNCHANGED <<memory_blocks, request, stats, stage, run, flag, addr>>
      /\ pc'["L2"] = pc["L2"]
  BY L1Frame DEF driverVars, Drives
<1>4. /\ l1.address_int = request.addr /\ request \in Requests
      /\ request.we /\ bus.data_in = request.data
      /\ addr["address"] = request.addr
  BY <1>1 DEF L1Part, L1Path, RequestStands, Serves, Sampled, ThreadMoves
<1>5. /\ pc["L2"] = "poll" /\ ~flag["valid_from_L1_to_L2"]
  BY <1>1 DEF Serves, AnswerUp, L2Withdraws, L1AtEdge, CommandUp, ThreadMoves,
              L1Awaits
<1>6. /\ l1'.valid = l1.valid /\ l1'.tags = l1.tags
      /\ l1'.address_int = l1.address_int
      /\ l1'.cache_blocks =
           IF L1Matches
           THEN [l1.cache_blocks EXCEPT ![L1Index][0] = request.data]
           ELSE l1.cache_blocks
  BY <1>4, L1Looks DEF L1Write, IInv, TypeOK, L1TypeOK
<1>7. RequestStands'
  BY <1>2, <1>3 DEF L1Part, RequestStands
<1>8. L1Path'
  BY <1>1, <1>2, <1>3, <1>4, <1>5, <1>6 DEF L1Path, ThreadMoves, L1Awaits
<1>9. L1Copies'
  <2>1. SUFFICES ASSUME NEW a \in Requested, InL1(a)'
                 PROVE  L1Word(a)' = IF a = request.addr THEN request.data
                                                         ELSE memory_blocks[a]
    BY <1>1, <1>3 DEF L1Copies, ThreadMoves
  <2>2. InL1(a)
    BY <1>6, <2>1 DEF InL1
  <2>3. L1Word(a) = memory_blocks[a]
    BY <1>1, <2>2 DEF L1Part, L1Copies, ThreadMoves
  <2> DEFINE i == Index(a, LineWords, L1Lines)
  <2>4. /\ i \in L1Line /\ Offset(a, LineWords) = 0 /\ 0 \in LineOffset
        /\ l1.cache_blocks \in [L1Line -> Line] /\ L1Index \in L1Line
    BY <1>4, L1Looks DEF IInv, TypeOK, L1TypeOK
  <2>5. L1Word(a) = l1.cache_blocks[i][0] /\ L1Word(a)' = l1'.cache_blocks[i][0]
    BY <2>4 DEF L1Word
  <2>6. CASE a = request.addr
    <3>1. L1Matches /\ i = L1Index
      BY <1>4, <2>2, <2>6, L1Looks
    <3>2. l1'.cache_blocks[i][0] = request.data
      BY <1>6, <2>4, <3>1 DEF Line
    <3>3. QED
      BY <2>5, <2>6, <3>2
  <2>7. CASE a # request.addr
    <3>1. L1Matches => i # L1Index
      BY <1>4, <2>2, <2>7, L1Looks DEF InL1, L1Matches
    <3>2. l1'.cache_blocks[i] = l1.cache_blocks[i]
      BY <1>6, <2>4, <3>1
    <3>3. QED
      BY <2>3, <2>5, <2>7, <3>2
  <2>8. QED
    BY <2>6, <2>7
<1>10. L2Answered'
  BY <1>3, <1>5 DEF L2Answered
<1>11. RequestDone'
  BY <1>1 DEF RequestDone, ThreadMoves
<1>12. QED
  BY <1>7, <1>8, <1>9, <1>10, <1>11 DEF L1Part

(* A read finds the copy.                                                   *)
LEMMA L1ReadHitPart ==
    ASSUME IInv, WriteThrough, Serves, L1Part, L1Step, L1ReadHit
    PROVE  L1Part'
<1>1. ThreadMoves("L1", "access", "restart", 1, 0) /\ ~flag["write_enable"]
  BY ThreadMovesSuspend DEF L1ReadHit, Thread
<1>2. /\ l1' = l1 /\ addrNext' = addrNext
      /\ bus'.data_out = l1.cache_blocks[L1Index][L1Offset]
      /\ L1Matches
  BY DEF L1ReadHit, IInv, TypeOK, KernelTypeOK, Bus
<1>3. /\ UNCHANGED <<memory_blocks, request, stats, stage, run, flag, addr>>
      /\ pc'["L2"] = pc["L2"] /\ bus'.data_in = bus.data_in
  BY L1Frame DEF driverVars, Drives
<1>4. /\ l1.address_int = request.addr /\ request \in Requests /\ ~request.we
  BY <1>1 DEF L1Part, L1Path, RequestStands, Serves, Sampled, ThreadMoves
<1>5. bus'.data_out = memory_blocks[request.addr]
  BY <1>1, <1>2, <1>4, L1Looks DEF L1Part, L1Copies, ThreadMoves
<1>6. RequestStands'
  BY <1>2, <1>3 DEF L1Part, RequestStands
<1>7. L1Path'
  BY <1>1 DEF L1Path, ThreadMoves, L1Awaits
<1>8. L1Copies'
  BY <1>1, <1>2, <1>3 DEF L1Part, L1Copies, InL1, L1Word, ThreadMoves
<1>9. L2Answered'
  BY <1>1 DEF L2Answered, ThreadMoves
<1>10. RequestDone'
  BY <1>3, <1>4, <1>5 DEF RequestDone
<1>11. QED
  BY <1>6, <1>7, <1>8, <1>9, <1>10 DEF L1Part

(* A read misses.                                                           *)
LEMMA L1ReadMissPart ==
    ASSUME IInv, Serves, L1Part, L1Step, L1ReadMiss
    PROVE  L1Part'
<1>1. ThreadMoves("L1", "access", "await_read", 0, 0) /\ ~flag["write_enable"]
  BY ThreadMovesSuspend DEF L1ReadMiss, Thread
<1>2. /\ addrNext'["address_from_L1_to_L2"] = addr["address"]
      /\ addrNext'["address"] = addrNext["address"]
      /\ flagNext'["write_enable_from_L1_to_L2"] = flag["write_enable"]
      /\ bus' = bus /\ l1' = l1
  BY DEF L1ReadMiss, L1Propagate, Drive, DriveAddress, IInv, TypeOK,
         KernelTypeOK, Flag, AddressSignal
<1>3. /\ UNCHANGED <<memory_blocks, request, stats, stage, run, flag, addr>>
      /\ pc'["L2"] = pc["L2"]
  BY L1Frame DEF driverVars, Drives
<1>4. /\ l1.address_int = request.addr /\ ~request.we /\ request.we \in BOOLEAN
      /\ addr["address"] = request.addr /\ flag["write_enable"] = request.we
  BY <1>1, ConstantsAssumption
  DEF L1Part, L1Path, RequestStands, Serves, Sampled, ThreadMoves, Request
<1>5. /\ pc["L2"] = "poll" /\ ~flag["valid_from_L1_to_L2"]
  BY <1>1 DEF Serves, AnswerUp, L2Withdraws, L1AtEdge, CommandUp, ThreadMoves,
              L1Awaits
<1>6. RequestStands'
  BY <1>2, <1>3 DEF L1Part, RequestStands
<1>7. L1Path'
  BY <1>1, <1>2, <1>3, <1>4, <1>5 DEF L1Path, ThreadMoves, L1Awaits
<1>8. L1Copies'
  BY <1>1, <1>2, <1>3 DEF L1Part, L1Copies, InL1, L1Word, ThreadMoves
<1>9. L2Answered'
  BY <1>3, <1>5 DEF L2Answered
<1>10. RequestDone'
  BY <1>1 DEF RequestDone, ThreadMoves
<1>11. QED
  BY <1>6, <1>7, <1>8, <1>9, <1>10 DEF L1Part

(* L2 has answered a write: memory has caught up.                           *)
LEMMA L1WriteDonePart ==
    ASSUME IInv, WriteThrough, Serves, L1Part, L1Step, L1WriteDone
    PROVE  L1Part'
<1>1. /\ ThreadMoves("L1", "await_write", "restart", 1, 0)
      /\ flag["done_from_L2"] /\ bus' = bus /\ l1' = l1 /\ addrNext' = addrNext
  BY ThreadMovesSuspend DEF L1WriteDone, L1Complete, Thread
<1>2. /\ UNCHANGED <<memory_blocks, request, stats, stage, run, flag, addr>>
      /\ pc'["L2"] = pc["L2"]
  BY L1Frame DEF driverVars, Drives
<1>3. pc["L2"] = "restart" /\ request.we
  BY <1>1, WaitingFields, WaitingDiffers
  DEF Serves, AnswerUp, L2Withdraws, L1AtEdge, Sampled, ThreadMoves, Flag
<1>4. memory_blocks[request.addr] = request.data
  BY <1>1, <1>3 DEF L1Part, L2Answered, ThreadMoves
<1>5. RequestStands'
  BY <1>1, <1>2 DEF L1Part, RequestStands
<1>6. L1Path'
  BY <1>1 DEF L1Path, ThreadMoves, L1Awaits
<1>7. L1Copies'
  BY <1>1, <1>2, <1>4 DEF L1Part, L1Copies, InL1, L1Word, ThreadMoves
<1>8. L2Answered'
  BY <1>1 DEF L2Answered, ThreadMoves
<1>9. RequestDone'
  BY <1>2, <1>3, <1>4 DEF RequestDone
<1>10. QED
  BY <1>5, <1>6, <1>7, <1>8, <1>9 DEF L1Part

(* L2 has answered a read: its line replaces what L1 had there.              *)
LEMMA L1FillPart ==
    ASSUME IInv, WriteThrough, Serves, L1Part, L1Step, L1Fill
    PROVE  L1Part'
<1>1. /\ ThreadMoves("L1", "await_read", "restart", 1, 0)
      /\ flag["done_from_L2"] /\ addrNext' = addrNext
  BY ThreadMovesSuspend DEF L1Fill, L1Complete, Thread
<1>2. /\ UNCHANGED <<memory_blocks, request, stats, stage, run, flag, addr>>
      /\ pc'["L2"] = pc["L2"] /\ bus'.data_in = bus.data_in
  BY L1Frame DEF driverVars, Drives
<1>3. /\ l1.address_int = request.addr /\ request \in Requests /\ ~request.we
  BY <1>1 DEF L1Part, L1Path, RequestStands, Serves, Sampled, ThreadMoves
<1>4. pc["L2"] = "restart"
  BY <1>1, WaitingFields, WaitingDiffers
  DEF Serves, AnswerUp, L2Withdraws, L1AtEdge, ThreadMoves, Flag
<1>5. bus.data_from_L2_to_L1[0] = memory_blocks[request.addr]
  BY <1>1, <1>4 DEF L1Part, L2Answered, ThreadMoves
<1>6. /\ l1'.cache_blocks =
           [l1.cache_blocks EXCEPT ![L1Index] = bus.data_from_L2_to_L1]
      /\ l1'.valid = [l1.valid EXCEPT ![L1Index] = TRUE]
      /\ l1'.tags = [l1.tags EXCEPT ![L1Index] = L1Tag]
      /\ bus'.data_out = bus.data_from_L2_to_L1[0]
  BY <1>3, L1Looks DEF L1Fill, IInv, TypeOK, L1TypeOK, KernelTypeOK, Bus
<1>7. RequestStands'
  BY <1>1, <1>2 DEF L1Part, RequestStands
<1>8. L1Path'
  BY <1>1 DEF L1Path, ThreadMoves, L1Awaits
<1>9. L1Copies'
  <2>1. SUFFICES ASSUME NEW a \in Requested, InL1(a)'
                 PROVE  L1Word(a)' = memory_blocks[a]
    BY <1>1, <1>2 DEF L1Copies, ThreadMoves
  <2> DEFINE i == Index(a, LineWords, L1Lines)
  <2>2. /\ i \in L1Line /\ Offset(a, LineWords) = 0 /\ L1Index \in L1Line
        /\ l1.cache_blocks \in [L1Line -> Line]
        /\ l1.tags \in [L1Line -> Nat] /\ l1.valid \in [L1Line -> BOOLEAN]
    BY <1>3, L1Looks DEF IInv, TypeOK, L1TypeOK
  <2>3. /\ L1Word(a) = l1.cache_blocks[i][0]
        /\ L1Word(a)' = l1'.cache_blocks[i][0]
        /\ l1'.valid[i] /\ l1'.tags[i] = TagOf(a, LineWords, L1Lines)
    BY <2>1, <2>2 DEF L1Word, InL1
  <2>4. CASE i = L1Index
    <3>1. TagOf(a, LineWords, L1Lines) = L1Tag
      BY <1>6, <2>2, <2>3, <2>4
    <3>2. a = request.addr
      BY <1>3, <2>4, <3>1, L1Looks
    <3>3. QED
      BY <1>5, <1>6, <2>2, <2>3, <2>4, <3>2
  <2>5. CASE i # L1Index
    <3>1. /\ l1'.cache_blocks[i] = l1.cache_blocks[i]
          /\ l1.valid[i] /\ l1.tags[i] = TagOf(a, LineWords, L1Lines)
      BY <1>6, <2>2, <2>3, <2>5
    <3>2. L1Word(a) = memory_blocks[a]
      BY <1>1, <3>1 DEF L1Part, L1Copies, InL1, ThreadMoves
    <3>3. QED
      BY <2>3, <3>1, <3>2
  <2>6. QED
    BY <2>4, <2>5
<1>10. L2Answered'
  BY <1>1 DEF L2Answered, ThreadMoves
<1>11. RequestDone'
  BY <1>2, <1>3, <1>5, <1>6 DEF RequestDone
<1>12. QED
  BY <1>7, <1>8, <1>9, <1>10, <1>11 DEF L1Part

(* Every step of L1 keeps the memory coherent.                              *)
LEMMA L1Coherent ==
    ASSUME IInv, WriteThrough, Serves, MemoryHandshake, DataPath, Contents, L1Step
    PROVE  MemoryHandshake' /\ DataPath' /\ Contents'
<1>1. L1Part
  BY DEF L1Part, DataPath, Contents
<1>2. L1Part'
  BY <1>1, L1WaitsPart, L1WritePart, L1ReadHitPart, L1ReadMissPart,
     L1WriteDonePart, L1FillPart
  DEF L1Step, L1Next
<1>3. QED
  BY <1>2, L1Elsewhere DEF L1Part, DataPath, Contents

-----------------------------------------------------------------------------
(* L2.                                                                      *)

(* Without a store-back buffer these steps are never taken.                  *)
LEMMA L2Kinds ==
    ASSUME Unbuffered, MemoryHandshake, L2Next
    PROVE  /\ ~HasStoreback
           /\ \/ L2Restart \/ L2Poll \/ L2Write \/ L2ReadHit \/ L2ReadMiss
              \/ (L2StillWaiting /\ ~Runs("L2", "flush")) \/ L2WriteDone
              \/ L2Issue \/ L2Fill \/ L2PrefetchTake \/ L2PrefetchEmpty
              \/ L2Install
<1>1. ~HasStoreback
  BY ConstantsAssumption DEF Unbuffered, HasStoreback
<1>2. \A label \in {"store", "retry", "flush"} : ~Runs("L2", label)
  BY DEF MemoryHandshake, MemoryWaits, Runs
<1>3. ~L2Store /\ ~L2StoreFails /\ ~L2Retry /\ ~L2FlushDone
  BY <1>2 DEF L2Store, L2StoreFails, L2Retry, L2FlushDone
<1>4. QED
  BY <1>1, <1>2, <1>3 DEF L2Next

(* What a step of L2 leaves alone.                                          *)
LEMMA L2Frame ==
    ASSUME IInv, Unbuffered, MemoryHandshake, L2Step
    PROVE  /\ UNCHANGED <<l1, memory_blocks, memory, driverVars, run>>
           /\ \A t \in {"L1", "MEMORY"} : pc'[t] = pc[t] /\ delay'[t] = delay[t]
           /\ Drives({"done_from_L2", "hit_from_L2", "valid_from_L2_to_Memory",
                      "write_enable_from_L2_to_Memory"})
           /\ addr' = addr
           /\ \A s \in {"address", "address_from_L1_to_L2"} :
                  addrNext'[s] = addrNext[s]
           /\ bus'.data_in = bus.data_in /\ bus'.data_out = bus.data_out
           /\ bus'.data_from_L1_to_L2 = bus.data_from_L1_to_L2
           /\ bus'.data_from_Memory_to_L2 = bus.data_from_Memory_to_L2
<1> USE DEF Suspend, Drive, DriveAddress, Drives, Flag, AddressSignal, Thread,
            signalVars, IInv, TypeOK, KernelTypeOK, Bus
<1>1. UNCHANGED <<l1, memory_blocks, memory, driverVars>>
  BY DEF L2Step, memoryVars
<1>2. L2Next
  BY DEF L2Step
<1>3. CASE L2Restart \/ L2Poll \/ L2StillWaiting \/ L2ReadMiss
  BY <1>1, <1>3 DEF L2Restart, L2Poll, L2StillWaiting, L2ReadMiss
<1>10. CASE L2Issue
  BY <1>1, <1>10 DEF L2Issue
<1>4. CASE L2Write
  <2>1. Suspend("L2", "await_write", 0, 0)
    BY <1>2, <1>4, L2Kinds DEF L2Write
  <2>2. QED
    BY <1>1, <1>4, <2>1 DEF L2Write
<1>5. CASE L2ReadHit \/ L2WriteDone
  BY <1>1, <1>5 DEF L2ReadHit, L2WriteDone, L2Complete, Withdrawn
<1>6. CASE L2Fill
  BY <1>1, <1>6 DEF L2Fill, L2Answer, L2Complete, Withdrawn
<1>7. CASE L2PrefetchTake \/ L2PrefetchEmpty
  BY <1>1, <1>7 DEF L2PrefetchTake, L2PrefetchEmpty
<1>8. CASE L2Install
  BY <1>1, <1>8 DEF L2Install, L2Answer, L2Complete
<1>9. QED
  BY <1>2, <1>3, <1>10, <1>4, <1>5, <1>6, <1>7, <1>8, L2Kinds

(* So it keeps what is said of the others.                                  *)
LEMMA L2Elsewhere ==
    ASSUME IInv, Unbuffered, MemoryHandshake, L2Step, RequestStands, L1Path,
           MemoryPath, L1Copies, RequestDone
    PROVE  RequestStands' /\ L1Path' /\ MemoryPath' /\ L1Copies' /\ RequestDone'
<1> USE L2Frame DEF Drives, Flag, driverVars
<1>1. RequestStands'
  BY DEF RequestStands
<1>2. L1Path' /\ MemoryPath'
  BY DEF L1Path, MemoryPath, L1Awaits
<1>3. L1Copies'
  BY DEF L1Copies, InL1, L1Word
<1>4. RequestDone'
  BY DEF RequestDone
<1>5. QED
  BY <1>1, <1>2, <1>3, <1>4

(* The command that L2 works on is the request.                             *)
LEMMA L2Serves ==
    ASSUME IInv, Serves, CommandStands, RequestStands, L1Path, L2Path, L2Works
    PROVE  /\ L1Awaits /\ request \in Requests /\ request.we \in BOOLEAN
           /\ l2.address_int = request.addr
           /\ addr["address_from_L1_to_L2"] = request.addr
           /\ flag["write_enable_from_L1_to_L2"] = request.we
           /\ pc["L1"] = IF request.we THEN "await_write" ELSE "await_read"
           /\ request.we => bus.data_from_L1_to_L2 = request.data
<1>1. L1Awaits /\ flag["valid_from_L1_to_L2"]
  BY DEF Serves, CommandUp, CommandStands, L2Works
<1>2. request \in Requests /\ request.we \in BOOLEAN
  BY ConstantsAssumption DEF RequestStands, Request
<1>3. pc["L1"] = IF request.we THEN "await_write" ELSE "await_read"
  BY <1>1, <1>2 DEF Serves, Sampled, L1Awaits
<1>4. QED
  BY <1>1, <1>2, <1>3 DEF L1Path, L2Path

(* How L2 looks it up.                                                      *)
LEMMA L2Looks ==
    ASSUME IInv, WriteThrough, request \in Requests, l2.address_int = request.addr
    PROVE  /\ request.addr \in Requested /\ request.addr \in Address
           /\ L2Index = Index(request.addr, LineWords, L2Lines)
           /\ L2Index \in L2Line /\ L2Offset = 0 /\ 0 \in LineOffset
           /\ L2Tag = TagOf(request.addr, LineWords, L2Lines)
           /\ L2Matches <=> InL2(request.addr)
           /\ L2Word(request.addr) = l2.cache_blocks[L2Index][0]
           /\ \A a \in Requested :
                  /\ Index(a, LineWords, L2Lines) \in L2Line
                  /\ Offset(a, LineWords) = 0
                  /\ Index(a, LineWords, L2Lines) = L2Index
                     /\ TagOf(a, LineWords, L2Lines) = L2Tag => a = request.addr
<1>1. /\ request.addr \in Requested /\ request.addr \in Address
      /\ Offset(request.addr, LineWords) = 0 /\ 0 \in LineOffset
  BY RequestedLines
<1>2. \A a \in Requested : /\ Index(a, LineWords, L2Lines) \in L2Line
                           /\ Offset(a, LineWords) = 0
  BY RequestedLines, IndexType DEF L2Line
<1>3. QED
  BY <1>1, <1>2, RequestedLines
  DEF L2Index, L2Offset, L2Tag, L2Matches, InL2, L2Word

(* What L2 itself is to keep.                                               *)
L2Part == L2Path /\ L2Copies /\ L2Answered /\ MemoryAnswered /\ LinesAhead

(* L2 withdraws its answer and polls, goes on waiting, or misses.            *)
LEMMA L2WaitsPart ==
    ASSUME IInv, WriteThrough, Serves, CommandStands, MemoryHandshake, DataPath,
           L2Part, L2Step,
           \/ L2Restart \/ L2Poll \/ L2ReadMiss
           \/ (L2StillWaiting /\ ~Runs("L2", "flush")) \/ L2PrefetchEmpty
    PROVE  L2Part' /\ MemoryHandshake'
<1>0. ~HasStoreback
  BY L2Kinds, WritesGoThrough DEF L2Step
<1>1. /\ \/ /\ ThreadMoves("L2", "restart", "poll", 0, 2) /\ l2' = l2
            /\ Drives({"done_from_L2", "hit_from_L2"})
         \/ /\ ThreadMoves("L2", "poll", "poll", 1, 1) /\ l2' = l2
            /\ Drives({})
         \/ /\ ThreadMoves("L2", "poll", "access", L2Latency, 0) /\ Drives({})
            /\ l2' = [l2 EXCEPT !.address_int = addr["address_from_L1_to_L2"]]
            /\ flag["valid_from_L1_to_L2"]
         \/ /\ ThreadMoves("L2", "access", "issue", 0, 0) /\ l2' = l2
            /\ Drives({}) /\ ~flag["write_enable_from_L1_to_L2"]
         \/ /\ ThreadMoves("L2", "await_write", "await_write", 1, 2)
            /\ l2' = l2 /\ Drives({}) /\ ~flag["done_from_Memory"]
         \/ /\ ThreadMoves("L2", "await_read", "await_read", 1, 2)
            /\ l2' = l2 /\ Drives({}) /\ ~flag["done_from_Memory"]
         \/ /\ ThreadMoves("L2", "prefetch", "prefetch", 1, 3)
            /\ l2' = l2 /\ Drives({})
      /\ UNCHANGED <<bus, prefetch, addrNext>>
  <2>1. CASE L2Restart
    BY <2>1, ThreadMovesSuspend
    DEF L2Restart, Thread, bufferVars, Drive, Drives, Flag, IInv, TypeOK,
        KernelTypeOK
  <2>2. CASE L2Poll
    BY <2>2, ThreadMovesSuspend
    DEF L2Poll, Thread, bufferVars, signalVars, Drives
  <2>3. CASE L2ReadMiss
    BY <1>0, <2>3, ThreadMovesSuspend
    DEF L2ReadMiss, Thread, bufferVars, signalVars, Drives
  <2>4. CASE L2StillWaiting /\ ~Runs("L2", "flush")
    BY <2>4, ThreadMovesSuspend
    DEF L2StillWaiting, Thread, bufferVars, signalVars, Drives
  <2>5. CASE L2PrefetchEmpty
    BY <2>5, ThreadMovesSuspend
    DEF L2PrefetchEmpty, Thread, bufferVars, signalVars, Drives
  <2>6. QED
    BY <2>1, <2>2, <2>3, <2>4, <2>5
<1>2. /\ l2'.cache_blocks = l2.cache_blocks /\ l2'.valid = l2.valid
      /\ l2'.tags = l2.tags /\ l2'.fetched = l2.fetched /\ l2'.i = l2.i
      /\ pc["L2"] # "poll" => l2'.address_int = l2.address_int
      /\ pc'["L2"] = "access" => l2'.address_int = addr["address_from_L1_to_L2"]
  BY <1>1 DEF IInv, TypeOK, L2TypeOK, ThreadMoves
<1>3. /\ UNCHANGED <<memory_blocks, memory, request, stage, run, flag, addr>>
      /\ pc'["L1"] = pc["L1"] /\ pc'["MEMORY"] = pc["MEMORY"]
      /\ flagNext'["write_enable_from_L2_to_Memory"]
           = flagNext["write_enable_from_L2_to_Memory"]
  BY <1>1, L2Frame, WritesGoThrough DEF driverVars, Drives, Flag
<1>4. pc'["L2"] = "access" => addr["address_from_L1_to_L2"] = request.addr
  <2>1. SUFFICES ASSUME pc'["L2"] = "access"
                 PROVE  addr["address_from_L1_to_L2"] = request.addr
    OBVIOUS
  <2>2. pc["L2"] = "poll" /\ flag["valid_from_L1_to_L2"]
    BY <1>1, <2>1 DEF ThreadMoves
  <2>3. L1Awaits
    BY <2>2 DEF Serves, CommandUp
  <2>4. QED
    BY <2>2, <2>3 DEF DataPath, L1Path
<1>5. pc'["L2"] = "issue" => ~request.we
  <2>1. pc'["L2"] = "issue" =>
            L2Works /\ ~flag["write_enable_from_L1_to_L2"]
    BY <1>1 DEF ThreadMoves, L2Works
  <2>2. QED
    BY <2>1, L2Serves DEF DataPath
<1>6. MemoryHandshake'
  BY <1>1, <1>2, <1>3, L2StartHandshake, L2WaitHandshake, L2FetchHandshake
<1>7. L2Path'
  BY <1>1, <1>2, <1>3, <1>4, <1>5
  DEF L2Part, L2Path, L2Works, L2Awaits, ThreadMoves
<1>8. L2Copies'
  BY <1>1, <1>2, <1>3 DEF L2Part, L2Copies, InL2, L2Word, ThreadMoves
<1>9. L2Answered'
  BY <1>1, <1>3 DEF L2Part, L2Answered, ThreadMoves
<1>10. MemoryAnswered'
  BY <1>1, <1>2, <1>3
  DEF L2Part, MemoryAnswered, L2Fetches, Answers, L2Index, ThreadMoves
<1>11. LinesAhead'
  BY <1>1, <1>2, <1>3 DEF L2Part, LinesAhead, Ahead, ThreadMoves
<1>12. QED
  BY <1>6, <1>7, <1>8, <1>9, <1>10, <1>11 DEF L2Part

(* A write: the copy in L2 is ahead of memory from here on.                 *)
LEMMA L2WritePart ==
    ASSUME IInv, WriteThrough, Serves, CommandStands, MemoryHandshake, DataPath,
           L2Part, L2Step, L2Write
    PROVE  L2Part' /\ MemoryHandshake'
<1>1. /\ ThreadMoves("L2", "access", "await_write", 0, 0)
      /\ flag["write_enable_from_L1_to_L2"]
  BY ThreadMovesSuspend, L2Kinds, WritesGoThrough DEF L2Write, Thread, L2Step
<1>2. /\ addrNext'["address_from_L2_to_Memory"] = addr["address_from_L1_to_L2"]
      /\ flagNext'["write_enable_from_L2_to_Memory"]
           = flag["write_enable_from_L1_to_L2"]
      /\ flagNext'["valid_from_L2_to_Memory"]
      /\ Drives({"hit_from_L2", "valid_from_L2_to_Memory",
                 "write_enable_from_L2_to_Memory"})
      /\ bus'.data_from_L2_to_Memory = bus.data_from_L1_to_L2
      /\ prefetch' = prefetch
  BY DEF L2Write, Drive, Drives, DriveAddress, IInv, TypeOK, KernelTypeOK,
         Flag, AddressSignal, Bus, bufferVars
<1>3. /\ UNCHANGED <<memory_blocks, memory, request, stage, run, flag, addr>>
      /\ pc'["L1"] = pc["L1"] /\ pc'["MEMORY"] = pc["MEMORY"]
  BY L2Frame, WritesGoThrough DEF driverVars, Drives
<1>4. /\ request \in Requests /\ l2.address_int = request.addr
      /\ addr["address_from_L1_to_L2"] = request.addr
      /\ request.we /\ bus.data_from_L1_to_L2 = request.data
      /\ flag["write_enable_from_L1_to_L2"] = request.we
  BY <1>1, L2Serves DEF DataPath, L2Works, ThreadMoves
<1>5. pc["MEMORY"] = "poll" /\ ~flag["valid_from_L2_to_Memory"]
  BY <1>1, WaitingFields
  DEF MemoryHandshake, MemoryReady, MemoryCommandUp, ThreadMoves, L2Awaits
<1>6. /\ l2'.valid = l2.valid /\ l2'.tags = l2.tags /\ l2'.i = l2.i
      /\ l2'.address_int = l2.address_int
      /\ l2'.cache_blocks =
           IF L2Matches
           THEN [l2.cache_blocks EXCEPT ![L2Index][0] = request.data]
           ELSE l2.cache_blocks
  BY <1>4, L2Looks DEF L2Write, IInv, TypeOK, L2TypeOK
<1>7. MemoryHandshake'
  BY <1>1, <1>2, <1>3, <1>6, L2CommandHandshake
<1>8. L2Path'
  BY <1>1, <1>2, <1>3, <1>4, <1>5, <1>6
  DEF L2Path, ThreadMoves, L2Works, L2Awaits
<1>9. L2Copies'
  <2>1. SUFFICES ASSUME NEW a \in Requested, InL2(a)'
                 PROVE  L2Word(a)' = IF a = request.addr THEN request.data
                                                         ELSE memory_blocks[a]
    BY <1>1, <1>3 DEF L2Copies, ThreadMoves
  <2>2. InL2(a)
    BY <1>6, <2>1 DEF InL2
  <2>3. L2Word(a) = memory_blocks[a]
    BY <1>1, <2>2 DEF L2Part, L2Copies, ThreadMoves
  <2> DEFINE i == Index(a, LineWords, L2Lines)
  <2>4. /\ i \in L2Line /\ Offset(a, LineWords) = 0 /\ 0 \in LineOffset
        /\ l2.cache_blocks \in [L2Line -> Line] /\ L2Index \in L2Line
    BY <1>4, L2Looks DEF IInv, TypeOK, L2TypeOK
  <2>5. L2Word(a) = l2.cache_blocks[i][0] /\ L2Word(a)' = l2'.cache_blocks[i][0]
    BY <2>4 DEF L2Word
  <2>6. CASE a = request.addr
    <3>1. L2Matches /\ i = L2Index
      BY <1>4, <2>2, <2>6, L2Looks
    <3>2. l2'.cache_blocks[i][0] = request.data
      BY <1>6, <2>4, <3>1 DEF Line
    <3>3. QED
      BY <2>5, <2>6, <3>2
  <2>7. CASE a # request.addr
    <3>1. L2Matches => i # L2Index
      BY <1>4, <2>2, <2>7, L2Looks DEF InL2, L2Matches
    <3>2. l2'.cache_blocks[i] = l2.cache_blocks[i]
      BY <1>6, <2>4, <3>1
    <3>3. QED
      BY <2>3, <2>5, <2>7, <3>2
  <2>8. QED
    BY <2>6, <2>7
<1>10. L2Answered'
  BY <1>1 DEF L2Answered, ThreadMoves
<1>11. MemoryAnswered'
  BY <1>1, <1>3, <1>5 DEF MemoryAnswered, L2Fetches, ThreadMoves
<1>12. LinesAhead'
  BY <1>1, <1>2, <1>3 DEF L2Part, LinesAhead, Ahead, ThreadMoves
<1>13. QED
  BY <1>7, <1>8, <1>9, <1>10, <1>11, <1>12 DEF L2Part

(* A read finds the copy.                                                   *)
LEMMA L2ReadHitPart ==
    ASSUME IInv, WriteThrough, Serves, CommandStands, MemoryHandshake, DataPath,
           L2Part, L2Step, L2ReadHit
    PROVE  L2Part' /\ MemoryHandshake'
<1>1. /\ ThreadMoves("L2", "access", "restart", 1, 0)
      /\ ~flag["write_enable_from_L1_to_L2"] /\ L2Matches
      /\ l2' = l2 /\ prefetch' = prefetch
      /\ Drives({"done_from_L2", "hit_from_L2"})
  BY ThreadMovesSuspend
  DEF L2ReadHit, L2Complete, Thread, bufferVars, Drive, Drives, Flag, IInv,
      TypeOK, KernelTypeOK
<1>2. /\ UNCHANGED <<memory_blocks, memory, request, stage, run, flag, addr>>
      /\ pc'["L1"] = pc["L1"] /\ pc'["MEMORY"] = pc["MEMORY"]
  BY L2Frame, WritesGoThrough DEF driverVars, Drives
<1>3. /\ request \in Requests /\ l2.address_int = request.addr /\ ~request.we
      /\ pc["L1"] = "await_read"
  BY <1>1, L2Serves DEF DataPath, L2Works, ThreadMoves
<1>4. bus'.data_from_L2_to_L1[0] = l2.cache_blocks[L2Index][0]
  BY <1>3, L2Looks DEF L2ReadHit, IInv, TypeOK, KernelTypeOK, Bus, Line
<1>5. bus'.data_from_L2_to_L1[0] = memory_blocks[request.addr]
  BY <1>1, <1>3, <1>4, L2Looks DEF L2Part, L2Copies, ThreadMoves
<1>6. MemoryHandshake'
  BY <1>1, <1>2, L2StartHandshake
<1>7. L2Path'
  BY <1>1 DEF L2Path, ThreadMoves, L2Works, L2Awaits
<1>8. L2Copies'
  BY <1>1, <1>2 DEF L2Part, L2Copies, InL2, L2Word, ThreadMoves
<1>9. L2Answered'
  BY <1>2, <1>3, <1>5 DEF L2Answered
<1>10. MemoryAnswered'
  BY <1>1 DEF MemoryAnswered, L2Fetches, ThreadMoves
<1>11. LinesAhead'
  BY <1>1, <1>2 DEF L2Part, LinesAhead, Ahead, ThreadMoves
<1>12. QED
  BY <1>6, <1>7, <1>8, <1>9, <1>10, <1>11 DEF L2Part

(* MEMORY has answered a write: it has caught up.                           *)
LEMMA L2WriteDonePart ==
    ASSUME IInv, WriteThrough, Serves, CommandStands, MemoryHandshake, DataPath,
           L2Part, L2Step, L2WriteDone
    PROVE  L2Part' /\ MemoryHandshake'
<1>1. /\ ThreadMoves("L2", "await_write", "restart", 1, 0)
      /\ flag["done_from_Memory"] /\ l2' = l2 /\ prefetch' = prefetch
      /\ Drives({"done_from_L2", "valid_from_L2_to_Memory"})
      /\ ~flagNext'["valid_from_L2_to_Memory"]
  BY ThreadMovesSuspend
  DEF L2WriteDone, L2Complete, Withdrawn, Thread, bufferVars, Drive, Drives,
      Flag, IInv, TypeOK, KernelTypeOK
<1>2. /\ UNCHANGED <<memory_blocks, memory, request, stage, run, flag, addr>>
      /\ pc'["L1"] = pc["L1"] /\ pc'["MEMORY"] = pc["MEMORY"]
  BY L2Frame, WritesGoThrough DEF driverVars, Drives
<1>3. request.we /\ pc["L1"] = "await_write"
  BY <1>1, L2Serves DEF DataPath, L2Works, L2Path, ThreadMoves
<1>4. pc["MEMORY"] = "restart"
  BY <1>1, WaitingFields, WaitingDiffers
  DEF MemoryHandshake, MemoryDoneUp, Answers, L2Awaits, ThreadMoves, Flag
<1>5. memory_blocks[request.addr] = request.data
  BY <1>1, <1>4 DEF L2Part, MemoryAnswered, ThreadMoves
<1>6. MemoryHandshake'
  BY <1>1, <1>2, L2AnsweredHandshake
<1>7. L2Path'
  BY <1>1 DEF L2Path, ThreadMoves, L2Works, L2Awaits
<1>8. L2Copies'
  BY <1>1, <1>2, <1>5 DEF L2Part, L2Copies, InL2, L2Word, ThreadMoves
<1>9. L2Answered'
  BY <1>2, <1>3, <1>5 DEF L2Answered
<1>10. MemoryAnswered'
  BY <1>1 DEF MemoryAnswered, L2Fetches, ThreadMoves
<1>11. LinesAhead'
  BY <1>1, <1>2 DEF L2Part, LinesAhead, Ahead, ThreadMoves
<1>12. QED
  BY <1>6, <1>7, <1>8, <1>9, <1>10, <1>11 DEF L2Part

(* A read goes on to MEMORY.                                                *)
LEMMA L2IssuePart ==
    ASSUME IInv, WriteThrough, Serves, CommandStands, MemoryHandshake, DataPath,
           L2Part, L2Step, L2Issue
    PROVE  L2Part' /\ MemoryHandshake'
<1>1. /\ ThreadMoves("L2", "issue", "await_read", 0, 0)
      /\ l2' = l2 /\ prefetch' = prefetch
  BY ThreadMovesSuspend DEF L2Issue, Thread, bufferVars
<1>2. /\ addrNext'["address_from_L2_to_Memory"] = addr["address_from_L1_to_L2"]
      /\ flagNext'["write_enable_from_L2_to_Memory"]
           = flag["write_enable_from_L1_to_L2"]
      /\ flagNext'["valid_from_L2_to_Memory"]
      /\ Drives({"hit_from_L2", "valid_from_L2_to_Memory",
                 "write_enable_from_L2_to_Memory"})
  BY DEF L2Issue, Drive, Drives, DriveAddress, IInv, TypeOK, KernelTypeOK,
         Flag, AddressSignal
<1>3. /\ UNCHANGED <<memory_blocks, memory, request, stage, run, flag, addr>>
      /\ pc'["L1"] = pc["L1"] /\ pc'["MEMORY"] = pc["MEMORY"]
  BY L2Frame, WritesGoThrough DEF driverVars, Drives
<1>4. /\ request \in Requests /\ l2.address_int = request.addr
      /\ addr["address_from_L1_to_L2"] = request.addr
      /\ flag["write_enable_from_L1_to_L2"] = request.we
      /\ ~request.we
  BY <1>1, L2Serves DEF DataPath, L2Works, ThreadMoves, L2Part, L2Path
<1>5. pc["MEMORY"] = "poll" /\ ~flag["valid_from_L2_to_Memory"]
  BY <1>1, WaitingFields
  DEF MemoryHandshake, MemoryReady, MemoryCommandUp, ThreadMoves, L2Awaits
<1>6. MemoryHandshake'
  BY <1>1, <1>2, <1>3, L2CommandHandshake
<1>7. L2Path'
  BY <1>1, <1>2, <1>3, <1>4, <1>5 DEF L2Path, ThreadMoves, L2Works, L2Awaits
<1>8. L2Copies'
  BY <1>1, <1>3 DEF L2Part, L2Copies, InL2, L2Word, ThreadMoves
<1>9. L2Answered'
  BY <1>1 DEF L2Answered, ThreadMoves
<1>10. MemoryAnswered'
  BY <1>1, <1>3, <1>5 DEF MemoryAnswered, L2Fetches, Answers, ThreadMoves
<1>11. LinesAhead'
  BY <1>1, <1>3 DEF L2Part, LinesAhead, Ahead, ThreadMoves
<1>12. QED
  BY <1>6, <1>7, <1>8, <1>9, <1>10, <1>11 DEF L2Part

(* A line that comes from memory keeps the copies in L2 those of memory,     *)
(* whichever line it replaces.                                              *)
LEMMA FilledCopies ==
    ASSUME IInv, WriteThrough, NEW line \in PrefetchedLine,
           Offset(line.address, LineWords) = 0,
           line.data[0] = memory_blocks[line.address],
           pc["L2"] # "await_write", pc'["L2"] # "await_write",
           memory_blocks' = memory_blocks, L2Copies,
           l2'.cache_blocks = Filled(line.address, line.data).cache_blocks,
           l2'.valid = Filled(line.address, line.data).valid,
           l2'.tags = Filled(line.address, line.data).tags
    PROVE  /\ L2Copies'
           /\ \A i \in L2Line : l2'.cache_blocks[i] =
                  IF i = Index(line.address, LineWords, L2Lines)
                  THEN line.data ELSE l2.cache_blocks[i]
<1> DEFINE b == line.address
           j == Index(b, LineWords, L2Lines)
<1>1. /\ b \in Address /\ line.data \in Line /\ j \in L2Line
      /\ l2.cache_blocks \in [L2Line -> Line]
      /\ l2.tags \in [L2Line -> Nat] /\ l2.valid \in [L2Line -> BOOLEAN]
  BY IndexType DEF PrefetchedLine, L2Line, IInv, TypeOK, L2TypeOK
<1>2. /\ l2'.cache_blocks = [l2.cache_blocks EXCEPT ![j] = line.data]
      /\ l2'.valid = [l2.valid EXCEPT ![j] = TRUE]
      /\ l2'.tags = [l2.tags EXCEPT ![j] = TagOf(b, LineWords, L2Lines)]
  BY DEF Filled, IInv, TypeOK, L2TypeOK
<1> HIDE DEF j
<1>3. L2Copies'
  <2>1. SUFFICES ASSUME NEW a \in Requested, InL2(a)'
                 PROVE  L2Word(a)' = memory_blocks[a]
    BY DEF L2Copies
  <2> DEFINE i == Index(a, LineWords, L2Lines)
  <2>2. /\ a \in Address /\ Offset(a, LineWords) = 0
    BY RequestedLines
  <2>3. i \in L2Line
    BY <2>2, IndexType DEF L2Line
  <2>4. /\ L2Word(a) = l2.cache_blocks[i][0]
        /\ L2Word(a)' = l2'.cache_blocks[i][0]
        /\ l2'.valid[i] /\ l2'.tags[i] = TagOf(a, LineWords, L2Lines)
    BY <2>1, <2>2 DEF L2Word, InL2
  <2>5. CASE i = j
    <3>1. TagOf(a, LineWords, L2Lines) = TagOf(b, LineWords, L2Lines)
      BY <1>1, <1>2, <2>4, <2>5
    <3>2. LineIsPower
      BY DEF WriteThrough
    <3>3. a = b
      BY <1>1, <2>2, <2>5, <3>1, <3>2, SameLine DEF j
    <3>4. QED
      BY <1>1, <1>2, <2>4, <2>5, <3>3
  <2>6. CASE i # j
    <3>1. /\ l2'.cache_blocks[i] = l2.cache_blocks[i]
          /\ l2.valid[i] /\ l2.tags[i] = TagOf(a, LineWords, L2Lines)
      BY <1>1, <1>2, <2>3, <2>4, <2>6
    <3>2. L2Word(a) = memory_blocks[a]
      BY <3>1 DEF L2Copies, InL2
    <3>3. QED
      BY <2>4, <3>1, <3>2
  <2>7. QED
    BY <2>5, <2>6
<1>4. QED
  BY <1>1, <1>2, <1>3 DEF j

(* A prefetched line starts a line and does not replace the requested one.   *)
LEMMA AheadApart ==
    ASSUME IInv, WriteThrough, request \in Requests, NEW line \in PrefetchedLine,
           Ahead(line)
    PROVE  /\ Offset(line.address, LineWords) = 0
           /\ line.data[0] = memory_blocks[line.address]
           /\ Index(line.address, LineWords, L2Lines)
                # Index(request.addr, LineWords, L2Lines)
<1>1. PICK k \in 2 .. PrefetchLines + 1 :
          line.address = request.addr + k * LineWords
  BY DEF Ahead
<1>2. /\ request.addr \in Address /\ Offset(request.addr, LineWords) = 0
      /\ LineWords \in Nat \ {0} /\ PrefetchLines \in Nat
      /\ line.address \in Address
  BY RequestedLines, ConstantsAssumption DEF PrefetchedLine
<1>3. Offset(line.address, LineWords) = 0
  <2> DEFINE x == request.addr \div LineWords
  <2>1. /\ request.addr \in Nat /\ k \in Nat
    BY <1>2, ConstantsAssumption DEF Address
  <2>2. request.addr = LineWords * x + (request.addr % LineWords) /\ x \in Nat
    BY <1>2, <2>1, ModSplit
  <2>3. request.addr % LineWords = 0
    BY <1>2, PowerAssumption DEF WriteThrough
  <2> HIDE DEF x
  <2>4. LineWords * x \in Nat /\ k * LineWords \in Nat
    BY <1>2, <2>1, <2>2, MulNat
  <2>5. line.address = LineWords * (x + k) + 0
    <3>1. LineWords * (x + k) = LineWords * x + k * LineWords
      BY <1>2, <2>1, <2>2
    <3>2. QED
      BY <1>1, <2>2, <2>3, <2>4, <3>1
  <2>6. (LineWords * (x + k) + 0) % LineWords = 0
    <3>1. x + k \in Nat /\ 0 \in 0 .. LineWords - 1
      BY <1>2, <2>1, <2>2
    <3>2. QED
      BY <1>2, <3>1, ModSame
  <2>7. QED
    BY <1>2, <2>5, <2>6, PowerAssumption DEF WriteThrough
<1>4. QED
  BY <1>1, <1>3 DEF Ahead, WriteThrough

(* The line of a miss has come.                                             *)
LEMMA L2FillPart ==
    ASSUME IInv, WriteThrough, Serves, CommandStands, MemoryHandshake, DataPath,
           L2Part, L2Step, L2Fill
    PROVE  L2Part' /\ MemoryHandshake'
<1>1. /\ \/ ThreadMoves("L2", "await_read", "restart", 1, 0) /\ PrefetchLines = 0
         \/ ThreadMoves("L2", "await_read", "prefetch", 0, 1) /\ PrefetchLines > 0
      /\ flag["done_from_Memory"] /\ prefetch' = prefetch
      /\ Drives({"done_from_L2", "valid_from_L2_to_Memory"})
      /\ ~flagNext'["valid_from_L2_to_Memory"]
  <2>1. /\ flag["done_from_Memory"] /\ prefetch' = prefetch
        /\ PrefetchLines \in Nat
    BY ConstantsAssumption DEF L2Fill, bufferVars
  <2>2. CASE HasPrefetch
    BY <2>1, <2>2, ThreadMovesSuspend
    DEF L2Fill, Thread, Withdrawn, Drive, Drives, Flag, HasPrefetch, IInv,
        TypeOK, KernelTypeOK
  <2>3. CASE ~HasPrefetch
    BY <2>1, <2>3, ThreadMovesSuspend
    DEF L2Fill, L2Answer, L2Complete, Thread, Withdrawn, Drive, Drives, Flag,
        HasPrefetch, IInv, TypeOK, KernelTypeOK
  <2>4. QED
    BY <2>2, <2>3
<1>2. /\ UNCHANGED <<memory_blocks, memory, request, stage, run, flag, addr>>
      /\ pc'["L1"] = pc["L1"] /\ pc'["MEMORY"] = pc["MEMORY"]
  BY L2Frame, WritesGoThrough DEF driverVars, Drives
<1>3. /\ pc["L2"] = "await_read"
      /\ request \in Requests /\ l2.address_int = request.addr /\ ~request.we
      /\ pc["L1"] = "await_read"
  BY <1>1, L2Serves DEF DataPath, L2Works, ThreadMoves, L2Part, L2Path
<1>4. Answers
  BY <1>1, <1>3, WaitingFields, WaitingDiffers
  DEF MemoryHandshake, MemoryDoneUp, L2Awaits, ThreadMoves, Flag
<1>5. bus.data_from_Memory_to_L2[0] = memory_blocks[request.addr]
  BY <1>3, <1>4 DEF L2Part, MemoryAnswered
<1> DEFINE line == [address |-> request.addr, data |-> bus.data_from_Memory_to_L2]
<1>6. /\ line \in PrefetchedLine /\ Offset(line.address, LineWords) = 0
      /\ line.data[0] = memory_blocks[line.address]
      /\ line.address = request.addr
  BY <1>3, <1>5, RequestedLines
  DEF PrefetchedLine, IInv, TypeOK, KernelTypeOK, Bus
<1>7. /\ l2'.cache_blocks = Filled(line.address, line.data).cache_blocks
      /\ l2'.valid = Filled(line.address, line.data).valid
      /\ l2'.tags = Filled(line.address, line.data).tags
      /\ l2'.address_int = l2.address_int /\ l2'.fetched = l2.fetched
      /\ l2'.i = 0
  BY <1>3 DEF L2Fill, Filled, IInv, TypeOK, L2TypeOK
<1> HIDE DEF line
<1>8. /\ L2Copies'
      /\ l2'.cache_blocks[L2Index][0] = memory_blocks[request.addr]
  <2>1. /\ L2Copies /\ pc["L2"] # "await_write" /\ pc'["L2"] # "await_write"
        /\ memory_blocks' = memory_blocks
    BY <1>1, <1>2, <1>3 DEF L2Part, ThreadMoves
  <2>2. /\ L2Copies'
        /\ \A i \in L2Line : l2'.cache_blocks[i] =
               IF i = Index(line.address, LineWords, L2Lines)
               THEN line.data ELSE l2.cache_blocks[i]
    BY <1>6, <1>7, <2>1, FilledCopies
  <2>3. L2Index \in L2Line /\ L2Index = Index(request.addr, LineWords, L2Lines)
    BY <1>3, L2Looks
  <2>4. QED
    BY <1>6, <2>2, <2>3
<1>9. MemoryHandshake'
  BY <1>1, <1>2, <1>7, L2AnsweredHandshake
<1>10. L2Path'
  BY <1>1, <1>2, <1>3, <1>7 DEF L2Path, ThreadMoves, L2Works, L2Awaits
<1>11. L2Answered'
  <2>1. CASE PrefetchLines > 0
    BY <1>1, <2>1 DEF L2Answered, ThreadMoves
  <2>2. CASE PrefetchLines = 0
    <3>1. /\ bus \in Bus /\ L2Index' = L2Index /\ 0 \in LineOffset
          /\ ~HasPrefetch
      BY <1>7, <2>2, RequestedLines
      DEF IInv, TypeOK, KernelTypeOK, L2Index, HasPrefetch
    <3>2. bus' = [bus EXCEPT
                    !.data_from_L2_to_L1[0] = l2'.cache_blocks[L2Index][0]]
      BY <3>1 DEF L2Fill, L2Answer
    <3>3. bus'.data_from_L2_to_L1[0] = memory_blocks[request.addr]
      BY <1>8, <3>1, <3>2 DEF Bus, Line
    <3>4. QED
      BY <1>2, <1>3, <3>3 DEF L2Answered
  <2>3. QED
    BY <1>1, <2>1, <2>2
<1>12. MemoryAnswered'
  BY <1>1, <1>2, <1>7, <1>8
  DEF MemoryAnswered, L2Fetches, L2Index, ThreadMoves
<1>13. LinesAhead'
  BY <1>1, <1>2 DEF L2Part, LinesAhead, Ahead, ThreadMoves
<1>14. QED
  BY <1>8, <1>9, <1>10, <1>11, <1>12, <1>13 DEF L2Part

(* L2 takes a line out of the prefetch buffer.                              *)
LEMMA L2PrefetchTakePart ==
    ASSUME IInv, WriteThrough, Serves, CommandStands, MemoryHandshake, DataPath,
           L2Part, L2Step, L2PrefetchTake
    PROVE  L2Part' /\ MemoryHandshake'
<1>1. /\ ThreadMoves("L2", "prefetch", "install", 0, 1)
      /\ Drives({}) /\ bus' = bus
      /\ flagNext' = flagNext /\ addrNext' = addrNext
  BY ThreadMovesSuspend DEF L2PrefetchTake, Thread, signalVars, Drives
<1>2. /\ UNCHANGED <<memory_blocks, memory, request, stage, run, flag, addr>>
      /\ pc'["L1"] = pc["L1"] /\ pc'["MEMORY"] = pc["MEMORY"]
  BY L2Frame, WritesGoThrough DEF driverVars, Drives
<1>3. /\ prefetch.queue \in Seq(PrefetchedLine) /\ prefetch.queue # <<>>
      /\ Len(prefetch.queue) \in Nat \ {0}
      /\ prefetch'.queue = Tail(prefetch.queue)
  <2>1. /\ prefetch.queue \in Seq(PrefetchedLine) /\ prefetch.avail \in Nat
        /\ prefetch.avail <= Len(prefetch.queue) /\ prefetch.avail > 0
        /\ prefetch' = FifoRead(prefetch)
        /\ prefetch \in [queue : Seq(PrefetchedLine), avail : Nat, free : Nat]
    BY DEF L2PrefetchTake, PrefetchTake, IInv, TypeOK, PrefetchTypeOK,
           BuffersOK, FifoBounded
  <2>2. Len(prefetch.queue) \in Nat
    BY <2>1, LenProperties
  <2>3. QED
    BY <2>1, <2>2, EmptySeq DEF FifoRead
<1>4. /\ Len(prefetch'.queue) = Len(prefetch.queue) - 1
      /\ \A i \in DOMAIN prefetch'.queue :
             i + 1 \in DOMAIN prefetch.queue
             /\ prefetch'.queue[i] = prefetch.queue[i + 1]
      /\ 1 \in DOMAIN prefetch.queue /\ Head(prefetch.queue) = prefetch.queue[1]
  BY <1>3, HeadTailProperties, LenProperties
<1>5. /\ l2'.cache_blocks = l2.cache_blocks /\ l2'.valid = l2.valid
      /\ l2'.tags = l2.tags /\ l2'.address_int = l2.address_int
      /\ l2'.i = l2.i /\ l2'.fetched = prefetch.queue[1]
  BY <1>4 DEF L2PrefetchTake, IInv, TypeOK, L2TypeOK
<1>6. MemoryHandshake'
  BY <1>1, <1>2, <1>4, <1>5, L2FetchHandshake
<1>7. L2Path'
  BY <1>1, <1>2, <1>5 DEF L2Part, L2Path, ThreadMoves, L2Works, L2Awaits
<1>8. L2Copies'
  BY <1>1, <1>2, <1>5 DEF L2Part, L2Copies, InL2, L2Word, ThreadMoves
<1>9. L2Answered'
  BY <1>1 DEF L2Answered, ThreadMoves
<1>10. MemoryAnswered'
  BY <1>1, <1>2, <1>5
  DEF L2Part, MemoryAnswered, L2Fetches, L2Index, ThreadMoves
<1>11. LinesAhead'
  BY <1>1, <1>2, <1>4, <1>5 DEF L2Part, LinesAhead, Ahead, ThreadMoves
<1>12. QED
  BY <1>6, <1>7, <1>8, <1>9, <1>10, <1>11 DEF L2Part

(* L2 installs the line it took; after the last one it answers L1 with the   *)
(* line requested, which no prefetched line has replaced.                   *)
LEMMA L2InstallPart ==
    ASSUME IInv, WriteThrough, Serves, CommandStands, MemoryHandshake, DataPath,
           L2Part, L2Step, L2Install
    PROVE  L2Part' /\ MemoryHandshake'
<1>0. /\ pc["L2"] = "install" /\ l2.i \in Nat /\ PrefetchLines \in Nat
      /\ prefetch' = prefetch
  BY NumberTypes DEF L2Install, Runs, bufferVars
<1>1. /\ l2'.cache_blocks
           = Filled(l2.fetched.address, l2.fetched.data).cache_blocks
      /\ l2'.valid = Filled(l2.fetched.address, l2.fetched.data).valid
      /\ l2'.tags = Filled(l2.fetched.address, l2.fetched.data).tags
      /\ l2'.address_int = l2.address_int /\ l2'.fetched = l2.fetched
      /\ l2'.i = l2.i + 1
  BY DEF L2Install, Filled, IInv, TypeOK, L2TypeOK
<1>2. \/ /\ ThreadMoves("L2", "install", "prefetch", 0, 1) /\ Drives({})
         /\ l2'.i < PrefetchLines
      \/ /\ ThreadMoves("L2", "install", "restart", 1, 0)
         /\ Drives({"done_from_L2"}) /\ l2.i + 1 >= PrefetchLines
         /\ bus' = [bus EXCEPT
                      !.data_from_L2_to_L1[0] = l2'.cache_blocks[L2Index][0]]
  <2>1. CASE l2'.i < PrefetchLines
    BY <2>1, ThreadMovesSuspend DEF L2Install, Thread, signalVars, Drives
  <2>2. CASE ~(l2'.i < PrefetchLines)
    <3>1. l2.i + 1 >= PrefetchLines
      BY <1>0, <1>1, <2>2
    <3>2. QED
      BY <2>2, <3>1, ThreadMovesSuspend
      DEF L2Install, L2Answer, L2Complete, Thread, Drive, Drives, Flag, IInv,
          TypeOK, KernelTypeOK
  <2>3. QED
    BY <2>1, <2>2
<1>3. /\ UNCHANGED <<memory_blocks, memory, request, stage, run, flag, addr>>
      /\ pc'["L1"] = pc["L1"] /\ pc'["MEMORY"] = pc["MEMORY"]
  BY L2Frame, WritesGoThrough DEF driverVars, Drives
<1>4. /\ request \in Requests /\ l2.address_int = request.addr /\ ~request.we
      /\ pc["L1"] = "await_read"
  BY <1>0, L2Serves DEF DataPath, L2Works, L2Part, L2Path
<1>5. /\ l2.fetched \in PrefetchedLine
      /\ Offset(l2.fetched.address, LineWords) = 0
      /\ l2.fetched.data[0] = memory_blocks[l2.fetched.address]
      /\ Index(l2.fetched.address, LineWords, L2Lines)
           # Index(request.addr, LineWords, L2Lines)
  <2>1. l2.fetched \in PrefetchedLine /\ Ahead(l2.fetched)
    BY <1>0 DEF L2Part, LinesAhead, IInv, TypeOK, L2TypeOK
  <2>2. QED
    BY <1>4, <2>1, AheadApart
<1>6. /\ L2Copies'
      /\ l2'.cache_blocks[L2Index][0] = memory_blocks[request.addr]
  <2>1. /\ L2Copies /\ pc["L2"] # "await_write" /\ pc'["L2"] # "await_write"
        /\ memory_blocks' = memory_blocks
    BY <1>0, <1>2, <1>3 DEF L2Part, ThreadMoves
  <2>2. /\ L2Copies'
        /\ \A i \in L2Line : l2'.cache_blocks[i] =
               IF i = Index(l2.fetched.address, LineWords, L2Lines)
               THEN l2.fetched.data ELSE l2.cache_blocks[i]
    BY <1>1, <1>5, <2>1, FilledCopies
  <2>3. L2Index \in L2Line /\ L2Index = Index(request.addr, LineWords, L2Lines)
    BY <1>4, L2Looks
  <2>4. l2.cache_blocks[L2Index][0] = memory_blocks[request.addr]
    BY <1>0 DEF L2Part, MemoryAnswered, L2Fetches
  <2>5. QED
    BY <1>5, <2>2, <2>3, <2>4
<1>7. MemoryHandshake'
  BY <1>0, <1>1, <1>2, <1>3, L2FetchHandshake, L2FetchedHandshake
<1>8. L2Path'
  BY <1>0, <1>2, <1>3, <1>1, <1>4 DEF L2Path, ThreadMoves, L2Works, L2Awaits
<1>9. L2Answered'
  <2>1. CASE pc'["L2"] = "prefetch"
    BY <2>1 DEF L2Answered
  <2>2. CASE pc'["L2"] = "restart"
    <3>1. /\ bus \in Bus /\ 0 \in LineOffset
          /\ bus' = [bus EXCEPT
                       !.data_from_L2_to_L1[0] = l2'.cache_blocks[L2Index][0]]
      BY <1>2, <2>2, RequestedLines DEF IInv, TypeOK, KernelTypeOK, ThreadMoves
    <3>2. bus'.data_from_L2_to_L1[0] = memory_blocks[request.addr]
      BY <1>6, <3>1 DEF Bus, Line
    <3>3. QED
      BY <1>3, <1>4, <3>2 DEF L2Answered
  <2>3. QED
    BY <1>2, <2>1, <2>2 DEF ThreadMoves
<1>10. MemoryAnswered'
  BY <1>1, <1>2, <1>3, <1>6
  DEF MemoryAnswered, L2Fetches, L2Index, ThreadMoves
<1>11. LinesAhead'
  BY <1>0, <1>2, <1>3 DEF L2Part, LinesAhead, Ahead, ThreadMoves
<1>12. QED
  BY <1>6, <1>7, <1>8, <1>9, <1>10, <1>11 DEF L2Part

(* Every step of L2 keeps the memory coherent.                              *)
LEMMA L2Coherent ==
    ASSUME IInv, WriteThrough, Serves, CommandStands, MemoryHandshake, DataPath,
           Contents, L2Step
    PROVE  MemoryHandshake' /\ DataPath' /\ Contents'
<1>1. L2Part
  BY DEF L2Part, DataPath, Contents
<1>2. L2Part' /\ MemoryHandshake'
  BY <1>1, L2Kinds, WritesGoThrough, L2WaitsPart, L2WritePart, L2ReadHitPart,
     L2WriteDonePart, L2IssuePart, L2FillPart, L2PrefetchTakePart, L2InstallPart
  DEF L2Step
<1>3. QED
  BY <1>2, L2Elsewhere, WritesGoThrough DEF L2Part, DataPath, Contents

-----------------------------------------------------------------------------
(* MEMORY.                                                                  *)

(* Without a store-back buffer it takes only these steps.                    *)
LEMMA MemoryKinds ==
    ASSUME Unbuffered, MemoryHandshake, MemoryNext
    PROVE  /\ ~HasStoreback /\ ~memory.write_underway
           /\ \/ MemoryRestart \/ MemoryIdle
              \/ (MemoryAcceptRead /\ flag["valid_from_L2_to_Memory"])
              \/ (MemoryAcceptWrite /\ flag["valid_from_L2_to_Memory"])
              \/ MemoryRead \/ MemoryPrefetch \/ MemoryPut \/ MemoryReadDone
              \/ MemoryWrite
<1>1. ~HasStoreback
  BY ConstantsAssumption DEF Unbuffered, HasStoreback
<1>2. /\ ~memory.write_underway
      /\ \A label \in {"drain", "take", "taken", "latency", "commit"} :
             ~Runs("MEMORY", label)
  BY DEF MemoryHandshake, MemoryWaits, Runs
<1>3. /\ ~MemoryAcceptDrain /\ ~MemoryResume /\ ~MemoryCallRead /\ ~MemoryTake
      /\ ~MemoryDrained /\ ~MemoryTaken /\ ~MemoryAbort
      /\ ~MemoryLatencyStep /\ ~MemoryCommit
  BY <1>1, <1>2
  DEF MemoryAcceptDrain, MemoryResume, MemoryCallRead, MemoryTake,
      MemoryDrained, MemoryTaken, MemoryAbort, MemoryLatencyStep, MemoryCommit
<1>4. Polled => flag["valid_from_L2_to_Memory"]
  BY <1>2 DEF Polled
<1>5. QED
  BY <1>1, <1>2, <1>3, <1>4 DEF MemoryNext, MemoryAcceptRead, MemoryAcceptWrite

(* What a step of MEMORY leaves alone.                                      *)
LEMMA MemoryFrame ==
    ASSUME IInv, Unbuffered, MemoryHandshake, MemoryStep
    PROVE  /\ UNCHANGED <<l1, l2, driverVars, run, addr, addrNext>>
           /\ \A t \in {"L1", "L2"} : pc'[t] = pc[t] /\ delay'[t] = delay[t]
           /\ Drives({"done_from_Memory"})
           /\ bus'.data_in = bus.data_in /\ bus'.data_out = bus.data_out
           /\ bus'.data_from_L1_to_L2 = bus.data_from_L1_to_L2
           /\ bus'.data_from_L2_to_L1 = bus.data_from_L2_to_L1
           /\ bus'.data_from_L2_to_Memory = bus.data_from_L2_to_Memory
<1> USE DEF Suspend, Drive, Drives, Flag, Thread, signalVars, IInv, TypeOK,
            KernelTypeOK, Bus
<1>1. UNCHANGED <<l1, l2, driverVars>> /\ MemoryNext
  BY DEF MemoryStep
<1>2. ~memory.write_underway
  BY <1>1, MemoryKinds
<1>3. CASE MemoryRestart \/ MemoryIdle \/ MemoryAcceptRead \/ MemoryAcceptWrite
  BY <1>1, <1>3
  DEF MemoryRestart, MemoryIdle, MemoryAcceptRead, MemoryAcceptWrite
<1>4. CASE MemoryRead \/ MemoryWrite
  BY <1>1, <1>4 DEF MemoryRead, MemoryWrite
<1>5. CASE MemoryPrefetch \/ MemoryPut \/ MemoryReadDone
  BY <1>1, <1>2, <1>5 DEF MemoryPrefetch, MemoryPut, MemoryReadDone
<1>6. QED
  BY <1>1, <1>3, <1>4, <1>5, MemoryKinds

(* So it keeps what is said of the others, and, unless it writes, the copies *)
(* and the answers.                                                         *)
LEMMA MemoryElsewhere ==
    ASSUME IInv, Unbuffered, MemoryHandshake, MemoryStep, RequestStands, L1Path,
           L2Path
    PROVE  /\ RequestStands' /\ L1Path' /\ L2Path'
           /\ memory_blocks' = memory_blocks =>
                  /\ L1Copies => L1Copies'
                  /\ L2Copies => L2Copies'
                  /\ L2Answered => L2Answered'
                  /\ RequestDone => RequestDone'
<1> USE MemoryFrame DEF Drives, Flag, driverVars
<1>1. RequestStands' /\ L1Path' /\ L2Path'
  BY DEF RequestStands, L1Path, L1Awaits, L2Path, L2Works, L2Awaits
<1>2. ASSUME memory_blocks' = memory_blocks
      PROVE  /\ L1Copies => L1Copies'
             /\ L2Copies => L2Copies'
             /\ L2Answered => L2Answered'
             /\ RequestDone => RequestDone'
  <2>1. L1Copies => L1Copies'
    BY <1>2 DEF L1Copies, InL1, L1Word
  <2>2. L2Copies => L2Copies'
    BY <1>2 DEF L2Copies, InL2, L2Word
  <2>3. L2Answered => L2Answered'
    BY <1>2 DEF L2Answered
  <2>4. RequestDone => RequestDone'
    BY <1>2 DEF RequestDone
  <2>5. QED
    BY <2>1, <2>2, <2>3, <2>4
<1>3. QED
  BY <1>1, <1>2

(* What a step that does not write has to keep.                              *)
MemoryPart == MemoryPath /\ MemoryAnswered /\ LinesAhead

(* MEMORY withdraws its answer, finds no command, or has read all the lines. *)
LEMMA MemoryRestsPart ==
    ASSUME IInv, WriteThrough, MemoryHandshake, DataPath, MemoryPart, MemoryStep,
           MemoryRestart \/ MemoryIdle \/ MemoryReadDone
    PROVE  MemoryPart' /\ MemoryHandshake' /\ memory_blocks' = memory_blocks
<1>0. ~memory.write_underway
  BY MemoryKinds, WritesGoThrough DEF MemoryStep
<1>1. /\ \/ /\ ThreadMoves("MEMORY", "restart", "poll", 0, 2)
            /\ Drives({"done_from_Memory"}) /\ ~flagNext'["done_from_Memory"]
         \/ /\ ThreadMoves("MEMORY", "poll", "poll", 1, 2) /\ Drives({})
            /\ ~flag["valid_from_L2_to_Memory"]
         \/ /\ ThreadMoves("MEMORY", "prefetch", "restart", 0, 2) /\ Drives({})
            /\ memory.i > PrefetchLines
      /\ UNCHANGED <<memory_blocks, memory, prefetch, bus>>
  <2>1. CASE MemoryRestart
    BY <2>1, ThreadMovesSuspend
    DEF MemoryRestart, Thread, memoryVars, memoryBuffers, Drive, Drives, Flag,
        IInv, TypeOK, KernelTypeOK
  <2>2. CASE MemoryIdle
    BY <2>2, ThreadMovesSuspend
    DEF MemoryIdle, Thread, memoryVars, memoryBuffers, signalVars, Drives
  <2>3. CASE MemoryReadDone
    BY <1>0, <2>3, ThreadMovesSuspend
    DEF MemoryReadDone, Thread, memoryVars, memoryBuffers, Drives
  <2>4. QED
    BY <2>1, <2>2, <2>3
<1>2. UNCHANGED <<l2, request>> /\ pc'["L2"] = pc["L2"]
  BY MemoryFrame, WritesGoThrough DEF driverVars
<1>3. MemoryHandshake'
  BY <1>1, <1>2, MemoryPollHandshake, MemoryPrefetchHandshake
<1>4. MemoryPath'
  BY <1>1, <1>2 DEF MemoryPart, MemoryPath, ThreadMoves
<1>5. MemoryAnswered'
  <2>1. pc["MEMORY"] = "prefetch" => pc["L2"] # "await_write"
    BY DEF MemoryHandshake, MemoryDoneUp, L2Awaits, Answers
  <2>2. QED
    BY <1>1, <1>2, <2>1
    DEF MemoryPart, MemoryAnswered, L2Fetches, Answers, L2Index, ThreadMoves
<1>6. LinesAhead'
  BY <1>1, <1>2 DEF MemoryPart, LinesAhead, Ahead, ThreadMoves
<1>7. QED
  BY <1>1, <1>3, <1>4, <1>5, <1>6 DEF MemoryPart

(* MEMORY takes the command: it is the request L2 is serving.                *)
LEMMA MemoryAcceptPart ==
    ASSUME IInv, WriteThrough, MemoryHandshake, DataPath, MemoryPart, MemoryStep,
           MemoryAcceptRead \/ MemoryAcceptWrite
    PROVE  /\ MemoryPart' /\ MemoryHandshake' /\ memory_blocks' = memory_blocks
           /\ L2Awaits /\ memory'.address_u = request.addr
           /\ request.we = (pc'["MEMORY"] = "write")
<1>1. /\ \/ /\ ThreadMoves("MEMORY", "poll", "read", MemoryLatency, 0)
            /\ ~flag["write_enable_from_L2_to_Memory"]
         \/ /\ ThreadMoves("MEMORY", "poll", "write", MemoryLatency, 0)
            /\ flag["write_enable_from_L2_to_Memory"]
      /\ UNCHANGED <<memory_blocks, prefetch, bus>> /\ Drives({})
      /\ memory' = [memory EXCEPT
                      !.address_u = addr["address_from_L2_to_Memory"]]
      /\ Runs("MEMORY", "poll")
  <2>1. CASE MemoryAcceptRead
    BY <2>1, ThreadMovesSuspend
    DEF MemoryAcceptRead, Polled, Thread, memoryBuffers, signalVars, Drives
  <2>2. CASE MemoryAcceptWrite
    BY <2>2, ThreadMovesSuspend
    DEF MemoryAcceptWrite, Polled, Thread, memoryBuffers, signalVars, Drives
  <2>3. QED
    BY <2>1, <2>2
<1>2. UNCHANGED <<l2, request>> /\ pc'["L2"] = pc["L2"]
  BY MemoryFrame, WritesGoThrough DEF driverVars
<1>3. flag["valid_from_L2_to_Memory"]
  BY <1>1, MemoryKinds, WritesGoThrough
  DEF MemoryStep, Runs, MemoryAcceptRead, MemoryAcceptWrite, Polled
<1>4. L2Awaits
  BY <1>1, <1>3 DEF MemoryHandshake, MemoryCommandUp, Runs
<1>5. /\ addr["address_from_L2_to_Memory"] = request.addr
      /\ flag["write_enable_from_L2_to_Memory"] = request.we
      /\ pc["L2"] = "await_write" => request.we
      /\ pc["L2"] = "await_read" => ~request.we
  BY <1>3, <1>4 DEF DataPath, L2Path
<1>6. /\ memory'.address_u = request.addr /\ memory'.i = memory.i
      /\ memory'.write_underway = memory.write_underway
      /\ memory'.prefetched_line = memory.prefetched_line
  BY <1>1, <1>5 DEF IInv, TypeOK, MemoryTypeOK
<1>7. /\ pc'["MEMORY"] = "read" => pc["L2"] = "await_read"
      /\ pc'["MEMORY"] = "write" => pc["L2"] = "await_write"
      /\ request.we = (pc'["MEMORY"] = "write")
  BY <1>1, <1>4, <1>5, ConstantsAssumption
  DEF L2Awaits, ThreadMoves, DataPath, RequestStands, Request
<1>8. MemoryHandshake'
  BY <1>1, <1>2, <1>6, <1>7, MemoryAcceptHandshake DEF ThreadMoves
<1>9. MemoryPath'
  BY <1>1, <1>2, <1>6 DEF MemoryPath, ThreadMoves
<1>10. MemoryAnswered'
  BY <1>1, <1>2
  DEF MemoryPart, MemoryAnswered, L2Fetches, Answers, L2Index, ThreadMoves
<1>11. LinesAhead'
  BY <1>1, <1>2, <1>6 DEF MemoryPart, LinesAhead, Ahead, ThreadMoves
<1>12. QED
  BY <1>1, <1>4, <1>6, <1>7, <1>8, <1>9, <1>10, <1>11 DEF MemoryPart

(* MEMORY hands over the line of the request.                               *)
LEMMA MemoryReadPart ==
    ASSUME IInv, WriteThrough, MemoryHandshake, DataPath, MemoryPart, MemoryStep,
           MemoryRead
    PROVE  MemoryPart' /\ MemoryHandshake' /\ memory_blocks' = memory_blocks
<1>1. /\ ThreadMoves("MEMORY", "read", "prefetch", 0, 2)
      /\ Drives({"done_from_Memory"}) /\ flagNext'["done_from_Memory"]
      /\ UNCHANGED <<memory_blocks, prefetch>>
  BY ThreadMovesSuspend
  DEF MemoryRead, Thread, memoryBuffers, Drive, Drives, Flag, IInv, TypeOK,
      KernelTypeOK
<1>2. UNCHANGED <<l2, request>> /\ pc'["L2"] = pc["L2"]
  BY MemoryFrame, WritesGoThrough DEF driverVars
<1>3. /\ memory'.i = 1 /\ memory'.address_u = memory.address_u
      /\ memory'.write_underway = memory.write_underway
      /\ memory'.prefetched_line = memory.prefetched_line
  BY DEF MemoryRead, IInv, TypeOK, MemoryTypeOK
<1>4. pc["L2"] = "await_read" /\ memory.address_u = request.addr
  BY <1>1
  DEF MemoryHandshake, MemoryCommandUp, DataPath, MemoryPath, ThreadMoves
<1>5. bus'.data_from_Memory_to_L2[0] = memory_blocks[request.addr]
  <2>1. /\ request.addr \in Address /\ 0 \in LineOffset
        /\ request.addr + 0 = request.addr /\ request.addr <= MaxAddress
    BY RequestedLines, ConstantsAssumption
    DEF DataPath, RequestStands, Address
  <2>2. LineAt(request.addr, bus.data_from_Memory_to_L2)[0]
          = memory_blocks[request.addr]
    BY <2>1 DEF LineAt
  <2>3. bus'.data_from_Memory_to_L2
          = LineAt(request.addr, bus.data_from_Memory_to_L2)
    BY <1>4 DEF MemoryRead, IInv, TypeOK, KernelTypeOK, Bus
  <2>4. QED
    BY <2>2, <2>3
<1>6. MemoryHandshake'
  BY <1>1, <1>2, <1>3, MemoryAnswerHandshake
<1>7. MemoryPath'
  BY <1>1, <1>2, <1>3, <1>4 DEF MemoryPath, ThreadMoves
<1>8. MemoryAnswered'
  BY <1>1, <1>2, <1>4, <1>5 DEF MemoryAnswered, L2Fetches, ThreadMoves
<1>9. LinesAhead'
  BY <1>1, <1>2, <1>3 DEF MemoryPart, LinesAhead, Ahead, ThreadMoves
<1>10. QED
  BY <1>1, <1>6, <1>7, <1>8, <1>9 DEF MemoryPart

(* MEMORY reads a line behind the one requested.                             *)
LEMMA MemoryPrefetchPart ==
    ASSUME IInv, WriteThrough, MemoryHandshake, DataPath, MemoryPart, MemoryStep,
           MemoryPrefetch
    PROVE  MemoryPart' /\ MemoryHandshake' /\ memory_blocks' = memory_blocks
<1>1. /\ ThreadMoves("MEMORY", "prefetch", "put", MemoryLatency, 2)
      /\ memory.i <= PrefetchLines /\ Drives({})
      /\ UNCHANGED <<memory_blocks, prefetch, bus>>
  BY ThreadMovesSuspend
  DEF MemoryPrefetch, Thread, memoryBuffers, signalVars, Drives
<1>2. UNCHANGED <<l2, request>> /\ pc'["L2"] = pc["L2"]
  BY MemoryFrame, WritesGoThrough DEF driverVars
<1> DEFINE n == request.addr + LineWords + memory.i * LineWords
           a == n % (MaxAddress + 1)
<1>3. /\ memory.i \in 1 .. PrefetchLines /\ PrefetchLines \in Nat
      /\ memory.address_u = request.addr
  BY <1>1, NumberTypes
  DEF MemoryHandshake, Prefetching, DataPath, MemoryPath, ThreadMoves
<1>4. /\ memory'.i = memory.i /\ memory'.address_u = memory.address_u
      /\ memory'.write_underway = memory.write_underway
      /\ memory'.prefetched_line
           = [address |-> a, data |-> LineAt(a, ZeroLine)]
  BY <1>3 DEF MemoryPrefetch, IInv, TypeOK, MemoryTypeOK
<1> HIDE DEF a
<1>5. /\ a = request.addr + (memory.i + 1) * LineWords /\ a \in Address
  <2>1. /\ request \in Requests /\ request.addr \in Nat
        /\ LineWords \in Nat \ {0} /\ MaxAddress \in Nat
    BY RequestedLines, ConstantsAssumption DEF DataPath, RequestStands, Address
  <2>2. request.addr + (PrefetchLines + 1 + 1) * LineWords - 1 <= MaxAddress
    BY <1>3, <2>1, ReachAssumption DEF Reach, HasPrefetch
  <2> DEFINE i == memory.i
             p == PrefetchLines
  <2>3. i \in Nat /\ p \in Nat /\ i <= p
    BY <1>3
  <2> HIDE DEF i, p
  <2>4. /\ i * LineWords \in Nat /\ p * LineWords \in Nat
        /\ i * LineWords <= p * LineWords
    <3>1. PICK d \in Nat : p = i + d
      BY <2>3
    <3>2. p * LineWords = i * LineWords + d * LineWords
      BY <2>1, <2>3, <3>1
    <3>3. i * LineWords \in Nat /\ d * LineWords \in Nat
      BY <2>1, <2>3, MulNat
    <3>4. QED
      BY <3>2, <3>3
  <2>5. /\ (p + 1 + 1) * LineWords = p * LineWords + 2 * LineWords
        /\ (i + 1) * LineWords = i * LineWords + LineWords
    BY <2>1, <2>3
  <2>6. /\ n = request.addr + (memory.i + 1) * LineWords
        /\ n \in 0 .. (MaxAddress + 1) - 1
    BY <2>1, <2>2, <2>4, <2>5 DEF i, p
  <2> HIDE DEF n
  <2>7. n % (MaxAddress + 1) = n
    BY <2>1, <2>6, ModBelow
  <2>8. QED
    BY <2>1, <2>6, <2>7 DEF a, Address
<1>6. LineAt(a, ZeroLine)[0] = memory_blocks[a]
  <2>1. 0 \in LineOffset /\ a + 0 = a /\ a <= MaxAddress
    BY <1>5, RequestedLines, ConstantsAssumption DEF Address
  <2>2. QED
    BY <2>1 DEF LineAt
<1>7. Ahead(memory'.prefetched_line)
  <2>1. memory.i + 1 \in 2 .. PrefetchLines + 1
    BY <1>3
  <2>2. QED
    BY <1>4, <1>5, <1>6, <2>1 DEF Ahead
<1>8. MemoryHandshake'
  BY <1>1, <1>2, <1>4, MemoryPrefetchHandshake
<1>9. MemoryPath'
  BY <1>1, <1>2, <1>3, <1>4 DEF MemoryPath, ThreadMoves
<1>10. MemoryAnswered'
  BY <1>1, <1>2
  DEF MemoryPart, MemoryAnswered, L2Fetches, Answers, L2Index, ThreadMoves
<1>11. LinesAhead'
  BY <1>1, <1>2, <1>4, <1>7 DEF MemoryPart, LinesAhead, Ahead, ThreadMoves
<1>12. QED
  BY <1>1, <1>8, <1>9, <1>10, <1>11 DEF MemoryPart

(* MEMORY puts it into the buffer.                                          *)
LEMMA MemoryPutPart ==
    ASSUME IInv, WriteThrough, MemoryHandshake, DataPath, MemoryPart, MemoryStep,
           MemoryPut
    PROVE  MemoryPart' /\ MemoryHandshake' /\ memory_blocks' = memory_blocks
<1>1. /\ ThreadMoves("MEMORY", "put", "prefetch", 0, 0) /\ Drives({})
      /\ UNCHANGED <<memory_blocks, bus>>
  BY ThreadMovesSuspend DEF MemoryPut, Thread, signalVars, Drives
<1>2. UNCHANGED <<l2, request>> /\ pc'["L2"] = pc["L2"]
  BY MemoryFrame, WritesGoThrough DEF driverVars
<1>3. /\ memory'.i = memory.i + 1 /\ memory'.address_u = memory.address_u
      /\ memory'.write_underway = memory.write_underway
      /\ memory.i \in Nat /\ PrefetchLines \in Nat
  BY NumberTypes DEF MemoryPut, IInv, TypeOK, MemoryTypeOK
<1>4. /\ prefetch.queue \in Seq(PrefetchedLine)
      /\ \/ prefetch'.queue = prefetch.queue
         \/ prefetch'.queue = Append(prefetch.queue, memory.prefetched_line)
  BY DEF MemoryPut, PrefetchWrite, FifoWrite, IInv, TypeOK, PrefetchTypeOK
<1>5. Ahead(memory.prefetched_line)
  BY <1>1 DEF MemoryPart, LinesAhead, ThreadMoves
<1>6. /\ Len(prefetch'.queue) \in Nat
      /\ Len(prefetch'.queue) <= Len(prefetch.queue) + 1
      /\ \A i \in DOMAIN prefetch'.queue : Ahead(prefetch'.queue[i])
  <2>1. \A i \in DOMAIN prefetch.queue : Ahead(prefetch.queue[i])
    BY DEF MemoryPart, LinesAhead
  <2>2. CASE prefetch'.queue = prefetch.queue
    BY <2>1, <2>2, NumberTypes
  <2>3. CASE prefetch'.queue = Append(prefetch.queue, memory.prefetched_line)
    <3>1. memory.prefetched_line \in PrefetchedLine
      BY DEF IInv, TypeOK, MemoryTypeOK
    <3>2. /\ Len(prefetch.queue) \in Nat
          /\ Len(prefetch'.queue) = Len(prefetch.queue) + 1
          /\ DOMAIN prefetch.queue = 1 .. Len(prefetch.queue)
          /\ DOMAIN prefetch'.queue = 1 .. Len(prefetch.queue) + 1
          /\ \A i \in 1 .. Len(prefetch.queue) :
                 prefetch'.queue[i] = prefetch.queue[i]
          /\ prefetch'.queue[Len(prefetch.queue) + 1] = memory.prefetched_line
      BY <1>4, <2>3, <3>1, AppendProperties, LenProperties
    <3>3. QED
      BY SMTT(30), <1>5, <2>1, <3>2
  <2>4. QED
    BY <1>4, <2>2, <2>3
<1>7. MemoryHandshake'
  BY <1>1, <1>2, <1>3, <1>6, MemoryPutHandshake
<1>8. MemoryPath'
  BY <1>1, <1>2, <1>3 DEF MemoryPart, MemoryPath, ThreadMoves
<1>9. MemoryAnswered'
  BY <1>1, <1>2
  DEF MemoryPart, MemoryAnswered, L2Fetches, Answers, L2Index, ThreadMoves
<1>10. LinesAhead'
  BY <1>1, <1>2, <1>6 DEF MemoryPart, LinesAhead, Ahead, ThreadMoves
<1>11. QED
  BY <1>1, <1>7, <1>8, <1>9, <1>10 DEF MemoryPart

(* MEMORY writes the word that the copies are ahead with.                    *)
LEMMA MemoryWriteCoherent ==
    ASSUME IInv, WriteThrough, Serves, CommandStands, MemoryHandshake, DataPath,
           Contents, MemoryStep, MemoryWrite
    PROVE  /\ MemoryHandshake' /\ DataPath' /\ Contents'
           /\ request.we
           /\ memory_blocks' = [memory_blocks EXCEPT
                                   ![request.addr] = request.data]
<1>1. /\ ThreadMoves("MEMORY", "write", "restart", 1, 2)
      /\ Drives({"done_from_Memory"}) /\ flagNext'["done_from_Memory"]
      /\ UNCHANGED <<memory, prefetch, bus>>
  BY ThreadMovesSuspend
  DEF MemoryWrite, Thread, memoryBuffers, Drive, Drives, Flag, IInv, TypeOK,
      KernelTypeOK
<1>2. UNCHANGED <<l1, l2, driverVars, run>> /\ pc'["L2"] = pc["L2"]
      /\ pc'["L1"] = pc["L1"]
  BY MemoryFrame, WritesGoThrough
<1>3. pc["L2"] = "await_write" /\ memory.address_u = request.addr
  BY <1>1
  DEF MemoryHandshake, MemoryCommandUp, DataPath, MemoryPath, ThreadMoves
<1>4. /\ request.we /\ request \in Requests
      /\ bus.data_from_L2_to_Memory = request.data
      /\ pc["L1"] = "await_write"
  BY <1>3, L2Serves DEF DataPath, L2Path, L2Works
<1>5. memory_blocks' = [memory_blocks EXCEPT ![request.addr] = request.data]
  BY <1>3, <1>4 DEF MemoryWrite
<1>6. /\ memory_blocks'[request.addr] = request.data
      /\ \A a \in Requested :
             a # request.addr => memory_blocks'[a] = memory_blocks[a]
  BY <1>4, <1>5, RequestedLines DEF IInv, TypeOK, MemoryTypeOK
<1>7. MemoryHandshake'
  BY <1>1, <1>2, MemoryAnswerHandshake
<1>8. DataPath'
  <2>1. RequestStands' /\ L1Path' /\ L2Path'
    BY MemoryElsewhere, WritesGoThrough DEF DataPath
  <2>2. MemoryPath'
    BY <1>1 DEF MemoryPath, ThreadMoves
  <2>3. QED
    BY <2>1, <2>2 DEF DataPath
<1>9. L1Copies'
  BY <1>2, <1>4, <1>6 DEF Contents, L1Copies, InL1, L1Word, driverVars
<1>10. L2Copies'
  BY <1>2, <1>3, <1>6 DEF Contents, L2Copies, InL2, L2Word, driverVars
<1>11. L2Answered' /\ MemoryAnswered'
  BY <1>2, <1>3, <1>6 DEF L2Answered, MemoryAnswered, L2Fetches, driverVars
<1>12. LinesAhead'
  <2>1. Len(prefetch.queue) = 0
    BY <1>3 DEF MemoryHandshake, Prefetching, L2Fetches
  <2>2. DOMAIN prefetch'.queue = {}
    BY <1>1, <2>1, LenProperties DEF IInv, TypeOK, PrefetchTypeOK
  <2>3. QED
    BY <1>1, <1>2, <1>3, <2>2 DEF LinesAhead, ThreadMoves
<1>13. RequestDone'
  BY <1>2, <1>4 DEF RequestDone
<1>14. QED
  BY <1>4, <1>5, <1>7, <1>8, <1>9, <1>10, <1>11, <1>12, <1>13 DEF Contents

(* Every step of MEMORY keeps the memory coherent.                           *)
LEMMA MemoryCoherent ==
    ASSUME IInv, WriteThrough, Serves, CommandStands, MemoryHandshake, DataPath,
           Contents, MemoryStep
    PROVE  /\ MemoryHandshake' /\ DataPath' /\ Contents'
           /\ \/ memory_blocks' = memory_blocks
              \/ /\ request.we
                 /\ memory_blocks' = [memory_blocks EXCEPT
                                         ![request.addr] = request.data]
<1>1. CASE MemoryWrite
  BY <1>1, MemoryWriteCoherent
<1>2. CASE ~MemoryWrite
  <2>1. MemoryPart
    BY DEF MemoryPart, DataPath, Contents
  <2>2. MemoryPart' /\ MemoryHandshake' /\ memory_blocks' = memory_blocks
    BY <1>2, <2>1, MemoryKinds, WritesGoThrough, MemoryRestsPart,
       MemoryAcceptPart, MemoryReadPart, MemoryPrefetchPart, MemoryPutPart
    DEF MemoryStep
  <2>3. QED
    BY <2>2, MemoryElsewhere, WritesGoThrough DEF MemoryPart, DataPath, Contents
<1>3. QED
  BY <1>1, <1>2

-----------------------------------------------------------------------------
(* The kernel and send_request().                                           *)

(* What the whole system keeps, in the stages it can be in without a         *)
(* store-back buffer.                                                       *)
Coherent ==
    /\ stage \in {"idle", "request", "exhausted", "done"}
    /\ stage \in {"idle", "request"} => MemoryHandshake /\ Contents
    /\ stage = "request" => DataPath
    /\ stage \in {"exhausted", "done"} => run = "stopped" /\ CopiesMatchMemory

(* Steps that leave the modules and their threads alone.                     *)
LEMMA SameContents ==
    ASSUME Contents, RequestDone',
           UNCHANGED <<l1, l2, memory_blocks, memory, bus, pc, request>>,
           prefetch'.queue = prefetch.queue
    PROVE  Contents'
<1>1. L1Copies' /\ L2Copies'
  BY DEF Contents, L1Copies, L2Copies, InL1, L1Word, InL2, L2Word
<1>2. L2Answered' /\ MemoryAnswered'
  BY DEF Contents, L2Answered, MemoryAnswered, L2Fetches, Answers, L2Index
<1>3. LinesAhead'
  BY DEF Contents, LinesAhead, Ahead
<1>4. QED
  BY <1>1, <1>2, <1>3 DEF Contents

(* Likewise; the signals may have been published.                            *)
LEMMA SamePath ==
    ASSUME DataPath, CommandUp, MemoryCommandUp,
           UNCHANGED <<l1, l2, memory, bus, pc, request, stats, addrNext>>,
           \/ UNCHANGED <<flag, flagNext, addr>>
           \/ flag' = flagNext /\ flagNext' = flagNext /\ addr' = addrNext
    PROVE  DataPath'
<1>1. RequestStands'
  BY DEF DataPath, RequestStands
<1>2. L1Path'
  BY DEF DataPath, L1Path, L1Awaits
<1>3. L2Path'
  BY DEF DataPath, L2Path, L2Awaits, L2Works
<1>4. MemoryPath'
  BY DEF DataPath, MemoryPath
<1>5. QED
  BY <1>1, <1>2, <1>3, <1>4 DEF DataPath

(* Threads run only in the loop of send_request().                           *)
LEMMA RunServes ==
    ASSUME Handshake, Coherent, run \in {"cycle", "zero"}
    PROVE  Serves /\ MemoryHandshake /\ DataPath /\ Contents
  BY DEF Coherent, Handshake, Serves

(* Each step of a thread keeps the whole.                                   *)
LEMMA ThreadStepCoherent ==
    ASSUME IInv, WriteThrough, Handshake, CommandStands, Coherent,
           L1Step \/ L2Step \/ MemoryStep
    PROVE  Coherent'
<1>1. Serves /\ MemoryHandshake /\ DataPath /\ Contents
  BY ThreadStepRuns, RunServes
<1>2. MemoryHandshake' /\ DataPath' /\ Contents'
  BY <1>1, L1Coherent, L2Coherent, MemoryCoherent
<1>3. stage = "request" /\ stage' = stage
  BY <1>1 DEF Serves, L1Step, L2Step, MemoryStep, driverVars
<1>4. QED
  BY <1>2, <1>3 DEF Coherent

(* So does the end of a delta cycle.                                        *)
LEMMA DeltaCoherent ==
    ASSUME IInv, Handshake, Coherent, Delta
    PROVE  Coherent'
<1>1. /\ flag' = flagNext /\ flagNext' = flagNext /\ addr' = addrNext
      /\ UNCHANGED <<l1, l2, memory_blocks, memory, bus, pc, addrNext>>
      /\ UNCHANGED driverVars /\ run \in {"cycle", "zero"}
      /\ run = "cycle" => run' = "cycle"
  BY DEF Delta, DeltaCycle, memoryVars
<1>2. /\ Serves /\ MemoryHandshake /\ DataPath /\ Contents
      /\ run = "cycle" /\ stage = "request"
  BY <1>1, RunServes DEF Serves
<1>3. prefetch'.queue = prefetch.queue
  BY DEF Delta, PrefetchUpdate, FifoUpdate, IInv, TypeOK, PrefetchTypeOK
<1>4. RequestDone'
  <2>1. delay'["L1"] = Waiting(1, 0) => delay["L1"] = Waiting(1, 0)
    <3>1. /\ delay \in [Thread -> Delay] /\ "L1" \in Thread
      BY DEF IInv, TypeOK, KernelTypeOK, Thread
    <3>2. /\ delay["L1"].clk = 0 => delay'["L1"].clk = 0
          /\ delay["L1"].clk # 0 => delay'["L1"] = delay["L1"]
      BY <3>1 DEF Delta, DeltaCycle, Delay
    <3>3. QED
      BY <3>2, WaitingFields
  <2>2. QED
    BY <1>1, <1>2, <2>1 DEF Contents, RequestDone, driverVars
<1>5. Contents'
  BY <1>1, <1>2, <1>3, <1>4, SameContents DEF driverVars
<1>6. DataPath'
  BY <1>1, <1>2, SamePath DEF driverVars, Serves, MemoryHandshake
<1>7. MemoryHandshake'
  BY <1>2, DeltaMemory
<1>8. QED
  BY <1>1, <1>2, <1>5, <1>6, <1>7 DEF Coherent, driverVars

(* And the next clock edge.                                                 *)
LEMMA StartCycleCoherent ==
    ASSUME IInv, Handshake, Coherent, StartCycle
    PROVE  Coherent'
<1>1. /\ stage = "request" /\ run = "stopped"
      /\ UNCHANGED <<signalVars, bus, pc, moduleVars, driverVars>>
  BY DEF StartCycle, ClockEdge, Coherent
<1>2. MemoryHandshake /\ DataPath /\ Contents /\ Waits /\ CommandUp
  BY <1>1 DEF Coherent, Handshake
<1>3. RequestDone'
  <2>1. SUFFICES ASSUME pc["L1"] = "restart" PROVE delay'["L1"] # Waiting(1, 0)
    BY <1>1 DEF RequestDone
  <2>2. delay["L1"].clk = 1
    BY <1>1, <1>2, <2>1, WaitingFields DEF Waits, IInv, ThreadsHeld, Thread
  <2>3. delay'["L1"].clk = 0
    <3>1. delay \in [Thread -> Delay] /\ "L1" \in Thread
      BY DEF IInv, TypeOK, KernelTypeOK, Thread
    <3>2. QED
      BY <2>2, <3>1 DEF StartCycle, ClockEdge, Delay
  <2>4. QED
    BY <2>3, WaitingFields
<1>4. Contents'
  BY <1>1, <1>2, <1>3, SameContents DEF moduleVars, driverVars
<1>5. DataPath'
  BY <1>1, <1>2, SamePath
  DEF moduleVars, driverVars, signalVars, MemoryHandshake
<1>6. MemoryHandshake'
  BY <1>1, <1>2, StartCycleMemory
<1>7. QED
  BY <1>1, <1>4, <1>5, <1>6 DEF Coherent, driverVars

(* With nothing asked of L1 nothing is on the way.                           *)
LEMMA NothingUnderWay ==
    ASSUME IInv, CommandUp, MemoryHandshake, pc["L1"] = "restart"
    PROVE  /\ ~L1Awaits /\ ~L2Works /\ ~L2Awaits /\ ~L2Fetches
           /\ pc["L2"] # "install"
           /\ pc["MEMORY"] \notin {"read", "write", "put"}
           /\ pc["MEMORY"] = "prefetch" => memory.i > PrefetchLines
           /\ DOMAIN prefetch.queue = {}
<1>1. ~L1Awaits /\ pc["L2"] \in {"restart", "poll"}
  BY DEF L1Awaits, CommandUp
<1>2. ~L2Works /\ ~L2Awaits /\ ~L2Fetches
  BY <1>1 DEF L2Works, L2Awaits, L2Fetches
<1>3. pc["MEMORY"] \notin {"read", "write"}
  BY <1>1 DEF MemoryHandshake, MemoryCommandUp
<1>4. /\ pc["MEMORY"] # "put"
      /\ pc["MEMORY"] = "prefetch" => memory.i > PrefetchLines
  BY <1>1, <1>2, NumberTypes DEF MemoryHandshake, Prefetching
<1>5. Len(prefetch.queue) = 0
  BY <1>2 DEF MemoryHandshake, Prefetching
<1>6. DOMAIN prefetch.queue = {}
  BY <1>5, LenProperties DEF IInv, TypeOK, PrefetchTypeOK
<1>7. QED
  BY <1>1, <1>2, <1>3, <1>4, <1>6

(* Then only the copies are left to be kept.                                *)
LEMMA ContentsAtRest ==
    ASSUME IInv, CommandUp, MemoryHandshake, pc["L1"] = "restart", Contents,
           UNCHANGED <<l1, l2, memory_blocks, memory, prefetch, pc>>,
           run' # "cycle"
    PROVE  Contents'
<1> USE NothingUnderWay
<1>1. L1Copies' /\ L2Copies'
  BY DEF Contents, L1Copies, L2Copies, InL1, L1Word, InL2, L2Word, L2Awaits
<1>2. L2Answered' /\ MemoryAnswered'
  BY DEF L2Answered, MemoryAnswered, L2Fetches, L2Awaits
<1>3. LinesAhead'
  BY DEF LinesAhead
<1>4. RequestDone'
  BY DEF RequestDone
<1>5. QED
  BY <1>1, <1>2, <1>3, <1>4 DEF Contents

(* A request: the CPU's side stands.                                        *)
LEMMA SendRequestCoherent ==
    ASSUME IInv, Handshake, Coherent, NEW r \in Requests, SendRequest(r)
    PROVE  Coherent'
<1>1. /\ stage = "idle" /\ stage' = "request" /\ request' = r /\ run' = run
      /\ UNCHANGED <<l1, l2, memory_blocks, memory, prefetch, pc, delay>>
      /\ ~stats'.answered
  BY DEF SendRequest, moduleVars, NoStats
<1>2. /\ pc["L1"] = "restart" /\ run = "stopped" /\ flag = flagNext /\ CommandUp
      /\ MemoryHandshake /\ Contents
  BY <1>1 DEF Handshake, Coherent
<1>3. RequestStands'
  BY <1>1
  DEF RequestStands, SendRequest, IInv, TypeOK, KernelTypeOK, Bus, AddressSignal
<1>4. DataPath'
  BY <1>1, <1>2, <1>3, NothingUnderWay, NumberTypes
  DEF DataPath, L1Path, L2Path, MemoryPath, L1Awaits, L2Awaits, L2Works
<1>5. Contents'
  BY <1>1, <1>2, ContentsAtRest
<1>6. MemoryHandshake'
  <2>1. \A s \in {"valid_from_L2_to_Memory", "done_from_Memory"} :
            flag'[s] = flag[s] /\ flagNext'[s] = flagNext[s]
    BY <1>2 DEF SendRequest, AssignNow, IInv, TypeOK, KernelTypeOK, Flag
  <2>2. QED
    BY <1>1, <1>2, <2>1, ElsewhereHandshake
<1>7. QED
  BY <1>1, <1>4, <1>5, <1>6 DEF Coherent

(* The copies are those of memory, but for the word being written.           *)
LEMMA CopiesKept ==
    ASSUME IInv, Handshake, Coherent
    PROVE  CopiesMatchMemory
<1>1. CASE stage = "idle"
  <2>1. pc["L1"] # "await_write" /\ pc["L2"] # "await_write"
    BY <1>1, NothingUnderWay DEF Handshake, Coherent, L2Awaits
  <2>2. QED
    BY <1>1, <2>1
    DEF Coherent, Contents, L1Copies, L2Copies, CopiesMatchMemory
<1>2. CASE stage = "request"
  BY <1>2
  DEF Coherent, Contents, L1Copies, L2Copies, CopiesMatchMemory, Serving
<1>3. QED
  BY <1>1, <1>2 DEF Coherent

(* The simulation stops.                                                    *)
LEMMA StopCoherent ==
    ASSUME IInv, WriteThrough, Handshake, Coherent,
           RequestExhausted \/ Finish \/ FinishWaits \/ Finished
    PROVE  Coherent'
<1>1. ~HasStoreback
  BY ConstantsAssumption DEF WriteThrough, Unbuffered, HasStoreback
<1>2. /\ \/ stage = "request" /\ stage' = "exhausted"
         \/ stage = "idle" /\ stage' = "done"
      /\ UNCHANGED <<l1, l2, memory_blocks, request>> /\ run' = "stopped"
  BY <1>1
  DEF Coherent, Handshake, RequestExhausted, CycleEnds, Finish, FinishWaits,
      Finished, FinishLooks, moduleVars
<1>3. CopiesMatchMemory'
  BY <1>2, CopiesKept
  DEF CopiesMatchMemory, Serving, InL1, InL2, L1Word, L2Word
<1>4. QED
  BY <1>2, <1>3 DEF Coherent

(* A cycle without an answer.                                               *)
LEMMA RequestContinuesCoherent ==
    ASSUME IInv, Handshake, Coherent, RequestContinues
    PROVE  Coherent'
<1>1. /\ stage = "request" /\ stage' = "request" /\ run' = "stopped"
      /\ UNCHANGED <<signalVars, bus, pc, delay, moduleVars, request, stats>>
  BY DEF RequestContinues, CycleEnds
<1>2. MemoryHandshake /\ DataPath /\ Contents /\ CommandUp
  BY <1>1 DEF Coherent, Handshake
<1>3. Contents'
  BY <1>1, <1>2, SameContents DEF moduleVars, RequestDone
<1>4. DataPath'
  BY <1>1, <1>2, SamePath DEF moduleVars, signalVars, MemoryHandshake
<1>5. MemoryHandshake'
  BY <1>1, <1>2, ElsewhereHandshake DEF moduleVars, signalVars
<1>6. QED
  BY <1>1, <1>3, <1>4, <1>5 DEF Coherent

(* The answer of L1 is what memory holds.                                   *)
LEMMA AnsweredContents ==
    ASSUME IInv, Handshake, Coherent, RequestAnswered
    PROVE  /\ request \in Requests /\ ~stats.answered
           /\ IF request.we THEN memory_blocks[request.addr] = request.data
                            ELSE bus.data_out = memory_blocks[request.addr]
<1>1. stage = "request"
  BY DEF RequestAnswered
<1>2. QED
  BY <1>1, AnsweredState
  DEF Coherent, Contents, RequestDone, DataPath, RequestStands

(* It ends the request.                                                     *)
LEMMA RequestAnsweredCoherent ==
    ASSUME IInv, Handshake, Coherent, RequestAnswered
    PROVE  Coherent'
<1>1. /\ stage = "request" /\ stage' = "idle" /\ run' = "stopped"
      /\ UNCHANGED <<l1, l2, memory_blocks, memory, prefetch, pc, delay>>
  BY DEF RequestAnswered, CycleEnds, moduleVars
<1>2. /\ MemoryHandshake /\ Contents /\ CommandUp /\ pc["L1"] = "restart"
      /\ flag = flagNext
  BY <1>1, AnsweredState DEF Coherent, Handshake
<1>3. Contents'
  BY <1>1, <1>2, ContentsAtRest
<1>4. MemoryHandshake'
  <2>1. \A s \in {"valid_from_L2_to_Memory", "done_from_Memory"} :
            flag'[s] = flag[s] /\ flagNext'[s] = flagNext[s]
    BY <1>2 DEF RequestAnswered, AssignNow, IInv, TypeOK, KernelTypeOK, Flag
  <2>2. QED
    BY <1>1, <1>2, <2>1, ElsewhereHandshake
<1>5. QED
  BY <1>1, <1>3, <1>4 DEF Coherent

(* At first the caches are empty and MEMORY and L2 wait for the first edge.  *)
LEMMA InitCoherent == Init => Coherent
<1> SUFFICES ASSUME Init PROVE Coherent
  OBVIOUS
<1>0. IInv
  BY InitIInv
<1>1. /\ flag = [s \in Flag |-> FALSE] /\ flagNext = flag /\ run = "stopped"
      /\ \A t \in Thread : pc[t] = "restart"
      /\ delay["L1"] = Waiting(1, 0) /\ delay["L2"] = Waiting(1, 0)
      /\ delay["MEMORY"] = Waiting(1, 2) /\ stage = "idle"
  BY DEF Init, KernelInit, Thread, Waiting
<1>2. /\ prefetch.queue = <<>> /\ ~memory.write_underway
      /\ \A i \in L1Line : ~l1.valid[i]
      /\ \A i \in L2Line : ~l2.valid[i]
  BY DEF Init, PrefetchInit, EmptyFifo, MemoryInit, L1Init, L2Init
<1>3. MemoryHandshake
  <2> USE <1>1, <1>2, WaitingFields, WaitingDiffers
      DEF L2Awaits, L2Fetches, Answers, MemoryEnds, Flag, Thread
  <2>1. MemoryWaits /\ MemoryReady
    BY DEF MemoryWaits, MemoryReady
  <2>2. MemoryCommandUp /\ MemoryDoneUp
    BY DEF MemoryCommandUp, MemoryDoneUp
  <2>3. Prefetching
    BY EmptySeq DEF Prefetching
  <2>4. QED
    BY <2>1, <2>2, <2>3 DEF MemoryHandshake
<1>4. Contents
  <2>1. \A a \in Requested : /\ Index(a, LineWords, L1Lines) \in L1Line
                             /\ Index(a, LineWords, L2Lines) \in L2Line
    BY IndexType, ConstantsAssumption DEF L1Line, L2Line, Requested, Request
  <2>2. L1Copies /\ L2Copies
    BY <1>2, <2>1 DEF L1Copies, L2Copies, InL1, InL2
  <2>3. L2Answered /\ MemoryAnswered
    BY <1>1 DEF L2Answered, MemoryAnswered, L2Fetches, Thread
  <2>4. LinesAhead
    BY <1>1, <1>2, EmptySeq DEF LinesAhead, Thread
  <2>5. RequestDone
    BY <1>1 DEF RequestDone
  <2>6. QED
    BY <2>2, <2>3, <2>4, <2>5 DEF Contents
<1>5. QED
  BY <1>1, <1>3, <1>4 DEF Coherent

(* The whole.                                                               *)
Whole ==
    IInv /\ Handshake /\ CommandStands /\ CachesRest /\ Coherent

(* Every step keeps it.                                                     *)
LEMMA NextCoherent ==
    ASSUME WriteThrough, Whole, [Next]_vars
    PROVE  Whole'
<1> USE DEF Whole
<1>1. IInv' /\ Handshake' /\ CommandStands' /\ CachesRest'
  BY NextIInv, NextHandshake, NextRest
<1>2. Coherent'
  <2>1. CASE UNCHANGED vars
    <3>1. /\ UNCHANGED <<stage, run, request, stats, l1, l2, memory_blocks>>
          /\ UNCHANGED <<memory, prefetch, bus, pc, delay, flag, flagNext>>
          /\ UNCHANGED <<addr, addrNext>>
      BY <2>1 DEF vars, kernelVars, moduleVars, driverVars
    <3>2. MemoryHandshake => MemoryHandshake'
      BY <3>1, ElsewhereHandshake
    <3>3. Contents => Contents'
      BY <3>1, SameContents DEF Contents, RequestDone
    <3>4. stage = "request" => DataPath'
      BY <3>1, SamePath DEF Handshake, Coherent, MemoryHandshake
    <3>5. CopiesMatchMemory => CopiesMatchMemory'
      BY <3>1 DEF CopiesMatchMemory, Serving, InL1, InL2, L1Word, L2Word
    <3>6. QED
      BY <3>1, <3>2, <3>3, <3>4, <3>5 DEF Coherent
  <2>2. CASE L1Step \/ L2Step \/ MemoryStep
    BY <2>2, ThreadStepCoherent
  <2>3. CASE Delta
    BY <2>3, DeltaCoherent
  <2>4. CASE \E r \in Requests : SendRequest(r)
    BY <2>4, SendRequestCoherent
  <2>5. CASE StartCycle \/ RequestContinues \/ RequestAnswered
    BY <2>5, StartCycleCoherent, RequestContinuesCoherent,
       RequestAnsweredCoherent
  <2>6. CASE RequestExhausted \/ Finish \/ FinishWaits \/ Finished
    BY <2>6, StopCoherent
  <2>7. QED
    BY <2>1, <2>2, <2>3, <2>4, <2>5, <2>6 DEF Next, Driver, Stopped
<1>3. QED
  BY <1>1, <1>2

(* It holds at first.                                                       *)
LEMMA InitWhole == Init => Whole
  BY InitIInv, InitHandshake, InitRest, InitCoherent DEF Whole

(* Every copy of a word that a request can ask for is that of memory,        *)
(* except the one a write is on its way to (cache_l1.hpp and cache_l2.hpp,   *)
(* update(): every write goes through to memory and updates the copies on   *)
(* its way).                                                                *)
THEOREM CopiesCoherent ==
    ASSUME WriteThrough
    PROVE  Spec => []CopiesMatchMemory
<1>1. Init => Whole
  BY InitWhole
<1>2. Whole /\ [Next]_vars => Whole'
  BY NextCoherent
<1>3. Whole => CopiesMatchMemory
  BY CopiesKept DEF Whole
<1>4. QED
  BY <1>1, <1>2, <1>3, PTL DEF Spec

(* What a step of a thread looks like from outside: a write of MEMORY is the *)
(* moment at which the request takes effect.                                *)
LEMMA ThreadStepMaps ==
    ASSUME WriteThrough, Whole, L1Step \/ L2Step \/ MemoryStep
    PROVE  [Memory!Next]_(Memory!vars)
<1>1. Serves /\ MemoryHandshake /\ DataPath /\ Contents
  BY ThreadStepRuns, RunServes DEF Whole
<1>2. UNCHANGED driverVars /\ Serving /\ Serving' = Serving /\ Answer' = Answer
  BY <1>1
  DEF Serves, L1Step, L2Step, MemoryStep, driverVars, Serving, Answer
<1>3. \/ memory_blocks' = memory_blocks
      \/ /\ request.we
         /\ memory_blocks' = [memory_blocks EXCEPT ![request.addr] = request.data]
  BY <1>1, L1Frame, L2Frame, WritesGoThrough, MemoryCoherent DEF Whole
<1>4. QED
  BY <1>2, <1>3 DEF Memory!Next, Memory!Commit, Memory!vars, driverVars

(* The answer of send_request() is that of the one memory.                   *)
LEMMA RequestAnsweredMaps ==
    ASSUME Whole, RequestAnswered
    PROVE  Memory!AnswerWrite \/ Memory!AnswerRead
<1>1. /\ stage = "request" /\ stage' = "idle" /\ request' = NoRequest
      /\ stats'.answered /\ stats'.we = request.we /\ stats'.data = bus.data_out
      /\ memory_blocks' = memory_blocks
  BY DEF RequestAnswered, moduleVars
<1>2. Serving /\ ~Serving'
  BY <1>1 DEF Serving
<1>3. Serving = TRUE /\ Serving' = FALSE
  BY <1>2 DEF Serving
<1>4. request \in Requests /\ request.we \in BOOLEAN /\ ~stats.answered
  BY AnsweredContents, ConstantsAssumption DEF Whole, Request
<1>5. Answer = <<>>
  BY <1>4 DEF Answer
<1>6. CASE request.we
  <2>1. Answer' = <<>> /\ memory_blocks[request.addr] = request.data
    BY <1>1, <1>6, AnsweredContents DEF Answer, Whole
  <2>2. QED
    BY <1>1, <1>3, <1>5, <1>6, <2>1 DEF Memory!AnswerWrite
<1>7. CASE ~request.we
  <2>1. Answer' = <<memory_blocks[request.addr]>>
    BY <1>1, <1>7, AnsweredContents DEF Answer, Whole
  <2>2. QED
    BY <1>1, <1>3, <1>7, <2>1 DEF Memory!AnswerRead
<1>8. QED
  BY <1>4, <1>6, <1>7

(* Every step is one of the one memory, or none.                             *)
LEMMA NextMaps ==
    ASSUME WriteThrough, Whole, [Next]_vars
    PROVE  [Memory!Next]_(Memory!vars)
<1>1. CASE UNCHANGED vars
  BY <1>1
  DEF vars, moduleVars, driverVars, Memory!vars, Serving, Answer
<1>2. CASE L1Step \/ L2Step \/ MemoryStep
  BY <1>2, ThreadStepMaps
<1>3. CASE RequestAnswered
  BY <1>3, RequestAnsweredMaps DEF Memory!Next
<1>4. ASSUME NEW r \in Requests, SendRequest(r)
      PROVE  Memory!Issue(r)
  BY <1>4
  DEF SendRequest, Memory!Issue, Serving, Answer, NoStats, moduleVars
<1>5. CASE Delta \/ StartCycle \/ RequestContinues
  BY <1>5
  DEF Delta, DeltaCycle, StartCycle, RequestContinues, memoryVars, moduleVars,
      driverVars, Memory!vars, Serving, Answer
<1>6. CASE RequestExhausted \/ Finish \/ FinishWaits \/ Finished
  BY <1>6
  DEF RequestExhausted, Finish, FinishWaits, Finished, FinishLooks, moduleVars,
      Memory!vars, Serving, Answer
<1>7. QED
  BY <1>1, <1>2, <1>3, <1>4, <1>5, <1>6
  DEF Next, Driver, Stopped, Memory!Next

(* The two caches and the memory behave as one memory (cache_l1.hpp and      *)
(* cache_l2.hpp, update(): "maintaining cache coherence"): a write takes     *)
(* effect before it is answered, and a read returns what is stored, however  *)
(* often its line was evicted or prefetched in between.                      *)
THEOREM CachesAreOneMemory ==
    ASSUME WriteThrough
    PROVE  Spec => ImplementsCoherentMemory
<1>1. Init => Whole /\ Memory!Init
  <2>1. Init => Memory!Init
    BY DEF Init, MemoryInit, Memory!Init, Serving, Answer, NoStats
  <2>2. QED
    BY <2>1, InitWhole
<1>2. Whole /\ [Next]_vars => Whole'
  BY NextCoherent
<1>3. Whole /\ [Next]_vars => [Memory!Next]_(Memory!vars)
  BY NextMaps
<1>4. QED
  BY <1>1, <1>2, <1>3, PTL DEF Spec, ImplementsCoherentMemory, Memory!Spec

-----------------------------------------------------------------------------
(* While a write is served each cache shows whether it holds the line, and   *)
(* L2 still does in the cycle in which L1 is done.                          *)
HitL1Up == flagNext["hit_from_L1"] <=> InL1(request.addr)
HitL2Up == flagNext["hit_from_L2"] <=> InL2(request.addr)
L2Answering == pc["L2"] = "restart" /\ delay["L2"] = Waiting(1, 0)
WriteDone ==
    /\ pc["L1"] = "restart" /\ delay["L1"] = Waiting(1, 0)
    /\ run = "cycle" /\ request.we

HitsUp ==
    stage = "request" =>
        /\ pc["L1"] = "await_write" => HitL1Up
        /\ pc["L2"] = "await_write" => HitL2Up
        /\ pc["L1"] = "await_write" /\ L2Answering => HitL2Up
        /\ WriteDone => L2Answering /\ HitL1Up /\ HitL2Up

(* L1 looks the line up, and passes the answer of L2 on.                     *)
LEMMA L1StepHits ==
    ASSUME WriteThrough, Whole, HitsUp, L1Step
    PROVE  HitsUp'
<1> USE DEF Thread
<1>1. /\ IInv /\ Serves /\ DataPath /\ MemoryHandshake
      /\ stage = "request"
      /\ pc \in [Thread -> Label] /\ delay \in [Thread -> Delay]
      /\ flagNext \in [Flag -> BOOLEAN]
  BY ThreadStepRuns, RunServes DEF Whole, Serves, IInv, TypeOK, KernelTypeOK
<1>2. /\ UNCHANGED <<l2, request, run, stage, flag>>
      /\ flagNext'["hit_from_L2"] = flagNext["hit_from_L2"]
      /\ pc'["L2"] = pc["L2"] /\ delay'["L2"] = delay["L2"]
  BY <1>1, L1Frame DEF driverVars, Drives, Flag
<1>3. /\ HitL2Up' <=> HitL2Up
      /\ L2Answering' <=> L2Answering
  BY <1>2 DEF HitL2Up, InL2, L2Answering
<1>4. CASE L1Write
  <2>1. /\ ThreadMoves("L1", "access", "await_write", 0, 0)
        /\ flagNext'["hit_from_L1"] = L1Matches
    BY <1>1, <1>4, ThreadMovesSuspend DEF L1Write, L1Propagate, Drive, Flag
  <2>2. request \in Requests /\ l1.address_int = request.addr
    BY <1>1, <2>1 DEF DataPath, RequestStands, L1Path, ThreadMoves
  <2>3. InL1(request.addr)' <=> L1Matches
    <3>1. l1'.valid = l1.valid /\ l1'.tags = l1.tags
      BY <1>1, <1>4 DEF L1Write, IInv, TypeOK, L1TypeOK
    <3>2. InL1(request.addr) <=> L1Matches
      BY <1>1, <2>2, L1Looks
    <3>3. QED
      BY <1>2, <3>1, <3>2 DEF InL1
  <2>4. HitL1Up'
    BY <1>2, <2>1, <2>3 DEF HitL1Up
  <2>5. ~L2Answering
    BY <1>1, <2>1, WaitingFields, WaitingDiffers
    DEF L2Answering, Serves, AnswerUp, L1Awaits, ThreadMoves
  <2>6. QED
    BY <1>1, <1>2, <1>3, <2>1, <2>4, <2>5
    DEF HitsUp, WriteDone, ThreadMoves
<1>5. CASE L1WriteDone
  <2>1. /\ ThreadMoves("L1", "await_write", "restart", 1, 0)
        /\ flag["done_from_L2"] /\ l1' = l1
        /\ flagNext'["hit_from_L1"] = flagNext["hit_from_L1"]
    BY <1>1, <1>5, ThreadMovesSuspend DEF L1WriteDone, L1Complete, Drive, Flag
  <2>2. L2Answering
    BY <1>1, <2>1, WaitingFields, WaitingDiffers
    DEF L2Answering, Serves, AnswerUp, L1Awaits, L2Withdraws, L1AtEdge,
        ThreadMoves
  <2>3. HitL1Up /\ HitL2Up
    BY <1>1, <2>1, <2>2 DEF HitsUp, ThreadMoves
  <2>4. HitL1Up'
    BY <1>2, <2>1, <2>3 DEF HitL1Up, InL1
  <2>5. pc["L2"] # "await_write"
    BY <2>2 DEF L2Answering
  <2>6. QED
    BY <1>2, <1>3, <2>1, <2>2, <2>3, <2>4, <2>5 DEF HitsUp, ThreadMoves
<1>6. CASE L1Restart \/ L1Poll \/ L1ReadHit \/ L1ReadMiss \/ L1Fill
  <2>1. pc'["L1"] # "await_write"
    BY <1>1, <1>6
    DEF L1Restart, L1Poll, L1ReadHit, L1ReadMiss, L1Fill, L1Complete, Suspend
  <2>2. ~WriteDone'
    <3>1. CASE L1Restart \/ L1Poll \/ L1ReadMiss
      BY <1>1, <3>1 DEF L1Restart, L1Poll, L1ReadMiss, Suspend, WriteDone
    <3>2. CASE L1ReadHit \/ L1Fill
      <4>1. ~request.we
        BY <1>1, <3>2 DEF L1ReadHit, L1Fill, Runs, Serves, Sampled
      <4>2. QED
        BY <1>2, <4>1 DEF WriteDone
    <3>3. QED
      BY <1>6, <3>1, <3>2
  <2>3. QED
    BY <1>1, <1>2, <1>3, <2>1, <2>2 DEF HitsUp
<1>7. CASE L1StillWaiting
  <2>1. /\ pc'["L1"] = pc["L1"] /\ pc["L1"] # "restart" /\ l1' = l1
        /\ flagNext' = flagNext
    BY <1>1, <1>7 DEF L1StillWaiting, Runs, Suspend, signalVars
  <2>2. HitL1Up' <=> HitL1Up
    BY <1>2, <2>1 DEF HitL1Up, InL1
  <2>3. QED
    BY <1>1, <1>2, <1>3, <2>1, <2>2 DEF HitsUp, WriteDone
<1>8. QED
  BY <1>4, <1>5, <1>6, <1>7 DEF L1Step, L1Next

(* L2 likewise; it has nothing to do when L1 is done.                        *)
LEMMA L2StepHits ==
    ASSUME WriteThrough, Whole, HitsUp, L2Step
    PROVE  HitsUp'
<1> USE DEF Thread
<1>1. /\ IInv /\ Serves /\ DataPath /\ MemoryHandshake /\ CommandStands
      /\ stage = "request"
      /\ pc \in [Thread -> Label] /\ delay \in [Thread -> Delay]
      /\ flagNext \in [Flag -> BOOLEAN]
  BY ThreadStepRuns, RunServes DEF Whole, Serves, IInv, TypeOK, KernelTypeOK
<1>2. /\ UNCHANGED <<l1, request, run, stage, flag>>
      /\ flagNext'["hit_from_L1"] = flagNext["hit_from_L1"]
      /\ pc'["L1"] = pc["L1"] /\ delay'["L1"] = delay["L1"]
  BY <1>1, L2Frame, WritesGoThrough DEF driverVars, Drives, Flag
<1>3. HitL1Up' <=> HitL1Up
  BY <1>2 DEF HitL1Up, InL1
<1>4. delay["L2"] = Waiting(0, 0)
  BY <1>1, L2Kinds, WritesGoThrough, WaitingFields
  DEF L2Step, L2Restart, L2Poll, L2Write, L2ReadHit, L2ReadMiss,
      L2StillWaiting, L2WriteDone, L2Issue, L2Fill, L2PrefetchTake,
      L2PrefetchEmpty, L2Install, Runs
<1>5. ~WriteDone /\ ~WriteDone'
  <2>1. ~L2Answering
    BY <1>4, WaitingDiffers DEF L2Answering
  <2>2. QED
    BY <1>1, <1>2, <2>1 DEF HitsUp, WriteDone
<1>6. CASE L2Write
  <2>1. /\ ThreadMoves("L2", "access", "await_write", 0, 0)
        /\ flagNext'["hit_from_L2"] = L2Matches
        /\ l2'.valid = l2.valid /\ l2'.tags = l2.tags
    BY <1>1, <1>6, L2Kinds, WritesGoThrough, ThreadMovesSuspend
    DEF L2Write, Drive, Flag, L2Step, IInv, TypeOK, L2TypeOK
  <2>2. request \in Requests /\ l2.address_int = request.addr
    BY <1>1, <2>1, L2Serves DEF DataPath, L2Works, ThreadMoves
  <2>3. InL2(request.addr)' <=> L2Matches
    <3>1. InL2(request.addr) <=> L2Matches
      BY <1>1, <2>2, L2Looks
    <3>2. QED
      BY <1>2, <2>1, <3>1 DEF InL2
  <2>4. HitL2Up'
    BY <1>2, <2>1, <2>3 DEF HitL2Up
  <2>5. QED
    BY <1>1, <1>2, <1>3, <1>5, <2>1, <2>4
    DEF HitsUp, L2Answering, ThreadMoves
<1>7. CASE L2WriteDone
  <2>1. /\ pc["L2"] = "await_write" /\ pc'["L2"] = "restart" /\ l2' = l2
        /\ flagNext'["hit_from_L2"] = flagNext["hit_from_L2"]
    BY <1>1, <1>7
    DEF L2WriteDone, L2Complete, Withdrawn, Drive, Flag, Runs, Suspend
  <2>2. HitL2Up'
    BY <1>1, <1>2, <2>1 DEF HitsUp, HitL2Up, InL2
  <2>3. QED
    BY <1>1, <1>2, <1>3, <1>5, <2>1, <2>2 DEF HitsUp
<1>8. CASE L2StillWaiting /\ ~Runs("L2", "flush")
  <2>1. /\ pc'["L2"] = pc["L2"] /\ pc["L2"] # "restart" /\ l2' = l2
        /\ flagNext' = flagNext
    BY <1>1, <1>8 DEF L2StillWaiting, Runs, Suspend, signalVars
  <2>2. HitL2Up' <=> HitL2Up
    BY <1>2, <2>1 DEF HitL2Up, InL2
  <2>3. QED
    BY <1>1, <1>2, <1>3, <1>5, <2>1, <2>2 DEF HitsUp, L2Answering
<1>9. CASE L2Restart \/ L2Poll \/ L2ReadMiss \/ L2Issue \/ L2PrefetchTake
           \/ L2PrefetchEmpty
  <2>1. pc'["L2"] \notin {"await_write", "restart"}
    BY <1>1, <1>9
    DEF L2Restart, L2Poll, L2ReadMiss, L2Issue, L2PrefetchTake,
        L2PrefetchEmpty, Suspend
  <2>2. QED
    BY <1>1, <1>2, <1>3, <1>5, <2>1 DEF HitsUp, L2Answering
<1>10. CASE L2ReadHit \/ L2Fill \/ L2Install
  <2>1. /\ L2Works /\ pc["L2"] # "await_write" /\ pc'["L2"] # "await_write"
        /\ ~request.we
    <3>1. /\ pc["L2"] \in {"access", "await_read", "install"}
          /\ pc["L2"] = "access" => ~flag["write_enable_from_L1_to_L2"]
          /\ pc'["L2"] # "await_write"
      BY <1>1, <1>10
      DEF L2ReadHit, L2Fill, L2Install, L2Answer, L2Complete, Runs, Suspend
    <3>2. QED
      BY <1>1, <3>1, L2Serves DEF L2Works, DataPath, L2Path
  <2>2. pc["L1"] = "await_read"
    BY <1>1, <2>1, L2Serves DEF DataPath
  <2>3. QED
    BY <1>1, <1>2, <1>5, <2>1, <2>2 DEF HitsUp
<1>11. QED
  BY <1>1, <1>6, <1>7, <1>8, <1>9, <1>10, L2Kinds, WritesGoThrough DEF L2Step

(* Every step keeps what the caches show.                                   *)
LEMMA NextHits ==
    ASSUME WriteThrough, Whole, HitsUp, [Next]_vars
    PROVE  HitsUp'
<1> USE DEF Thread
<1>1. /\ IInv /\ Handshake /\ delay \in [Thread -> Delay]
      /\ pc \in [Thread -> Label]
  BY DEF Whole, IInv, TypeOK, KernelTypeOK
<1>2. ASSUME UNCHANGED <<l1, l2, stage, request, run, flagNext, pc>>,
             delay'["L1"] = Waiting(1, 0) => delay["L1"] = Waiting(1, 0),
             delay'["L2"] = Waiting(1, 0) <=> delay["L2"] = Waiting(1, 0)
      PROVE  HitsUp'
  BY <1>2
  DEF HitsUp, HitL1Up, HitL2Up, InL1, InL2, L2Answering, WriteDone
<1>3. CASE L1Step \/ L2Step
  BY <1>3, L1StepHits, L2StepHits
<1>4. CASE MemoryStep
  <2>1. MemoryHandshake
    BY <1>4, ThreadStepRuns, RunServes DEF Whole
  <2>2. /\ UNCHANGED <<l1, l2, stage, request, run>>
        /\ \A s \in {"hit_from_L1", "hit_from_L2"} : flagNext'[s] = flagNext[s]
        /\ \A t \in {"L1", "L2"} : pc'[t] = pc[t] /\ delay'[t] = delay[t]
    BY <1>1, <1>4, <2>1, MemoryFrame, WritesGoThrough DEF driverVars, Drives, Flag
  <2>3. QED
    BY <2>2
    DEF HitsUp, HitL1Up, HitL2Up, InL1, InL2, L2Answering, WriteDone
<1>5. CASE Delta
  <2>1. UNCHANGED <<l1, l2, stage, request, flagNext, pc>> /\ run' = run
    BY <1>1, <1>5, RunServes
    DEF Delta, DeltaCycle, driverVars, Whole, Serves
  <2>2. \A t \in Thread : delay'[t] = Waiting(1, 0) <=> delay[t] = Waiting(1, 0)
    <3>1. \A t \in Thread :
            /\ delay[t].clk # 0 => delay'[t] = delay[t]
            /\ delay[t].clk = 0 => delay'[t].clk = 0
      BY <1>1, <1>5 DEF Delta, DeltaCycle, Delay
    <3>2. QED
      BY <3>1, WaitingFields
  <2>3. QED
    BY <1>2, <2>1, <2>2
<1>6. CASE StartCycle
  <2>1. /\ UNCHANGED <<l1, l2, stage, request, flagNext, pc>>
        /\ stage = "request" /\ run = "stopped"
    BY <1>6
    DEF StartCycle, ClockEdge, moduleVars, driverVars, signalVars, Whole,
        Coherent
  <2>2. \A t \in {"L1", "L2"} :
            pc[t] = "restart" => delay'[t] # Waiting(1, 0)
    <3>1. \A t \in {"L1", "L2"} : pc[t] = "restart" => delay[t].clk = 1
      BY <1>1, <2>1, WaitingFields DEF Handshake, Waits, IInv, ThreadsHeld
    <3>2. \A t \in Thread : delay'[t].clk = delay[t].clk - 1
      BY <1>1, <1>6 DEF StartCycle, ClockEdge, Delay
    <3>3. QED
      BY <3>1, <3>2, WaitingFields
  <2>3. QED
    BY <2>1, <2>2
    DEF HitsUp, HitL1Up, HitL2Up, InL1, InL2, L2Answering, WriteDone
<1>7. ASSUME NEW r \in Requests, SendRequest(r)
      PROVE  HitsUp'
  <2>1. /\ pc["L1"] = "restart" /\ ~L1Awaits /\ run' = "stopped" /\ pc' = pc
        /\ pc["L2"] \in {"restart", "poll"}
    BY <1>1, <1>7 DEF SendRequest, Handshake, CommandUp, L1Awaits
  <2>2. QED
    BY <2>1 DEF HitsUp, WriteDone
<1>8. CASE RequestContinues
  <2>1. /\ UNCHANGED <<l1, l2, stage, request, flagNext, pc, delay>>
        /\ run' = "stopped"
    BY <1>8 DEF RequestContinues, CycleEnds, moduleVars, signalVars
  <2>2. QED
    BY <2>1
    DEF HitsUp, HitL1Up, HitL2Up, InL1, InL2, L2Answering, WriteDone
<1>9. CASE RequestExhausted \/ RequestAnswered \/ Finish \/ FinishWaits
           \/ Finished
  <2>1. stage' # "request"
    BY <1>9
    DEF RequestExhausted, RequestAnswered, Finish, FinishWaits, Finished
  <2>2. QED
    BY <2>1 DEF HitsUp
<1>10. CASE UNCHANGED vars
  BY <1>2, <1>10 DEF vars, kernelVars, moduleVars, driverVars
<1>11. QED
  BY <1>3, <1>4, <1>5, <1>6, <1>7, <1>8, <1>9, <1>10
  DEF Next, Driver, Stopped

(* The hits reported of a write, sampled when send_request() sees it done,   *)
(* are those of the lines that the caches then hold (simulator.cpp,          *)
(* send_request(): "Cases for cycles"), although a write also passes through *)
(* a cache that holds the line.                                             *)
THEOREM HitsOfWrites ==
    ASSUME WriteThrough
    PROVE  Spec => HitsTruthful
<1>1. Init => Whole /\ HitsUp
  <2>1. Init => HitsUp
    BY DEF Init, HitsUp
  <2>2. QED
    BY <2>1, InitWhole
<1>2. Whole /\ HitsUp /\ [Next]_vars => (Whole /\ HitsUp)'
  BY NextCoherent, NextHits
<1>3. Whole /\ HitsUp /\ [Next]_vars =>
        [stage = "request" /\ stage' = "idle" /\ request.we =>
             /\ stats'.hit_L1 <=> InL1(request.addr)
             /\ stats'.hit_L2 <=> InL2(request.addr)]_vars
  <2> SUFFICES ASSUME Whole, HitsUp, Next, stage = "request",
                      stage' = "idle", request.we
               PROVE  /\ stats'.hit_L1 <=> InL1(request.addr)
                      /\ stats'.hit_L2 <=> InL2(request.addr)
    OBVIOUS
  <2>1. RequestAnswered
    BY DEF Next, L1Step, L2Step, MemoryStep, Delta, driverVars, Driver,
           SendRequest, StartCycle, RequestExhausted, RequestContinues,
           Finish, FinishWaits, Finished, Stopped
  <2>2. /\ stats'.hit_L1 = flag["hit_from_L1"]
        /\ stats'.hit_L2 = flag["hit_from_L2"]
    BY <2>1 DEF RequestAnswered
  <2>3. flag = flagNext /\ WriteDone
    BY <2>1, AnsweredState DEF WriteDone, Whole
  <2>4. QED
    BY <2>2, <2>3 DEF HitsUp, HitL1Up, HitL2Up
<1>4. QED
  BY <1>1, <1>2, <1>3, PTL DEF Spec, HitsTruthful

-----------------------------------------------------------------------------
(* Writes, for lines of every size and with every prefetching: a read may    *)
(* return what is stale, but without a store-back buffer each write is in    *)
(* memory before it is answered.                                            *)
Written == memory_blocks[request.addr] = request.data
WriteAnswered ==
    /\ pc["L1"] = "await_write" /\ pc["L2"] = "restart" => Written
    /\ pc["L2"] = "await_write" /\ pc["MEMORY"] = "restart" => Written
    /\ stage = "request" /\ run = "cycle" /\ pc["L1"] = "restart"
       /\ delay["L1"] = Waiting(1, 0) /\ request.we => Written

(* What a step of L1 keeps of the others.                                   *)
LEMMA L1Apart ==
    ASSUME IInv, MemoryHandshake, DataPath, L1Step
    PROVE  /\ MemoryHandshake' /\ RequestStands' /\ L2Path' /\ MemoryPath'
           /\ UNCHANGED <<memory_blocks, request, stage, run, flag, addr>>
           /\ pc'["L2"] = pc["L2"] /\ pc'["MEMORY"] = pc["MEMORY"]
<1> USE L1Frame DEF Drives, Flag, driverVars
<1>1. MemoryHandshake'
  BY ElsewhereHandshake
<1>2. L2Path' /\ MemoryPath'
  BY DEF DataPath, L2Path, MemoryPath, L2Works, L2Awaits
<1>3. RequestStands'
  BY DEF DataPath, RequestStands
<1>4. QED
  BY <1>1, <1>2, <1>3

(* L1 waits.                                                                *)
LEMMA L1WaitsWrites ==
    ASSUME IInv, Serves, MemoryHandshake, DataPath, WriteAnswered, L1Step,
           L1Restart \/ L1Poll \/ L1StillWaiting
    PROVE  L1Path' /\ WriteAnswered'
<1>1. \/ ThreadMoves("L1", "restart", "poll", 0, 2) /\ l1' = l1
      \/ ThreadMoves("L1", "poll", "poll", 1, 0) /\ l1' = l1
      \/ /\ ThreadMoves("L1", "poll", "access", L1Latency, 0)
         /\ l1' = [l1 EXCEPT !.address_int = addr["address"]]
      \/ ThreadMoves("L1", "await_write", "await_write", 1, 6) /\ l1' = l1
      \/ ThreadMoves("L1", "await_read", "await_read", 1, 6) /\ l1' = l1
  BY ThreadMovesSuspend DEF L1Restart, L1Poll, L1StillWaiting, Thread
<1>2. /\ bus' = bus /\ addrNext' = addrNext
      /\ \A s \in {"write_enable_from_L1_to_L2", "valid_from_L1_to_L2"} :
             flagNext'[s] = flagNext[s]
  BY DEF L1Restart, L1Poll, L1StillWaiting, signalVars, Drive, IInv, TypeOK,
         KernelTypeOK, Flag
<1>3. /\ pc'["L1"] = "access" => l1'.address_int = addr["address"]
      /\ pc'["L1"] # "access" => l1'.address_int = l1.address_int
  BY <1>1 DEF IInv, TypeOK, L1TypeOK, ThreadMoves
<1>4. addr["address"] = request.addr /\ L1Path
  BY DEF DataPath, RequestStands
<1>5. L1Path'
  BY <1>1, <1>2, <1>3, <1>4, L1Apart DEF L1Path, L1Awaits, ThreadMoves
<1>6. WriteAnswered'
  BY <1>1, L1Apart DEF WriteAnswered, Written, ThreadMoves
<1>7. QED
  BY <1>5, <1>6

(* L1 passes the request on.                                                *)
LEMMA L1PropagatesWrites ==
    ASSUME IInv, Serves, MemoryHandshake, DataPath, WriteAnswered, L1Step,
           L1Write \/ L1ReadMiss
    PROVE  L1Path' /\ WriteAnswered'
<1>1. \/ /\ ThreadMoves("L1", "access", "await_write", 0, 0)
         /\ flag["write_enable"] /\ bus'.data_from_L1_to_L2 = bus.data_in
      \/ /\ ThreadMoves("L1", "access", "await_read", 0, 0)
         /\ ~flag["write_enable"]
  BY ThreadMovesSuspend
  DEF L1Write, L1ReadMiss, Thread, IInv, TypeOK, KernelTypeOK, Bus
<1>2. /\ addrNext'["address_from_L1_to_L2"] = addr["address"]
      /\ flagNext'["write_enable_from_L1_to_L2"] = flag["write_enable"]
      /\ l1'.address_int = l1.address_int
  <2>1. PICK hit : L1Propagate(hit)
    BY DEF L1Write, L1ReadMiss
  <2>2. l1'.address_int = l1.address_int
    BY DEF L1Write, L1ReadMiss, IInv, TypeOK, L1TypeOK
  <2>3. QED
    BY <2>1, <2>2
    DEF L1Propagate, Drive, DriveAddress, IInv, TypeOK, KernelTypeOK, Flag,
        AddressSignal
<1>3. /\ l1.address_int = request.addr /\ addr["address"] = request.addr
      /\ bus.data_in = request.data /\ flag["write_enable"] = request.we
  BY <1>1 DEF DataPath, L1Path, RequestStands, Serves, Sampled, ThreadMoves
<1>4. /\ pc["L2"] = "poll" /\ ~flag["valid_from_L1_to_L2"]
  BY <1>1 DEF Serves, AnswerUp, L2Withdraws, L1AtEdge, CommandUp, ThreadMoves,
              L1Awaits
<1>5. L1Path'
  BY <1>1, <1>2, <1>3, <1>4, L1Apart DEF L1Path, L1Awaits, ThreadMoves
<1>6. WriteAnswered'
  BY <1>1, <1>4, L1Apart DEF WriteAnswered, ThreadMoves
<1>7. QED
  BY <1>5, <1>6

(* L1 is done; if the request is a write, L2 has answered.                   *)
LEMMA L1EndsWrites ==
    ASSUME IInv, Serves, MemoryHandshake, DataPath, WriteAnswered, L1Step,
           L1ReadHit \/ L1WriteDone \/ L1Fill
    PROVE  L1Path' /\ WriteAnswered'
<1>1. \/ ThreadMoves("L1", "access", "restart", 1, 0) /\ ~flag["write_enable"]
      \/ ThreadMoves("L1", "await_write", "restart", 1, 0) /\ flag["done_from_L2"]
      \/ ThreadMoves("L1", "await_read", "restart", 1, 0)
  BY ThreadMovesSuspend DEF L1ReadHit, L1WriteDone, L1Fill, L1Complete, Thread
<1>2. request.we => Written
  <2>1. SUFFICES ASSUME request.we PROVE Written
    OBVIOUS
  <2>2. pc["L1"] = "await_write" /\ flag["done_from_L2"]
    BY <1>1, <2>1 DEF Serves, Sampled, ThreadMoves
  <2>3. delay["L1"] = Waiting(0, 0)
    BY <1>1 DEF ThreadMoves
  <2>4. pc["L2"] = "restart"
    BY <2>2, <2>3, WaitingFields, WaitingDiffers
    DEF Serves, AnswerUp, L2Withdraws, L1AtEdge, Flag
  <2>5. QED
    BY <2>2, <2>4 DEF WriteAnswered
<1>3. L1Path'
  BY <1>1 DEF L1Path, L1Awaits, ThreadMoves
<1>4. WriteAnswered'
  BY <1>1, <1>2, L1Apart DEF WriteAnswered, Written, ThreadMoves
<1>5. QED
  BY <1>3, <1>4

(* Every step of L1.                                                        *)
LEMMA L1Writes ==
    ASSUME IInv, Serves, MemoryHandshake, DataPath, WriteAnswered, L1Step
    PROVE  /\ MemoryHandshake' /\ DataPath' /\ WriteAnswered'
           /\ memory_blocks' = memory_blocks
<1>1. L1Path' /\ WriteAnswered'
  BY L1WaitsWrites, L1PropagatesWrites, L1EndsWrites DEF L1Step, L1Next
<1>2. QED
  BY <1>1, L1Apart DEF DataPath

(* What a step of L2 keeps of the others.                                   *)
LEMMA L2Apart ==
    ASSUME IInv, Unbuffered, MemoryHandshake, DataPath, L2Step
    PROVE  /\ RequestStands' /\ L1Path' /\ MemoryPath'
           /\ UNCHANGED <<memory_blocks, memory, request, stage, run, flag, addr>>
           /\ pc'["L1"] = pc["L1"] /\ delay'["L1"] = delay["L1"]
           /\ pc'["MEMORY"] = pc["MEMORY"]
<1> USE L2Frame DEF Drives, Flag, driverVars
<1>1. RequestStands'
  BY DEF DataPath, RequestStands
<1>2. L1Path' /\ MemoryPath'
  BY DEF DataPath, L1Path, MemoryPath, L1Awaits
<1>3. QED
  BY <1>1, <1>2

(* L2 waits, or misses.                                                     *)
LEMMA L2WaitsWrites ==
    ASSUME IInv, Unbuffered, Serves, CommandStands, MemoryHandshake, DataPath,
           WriteAnswered, L2Step,
           \/ L2Restart \/ L2Poll \/ L2ReadMiss
           \/ (L2StillWaiting /\ ~Runs("L2", "flush")) \/ L2PrefetchEmpty
    PROVE  MemoryHandshake' /\ L2Path' /\ WriteAnswered'
<1>0. ~HasStoreback
  BY L2Kinds DEF L2Step
<1>1. /\ \/ /\ ThreadMoves("L2", "restart", "poll", 0, 2) /\ l2' = l2
            /\ Drives({"done_from_L2", "hit_from_L2"})
         \/ /\ ThreadMoves("L2", "poll", "poll", 1, 1) /\ l2' = l2
            /\ Drives({})
         \/ /\ ThreadMoves("L2", "poll", "access", L2Latency, 0) /\ Drives({})
            /\ l2' = [l2 EXCEPT !.address_int = addr["address_from_L1_to_L2"]]
            /\ flag["valid_from_L1_to_L2"]
         \/ /\ ThreadMoves("L2", "access", "issue", 0, 0) /\ l2' = l2
            /\ Drives({}) /\ ~flag["write_enable_from_L1_to_L2"]
         \/ /\ ThreadMoves("L2", "await_write", "await_write", 1, 2)
            /\ l2' = l2 /\ Drives({}) /\ ~flag["done_from_Memory"]
         \/ /\ ThreadMoves("L2", "await_read", "await_read", 1, 2)
            /\ l2' = l2 /\ Drives({}) /\ ~flag["done_from_Memory"]
         \/ /\ ThreadMoves("L2", "prefetch", "prefetch", 1, 3)
            /\ l2' = l2 /\ Drives({})
      /\ UNCHANGED <<bus, prefetch, addrNext>>
  <2>1. CASE L2Restart
    BY <2>1, ThreadMovesSuspend
    DEF L2Restart, Thread, bufferVars, Drive, Drives, Flag, IInv, TypeOK,
        KernelTypeOK
  <2>2. CASE L2Poll
    BY <2>2, ThreadMovesSuspend
    DEF L2Poll, Thread, bufferVars, signalVars, Drives
  <2>3. CASE L2ReadMiss
    BY <1>0, <2>3, ThreadMovesSuspend
    DEF L2ReadMiss, Thread, bufferVars, signalVars, Drives
  <2>4. CASE L2StillWaiting /\ ~Runs("L2", "flush")
    BY <2>4, ThreadMovesSuspend
    DEF L2StillWaiting, Thread, bufferVars, signalVars, Drives
  <2>5. CASE L2PrefetchEmpty
    BY <2>5, ThreadMovesSuspend
    DEF L2PrefetchEmpty, Thread, bufferVars, signalVars, Drives
  <2>6. QED
    BY <2>1, <2>2, <2>3, <2>4, <2>5
<1>2. /\ l2'.i = l2.i
      /\ pc["L2"] # "poll" => l2'.address_int = l2.address_int
      /\ pc'["L2"] = "access" => l2'.address_int = addr["address_from_L1_to_L2"]
  BY <1>1 DEF IInv, TypeOK, L2TypeOK, ThreadMoves
<1>3. flagNext'["write_enable_from_L2_to_Memory"]
          = flagNext["write_enable_from_L2_to_Memory"]
  BY <1>1 DEF Drives, Flag
<1>4. pc'["L2"] = "access" => addr["address_from_L1_to_L2"] = request.addr
  <2>1. SUFFICES ASSUME pc'["L2"] = "access"
                 PROVE  addr["address_from_L1_to_L2"] = request.addr
    OBVIOUS
  <2>2. pc["L2"] = "poll" /\ flag["valid_from_L1_to_L2"]
    BY <1>1, <2>1 DEF ThreadMoves
  <2>3. L1Awaits
    BY <2>2 DEF Serves, CommandUp
  <2>4. QED
    BY <2>2, <2>3 DEF DataPath, L1Path
<1>5. pc'["L2"] = "issue" => ~request.we
  <2>1. pc'["L2"] = "issue" =>
            L2Works /\ ~flag["write_enable_from_L1_to_L2"]
    BY <1>1 DEF ThreadMoves, L2Works
  <2>2. QED
    BY <2>1, L2Serves DEF DataPath
<1>6. MemoryHandshake'
  BY <1>1, <1>2, L2Apart, L2StartHandshake, L2WaitHandshake, L2FetchHandshake
<1>7. L2Path'
  BY <1>1, <1>2, <1>3, <1>4, <1>5, L2Apart
  DEF DataPath, L2Path, L2Works, L2Awaits, ThreadMoves
<1>8. WriteAnswered'
  BY <1>1, L2Apart DEF WriteAnswered, Written, ThreadMoves
<1>9. QED
  BY <1>6, <1>7, <1>8

(* L2 gives MEMORY a command.                                               *)
LEMMA L2CommandWrites ==
    ASSUME IInv, Unbuffered, Serves, CommandStands, MemoryHandshake, DataPath,
           WriteAnswered, L2Step, L2Write \/ L2Issue
    PROVE  MemoryHandshake' /\ L2Path' /\ WriteAnswered'
<1>0. ~HasStoreback
  BY L2Kinds DEF L2Step
<1>1. /\ \/ /\ ThreadMoves("L2", "access", "await_write", 0, 0)
            /\ flag["write_enable_from_L1_to_L2"]
            /\ bus'.data_from_L2_to_Memory = bus.data_from_L1_to_L2
         \/ ThreadMoves("L2", "issue", "await_read", 0, 0)
      /\ prefetch' = prefetch
  <2>1. CASE L2Write
    BY <1>0, <2>1, ThreadMovesSuspend
    DEF L2Write, Thread, bufferVars, IInv, TypeOK, KernelTypeOK, Bus
  <2>2. CASE L2Issue
    BY <2>2, ThreadMovesSuspend DEF L2Issue, Thread, bufferVars
  <2>3. QED
    BY <2>1, <2>2
<1>2. /\ addrNext'["address_from_L2_to_Memory"] = addr["address_from_L1_to_L2"]
      /\ flagNext'["write_enable_from_L2_to_Memory"]
           = flag["write_enable_from_L1_to_L2"]
      /\ flagNext'["valid_from_L2_to_Memory"]
      /\ Drives({"hit_from_L2", "valid_from_L2_to_Memory",
                 "write_enable_from_L2_to_Memory"})
      /\ l2'.i = l2.i /\ l2'.address_int = l2.address_int
  BY DEF L2Write, L2Issue, Drive, Drives, DriveAddress, IInv, TypeOK,
         KernelTypeOK, L2TypeOK, Flag, AddressSignal
<1>3. /\ request.we \in BOOLEAN /\ l2.address_int = request.addr
      /\ addr["address_from_L1_to_L2"] = request.addr
      /\ flag["write_enable_from_L1_to_L2"] = request.we
      /\ request.we => bus.data_from_L1_to_L2 = request.data
  BY <1>1, L2Serves DEF DataPath, L2Works, ThreadMoves
<1>4. pc["L2"] = "issue" => ~request.we
  BY DEF DataPath, L2Path
<1>5. pc["MEMORY"] = "poll" /\ ~flag["valid_from_L2_to_Memory"]
  BY <1>1, WaitingFields
  DEF MemoryHandshake, MemoryReady, MemoryCommandUp, ThreadMoves, L2Awaits
<1>6. MemoryHandshake'
  BY <1>1, <1>2, L2Apart, L2CommandHandshake
<1>7. L2Path'
  BY <1>1, <1>2, <1>3, <1>4, <1>5, L2Apart
  DEF L2Path, ThreadMoves, L2Works, L2Awaits
<1>8. WriteAnswered'
  BY <1>1, <1>5, L2Apart DEF WriteAnswered, Written, ThreadMoves
<1>9. QED
  BY <1>6, <1>7, <1>8

(* L2 answers L1 from the cache, or after MEMORY has.                        *)
LEMMA L2AnswersWrites ==
    ASSUME IInv, Unbuffered, Serves, CommandStands, MemoryHandshake, DataPath,
           WriteAnswered, L2Step, L2ReadHit \/ L2WriteDone
    PROVE  MemoryHandshake' /\ L2Path' /\ WriteAnswered'
<1>1. /\ \/ /\ ThreadMoves("L2", "access", "restart", 1, 0)
            /\ ~flag["write_enable_from_L1_to_L2"]
            /\ Drives({"done_from_L2", "hit_from_L2"})
         \/ /\ ThreadMoves("L2", "await_write", "restart", 1, 0)
            /\ flag["done_from_Memory"]
            /\ Drives({"done_from_L2", "valid_from_L2_to_Memory"})
            /\ ~flagNext'["valid_from_L2_to_Memory"]
      /\ l2' = l2 /\ prefetch' = prefetch
  BY ThreadMovesSuspend
  DEF L2ReadHit, L2WriteDone, L2Complete, Withdrawn, Thread, bufferVars, Drive,
      Drives, Flag, IInv, TypeOK, KernelTypeOK
<1>2. /\ request.we \in BOOLEAN
      /\ flag["write_enable_from_L1_to_L2"] = request.we
      /\ pc["L1"] = IF request.we THEN "await_write" ELSE "await_read"
  BY <1>1, L2Serves DEF DataPath, L2Works, ThreadMoves
<1>3. request.we => Written
  <2>1. SUFFICES ASSUME request.we PROVE Written
    OBVIOUS
  <2>2. /\ pc["L2"] = "await_write" /\ flag["done_from_Memory"]
        /\ delay["L2"] = Waiting(0, 0)
    BY <1>1, <1>2, <2>1 DEF ThreadMoves
  <2>3. pc["MEMORY"] = "restart"
    BY <2>2, WaitingFields, WaitingDiffers
    DEF MemoryHandshake, MemoryDoneUp, Answers, L2Awaits, Flag
  <2>4. QED
    BY <2>2, <2>3 DEF WriteAnswered
<1>4. MemoryHandshake'
  BY <1>1, L2Apart, L2StartHandshake, L2AnsweredHandshake
<1>5. L2Path'
  BY <1>1 DEF L2Path, ThreadMoves, L2Works, L2Awaits
<1>6. WriteAnswered'
  BY <1>1, <1>2, <1>3, L2Apart DEF WriteAnswered, Written, ThreadMoves
<1>7. QED
  BY <1>4, <1>5, <1>6

(* L2 receives the line of a read miss.                                     *)
LEMMA L2FillWrites ==
    ASSUME IInv, Unbuffered, Serves, CommandStands, MemoryHandshake, DataPath,
           WriteAnswered, L2Step, L2Fill
    PROVE  MemoryHandshake' /\ L2Path' /\ WriteAnswered'
<1>1. /\ \/ ThreadMoves("L2", "await_read", "restart", 1, 0) /\ PrefetchLines = 0
         \/ ThreadMoves("L2", "await_read", "prefetch", 0, 1) /\ PrefetchLines > 0
      /\ flag["done_from_Memory"] /\ prefetch' = prefetch
      /\ Drives({"done_from_L2", "valid_from_L2_to_Memory"})
      /\ ~flagNext'["valid_from_L2_to_Memory"]
  <2>1. /\ flag["done_from_Memory"] /\ prefetch' = prefetch
        /\ PrefetchLines \in Nat
    BY ConstantsAssumption DEF L2Fill, bufferVars
  <2>2. CASE HasPrefetch
    BY <2>1, <2>2, ThreadMovesSuspend
    DEF L2Fill, Thread, Withdrawn, Drive, Drives, Flag, HasPrefetch, IInv,
        TypeOK, KernelTypeOK
  <2>3. CASE ~HasPrefetch
    BY <2>1, <2>3, ThreadMovesSuspend
    DEF L2Fill, L2Answer, L2Complete, Thread, Withdrawn, Drive, Drives, Flag,
        HasPrefetch, IInv, TypeOK, KernelTypeOK
  <2>4. QED
    BY <2>2, <2>3
<1>2. /\ l2.address_int = request.addr /\ ~request.we /\ pc["L1"] = "await_read"
  BY <1>1, L2Serves DEF DataPath, L2Works, ThreadMoves, L2Path
<1>3. l2'.address_int = l2.address_int /\ l2'.i = 0
  BY DEF L2Fill, Filled, IInv, TypeOK, L2TypeOK
<1>4. MemoryHandshake'
  BY <1>1, <1>3, L2Apart, L2AnsweredHandshake
<1>5. L2Path'
  BY <1>1, <1>2, <1>3, L2Apart DEF L2Path, ThreadMoves, L2Works, L2Awaits
<1>6. WriteAnswered'
  BY <1>1, <1>2, L2Apart DEF WriteAnswered, Written, ThreadMoves
<1>7. QED
  BY <1>4, <1>5, <1>6

(* L2 takes a prefetched line, or installs one.                              *)
LEMMA L2FetchWrites ==
    ASSUME IInv, Unbuffered, Serves, CommandStands, MemoryHandshake, DataPath,
           WriteAnswered, L2Step, L2PrefetchTake \/ L2Install
    PROVE  MemoryHandshake' /\ L2Path' /\ WriteAnswered'
<1>1. CASE L2PrefetchTake
  <2>1. /\ ThreadMoves("L2", "prefetch", "install", 0, 1) /\ Drives({})
        /\ flagNext' = flagNext /\ addrNext' = addrNext /\ bus' = bus
    BY <1>1, ThreadMovesSuspend DEF L2PrefetchTake, Thread, signalVars, Drives
  <2>2. Len(prefetch'.queue) = Len(prefetch.queue) - 1
    <3>1. /\ prefetch.queue \in Seq(PrefetchedLine) /\ prefetch.avail \in Nat
          /\ prefetch.avail <= Len(prefetch.queue) /\ prefetch.avail > 0
          /\ prefetch' = FifoRead(prefetch)
          /\ prefetch \in [queue : Seq(PrefetchedLine), avail : Nat, free : Nat]
      BY <1>1
      DEF L2PrefetchTake, PrefetchTake, IInv, TypeOK, PrefetchTypeOK,
          BuffersOK, FifoBounded
    <3>2. Len(prefetch.queue) \in Nat
      BY <3>1, LenProperties
    <3>3. prefetch.queue # <<>> /\ prefetch'.queue = Tail(prefetch.queue)
      BY <3>1, <3>2, EmptySeq DEF FifoRead
    <3>4. QED
      BY <3>1, <3>3, HeadTailProperties
  <2>3. l2'.i = l2.i /\ l2'.address_int = l2.address_int
    BY <1>1 DEF L2PrefetchTake, IInv, TypeOK, L2TypeOK
  <2>4. MemoryHandshake'
    BY <2>1, <2>2, <2>3, L2Apart, L2FetchHandshake
  <2>5. L2Path'
    BY <2>1, <2>3, L2Apart DEF DataPath, L2Path, ThreadMoves, L2Works, L2Awaits
  <2>6. WriteAnswered'
    BY <2>1, L2Apart DEF WriteAnswered, Written, ThreadMoves
  <2>7. QED
    BY <2>4, <2>5, <2>6
<1>2. CASE L2Install
  <2>1. /\ pc["L2"] = "install" /\ l2.i \in Nat /\ PrefetchLines \in Nat
        /\ prefetch' = prefetch
        /\ l2'.address_int = l2.address_int /\ l2'.i = l2.i + 1
    BY <1>2, NumberTypes
    DEF L2Install, Runs, bufferVars, Filled, IInv, TypeOK, L2TypeOK
  <2>2. \/ /\ ThreadMoves("L2", "install", "prefetch", 0, 1) /\ Drives({})
           /\ l2'.i < PrefetchLines
        \/ /\ ThreadMoves("L2", "install", "restart", 1, 0)
           /\ Drives({"done_from_L2"}) /\ l2.i + 1 >= PrefetchLines
    <3>1. CASE l2'.i < PrefetchLines
      BY <1>2, <3>1, ThreadMovesSuspend DEF L2Install, Thread, signalVars, Drives
    <3>2. CASE ~(l2'.i < PrefetchLines)
      <4>1. l2.i + 1 >= PrefetchLines
        BY <2>1, <3>2
      <4>2. QED
        BY <1>2, <3>2, <4>1, ThreadMovesSuspend
        DEF L2Install, L2Answer, L2Complete, Thread, Drive, Drives, Flag, IInv,
            TypeOK, KernelTypeOK
    <3>3. QED
      BY <3>1, <3>2
  <2>3. /\ l2.address_int = request.addr /\ ~request.we /\ pc["L1"] = "await_read"
    BY <2>1, L2Serves DEF DataPath, L2Works, L2Path
  <2>4. MemoryHandshake'
    BY <2>1, <2>2, L2Apart, L2FetchHandshake, L2FetchedHandshake
  <2>5. L2Path'
    BY <2>1, <2>2, <2>3, L2Apart DEF L2Path, ThreadMoves, L2Works, L2Awaits
  <2>6. WriteAnswered'
    BY <2>2, <2>3, L2Apart DEF WriteAnswered, Written, ThreadMoves
  <2>7. QED
    BY <2>4, <2>5, <2>6
<1>3. QED
  BY <1>1, <1>2

(* Every step of L2.                                                        *)
LEMMA L2Writes ==
    ASSUME IInv, Unbuffered, Serves, CommandStands, MemoryHandshake, DataPath,
           WriteAnswered, L2Step
    PROVE  /\ MemoryHandshake' /\ DataPath' /\ WriteAnswered'
           /\ memory_blocks' = memory_blocks
<1>1. MemoryHandshake' /\ L2Path' /\ WriteAnswered'
  BY L2Kinds, L2WaitsWrites, L2CommandWrites, L2AnswersWrites, L2FillWrites,
     L2FetchWrites
  DEF L2Step
<1>2. QED
  BY <1>1, L2Apart DEF DataPath

(* What a step of MEMORY keeps of the others.                               *)
LEMMA MemoryApart ==
    ASSUME IInv, Unbuffered, MemoryHandshake, DataPath, MemoryStep
    PROVE  /\ RequestStands' /\ L1Path' /\ L2Path'
           /\ UNCHANGED <<l2, request, stage, run, flag, addr>>
           /\ pc'["L1"] = pc["L1"] /\ delay'["L1"] = delay["L1"]
           /\ pc'["L2"] = pc["L2"]
<1> USE MemoryFrame DEF Drives, Flag, driverVars
<1>1. RequestStands' /\ L1Path' /\ L2Path'
  BY DEF DataPath, RequestStands, L1Path, L1Awaits, L2Path, L2Works, L2Awaits
<1>2. QED
  BY <1>1

(* MEMORY does not write: it withdraws an answer, finds no command, takes   *)
(* one, or reads the lines of a read.                                       *)
LEMMA MemoryReadsWrites ==
    ASSUME IInv, Unbuffered, Serves, MemoryHandshake, DataPath, WriteAnswered,
           MemoryStep, ~MemoryWrite
    PROVE  /\ MemoryHandshake' /\ MemoryPath' /\ WriteAnswered'
           /\ memory_blocks' = memory_blocks
<1>1. /\ ~memory.write_underway
      /\ \/ MemoryRestart \/ MemoryIdle
         \/ (MemoryAcceptRead /\ flag["valid_from_L2_to_Memory"])
         \/ (MemoryAcceptWrite /\ flag["valid_from_L2_to_Memory"])
         \/ MemoryRead \/ MemoryPrefetch \/ MemoryPut \/ MemoryReadDone
  BY MemoryKinds DEF MemoryStep
<1>2. MemoryPath /\ L2Path
  BY DEF DataPath
<1>3. pc["MEMORY"] \in {"prefetch", "put"} => pc["L2"] # "await_write"
  BY DEF MemoryHandshake, MemoryDoneUp, Prefetching, L2Awaits, L2Fetches, Answers
<1> USE MemoryApart
<1>4. CASE MemoryRestart \/ MemoryIdle
  <2>1. /\ \/ /\ ThreadMoves("MEMORY", "restart", "poll", 0, 2)
              /\ Drives({"done_from_Memory"}) /\ ~flagNext'["done_from_Memory"]
           \/ /\ ThreadMoves("MEMORY", "poll", "poll", 1, 2) /\ Drives({})
              /\ ~flag["valid_from_L2_to_Memory"]
        /\ UNCHANGED <<memory_blocks, memory, prefetch>>
    BY <1>4, ThreadMovesSuspend
    DEF MemoryRestart, MemoryIdle, Thread, memoryVars, memoryBuffers, signalVars,
        Drive, Drives, Flag, IInv, TypeOK, KernelTypeOK
  <2>2. MemoryHandshake'
    BY <2>1, MemoryPollHandshake
  <2>3. QED
    BY <1>2, <2>1, <2>2 DEF MemoryPath, WriteAnswered, Written, ThreadMoves
<1>5. CASE (MemoryAcceptRead \/ MemoryAcceptWrite)
           /\ flag["valid_from_L2_to_Memory"]
  <2>1. /\ \/ /\ ThreadMoves("MEMORY", "poll", "read", MemoryLatency, 0)
              /\ ~flag["write_enable_from_L2_to_Memory"]
           \/ /\ ThreadMoves("MEMORY", "poll", "write", MemoryLatency, 0)
              /\ flag["write_enable_from_L2_to_Memory"]
        /\ UNCHANGED <<memory_blocks, prefetch>> /\ Drives({})
        /\ memory' = [memory EXCEPT
                        !.address_u = addr["address_from_L2_to_Memory"]]
    BY <1>5, ThreadMovesSuspend
    DEF MemoryAcceptRead, MemoryAcceptWrite, Polled, Thread, memoryBuffers,
        signalVars, Drives
  <2>2. pc["MEMORY"] = "poll" /\ L2Awaits
    BY <1>5, <2>1 DEF MemoryHandshake, MemoryCommandUp, ThreadMoves
  <2>3. /\ addr["address_from_L2_to_Memory"] = request.addr
        /\ flag["write_enable_from_L2_to_Memory"] = request.we
        /\ pc["L2"] = "await_write" => request.we
        /\ pc["L2"] = "await_read" => ~request.we
    BY <1>2, <1>5, <2>2 DEF L2Path
  <2>4. /\ memory'.address_u = request.addr /\ memory'.i = memory.i
        /\ memory'.write_underway = memory.write_underway
    BY <2>1, <2>3 DEF IInv, TypeOK, MemoryTypeOK
  <2>5. MemoryHandshake'
    BY <2>1, <2>2, <2>3, <2>4, MemoryAcceptHandshake DEF L2Awaits
  <2>6. MemoryPath' /\ WriteAnswered'
    BY <2>1, <2>4 DEF MemoryPath, WriteAnswered, Written, ThreadMoves
  <2>7. QED
    BY <2>1, <2>5, <2>6
<1>6. CASE MemoryRead
  <2>1. /\ ThreadMoves("MEMORY", "read", "prefetch", 0, 2)
        /\ Drives({"done_from_Memory"}) /\ flagNext'["done_from_Memory"]
        /\ UNCHANGED <<memory_blocks, prefetch>>
    BY <1>6, ThreadMovesSuspend
    DEF MemoryRead, Thread, memoryBuffers, Drive, Drives, Flag, IInv, TypeOK,
        KernelTypeOK
  <2>2. /\ memory'.i = 1 /\ memory'.address_u = memory.address_u
        /\ memory'.write_underway = memory.write_underway
    BY <1>6 DEF MemoryRead, IInv, TypeOK, MemoryTypeOK
  <2>3. MemoryHandshake'
    BY <2>1, <2>2, MemoryAnswerHandshake
  <2>4. QED
    BY <1>2, <2>1, <2>2, <2>3 DEF MemoryPath, WriteAnswered, Written, ThreadMoves
<1>7. CASE MemoryPrefetch \/ MemoryReadDone
  <2>1. /\ \/ /\ ThreadMoves("MEMORY", "prefetch", "put", MemoryLatency, 2)
              /\ memory.i <= PrefetchLines
           \/ /\ ThreadMoves("MEMORY", "prefetch", "restart", 0, 2)
              /\ memory.i > PrefetchLines
        /\ Drives({}) /\ UNCHANGED <<memory_blocks, prefetch>>
        /\ memory'.i = memory.i /\ memory'.address_u = memory.address_u
        /\ memory'.write_underway = memory.write_underway
    <3>1. CASE MemoryPrefetch
      BY <3>1, ThreadMovesSuspend
      DEF MemoryPrefetch, Thread, memoryBuffers, signalVars, Drives, IInv,
          TypeOK, MemoryTypeOK
    <3>2. CASE MemoryReadDone
      BY <1>1, <3>2, ThreadMovesSuspend
      DEF MemoryReadDone, Thread, memoryVars, memoryBuffers, Drives
    <3>3. QED
      BY <1>7, <3>1, <3>2
  <2>2. MemoryHandshake'
    BY <2>1, MemoryPrefetchHandshake
  <2>3. QED
    BY <1>2, <1>3, <2>1, <2>2
    DEF MemoryPath, WriteAnswered, Written, ThreadMoves
<1>8. CASE MemoryPut
  <2>1. /\ ThreadMoves("MEMORY", "put", "prefetch", 0, 0) /\ Drives({})
        /\ memory_blocks' = memory_blocks
        /\ memory'.i = memory.i + 1 /\ memory'.address_u = memory.address_u
        /\ memory'.write_underway = memory.write_underway
        /\ memory.i \in Nat /\ PrefetchLines \in Nat
    BY <1>8, NumberTypes, ThreadMovesSuspend
    DEF MemoryPut, Thread, signalVars, Drives, IInv, TypeOK, MemoryTypeOK
  <2>2. /\ Len(prefetch'.queue) \in Nat
        /\ Len(prefetch'.queue) <= Len(prefetch.queue) + 1
    <3>1. /\ prefetch.queue \in Seq(PrefetchedLine)
          /\ memory.prefetched_line \in PrefetchedLine
          /\ \/ prefetch'.queue = prefetch.queue
             \/ prefetch'.queue = Append(prefetch.queue, memory.prefetched_line)
      BY <1>8
      DEF MemoryPut, PrefetchWrite, FifoWrite, IInv, TypeOK, PrefetchTypeOK,
          MemoryTypeOK
    <3>2. QED
      BY <3>1, AppendProperties, LenProperties, NumberTypes
  <2>3. MemoryHandshake'
    BY <2>1, <2>2, MemoryPutHandshake
  <2>4. QED
    BY <1>2, <1>3, <2>1, <2>3 DEF MemoryPath, WriteAnswered, Written, ThreadMoves
<1>9. QED
  BY <1>1, <1>4, <1>5, <1>6, <1>7, <1>8

(* Every step of MEMORY: only the request's own write changes memory.        *)
LEMMA MemoryWrites ==
    ASSUME IInv, Unbuffered, Serves, CommandStands, MemoryHandshake, DataPath,
           WriteAnswered, MemoryStep
    PROVE  /\ MemoryHandshake' /\ DataPath' /\ WriteAnswered'
           /\ \/ memory_blocks' = memory_blocks
              \/ /\ request.we
                 /\ memory_blocks' = [memory_blocks EXCEPT
                                         ![request.addr] = request.data]
<1>1. CASE ~MemoryWrite
  BY <1>1, MemoryReadsWrites, MemoryApart DEF DataPath
<1>2. CASE MemoryWrite
  <2>1. /\ ThreadMoves("MEMORY", "write", "restart", 1, 2)
        /\ Drives({"done_from_Memory"}) /\ flagNext'["done_from_Memory"]
        /\ UNCHANGED <<memory, prefetch, bus>>
    BY <1>2, ThreadMovesSuspend
    DEF MemoryWrite, Thread, memoryBuffers, Drive, Drives, Flag, IInv, TypeOK,
        KernelTypeOK
  <2>2. pc["L2"] = "await_write" /\ memory.address_u = request.addr
    BY <2>1
    DEF MemoryHandshake, MemoryCommandUp, DataPath, MemoryPath, ThreadMoves
  <2>3. /\ request.we /\ request.addr \in Address
        /\ bus.data_from_L2_to_Memory = request.data
        /\ pc["L1"] = "await_write"
    BY <2>2, L2Serves, ConstantsAssumption
    DEF DataPath, L2Path, L2Works, Request
  <2>4. memory_blocks' = [memory_blocks EXCEPT ![request.addr] = request.data]
    BY <1>2, <2>2, <2>3 DEF MemoryWrite
  <2>5. memory_blocks'[request.addr] = request.data
    BY <2>3, <2>4 DEF IInv, TypeOK, MemoryTypeOK
  <2>6. MemoryHandshake'
    BY <2>1, MemoryApart, MemoryAnswerHandshake
  <2>7. DataPath'
    BY <2>1, MemoryApart DEF DataPath, MemoryPath, ThreadMoves
  <2>8. WriteAnswered'
    BY <2>3, <2>5, MemoryApart DEF WriteAnswered, Written
  <2>9. QED
    BY <2>3, <2>4, <2>6, <2>7, <2>8
<1>3. QED
  BY <1>1, <1>2

(* What the whole system keeps.                                             *)
WritesHandled ==
    /\ stage \in {"idle", "request", "exhausted", "done"}
    /\ stage \in {"idle", "request"} => MemoryHandshake
    /\ stage = "request" => DataPath /\ WriteAnswered
    /\ stage \in {"exhausted", "done"} => run = "stopped"
AllHandled == IInv /\ Handshake /\ CommandStands /\ CachesRest /\ WritesHandled

(* Each step of a thread keeps it.                                          *)
LEMMA ThreadStepHandled ==
    ASSUME Unbuffered, AllHandled, L1Step \/ L2Step \/ MemoryStep
    PROVE  /\ WritesHandled'
           /\ stage = "request" /\ UNCHANGED driverVars
           /\ \/ memory_blocks' = memory_blocks
              \/ /\ request.we
                 /\ memory_blocks' = [memory_blocks EXCEPT
                                         ![request.addr] = request.data]
<1> USE DEF AllHandled
<1>1. Serves /\ MemoryHandshake /\ DataPath /\ WriteAnswered
  BY ThreadStepRuns DEF WritesHandled, Handshake, Serves
<1>2. /\ MemoryHandshake' /\ DataPath' /\ WriteAnswered'
      /\ \/ memory_blocks' = memory_blocks
         \/ /\ request.we
            /\ memory_blocks' = [memory_blocks EXCEPT
                                    ![request.addr] = request.data]
  BY <1>1, L1Writes, L2Writes, MemoryWrites
<1>3. stage = "request" /\ UNCHANGED driverVars
  BY <1>1 DEF Serves, L1Step, L2Step, MemoryStep
<1>4. WritesHandled'
  BY <1>2, <1>3 DEF WritesHandled, driverVars
<1>5. QED
  BY <1>2, <1>3, <1>4

(* So does the end of a delta cycle.                                        *)
LEMMA DeltaHandled ==
    ASSUME AllHandled, Delta
    PROVE  WritesHandled'
<1> USE DEF AllHandled
<1>1. /\ flag' = flagNext /\ flagNext' = flagNext /\ addr' = addrNext
      /\ UNCHANGED <<l1, l2, memory_blocks, memory, bus, pc, addrNext>>
      /\ UNCHANGED driverVars /\ run \in {"cycle", "zero"}
      /\ run = "cycle" => run' = "cycle"
  BY DEF Delta, DeltaCycle, memoryVars
<1>2. /\ Serves /\ MemoryHandshake /\ DataPath /\ WriteAnswered
      /\ run = "cycle" /\ stage = "request"
  BY <1>1 DEF WritesHandled, Handshake, Serves
<1>3. delay'["L1"] = Waiting(1, 0) => delay["L1"] = Waiting(1, 0)
  <2>1. /\ delay \in [Thread -> Delay] /\ "L1" \in Thread
    BY DEF IInv, TypeOK, KernelTypeOK, Thread
  <2>2. /\ delay["L1"].clk = 0 => delay'["L1"].clk = 0
        /\ delay["L1"].clk # 0 => delay'["L1"] = delay["L1"]
    BY <2>1 DEF Delta, DeltaCycle, Delay
  <2>3. QED
    BY <2>2, WaitingFields
<1>4. WriteAnswered'
  BY <1>1, <1>2, <1>3 DEF WriteAnswered, Written, driverVars
<1>5. DataPath'
  BY <1>1, <1>2, SamePath DEF driverVars, Serves, MemoryHandshake
<1>6. MemoryHandshake'
  BY <1>2, DeltaMemory
<1>7. QED
  BY <1>1, <1>2, <1>4, <1>5, <1>6 DEF WritesHandled, driverVars

(* And the next clock edge.                                                 *)
LEMMA StartCycleHandled ==
    ASSUME AllHandled, StartCycle
    PROVE  WritesHandled'
<1> USE DEF AllHandled
<1>1. /\ stage = "request" /\ run = "stopped"
      /\ UNCHANGED <<signalVars, bus, pc, moduleVars, driverVars>>
  BY DEF StartCycle, ClockEdge, WritesHandled
<1>2. MemoryHandshake /\ DataPath /\ WriteAnswered /\ Waits /\ CommandUp
  BY <1>1 DEF WritesHandled, Handshake
<1>3. pc["L1"] = "restart" => delay'["L1"] # Waiting(1, 0)
  <2>1. SUFFICES ASSUME pc["L1"] = "restart" PROVE delay'["L1"] # Waiting(1, 0)
    OBVIOUS
  <2>2. delay["L1"].clk = 1
    BY <1>1, <1>2, <2>1, WaitingFields DEF Waits, ThreadsHeld, IInv, Thread
  <2>3. delay'["L1"].clk = 0
    <3>1. delay \in [Thread -> Delay] /\ "L1" \in Thread
      BY DEF IInv, TypeOK, KernelTypeOK, Thread
    <3>2. QED
      BY <2>2, <3>1 DEF StartCycle, ClockEdge, Delay
  <2>4. QED
    BY <2>3, WaitingFields
<1>4. WriteAnswered'
  BY <1>1, <1>2, <1>3 DEF WriteAnswered, Written, moduleVars, driverVars
<1>5. DataPath'
  BY <1>1, <1>2, SamePath
  DEF moduleVars, driverVars, signalVars, MemoryHandshake
<1>6. MemoryHandshake'
  BY <1>1, <1>2, StartCycleMemory
<1>7. QED
  BY <1>1, <1>4, <1>5, <1>6 DEF WritesHandled, driverVars

(* A request is taken.                                                      *)
LEMMA SendRequestHandled ==
    ASSUME AllHandled, NEW r \in Requests, SendRequest(r)
    PROVE  WritesHandled'
<1> USE DEF AllHandled
<1>1. /\ stage = "idle" /\ stage' = "request" /\ request' = r /\ run' = run
      /\ UNCHANGED <<l1, l2, memory_blocks, memory, prefetch, pc, delay>>
      /\ ~stats'.answered
  BY DEF SendRequest, moduleVars, NoStats
<1>2. /\ pc["L1"] = "restart" /\ run = "stopped" /\ flag = flagNext /\ CommandUp
      /\ MemoryHandshake
  BY <1>1 DEF Handshake, WritesHandled
<1>3. RequestStands'
  BY <1>1
  DEF RequestStands, SendRequest, IInv, TypeOK, KernelTypeOK, Bus, AddressSignal
<1>4. DataPath'
  BY <1>1, <1>2, <1>3, NothingUnderWay, NumberTypes
  DEF DataPath, L1Path, L2Path, MemoryPath, L1Awaits, L2Awaits, L2Works
<1>5. WriteAnswered'
  BY <1>1, <1>2, NothingUnderWay DEF WriteAnswered, L2Awaits
<1>6. MemoryHandshake'
  <2>1. \A s \in {"valid_from_L2_to_Memory", "done_from_Memory"} :
            flag'[s] = flag[s] /\ flagNext'[s] = flagNext[s]
    BY <1>2 DEF SendRequest, AssignNow, IInv, TypeOK, KernelTypeOK, Flag
  <2>2. QED
    BY <1>1, <1>2, <2>1, ElsewhereHandshake
<1>7. QED
  BY <1>1, <1>4, <1>5, <1>6 DEF WritesHandled

(* A cycle without an answer, and one with.                                 *)
LEMMA RequestContinuesHandled ==
    ASSUME AllHandled, RequestContinues
    PROVE  WritesHandled'
<1> USE DEF AllHandled
<1>1. /\ stage = "request" /\ stage' = "request" /\ run' = "stopped"
      /\ UNCHANGED <<signalVars, bus, pc, delay, moduleVars, request, stats>>
  BY DEF RequestContinues, CycleEnds
<1>2. MemoryHandshake /\ DataPath /\ WriteAnswered /\ CommandUp
  BY <1>1 DEF WritesHandled, Handshake
<1>3. WriteAnswered'
  BY <1>1, <1>2 DEF moduleVars, WriteAnswered, Written
<1>4. DataPath'
  BY <1>1, <1>2, SamePath DEF moduleVars, signalVars, MemoryHandshake
<1>5. MemoryHandshake'
  BY <1>1, <1>2, ElsewhereHandshake DEF moduleVars, signalVars
<1>6. QED
  BY <1>1, <1>3, <1>4, <1>5 DEF WritesHandled

LEMMA RequestAnsweredHandled ==
    ASSUME AllHandled, RequestAnswered
    PROVE  WritesHandled' /\ (request.we => Written)
<1> USE DEF AllHandled
<1>1. /\ stage = "request" /\ stage' = "idle" /\ run' = "stopped"
      /\ UNCHANGED <<l1, l2, memory_blocks, memory, prefetch, pc, delay>>
  BY DEF RequestAnswered, CycleEnds, moduleVars
<1>2. MemoryHandshake /\ WriteAnswered /\ flag = flagNext
  BY <1>1, AnsweredState DEF WritesHandled, Handshake
<1>3. request.we => Written
  BY <1>1, <1>2, AnsweredState DEF WriteAnswered
<1>4. MemoryHandshake'
  <2>1. \A s \in {"valid_from_L2_to_Memory", "done_from_Memory"} :
            flag'[s] = flag[s] /\ flagNext'[s] = flagNext[s]
    BY <1>2 DEF RequestAnswered, AssignNow, IInv, TypeOK, KernelTypeOK, Flag
  <2>2. QED
    BY <1>1, <1>2, <2>1, ElsewhereHandshake
<1>5. QED
  BY <1>1, <1>3, <1>4 DEF WritesHandled

(* The simulation stops.                                                    *)
LEMMA StopHandled ==
    ASSUME Unbuffered, AllHandled,
           RequestExhausted \/ Finish \/ FinishWaits \/ Finished
    PROVE  WritesHandled'
<1> USE DEF AllHandled
<1>1. ~HasStoreback
  BY ConstantsAssumption DEF Unbuffered, HasStoreback
<1>2. /\ \/ stage = "request" /\ stage' = "exhausted"
         \/ stage = "idle" /\ stage' = "done"
      /\ run' = "stopped"
  BY <1>1
  DEF WritesHandled, Handshake, RequestExhausted, CycleEnds, Finish,
      FinishWaits, Finished, FinishLooks
<1>3. QED
  BY <1>2 DEF WritesHandled

(* Every step keeps the whole.                                              *)
LEMMA NextHandled ==
    ASSUME Unbuffered, AllHandled, [Next]_vars
    PROVE  AllHandled'
<1>1. IInv' /\ Handshake' /\ CommandStands' /\ CachesRest'
  BY NextIInv, NextHandshake, NextRest DEF AllHandled
<1>2. CASE UNCHANGED vars
  <2>1. /\ UNCHANGED <<stage, run, request, stats, l1, l2, memory_blocks>>
        /\ UNCHANGED <<memory, prefetch, bus, pc, delay, flag, flagNext>>
        /\ UNCHANGED <<addr, addrNext>>
    BY <1>2 DEF vars, kernelVars, moduleVars, driverVars
  <2>2. MemoryHandshake => MemoryHandshake'
    BY <2>1, ElsewhereHandshake DEF AllHandled
  <2>3. stage = "request" => DataPath'
    BY <2>1, SamePath DEF AllHandled, WritesHandled, Handshake, MemoryHandshake
  <2>4. WriteAnswered => WriteAnswered'
    BY <2>1 DEF WriteAnswered, Written
  <2>5. QED
    BY <1>1, <2>1, <2>2, <2>3, <2>4 DEF AllHandled, WritesHandled
<1>3. CASE L1Step \/ L2Step \/ MemoryStep
  BY <1>1, <1>3, ThreadStepHandled DEF AllHandled
<1>4. CASE Delta
  BY <1>1, <1>4, DeltaHandled DEF AllHandled
<1>5. CASE \E r \in Requests : SendRequest(r)
  BY <1>1, <1>5, SendRequestHandled DEF AllHandled
<1>6. CASE StartCycle \/ RequestContinues \/ RequestAnswered
  BY <1>1, <1>6, StartCycleHandled, RequestContinuesHandled,
     RequestAnsweredHandled
  DEF AllHandled
<1>7. CASE RequestExhausted \/ Finish \/ FinishWaits \/ Finished
  BY <1>1, <1>7, StopHandled DEF AllHandled
<1>8. QED
  BY <1>2, <1>3, <1>4, <1>5, <1>6, <1>7 DEF Next, Driver, Stopped

(* It holds at first.                                                       *)
LEMMA InitHandled == Init => AllHandled
<1> SUFFICES ASSUME Init PROVE AllHandled
  OBVIOUS
<1>1. IInv /\ Handshake /\ CommandStands /\ CachesRest
  BY InitIInv, InitHandshake, InitRest
<1>2. stage = "idle"
  BY DEF Init
<1>3. MemoryHandshake
  BY <1>2, InitCoherent DEF Coherent
<1>4. QED
  BY <1>1, <1>2, <1>3 DEF AllHandled, WritesHandled

(* What every step does to memory and to what is asked of it.               *)
LEMMA NextWrites ==
    ASSUME Unbuffered, AllHandled, [Next]_vars
    PROVE  /\ \/ memory_blocks' = memory_blocks
              \/ /\ stage = "request" /\ stage' = "request" /\ request' = request
                 /\ request.we
                 /\ memory_blocks' = [memory_blocks EXCEPT
                                         ![request.addr] = request.data]
           /\ stage = "request" /\ stage' = "idle" =>
                  memory_blocks' = memory_blocks /\ (request.we => Written)
<1>1. CASE UNCHANGED vars
  BY <1>1 DEF vars, moduleVars, driverVars
<1>2. CASE L1Step \/ L2Step \/ MemoryStep
  BY <1>2, ThreadStepHandled DEF driverVars
<1>3. CASE Delta
  BY <1>3 DEF Delta, memoryVars, driverVars
<1>4. CASE \E r \in Requests : SendRequest(r)
  BY <1>4 DEF SendRequest, moduleVars
<1>5. CASE StartCycle \/ RequestContinues \/ RequestExhausted
  BY <1>5
  DEF StartCycle, RequestContinues, RequestExhausted, moduleVars, driverVars
<1>6. CASE RequestAnswered
  BY <1>6, RequestAnsweredHandled DEF RequestAnswered, moduleVars
<1>7. CASE Finish \/ FinishWaits \/ Finished
  BY <1>7 DEF Finish, FinishWaits, Finished, FinishLooks, moduleVars
<1>8. QED
  BY <1>1, <1>2, <1>3, <1>4, <1>5, <1>6, <1>7 DEF Next, Driver, Stopped

(* Whatever the reads get to see, no write is lost, doubled or misplaced on  *)
(* its way through the two caches: only the write being served changes       *)
(* memory, only at its address, and it is there before it is answered        *)
(* (cache_l1.hpp and cache_l2.hpp, update(): "write hit, write through").    *)
WritesReachMemory ==
    [][/\ memory_blocks' # memory_blocks =>
             /\ stage = "request" /\ request.we
             /\ memory_blocks' = [memory_blocks EXCEPT
                                     ![request.addr] = request.data]
       /\ stage = "request" /\ stage' = "idle" /\ request.we =>
             memory_blocks[request.addr] = request.data]_vars

(* Without a store-back buffer every write reaches memory before it is       *)
(* answered, and memory holds nothing else (cache_l1.hpp, cache_l2.hpp and   *)
(* memory.hpp, update()).  WriteThrough is not needed: writes inside a line  *)
(* and lines that prefetching displaces make copies in the caches wrong, but *)
(* never memory.                                                             *)
THEOREM WritesAlwaysReachMemory ==
    ASSUME Unbuffered PROVE Spec => WritesReachMemory
<1>1. Init => AllHandled
  BY InitHandled
<1>2. AllHandled /\ [Next]_vars => AllHandled'
  BY NextHandled
<1>3. AllHandled /\ [Next]_vars =>
          /\ memory_blocks' # memory_blocks =>
                 /\ stage = "request" /\ request.we
                 /\ memory_blocks' = [memory_blocks EXCEPT
                                         ![request.addr] = request.data]
          /\ stage = "request" /\ stage' = "idle" /\ request.we =>
                 memory_blocks[request.addr] = request.data
  BY NextWrites DEF Written
<1>4. QED
  BY <1>1, <1>2, <1>3, PTL DEF Spec, WritesReachMemory
=============================================================================
