----------------------------- MODULE Hierarchy -----------------------------
(***************************************************************************)
(* What the memory hierarchy as a whole must guarantee, stated about the    *)
(* threads of CPU_L1_L2.                                                    *)
(***************************************************************************)
EXTENDS CPU_L1_L2

Serving == stage \in {"request", "exhausted"}
Answer == IF stats.answered /\ ~stats.we THEN <<stats.data>> ELSE <<>>

(* Lines held by the caches.                                                *)
InL1(a) ==
    LET i == Index(a, LineWords, L1Lines)
    IN l1.valid[i] /\ l1.tags[i] = TagOf(a, LineWords, L1Lines)
InL2(a) ==
    LET i == Index(a, LineWords, L2Lines)
    IN l2.valid[i] /\ l2.tags[i] = TagOf(a, LineWords, L2Lines)
L1Word(a) == l1.cache_blocks[Index(a, LineWords, L1Lines)][Offset(a, LineWords)]
L2Word(a) == l2.cache_blocks[Index(a, LineWords, L2Lines)][Offset(a, LineWords)]

Requested == {r.addr : r \in Requests}

-----------------------------------------------------------------------------
(* The two caches and the memory behave as one memory: what a read returns  *)
(* is what the last write to its address stored, however the line was        *)
(* evicted from L1, from L2 or from both in between (cache_l1.hpp and        *)
(* cache_l2.hpp, update(): "maintaining cache coherence").                   *)
Memory == INSTANCE CoherentMemory WITH
    store <- memory_blocks, busy <- Serving, answer <- Answer
ImplementsCoherentMemory == Memory!Spec

(* With the store-back buffer the same is promised of the memory as it will *)
(* be when the pending writes, oldest first, have reached it: the write that *)
(* memory took from the buffer and has not finished, which temp keeps when a *)
(* read interrupts it, and those still in the buffer.                        *)
InFlight ==
    IF pc["MEMORY"] \in {"taken", "latency", "commit"} \/ memory.temp.present
    THEN <<[address |-> memory.write_address, data |-> memory.data]>>
    ELSE <<>>
PendingWrites == InFlight \o storeback.fifo.queue
Settling ==
    [a \in Address |->
        LET hits == {i \in DOMAIN PendingWrites : PendingWrites[i].address = a}
        IN IF hits = {} THEN memory_blocks[a]
           ELSE PendingWrites[CHOOSE i \in hits : \A j \in hits : j <= i].data]
BufferedMemory == INSTANCE CoherentMemory WITH
    store <- Settling, busy <- Serving, answer <- Answer
ImplementsBufferedMemory == BufferedMemory!Spec

(* What an answered read returns is the last value written to its address,  *)
(* whether that write has reached memory or not (cache_l2.hpp, update(),     *)
(* "handles data storage, retrieval, and forwarding while maintaining cache  *)
(* coherence").                                                             *)
ReadsSeePendingWrites ==
    [][stage = "request" /\ stage' = "idle" /\ ~request.we =>
          stats'.data = Settling[request.addr]]_vars

(* Every cached copy of a word a request can ask for equals memory, except  *)
(* the word a write is on its way to: write-through leaves no dirty line    *)
(* and no line survives a write it did not see.                             *)
CopiesMatchMemory ==
    \A a \in Requested :
        (Serving => a # request.addr) =>
            /\ InL1(a) => L1Word(a) = memory_blocks[a]
            /\ InL2(a) => L2Word(a) = memory_blocks[a]

(* The reported cycles are those of the levels the request went through: a   *)
(* level that answers late, an acknowledgement that is taken one clock edge  *)
(* too early or a command that is served twice changes the sum               *)
(* (send_request(), "Cases for cycles").                                     *)
RequestLatency ==
    stats.answered =>
        stats.cycles = 1 + L1Latency
            + (IF ~stats.we /\ stats.hit_L1 THEN 0
               ELSE L2Latency
                    + (IF ~stats.we /\ stats.hit_L2 THEN 0
                       ELSE MemoryLatency
                            * (IF stats.we THEN 1 ELSE PrefetchLines + 1)))

(* A request counts as served by L2 exactly when it had to leave L1, and the *)
(* hit flags of a write, sampled at the end of its last cycle, are those of  *)
(* the lines the caches really hold (send_request(): "cache_l2_executes is   *)
(* true IFF valid_from_l1_to_l2 is true").                                   *)
StatsTruthful ==
    stats.answered =>
        /\ stats.l2_executes <=> stats.we \/ ~stats.hit_L1
        /\ ~stats.l2_executes => ~stats.hit_L2

HitsTruthful ==
    [][stage = "request" /\ stage' = "idle" /\ request.we =>
          /\ stats'.hit_L1 <=> InL1(request.addr)
          /\ stats'.hit_L2 <=> InL2(request.addr)]_vars

(* A level only ever starts on the command that the level above it is        *)
(* waiting for; a command that was answered is not seen a second time        *)
(* (modules.hpp, the comment on the valid flags: memory "must wait until L2  *)
(* give new command, not the current old command").                          *)
Awaiting(t) == pc[t] \in {"await_write", "await_read"}
CommandsServedFresh ==
    [][/\ pc["MEMORY"] = "poll" /\ pc'["MEMORY"] \in {"read", "write"} =>
             /\ Serving /\ Awaiting("L2")
             /\ memory'.address_u = request.addr
             /\ request.we = (pc'["MEMORY"] = "write")
       /\ pc["L2"] = "poll" /\ pc'["L2"] = "access" =>
             /\ Serving /\ Awaiting("L1")
             /\ l2'.address_int = request.addr]_vars

(* Every request is answered, in some number of cycles, unless the           *)
(* simulation is cut off before (send_request(): while (!done_from_L1)).     *)
RequestsAnswered == stage = "request" ~> stage \in {"idle", "exhausted"}

-----------------------------------------------------------------------------
(* The store-back buffer.                                                    *)

(* The ring that in_buffer() searches describes the fifo: from head on it    *)
(* holds the line numbers of the entries in their order, and tail - head is  *)
(* their number, one more between the two steps of read().  write() runs in  *)
(* the thread of L2 and read() in that of MEMORY, and nothing orders them.   *)
Taking == IF pc["MEMORY"] = "taken" THEN 1 ELSE 0
RingMatchesFifo ==
    LET queue == storeback.fifo.queue
        slot(i) == (storeback.head + Taking + i - 1) % StorebackLines
    IN /\ (Len(queue) + Taking) % StorebackLines = EntriesCounted
       /\ \A i \in DOMAIN queue :
            storeback.tags_storeback[slot(i)]
                = LineNumber(queue[i].address, LineWords)

(* A write that found the buffer full is still wanted when it is tried again: *)
(* the way out of the loop in which L2 would report it done and forget it    *)
(* (if (!valid_in->read()) break;) is never taken.                           *)
NoWriteGivenUp ==
    [][pc["L2"] = "retry" => pc'["L2"] \in {"retry", "store"}]_vars

(* finish_memory() returns at once only if there is nothing left to write:   *)
(* the flag empty, set by whichever of write() and read() runs last in a     *)
(* delta cycle, may be wrong while memory is draining, but not when memory   *)
(* is not (is_empty(): "Returns true if it is empty, false if not").         *)
EarlyFinishIsSafe ==
    stage = "probe" /\ run = "paused" /\ NothingToWrite =>
        PendingWrites = <<>>

(* run_simulation() ends with "wait for memory write": when it stops without *)
(* having run out of cycles, every write has reached memory.                 *)
AllWritesArrive == stage = "done" => PendingWrites = <<>>

(* write_from_buffer(): "Continue writing from temp if aborted": the write   *)
(* that is taken up again goes to the address it was interrupted at.         *)
AbortedWriteContinues ==
    [][pc["MEMORY"] = "drain" /\ memory.temp.present /\ ~memory'.temp.present =>
          memory'.write_address = memory.write_address]_vars

(* The wait of a read miss for the buffer ends when it is written back:      *)
(* "flush all contents of the buffer into the memory".                       *)
FlushEmptiesBuffer ==
    [][pc["L2"] = "flush" /\ pc'["L2"] = "issue" =>
          PendingWrites = <<>>]_vars

-----------------------------------------------------------------------------
(* The prefetch buffer never drops a line that memory prefetched, although   *)
(* its write() does so silently when the fifo is full: L2, which waits for   *)
(* exactly one line per slot, has taken the lines of the last miss by then.  *)
NoLineLost ==
    [][pc["MEMORY"] = "put" /\ pc'["MEMORY"] = "prefetch" =>
          Len(prefetch'.queue) = Len(prefetch.queue) + 1]_vars
=============================================================================
