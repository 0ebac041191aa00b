---------------------------- MODULE MainMemory ----------------------------
(***************************************************************************)
(* The thread update() of the main memory (memory.hpp), with                *)
(* write_from_buffer() and prefetch_next_line().                            *)
(***************************************************************************)
EXTENDS StorebackBuffer, PrefetchBuffer

CONSTANTS
    MemoryLatency,
    Elsewhere       \* an address outside 0 .. MaxAddress

VARIABLES memory_blocks, memory

NoData == [present |-> FALSE, data |-> Zero]
Data(d) == [present |-> TRUE, data |-> d]

MemoryTypeOK ==
    /\ memory_blocks \in [Address -> Value]
    /\ memory \in [write_underway : BOOLEAN,
                   temp : [present : BOOLEAN, data : Value],
                   address_u : Address, data : Value,
                   write_address : Address \cup {Elsewhere},
                   i : Nat, prefetched_line : PrefetchedLine]
    /\ pc["MEMORY"] \in {"restart", "poll", "read", "write", "prefetch",
                         "put", "drain", "take", "taken", "latency", "commit"}

MemoryInit ==
    /\ memory_blocks = [a \in Address |-> Zero]
    /\ memory = [write_underway |-> FALSE, temp |-> NoData,
                 address_u |-> 0, data |-> Zero, write_address |-> 0,
                 i |-> 0,
                 prefetched_line |-> [address |-> 0, data |-> ZeroLine]]

memoryVars == <<memory_blocks, memory>>
memoryBuffers == <<storeback, prefetch>>

(* The cacheLineSize bytes from address a on, whether or not a is the start *)
(* of a line; behind the end of the address space old is left as it is.     *)
LineAt(a, old) ==
    [i \in LineOffset |-> IF a + i <= MaxAddress THEN memory_blocks[a + i]
                                                 ELSE old[i]]

(* What the thread looks at when it polls, and when it may be interrupted.  *)
ReadRequested ==
    flag["valid_from_L2_to_Memory"] /\ ~flag["write_enable_from_L2_to_Memory"]

MemoryRestart ==
    /\ Runs("MEMORY", "restart")
    /\ Drive([flagNext EXCEPT !["done_from_Memory"] = FALSE])
    /\ Suspend("MEMORY", "poll", 0, 2)
    /\ UNCHANGED <<addr, addrNext, bus, memoryVars, memoryBuffers>>

MemoryIdle ==
    /\ Runs("MEMORY", "poll")
    /\ ~flag["valid_from_L2_to_Memory"]
    /\ ~memory.write_underway
    /\ Suspend("MEMORY", "poll", 1, 2)
    /\ UNCHANGED <<signalVars, bus, memoryVars, memoryBuffers>>

Polled ==
    /\ Runs("MEMORY", "poll")
    /\ flag["valid_from_L2_to_Memory"] \/ memory.write_underway

MemoryAcceptRead ==
    /\ Polled
    /\ ~flag["write_enable_from_L2_to_Memory"]
    /\ memory' = [memory EXCEPT !.address_u = addr["address_from_L2_to_Memory"]]
    /\ Suspend("MEMORY", "read", MemoryLatency, 0)
    /\ UNCHANGED <<signalVars, bus, memory_blocks, memoryBuffers>>

MemoryAcceptWrite ==
    /\ Polled
    /\ flag["write_enable_from_L2_to_Memory"]
    /\ ~HasStoreback
    /\ memory' = [memory EXCEPT !.address_u = addr["address_from_L2_to_Memory"]]
    /\ Suspend("MEMORY", "write", MemoryLatency, 0)
    /\ UNCHANGED <<signalVars, bus, memory_blocks, memoryBuffers>>

(* Entry of write_from_buffer().                                            *)
StartDraining ==
    /\ Drive([flagNext EXCEPT !["done_from_Memory"] = FALSE])
    /\ Suspend("MEMORY", "drain", 0, 1)

(* With a store-back buffer a write command only starts the draining.       *)
MemoryAcceptDrain ==
    /\ Polled
    /\ flag["write_enable_from_L2_to_Memory"]
    /\ HasStoreback
    /\ memory' = [memory EXCEPT !.address_u = addr["address_from_L2_to_Memory"],
                                !.write_underway = TRUE]
    /\ StartDraining
    /\ UNCHANGED <<addr, addrNext, bus, memory_blocks, memoryBuffers>>

MemoryRead ==
    /\ Runs("MEMORY", "read")
    /\ bus' = [bus EXCEPT !.data_from_Memory_to_L2 = LineAt(memory.address_u, @)]
    /\ Drive([flagNext EXCEPT !["done_from_Memory"] = TRUE])
    /\ memory' = [memory EXCEPT !.i = 1]
    /\ Suspend("MEMORY", "prefetch", 0, 2)
    /\ UNCHANGED <<addr, addrNext, memory_blocks, memoryBuffers>>

(* A mistake: the line read is labelled with the address of the line before. *)
MemoryPrefetchMislabelled ==
    /\ Runs("MEMORY", "prefetch")
    /\ memory.i <= PrefetchLines
    /\ LET a == memory.address_u + LineWords + memory.i * LineWords
       IN memory' = [memory EXCEPT
              !.prefetched_line = [address |-> a - LineWords,
                                   data |-> LineAt(a, ZeroLine)]]
    /\ Suspend("MEMORY", "put", MemoryLatency, 2)
    /\ UNCHANGED <<signalVars, bus, memory_blocks, memoryBuffers>>

(* A mistake: one line too far, and no wrap at the end of the addresses.     *)
MemoryPrefetchTooFar ==
    /\ Runs("MEMORY", "prefetch")
    /\ memory.i <= PrefetchLines
    /\ LET a == memory.address_u + LineWords + (memory.i + 1) * LineWords
       IN memory' = [memory EXCEPT
              !.prefetched_line = [address |-> a, data |-> LineAt(a, ZeroLine)]]
    /\ Suspend("MEMORY", "put", MemoryLatency, 2)
    /\ UNCHANGED <<signalVars, bus, memory_blocks, memoryBuffers>>

(* The loop over the prefetch buffer.  address_u already stands behind the  *)
(* line that was read.                                                      *)
MemoryPrefetch ==
    /\ Runs("MEMORY", "prefetch")
    /\ memory.i <= PrefetchLines
    /\ LET a == (memory.address_u + LineWords + memory.i * LineWords)
                    % (MaxAddress + 1)
       IN memory' = [memory EXCEPT
              !.prefetched_line = [address |-> a, data |-> LineAt(a, ZeroLine)]]
    /\ Suspend("MEMORY", "put", MemoryLatency, 2)
    /\ UNCHANGED <<signalVars, bus, memory_blocks, memoryBuffers>>

MemoryPut ==
    /\ Runs("MEMORY", "put")
    /\ PrefetchWrite(memory.prefetched_line)
    /\ memory' = [memory EXCEPT !.i = @ + 1]
    /\ Suspend("MEMORY", "prefetch", 0, 0)
    /\ UNCHANGED <<signalVars, bus, memory_blocks, storeback>>

(* After a read an interrupted draining is taken up again.                  *)
MemoryReadDone ==
    /\ Runs("MEMORY", "prefetch")
    /\ memory.i > PrefetchLines
    /\ IF memory.write_underway
       THEN StartDraining
       ELSE /\ Suspend("MEMORY", "restart", 0, 2)
            /\ UNCHANGED <<flag, flagNext>>
    /\ UNCHANGED <<addr, addrNext, bus, memoryVars, memoryBuffers>>

MemoryWrite ==
    /\ Runs("MEMORY", "write")
    /\ memory_blocks' = [memory_blocks EXCEPT
                            ![memory.address_u] = bus.data_from_L2_to_Memory]
    /\ Drive([flagNext EXCEPT !["done_from_Memory"] = TRUE])
    /\ Suspend("MEMORY", "restart", 1, 2)
    /\ UNCHANGED <<addr, addrNext, bus, memory, memoryBuffers>>

(* write_from_buffer(), top of its loop.  An interrupted write is taken     *)
(* from temp; its address is not kept, so that the local address_u has no   *)
(* defined value.                                                           *)
MemoryResume ==
    /\ Runs("MEMORY", "drain")
    /\ memory.temp.present
    /\ \E a \in Address \cup {Elsewhere} :
         memory' = [memory EXCEPT !.data = memory.temp.data,
                                  !.temp = NoData,
                                  !.write_address = a,
                                  !.i = 0]
    /\ Suspend("MEMORY", "latency", 0, 2)
    /\ UNCHANGED <<signalVars, bus, memory_blocks, memoryBuffers>>

MemoryCallRead ==
    /\ Runs("MEMORY", "drain")
    /\ ~memory.temp.present
    /\ Suspend("MEMORY", "take", 0, 1)
    /\ UNCHANGED <<signalVars, bus, memoryVars, memoryBuffers>>

(* A mistake: the address of the entry is not taken over.                   *)
MemoryTakeDataOnly ==
    /\ Runs("MEMORY", "take")
    /\ storeback.fifo.avail > 0
    /\ memory' = [memory EXCEPT !.data = Head(storeback.fifo.queue).data]
    /\ StorebackTake
    /\ Suspend("MEMORY", "taken", 0, 1)
    /\ UNCHANGED <<signalVars, bus, memory_blocks, prefetch>>

MemoryTake ==
    /\ Runs("MEMORY", "take")
    /\ storeback.fifo.avail > 0
    /\ LET w == Head(storeback.fifo.queue)
       IN memory' = [memory EXCEPT !.data = w.data,
                                   !.write_address = w.address]
    /\ StorebackTake
    /\ Suspend("MEMORY", "taken", 0, 1)
    /\ UNCHANGED <<signalVars, bus, memory_blocks, prefetch>>

(* A mistake: the draining ends with one entry left.                        *)
MemoryDrainedEarly ==
    /\ Runs("MEMORY", "take")
    /\ storeback.fifo.avail <= 1
    /\ Drive([flagNext EXCEPT !["done_from_Memory"] = TRUE])
    /\ memory' = [memory EXCEPT !.write_underway = FALSE]
    /\ Suspend("MEMORY", "restart", 1, 2)
    /\ UNCHANGED <<addr, addrNext, bus, memory_blocks, memoryBuffers>>

(* Nothing left: done is raised for one cycle and the draining ends.        *)
MemoryDrained ==
    /\ Runs("MEMORY", "take")
    /\ storeback.fifo.avail = 0
    /\ Drive([flagNext EXCEPT !["done_from_Memory"] = TRUE])
    /\ memory' = [memory EXCEPT !.write_underway = FALSE]
    /\ Suspend("MEMORY", "restart", 1, 2)
    /\ UNCHANGED <<addr, addrNext, bus, memory_blocks, memoryBuffers>>

MemoryTaken ==
    /\ Runs("MEMORY", "taken")
    /\ StorebackAdvanceHead
    /\ memory' = [memory EXCEPT !.i = 0]
    /\ Suspend("MEMORY", "latency", 0, 2)
    /\ UNCHANGED <<signalVars, bus, memory_blocks, prefetch>>

(* Once in every cycle of the latency a read of L2 interrupts the write.    *)
MemoryAbort ==
    /\ Runs("MEMORY", "latency")
    /\ ReadRequested
    /\ memory' = [memory EXCEPT !.write_underway = TRUE,
                                !.temp = Data(memory.data)]
    /\ Suspend("MEMORY", "restart", 0, 2)
    /\ UNCHANGED <<signalVars, bus, memory_blocks, memoryBuffers>>

MemoryLatencyStep ==
    /\ Runs("MEMORY", "latency")
    /\ ~ReadRequested
    /\ memory' = [memory EXCEPT !.i = @ + 1]
    /\ IF memory.i + 1 < MemoryLatency
       THEN Suspend("MEMORY", "latency", 1, 2)
       ELSE Suspend("MEMORY", "commit", 1, 0)
    /\ UNCHANGED <<signalVars, bus, memory_blocks, memoryBuffers>>

MemoryCommit ==
    /\ Runs("MEMORY", "commit")
    /\ memory_blocks' = IF memory.write_address \in Address
                        THEN [memory_blocks EXCEPT
                                 ![memory.write_address] = memory.data]
                        ELSE memory_blocks
    /\ Suspend("MEMORY", "drain", 0, 0)
    /\ UNCHANGED <<signalVars, bus, memory, memoryBuffers>>

MemoryNext ==
    \/ MemoryRestart \/ MemoryIdle \/ MemoryAcceptRead \/ MemoryAcceptWrite
    \/ MemoryAcceptDrain \/ MemoryRead \/ MemoryPrefetch \/ MemoryPut
    \/ MemoryReadDone \/ MemoryWrite \/ MemoryResume \/ MemoryCallRead
    \/ MemoryTake \/ MemoryDrained \/ MemoryTaken \/ MemoryAbort
    \/ MemoryLatencyStep \/ MemoryCommit
=============================================================================
