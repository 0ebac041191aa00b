------------------------------ MODULE L2Cache ------------------------------
(***************************************************************************)
(* The thread update() of the L2 cache (cache_l2.hpp), with                 *)
(* read_from_prefetch().                                                    *)
(***************************************************************************)
EXTENDS StorebackBuffer, PrefetchBuffer

CONSTANTS L2Lines, L2Latency

VARIABLE l2

L2Line == 0 .. L2Lines - 1

L2TypeOK ==
    /\ l2 \in [cache_blocks : [L2Line -> Line], valid : [L2Line -> BOOLEAN],
               tags : [L2Line -> Nat], address_int : Address,
               i : Nat, fetched : PrefetchedLine]
    /\ pc["L2"] \in {"restart", "poll", "access", "store", "retry",
                     "await_write", "flush", "issue", "await_read",
                     "prefetch", "install"}

L2Init ==
    l2 = [cache_blocks |-> [i \in L2Line |-> ZeroLine],
          valid |-> [i \in L2Line |-> FALSE],
          tags |-> [i \in L2Line |-> 0], address_int |-> 0,
          i |-> 0, fetched |-> [address |-> 0, data |-> ZeroLine]]

L2Offset == Offset(l2.address_int, LineWords)
L2Index == Index(l2.address_int, LineWords, L2Lines)
L2Tag == TagOf(l2.address_int, LineWords, L2Lines)
L2Matches == l2.valid[L2Index] /\ l2.tags[L2Index] = L2Tag

bufferVars == <<storeback, prefetch>>

L2Restart ==
    /\ Runs("L2", "restart")
    /\ Drive([flagNext EXCEPT !["done_from_L2"] = FALSE,
                              !["hit_from_L2"] = FALSE])
    /\ Suspend("L2", "poll", 0, 2)
    /\ UNCHANGED <<addr, addrNext, bus, l2, bufferVars>>

L2Poll ==
    /\ Runs("L2", "poll")
    /\ IF flag["valid_from_L1_to_L2"]
       THEN /\ l2' = [l2 EXCEPT !.address_int = addr["address_from_L1_to_L2"]]
            /\ Suspend("L2", "access", L2Latency, 0)
       ELSE /\ Suspend("L2", "poll", 1, 1)
            /\ UNCHANGED l2
    /\ UNCHANGED <<signalVars, bus, bufferVars>>

(* A mistake: a matching line is not updated by a write.                    *)
L2WriteAround ==
    /\ Runs("L2", "access")
    /\ flag["write_enable_from_L1_to_L2"]
    /\ bus' = [bus EXCEPT !.data_from_L2_to_Memory = bus.data_from_L1_to_L2]
    /\ Drive([flagNext EXCEPT !["hit_from_L2"] = L2Matches,
                              !["write_enable_from_L2_to_Memory"] = TRUE,
                              !["valid_from_L2_to_Memory"] = TRUE])
    /\ DriveAddress("address_from_L2_to_Memory", addr["address_from_L1_to_L2"])
    /\ IF HasStoreback THEN Suspend("L2", "store", 0, 2)
                       ELSE Suspend("L2", "await_write", 0, 0)
    /\ UNCHANGED <<l2, bufferVars>>

(* A write updates a matching line and is always propagated to memory, or   *)
(* to the store-back buffer, whose write() waits two delta cycles.          *)
L2Write ==
    /\ Runs("L2", "access")
    /\ flag["write_enable_from_L1_to_L2"]
    /\ l2' = IF L2Matches
             THEN [l2 EXCEPT !.cache_blocks[L2Index][L2Offset] =
                                 bus.data_from_L1_to_L2]
             ELSE l2
    /\ bus' = [bus EXCEPT !.data_from_L2_to_Memory = bus.data_from_L1_to_L2]
    /\ Drive([flagNext EXCEPT !["hit_from_L2"] = L2Matches,
                              !["write_enable_from_L2_to_Memory"] =
                                  flag["write_enable_from_L1_to_L2"],
                              !["valid_from_L2_to_Memory"] = TRUE])
    /\ DriveAddress("address_from_L2_to_Memory", addr["address_from_L1_to_L2"])
    /\ IF HasStoreback THEN Suspend("L2", "store", 0, 2)
                       ELSE Suspend("L2", "await_write", 0, 0)
    /\ UNCHANGED bufferVars

(* done is raised together with the signals already driven.                 *)
L2Complete(driven) ==
    /\ Drive([driven EXCEPT !["done_from_L2"] = TRUE])
    /\ Suspend("L2", "restart", 1, 0)
    /\ UNCHANGED <<addr, addrNext>>

(* A mistake: the command to memory stands after it was answered.           *)
NotWithdrawn == flagNext

Withdrawn == [flagNext EXCEPT !["valid_from_L2_to_Memory"] = FALSE]

(* A mistake: an entry is written whether or not the buffer has room.       *)
L2StoreUnchecked ==
    /\ Runs("L2", "store")
    /\ StorebackWrite([address |-> addr["address_from_L1_to_L2"],
                       data |-> bus.data_from_L2_to_Memory])
    /\ L2Complete(Withdrawn)
    /\ UNCHANGED <<bus, l2, prefetch>>

L2Store ==
    /\ Runs("L2", "store")
    /\ storeback.fifo.free > 0
    /\ StorebackWrite([address |-> addr["address_from_L1_to_L2"],
                       data |-> bus.data_from_L2_to_Memory])
    /\ L2Complete(Withdrawn)
    /\ UNCHANGED <<bus, l2, prefetch>>

L2StoreFails ==
    /\ Runs("L2", "store")
    /\ storeback.fifo.free = 0
    /\ Suspend("L2", "retry", 1, 0)
    /\ UNCHANGED <<signalVars, bus, l2, bufferVars>>

(* A full buffer is tried again every cycle; the write is given up when L1  *)
(* has withdrawn its request.                                               *)
L2Retry ==
    /\ Runs("L2", "retry")
    /\ IF flag["valid_from_L1_to_L2"]
       THEN /\ Suspend("L2", "store", 0, 2)
            /\ UNCHANGED signalVars
       ELSE L2Complete(Withdrawn)
    /\ UNCHANGED <<bus, l2, bufferVars>>

L2ReadHit ==
    /\ Runs("L2", "access")
    /\ ~flag["write_enable_from_L1_to_L2"]
    /\ L2Matches
    /\ bus' = [bus EXCEPT !.data_from_L2_to_L1[0] = l2.cache_blocks[L2Index][0]]
    /\ L2Complete([flagNext EXCEPT !["hit_from_L2"] = TRUE])
    /\ UNCHANGED <<l2, bufferVars>>

(* A read miss first waits for done_from_Memory when the line may be in the *)
(* store-back buffer.                                                       *)
L2ReadMiss ==
    /\ Runs("L2", "access")
    /\ ~flag["write_enable_from_L1_to_L2"]
    /\ ~L2Matches
    /\ IF HasStoreback /\ in_buffer(LineNumber(l2.address_int, LineWords))
       THEN Suspend("L2", "flush", 0, 0)
       ELSE Suspend("L2", "issue", 0, 0)
    /\ UNCHANGED <<signalVars, bus, l2, bufferVars>>

(* A mistake: L2 looks for done_from_Memory at the clock edge itself.       *)
L2LooksTooEarly ==
    /\ \E label \in {"await_write", "flush", "await_read"} :
         /\ Runs("L2", label)
         /\ Suspend("L2", label, 1, 0)
    /\ ~flag["done_from_Memory"]
    /\ UNCHANGED <<signalVars, bus, l2, bufferVars>>

(* The three loops while (!done_from_Mem) look again two delta cycles       *)
(* after the next edge.                                                     *)
L2StillWaiting ==
    /\ \E label \in {"await_write", "flush", "await_read"} :
         /\ Runs("L2", label)
         /\ Suspend("L2", label, 1, 2)
    /\ ~flag["done_from_Memory"]
    /\ UNCHANGED <<signalVars, bus, l2, bufferVars>>

(* A mistake: the hit flag is withdrawn together with the command.          *)
L2WriteDoneClearsHit ==
    /\ Runs("L2", "await_write")
    /\ flag["done_from_Memory"]
    /\ L2Complete([flagNext EXCEPT !["valid_from_L2_to_Memory"] = FALSE,
                              !["hit_from_L2"] = FALSE])
    /\ UNCHANGED <<bus, l2, bufferVars>>

L2WriteDone ==
    /\ Runs("L2", "await_write")
    /\ flag["done_from_Memory"]
    /\ L2Complete(Withdrawn)
    /\ UNCHANGED <<bus, l2, bufferVars>>

L2FlushDone ==
    /\ Runs("L2", "flush")
    /\ flag["done_from_Memory"]
    /\ Suspend("L2", "issue", 0, 0)
    /\ UNCHANGED <<signalVars, bus, l2, bufferVars>>

L2Issue ==
    /\ Runs("L2", "issue")
    /\ Drive([flagNext EXCEPT !["valid_from_L2_to_Memory"] = TRUE,
                              !["write_enable_from_L2_to_Memory"] =
                                  flag["write_enable_from_L1_to_L2"]])
    /\ DriveAddress("address_from_L2_to_Memory", addr["address_from_L1_to_L2"])
    /\ Suspend("L2", "await_read", 0, 0)
    /\ UNCHANGED <<bus, l2, bufferVars>>

(* A mistake: every line gets the tag of the requested address.             *)
FilledUnderRequest(a, data) ==
    LET index == Index(a, LineWords, L2Lines)
    IN [l2 EXCEPT !.cache_blocks[index] = data,
                  !.valid[index] = TRUE,
                  !.tags[index] = L2Tag]

(* l2 after the line of the address a is filled with data.                  *)
Filled(a, data) ==
    LET index == Index(a, LineWords, L2Lines)
    IN [l2 EXCEPT !.cache_blocks[index] = data,
                  !.valid[index] = TRUE,
                  !.tags[index] = TagOf(a, LineWords, L2Lines)]

(* The end of a read miss: only the first word of the line goes to L1.      *)
L2Answer(driven) ==
    /\ bus' = [bus EXCEPT !.data_from_L2_to_L1[0] = l2'.cache_blocks[L2Index][0]]
    /\ L2Complete(driven)

(* A mistake: a read is answered before the prefetched lines are taken.     *)
L2FillForgetsPrefetch ==
    /\ Runs("L2", "await_read")
    /\ flag["done_from_Memory"]
    /\ l2' = [Filled(l2.address_int, bus.data_from_Memory_to_L2)
                EXCEPT !.i = 0]
    /\ L2Answer(Withdrawn)
    /\ UNCHANGED bufferVars

L2Fill ==
    /\ Runs("L2", "await_read")
    /\ flag["done_from_Memory"]
    /\ l2' = [Filled(l2.address_int, bus.data_from_Memory_to_L2)
                EXCEPT !.i = 0]
    /\ IF HasPrefetch
       THEN /\ Drive(Withdrawn)
            /\ Suspend("L2", "prefetch", 0, 1)
            /\ UNCHANGED <<addr, addrNext, bus>>
       ELSE L2Answer(Withdrawn)
    /\ UNCHANGED bufferVars

(* read_from_prefetch(): one line for every slot of the prefetch buffer.    *)
L2PrefetchTake ==
    /\ Runs("L2", "prefetch")
    /\ prefetch.avail > 0
    /\ l2' = [l2 EXCEPT !.fetched = Head(prefetch.queue)]
    /\ PrefetchTake
    /\ Suspend("L2", "install", 0, 1)
    /\ UNCHANGED <<signalVars, bus, storeback>>

L2PrefetchEmpty ==
    /\ Runs("L2", "prefetch")
    /\ prefetch.avail = 0
    /\ Suspend("L2", "prefetch", 1, 3)
    /\ UNCHANGED <<signalVars, bus, l2, bufferVars>>

(* A mistake: the loop ends one line early.                                 *)
L2InstallsTooFew ==
    /\ Runs("L2", "install")
    /\ l2' = [Filled(l2.fetched.address, l2.fetched.data) EXCEPT !.i = @ + 1]
    /\ IF l2'.i < PrefetchLines - 1
       THEN /\ Suspend("L2", "prefetch", 0, 1)
            /\ UNCHANGED <<signalVars, bus>>
       ELSE L2Answer(flagNext)
    /\ UNCHANGED bufferVars

L2Install ==
    /\ Runs("L2", "install")
    /\ l2' = [Filled(l2.fetched.address, l2.fetched.data) EXCEPT !.i = @ + 1]
    /\ IF l2'.i < PrefetchLines
       THEN /\ Suspend("L2", "prefetch", 0, 1)
            /\ UNCHANGED <<signalVars, bus>>
       ELSE L2Answer(flagNext)
    /\ UNCHANGED bufferVars

L2Next ==
    \/ L2Restart \/ L2Poll \/ L2Write \/ L2Store \/ L2StoreFails \/ L2Retry
    \/ L2ReadHit \/ L2ReadMiss \/ L2StillWaiting \/ L2WriteDone
    \/ L2FlushDone \/ L2Issue \/ L2Fill
    \/ L2PrefetchTake \/ L2PrefetchEmpty \/ L2Install
=============================================================================
