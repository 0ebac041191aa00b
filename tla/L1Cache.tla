------------------------------ MODULE L1Cache ------------------------------
(***************************************************************************)
(* The thread update() of the L1 cache (cache_l1.hpp).  Direct mapped,      *)
(* write-through, no allocation on a write miss.                            *)
(***************************************************************************)
EXTENDS SystemC, CacheIndex

CONSTANTS L1Lines, L1Latency

VARIABLE l1

L1Line == 0 .. L1Lines - 1

L1TypeOK ==
    /\ l1 \in [cache_blocks : [L1Line -> Line], valid : [L1Line -> BOOLEAN],
               tags : [L1Line -> Nat], address_int : Address]
    /\ pc["L1"] \in {"restart", "poll", "access", "await_write", "await_read"}

L1Init ==
    l1 = [cache_blocks |-> [i \in L1Line |-> ZeroLine],
          valid |-> [i \in L1Line |-> FALSE],
          tags |-> [i \in L1Line |-> 0], address_int |-> 0]

L1Offset == Offset(l1.address_int, LineWords)
L1Index == Index(l1.address_int, LineWords, L1Lines)
L1Tag == TagOf(l1.address_int, LineWords, L1Lines)
L1Matches == l1.valid[L1Index] /\ l1.tags[L1Index] = L1Tag

(* Top of the loop: hit and done are withdrawn.                             *)
L1Restart ==
    /\ Runs("L1", "restart")
    /\ Drive([flagNext EXCEPT !["hit_from_L1"] = FALSE,
                              !["done_from_L1"] = FALSE])
    /\ Suspend("L1", "poll", 0, 2)
    /\ UNCHANGED <<addr, addrNext, bus, l1>>

(* while (!valid_in) wait(); the address is latched when valid is seen.     *)
L1Poll ==
    /\ Runs("L1", "poll")
    /\ IF flag["valid"]
       THEN /\ l1' = [l1 EXCEPT !.address_int = addr["address"]]
            /\ Suspend("L1", "access", L1Latency, 0)
       ELSE /\ Suspend("L1", "poll", 1, 0)
            /\ UNCHANGED l1
    /\ UNCHANGED <<signalVars, bus>>

(* A mistake: a written line is left as it was.                             *)
L1WriteAround ==
    /\ Runs("L1", "access")
    /\ flag["write_enable"]
    /\ bus' = [bus EXCEPT !.data_from_L1_to_L2 = bus.data_in]
    /\ Drive([flagNext EXCEPT !["hit_from_L1"] = FALSE,
                              !["write_enable_from_L1_to_L2"] = TRUE,
                              !["valid_from_L1_to_L2"] = TRUE])
    /\ DriveAddress("address_from_L1_to_L2", addr["address"])
    /\ Suspend("L1", "await_write", 0, 0)
    /\ UNCHANGED l1

(* address_out, write_enable_out and valid_out towards L2.                  *)
L1Propagate(hit) ==
    /\ Drive([flagNext EXCEPT !["hit_from_L1"] = hit,
                              !["write_enable_from_L1_to_L2"] =
                                  flag["write_enable"],
                              !["valid_from_L1_to_L2"] = TRUE])
    /\ DriveAddress("address_from_L1_to_L2", addr["address"])

(* A write updates a matching line and is always propagated to L2.          *)
L1Write ==
    /\ Runs("L1", "access")
    /\ flag["write_enable"]
    /\ l1' = IF L1Matches
             THEN [l1 EXCEPT !.cache_blocks[L1Index][L1Offset] = bus.data_in]
             ELSE l1
    /\ bus' = [bus EXCEPT !.data_from_L1_to_L2 = bus.data_in]
    /\ L1Propagate(L1Matches)
    /\ Suspend("L1", "await_write", 0, 0)

L1ReadHit ==
    /\ Runs("L1", "access")
    /\ ~flag["write_enable"]
    /\ L1Matches
    /\ Drive([flagNext EXCEPT !["hit_from_L1"] = TRUE, !["done_from_L1"] = TRUE])
    /\ bus' = [bus EXCEPT !.data_out = l1.cache_blocks[L1Index][L1Offset]]
    /\ Suspend("L1", "restart", 1, 0)
    /\ UNCHANGED <<addr, addrNext, l1>>

L1ReadMiss ==
    /\ Runs("L1", "access")
    /\ ~flag["write_enable"]
    /\ ~L1Matches
    /\ L1Propagate(FALSE)
    /\ Suspend("L1", "await_read", 0, 0)
    /\ UNCHANGED <<bus, l1>>

(* A mistake: L1 looks for the acknowledgement before L2 can have given it. *)
L1LooksTooEarly ==
    /\ \E label \in {"await_write", "await_read"} :
         /\ Runs("L1", label)
         /\ Suspend("L1", label, 1, 0)
    /\ ~flag["done_from_L2"]
    /\ UNCHANGED <<signalVars, bus, l1>>

(* while (!done_from_L2): look again six delta cycles after the next edge.  *)
L1StillWaiting ==
    /\ \E label \in {"await_write", "await_read"} :
         /\ Runs("L1", label)
         /\ Suspend("L1", label, 1, 6)
    /\ ~flag["done_from_L2"]
    /\ UNCHANGED <<signalVars, bus, l1>>

L1Complete ==
    /\ Drive([flagNext EXCEPT !["valid_from_L1_to_L2"] = FALSE,
                              !["done_from_L1"] = TRUE])
    /\ Suspend("L1", "restart", 1, 0)
    /\ UNCHANGED <<addr, addrNext>>

(* A mistake: a write is acknowledged without waiting for L2.               *)
L1PostsWrite ==
    /\ Runs("L1", "await_write")
    /\ L1Complete
    /\ UNCHANGED <<bus, l1>>

L1WriteDone ==
    /\ Runs("L1", "await_write")
    /\ flag["done_from_L2"]
    /\ L1Complete
    /\ UNCHANGED <<bus, l1>>

(* A mistake: a line that replaces another keeps the tag of the other.      *)
L1FillKeepsTag ==
    /\ Runs("L1", "await_read")
    /\ flag["done_from_L2"]
    /\ l1' = [l1 EXCEPT !.cache_blocks[L1Index] = bus.data_from_L2_to_L1,
                        !.valid[L1Index] = TRUE,
                        !.tags[L1Index] = IF l1.valid[L1Index] THEN @ ELSE L1Tag]
    /\ bus' = [bus EXCEPT !.data_out = bus.data_from_L2_to_L1[L1Offset]]
    /\ L1Complete

(* The whole bus from L2 is copied into the line, valid or not.             *)
L1Fill ==
    /\ Runs("L1", "await_read")
    /\ flag["done_from_L2"]
    /\ l1' = [l1 EXCEPT !.cache_blocks[L1Index] = bus.data_from_L2_to_L1,
                        !.valid[L1Index] = TRUE,
                        !.tags[L1Index] = L1Tag]
    /\ bus' = [bus EXCEPT !.data_out = bus.data_from_L2_to_L1[L1Offset]]
    /\ L1Complete

L1Next ==
    \/ L1Restart \/ L1Poll \/ L1Write \/ L1ReadHit \/ L1ReadMiss
    \/ L1StillWaiting \/ L1WriteDone \/ L1Fill
=============================================================================
