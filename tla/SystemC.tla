------------------------------ MODULE SystemC ------------------------------
(***************************************************************************)
(* The part of the SystemC kernel that the simulator is written against,    *)
(* and the signals and buses that struct CPU_L1_L2 declares                 *)
(* (modules.hpp).  The three SC_THREADs run one at a time, in any order     *)
(* within a delta cycle, each from one wait() to the next.  A write to an   *)
(* sc_signal becomes visible only when every thread of the delta cycle has  *)
(* run; a write to a bus (a plain char array behind an sc_signal<char*>)    *)
(* is visible at once.                                                      *)
(***************************************************************************)
EXTENDS Integers, Sequences

CONSTANTS
    MaxAddress,   \* the last word address of the memory
    LineWords,    \* 4-byte words in a cache line (cacheLineSize / 4)
    Value,        \* the contents a 4-byte word can have
    Zero          \* the content of a zeroed word

Address == 0 .. MaxAddress
LineOffset == 0 .. LineWords - 1
Line == [LineOffset -> Value]
ZeroLine == [i \in LineOffset |-> Zero]

Thread == {"L1", "L2", "MEMORY"}

(* The bool and the uint32_t sc_signals of CPU_L1_L2, by their names.       *)
Flag == {"valid", "valid_from_L1_to_L2", "valid_from_L2_to_Memory",
         "write_enable", "write_enable_from_L1_to_L2",
         "write_enable_from_L2_to_Memory",
         "done_from_L1", "done_from_L2", "done_from_Memory",
         "hit_from_L1", "hit_from_L2"}
AddressSignal == {"address", "address_from_L1_to_L2",
                  "address_from_L2_to_Memory"}

VARIABLES
    flag, flagNext,   \* current and requested values of the bool signals
    addr, addrNext,   \* the same for the address signals
    bus,              \* the character arrays between the modules
    pc, delay,        \* where each thread waits, and for how long
    run               \* what the surrounding sc_start() calls are doing

signalVars == <<flag, flagNext, addr, addrNext>>
kernelVars == <<flag, flagNext, addr, addrNext, bus, pc, delay, run>>

Bus == [data_in : Value, data_out : Value,
        data_from_L1_to_L2 : Value, data_from_L2_to_L1 : Line,
        data_from_L2_to_Memory : Value, data_from_Memory_to_L2 : Line]

(* The waits of the three threads.                                          *)
Label == {"restart", "poll", "access", "store", "retry", "await_write", "flush",
          "issue", "await_read", "prefetch", "install",
          "read", "write", "put", "drain", "take", "taken", "latency", "commit"}

(* A thread waits for so many clock edges and then so many delta cycles.    *)
Delay == [clk : Nat, delta : Nat]
Now == [clk |-> 0, delta |-> 0]

(* Between two sc_start() calls the kernel is "stopped" at the next clock   *)
(* edge, or, after the two zero-time starts of finish_memory, "paused"      *)
(* after the first delta cycle of that edge.                                *)
RunState == {"stopped", "cycle", "zero", "paused"}

KernelTypeOK ==
    /\ flag \in [Flag -> BOOLEAN] /\ flagNext \in [Flag -> BOOLEAN]
    /\ addr \in [AddressSignal -> Address]
    /\ addrNext \in [AddressSignal -> Address]
    /\ bus \in Bus
    /\ pc \in [Thread -> Label]
    /\ delay \in [Thread -> Delay]
    /\ run \in RunState

-----------------------------------------------------------------------------
(* What a thread does between two waits.                                    *)

Runs(t, label) ==
    /\ run \in {"cycle", "zero"}
    /\ pc[t] = label
    /\ delay[t] = Now

Suspend(t, label, clocks, deltas) ==
    /\ pc' = [pc EXCEPT ![t] = label]
    /\ delay' = [delay EXCEPT ![t] = [clk |-> clocks, delta |-> deltas]]
    /\ UNCHANGED run

(* Request new values for signals.                                          *)
Drive(driven) == flagNext' = driven /\ UNCHANGED flag

DriveAddress(s, a) ==
    /\ addrNext' = [addrNext EXCEPT ![s] = a]
    /\ UNCHANGED addr

(* Assignment to a signal from outside the simulation, between two          *)
(* sc_start() calls: nothing else is requested then, and no thread runs     *)
(* before the kernel has updated it.                                        *)
AssignNow(forced) == flag' = forced /\ flagNext' = forced

-----------------------------------------------------------------------------
(* The scheduler.  A clock edge releases the threads that wait for it; a    *)
(* delta cycle ends when no released thread is left to run, publishes the   *)
(* signals and counts down the wait(SC_ZERO_TIME) calls.                    *)

NoThreadReady == \A t \in Thread : delay[t] # Now

(* Every thread waits for the clock and no signal is about to change.       *)
SignalsSettled ==
    /\ \A t \in Thread : delay[t].clk > 0
    /\ flagNext = flag
    /\ addrNext = addr

ClockEdge ==
    /\ run = "stopped"
    /\ delay' = [t \in Thread |-> [delay[t] EXCEPT !.clk = @ - 1]]

DeltaCycle ==
    /\ run \in {"cycle", "zero"}
    /\ NoThreadReady
    /\ flag' = flagNext
    /\ addr' = addrNext
    /\ delay' = [t \in Thread |-> IF delay[t].clk = 0
                                  THEN [delay[t] EXCEPT !.delta = @ - 1]
                                  ELSE delay[t]]
    /\ run' = IF run = "zero" THEN "paused" ELSE run
    /\ UNCHANGED <<flagNext, addrNext, bus, pc>>

KernelInit ==
    /\ flag = [s \in Flag |-> FALSE] /\ flagNext = flag
    /\ addr = [s \in AddressSignal |-> 0] /\ addrNext = addr
    /\ bus = [data_in |-> Zero, data_out |-> Zero,
              data_from_L1_to_L2 |-> Zero, data_from_L2_to_L1 |-> ZeroLine,
              data_from_L2_to_Memory |-> Zero,
              data_from_Memory_to_L2 |-> ZeroLine]
    /\ pc = [t \in Thread |-> "restart"]
    /\ delay = [t \in Thread |->
                  [clk |-> 1, delta |-> IF t = "MEMORY" THEN 2 ELSE 0]]
    /\ run = "stopped"

(* sc_fifo: what is written is readable, and what is read is free again,    *)
(* only after the delta cycle.                                              *)
EmptyFifo(capacity) == [queue |-> <<>>, avail |-> 0, free |-> capacity]
FifoWrite(f, item) == [f EXCEPT !.queue = Append(@, item), !.free = @ - 1]
FifoRead(f) == [f EXCEPT !.queue = Tail(@), !.avail = @ - 1]
FifoUpdate(f, capacity) ==
    [f EXCEPT !.avail = Len(f.queue), !.free = capacity - Len(f.queue)]
FifoSettled(f, capacity) == f = FifoUpdate(f, capacity)
=============================================================================
