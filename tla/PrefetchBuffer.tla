-------------------------- MODULE PrefetchBuffer --------------------------
(***************************************************************************)
(* The prefetch buffer (prefetch_buffer.hpp): an sc_fifo of lines that      *)
(* MEMORY writes and L2 reads.                                              *)
(***************************************************************************)
EXTENDS SystemC

CONSTANT PrefetchLines   \* capacity of the buffer; 0: no prefetch buffer

VARIABLE prefetch

HasPrefetch == PrefetchLines > 0
PrefetchedLine == [address : Address, data : Line]

PrefetchTypeOK ==
    prefetch \in [queue : Seq(PrefetchedLine), avail : Nat, free : Nat]

PrefetchInit == prefetch = EmptyFifo(PrefetchLines)

(* write(), after its delta cycles: a line that finds no room is lost.      *)
PrefetchWrite(line) ==
    prefetch' = IF prefetch.free > 0 THEN FifoWrite(prefetch, line) ELSE prefetch

PrefetchTake == prefetch' = FifoRead(prefetch)

PrefetchUpdate == prefetch' = FifoUpdate(prefetch, PrefetchLines)
=============================================================================
