-------------------------- MODULE StorebackBuffer --------------------------
(***************************************************************************)
(* The store-back buffer (storeback_buffer.hpp): the sc_fifo of pending     *)
(* writes and, beside it, the ring of line numbers with head, tail and the  *)
(* flag empty that in_buffer() and is_empty() look at.  write() runs in the *)
(* thread of L2, read() in the thread of MEMORY; the operators below are    *)
(* what each does between two of its waits.  The data fifo and the address  *)
(* fifo are always written and read together and are one fifo of pairs.     *)
(***************************************************************************)
EXTENDS SystemC, CacheIndex

CONSTANTS
    StorebackLines,   \* capacity of the buffer; 0: no store-back buffer
    Conditional,      \* flush only when the line is found in the buffer
    InitialPointers   \* values head and tail can start with

VARIABLE storeback

HasStoreback == StorebackLines > 0
Slot == 0 .. StorebackLines - 1
Write == [address : Address, data : Value]

StorebackTypeOK ==
    storeback \in [fifo : [queue : Seq(Write), avail : Nat, free : Nat],
                   tags_storeback : [Slot -> Nat],
                   head : Nat, tail : Nat, empty : BOOLEAN]

(* The constructor gives head and tail no value.                            *)
StorebackInit ==
    \E p \in InitialPointers :
        storeback = [fifo |-> EmptyFifo(StorebackLines),
                     tags_storeback |-> [i \in Slot |-> 0],
                     head |-> p[1], tail |-> p[2], empty |-> TRUE]

(* A mistake: the tag is stored where the next read takes place.            *)
StorebackWriteAtHead(w) ==
    storeback' = [storeback EXCEPT
        !.fifo = FifoWrite(@, w),
        !.tags_storeback[storeback.head] = LineNumber(w.address, LineWords),
        !.tail = (@ + 1) % StorebackLines,
        !.empty = FALSE]

(* A mistake: an entry does not make the buffer non-empty.                  *)
StorebackWriteSilently(w) ==
    storeback' = [storeback EXCEPT
        !.fifo = FifoWrite(@, w),
        !.tags_storeback[storeback.tail] = LineNumber(w.address, LineWords),
        !.tail = (@ + 1) % StorebackLines]

(* write(), after its two delta cycles, when the fifo has room.             *)
StorebackWrite(w) ==
    storeback' = [storeback EXCEPT
        !.fifo = FifoWrite(@, w),
        !.tags_storeback[storeback.tail] = LineNumber(w.address, LineWords),
        !.tail = (@ + 1) % StorebackLines,
        !.empty = FALSE]

(* read(), after its first delta cycle, when the fifo has an entry ...      *)
StorebackTake == storeback' = [storeback EXCEPT !.fifo = FifoRead(@)]

(* A mistake: head stays where it is unless the buffer runs empty.          *)
StorebackHeadStays ==
    LET head == (storeback.head + 1) % StorebackLines
    IN storeback' = [storeback EXCEPT
           !.head = IF head = storeback.tail THEN head ELSE @,
           !.empty = (head = storeback.tail) \/ @]

(* ... and after the second.                                                *)
StorebackAdvanceHead ==
    LET head == (storeback.head + 1) % StorebackLines
    IN storeback' = [storeback EXCEPT
           !.head = head,
           !.empty = (head = storeback.tail) \/ @]

(* The entries in_buffer() looks at: a full ring has head = tail again.     *)
EntriesCounted ==
    ((storeback.tail - storeback.head) + StorebackLines) % StorebackLines

in_buffer(tag) ==
    IF Conditional
    THEN \E i \in 0 .. EntriesCounted - 1 :
           storeback.tags_storeback[(i + storeback.head) % StorebackLines] = tag
    ELSE ~storeback.empty

is_empty == storeback.empty

StorebackUpdate ==
    storeback' = [storeback EXCEPT !.fifo = FifoUpdate(@, StorebackLines)]
=============================================================================
