------------------------- MODULE Hierarchy_proofs -------------------------
(***************************************************************************)
(* The types of CPU_L1_L2 are kept by every step, for every size of the     *)
(* caches, of the buffers and of the memory and all latencies; and the      *)
(* handshake of send_request(), L1 and L2: at which pair of waits the       *)
(* valid, done and hit signals between them are up.  It is what the         *)
(* statistics rest on, which look at these signals once per clock cycle.    *)
(***************************************************************************)
EXTENDS Hierarchy, SequenceTheorems, TLAPS

(* A remainder is a number below the divisor.                               *)
LEMMA ModRange ==
    ASSUME NEW a \in Nat, NEW b \in Nat \ {0}
    PROVE  a % b \in 0 .. b - 1 /\ a % b \in Nat
  OBVIOUS

(* A quotient of natural numbers is one.                                    *)
LEMMA DivNat ==
    ASSUME NEW a \in Nat, NEW b \in Nat \ {0}
    PROVE  a \div b \in Nat
  OBVIOUS

(* So is a product.                                                         *)
LEMMA MulNat ==
    ASSUME NEW a \in Nat, NEW b \in Nat
    PROVE  a * b \in Nat
  OBVIOUS

(* An address is split into an offset inside a line, an index inside the    *)
(* cache and a tag, for every number of lines and of words in a line        *)
(* (cache_l1.hpp, cache_l2.hpp): no access to the arrays of a cache is out  *)
(* of bounds.                                                               *)
LEMMA IndexType ==
    ASSUME NEW a \in Address, NEW lines \in {L1Lines, L2Lines}
    PROVE  /\ Index(a, LineWords, lines) \in 0 .. lines - 1
           /\ TagOf(a, LineWords, lines) \in Nat
           /\ Offset(a, LineWords) \in LineOffset
           /\ LineNumber(a, LineWords) \in Nat
<1>1. /\ a \in Nat /\ FloorPower(LineWords) \in Nat \ {0}
      /\ lines \in Nat \ {0} /\ PowerOfTwo(lines) \in Nat \ {0, 1}
  BY ConstantsAssumption, PowerAssumption DEF Address
<1>2. LineNumber(a, LineWords) \in Nat
  BY <1>1, DivNat DEF LineNumber
<1>3. Offset(a, LineWords) \in LineOffset
  BY PowerAssumption DEF LineOffset
<1>4. LineNumber(a, LineWords) % PowerOfTwo(lines) \in Nat
  <2>1. PowerOfTwo(lines) \in Nat \ {0}
    BY <1>1
  <2>2. QED
    BY <1>2, <2>1, ModRange
<1>5. Index(a, LineWords, lines) \in 0 .. lines - 1
  <2>1. (LineNumber(a, LineWords) % PowerOfTwo(lines)) % lines
          \in 0 .. lines - 1
    BY <1>1, <1>4, ModRange
  <2>2. QED
    BY <2>1 DEF Index
<1>6. PowerOfTwo(lines) \div 2 \in Nat \ {0}
  BY <1>1
<1>7. TagOf(a, LineWords, lines) \in Nat
  BY <1>1, <1>2, <1>6, DivNat DEF TagOf
<1>8. QED
  BY <1>2, <1>3, <1>5, <1>7

(* A step of the thread t takes place inside sc_start() and moves no other   *)
(* thread.                                                                  *)
OnlyMoves(t) ==
    /\ run \in {"cycle", "zero"} /\ run' = run
    /\ \A u \in Thread \ {t} : pc'[u] = pc[u]

(* An sc_fifo of items.                                                     *)
Fifo(Item) == [queue : Seq(Item), avail : Nat, free : Nat]

(* Entries that can be read are in the fifo, and the entries and the free    *)
(* places together never exceed its capacity: a place that is read is free  *)
(* only after the delta cycle, one that is written is taken at once.        *)
FifoBounded(f, capacity) ==
    /\ f.avail <= Len(f.queue)
    /\ Len(f.queue) + f.free <= capacity

(* write() of an sc_fifo with a free place.                                 *)
LEMMA FifoWriteType ==
    ASSUME NEW Item, NEW f \in Fifo(Item), NEW capacity \in Nat,
           FifoBounded(f, capacity), NEW item \in Item, f.free > 0
    PROVE  /\ FifoWrite(f, item) \in Fifo(Item)
           /\ FifoBounded(FifoWrite(f, item), capacity)
<1>1. f.queue \in Seq(Item) /\ f.avail \in Nat /\ f.free \in Nat
  BY DEF Fifo
<1>2. /\ Append(f.queue, item) \in Seq(Item)
      /\ Len(Append(f.queue, item)) = Len(f.queue) + 1
  BY <1>1, AppendProperties
<1>3. Len(f.queue) \in Nat
  BY <1>1, LenProperties
<1>4. f.free - 1 \in Nat
  BY <1>1
<1>5. FifoWrite(f, item) \in Fifo(Item)
  BY <1>1, <1>2, <1>4 DEF Fifo, FifoWrite
<1>6. /\ FifoWrite(f, item).queue = Append(f.queue, item)
      /\ FifoWrite(f, item).avail = f.avail
      /\ FifoWrite(f, item).free = f.free - 1
  BY DEF Fifo, FifoWrite
<1>7. QED
  BY <1>1, <1>2, <1>3, <1>5, <1>6 DEF FifoBounded

(* read() of an sc_fifo that has an entry to read.                          *)
LEMMA FifoReadType ==
    ASSUME NEW Item, NEW f \in Fifo(Item), NEW capacity \in Nat,
           FifoBounded(f, capacity), f.avail > 0
    PROVE  /\ Head(f.queue) \in Item
           /\ capacity > 0
           /\ FifoRead(f) \in Fifo(Item)
           /\ FifoBounded(FifoRead(f), capacity)
<1>1. f.queue \in Seq(Item) /\ f.avail \in Nat /\ f.free \in Nat
  BY DEF Fifo
<1>2. Len(f.queue) \in Nat /\ Len(f.queue) > 0 /\ f.queue # << >>
  BY <1>1, LenProperties, EmptySeq DEF FifoBounded
<1>3. /\ Head(f.queue) \in Item /\ Tail(f.queue) \in Seq(Item)
      /\ Len(Tail(f.queue)) = Len(f.queue) - 1
  BY <1>1, <1>2, HeadTailProperties
<1>4. /\ FifoRead(f).queue = Tail(f.queue)
      /\ FifoRead(f).avail = f.avail - 1
      /\ FifoRead(f).free = f.free
  BY DEF Fifo, FifoRead
<1>5. FifoRead(f) \in Fifo(Item)
  <2>1. f.avail - 1 \in Nat
    BY <1>1
  <2>2. QED
    BY <1>1, <1>3, <2>1 DEF Fifo, FifoRead
<1>6. FifoBounded(FifoRead(f), capacity)
  BY <1>1, <1>2, <1>3, <1>4 DEF FifoBounded
<1>7. capacity > 0
  BY <1>1, <1>2 DEF FifoBounded
<1>8. QED
  BY <1>3, <1>5, <1>6, <1>7

(* The update of an sc_fifo at the end of a delta cycle.                    *)
LEMMA FifoUpdateType ==
    ASSUME NEW Item, NEW f \in Fifo(Item), NEW capacity \in Nat,
           FifoBounded(f, capacity)
    PROVE  /\ FifoUpdate(f, capacity) \in Fifo(Item)
           /\ FifoBounded(FifoUpdate(f, capacity), capacity)
<1>1. f.queue \in Seq(Item) /\ f.free \in Nat /\ Len(f.queue) \in Nat
  BY LenProperties DEF Fifo
<1>2. capacity - Len(f.queue) \in Nat
  BY <1>1 DEF FifoBounded
<1>3. FifoUpdate(f, capacity) \in Fifo(Item)
  BY <1>1, <1>2 DEF Fifo, FifoUpdate
<1>4. /\ FifoUpdate(f, capacity).queue = f.queue
      /\ FifoUpdate(f, capacity).avail = Len(f.queue)
      /\ FifoUpdate(f, capacity).free = capacity - Len(f.queue)
  BY DEF Fifo, FifoUpdate
<1>5. QED
  BY <1>1, <1>2, <1>3, <1>4 DEF FifoBounded

(* Both buffers are well formed and within their capacity.                  *)
BuffersOK ==
    /\ StorebackTypeOK /\ PrefetchTypeOK
    /\ FifoBounded(storeback.fifo, StorebackLines)
    /\ FifoBounded(prefetch, PrefetchLines)

(* Where the latched address of L1 falls.                                   *)
LEMMA L1PlaceType ==
    ASSUME L1TypeOK
    PROVE  L1Index \in L1Line /\ L1Offset \in LineOffset /\ L1Tag \in Nat
  BY IndexType DEF L1TypeOK, L1Index, L1Offset, L1Tag, L1Line

(* A step of L1 keeps the types of what it may write.                       *)
LEMMA L1StepType ==
    ASSUME KernelTypeOK, L1TypeOK, L1Next
    PROVE  KernelTypeOK' /\ L1TypeOK' /\ OnlyMoves("L1")
<1> USE ConstantsAssumption
    DEF KernelTypeOK, L1TypeOK, Suspend, Drive, DriveAddress, Flag,
        AddressSignal, Thread, Label, Delay, signalVars, Runs, OnlyMoves
<1>1. CASE L1Restart
  BY <1>1 DEF L1Restart
<1>2. CASE L1Poll
  BY <1>2 DEF L1Poll
<1>3. CASE L1Write
  <2> USE <1>3 DEF L1Write
  <2>1. l1' \in [cache_blocks : [L1Line -> Line], valid : [L1Line -> BOOLEAN],
                 tags : [L1Line -> Nat], address_int : Address]
    <3>1. CASE ~L1Matches
      BY <3>1
    <3>2. CASE L1Matches
      <4>1. bus.data_in \in Value
        BY DEF Bus
      <4>2. [l1.cache_blocks[L1Index] EXCEPT ![L1Offset] = bus.data_in] \in Line
        BY <4>1, L1PlaceType DEF Line
      <4>3. QED
        BY <3>2, <4>2
    <3>3. QED
      BY <3>1, <3>2
  <2>2. bus' \in Bus
    BY DEF Bus
  <2>3. QED
    BY <2>1, <2>2 DEF L1Propagate, L1Matches
<1>4. CASE L1ReadHit
  <2>1. l1.cache_blocks[L1Index][L1Offset] \in Value
    BY L1PlaceType DEF Line
  <2>2. bus' \in Bus
    BY <1>4, <2>1 DEF L1ReadHit, Bus
  <2>3. QED
    BY <1>4, <2>2 DEF L1ReadHit
<1>5. CASE L1ReadMiss
  BY <1>5 DEF L1ReadMiss, L1Propagate
<1>6. CASE L1StillWaiting
  BY <1>6 DEF L1StillWaiting
<1>7. CASE L1WriteDone
  BY <1>7 DEF L1WriteDone, L1Complete
<1>8. CASE L1Fill
  <2>1. bus.data_from_L2_to_L1 \in Line
    BY DEF Bus
  <2>2. bus.data_from_L2_to_L1[L1Offset] \in Value
    BY <2>1, L1PlaceType DEF Line
  <2>3. bus' \in Bus
    BY <1>8, <2>2 DEF L1Fill, Bus
  <2>4. l1' \in [cache_blocks : [L1Line -> Line], valid : [L1Line -> BOOLEAN],
                 tags : [L1Line -> Nat], address_int : Address]
    BY <1>8, <2>1, L1PlaceType DEF L1Fill
  <2>5. QED
    BY <1>8, <2>3, <2>4 DEF L1Fill, L1Complete
<1>9. QED
  BY <1>1, <1>2, <1>3, <1>4, <1>5, <1>6, <1>7, <1>8 DEF L1Next

(* Where the latched address of L2 falls.                                   *)
LEMMA L2PlaceType ==
    ASSUME L2TypeOK
    PROVE  L2Index \in L2Line /\ L2Offset \in LineOffset /\ L2Tag \in Nat
  BY IndexType DEF L2TypeOK, L2Index, L2Offset, L2Tag, L2Line

(* The type of l2, apart from the thread.                                   *)
L2State == [cache_blocks : [L2Line -> Line], valid : [L2Line -> BOOLEAN],
            tags : [L2Line -> Nat], address_int : Address,
            i : Nat, fetched : PrefetchedLine]

(* L2 after a line was filled.                                              *)
LEMMA FilledType ==
    ASSUME L2TypeOK, NEW a \in Address, NEW data \in Line
    PROVE  /\ Filled(a, data) \in L2State
           /\ Filled(a, data).address_int = l2.address_int
<1>1. /\ Index(a, LineWords, L2Lines) \in L2Line
      /\ TagOf(a, LineWords, L2Lines) \in Nat
  BY IndexType DEF L2Line
<1>2. QED
  BY <1>1 DEF L2TypeOK, L2State, Filled

(* The bus towards L1 after the first word of a line was put on it.         *)
LEMMA WordToL1Type ==
    ASSUME bus \in Bus, NEW blocks \in [L2Line -> Line], NEW index \in L2Line
    PROVE  [bus EXCEPT !.data_from_L2_to_L1[0] = blocks[index][0]] \in Bus
<1>1. 0 \in LineOffset
  BY ConstantsAssumption DEF LineOffset
<1>2. blocks[index][0] \in Value
  BY <1>1 DEF Line
<1>3. [bus.data_from_L2_to_L1 EXCEPT ![0] = blocks[index][0]] \in Line
  BY <1>2 DEF Bus, Line
<1>4. QED
  BY <1>3 DEF Bus

(* Untouched buffers stay well formed.                                      *)
LEMMA BuffersUnchanged ==
    ASSUME BuffersOK, UNCHANGED bufferVars
    PROVE  BuffersOK'
  BY DEF BuffersOK, bufferVars, StorebackTypeOK, PrefetchTypeOK, FifoBounded

(* A prefetched line put into the buffer, or lost for want of room.         *)
LEMMA PrefetchWriteType ==
    ASSUME BuffersOK, NEW STATE line, line \in PrefetchedLine,
           PrefetchWrite(line), UNCHANGED storeback
    PROVE  BuffersOK'
<1>1. /\ prefetch \in Fifo(PrefetchedLine)
      /\ FifoBounded(prefetch, PrefetchLines)
  BY DEF BuffersOK, PrefetchTypeOK, Fifo
<1>2. /\ prefetch' \in Fifo(PrefetchedLine)
      /\ FifoBounded(prefetch', PrefetchLines)
  <2>1. CASE prefetch.free > 0
    <3>1. prefetch' = FifoWrite(prefetch, line)
      BY <2>1 DEF PrefetchWrite
    <3>2. PrefetchLines \in Nat
      BY ConstantsAssumption
    <3>3. QED
      BY <1>1, <2>1, <3>1, <3>2, FifoWriteType
  <2>2. CASE ~(prefetch.free > 0)
    BY <1>1, <2>2 DEF PrefetchWrite
  <2>3. QED
    BY <2>1, <2>2
<1>3. PrefetchTypeOK' /\ FifoBounded(prefetch, PrefetchLines)'
  BY <1>2 DEF PrefetchTypeOK, Fifo, FifoBounded
<1>4. StorebackTypeOK' /\ FifoBounded(storeback.fifo, StorebackLines)'
  BY DEF BuffersOK, StorebackTypeOK, FifoBounded
<1>5. QED
  BY <1>3, <1>4 DEF BuffersOK

(* The end of every request in L2.                                          *)
LEMMA L2CompleteType ==
    ASSUME KernelTypeOK, NEW STATE driven, driven \in [Flag -> BOOLEAN],
           L2Complete(driven)
    PROVE  /\ flag' \in [Flag -> BOOLEAN] /\ flagNext' \in [Flag -> BOOLEAN]
           /\ addr' = addr /\ addrNext' = addrNext
           /\ pc' \in [Thread -> Label] /\ pc'["L2"] = "restart"
           /\ \A u \in Thread \ {"L2"} : pc'[u] = pc[u]
           /\ delay' \in [Thread -> Delay]
           /\ run' = run
  BY DEF L2Complete, KernelTypeOK, Drive, Suspend, Thread, Label, Delay, Flag

(* The signals after the command to memory was withdrawn.                    *)
LEMMA WithdrawnType ==
    ASSUME KernelTypeOK PROVE Withdrawn \in [Flag -> BOOLEAN]
  BY DEF KernelTypeOK, Withdrawn, Flag

(* A step of L2 keeps the types of what it may write, the buffers included.  *)
LEMMA L2StepType ==
    ASSUME KernelTypeOK, L2TypeOK, BuffersOK, L2Next
    PROVE  KernelTypeOK' /\ L2TypeOK' /\ BuffersOK' /\ OnlyMoves("L2")
<1> USE ConstantsAssumption
    DEF KernelTypeOK, L2TypeOK, Suspend, Drive, DriveAddress, Flag,
        AddressSignal, Thread, Label, Delay, signalVars, Runs, OnlyMoves
<1>1. CASE L2Restart
  BY <1>1, BuffersUnchanged DEF L2Restart
<1>2. CASE L2Poll
  BY <1>2, BuffersUnchanged DEF L2Poll
<1>3. CASE L2Write
  <2>1. l2' \in L2State
    <3>1. CASE ~L2Matches
      BY <1>3, <3>1 DEF L2State, L2Write
    <3>2. CASE L2Matches
      <4>1. bus.data_from_L1_to_L2 \in Value
        BY DEF Bus
      <4>2. [l2.cache_blocks[L2Index] EXCEPT
               ![L2Offset] = bus.data_from_L1_to_L2] \in Line
        BY <4>1, L2PlaceType DEF Line
      <4>3. QED
        BY <1>3, <3>2, <4>2 DEF L2State, L2Write
    <3>3. QED
      BY <3>1, <3>2
  <2>2. bus' \in Bus
    BY <1>3 DEF Bus, L2Write
  <2>3. /\ pc' \in [Thread -> Label] /\ pc'["L2"] \in {"store", "await_write"}
        /\ delay' \in [Thread -> Delay]
        /\ OnlyMoves("L2")
    BY <1>3 DEF L2Write
  <2>4. /\ flag' \in [Flag -> BOOLEAN] /\ flagNext' \in [Flag -> BOOLEAN]
        /\ addr' \in [AddressSignal -> Address]
        /\ addrNext' \in [AddressSignal -> Address]
    BY <1>3 DEF L2Write, L2Matches
  <2>5. BuffersOK'
    BY <1>3, BuffersUnchanged DEF L2Write
  <2>6. QED
    BY <2>1, <2>2, <2>3, <2>4, <2>5 DEF L2State
<1>4. CASE L2Store
  <2> DEFINE w == [address |-> addr["address_from_L1_to_L2"],
                   data |-> bus.data_from_L2_to_Memory]
  <2>1. w \in Write
    BY DEF Write, Bus
  <2>2. storeback.fifo \in Fifo(Write) /\ storeback.fifo.free > 0
    BY <1>4 DEF L2Store, BuffersOK, StorebackTypeOK, Fifo
  <2>3. /\ FifoWrite(storeback.fifo, w) \in Fifo(Write)
        /\ FifoBounded(FifoWrite(storeback.fifo, w), StorebackLines)
    BY <2>1, <2>2, FifoWriteType DEF BuffersOK
  <2>4. StorebackLines \in Nat \ {0}
    BY SMTT(30), <2>2, LenProperties DEF BuffersOK, FifoBounded, Fifo
  <2>5. LineNumber(w.address, LineWords) \in Nat
    BY <2>1, IndexType DEF Write
  <2>6. (storeback.tail + 1) % StorebackLines \in Nat
    <3>1. storeback.tail + 1 \in Nat
      BY DEF BuffersOK, StorebackTypeOK
    <3>2. QED
      BY <2>4, <3>1, ModRange
  <2> HIDE DEF w
  <2>7. StorebackWrite(w)
    BY <1>4 DEF L2Store, w
  <2>8. StorebackTypeOK' /\ storeback'.fifo = FifoWrite(storeback.fifo, w)
    BY <2>3, <2>5, <2>6, <2>7 DEF BuffersOK, StorebackTypeOK, StorebackWrite, Fifo
  <2>9. BuffersOK'
    BY <1>4, <2>3, <2>8 DEF L2Store, BuffersOK, PrefetchTypeOK, FifoBounded
  <2>10. QED
    BY <1>4, <2>9 DEF L2Store, L2Complete, Withdrawn
<1>5. CASE L2StoreFails
  BY <1>5, BuffersUnchanged DEF L2StoreFails
<1>6. CASE L2Retry
  <2>1. BuffersOK'
    BY <1>6, BuffersUnchanged DEF L2Retry
  <2>2. CASE flag["valid_from_L1_to_L2"]
    BY <1>6, <2>1, <2>2 DEF L2Retry
  <2>3. CASE ~flag["valid_from_L1_to_L2"]
    BY <1>6, <2>1, <2>3, WithdrawnType, L2CompleteType DEF L2Retry
  <2>4. QED
    BY <2>2, <2>3
<1>7. CASE L2ReadHit
  <2>1. bus' \in Bus
    BY <1>7, L2PlaceType, WordToL1Type DEF L2ReadHit
  <2>2. BuffersOK'
    BY <1>7, BuffersUnchanged DEF L2ReadHit
  <2>3. QED
    BY <1>7, <2>1, <2>2, L2CompleteType DEF L2ReadHit
<1>8. CASE L2ReadMiss
  BY <1>8, BuffersUnchanged DEF L2ReadMiss
<1>9. CASE L2StillWaiting
  BY <1>9, BuffersUnchanged DEF L2StillWaiting
<1>10. CASE L2WriteDone
  BY <1>10, BuffersUnchanged DEF L2WriteDone, L2Complete, Withdrawn
<1>11. CASE L2FlushDone
  BY <1>11, BuffersUnchanged DEF L2FlushDone
<1>12. CASE L2Issue
  BY <1>12, BuffersUnchanged DEF L2Issue
<1>13. CASE L2Fill
  <2>1. l2' \in L2State /\ l2'.address_int = l2.address_int
    <3>1. /\ Filled(l2.address_int, bus.data_from_Memory_to_L2) \in L2State
          /\ Filled(l2.address_int, bus.data_from_Memory_to_L2).address_int
               = l2.address_int
      BY FilledType DEF Bus
    <3>2. QED
      BY <1>13, <3>1 DEF L2Fill, L2State
  <2>2. BuffersOK'
    BY <1>13, BuffersUnchanged DEF L2Fill
  <2>3. CASE HasPrefetch
    BY <1>13, <2>1, <2>2, <2>3, WithdrawnType DEF L2Fill, L2State
  <2>4. CASE ~HasPrefetch
    <3>1. bus' \in Bus
      BY <1>13, <2>1, <2>4, L2PlaceType, WordToL1Type
      DEF L2Fill, L2Answer, L2State
    <3>2. QED
      BY <1>13, <2>1, <2>2, <2>4, <3>1, WithdrawnType, L2CompleteType
      DEF L2Fill, L2Answer, L2State
  <2>5. QED
    BY <2>3, <2>4
<1>14. CASE L2PrefetchTake
  <2>1. /\ prefetch \in Fifo(PrefetchedLine) /\ prefetch.avail > 0
        /\ FifoBounded(prefetch, PrefetchLines)
    BY <1>14 DEF L2PrefetchTake, BuffersOK, PrefetchTypeOK, Fifo
  <2>2. /\ Head(prefetch.queue) \in PrefetchedLine
        /\ FifoRead(prefetch) \in Fifo(PrefetchedLine)
        /\ FifoBounded(FifoRead(prefetch), PrefetchLines)
    BY <2>1, FifoReadType
  <2>3. BuffersOK'
    BY <1>14, <2>2
    DEF L2PrefetchTake, PrefetchTake, BuffersOK, StorebackTypeOK,
        PrefetchTypeOK, FifoBounded, Fifo
  <2>4. QED
    BY <1>14, <2>2, <2>3 DEF L2PrefetchTake
<1>15. CASE L2PrefetchEmpty
  BY <1>15, BuffersUnchanged DEF L2PrefetchEmpty
<1>16. CASE L2Install
  <2>1. l2' \in L2State /\ l2'.address_int = l2.address_int
    <3>1. /\ Filled(l2.fetched.address, l2.fetched.data) \in L2State
          /\ Filled(l2.fetched.address, l2.fetched.data).address_int
               = l2.address_int
      BY FilledType DEF PrefetchedLine
    <3>2. QED
      BY <1>16, <3>1 DEF L2Install, L2State
  <2>2. BuffersOK'
    BY <1>16, BuffersUnchanged DEF L2Install
  <2>3. CASE l2'.i < PrefetchLines
    BY <1>16, <2>1, <2>2, <2>3 DEF L2Install, L2State
  <2>4. CASE ~(l2'.i < PrefetchLines)
    <3>1. bus' \in Bus
      BY <1>16, <2>1, <2>4, L2PlaceType, WordToL1Type
      DEF L2Install, L2Answer, L2State
    <3>2. QED
      BY <1>16, <2>1, <2>2, <2>4, <3>1, L2CompleteType
      DEF L2Install, L2Answer, L2State
  <2>5. QED
    BY <2>3, <2>4
<1>17. QED
  BY <1>1, <1>2, <1>3, <1>4, <1>5, <1>6, <1>7, <1>8, <1>9, <1>10, <1>11,
     <1>12, <1>13, <1>14, <1>15, <1>16 DEF L2Next

(* The bytes that memory reads for a line.                                  *)
LEMMA LineAtType ==
    ASSUME memory_blocks \in [Address -> Value], NEW a \in Address,
           NEW STATE old, old \in Line
    PROVE  LineAt(a, old) \in Line
<1>1. ASSUME NEW i \in LineOffset, a + i <= MaxAddress
      PROVE  memory_blocks[a + i] \in Value
  <2>1. a + i \in Address
    BY <1>1, ConstantsAssumption DEF Address, LineOffset
  <2>2. QED
    BY <2>1
<1>2. QED
  BY <1>1 DEF LineAt, Line

(* The type of memory, apart from the thread.                               *)
MemoryState ==
    [write_underway : BOOLEAN, temp : [present : BOOLEAN, data : Value],
     address_u : Address, data : Value,
     write_address : Address \cup {Elsewhere},
     i : Nat, prefetched_line : PrefetchedLine]

(* Only a memory with a store-back buffer is ever between the two steps of   *)
(* read(): the division by its size is defined there.                       *)
TakenFromBuffer == pc["MEMORY"] = "taken" => StorebackLines > 0

(* A step of MEMORY keeps the types of what it may write.                   *)
LEMMA MemoryStepType ==
    ASSUME KernelTypeOK, MemoryTypeOK, BuffersOK, TakenFromBuffer, MemoryNext
    PROVE  /\ KernelTypeOK' /\ MemoryTypeOK' /\ BuffersOK'
           /\ TakenFromBuffer' /\ OnlyMoves("MEMORY")
<1> USE ConstantsAssumption
    DEF KernelTypeOK, MemoryTypeOK, Suspend, Drive, Flag, AddressSignal,
        Thread, Label, Delay, signalVars, memoryVars, Runs, OnlyMoves,
        TakenFromBuffer
<1>0. UNCHANGED memoryBuffers => BuffersOK'
  BY BuffersUnchanged DEF memoryBuffers, bufferVars
<1>1. CASE MemoryRestart
  BY <1>0, <1>1 DEF MemoryRestart
<1>2. CASE MemoryIdle
  BY <1>0, <1>2 DEF MemoryIdle
<1>3. CASE MemoryAcceptRead
  BY <1>0, <1>3 DEF MemoryAcceptRead, Polled
<1>4. CASE MemoryAcceptWrite
  BY <1>0, <1>4 DEF MemoryAcceptWrite, Polled
<1>5. CASE MemoryAcceptDrain
  BY <1>0, <1>5 DEF MemoryAcceptDrain, Polled, StartDraining
<1>6. CASE MemoryRead
  <2>1. LineAt(memory.address_u, bus.data_from_Memory_to_L2) \in Line
    BY LineAtType DEF Bus
  <2>2. bus' \in Bus
    BY <1>6, <2>1 DEF MemoryRead, Bus
  <2>3. QED
    BY <1>0, <1>6, <2>2 DEF MemoryRead
<1>7. CASE MemoryPrefetch
  <2> DEFINE a == (memory.address_u + LineWords + memory.i * LineWords)
                    % (MaxAddress + 1)
  <2>1. a \in Address
    <3>1. memory.address_u + LineWords + memory.i * LineWords \in Nat
      <4>1. /\ memory.address_u \in Nat /\ LineWords \in Nat
            /\ memory.i * LineWords \in Nat
        BY MulNat DEF Address
      <4>2. QED
        BY <4>1
    <3>2. MaxAddress + 1 \in Nat \ {0}
      OBVIOUS
    <3>3. QED
      <4>1. a \in 0 .. (MaxAddress + 1) - 1
        BY <3>1, <3>2, ModRange
      <4>2. QED
        BY <4>1 DEF Address
  <2>2. ZeroLine \in Line
    BY DEF ZeroLine, Line
  <2>3. [address |-> a, data |-> LineAt(a, ZeroLine)] \in PrefetchedLine
    BY <2>1, <2>2, LineAtType DEF PrefetchedLine
  <2>4. memory' \in MemoryState
    BY <1>7, <2>3 DEF MemoryPrefetch, MemoryState
  <2>5. QED
    BY <1>0, <1>7, <2>4 DEF MemoryPrefetch, MemoryState
<1>8. CASE MemoryPut
  <2>1. BuffersOK'
    <3>1. memory.prefetched_line \in PrefetchedLine
      OBVIOUS
    <3>2. PrefetchWrite(memory.prefetched_line) /\ storeback' = storeback
      BY <1>8 DEF MemoryPut
    <3>3. QED
      BY <3>1, <3>2, PrefetchWriteType
  <2>2. QED
    BY <1>8, <2>1 DEF MemoryPut
<1>9. CASE MemoryReadDone
  <2>1. CASE memory.write_underway
    <3>1. StartDraining
      BY <1>9, <2>1 DEF MemoryReadDone
    <3>2. /\ flag' \in [Flag -> BOOLEAN] /\ flagNext' \in [Flag -> BOOLEAN]
          /\ pc' \in [Thread -> Label] /\ pc'["MEMORY"] = "drain"
          /\ delay' \in [Thread -> Delay]
      BY <3>1 DEF StartDraining
    <3>3. OnlyMoves("MEMORY")
      BY <1>9, <3>1 DEF MemoryReadDone, StartDraining
    <3>4. UNCHANGED <<addr, addrNext, bus, memory_blocks, memory, memoryBuffers>>
      BY <1>9 DEF MemoryReadDone
    <3>5. QED
      BY <1>0, <3>2, <3>3, <3>4
  <2>2. CASE ~memory.write_underway
    BY <1>0, <1>9, <2>2 DEF MemoryReadDone
  <2>3. QED
    BY <2>1, <2>2
<1>10. CASE MemoryWrite
  <2>1. bus.data_from_L2_to_Memory \in Value
    BY DEF Bus
  <2>2. QED
    BY <1>0, <1>10, <2>1 DEF MemoryWrite
<1>11. CASE MemoryResume
  <2>1. PICK a \in Address \cup {Elsewhere} :
          memory' = [memory EXCEPT !.data = memory.temp.data, !.temp = NoData,
                                   !.write_address = a, !.i = 0]
    BY <1>11 DEF MemoryResume
  <2>2. NoData \in [present : BOOLEAN, data : Value]
    BY DEF NoData
  <2>3. memory' \in MemoryState
    BY <2>1, <2>2 DEF MemoryState
  <2>4. QED
    BY <1>0, <1>11, <2>3 DEF MemoryResume, MemoryState
<1>12. CASE MemoryCallRead
  BY <1>0, <1>12 DEF MemoryCallRead
<1>13. CASE MemoryTake
  <2>1. /\ storeback.fifo \in Fifo(Write) /\ storeback.fifo.avail > 0
        /\ FifoBounded(storeback.fifo, StorebackLines)
    BY <1>13 DEF MemoryTake, BuffersOK, StorebackTypeOK, Fifo
  <2>2. /\ Head(storeback.fifo.queue) \in Write
        /\ FifoRead(storeback.fifo) \in Fifo(Write)
        /\ FifoBounded(FifoRead(storeback.fifo), StorebackLines)
        /\ StorebackLines > 0
    BY <2>1, FifoReadType
  <2>3. /\ StorebackTypeOK'
        /\ storeback'.fifo = FifoRead(storeback.fifo)
    BY <1>13, <2>2 DEF MemoryTake, StorebackTake, BuffersOK, StorebackTypeOK, Fifo
  <2>4. BuffersOK'
    BY <1>13, <2>2, <2>3 DEF MemoryTake, BuffersOK, PrefetchTypeOK, FifoBounded
  <2>5. memory' \in MemoryState
    BY <1>13, <2>2 DEF MemoryTake, MemoryState, Write
  <2>6. QED
    BY <1>13, <2>2, <2>4, <2>5 DEF MemoryTake, MemoryState
<1>14. CASE MemoryDrained
  BY <1>0, <1>14 DEF MemoryDrained
<1>15. CASE MemoryTaken
  <2>1. (storeback.head + 1) % StorebackLines \in Nat
    <3>1. storeback.head + 1 \in Nat
      BY DEF BuffersOK, StorebackTypeOK
    <3>2. StorebackLines \in Nat \ {0}
      BY <1>15 DEF MemoryTaken
    <3>3. QED
      BY <3>1, <3>2, ModRange
  <2>2. StorebackTypeOK' /\ storeback'.fifo = storeback.fifo
    BY <1>15, <2>1
    DEF MemoryTaken, StorebackAdvanceHead, BuffersOK, StorebackTypeOK
  <2>3. BuffersOK'
    BY <1>15, <2>2 DEF MemoryTaken, BuffersOK, PrefetchTypeOK, FifoBounded
  <2>4. QED
    BY <1>15, <2>3 DEF MemoryTaken
<1>16. CASE MemoryAbort
  BY <1>0, <1>16 DEF MemoryAbort, Data
<1>17. CASE MemoryLatencyStep
  BY <1>0, <1>17 DEF MemoryLatencyStep
<1>18. CASE MemoryCommit
  BY <1>0, <1>18 DEF MemoryCommit
<1>19. QED
  BY <1>1, <1>2, <1>3, <1>4, <1>5, <1>6, <1>7, <1>8, <1>9, <1>10, <1>11,
     <1>12, <1>13, <1>14, <1>15, <1>16, <1>17, <1>18 DEF MemoryNext

-----------------------------------------------------------------------------
(* When the driver is about to call sc_start() no thread is left at the      *)
(* clock edge that has just passed: the next edge releases each of them     *)
(* from a wait it is still in.                                              *)
ThreadsHeld ==
    run = "stopped" /\ stage \in {"idle", "request", "finish"} =>
        \A t \in Thread : delay[t].clk > 0

(* The types of what the driver keeps.                                      *)
DriverTypeOK ==
    /\ stage \in Stage /\ request \in Request
    /\ cycles \in Int /\ cycle_count \in Nat /\ l2_executes \in BOOLEAN
    /\ stats \in Stats

(* The inductive invariant.  TypeOK alone is not inductive: a fifo can only   *)
(* be read and written safely within its bounds, and a clock edge can only  *)
(* be counted down by threads that still wait for one.                      *)
IInv == TypeOK /\ BuffersOK /\ TakenFromBuffer /\ ThreadsHeld

(* The constructors establish it.                                           *)
LEMMA InitIInv == Init => IInv
<1> SUFFICES ASSUME Init PROVE IInv
  OBVIOUS
<1> USE ConstantsAssumption DEF Init
<1>1. ZeroLine \in Line /\ 0 \in Address
  BY DEF ZeroLine, Line, Address
<1>2. KernelTypeOK
  BY <1>1
  DEF KernelInit, KernelTypeOK, Bus, Delay, Thread, Label, Flag,
      AddressSignal, RunState
<1>3. L1TypeOK
  BY <1>1 DEF L1Init, L1TypeOK, KernelInit, Thread
<1>4. L2TypeOK
  BY <1>1 DEF L2Init, L2TypeOK, KernelInit, Thread, PrefetchedLine
<1>5. MemoryTypeOK
  BY <1>1 DEF MemoryInit, MemoryTypeOK, KernelInit, Thread, PrefetchedLine, NoData
<1>6. BuffersOK
  <2>1. ASSUME NEW Item, NEW c \in Nat
        PROVE  EmptyFifo(c) \in Fifo(Item) /\ FifoBounded(EmptyFifo(c), c)
    <3>1. << >> \in Seq(Item) /\ Len(<< >>) = 0
      BY EmptySeq
    <3>2. QED
      BY <3>1 DEF EmptyFifo, Fifo, FifoBounded
  <2>2. PrefetchTypeOK /\ FifoBounded(prefetch, PrefetchLines)
    BY <2>1 DEF PrefetchInit, PrefetchTypeOK, Fifo
  <2>3. StorebackTypeOK /\ FifoBounded(storeback.fifo, StorebackLines)
    <3>1. PICK p \in InitialPointers :
            storeback = [fifo |-> EmptyFifo(StorebackLines),
                         tags_storeback |-> [j \in Slot |-> 0],
                         head |-> p[1], tail |-> p[2], empty |-> TRUE]
      BY DEF StorebackInit
    <3>2. p[1] \in Nat /\ p[2] \in Nat
      OBVIOUS
    <3>3. QED
      BY <2>1, <3>1, <3>2 DEF StorebackTypeOK, Fifo
  <2>4. QED
    BY <2>2, <2>3 DEF BuffersOK
<1>7. TakenFromBuffer /\ ThreadsHeld
  BY DEF TakenFromBuffer, ThreadsHeld, KernelInit, Thread
<1>8. DriverTypeOK
  <2>1. NoRequest \in Request
    BY <1>1 DEF Request, NoRequest
  <2>2. NoStats \in Stats
    BY DEF Stats, NoStats
  <2>3. Cycles \in Int
    OBVIOUS
  <2>4. QED
    BY <2>1, <2>2, <2>3 DEF DriverTypeOK, Stage
<1>9. QED
  BY <1>2, <1>3, <1>4, <1>5, <1>6, <1>7, <1>8
  DEF IInv, TypeOK, BuffersOK, DriverTypeOK

(* Every step of the three threads keeps it.                                *)
LEMMA ThreadStepIInv ==
    ASSUME IInv, L1Step \/ L2Step \/ MemoryStep
    PROVE  IInv'
<1> USE DEF IInv, TypeOK
<1>0. DriverTypeOK' /\ stage' = stage
  BY DEF L1Step, L2Step, MemoryStep, driverVars, DriverTypeOK
<1>1. CASE L1Step
  <2>1. KernelTypeOK' /\ L1TypeOK' /\ OnlyMoves("L1")
    BY <1>1, L1StepType DEF L1Step
  <2>2. BuffersOK'
    BY <1>1, BuffersUnchanged DEF L1Step
  <2>3. L2TypeOK' /\ MemoryTypeOK' /\ TakenFromBuffer' /\ ThreadsHeld'
    BY <1>1, <2>1
    DEF L1Step, L2TypeOK, MemoryTypeOK, TakenFromBuffer, ThreadsHeld,
        OnlyMoves, memoryVars, Thread
  <2>4. QED
    BY <1>0, <2>1, <2>2, <2>3 DEF BuffersOK, DriverTypeOK
<1>2. CASE L2Step
  <2>1. KernelTypeOK' /\ L2TypeOK' /\ BuffersOK' /\ OnlyMoves("L2")
    BY <1>2, L2StepType DEF L2Step
  <2>2. L1TypeOK' /\ MemoryTypeOK' /\ TakenFromBuffer' /\ ThreadsHeld'
    BY <1>2, <2>1
    DEF L2Step, L1TypeOK, MemoryTypeOK, TakenFromBuffer, ThreadsHeld,
        OnlyMoves, memoryVars, Thread
  <2>3. QED
    BY <1>0, <2>1, <2>2 DEF BuffersOK, DriverTypeOK
<1>3. CASE MemoryStep
  <2>1. /\ KernelTypeOK' /\ MemoryTypeOK' /\ BuffersOK' /\ TakenFromBuffer'
        /\ OnlyMoves("MEMORY")
    BY <1>3, MemoryStepType DEF MemoryStep
  <2>2. L1TypeOK' /\ L2TypeOK' /\ ThreadsHeld'
    BY <1>3, <2>1
    DEF MemoryStep, L1TypeOK, L2TypeOK, ThreadsHeld, OnlyMoves, Thread
  <2>3. QED
    BY <1>0, <2>1, <2>2 DEF BuffersOK, DriverTypeOK
<1>4. QED
  BY <1>1, <1>2, <1>3

-----------------------------------------------------------------------------
(* sc_start() ends when every thread waits for a clock edge.                *)
LEMMA SettledType ==
    ASSUME KernelTypeOK, Settled
    PROVE  \A t \in Thread : delay[t].clk > 0
  BY DEF Settled, SignalsSettled

(* The counts of cycles.                                                    *)
LEMMA CountType ==
    ASSUME DriverTypeOK
    PROVE  Count \in Nat /\ CyclesAfter \in Int
  BY ConstantsAssumption DEF DriverTypeOK, Count, CyclesAfter

(* A clock edge counts down waits that are not over.                        *)
LEMMA ClockEdgeType ==
    ASSUME KernelTypeOK, ClockEdge, \A t \in Thread : delay[t].clk > 0
    PROVE  delay' \in [Thread -> Delay]
<1>1. ASSUME NEW t \in Thread
      PROVE  [delay[t] EXCEPT !.clk = @ - 1] \in Delay
  <2>1. delay[t] \in Delay
    BY DEF KernelTypeOK
  <2>2. delay[t].clk - 1 \in Nat
    BY <2>1 DEF Delay
  <2>3. QED
    BY <2>1, <2>2 DEF Delay
<1>2. QED
  BY <1>1 DEF ClockEdge

(* A delta cycle counts down waits that are not over.                       *)
LEMMA DeltaType ==
    ASSUME KernelTypeOK, DeltaCycle
    PROVE  KernelTypeOK' /\ run' # "stopped" /\ pc' = pc
<1> USE DEF KernelTypeOK, DeltaCycle
<1>1. ASSUME NEW t \in Thread, delay[t].clk = 0
      PROVE  [delay[t] EXCEPT !.delta = @ - 1] \in Delay
  <2>1. delay[t] \in Delay
    OBVIOUS
  <2>2. delay[t] = [clk |-> delay[t].clk, delta |-> delay[t].delta]
    BY <2>1 DEF Delay
  <2>3. delay[t].delta # 0
    BY <1>1, <2>2 DEF NoThreadReady, Now
  <2>4. delay[t].delta - 1 \in Nat
    BY <2>1, <2>3 DEF Delay
  <2>5. QED
    BY <2>1, <2>4 DEF Delay
<1>2. delay' \in [Thread -> Delay]
  BY <1>1
<1>3. run' \in RunState /\ run' # "stopped"
  BY DEF RunState
<1>4. QED
  BY <1>2, <1>3

(* The end of a delta cycle keeps the invariant.                            *)
LEMMA DeltaIInv ==
    ASSUME IInv, Delta
    PROVE  IInv'
<1> USE DEF Delta
<1>1. KernelTypeOK' /\ run' # "stopped" /\ pc' = pc
  BY DeltaType DEF IInv, TypeOK
<1>2. L1TypeOK' /\ L2TypeOK' /\ MemoryTypeOK' /\ TakenFromBuffer'
  BY <1>1
  DEF IInv, TypeOK, L1TypeOK, L2TypeOK, MemoryTypeOK, memoryVars,
      TakenFromBuffer
<1>3. PrefetchTypeOK' /\ FifoBounded(prefetch, PrefetchLines)'
  <2>1. prefetch \in Fifo(PrefetchedLine) /\ FifoBounded(prefetch, PrefetchLines)
    BY DEF IInv, BuffersOK, PrefetchTypeOK, Fifo
  <2>2. /\ prefetch' \in Fifo(PrefetchedLine)
        /\ FifoBounded(prefetch', PrefetchLines)
    BY <2>1, FifoUpdateType, ConstantsAssumption DEF PrefetchUpdate
  <2>3. QED
    BY <2>2 DEF PrefetchTypeOK, Fifo, FifoBounded
<1>4. StorebackTypeOK' /\ FifoBounded(storeback.fifo, StorebackLines)'
  <2>1. /\ storeback.fifo \in Fifo(Write)
        /\ FifoBounded(storeback.fifo, StorebackLines)
    BY DEF IInv, BuffersOK, StorebackTypeOK, Fifo
  <2>2. storeback'.fifo = FifoUpdate(storeback.fifo, StorebackLines)
    BY DEF StorebackUpdate, IInv, BuffersOK, StorebackTypeOK
  <2>3. /\ storeback'.fifo \in Fifo(Write)
        /\ FifoBounded(storeback'.fifo, StorebackLines)
    BY <2>1, <2>2, FifoUpdateType, ConstantsAssumption
  <2>4. StorebackTypeOK'
    BY <2>2, <2>3 DEF StorebackUpdate, IInv, BuffersOK, StorebackTypeOK, Fifo
  <2>5. QED
    BY <2>3, <2>4 DEF FifoBounded
<1>5. DriverTypeOK' /\ ThreadsHeld'
  BY <1>1 DEF IInv, TypeOK, DriverTypeOK, driverVars, ThreadsHeld
<1>6. QED
  BY <1>1, <1>2, <1>3, <1>4, <1>5 DEF IInv, TypeOK, BuffersOK, DriverTypeOK

(* The driver changes signals, waits and its own variables only: it is       *)
(* enough to look at those.                                                 *)
LEMMA DriverStep ==
    ASSUME IInv, UNCHANGED <<moduleVars, pc>>,
           KernelTypeOK', DriverTypeOK', ThreadsHeld'
    PROVE  IInv'
<1> USE DEF moduleVars
<1>1. L1TypeOK' /\ L2TypeOK'
  BY DEF IInv, TypeOK, L1TypeOK, L2TypeOK
<1>2. MemoryTypeOK' /\ TakenFromBuffer'
  BY DEF IInv, TypeOK, MemoryTypeOK, TakenFromBuffer
<1>3. BuffersOK'
  <2>1. UNCHANGED bufferVars
    BY DEF bufferVars
  <2>2. QED
    BY <2>1, BuffersUnchanged DEF IInv
<1>4. TypeOK'
  BY <1>1, <1>2, <1>3 DEF BuffersOK, DriverTypeOK, TypeOK
<1>5. QED
  BY <1>2, <1>3, <1>4 DEF IInv

(* Neither the modules nor their threads move while the driver runs.        *)
LEMMA DriverUnchanged == Driver => UNCHANGED <<moduleVars, pc>>
<1> SUFFICES ASSUME Driver PROVE UNCHANGED <<moduleVars, pc>>
  OBVIOUS
<1>1. CASE Stopped
  BY <1>1 DEF Stopped, vars, kernelVars
<1>2. CASE ~Stopped
  BY <1>2
  DEF Driver, SendRequest, StartCycle, RequestExhausted, RequestContinues,
      RequestAnswered, Finish, FinishWaits, Finished
<1>3. QED
  BY <1>1, <1>2

(* Every step of the driver keeps the invariant.                            *)
LEMMA DriverIInv ==
    ASSUME IInv, Driver
    PROVE  IInv'
<1>0. KernelTypeOK /\ DriverTypeOK /\ ThreadsHeld
  BY DEF IInv, TypeOK, DriverTypeOK
<1> SUFFICES /\ UNCHANGED <<moduleVars, pc>>
             /\ KernelTypeOK' /\ DriverTypeOK' /\ ThreadsHeld'
  BY DriverStep
<1> USE <1>0 DEF CycleEnds, signalVars, AssignNow, Stage, RunState
<1>1. ASSUME NEW r \in Requests, SendRequest(r)
      PROVE  /\ UNCHANGED <<moduleVars, pc>>
             /\ KernelTypeOK' /\ DriverTypeOK' /\ ThreadsHeld'
  <2>1. r \in Request /\ r.data \in Value /\ r.addr \in Address
        /\ r.we \in BOOLEAN
    BY ConstantsAssumption DEF Request
  <2>2. bus' \in Bus
    BY <1>1, <2>1 DEF SendRequest, KernelTypeOK, Bus
  <2>3. KernelTypeOK'
    <3>1. flag' \in [Flag -> BOOLEAN] /\ flagNext' \in [Flag -> BOOLEAN]
      BY <1>1, <2>1 DEF SendRequest, KernelTypeOK
    <3>2. /\ addr' \in [AddressSignal -> Address]
          /\ addrNext' \in [AddressSignal -> Address]
      BY <1>1, <2>1 DEF SendRequest, KernelTypeOK
    <3>3. QED
      BY <1>1, <2>2, <3>1, <3>2 DEF SendRequest, KernelTypeOK
  <2>4. NoStats \in Stats
    BY ConstantsAssumption DEF Stats, NoStats
  <2>5. DriverTypeOK'
    BY <1>1, <2>1, <2>4 DEF SendRequest, DriverTypeOK
  <2>6. QED
    BY <1>1, <2>3, <2>5 DEF SendRequest, ThreadsHeld
<1>2. CASE StartCycle
  <2>1. delay' \in [Thread -> Delay]
    BY <1>2, ClockEdgeType DEF StartCycle, ThreadsHeld, ClockEdge
  <2>2. QED
    BY <1>2, <2>1 DEF StartCycle, KernelTypeOK, DriverTypeOK, driverVars,
                      ThreadsHeld
<1>3. CASE RequestExhausted
  BY <1>3, CountType
  DEF RequestExhausted, KernelTypeOK, DriverTypeOK, ThreadsHeld
<1>4. CASE RequestContinues
  <2>1. KernelTypeOK' /\ ThreadsHeld'
    BY <1>4, SettledType DEF RequestContinues, KernelTypeOK, ThreadsHeld
  <2>2. flag["valid_from_L1_to_L2"] \in BOOLEAN
    BY DEF KernelTypeOK, Flag
  <2>3. DriverTypeOK'
    BY <1>4, <2>2, CountType DEF RequestContinues, DriverTypeOK
  <2>4. QED
    BY <1>4, <2>1, <2>3 DEF RequestContinues
<1>5. CASE RequestAnswered
  <2>1. KernelTypeOK'
    <3>1. flag' \in [Flag -> BOOLEAN] /\ flagNext' \in [Flag -> BOOLEAN]
      BY <1>5 DEF RequestAnswered, KernelTypeOK
    <3>2. QED
      BY <1>5, <3>1 DEF RequestAnswered, KernelTypeOK
  <2>2. ThreadsHeld'
    BY <1>5, SettledType DEF RequestAnswered, ThreadsHeld
  <2>3. /\ flag["valid_from_L1_to_L2"] \in BOOLEAN
        /\ flag["hit_from_L1"] \in BOOLEAN /\ flag["hit_from_L2"] \in BOOLEAN
    BY DEF KernelTypeOK, Flag
  <2>4. request.we \in BOOLEAN /\ bus.data_out \in Value
    BY DEF DriverTypeOK, Request, KernelTypeOK, Bus
  <2>5. stats' \in Stats
    BY <1>5, <2>3, <2>4, CountType DEF RequestAnswered, Stats, DriverTypeOK
  <2>6. NoRequest \in Request
    BY ConstantsAssumption DEF NoRequest, Request, Address
  <2>7. DriverTypeOK'
    BY <1>5, <2>5, <2>6, CountType DEF RequestAnswered, DriverTypeOK
  <2>8. QED
    BY <1>5, <2>1, <2>2, <2>7 DEF RequestAnswered
<1>6. CASE Finish
  <2>1. CASE HasStoreback
    <3>1. delay' \in [Thread -> Delay]
      BY <1>6, <2>1, ClockEdgeType DEF Finish, ThreadsHeld, ClockEdge
    <3>2. flag' \in [Flag -> BOOLEAN] /\ flagNext' \in [Flag -> BOOLEAN]
      BY <1>6, <2>1 DEF Finish, KernelTypeOK
    <3>3. KernelTypeOK'
      BY <1>6, <2>1, <3>1, <3>2 DEF Finish, KernelTypeOK
    <3>4. QED
      BY <1>6, <2>1, <3>3 DEF Finish, DriverTypeOK, ThreadsHeld
  <2>2. CASE ~HasStoreback
    BY <1>6, <2>2 DEF Finish, KernelTypeOK, DriverTypeOK, ThreadsHeld
  <2>3. QED
    BY <2>1, <2>2
<1>7. CASE FinishWaits
  <2>1. KernelTypeOK'
    BY <1>7 DEF FinishWaits, FinishLooks, KernelTypeOK
  <2>2. DriverTypeOK'
    BY <1>7, CountType DEF FinishWaits, DriverTypeOK
  <2>3. ThreadsHeld'
    BY <1>7, SettledType DEF FinishWaits, FinishLooks, ThreadsHeld
  <2>4. QED
    BY <1>7, <2>1, <2>2, <2>3 DEF FinishWaits
<1>8. CASE Finished
  BY <1>8 DEF Finished, KernelTypeOK, DriverTypeOK, ThreadsHeld
<1>9. CASE Stopped
  BY <1>9
  DEF Stopped, vars, kernelVars, driverVars, KernelTypeOK, DriverTypeOK,
      ThreadsHeld
<1>10. QED
  BY <1>1, <1>2, <1>3, <1>4, <1>5, <1>6, <1>7, <1>8, <1>9 DEF Driver

(* So does every step.                                                      *)
LEMMA NextIInv == IInv /\ [Next]_vars => IInv'
<1> SUFFICES ASSUME IInv, [Next]_vars PROVE IInv'
  OBVIOUS
<1>1. CASE UNCHANGED vars
  <2>1. /\ UNCHANGED <<moduleVars, pc>>
        /\ KernelTypeOK' /\ DriverTypeOK' /\ ThreadsHeld'
    BY <1>1
    DEF vars, kernelVars, driverVars, IInv, TypeOK, KernelTypeOK,
        DriverTypeOK, ThreadsHeld
  <2>2. QED
    BY <2>1, DriverStep
<1>2. QED
  BY <1>1, ThreadStepIInv, DeltaIInv, DriverIInv DEF Next

(* Every variable keeps its type in every behaviour, for every configuration *)
(* that input_checker() accepts (modules.hpp, struct CPU_L1_L2): each index *)
(* and tag computed from an address falls into its cache, no wait is        *)
(* counted below zero and no fifo is read when empty.                       *)
THEOREM TypeCorrect == Spec => []TypeOK
<1>1. IInv => TypeOK
  BY DEF IInv
<1>2. QED
  BY <1>1, InitIInv, NextIInv, PTL DEF Spec

-----------------------------------------------------------------------------
(* The handshake.                                                           *)

Waiting(clocks, deltas) == [clk |-> clocks, delta |-> deltas]

L1Awaits == pc["L1"] \in {"await_write", "await_read"}

(* L1 is where the last clock edge put it, or has taken its first step after *)
(* it; no delta cycle has ended since.                                      *)
L1AtEdge ==
    \/ pc["L1"] = "restart" /\ delay["L1"] = Now
    \/ pc["L1"] = "poll" /\ delay["L1"] = Waiting(0, 2)
    \/ L1Awaits /\ delay["L1"] = Waiting(0, 6)

(* L2 has taken its first step after the clock edge: what it withdrew is    *)
(* still visible.                                                           *)
L2Withdraws(s) ==
    /\ pc["L2"] = "poll" /\ delay["L2"] = Waiting(0, 2)
    /\ L1AtEdge
    /\ ~flagNext[s]

(* How long the two threads can wait.                                       *)
Waits ==
    /\ pc["L1"] = "restart" => delay["L1"] \in {Waiting(1, 0), Now}
    /\ L1Awaits => delay["L1"] = Waiting(1, 6) \/ delay["L1"].clk = 0
    /\ pc["L2"] = "restart" => delay["L2"] \in {Waiting(1, 0), Now}

(* The command to L2 is up while L1 awaits its answer, and L2 works only    *)
(* then.                                                                    *)
CommandUp ==
    /\ L1Awaits => flagNext["valid_from_L1_to_L2"]
    /\ ~L1Awaits => /\ ~flagNext["valid_from_L1_to_L2"]
                    /\ pc["L2"] \in {"restart", "poll"}
    /\ flag["valid_from_L1_to_L2"] /\ ~flagNext["valid_from_L1_to_L2"] =>
           /\ pc["L1"] = "restart" /\ delay["L1"] = Waiting(1, 0)
           /\ pc["L2"] = "restart" /\ delay["L2"] = Waiting(1, 0)

(* L2 answers an L1 that still awaits, or has seen the answer in the same   *)
(* cycle; the next edge withdraws it.                                       *)
AnswerUp ==
    /\ pc["L2"] = "restart" =>
           \/ /\ delay["L2"] = Waiting(1, 0)
              /\ L1Awaits \/ (pc["L1"] = "restart" /\ delay["L1"] = Waiting(1, 0))
           \/ delay["L2"] = Now /\ L1AtEdge
    /\ flag["done_from_L2"] \/ flagNext["done_from_L2"] =>
           pc["L2"] = "restart" \/ L2Withdraws("done_from_L2")
    /\ flag["hit_from_L2"] \/ flagNext["hit_from_L2"] =>
           pc["L2"] # "poll" \/ L2Withdraws("hit_from_L2")

(* L1 is done from its last step to the first after the next edge.          *)
DoneUp ==
    flag["done_from_L1"] \/ flagNext["done_from_L1"] =>
        \/ pc["L1"] = "restart"
        \/ /\ pc["L1"] = "poll" /\ delay["L1"] = Waiting(0, 2)
           /\ ~flagNext["done_from_L1"]

(* What send_request() has seen of L2, against what L1 is doing: before L1  *)
(* has looked the request up, while it awaits L2, and when it is done.      *)
Sampled ==
    /\ flag["write_enable"] = request.we /\ flagNext["write_enable"] = request.we
    /\ pc["L1"] \in {"poll", "access"} => ~l2_executes
    /\ pc["L1"] = "restart" /\ (run = "stopped" \/ delay["L1"] = Now) =>
           ~l2_executes
    /\ pc["L1"] = "await_write" => request.we
    /\ pc["L1"] = "await_read" => ~request.we /\ ~flagNext["hit_from_L1"]
    /\ L1Awaits /\ ~l2_executes =>
           /\ run = "cycle"
           /\ \/ delay["L1"] = Waiting(1, 6)
              \/ delay["L1"] = Now /\ ~flag["done_from_L2"]
    /\ pc["L1"] = "restart" /\ run = "cycle" /\ delay["L1"] = Waiting(1, 0) =>
           /\ flagNext["done_from_L1"]
           /\ l2_executes <=> request.we \/ ~flagNext["hit_from_L1"]
           /\ pc["L2"] = "restart" => l2_executes

Handshake ==
    stage \in {"idle", "request"} =>
        /\ Waits /\ CommandUp /\ AnswerUp /\ DoneUp
        /\ run \in {"stopped", "cycle"}
        /\ run = "stopped" => flag = flagNext
        /\ stage = "idle" => pc["L1"] = "restart" /\ run = "stopped"
        /\ stage = "request" => Sampled

-----------------------------------------------------------------------------
(* The parts of the invariant while the simulation serves requests.         *)
Serves ==
    /\ Waits /\ CommandUp /\ AnswerUp /\ DoneUp
    /\ run = "cycle" /\ stage = "request" /\ Sampled

(* A wait consists of its clock edges and its delta cycles.                 *)
LEMMA WaitingFields ==
    /\ Now = Waiting(0, 0)
    /\ \A c, d : Waiting(c, d).clk = c /\ Waiting(c, d).delta = d
  BY DEF Waiting, Now

(* So each is told from the others by its two numbers.                      *)
LEMMA WaitingDiffers ==
    \A c, d, e, f : Waiting(c, d) = Waiting(e, f) <=> c = e /\ d = f
<1>1. SUFFICES ASSUME NEW c, NEW d, NEW e, NEW f, Waiting(c, d) = Waiting(e, f)
               PROVE  c = e /\ d = f
  OBVIOUS
<1>2. Waiting(c, d).clk = Waiting(e, f).clk /\ Waiting(c, d).delta = Waiting(e, f).delta
  BY <1>1
<1>3. QED
  BY <1>2, WaitingFields

(* A step of a thread as the proofs below see it: where the other threads   *)
(* wait does not change.                                                    *)
ThreadMoves(t, label, next, clocks, deltas) ==
    /\ pc[t] = label /\ delay[t] = Waiting(0, 0)
    /\ pc'[t] = next /\ delay'[t] = Waiting(clocks, deltas)
    /\ \A u \in Thread \ {t} : pc'[u] = pc[u] /\ delay'[u] = delay[u]
    /\ run' = run

(* What Suspend() does to the thread that runs.                             *)
LEMMA ThreadMovesSuspend ==
    ASSUME IInv, NEW t \in Thread, NEW label, NEW next, NEW clocks, NEW deltas,
           Runs(t, label), Suspend(t, next, clocks, deltas)
    PROVE  ThreadMoves(t, label, next, clocks, deltas)
<1>1. pc \in [Thread -> Label] /\ delay \in [Thread -> Delay]
  BY DEF IInv, TypeOK, KernelTypeOK
<1>2. QED
  BY <1>1, WaitingFields DEF ThreadMoves, Runs, Suspend, Waiting

(* A step that requests new values for some signals.                        *)
Drives(S) ==
    /\ flag' = flag
    /\ \A s \in Flag \ S : flagNext'[s] = flagNext[s]

(* The first step of L1 after the edge.                                     *)
LEMMA L1RestartServes ==
    ASSUME IInv, Serves, L1Restart, UNCHANGED driverVars
    PROVE  Serves'
<1> USE DEF Serves, L1Awaits
<1>1. ThreadMoves("L1", "restart", "poll", 0, 2)
  BY ThreadMovesSuspend DEF L1Restart, Thread
<1>2. /\ Drives({"done_from_L1", "hit_from_L1"})
      /\ ~flagNext'["done_from_L1"] /\ ~flagNext'["hit_from_L1"]
  BY DEF L1Restart, Drive, Drives, Flag, IInv, TypeOK, KernelTypeOK
<1> USE <1>1, <1>2, WaitingFields, WaitingDiffers DEF ThreadMoves, Drives, Flag, Thread
<1>4. Waits'
  BY DEF Waits
<1>5. CommandUp'
  BY DEF CommandUp
<1>6. AnswerUp'
  BY DEF AnswerUp, L2Withdraws, L1AtEdge
<1>7. DoneUp'
  BY DEF DoneUp
<1>8. Sampled'
  BY DEF Sampled, driverVars
<1>9. QED
  BY <1>4, <1>5, <1>6, <1>7, <1>8 DEF driverVars

(* L1 looks for a request.                                                  *)
LEMMA L1PollServes ==
    ASSUME IInv, Serves, L1Poll, UNCHANGED driverVars
    PROVE  Serves'
<1> USE DEF Serves, L1Awaits
<1>1. \/ ThreadMoves("L1", "poll", "access", L1Latency, 0)
      \/ ThreadMoves("L1", "poll", "poll", 1, 0)
  BY ThreadMovesSuspend DEF L1Poll, Thread
<1>2. flag' = flag /\ flagNext' = flagNext
  BY DEF L1Poll, signalVars
<1> USE <1>1, <1>2, WaitingFields, WaitingDiffers DEF ThreadMoves, Flag, Thread
<1>4. Waits'
  BY DEF Waits
<1>5. CommandUp'
  BY DEF CommandUp
<1>6. AnswerUp'
  BY DEF AnswerUp, L2Withdraws, L1AtEdge
<1>7. DoneUp'
  BY DEF DoneUp
<1>8. Sampled'
  BY DEF Sampled, driverVars
<1>9. QED
  BY <1>4, <1>5, <1>6, <1>7, <1>8 DEF driverVars

(* L1 passes a command on: done_from_L2 is down, because L2 has not worked  *)
(* since the last command.                                                  *)
LEMMA L1PropagateServes ==
    ASSUME IInv, Serves, L1Write \/ L1ReadMiss, UNCHANGED driverVars
    PROVE  Serves'
<1> USE DEF Serves, L1Awaits
<1>1. \/ ThreadMoves("L1", "access", "await_write", 0, 0) /\ flag["write_enable"]
      \/ /\ ThreadMoves("L1", "access", "await_read", 0, 0) /\ ~flag["write_enable"]
         /\ ~flagNext'["hit_from_L1"]
  BY ThreadMovesSuspend
  DEF L1Write, L1ReadMiss, L1Propagate, Drive, Flag, Thread, IInv, TypeOK,
      KernelTypeOK
<1>2. /\ Drives({"hit_from_L1", "write_enable_from_L1_to_L2",
                 "valid_from_L1_to_L2"})
      /\ flagNext'["valid_from_L1_to_L2"]
  BY DEF L1Write, L1ReadMiss, L1Propagate, Drive, Drives, Flag, IInv, TypeOK,
         KernelTypeOK
<1> USE <1>1, <1>2, WaitingFields, WaitingDiffers DEF ThreadMoves, Drives, Flag, Thread
<1>3. ~flag["done_from_L2"] /\ pc["L2"] = "poll"
  BY DEF AnswerUp, L2Withdraws, L1AtEdge, CommandUp
<1>4. Waits'
  BY DEF Waits
<1>5. CommandUp'
  BY DEF CommandUp
<1>6. AnswerUp'
  BY DEF AnswerUp, L2Withdraws, L1AtEdge
<1>7. DoneUp'
  BY DEF DoneUp
<1>8. Sampled'
  BY <1>3 DEF Sampled, driverVars
<1>9. QED
  BY <1>4, <1>5, <1>6, <1>7, <1>8 DEF driverVars

(* A hit in L1 is answered without L2.                                      *)
LEMMA L1ReadHitServes ==
    ASSUME IInv, Serves, L1ReadHit, UNCHANGED driverVars
    PROVE  Serves'
<1> USE DEF Serves, L1Awaits
<1>1. ThreadMoves("L1", "access", "restart", 1, 0) /\ ~flag["write_enable"]
  BY ThreadMovesSuspend DEF L1ReadHit, Thread
<1>2. /\ Drives({"hit_from_L1", "done_from_L1"})
      /\ flagNext'["hit_from_L1"] /\ flagNext'["done_from_L1"]
  BY DEF L1ReadHit, Drive, Drives, Flag, IInv, TypeOK, KernelTypeOK
<1> USE <1>1, <1>2, WaitingFields, WaitingDiffers DEF ThreadMoves, Drives, Flag, Thread
<1>3. ~flag["done_from_L2"] /\ pc["L2"] = "poll"
  BY DEF AnswerUp, L2Withdraws, L1AtEdge, CommandUp
<1>4. Waits'
  BY DEF Waits
<1>5. CommandUp'
  BY DEF CommandUp
<1>6. AnswerUp'
  BY DEF AnswerUp, L2Withdraws, L1AtEdge
<1>7. DoneUp'
  BY DEF DoneUp
<1>8. Sampled'
  BY <1>3 DEF Sampled, driverVars
<1>9. QED
  BY <1>4, <1>5, <1>6, <1>7, <1>8 DEF driverVars

(* L1 goes on waiting.                                                      *)
LEMMA L1StillWaitingServes ==
    ASSUME IInv, Serves, L1StillWaiting, UNCHANGED driverVars
    PROVE  Serves'
<1> USE DEF Serves, L1Awaits
<1>1. /\ \/ ThreadMoves("L1", "await_write", "await_write", 1, 6)
         \/ ThreadMoves("L1", "await_read", "await_read", 1, 6)
      /\ ~flag["done_from_L2"]
  BY ThreadMovesSuspend DEF L1StillWaiting, Thread
<1>2. flag' = flag /\ flagNext' = flagNext
  BY DEF L1StillWaiting, signalVars
<1> USE <1>1, <1>2, WaitingFields, WaitingDiffers DEF ThreadMoves, Flag, Thread
<1>4. Waits'
  BY DEF Waits
<1>5. CommandUp'
  BY DEF CommandUp
<1>6. AnswerUp'
  BY DEF AnswerUp, L2Withdraws, L1AtEdge
<1>7. DoneUp'
  BY DEF DoneUp
<1>8. Sampled'
  BY DEF Sampled, driverVars
<1>9. QED
  BY <1>4, <1>5, <1>6, <1>7, <1>8 DEF driverVars

(* L1 sees the answer of L2 in the cycle in which it is given, and at least  *)
(* one cycle after the command: send_request() has noticed the command.      *)
LEMMA L1CompleteServes ==
    ASSUME IInv, Serves, L1WriteDone \/ L1Fill, UNCHANGED driverVars
    PROVE  Serves'
<1> USE DEF Serves, L1Awaits
<1>1. /\ \/ ThreadMoves("L1", "await_write", "restart", 1, 0)
         \/ ThreadMoves("L1", "await_read", "restart", 1, 0)
      /\ flag["done_from_L2"]
  BY ThreadMovesSuspend DEF L1WriteDone, L1Fill, L1Complete, Thread
<1>2. /\ Drives({"valid_from_L1_to_L2", "done_from_L1"})
      /\ ~flagNext'["valid_from_L1_to_L2"] /\ flagNext'["done_from_L1"]
  BY DEF L1WriteDone, L1Fill, L1Complete, Drive, Drives, Flag, IInv, TypeOK,
         KernelTypeOK
<1> USE <1>1, <1>2, WaitingFields, WaitingDiffers DEF ThreadMoves, Drives, Flag, Thread
<1>3. pc["L2"] = "restart" /\ delay["L2"] = Waiting(1, 0)
  BY DEF AnswerUp, L2Withdraws, L1AtEdge
<1>31. l2_executes
  BY DEF Sampled
<1> USE <1>3, <1>31
<1>4. Waits'
  BY DEF Waits
<1>5. CommandUp'
  BY DEF CommandUp
<1>6. AnswerUp'
  BY DEF AnswerUp, L2Withdraws, L1AtEdge
<1>7. DoneUp'
  BY DEF DoneUp
<1>8. Sampled'
  BY DEF Sampled, driverVars
<1>9. QED
  BY <1>4, <1>5, <1>6, <1>7, <1>8 DEF driverVars
-----------------------------------------------------------------------------
(* The first step of L2 after the edge: what it withdraws stays visible for  *)
(* a delta cycle, in which L1 does not look at it.                          *)
LEMMA L2RestartServes ==
    ASSUME IInv, Serves, L2Restart, UNCHANGED driverVars
    PROVE  Serves'
<1> USE DEF Serves, L1Awaits
<1>1. ThreadMoves("L2", "restart", "poll", 0, 2)
  BY ThreadMovesSuspend DEF L2Restart, Thread
<1>2. /\ Drives({"done_from_L2", "hit_from_L2"})
      /\ ~flagNext'["done_from_L2"] /\ ~flagNext'["hit_from_L2"]
  BY DEF L2Restart, Drive, Drives, Flag, IInv, TypeOK, KernelTypeOK
<1> USE <1>1, <1>2, WaitingFields, WaitingDiffers DEF ThreadMoves, Drives, Flag, Thread
<1>4. Waits'
  BY DEF Waits
<1>5. CommandUp'
  BY DEF CommandUp
<1>6. AnswerUp'
  BY DEF AnswerUp, L2Withdraws, L1AtEdge
<1>7. DoneUp'
  BY DEF DoneUp
<1>8. Sampled'
  BY DEF Sampled, driverVars
<1>9. QED
  BY <1>4, <1>5, <1>6, <1>7, <1>8 DEF driverVars

(* L2 starts only on a command that L1 awaits the answer of: one that was    *)
(* answered is visible for no longer than L2 takes to its next edge.        *)
LEMMA L2PollServes ==
    ASSUME IInv, Serves, L2Poll, UNCHANGED driverVars
    PROVE  Serves'
<1> USE DEF Serves, L1Awaits
<1>1. \/ ThreadMoves("L2", "poll", "access", L2Latency, 0) /\ flag["valid_from_L1_to_L2"]
      \/ ThreadMoves("L2", "poll", "poll", 1, 1)
  BY ThreadMovesSuspend DEF L2Poll, Thread
<1>2. flag' = flag /\ flagNext' = flagNext
  BY DEF L2Poll, signalVars
<1> USE <1>1, <1>2, WaitingFields, WaitingDiffers DEF ThreadMoves, Flag, Thread
<1>4. Waits'
  BY DEF Waits
<1>5. CommandUp'
  BY DEF CommandUp
<1>6. AnswerUp'
  BY DEF AnswerUp, L2Withdraws, L1AtEdge
<1>7. DoneUp'
  BY DEF DoneUp
<1>8. Sampled'
  BY DEF Sampled, driverVars
<1>9. QED
  BY <1>4, <1>5, <1>6, <1>7, <1>8 DEF driverVars

(* Where L2 works on a command.                                             *)
L2Works == pc["L2"] \notin {"restart", "poll"}

(* What L2 does between two waits while it works, seen from L1.             *)
L2Moves ==
    /\ L2Works /\ L2Works'
    /\ \A u \in Thread \ {"L2"} : pc'[u] = pc[u] /\ delay'[u] = delay[u]
    /\ run' = run
    /\ Drives({"hit_from_L2", "valid_from_L2_to_Memory",
               "write_enable_from_L2_to_Memory"})

(* It disturbs nothing that L1 or send_request() look at.                   *)
LEMMA L2MovesServes ==
    ASSUME IInv, Serves, L2Moves, UNCHANGED driverVars
    PROVE  Serves'
<1> USE WaitingFields, WaitingDiffers
    DEF Serves, L1Awaits, L2Moves, L2Works, Drives, Flag, Thread
<1>4. Waits'
  BY DEF Waits
<1>5. CommandUp'
  BY DEF CommandUp
<1>6. AnswerUp'
  BY DEF AnswerUp, L2Withdraws, L1AtEdge
<1>7. DoneUp'
  BY DEF DoneUp
<1>8. Sampled'
  BY DEF Sampled, driverVars
<1>9. QED
  BY <1>4, <1>5, <1>6, <1>7, <1>8 DEF driverVars

(* The end of a command in L2.                                              *)
L2Ends ==
    /\ L2Works
    /\ pc'["L2"] = "restart" /\ delay'["L2"] = Waiting(1, 0)
    /\ \A u \in Thread \ {"L2"} : pc'[u] = pc[u] /\ delay'[u] = delay[u]
    /\ run' = run
    /\ Drives({"done_from_L2", "hit_from_L2", "valid_from_L2_to_Memory"})

(* The answer is given while L1 awaits it.                                  *)
LEMMA L2EndsServes ==
    ASSUME IInv, Serves, L2Ends, UNCHANGED driverVars
    PROVE  Serves'
<1> USE WaitingFields, WaitingDiffers
    DEF Serves, L1Awaits, L2Ends, L2Works, Drives, Flag, Thread
<1>3. L1Awaits
  BY DEF CommandUp
<1>4. Waits'
  BY DEF Waits
<1>5. CommandUp'
  BY DEF CommandUp
<1>6. AnswerUp'
  BY <1>3 DEF AnswerUp, L2Withdraws, L1AtEdge
<1>7. DoneUp'
  BY DEF DoneUp
<1>8. Sampled'
  BY <1>3 DEF Sampled, driverVars
<1>9. QED
  BY <1>4, <1>5, <1>6, <1>7, <1>8 DEF driverVars

(* L2Complete() ends a command if nothing but the signals L2 drives differs  *)
(* from the requested values.                                               *)
LEMMA L2CompleteEnds ==
    ASSUME IInv, NEW label \in Label \ {"restart", "poll"}, Runs("L2", label),
           NEW STATE driven, driven \in [Flag -> BOOLEAN],
           \A s \in Flag \ {"hit_from_L2", "valid_from_L2_to_Memory"} :
               driven[s] = flagNext[s],
           L2Complete(driven)
    PROVE  L2Ends
<1>1. ThreadMoves("L2", label, "restart", 1, 0)
  BY ThreadMovesSuspend DEF L2Complete, Thread
<1>2. Drives({"done_from_L2", "hit_from_L2", "valid_from_L2_to_Memory"})
  BY DEF L2Complete, Drive, Drives
<1>3. QED
  BY <1>1, <1>2 DEF L2Ends, L2Works, ThreadMoves

(* A step that moves L2 on and drives at most its own signals.              *)
LEMMA L2SuspendMoves ==
    ASSUME IInv, NEW label \in Label \ {"restart", "poll"},
           NEW next \in Label \ {"restart", "poll"}, NEW clocks, NEW deltas,
           Runs("L2", label), Suspend("L2", next, clocks, deltas),
           flag' = flag,
           \A s \in Flag \ {"hit_from_L2", "valid_from_L2_to_Memory",
                             "write_enable_from_L2_to_Memory"} :
               flagNext'[s] = flagNext[s]
    PROVE  L2Moves
<1>1. ThreadMoves("L2", label, next, clocks, deltas)
  BY ThreadMovesSuspend DEF Thread
<1>2. QED
  BY <1>1 DEF L2Moves, L2Works, ThreadMoves, Drives
(* Every other step of L2 is of one of these two kinds.                     *)
LEMMA L2NextKinds ==
    ASSUME IInv, L2Next
    PROVE  L2Restart \/ L2Poll \/ L2Moves \/ L2Ends
<1> USE DEF Label, Flag, Drive
<1>1. /\ flagNext \in [Flag -> BOOLEAN] /\ Withdrawn \in [Flag -> BOOLEAN]
      /\ \A s \in Flag \ {"valid_from_L2_to_Memory"} :
             Withdrawn[s] = flagNext[s]
  BY DEF IInv, TypeOK, KernelTypeOK, Withdrawn
<1>2. CASE L2Write
  BY <1>1, <1>2, L2SuspendMoves DEF L2Write
<1>3. CASE L2Store
  BY <1>1, <1>3, L2CompleteEnds DEF L2Store
<1>4. CASE L2StoreFails
  BY <1>1, <1>4, L2SuspendMoves DEF L2StoreFails, signalVars
<1>5. CASE L2Retry
  <2>1. CASE flag["valid_from_L1_to_L2"]
    BY <1>5, <2>1, L2SuspendMoves DEF L2Retry, signalVars
  <2>2. CASE ~flag["valid_from_L1_to_L2"]
    BY <1>1, <1>5, <2>2, L2CompleteEnds DEF L2Retry
  <2>3. QED
    BY <2>1, <2>2
<1>6. CASE L2ReadHit
  <2>1. PICK driven \in [Flag -> BOOLEAN] :
          /\ driven = [flagNext EXCEPT !["hit_from_L2"] = TRUE]
          /\ L2Complete(driven)
    BY <1>1, <1>6 DEF L2ReadHit
  <2>2. \A s \in Flag \ {"hit_from_L2"} : driven[s] = flagNext[s]
    BY <1>1, <2>1
  <2>3. QED
    BY <1>6, <2>1, <2>2, L2CompleteEnds DEF L2ReadHit
<1>7. CASE L2ReadMiss
  BY <1>7, L2SuspendMoves DEF L2ReadMiss, signalVars
<1>8. CASE L2StillWaiting
  BY <1>8, L2SuspendMoves DEF L2StillWaiting, signalVars
<1>9. CASE L2WriteDone
  BY <1>1, <1>9, L2CompleteEnds DEF L2WriteDone
<1>10. CASE L2FlushDone
  BY <1>10, L2SuspendMoves DEF L2FlushDone, signalVars
<1>11. CASE L2Issue
  BY <1>1, <1>11, L2SuspendMoves DEF L2Issue
<1>12. CASE L2Fill
  <2>1. CASE HasPrefetch
    BY <1>1, <1>12, <2>1, L2SuspendMoves DEF L2Fill
  <2>2. CASE ~HasPrefetch
    BY <1>1, <1>12, <2>2, L2CompleteEnds DEF L2Fill, L2Answer
  <2>3. QED
    BY <2>1, <2>2
<1>13. CASE L2PrefetchTake
  BY <1>13, L2SuspendMoves DEF L2PrefetchTake, signalVars
<1>14. CASE L2PrefetchEmpty
  BY <1>14, L2SuspendMoves DEF L2PrefetchEmpty, signalVars
<1>15. CASE L2Install
  <2>1. CASE l2'.i < PrefetchLines
    BY <1>15, <2>1, L2SuspendMoves DEF L2Install, signalVars
  <2>2. CASE ~(l2'.i < PrefetchLines)
    BY <1>1, <1>15, <2>2, L2CompleteEnds DEF L2Install, L2Answer
  <2>3. QED
    BY <2>1, <2>2
<1>16. QED
  BY <1>2, <1>3, <1>4, <1>5, <1>6, <1>7, <1>8, <1>9, <1>10, <1>11, <1>12,
     <1>13, <1>14, <1>15 DEF L2Next

-----------------------------------------------------------------------------
(* Memory takes no part in the handshake of the levels above it.            *)
LEMMA MemoryDrives ==
    ASSUME IInv, MemoryNext
    PROVE  /\ run' = run
           /\ \A t \in {"L1", "L2"} : pc'[t] = pc[t] /\ delay'[t] = delay[t]
           /\ Drives({"done_from_Memory"})
<1> USE DEF Suspend, Drive, Drives, Flag, Thread, signalVars, IInv, TypeOK,
           KernelTypeOK
<1>1. CASE MemoryRestart \/ MemoryIdle \/ MemoryAcceptRead
             \/ MemoryAcceptWrite \/ MemoryAcceptDrain
  BY <1>1 DEF MemoryRestart, MemoryIdle, MemoryAcceptRead,
              MemoryAcceptWrite, MemoryAcceptDrain, StartDraining
<1>2. CASE MemoryRead \/ MemoryPrefetch \/ MemoryPut \/ MemoryReadDone
             \/ MemoryWrite
  BY <1>2 DEF MemoryRead, MemoryPrefetch, MemoryPut, MemoryReadDone,
              MemoryWrite, StartDraining
<1>3. CASE MemoryResume \/ MemoryCallRead \/ MemoryTake \/ MemoryDrained
  BY <1>3 DEF MemoryResume, MemoryCallRead, MemoryTake, MemoryDrained
<1>4. CASE MemoryTaken \/ MemoryAbort \/ MemoryLatencyStep \/ MemoryCommit
  BY <1>4 DEF MemoryTaken, MemoryAbort, MemoryLatencyStep, MemoryCommit
<1>5. QED
  BY <1>1, <1>2, <1>3, <1>4 DEF MemoryNext

(* So it keeps it.                                                          *)
LEMMA MemoryServes ==
    ASSUME IInv, Serves, MemoryNext, UNCHANGED driverVars
    PROVE  Serves'
<1>1. /\ run' = run
      /\ \A t \in {"L1", "L2"} : pc'[t] = pc[t] /\ delay'[t] = delay[t]
      /\ Drives({"done_from_Memory"})
  BY MemoryDrives
<1> USE <1>1 DEF Serves, L1Awaits, Drives, Flag
<1>4. Waits'
  BY DEF Waits
<1>5. CommandUp'
  BY DEF CommandUp
<1>6. AnswerUp'
  BY DEF AnswerUp, L2Withdraws, L1AtEdge
<1>7. DoneUp'
  BY DEF DoneUp
<1>8. Sampled'
  BY DEF Sampled, driverVars
<1>9. QED
  BY <1>4, <1>5, <1>6, <1>7, <1>8 DEF driverVars
(* The threads run only when the kernel does.                               *)
LEMMA ThreadStepRuns ==
    ASSUME IInv, L1Step \/ L2Step \/ MemoryStep
    PROVE  run \in {"cycle", "zero"} /\ run' = run
<1>1. L1Next => run \in {"cycle", "zero"} /\ run' = run
  BY L1StepType DEF IInv, TypeOK, OnlyMoves
<1>2. L2Next => run \in {"cycle", "zero"} /\ run' = run
  BY L2StepType DEF IInv, TypeOK, OnlyMoves
<1>3. MemoryNext => run \in {"cycle", "zero"} /\ run' = run
  BY MemoryStepType DEF IInv, TypeOK, OnlyMoves
<1>4. QED
  BY <1>1, <1>2, <1>3 DEF L1Step, L2Step, MemoryStep

(* Each step of a thread keeps the handshake.                               *)
LEMMA ThreadStepHandshake ==
    ASSUME IInv, Handshake, L1Step \/ L2Step \/ MemoryStep
    PROVE  Handshake'
<1>1. UNCHANGED driverVars
  BY DEF L1Step, L2Step, MemoryStep
<1>2. CASE stage \notin {"idle", "request"}
  BY <1>1, <1>2 DEF Handshake, driverVars
<1>3. CASE stage \in {"idle", "request"}
  <2>1. Serves
    <3>1. run \in {"cycle", "zero"}
      BY ThreadStepRuns
    <3>2. QED
      BY <1>3, <3>1 DEF Handshake, Serves
  <2>2. CASE L1Step
    <3>1. L1Next
      BY <2>2 DEF L1Step
    <3>2. Serves'
      BY <1>1, <2>1, <3>1, L1RestartServes, L1PollServes, L1PropagateServes,
         L1ReadHitServes, L1StillWaitingServes, L1CompleteServes DEF L1Next
    <3>3. QED
      BY <3>2 DEF Serves, Handshake
  <2>3. CASE L2Step
    <3>1. L2Next
      BY <2>3 DEF L2Step
    <3>2. Serves'
      BY <1>1, <2>1, <3>1, L2NextKinds, L2RestartServes, L2PollServes,
         L2MovesServes, L2EndsServes
    <3>3. QED
      BY <3>2 DEF Serves, Handshake
  <2>4. CASE MemoryStep
    <3>1. Serves'
      BY <1>1, <2>1, <2>4, MemoryServes DEF MemoryStep
    <3>2. QED
      BY <3>1 DEF Serves, Handshake
  <2>5. QED
    BY <2>2, <2>3, <2>4
<1>4. QED
  BY <1>2, <1>3

-----------------------------------------------------------------------------
(* The end of a delta cycle publishes the signals; no thread has stayed at   *)
(* a wait that is over.                                                     *)
LEMMA DeltaHandshake ==
    ASSUME IInv, Handshake, Delta
    PROVE  Handshake'
<1>1. /\ flag' = flagNext /\ flagNext' = flagNext /\ pc' = pc
      /\ run \in {"cycle", "zero"}
      /\ run = "cycle" => run' = "cycle"
      /\ UNCHANGED driverVars
  BY DEF Delta, DeltaCycle
<1>2. \A t \in Thread :
        /\ delay'[t].clk = delay[t].clk
        /\ delay[t].clk # 0 => delay'[t] = delay[t]
        /\ delay[t] # Waiting(0, 0)
  <2>1. delay \in [Thread -> Delay]
    BY DEF IInv, TypeOK, KernelTypeOK
  <2>2. QED
    BY <2>1, WaitingFields DEF Delta, DeltaCycle, NoThreadReady, Delay
<1>3. CASE stage \notin {"idle", "request"}
  BY <1>1, <1>3 DEF Handshake, driverVars
<1>4. CASE stage \in {"idle", "request"}
  <2> USE <1>1, <1>2, <1>4, WaitingFields, WaitingDiffers
      DEF Handshake, L1Awaits, Flag, Thread, driverVars
  <2>0. run = "cycle" /\ stage = "request"
    OBVIOUS
  <2>1. Waits'
    BY DEF Waits
  <2>2. CommandUp'
    BY DEF CommandUp
  <2>3. AnswerUp'
    BY DEF Waits, AnswerUp, L2Withdraws, L1AtEdge
  <2>4. DoneUp'
    BY DEF DoneUp
  <2>5. Sampled'
    BY <2>0 DEF Sampled, Waits
  <2>6. QED
    BY <2>0, <2>1, <2>2, <2>3, <2>4, <2>5
<1>5. QED
  BY <1>3, <1>4

-----------------------------------------------------------------------------
(* The next clock edge releases the threads that wait for it alone.         *)
LEMMA StartCycleHandshake ==
    ASSUME IInv, Handshake, StartCycle
    PROVE  Handshake'
<1>1. /\ run = "stopped" /\ run' = "cycle" /\ stage \in {"request", "finish"}
      /\ UNCHANGED <<signalVars, pc, driverVars>>
  BY DEF StartCycle, ClockEdge
<1>2. \A t \in Thread : delay[t].clk > 0
  BY <1>1 DEF IInv, ThreadsHeld
<1>3. \A t \in Thread : /\ delay[t] = Waiting(delay[t].clk, delay[t].delta)
                        /\ delay'[t] = Waiting(delay[t].clk - 1, delay[t].delta)
                        /\ delay[t].clk \in Nat
  <2>1. delay \in [Thread -> Delay]
    BY DEF IInv, TypeOK, KernelTypeOK
  <2>2. QED
    BY <2>1 DEF StartCycle, ClockEdge, Delay, Waiting
<1>4. CASE stage = "finish"
  BY <1>1, <1>4 DEF Handshake, driverVars
<1>5. CASE stage = "request"
  <2> USE <1>1, <1>2, <1>3, <1>5, WaitingFields, WaitingDiffers
      DEF Handshake, L1Awaits, Flag, Thread, driverVars, signalVars
  <2>0. flag = flagNext
    OBVIOUS
  <2>1. Waits'
    BY DEF Waits
  <2>2. CommandUp'
    BY <2>0 DEF CommandUp
  <2>3. AnswerUp'
    BY <2>0 DEF Waits, AnswerUp, L2Withdraws, L1AtEdge
  <2>4. DoneUp'
    BY DEF DoneUp
  <2>5. Sampled'
    BY DEF Sampled, Waits
  <2>6. QED
    BY <2>1, <2>2, <2>3, <2>4, <2>5
<1>6. QED
  BY <1>1, <1>4, <1>5

(* send_request() begins between two clock edges.                           *)
LEMMA SendRequestHandshake ==
    ASSUME IInv, Handshake, NEW r \in Requests, SendRequest(r)
    PROVE  Handshake'
<1>1. /\ stage = "idle" /\ stage' = "request" /\ run' = run
      /\ pc' = pc /\ delay' = delay /\ request' = r /\ ~l2_executes'
      /\ flag' = flagNext'
      /\ flag' = [flag EXCEPT !["valid"] = TRUE, !["write_enable"] = r.we]
  BY DEF SendRequest, AssignNow
<1>2. flag = flagNext /\ pc["L1"] = "restart" /\ run = "stopped"
  BY <1>1 DEF Handshake
<1>3. /\ flag'["write_enable"] = r.we
      /\ \A s \in Flag \ {"valid", "write_enable"} : flag'[s] = flag[s]
  BY <1>1 DEF IInv, TypeOK, KernelTypeOK, Flag
<1> USE <1>1, <1>2, <1>3 DEF Handshake, L1Awaits, Flag
<1>4. Waits' /\ DoneUp'
  BY DEF Waits, DoneUp
<1>5. CommandUp'
  BY DEF CommandUp
<1>6. AnswerUp'
  BY DEF AnswerUp, L2Withdraws, L1AtEdge
<1>7. Sampled'
  BY DEF Sampled
<1>8. QED
  BY <1>4, <1>5, <1>6, <1>7

(* A cycle without an answer: send_request() sees a command to L2 in the     *)
(* cycle in which L1 gives it.                                              *)
LEMMA RequestContinuesHandshake ==
    ASSUME IInv, Handshake, RequestContinues
    PROVE  Handshake'
<1>1. /\ stage = "request" /\ stage' = "request"
      /\ run = "cycle" /\ run' = "stopped"
      /\ pc' = pc /\ delay' = delay /\ request' = request
      /\ flag' = flag /\ flagNext' = flagNext /\ flag = flagNext
      /\ \A t \in Thread : delay[t].clk > 0
      /\ ~flag["done_from_L1"]
      /\ l2_executes' = (l2_executes \/ flag["valid_from_L1_to_L2"])
  BY DEF RequestContinues, CycleEnds, Settled, SignalsSettled, signalVars
<1> USE <1>1, WaitingFields, WaitingDiffers DEF Handshake, L1Awaits, Flag, Thread
<1>4. Waits' /\ DoneUp'
  BY DEF Waits, DoneUp
<1>5. CommandUp'
  BY DEF CommandUp
<1>6. AnswerUp'
  BY DEF AnswerUp, L2Withdraws, L1AtEdge
<1>7. Sampled'
  BY DEF Sampled, CommandUp, Waits
<1>8. QED
  BY <1>4, <1>5, <1>6, <1>7

(* What holds when send_request() sees that L1 is done.                     *)
LEMMA AnsweredState ==
    ASSUME IInv, Handshake, RequestAnswered
    PROVE  /\ run = "cycle" /\ flag = flagNext
           /\ \A t \in Thread : delay[t].clk > 0
           /\ pc["L1"] = "restart" /\ delay["L1"] = Waiting(1, 0)
<1>1. /\ stage = "request" /\ run = "cycle" /\ flag = flagNext
      /\ \A t \in Thread : delay[t].clk > 0
      /\ flag["done_from_L1"]
  BY DEF RequestAnswered, CycleEnds, Settled, SignalsSettled
<1>2. pc["L1"] = "restart"
  BY <1>1, WaitingFields DEF Handshake, DoneUp, Thread
<1>3. delay["L1"] = Waiting(1, 0)
  BY <1>1, <1>2, WaitingFields DEF Handshake, Waits, Thread
<1>4. QED
  BY <1>1, <1>2, <1>3

(* The end of a request, between two clock edges.                           *)
LEMMA RequestAnsweredHandshake ==
    ASSUME IInv, Handshake, RequestAnswered
    PROVE  Handshake'
<1>1. /\ stage = "request" /\ stage' = "idle" /\ run' = "stopped"
      /\ pc' = pc /\ delay' = delay
      /\ flag' = flagNext' /\ flag' = [flag EXCEPT !["valid"] = FALSE]
  BY DEF RequestAnswered, CycleEnds, AssignNow
<1>2. \A s \in Flag \ {"valid"} : flag'[s] = flag[s] /\ flag[s] = flagNext[s]
  BY <1>1, AnsweredState DEF IInv, TypeOK, KernelTypeOK, Flag
<1> USE <1>1, <1>2, AnsweredState DEF Handshake, L1Awaits, Flag
<1>4. Waits' /\ DoneUp'
  BY DEF Waits, DoneUp
<1>5. CommandUp'
  BY DEF CommandUp
<1>6. AnswerUp'
  BY DEF AnswerUp, L2Withdraws, L1AtEdge
<1>7. QED
  BY <1>4, <1>5, <1>6

(* Every step of the driver keeps the handshake.                            *)
LEMMA DriverHandshake ==
    ASSUME IInv, Handshake, Driver
    PROVE  Handshake'
<1>1. CASE \E r \in Requests : SendRequest(r)
  BY <1>1, SendRequestHandshake
<1>2. CASE RequestExhausted \/ Finish \/ FinishWaits \/ Finished
  BY <1>2 DEF RequestExhausted, Finish, FinishWaits, Finished, Handshake
<1>3. CASE Stopped
  BY <1>3 DEF Stopped, vars, driverVars, Handshake
<1>4. QED
  BY <1>1, <1>2, <1>3, StartCycleHandshake, RequestContinuesHandshake,
     RequestAnsweredHandshake DEF Driver

(* The constructors establish it.                                           *)
LEMMA InitHandshake == Init => Handshake
<1> SUFFICES ASSUME Init PROVE Handshake
  OBVIOUS
<1>1. /\ flag = [s \in Flag |-> FALSE] /\ flagNext = flag /\ run = "stopped"
      /\ pc["L1"] = "restart" /\ pc["L2"] = "restart"
      /\ delay["L1"] = Waiting(1, 0) /\ delay["L2"] = Waiting(1, 0)
      /\ stage = "idle"
  BY DEF Init, KernelInit, Thread, Waiting
<1>2. QED
  BY <1>1
  DEF Handshake, Waits, CommandUp, AnswerUp, DoneUp, L1Awaits, Flag

(* Every step keeps it.                                                     *)
LEMMA NextHandshake == IInv /\ Handshake /\ [Next]_vars => Handshake'
<1> SUFFICES ASSUME IInv, Handshake, [Next]_vars PROVE Handshake'
  OBVIOUS
<1>1. CASE UNCHANGED vars
  BY <1>1
  DEF vars, kernelVars, driverVars, Handshake, Waits, CommandUp, AnswerUp,
      DoneUp, Sampled, L2Withdraws, L1AtEdge, L1Awaits
<1>2. QED
  BY <1>1, ThreadStepHandshake, DeltaHandshake, DriverHandshake DEF Next

-----------------------------------------------------------------------------
(* What is reported of a request agrees with what it went through.          *)
LEMMA AnsweredTruthful ==
    ASSUME IInv, Handshake, RequestAnswered
    PROVE  StatsTruthful'
<1>1. /\ stats'.l2_executes = (l2_executes \/ flag["valid_from_L1_to_L2"])
      /\ stats'.we = request.we
      /\ stats'.hit_L1 = flag["hit_from_L1"] /\ stats'.hit_L2 = flag["hit_from_L2"]
      /\ stage = "request"
  BY DEF RequestAnswered
<1>2. Sampled /\ CommandUp /\ AnswerUp /\ ~L1Awaits
  BY <1>1, AnsweredState DEF Handshake, L1Awaits
<1>3. ~flag["valid_from_L1_to_L2"] /\ pc["L2"] \in {"restart", "poll"}
  BY <1>2, AnsweredState DEF CommandUp
<1>4. l2_executes <=> request.we \/ ~flag["hit_from_L1"]
  BY <1>2, AnsweredState DEF Sampled
<1>5. ~l2_executes => ~flag["hit_from_L2"]
  <2>1. pc["L2"] = "restart" => l2_executes
    BY <1>2, AnsweredState DEF Sampled
  <2>2. pc["L2"] = "poll" => ~flag["hit_from_L2"]
    BY <1>2, AnsweredState DEF AnswerUp, L2Withdraws
  <2>3. QED
    BY <1>3, <2>1, <2>2
<1>6. QED
  BY <1>1, <1>3, <1>4, <1>5 DEF StatsTruthful

(* The statistics of every answered request are truthful, for every         *)
(* configuration (send_request(): "cache_l2_executes is true IFF             *)
(* valid_from_l1_to_l2 is true"): a request that left L1 is counted as      *)
(* served by L2, and one that did not never shows a hit there, although the *)
(* signals are looked at only once per clock cycle.                         *)
THEOREM StatsCorrect == Spec => []StatsTruthful
<1> DEFINE Inv == IInv /\ Handshake /\ StatsTruthful
<1>1. Init => Inv
  <2>1. Init => StatsTruthful
    BY DEF Init, NoStats, StatsTruthful
  <2>2. QED
    BY <2>1, InitIInv, InitHandshake
<1>2. Inv /\ [Next]_vars => Inv'
  <2> SUFFICES ASSUME Inv, [Next]_vars PROVE Inv'
    OBVIOUS
  <2>1. IInv' /\ Handshake'
    BY NextIInv, NextHandshake
  <2>2. StatsTruthful'
    <3>1. CASE stats' = stats
      BY <3>1 DEF StatsTruthful
    <3>2. CASE RequestAnswered
      BY <3>2, AnsweredTruthful
    <3>3. CASE \E r \in Requests : SendRequest(r)
      BY <3>3 DEF SendRequest, NoStats, StatsTruthful
    <3>4. stats' = stats \/ RequestAnswered \/ \E r \in Requests : SendRequest(r)
      BY DEF Next, L1Step, L2Step, MemoryStep, Delta, Driver, StartCycle,
             RequestExhausted, RequestContinues, Finish, FinishWaits,
             Finished, Stopped, vars, driverVars
    <3>5. QED
      BY <3>1, <3>2, <3>3, <3>4
  <2>3. QED
    BY <2>1, <2>2
<1>3. QED
  BY <1>1, <1>2, PTL DEF Spec
-----------------------------------------------------------------------------
(* While L2 works on a command it sees it standing.                         *)
CommandStands ==
    stage \in {"idle", "request"} /\ L2Works => flag["valid_from_L1_to_L2"]

(* When the requests are over neither cache finds another command.          *)
Over == {"probe", "finish", "done", "unfinished"}
Idles ==
    /\ pc["L1"] \in {"restart", "poll"} /\ ~L2Works
    /\ \A s \in {"valid", "valid_from_L1_to_L2"} : ~flag[s] /\ ~flagNext[s]
CachesRest ==
    /\ stage = "idle" => ~flag["valid"] /\ ~flagNext["valid"]
    /\ stage \in Over => Idles
    /\ stage = "exhausted" => run = "stopped"

(* Before the first request no cache has anything to do.                    *)
LEMMA InitRest == Init => CommandStands /\ CachesRest
  BY DEF Init, KernelInit, Thread, Flag, CommandStands, CachesRest, Over,
         L2Works

(* A step of a thread keeps both.                                           *)
LEMMA ThreadStepRest ==
    ASSUME IInv, Handshake, CommandStands, CachesRest,
           L1Step \/ L2Step \/ MemoryStep
    PROVE  CommandStands' /\ CachesRest'
<1> USE DEF Flag, Thread
<1>1. UNCHANGED driverVars
  BY DEF L1Step, L2Step, MemoryStep
<1>2. CASE L1Step
  <2>1. /\ flag' = flag /\ pc'["L2"] = pc["L2"] /\ run' = run
        /\ flagNext'["valid"] = flagNext["valid"]
        /\ run \in {"cycle", "zero"}
    <3>1. L1Next /\ OnlyMoves("L1")
      BY <1>2, L1StepType DEF L1Step, IInv, TypeOK
    <3>2. flag' = flag /\ flagNext'["valid"] = flagNext["valid"]
      BY <3>1
      DEF L1Next, L1Restart, L1Poll, L1Write, L1ReadHit, L1ReadMiss,
          L1StillWaiting, L1WriteDone, L1Fill, L1Propagate, L1Complete, Drive,
          signalVars, IInv, TypeOK, KernelTypeOK
    <3>3. QED
      BY <3>1, <3>2 DEF OnlyMoves
  <2>2. Idles => Idles'
    <3> SUFFICES ASSUME Idles PROVE Idles'
      OBVIOUS
    <3>1. L1Restart \/ L1Poll
      BY <1>2
      DEF L1Step, L1Next, L1Write, L1ReadHit, L1ReadMiss, L1StillWaiting,
          L1WriteDone, L1Fill, Runs, Idles
    <3>2. /\ pc'["L1"] = "poll"
          /\ flagNext'["valid_from_L1_to_L2"] = flagNext["valid_from_L1_to_L2"]
      BY <3>1
      DEF L1Restart, L1Poll, Suspend, Drive, signalVars, Idles, IInv, TypeOK,
          KernelTypeOK
    <3>3. QED
      BY <2>1, <3>2 DEF Idles, L2Works
  <2>3. QED
    BY <1>1, <2>1, <2>2 DEF CommandStands, CachesRest, L2Works, driverVars
<1>3. CASE L2Step
  <2>1. /\ flag' = flag /\ pc'["L1"] = pc["L1"] /\ run' = run
        /\ \A s \in {"valid", "valid_from_L1_to_L2"} : flagNext'[s] = flagNext[s]
        /\ L2Works' => L2Works \/ flag["valid_from_L1_to_L2"]
    <3>1. CASE L2Restart
      BY <3>1
      DEF L2Restart, Suspend, Drive, IInv, TypeOK, KernelTypeOK, L2Works
    <3>2. CASE L2Poll
      BY <3>2
      DEF L2Poll, Suspend, signalVars, IInv, TypeOK, KernelTypeOK, L2Works
    <3>3. CASE L2Moves \/ L2Ends
      BY <3>3 DEF L2Moves, L2Ends, L2Works, Drives
    <3>4. QED
      BY <1>3, <3>1, <3>2, <3>3, L2NextKinds DEF L2Step
  <2>2. QED
    BY <1>1, <2>1 DEF CommandStands, CachesRest, Idles, Over, driverVars
<1>4. CASE MemoryStep
  <2>1. /\ flag' = flag /\ run' = run
        /\ pc'["L1"] = pc["L1"] /\ pc'["L2"] = pc["L2"]
        /\ \A s \in {"valid", "valid_from_L1_to_L2"} : flagNext'[s] = flagNext[s]
    BY <1>4, MemoryDrives DEF MemoryStep, Drives
  <2>2. QED
    BY <1>1, <2>1
    DEF CommandStands, CachesRest, Idles, Over, driverVars, L2Works
<1>5. QED
  BY <1>2, <1>3, <1>4

(* So does the end of a delta cycle: what L2 works on is still awaited.      *)
LEMMA DeltaRest ==
    ASSUME IInv, Handshake, CommandStands, CachesRest, Delta
    PROVE  CommandStands' /\ CachesRest'
<1>1. /\ flag' = flagNext /\ flagNext' = flagNext /\ pc' = pc
      /\ run # "stopped" /\ UNCHANGED driverVars
  BY DEF Delta, DeltaCycle
<1>2. CommandStands'
  BY <1>1 DEF CommandStands, Handshake, CommandUp, L2Works, driverVars
<1>3. CachesRest'
  BY <1>1 DEF CachesRest, Idles, Over, L2Works, driverVars
<1>4. QED
  BY <1>2, <1>3

(* And every step of the driver: it finishes between two requests.          *)
LEMMA DriverRest ==
    ASSUME IInv, Handshake, CommandStands, CachesRest, Driver
    PROVE  CommandStands' /\ CachesRest'
<1> USE DEF CommandStands, CachesRest, Over, L2Works
<1>0. pc' = pc /\ flag \in [Flag -> BOOLEAN] /\ flagNext \in [Flag -> BOOLEAN]
  BY DriverUnchanged DEF IInv, TypeOK, KernelTypeOK
<1>1. ASSUME NEW r \in Requests, SendRequest(r)
      PROVE  CommandStands' /\ CachesRest'
  BY <1>0, <1>1 DEF SendRequest, AssignNow, Flag
<1>2. CASE StartCycle \/ RequestContinues
  BY <1>0, <1>2
  DEF StartCycle, RequestContinues, driverVars, signalVars, Idles
<1>3. CASE RequestExhausted
  BY <1>3 DEF RequestExhausted, CycleEnds
<1>4. CASE RequestAnswered
  BY <1>0, <1>4 DEF RequestAnswered, AssignNow, Flag
<1>5. CASE Finish
  <2>1. /\ stage = "idle" /\ stage' \in {"probe", "done"}
        /\ flag = flagNext /\ pc["L1"] = "restart" /\ ~L2Works
        /\ ~flag["valid"] /\ ~flag["valid_from_L1_to_L2"]
    BY <1>5 DEF Finish, Handshake, CommandUp, L1Awaits
  <2>2. \A s \in {"valid", "valid_from_L1_to_L2"} : ~flag'[s] /\ ~flagNext'[s]
    BY <1>0, <1>5, <2>1 DEF Finish, AssignNow, Flag
  <2>3. QED
    BY <1>0, <2>1, <2>2 DEF Idles
<1>6. CASE FinishWaits \/ Finished
  <2>1. /\ stage \in {"probe", "finish"}
        /\ stage' \in {"finish", "done", "unfinished"}
        /\ UNCHANGED signalVars
    BY <1>6 DEF FinishWaits, Finished, FinishLooks
  <2>2. QED
    BY <1>0, <2>1 DEF signalVars, Idles
<1>7. CASE Stopped
  BY <1>7 DEF Stopped, vars, kernelVars, driverVars, Idles
<1>8. QED
  BY <1>1, <1>2, <1>3, <1>4, <1>5, <1>6, <1>7 DEF Driver

(* Every step keeps both.                                                   *)
LEMMA NextRest ==
    ASSUME IInv, Handshake, CommandStands, CachesRest, [Next]_vars
    PROVE  CommandStands' /\ CachesRest'
<1>1. CASE UNCHANGED vars
  BY <1>1
  DEF vars, kernelVars, driverVars, CommandStands, CachesRest, Idles, Over,
      L2Works
<1>2. QED
  BY <1>1, ThreadStepRest, DeltaRest, DriverRest DEF Next

(* A write that found the store-back buffer full is never given up, for      *)
(* every configuration (cache_l2.hpp, "if (!valid_in->read()) break;"): L1   *)
(* still awaits the answer of whatever L2 tries again.                      *)
THEOREM WritesAreKept == Spec => NoWriteGivenUp
<1> DEFINE Inv == IInv /\ Handshake /\ CommandStands /\ CachesRest
<1>1. Init => Inv
  BY InitIInv, InitHandshake, InitRest
<1>2. Inv /\ [Next]_vars => Inv'
  BY NextIInv, NextHandshake, NextRest
<1>3. Inv /\ [Next]_vars =>
        [pc["L2"] = "retry" => pc'["L2"] \in {"retry", "store"}]_vars
  <2> SUFFICES ASSUME Inv, Next, pc["L2"] = "retry"
               PROVE  pc'["L2"] \in {"retry", "store"}
    OBVIOUS
  <2>1. CASE L1Step \/ MemoryStep \/ Delta \/ Driver
    <3>1. pc'["L2"] = pc["L2"]
      BY <2>1, L1StepType, MemoryStepType, DriverUnchanged
      DEF L1Step, MemoryStep, Delta, DeltaCycle, OnlyMoves, IInv, TypeOK,
          Thread
    <3>2. QED
      BY <3>1
  <2>2. CASE L2Step
    <3>1. L2Retry
      BY <2>2
      DEF L2Step, L2Next, L2Restart, L2Poll, L2Write, L2Store, L2StoreFails,
          L2ReadHit, L2ReadMiss, L2StillWaiting, L2WriteDone, L2FlushDone,
          L2Issue, L2Fill, L2PrefetchTake, L2PrefetchEmpty, L2Install, Runs
    <3>2. L2Works /\ stage \in Stage /\ run # "stopped"
      BY <3>1 DEF L2Works, L2Retry, Runs, IInv, TypeOK
    <3>3. stage \in {"idle", "request"}
      BY <3>2 DEF CachesRest, Over, Idles, Stage
    <3>4. flag["valid_from_L1_to_L2"]
      BY <3>2, <3>3 DEF CommandStands
    <3>5. QED
      BY <3>1, <3>4
      DEF L2Retry, Suspend, IInv, TypeOK, KernelTypeOK, Thread
  <2>3. QED
    BY <2>1, <2>2 DEF Next
<1>4. QED
  BY <1>1, <1>2, <1>3, PTL DEF Spec, NoWriteGivenUp
=============================================================================
