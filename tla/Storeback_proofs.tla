------------------------- MODULE Storeback_proofs -------------------------
(***************************************************************************)
(* What L2 and MEMORY keep up between them, with and without a store-back    *)
(* and a prefetch buffer, for every size of the buffers and the caches,      *)
(* every latency and every interleaving of the two threads: the ring of line *)
(* numbers that in_buffer() searches describes the fifo; an early end leaves *)
(* no write behind; only awaited commands are started; no prefetched line is *)
(* lost; a flush ends with the buffer empty; a program that only writes sees *)
(* one memory.                                                              *)
(***************************************************************************)
EXTENDS Hierarchy_proofs, WellFoundedInduction

-----------------------------------------------------------------------------
(* Remainders.                                                              *)

(* A number below n is its own remainder.                                   *)
LEMMA ModBelow ==
    ASSUME NEW n \in Nat \ {0}, NEW a \in 0 .. n - 1
    PROVE  a % n = a
  OBVIOUS

(* The remainder of a number from n to 2n - 1.                              *)
LEMMA ModAbove ==
    ASSUME NEW n \in Nat \ {0}, NEW a \in n .. 2 * n - 1
    PROVE  a % n = a - n
  OBVIOUS

(* Every number is its quotient times n, and its remainder.                 *)
LEMMA ModSplit ==
    ASSUME NEW n \in Nat \ {0}, NEW a \in Nat
    PROVE  /\ a = n * (a \div n) + (a % n)
           /\ a \div n \in Nat
           /\ a % n \in 0 .. n - 1
  OBVIOUS

(* ... and is written so in only one way.                                   *)
LEMMA ModSame ==
    ASSUME NEW n \in Nat \ {0}, NEW q \in Nat, NEW r \in 0 .. n - 1
    PROVE  (n * q + r) % n = r
  OBVIOUS

(* A remainder can be taken before an addition as well.                     *)
LEMMA ModAdd ==
    ASSUME NEW n \in Nat \ {0}, NEW a \in Nat, NEW b \in Nat
    PROVE  ((a % n) + b) % n = (a + b) % n
<1> DEFINE q == a \div n
           r == a % n
<1>1. a = n * q + r /\ q \in Nat /\ r \in 0 .. n - 1
  BY ModSplit
<1>2. r + b \in Nat
  BY <1>1
<1> DEFINE p == (r + b) \div n
           s == (r + b) % n
<1>3. r + b = n * p + s /\ p \in Nat /\ s \in 0 .. n - 1
  BY <1>2, ModSplit
<1>4. a + b = n * (q + p) + s /\ q + p \in Nat
  <2>1. n * (q + p) = n * q + n * p
    BY <1>1, <1>3
  <2>2. n * q \in Nat /\ n * p \in Nat
    BY <1>1, <1>3
  <2>3. QED
    BY <1>1, <1>3, <2>1, <2>2
<1> HIDE DEF p, q, r, s
<1>5. (a + b) % n = s
  BY <1>3, <1>4, ModSame
<1>6. QED
  BY <1>5 DEF r, s

(* Two numbers less than n apart have different remainders.                 *)
LEMMA ModApart ==
    ASSUME NEW n \in Nat \ {0}, NEW a \in Nat, NEW d \in 1 .. n - 1
    PROVE  a % n # (a + d) % n
<1>1. PICK r \in 0 .. n - 1 : r = a % n
  BY ModSplit
<1>2. (a + d) % n = (r + d) % n
  <2>1. d \in Nat
    OBVIOUS
  <2>2. QED
    BY <1>1, <2>1, ModAdd
<1>3. CASE r + d < n
  <2>1. (r + d) % n = r + d
    BY <1>3, ModBelow
  <2>2. QED
    BY <1>1, <1>2, <2>1
<1>4. CASE r + d >= n
  <2>1. (r + d) % n = r + d - n
    BY <1>4, ModAbove
  <2>2. QED
    BY <1>1, <1>2, <2>1
<1>5. QED
  BY <1>3, <1>4

(* tail - head, as EntriesCounted computes it, is the number of entries.    *)
LEMMA ModDiff ==
    ASSUME NEW n \in Nat \ {0}, NEW h \in 0 .. n - 1, NEW k \in Nat
    PROVE  ((((h + k) % n) - h) + n) % n = k % n
<1>1. PICK r \in 0 .. n - 1 : r = k % n
  BY ModSplit
<1>2. (h + k) % n = (h + r) % n
  <2>1. (r + h) % n = (k + h) % n
    BY <1>1, ModAdd
  <2>2. QED
    BY <2>1
<1>3. CASE h + r < n
  <2>1. (h + r) % n = h + r
    BY <1>3, ModBelow
  <2>2. (r + n) % n = r
    BY ModAbove
  <2>3. QED
    BY <1>1, <1>2, <2>1, <2>2
<1>4. CASE h + r >= n
  <2>1. (h + r) % n = h + r - n
    BY <1>4, ModAbove
  <2>2. r % n = r
    BY ModBelow
  <2>3. ((h + r - n) - h) + n = r
    OBVIOUS
  <2>4. QED
    BY <1>1, <1>2, <2>1, <2>2, <2>3
<1>5. QED
  BY <1>3, <1>4

-----------------------------------------------------------------------------
(* The invariant.                                                           *)

(* The constructor leaves head and tail as the memory from new is; it must  *)
(* be zeroed, or hold any other pair that agrees.                           *)
PointersAgree == \A p \in InitialPointers : p[1] \in Slot /\ p[2] = p[1]

(* The slot of the i-th entry of the fifo.                                  *)
SlotOf(i) == (storeback.head + Taking + i - 1) % StorebackLines

(* head and tail enclose the entries of the fifo and the one being taken,   *)
(* and the line number of each entry is in its slot.  The first two parts   *)
(* are what makes RingMatchesFifo inductive.                                *)
Ring ==
    LET queue == storeback.fifo.queue
    IN /\ storeback.head \in Slot
       /\ storeback.tail =
            (storeback.head + Taking + Len(queue)) % StorebackLines
       /\ \A i \in 1 .. Len(queue) :
            storeback.tags_storeback[SlotOf(i)]
                = LineNumber(queue[i].address, LineWords)

(* Ring says what RingMatchesFifo says.                                     *)
LEMMA RingImplies ==
    ASSUME IInv, Ring, HasStoreback
    PROVE  RingMatchesFifo
<1> DEFINE queue == storeback.fifo.queue
           k == Len(queue) + Taking
<1>1. /\ queue \in Seq(Write) /\ Len(queue) \in Nat
      /\ DOMAIN queue = 1 .. Len(queue)
  BY LenProperties DEF IInv, BuffersOK, StorebackTypeOK
<1>2. Taking \in 0 .. 1
  BY DEF Taking
<1>3. k \in Nat /\ StorebackLines \in Nat \ {0}
  BY <1>1, <1>2, ConstantsAssumption DEF HasStoreback
<1>4. storeback.head \in 0 .. StorebackLines - 1
  BY DEF Ring, Slot
<1>5. EntriesCounted = k % StorebackLines
  <2>1. storeback.tail = (storeback.head + k) % StorebackLines
    <3>1. storeback.head + Taking + Len(queue) = storeback.head + k
      BY <1>1, <1>2, <1>4
    <3>2. QED
      BY <3>1 DEF Ring
  <2>2. EntriesCounted
          = ((((storeback.head + k) % StorebackLines) - storeback.head)
               + StorebackLines) % StorebackLines
    BY <2>1 DEF EntriesCounted
  <2> HIDE DEF k
  <2>3. QED
    BY <1>3, <1>4, <2>2, ModDiff
<1>6. QED
  BY <1>1, <1>5 DEF RingMatchesFifo, Ring, SlotOf

(* An entry that write() appends is enclosed and gets a slot of its own.    *)
LEMMA WriteRing ==
    ASSUME IInv, Ring, HasStoreback, NEW w \in Write,
           storeback.fifo.free > 0, StorebackWrite(w),
           pc'["MEMORY"] = pc["MEMORY"]
    PROVE  Ring'
<1> DEFINE queue == storeback.fifo.queue
           tags == storeback.tags_storeback
           start == storeback.head + Taking
           n == StorebackLines
           number == LineNumber(w.address, LineWords)
<1>1. /\ storeback.fifo \in Fifo(Write) /\ queue \in Seq(Write)
      /\ Len(queue) \in Nat
  BY LenProperties DEF IInv, BuffersOK, StorebackTypeOK, Fifo
<1>2. Len(queue) < n /\ n \in Nat \ {0}
  BY <1>1, ConstantsAssumption
  DEF IInv, BuffersOK, FifoBounded, HasStoreback, Fifo
<1>3. start \in Nat /\ storeback.head \in 0 .. n - 1 /\ Taking \in Nat
  BY DEF Ring, Slot, Taking
<1>4. Taking' = Taking
  BY DEF Taking
<1>5. /\ storeback'.head = storeback.head
      /\ storeback'.tail = (storeback.tail + 1) % n
      /\ storeback'.tags_storeback = [tags EXCEPT ![storeback.tail] = number]
      /\ storeback'.fifo = FifoWrite(storeback.fifo, w)
  BY DEF StorebackWrite, IInv, BuffersOK, StorebackTypeOK
<1>6. storeback'.fifo.queue = Append(queue, w)
  BY <1>1, <1>5 DEF FifoWrite, Fifo
<1>7. /\ Len(Append(queue, w)) = Len(queue) + 1
      /\ \A i \in 1 .. Len(queue) : Append(queue, w)[i] = queue[i]
      /\ Append(queue, w)[Len(queue) + 1] = w
  BY <1>1, AppendProperties
<1>8. storeback.tail = (start + Len(queue)) % n
  BY DEF Ring
<1>9. storeback.tail \in Slot
  <2>1. start + Len(queue) \in Nat
    BY <1>1, <1>3
  <2>2. QED
    BY <1>2, <1>8, <2>1, ModSplit DEF Slot
<1>10. storeback'.tail
         = (storeback'.head + Taking' + Len(storeback'.fifo.queue)) % n
  <2>1. start + Len(queue) \in Nat
    BY <1>1, <1>3
  <2>2. storeback'.tail = ((start + Len(queue)) + 1) % n
    BY <1>2, <1>5, <1>8, <2>1, ModAdd
  <2>3. (start + Len(queue)) + 1
          = storeback.head + Taking + (Len(queue) + 1)
    BY <1>1, <1>3
  <2>4. QED
    BY <1>4, <1>5, <1>6, <1>7, <2>2, <2>3
<1>11. ASSUME NEW i \in 1 .. Len(queue) + 1
       PROVE  storeback'.tags_storeback[(start + i - 1) % n]
                = LineNumber(Append(queue, w)[i].address, LineWords)
  <2>1. CASE i = Len(queue) + 1
    <3>1. start + i - 1 = start + Len(queue)
      BY <1>1, <1>3, <2>1
    <3>2. tags \in [Slot -> Nat]
      BY DEF IInv, BuffersOK, StorebackTypeOK
    <3>3. QED
      BY <1>5, <1>7, <1>8, <1>9, <2>1, <3>1, <3>2
  <2>2. CASE i \in 1 .. Len(queue)
    <3> DEFINE a == start + i - 1
               d == Len(queue) + 1 - i
    <3>1. a \in Nat /\ d \in 1 .. n - 1 /\ a + d = start + Len(queue)
      <4> HIDE DEF start, queue, n
      <4>1. QED
        BY SMTT(30), <1>1, <1>2, <1>3, <2>2
    <3>2. a % n # storeback.tail
      <4> HIDE DEF a, d, start, n
      <4>1. a % n # (a + d) % n
        BY <1>2, <3>1, ModApart
      <4>2. QED
        BY <1>8, <3>1, <4>1
    <3>3. tags \in [Slot -> Nat]
      BY DEF IInv, BuffersOK, StorebackTypeOK
    <3>4. a % n \in Slot
      BY <1>2, <3>1, ModSplit DEF Slot
    <3>5. tags[a % n] = LineNumber(queue[i].address, LineWords)
      BY <2>2 DEF Ring, SlotOf
    <3>6. QED
      BY <1>5, <1>7, <2>2, <3>2, <3>3, <3>4, <3>5
  <2>3. QED
    BY <1>1, <2>1, <2>2
<1>12. QED
  BY <1>2, <1>3, <1>4, <1>5, <1>6, <1>7, <1>10, <1>11
  DEF Ring, SlotOf, Slot, Taking

(* Between the two steps of read() the entry is gone from the fifo and still *)
(* enclosed by head and tail.                                               *)
LEMMA TakeRing ==
    ASSUME IInv, Ring, HasStoreback, storeback.fifo.avail > 0, StorebackTake,
           pc["MEMORY"] = "take", pc'["MEMORY"] = "taken"
    PROVE  Ring'
<1> DEFINE queue == storeback.fifo.queue
<1>1. /\ storeback.fifo \in Fifo(Write) /\ queue \in Seq(Write)
      /\ Len(queue) \in Nat /\ Len(queue) > 0
  BY LenProperties DEF IInv, BuffersOK, StorebackTypeOK, Fifo, FifoBounded
<1>2. queue # << >>
  BY <1>1, EmptySeq
<1>3. Taking = 0 /\ Taking' = 1
  BY DEF Taking
<1>4. /\ storeback'.head = storeback.head /\ storeback'.tail = storeback.tail
      /\ storeback'.tags_storeback = storeback.tags_storeback
      /\ storeback'.fifo = FifoRead(storeback.fifo)
  BY DEF StorebackTake, IInv, BuffersOK, StorebackTypeOK
<1>5. storeback'.fifo.queue = Tail(queue)
  BY <1>1, <1>4 DEF FifoRead, Fifo
<1>6. /\ Len(Tail(queue)) = Len(queue) - 1
      /\ \A i \in 1 .. Len(queue) - 1 : Tail(queue)[i] = queue[i + 1]
  BY <1>1, <1>2, HeadTailProperties
<1>7. storeback.head \in Nat
  BY DEF Ring, Slot
<1>8. storeback'.tail = (storeback'.head + Taking' + Len(Tail(queue)))
                          % StorebackLines
  <2>1. storeback.head + 1 + (Len(queue) - 1)
          = storeback.head + 0 + Len(queue)
    <3> HIDE DEF queue
    <3>1. QED
      BY <1>1, <1>7
  <2>2. QED
    BY <1>3, <1>4, <1>6, <2>1 DEF Ring
<1>9. ASSUME NEW i \in 1 .. Len(queue) - 1
      PROVE  storeback'.tags_storeback[(storeback'.head + Taking' + i - 1)
                                          % StorebackLines]
               = LineNumber(Tail(queue)[i].address, LineWords)
  <2>1. /\ i + 1 \in 1 .. Len(queue)
        /\ storeback.head + 1 + i - 1 = storeback.head + 0 + (i + 1) - 1
    BY <1>1, <1>7
  <2>2. QED
    BY <1>3, <1>4, <1>6, <2>1 DEF Ring, SlotOf
<1>10. QED
  BY <1>4, <1>5, <1>6, <1>8, <1>9 DEF Ring, SlotOf

(* The second step of read() leaves the entries where they are.             *)
LEMMA AdvanceRing ==
    ASSUME IInv, Ring, HasStoreback, StorebackAdvanceHead,
           pc["MEMORY"] = "taken", pc'["MEMORY"] # "taken"
    PROVE  Ring'
<1> DEFINE queue == storeback.fifo.queue
           n == StorebackLines
<1>1. /\ queue \in Seq(Write) /\ Len(queue) \in Nat
  BY LenProperties DEF IInv, BuffersOK, StorebackTypeOK
<1>2. Taking = 1 /\ Taking' = 0
  BY DEF Taking
<1>3. /\ storeback'.head = (storeback.head + 1) % n
      /\ storeback'.tail = storeback.tail
      /\ storeback'.tags_storeback = storeback.tags_storeback
      /\ storeback'.fifo = storeback.fifo
  BY DEF StorebackAdvanceHead, IInv, BuffersOK, StorebackTypeOK
<1>4. storeback.head \in Nat /\ storeback.head + 1 \in Nat
      /\ n \in Nat \ {0}
  BY ConstantsAssumption DEF Ring, Slot, HasStoreback
<1>5. storeback'.head \in Slot
  BY <1>3, <1>4, ModSplit DEF Slot
<1>6. ASSUME NEW k \in Nat
      PROVE  (storeback'.head + Taking' + k) % n
               = (storeback.head + Taking + k) % n
  <2>1. (((storeback.head + 1) % n) + k) % n = (storeback.head + 1 + k) % n
    BY <1>4, ModAdd
  <2>2. storeback'.head + 0 + k = storeback'.head + k
    BY <1>5 DEF Slot
  <2>3. QED
    BY <1>2, <1>3, <2>1, <2>2
<1>7. ASSUME NEW i \in 1 .. Len(queue)
      PROVE  (storeback'.head + Taking' + i - 1) % n
               = (storeback.head + Taking + i - 1) % n
  <2>1. i - 1 \in Nat
    BY <1>1
  <2>2. /\ storeback'.head + Taking' + i - 1
             = storeback'.head + Taking' + (i - 1)
        /\ storeback.head + Taking + i - 1
             = storeback.head + Taking + (i - 1)
    BY <1>1, <1>2, <1>4, <1>5 DEF Slot
  <2>3. QED
    BY <1>6, <2>1, <2>2
<1>8. QED
  BY <1>1, <1>3, <1>5, <1>6, <1>7 DEF Ring, SlotOf

(* What else is kept of Ring when nobody reads or writes.                   *)
LEMMA SameRing ==
    ASSUME Ring, Taking' = Taking,
           storeback'.head = storeback.head, storeback'.tail = storeback.tail,
           storeback'.tags_storeback = storeback.tags_storeback,
           storeback'.fifo.queue = storeback.fifo.queue
    PROVE  Ring'
  BY DEF Ring, SlotOf

(* An empty ring.                                                           *)
LEMMA InitRing ==
    ASSUME Init, HasStoreback, PointersAgree
    PROVE  Ring
<1>1. PICK p \in InitialPointers :
        storeback = [fifo |-> EmptyFifo(StorebackLines),
                     tags_storeback |-> [j \in Slot |-> 0],
                     head |-> p[1], tail |-> p[2], empty |-> TRUE]
  BY DEF Init, StorebackInit
<1>2. storeback.head \in Slot /\ storeback.tail = storeback.head
  BY <1>1 DEF PointersAgree
<1>3. storeback.fifo.queue = << >> /\ Len(<< >>) = 0
  BY <1>1, EmptySeq DEF EmptyFifo
<1>4. Taking = 0
  BY DEF Init, KernelInit, Thread, Taking
<1>5. (storeback.head + 0 + 0) % StorebackLines = storeback.head
  <2>1. StorebackLines \in Nat \ {0}
    BY ConstantsAssumption DEF HasStoreback
  <2>2. storeback.head \in 0 .. StorebackLines - 1
    BY <1>2 DEF Slot
  <2>3. storeback.head + 0 + 0 = storeback.head
    BY <2>2
  <2>4. QED
    BY <2>1, <2>2, <2>3, ModBelow
<1>6. QED
  BY <1>2, <1>3, <1>4, <1>5 DEF Ring

(* Every step of every thread, of the kernel and of the driver keeps Ring.  *)
LEMMA NextRing ==
    ASSUME IInv, Ring, HasStoreback, [Next]_vars
    PROVE  Ring'
<1>1. CASE L1Step
  <2>1. pc'["MEMORY"] = pc["MEMORY"]
    BY <1>1, L1StepType DEF L1Step, IInv, TypeOK, OnlyMoves, Thread
  <2>2. QED
    BY <1>1, <2>1, SameRing DEF L1Step, bufferVars, Taking
<1>2. CASE L2Step
  <2>1. pc'["MEMORY"] = pc["MEMORY"]
    BY <1>2, L2StepType DEF L2Step, IInv, TypeOK, OnlyMoves, Thread
  <2>2. CASE L2Store
    <3> DEFINE w == [address |-> addr["address_from_L1_to_L2"],
                     data |-> bus.data_from_L2_to_Memory]
    <3>1. w \in Write
      BY DEF Write, IInv, TypeOK, KernelTypeOK, AddressSignal, Bus
    <3>2. QED
      BY <2>1, <2>2, <3>1, WriteRing DEF L2Store
  <2>3. CASE ~L2Store
    <3>1. storeback' = storeback
      BY <1>2, <2>3
      DEF L2Step, L2Next, bufferVars, L2Restart, L2Poll, L2Write,
          L2StoreFails, L2Retry, L2ReadHit, L2ReadMiss, L2StillWaiting,
          L2WriteDone, L2FlushDone, L2Issue, L2Fill, L2PrefetchTake,
          L2PrefetchEmpty, L2Install
    <3>2. QED
      BY <2>1, <3>1, SameRing DEF Taking
  <2>4. QED
    BY <2>2, <2>3
<1>3. CASE MemoryStep
  <2> USE DEF Runs, Suspend, StartDraining, IInv, TypeOK, KernelTypeOK, Thread
  <2>1. CASE MemoryTake
    BY <2>1, TakeRing DEF MemoryTake
  <2>2. CASE MemoryTaken
    BY <2>2, AdvanceRing DEF MemoryTaken
  <2>3. CASE ~MemoryTake /\ ~MemoryTaken
    <3>1. storeback' = storeback
      BY <1>3, <2>3
      DEF MemoryStep, MemoryNext, memoryBuffers, MemoryRestart, MemoryIdle,
          MemoryAcceptRead, MemoryAcceptWrite, MemoryAcceptDrain, MemoryRead,
          MemoryPrefetch, MemoryPut, MemoryReadDone, MemoryWrite,
          MemoryResume, MemoryCallRead, MemoryDrained, MemoryAbort,
          MemoryLatencyStep, MemoryCommit
    <3>2. pc["MEMORY"] # "taken" /\ pc'["MEMORY"] # "taken"
      BY <1>3, <2>3
      DEF MemoryStep, MemoryNext, Polled, MemoryRestart, MemoryIdle,
          MemoryAcceptRead, MemoryAcceptWrite, MemoryAcceptDrain, MemoryRead,
          MemoryPrefetch, MemoryPut, MemoryReadDone, MemoryWrite,
          MemoryResume, MemoryCallRead, MemoryDrained, MemoryAbort,
          MemoryLatencyStep, MemoryCommit
    <3>3. QED
      BY <3>1, <3>2, SameRing DEF Taking
  <2>4. QED
    BY <2>1, <2>2, <2>3
<1>4. CASE Delta
  <2>1. pc' = pc
    BY <1>4 DEF Delta, DeltaCycle
  <2>2. storeback'.head = storeback.head /\ storeback'.tail = storeback.tail
        /\ storeback'.tags_storeback = storeback.tags_storeback
        /\ storeback'.fifo = FifoUpdate(storeback.fifo, StorebackLines)
    BY <1>4 DEF Delta, StorebackUpdate, IInv, BuffersOK, StorebackTypeOK
  <2>3. storeback'.fifo.queue = storeback.fifo.queue
    BY <2>2 DEF FifoUpdate, IInv, BuffersOK, StorebackTypeOK
  <2>4. QED
    BY <2>1, <2>2, <2>3, SameRing DEF Taking
<1>5. CASE Driver \/ UNCHANGED vars
  <2>1. UNCHANGED <<moduleVars, pc>>
    BY <1>5, DriverUnchanged DEF vars, kernelVars
  <2>2. QED
    BY <2>1, SameRing DEF moduleVars, Taking
<1>6. QED
  BY <1>1, <1>2, <1>3, <1>4, <1>5 DEF Next

(* The ring of line numbers describes the fifo in every state               *)
(* (storeback_buffer.hpp, write() and read() against in_buffer()).          *)
THEOREM RingCorrect ==
    ASSUME HasStoreback, PointersAgree
    PROVE  Spec => []RingMatchesFifo
<1>1. Init => IInv /\ Ring
  BY InitIInv, InitRing
<1>2. IInv /\ Ring /\ [Next]_vars => (IInv /\ Ring)'
  BY NextIInv, NextRing
<1>3. IInv /\ Ring => RingMatchesFifo
  BY RingImplies
<1>4. QED
  BY <1>1, <1>2, <1>3, PTL DEF Spec

-----------------------------------------------------------------------------
(* What finish_memory() takes from the flag empty.                          *)

(* Where MEMORY is inside write_from_buffer().                              *)
Drains ==
    \/ pc["MEMORY"] \in {"drain", "take", "taken", "latency", "commit"}
    \/ memory.temp.present

(* The flag is wrong only between read()'s last step and the end of the      *)
(* draining: write() may have run before that step in the same delta cycle,  *)
(* or the ring may be full, which has head = tail as well.  MEMORY then      *)
(* finds the entry when it looks at the fifo again.                          *)
EmptyIsEmpty ==
    /\ Drains => memory.write_underway
    /\ pc["MEMORY"] \in {"take", "taken", "latency", "commit"} =>
           ~memory.temp.present
    /\ storeback.empty =>
           /\ Len(storeback.fifo.queue) > storeback.fifo.avail =>
                  pc["MEMORY"] = "latency" /\ delay["MEMORY"].delta = 2
           /\ Len(storeback.fifo.queue) > 0 => memory.write_underway

(* Only write() and the two halves of read() change the buffer.             *)
LEMMA L2KeepsStoreback ==
    ASSUME L2Step, ~L2Store
    PROVE  storeback' = storeback
  BY DEF L2Step, L2Next, bufferVars, L2Restart, L2Poll, L2Write, L2StoreFails,
         L2Retry, L2ReadHit, L2ReadMiss, L2StillWaiting, L2WriteDone,
         L2FlushDone, L2Issue, L2Fill, L2PrefetchTake, L2PrefetchEmpty,
         L2Install

(* MEMORY calls read().                                                     *)
LEMMA MemoryKeepsStoreback ==
    ASSUME MemoryStep, ~MemoryTake, ~MemoryTaken
    PROVE  storeback' = storeback
  BY DEF MemoryStep, MemoryNext, memoryBuffers, MemoryRestart, MemoryIdle,
         MemoryAcceptRead, MemoryAcceptWrite, MemoryAcceptDrain, MemoryRead,
         MemoryPrefetch, MemoryPut, MemoryReadDone, MemoryWrite,
         MemoryResume, MemoryCallRead, MemoryDrained, MemoryAbort,
         MemoryLatencyStep, MemoryCommit

(* A step is one of a thread that waits no longer, and leaves the others     *)
(* where they wait.                                                         *)
LEMMA StepMoves ==
    ASSUME IInv
    PROVE  /\ L1Step => /\ delay["L1"] = Now /\ run' = run /\ run # "stopped"
                        /\ \A u \in {"L2", "MEMORY"} :
                               pc'[u] = pc[u] /\ delay'[u] = delay[u]
           /\ L2Step => /\ delay["L2"] = Now /\ run' = run /\ run # "stopped"
                        /\ \A u \in {"L1", "MEMORY"} :
                               pc'[u] = pc[u] /\ delay'[u] = delay[u]
           /\ MemoryStep => /\ delay["MEMORY"] = Now /\ run' = run
                            /\ run # "stopped"
                            /\ \A u \in {"L1", "L2"} :
                                   pc'[u] = pc[u] /\ delay'[u] = delay[u]
<1> USE DEF Suspend, Runs, Thread, IInv, TypeOK, KernelTypeOK
<1>1. ASSUME L1Step
      PROVE  /\ delay["L1"] = Now /\ run' = run /\ run # "stopped"
             /\ \A u \in {"L2", "MEMORY"} :
                    pc'[u] = pc[u] /\ delay'[u] = delay[u]
  BY <1>1
  DEF L1Step, L1Next, L1Restart, L1Poll, L1Write, L1ReadHit, L1ReadMiss,
      L1StillWaiting, L1WriteDone, L1Fill, L1Complete
<1>2. ASSUME L2Step
      PROVE  /\ delay["L2"] = Now /\ run' = run /\ run # "stopped"
             /\ \A u \in {"L1", "MEMORY"} :
                    pc'[u] = pc[u] /\ delay'[u] = delay[u]
  <2>1. CASE L2Restart \/ L2Poll \/ L2Write \/ L2Store \/ L2StoreFails
               \/ L2Retry
    BY <2>1
    DEF L2Restart, L2Poll, L2Write, L2Store, L2StoreFails, L2Retry, L2Complete
  <2>2. CASE L2ReadHit \/ L2ReadMiss \/ L2StillWaiting \/ L2WriteDone
               \/ L2FlushDone \/ L2Issue
    BY <2>2
    DEF L2ReadHit, L2ReadMiss, L2StillWaiting, L2WriteDone, L2FlushDone,
        L2Issue, L2Complete
  <2>3. CASE L2Fill \/ L2PrefetchTake \/ L2PrefetchEmpty \/ L2Install
    BY <2>3
    DEF L2Fill, L2PrefetchTake, L2PrefetchEmpty, L2Install, L2Answer, L2Complete
  <2>4. QED
    BY <1>2, <2>1, <2>2, <2>3 DEF L2Step, L2Next
<1>3. ASSUME MemoryStep
      PROVE  /\ delay["MEMORY"] = Now /\ run' = run /\ run # "stopped"
             /\ \A u \in {"L1", "L2"} :
                    pc'[u] = pc[u] /\ delay'[u] = delay[u]
  <2>1. delay["MEMORY"] = Now /\ run # "stopped"
    BY <1>3
    DEF MemoryStep, MemoryNext, Polled, MemoryRestart, MemoryIdle,
        MemoryAcceptRead, MemoryAcceptWrite, MemoryAcceptDrain, MemoryRead,
        MemoryPrefetch, MemoryPut, MemoryReadDone, MemoryWrite,
        MemoryResume, MemoryCallRead, MemoryTake, MemoryDrained, MemoryTaken,
        MemoryAbort, MemoryLatencyStep, MemoryCommit
  <2>2. QED
    BY <1>3, <2>1, MemoryDrives DEF MemoryStep
<1>4. QED
  BY <1>1, <1>2, <1>3

(* MEMORY says that it writes for as long as it does.                       *)
LEMMA MemoryUnderway ==
    ASSUME IInv, EmptyIsEmpty, MemoryStep
    PROVE  /\ Drains' => memory'.write_underway
           /\ pc'["MEMORY"] \in {"take", "taken", "latency", "commit"} =>
                  ~memory'.temp.present
           /\ memory.write_underway /\ ~memory'.write_underway => MemoryDrained
<1> USE DEF Drains, EmptyIsEmpty, Runs, Suspend, StartDraining, Data, NoData,
            memoryVars, IInv, TypeOK, KernelTypeOK, MemoryTypeOK, Thread
<1>1. MemoryNext
  BY DEF MemoryStep
<1>2. CASE MemoryRestart \/ MemoryIdle
  BY <1>2 DEF MemoryRestart, MemoryIdle
<1>3. CASE MemoryAcceptRead \/ MemoryAcceptWrite
  BY <1>3 DEF MemoryAcceptRead, MemoryAcceptWrite, Polled
<1>4. CASE MemoryAcceptDrain \/ MemoryRead \/ MemoryPrefetch \/ MemoryPut
  BY <1>4 DEF MemoryAcceptDrain, MemoryRead, MemoryPrefetch, MemoryPut
<1>5. CASE MemoryReadDone \/ MemoryWrite \/ MemoryCallRead
  BY <1>5 DEF MemoryReadDone, MemoryWrite, MemoryCallRead
<1>6. CASE MemoryResume
  BY <1>6 DEF MemoryResume
<1>7. CASE MemoryTake
  <2>1. /\ memory'.write_underway = memory.write_underway
        /\ memory'.temp = memory.temp
        /\ pc["MEMORY"] = "take"
    BY <1>7 DEF MemoryTake
  <2>2. QED
    BY <2>1
<1>8. CASE MemoryDrained
  <2>1. ~memory.temp.present /\ memory'.temp = memory.temp
        /\ pc'["MEMORY"] = "restart"
    BY <1>8 DEF MemoryDrained
  <2>2. QED
    BY <1>8, <2>1
<1>9. CASE MemoryTaken
  BY <1>9 DEF MemoryTaken
<1>10. CASE MemoryAbort \/ MemoryLatencyStep \/ MemoryCommit
  BY <1>10 DEF MemoryAbort, MemoryLatencyStep, MemoryCommit
<1>11. QED
  BY <1>1, <1>2, <1>3, <1>4, <1>5, <1>6, <1>7, <1>8, <1>9, <1>10
  DEF MemoryNext

(* Every step keeps the flag right where it has to be.                       *)
LEMMA NextEmpty ==
    ASSUME IInv, EmptyIsEmpty, [Next]_vars
    PROVE  EmptyIsEmpty'
<1> USE DEF EmptyIsEmpty, Drains, Thread
<1>0. /\ storeback \in [fifo : [queue : Seq(Write), avail : Nat, free : Nat],
                        tags_storeback : [Slot -> Nat],
                        head : Nat, tail : Nat, empty : BOOLEAN]
      /\ storeback.fifo.avail \in Nat /\ Len(storeback.fifo.queue) \in Nat
      /\ storeback.fifo.avail <= Len(storeback.fifo.queue)
      /\ delay \in [Thread -> Delay] /\ pc \in [Thread -> Label]
  BY LenProperties
  DEF IInv, TypeOK, KernelTypeOK, BuffersOK, StorebackTypeOK, FifoBounded, Fifo
<1>1. CASE L1Step
  <2>1. pc'["MEMORY"] = pc["MEMORY"] /\ delay'["MEMORY"] = delay["MEMORY"]
    BY <1>1, StepMoves
  <2>2. QED
    BY <1>1, <2>1 DEF L1Step, bufferVars, memoryVars
<1>2. CASE L2Step
  <2>1. pc'["MEMORY"] = pc["MEMORY"] /\ delay'["MEMORY"] = delay["MEMORY"]
        /\ memory' = memory
    BY <1>2, StepMoves DEF L2Step, memoryVars
  <2>2. L2Store => storeback'.empty = FALSE
    BY <1>0 DEF L2Store, StorebackWrite
  <2>3. QED
    BY <1>2, <2>1, <2>2, L2KeepsStoreback
<1>3. CASE MemoryStep
  <2>1. delay["MEMORY"].delta = 0 /\ delay["MEMORY"] = Now
    BY <1>3, StepMoves DEF Now
  <2>2. storeback.empty => storeback.fifo.avail = Len(storeback.fifo.queue)
    BY <1>0, <2>1
  <2>3. /\ Drains' => memory'.write_underway
        /\ pc'["MEMORY"] \in {"take", "taken", "latency", "commit"} =>
               ~memory'.temp.present
        /\ memory.write_underway /\ ~memory'.write_underway => MemoryDrained
    BY <1>3, MemoryUnderway
  <2>4. CASE MemoryTake
    <3>1. /\ storeback'.empty = storeback.empty
          /\ storeback'.fifo.queue = Tail(storeback.fifo.queue)
          /\ storeback'.fifo.avail = storeback.fifo.avail - 1
      BY <1>0, <2>4 DEF MemoryTake, StorebackTake, FifoRead
    <3>2. storeback.fifo.queue # << >>
      BY <1>0, <2>4, EmptySeq DEF MemoryTake
    <3>3. Len(storeback'.fifo.queue) = Len(storeback.fifo.queue) - 1
      BY <1>0, <3>1, <3>2, HeadTailProperties
    <3>4. pc["MEMORY"] = "take" /\ memory'.write_underway
      BY <2>3, <2>4
      DEF MemoryTake, Runs, Suspend, IInv, TypeOK, KernelTypeOK
    <3>5. QED
      BY <1>0, <2>2, <2>3, <3>1, <3>3, <3>4
  <2>5. CASE MemoryTaken
    <3>1. /\ storeback'.fifo = storeback.fifo
          /\ pc'["MEMORY"] = "latency" /\ delay'["MEMORY"].delta = 2
      BY <1>0, <2>5 DEF MemoryTaken, StorebackAdvanceHead, Suspend
    <3>2. QED
      BY <2>3, <3>1
  <2>6. CASE MemoryDrained
    BY <1>0, <2>2, <2>3, <2>6, MemoryKeepsStoreback, <1>3
    DEF MemoryDrained, memoryBuffers
  <2>7. CASE ~MemoryTake /\ ~MemoryTaken /\ ~MemoryDrained
    BY <1>0, <1>3, <2>2, <2>3, <2>7, MemoryKeepsStoreback
  <2>8. QED
    BY <2>4, <2>5, <2>6, <2>7
<1>4. CASE Delta
  <2>1. /\ storeback'.empty = storeback.empty
        /\ storeback'.fifo.queue = storeback.fifo.queue
        /\ storeback'.fifo.avail = Len(storeback.fifo.queue)
        /\ pc' = pc /\ memory' = memory
    BY <1>0, <1>4
    DEF Delta, DeltaCycle, StorebackUpdate, FifoUpdate, memoryVars
  <2>2. QED
    BY <1>0, <2>1
<1>5. CASE Driver \/ UNCHANGED vars
  <2>1. UNCHANGED <<moduleVars, pc>>
    BY <1>5, DriverUnchanged DEF vars, kernelVars
  <2>2. delay'["MEMORY"].delta = delay["MEMORY"].delta
    <3>1. CASE ClockEdge
      <4>1. delay'["MEMORY"] = [delay["MEMORY"] EXCEPT !.clk = @ - 1]
        BY <3>1 DEF ClockEdge
      <4>2. QED
        BY <1>0, <4>1 DEF Delay
    <3>2. CASE delay' = delay
      BY <3>2
    <3>3. ClockEdge \/ delay' = delay
      BY <1>5
      DEF Driver, SendRequest, StartCycle, RequestExhausted, RequestContinues,
          RequestAnswered, Finish, FinishWaits, Finished, Stopped, vars,
          kernelVars
    <3>4. QED
      BY <3>1, <3>2, <3>3
  <2>3. QED
    BY <2>1, <2>2 DEF moduleVars
<1>6. QED
  BY <1>1, <1>2, <1>3, <1>4, <1>5 DEF Next

(* finish_memory() returns at once only when nothing is left to write, for   *)
(* every configuration (storeback_buffer.hpp, is_empty(), called between two *)
(* delta cycles of memory's read() and L2's write()).                        *)
THEOREM EarlyFinishCorrect == Spec => []EarlyFinishIsSafe
<1>1. Init => IInv /\ EmptyIsEmpty
  <2>1. Init => EmptyIsEmpty
    BY EmptySeq
    DEF Init, KernelInit, MemoryInit, NoData, StorebackInit, EmptyFifo,
        EmptyIsEmpty, Drains, Thread
  <2>2. QED
    BY <2>1, InitIInv
<1>2. IInv /\ EmptyIsEmpty /\ [Next]_vars => (IInv /\ EmptyIsEmpty)'
  BY NextIInv, NextEmpty
<1>3. IInv /\ EmptyIsEmpty => EarlyFinishIsSafe
  <2> SUFFICES ASSUME IInv, EmptyIsEmpty, NothingToWrite
               PROVE  PendingWrites = << >>
    BY DEF EarlyFinishIsSafe
  <2>1. InFlight = << >>
    BY DEF EmptyIsEmpty, Drains, InFlight, NothingToWrite
  <2>2. storeback.fifo.queue \in Seq(Write) /\ Len(storeback.fifo.queue) \in Nat
    BY LenProperties DEF IInv, BuffersOK, StorebackTypeOK
  <2>3. storeback.fifo.queue = << >>
    BY <2>2, EmptySeq DEF EmptyIsEmpty, NothingToWrite, is_empty
  <2>4. QED
    BY <2>1, <2>3, EmptySeq DEF PendingWrites
<1>4. QED
  BY <1>1, <1>2, <1>3, PTL DEF Spec

-----------------------------------------------------------------------------
(* The handshake of L2 and MEMORY, with and without the buffers.            *)

L2Awaits == pc["L2"] \in {"await_write", "await_read"}
L2Fetches == pc["L2"] \in {"prefetch", "install"}

(* L2 has a command at its signals: it awaits the answer, or a place in the  *)
(* store-back buffer.                                                       *)
L2Commands == L2Awaits \/ pc["L2"] \in {"store", "retry"}

(* It has ended its work in this clock cycle.                               *)
L2Rests == pc["L2"] = "restart" /\ delay["L2"] = Waiting(1, 0)

(* MEMORY has answered the command it last took.                            *)
Answers == pc["MEMORY"] \in {"restart", "prefetch", "put"}

(* It has withdrawn the answer in this delta cycle or the one before.        *)
Withdraws ==
    \/ pc["MEMORY"] = "poll" /\ delay["MEMORY"] = Waiting(0, 2)
    \/ pc["MEMORY"] = "drain" /\ delay["MEMORY"] = Waiting(0, 1)

(* It is on its way from an interrupted draining to the read.               *)
Interrupted == pc["MEMORY"] \in {"restart", "poll"} /\ memory.write_underway

(* How long the two can wait, and what only a store-back buffer brings.      *)
BothWait ==
    /\ pc["MEMORY"] = "restart" =>
           delay["MEMORY"] = Waiting(1, 2) \/ delay["MEMORY"].clk = 0
    /\ pc["MEMORY"] \in {"prefetch", "drain"} => delay["MEMORY"].clk = 0
    /\ pc["MEMORY"] \in {"read", "write"} => delay["MEMORY"].delta = 0
    /\ pc["L2"] = "await_read" =>
           delay["L2"] = Waiting(1, 2) \/ delay["L2"].clk = 0
    /\ pc["L2"] \in {"store", "retry"} => HasStoreback
    /\ pc["L2"] = "await_write" => ~HasStoreback
    /\ memory.write_underway => HasStoreback

(* A command is visible while it stands.  Once withdrawn it is seen for less *)
(* than a clock cycle, and not by a MEMORY that would serve it again: only   *)
(* the draining, which a write starts, can be started once more.            *)
CommandShown ==
    /\ flagNext["valid_from_L2_to_Memory"] <=> L2Commands
    /\ L2Commands => (flagNext["write_enable_from_L2_to_Memory"]
                          <=> pc["L2"] # "await_read")
    /\ flag["valid_from_L2_to_Memory"] /\ L2Commands =>
           (flag["write_enable_from_L2_to_Memory"]
                <=> flagNext["write_enable_from_L2_to_Memory"])
    /\ flag["valid_from_L2_to_Memory"] /\ ~L2Commands =>
           /\ L2Rests \/ (pc["L2"] = "prefetch" /\ delay["L2"] = Waiting(0, 1))
           /\ \/ Answers \/ Withdraws
              \/ HasStoreback /\ flag["write_enable_from_L2_to_Memory"]

(* MEMORY works for an L2 that awaits it, and L2 looks two delta cycles after *)
(* the answer to a read is given.                                           *)
CommandServed ==
    /\ pc["MEMORY"] = "read" => pc["L2"] = "await_read"
    /\ pc["MEMORY"] = "write" => pc["L2"] = "await_write"
    /\ Interrupted => pc["L2"] = "await_read" /\ flag["valid_from_L2_to_Memory"]
    /\ pc["MEMORY"] = "read" /\ delay["MEMORY"].clk = 0 =>
           delay["L2"] = Waiting(0, 2)
    /\ pc["MEMORY"] \in {"prefetch", "put"} /\ L2Commands =>
           /\ pc["L2"] = "await_read" /\ memory.i = 1
           /\ flagNext["done_from_Memory"]
           /\ delay["L2"] = Waiting(0, 2) \/ flag["done_from_Memory"]
           /\ \/ /\ pc["MEMORY"] = "prefetch" /\ delay["MEMORY"] = delay["L2"]
                 /\ delay["L2"].clk = 0
              \/ /\ pc["MEMORY"] = "put" /\ delay["MEMORY"].clk # 0
                 /\ delay["L2"] = Waiting(0, 0)

(* An answer is visible from the delta cycle after it is given to the one in *)
(* which MEMORY has withdrawn it, and never while a read is still to be      *)
(* served for which a draining was interrupted.                             *)
AnswerShown ==
    /\ flagNext["done_from_Memory"] => Answers
    /\ flag["done_from_Memory"] =>
           Answers \/ (Withdraws /\ ~flagNext["done_from_Memory"])
    /\ flag["done_from_Memory"] \/ flagNext["done_from_Memory"] => ~Interrupted

(* The lines of a miss that MEMORY has put into the prefetch buffer, and     *)
(* those that L2 has taken out.                                             *)
LinesPut ==
    IF pc["MEMORY"] \in {"prefetch", "put"} THEN memory.i - 1 ELSE PrefetchLines
LinesTaken == IF pc["L2"] = "install" THEN l2.i + 1 ELSE l2.i

(* L2 takes what MEMORY puts, and leaves nothing behind.                     *)
LinesFetched ==
    /\ pc["MEMORY"] \in {"prefetch", "put"} =>
           /\ memory.i \in 1 .. PrefetchLines + 1
           /\ \/ pc["L2"] = "await_read" \/ L2Fetches
              \/ L2Rests /\ pc["MEMORY"] = "prefetch" /\ memory.i > PrefetchLines
    /\ pc["MEMORY"] = "put" => memory.i <= PrefetchLines
    /\ ~L2Fetches => Len(prefetch.queue) = 0
    /\ L2Fetches => /\ l2.i < PrefetchLines
                    /\ LinesTaken + Len(prefetch.queue) <= LinesPut

Exchange ==
    BothWait /\ CommandShown /\ CommandServed /\ AnswerShown /\ LinesFetched

-----------------------------------------------------------------------------
(* What the numbers are.                                                    *)
LEMMA NumberTypes ==
    ASSUME IInv
    PROVE  /\ PrefetchLines \in Nat /\ l2.i \in Nat /\ memory.i \in Nat
           /\ Len(prefetch.queue) \in Nat
           /\ delay \in [Thread -> Delay] /\ pc \in [Thread -> Label]
           /\ flag \in [Flag -> BOOLEAN] /\ flagNext \in [Flag -> BOOLEAN]
           /\ \A t \in Thread : delay[t].clk \in Nat /\ delay[t].delta \in Nat
           /\ L1Latency \in Nat \ {0} /\ L2Latency \in Nat \ {0}
           /\ MemoryLatency \in Nat \ {0}
<1>1. Len(prefetch.queue) \in Nat
  BY LenProperties DEF IInv, TypeOK, PrefetchTypeOK
<1>2. QED
  BY <1>1, ConstantsAssumption
  DEF IInv, TypeOK, KernelTypeOK, L2TypeOK, MemoryTypeOK, Delay

(* Steps that leave both threads and what is between them alone.            *)
LEMMA ElsewhereExchange ==
    ASSUME IInv, Exchange,
           \A t \in {"L2", "MEMORY"} : pc'[t] = pc[t] /\ delay'[t] = delay[t],
           \A s \in {"valid_from_L2_to_Memory", "done_from_Memory",
                     "write_enable_from_L2_to_Memory"} :
               flag'[s] = flag[s] /\ flagNext'[s] = flagNext[s],
           l2'.i = l2.i, memory'.i = memory.i,
           memory'.write_underway = memory.write_underway,
           Len(prefetch'.queue) = Len(prefetch.queue)
    PROVE  Exchange'
<1> USE DEF L2Awaits, L2Fetches, L2Commands, L2Rests, Answers, Withdraws,
            Interrupted
<1>1. BothWait' /\ AnswerShown'
  BY DEF Exchange, BothWait, AnswerShown
<1>2. CommandShown' /\ CommandServed'
  BY DEF Exchange, CommandShown, CommandServed
<1>3. LinesFetched'
  BY DEF Exchange, LinesFetched, LinesPut, LinesTaken
<1>4. QED
  BY <1>1, <1>2, <1>3 DEF Exchange

-----------------------------------------------------------------------------
(* L2 has no command for MEMORY: none is visible either.                     *)
LEMMA L2IdleExchange ==
    ASSUME IInv, Exchange, UNCHANGED <<memory, prefetch>>, l2'.i = l2.i,
           NEW label \in {"restart", "poll", "access", "flush"},
           NEW next \in {"restart", "poll", "access", "flush", "issue"},
           NEW clocks, NEW deltas,
           ThreadMoves("L2", label, next, clocks, deltas),
           Drives({"done_from_L2", "hit_from_L2"})
    PROVE  Exchange'
<1> USE NumberTypes, WaitingFields, WaitingDiffers
    DEF L2Awaits, L2Fetches, L2Commands, L2Rests, Answers, Withdraws,
        Interrupted, ThreadMoves, Drives, Flag, Thread
<1>1. ~flag["valid_from_L2_to_Memory"]
  BY DEF Exchange, CommandShown
<1>2. pc["MEMORY"] \notin {"prefetch", "put"}
  BY DEF Exchange, LinesFetched
<1>3. BothWait'
  BY DEF Exchange, BothWait
<1>4. CommandShown'
  BY <1>1 DEF Exchange, CommandShown
<1>5. CommandServed'
  BY <1>2 DEF Exchange, CommandServed
<1>6. AnswerShown'
  BY DEF Exchange, AnswerShown
<1>7. LinesFetched'
  BY <1>2 DEF Exchange, LinesFetched, LinesPut, LinesTaken
<1>8. QED
  BY <1>3, <1>4, <1>5, <1>6, <1>7 DEF Exchange

(* L2 gives a command.                                                      *)
LEMMA L2CommandExchange ==
    ASSUME IInv, Exchange, UNCHANGED <<memory, prefetch>>, l2'.i = l2.i,
           NEW label, NEW next, NEW deltas,
           \/ label = "access" /\ next = "store" /\ HasStoreback
           \/ label = "access" /\ next = "await_write" /\ ~HasStoreback
           \/ label = "issue" /\ next = "await_read",
           ThreadMoves("L2", label, next, 0, deltas),
           Drives({"hit_from_L2", "valid_from_L2_to_Memory",
                   "write_enable_from_L2_to_Memory"}),
           flagNext'["valid_from_L2_to_Memory"],
           flagNext'["write_enable_from_L2_to_Memory"] <=> next # "await_read"
    PROVE  Exchange'
<1> USE NumberTypes, WaitingFields, WaitingDiffers
    DEF L2Awaits, L2Fetches, L2Commands, L2Rests, Answers, Withdraws,
        Interrupted, ThreadMoves, Drives, Flag, Thread
<1>1. ~flag["valid_from_L2_to_Memory"]
  BY DEF Exchange, CommandShown
<1>2. pc["MEMORY"] \notin {"prefetch", "put", "read", "write"} /\ ~Interrupted
  BY DEF Exchange, LinesFetched, CommandServed
<1>3. BothWait'
  BY SMTT(30) DEF Exchange, BothWait
<1>4. CommandShown'
  BY <1>1 DEF Exchange, CommandShown
<1>5. CommandServed'
  BY <1>2 DEF Exchange, CommandServed
<1>6. AnswerShown'
  BY DEF Exchange, AnswerShown
<1>7. LinesFetched'
  BY <1>2 DEF Exchange, LinesFetched, LinesPut, LinesTaken
<1>8. QED
  BY <1>3, <1>4, <1>5, <1>6, <1>7 DEF Exchange

(* L2 goes on waiting for MEMORY, or for a place in the store-back buffer.   *)
LEMMA L2WaitExchange ==
    ASSUME IInv, Exchange, UNCHANGED <<memory, prefetch>>, l2'.i = l2.i,
           NEW label, NEW next, NEW clocks, NEW deltas,
           \/ /\ label \in {"await_write", "await_read"} /\ next = label
              /\ clocks = 1 /\ deltas = 2 /\ ~flag["done_from_Memory"]
           \/ label = "store" /\ next = "retry"
           \/ label = "retry" /\ next = "store",
           ThreadMoves("L2", label, next, clocks, deltas), Drives({})
    PROVE  Exchange'
<1> USE NumberTypes, WaitingFields, WaitingDiffers
    DEF L2Awaits, L2Fetches, L2Commands, L2Rests, Answers, Withdraws,
        Interrupted, ThreadMoves, Drives, Flag, Thread
<1>1. pc["MEMORY"] \notin {"prefetch", "put"}
  BY DEF Exchange, CommandServed
<1>2. ~(pc["MEMORY"] = "read" /\ delay["MEMORY"].clk = 0)
  BY DEF Exchange, CommandServed
<1>3. BothWait'
  BY DEF Exchange, BothWait
<1>4. CommandShown'
  BY DEF Exchange, CommandShown
<1>5. CommandServed'
  BY <1>1, <1>2 DEF Exchange, CommandServed
<1>6. AnswerShown'
  BY DEF Exchange, AnswerShown
<1>7. LinesFetched'
  BY <1>1 DEF Exchange, LinesFetched, LinesPut, LinesTaken
<1>8. QED
  BY <1>3, <1>4, <1>5, <1>6, <1>7 DEF Exchange

(* L2 withdraws a command: the answer is there, or the entry is in the       *)
(* store-back buffer.                                                       *)
LEMMA L2WithdrawExchange ==
    ASSUME IInv, Exchange, UNCHANGED <<memory, prefetch>>,
           NEW label, NEW next, NEW clocks, NEW deltas,
           \/ /\ label \in {"await_write", "store", "retry"} /\ next = "restart"
              /\ label = "await_write" => flag["done_from_Memory"]
           \/ /\ label = "await_read" /\ next = "restart"
              /\ flag["done_from_Memory"] /\ PrefetchLines = 0
           \/ /\ label = "await_read" /\ next = "prefetch" /\ l2'.i = 0
              /\ flag["done_from_Memory"] /\ PrefetchLines > 0,
           \/ next = "restart" /\ clocks = 1 /\ deltas = 0
           \/ next = "prefetch" /\ clocks = 0 /\ deltas = 1,
           ThreadMoves("L2", label, next, clocks, deltas),
           Drives({"done_from_L2", "valid_from_L2_to_Memory"}),
           ~flagNext'["valid_from_L2_to_Memory"]
    PROVE  Exchange'
<1> USE NumberTypes, WaitingFields, WaitingDiffers
    DEF L2Awaits, L2Fetches, L2Commands, L2Rests, Answers, Withdraws,
        Interrupted, ThreadMoves, Drives, Flag, Thread
<1>1. \/ flag["done_from_Memory"] /\ (Answers \/ Withdraws)
      \/ label \in {"store", "retry"} /\ HasStoreback
  BY DEF Exchange, AnswerShown, BothWait
<1>2. pc["MEMORY"] \notin {"read", "write"} /\ ~Interrupted
  BY <1>1 DEF Exchange, AnswerShown, CommandServed
<1>3. BothWait'
  BY DEF Exchange, BothWait
<1>4. CommandShown'
  BY <1>1 DEF Exchange, CommandShown
<1>5. CommandServed'
  BY <1>2 DEF Exchange, CommandServed
<1>6. AnswerShown'
  BY DEF Exchange, AnswerShown
<1>7. LinesFetched'
  <2>1. pc["MEMORY"] \in {"prefetch", "put"} =>
            /\ pc["L2"] = "await_read"
            /\ pc["MEMORY"] = "put" => PrefetchLines > 0
    BY DEF Exchange, CommandServed, LinesFetched
  <2>2. Len(prefetch.queue) = 0
    BY DEF Exchange, LinesFetched
  <2>3. QED
    BY <2>1, <2>2 DEF Exchange, LinesFetched, LinesPut, LinesTaken
<1>8. QED
  BY <1>3, <1>4, <1>5, <1>6, <1>7 DEF Exchange

(* L2 looks for a prefetched line and takes it: out of the buffer, then into *)
(* the cache.                                                               *)
LEMMA L2FetchExchange ==
    ASSUME IInv, Exchange, UNCHANGED memory, Drives({}),
           \/ /\ ThreadMoves("L2", "prefetch", "prefetch", 1, 3)
              /\ Len(prefetch'.queue) = Len(prefetch.queue) /\ l2'.i = l2.i
           \/ /\ ThreadMoves("L2", "prefetch", "install", 0, 1)
              /\ Len(prefetch'.queue) = Len(prefetch.queue) - 1
              /\ l2'.i = l2.i
           \/ /\ ThreadMoves("L2", "install", "prefetch", 0, 1)
              /\ Len(prefetch'.queue) = Len(prefetch.queue)
              /\ l2'.i = l2.i + 1 /\ l2'.i < PrefetchLines
    PROVE  Exchange'
<1>0. /\ l2'.i < PrefetchLines
      /\ LinesTaken' + Len(prefetch'.queue) = LinesTaken + Len(prefetch.queue)
  <2>1. /\ l2.i < PrefetchLines /\ l2.i \in Nat /\ Len(prefetch.queue) \in Nat
        /\ pc \in [Thread -> Label]
    BY NumberTypes DEF Exchange, LinesFetched, ThreadMoves, L2Fetches
  <2>2. /\ pc["L2"] = "prefetch" => LinesTaken = l2.i
        /\ pc["L2"] = "install" => LinesTaken = l2.i + 1
        /\ pc'["L2"] = "prefetch" => LinesTaken' = l2'.i
        /\ pc'["L2"] = "install" => LinesTaken' = l2'.i + 1
    BY DEF LinesTaken
  <2>3. \/ /\ pc["L2"] = "prefetch" /\ pc'["L2"] = "prefetch"
           /\ Len(prefetch'.queue) = Len(prefetch.queue) /\ l2'.i = l2.i
        \/ /\ pc["L2"] = "prefetch" /\ pc'["L2"] = "install"
           /\ Len(prefetch'.queue) = Len(prefetch.queue) - 1
           /\ l2'.i = l2.i
        \/ /\ pc["L2"] = "install" /\ pc'["L2"] = "prefetch"
           /\ Len(prefetch'.queue) = Len(prefetch.queue)
           /\ l2'.i = l2.i + 1 /\ l2'.i < PrefetchLines
    BY <2>1 DEF ThreadMoves, Thread
  <2>4. QED
    BY SMTT(30), <2>1, <2>2, <2>3
<1> USE NumberTypes, WaitingFields, WaitingDiffers
    DEF L2Awaits, L2Fetches, L2Commands, L2Rests, Answers, Withdraws,
        Interrupted, ThreadMoves, Drives, Flag, Thread
<1>1. ~flag["valid_from_L2_to_Memory"]
  BY SMTT(30) DEF Exchange, CommandShown
<1>2. BothWait'
  BY DEF Exchange, BothWait
<1>3. CommandShown'
  BY <1>1 DEF Exchange, CommandShown
<1>4. CommandServed'
  BY DEF Exchange, CommandServed
<1>5. AnswerShown'
  BY DEF Exchange, AnswerShown
<1>6. LinesFetched'
  <2>1. LinesPut' = LinesPut /\ L2Fetches /\ L2Fetches'
    BY DEF LinesPut
  <2>2. QED
    BY <1>0, <2>1 DEF Exchange, LinesFetched
<1>7. QED
  BY <1>2, <1>3, <1>4, <1>5, <1>6 DEF Exchange

(* L2 has taken as many lines as there are slots: MEMORY has put as many.    *)
LEMMA L2FetchedExchange ==
    ASSUME IInv, Exchange, UNCHANGED <<memory, prefetch>>,
           ThreadMoves("L2", "install", "restart", 1, 0),
           l2.i + 1 >= PrefetchLines, Drives({"done_from_L2"})
    PROVE  Exchange'
<1> USE NumberTypes, WaitingFields, WaitingDiffers
    DEF L2Awaits, L2Fetches, L2Commands, L2Rests, Answers, Withdraws,
        Interrupted, ThreadMoves, Drives, Flag, Thread
<1>1. /\ Len(prefetch.queue) = 0
      /\ pc["MEMORY"] \in {"prefetch", "put"} =>
            pc["MEMORY"] = "prefetch" /\ memory.i > PrefetchLines
  <2>1. l2.i + 1 + Len(prefetch.queue) <= LinesPut
    BY DEF Exchange, LinesFetched, LinesTaken
  <2>2. CASE pc["MEMORY"] \in {"prefetch", "put"}
    <3>1. /\ LinesPut = memory.i - 1 /\ memory.i \in 1 .. PrefetchLines + 1
          /\ pc["MEMORY"] = "put" => memory.i <= PrefetchLines
      BY <2>2 DEF Exchange, LinesFetched, LinesPut
    <3>2. QED
      BY SMTT(30), <2>1, <2>2, <3>1
  <2>3. CASE pc["MEMORY"] \notin {"prefetch", "put"}
    <3>1. LinesPut = PrefetchLines
      BY <2>3 DEF LinesPut
    <3>2. QED
      BY <2>1, <2>3, <3>1
  <2>4. QED
    BY <2>2, <2>3
<1>2. ~flag["valid_from_L2_to_Memory"]
  BY DEF Exchange, CommandShown
<1>3. BothWait'
  BY DEF Exchange, BothWait
<1>4. CommandShown'
  BY <1>2 DEF Exchange, CommandShown
<1>5. CommandServed'
  BY DEF Exchange, CommandServed
<1>6. AnswerShown'
  BY DEF Exchange, AnswerShown
<1>7. LinesFetched'
  BY <1>1 DEF Exchange, LinesFetched, LinesPut, LinesTaken
<1>8. QED
  BY <1>3, <1>4, <1>5, <1>6, <1>7 DEF Exchange

-----------------------------------------------------------------------------
(* MEMORY withdraws its answer, or finds no command.                         *)
LEMMA MemoryPollExchange ==
    ASSUME IInv, Exchange, UNCHANGED <<l2, memory, prefetch>>,
           \/ /\ ThreadMoves("MEMORY", "restart", "poll", 0, 2)
              /\ Drives({"done_from_Memory"})
              /\ ~flagNext'["done_from_Memory"]
           \/ /\ ThreadMoves("MEMORY", "poll", "poll", 1, 2) /\ Drives({})
              /\ ~flag["valid_from_L2_to_Memory"]
    PROVE  Exchange'
<1> USE NumberTypes, WaitingFields, WaitingDiffers
    DEF L2Awaits, L2Fetches, L2Commands, L2Rests, Answers, Withdraws,
        Interrupted, ThreadMoves, Drives, Flag, Thread
<1>1. BothWait'
  BY DEF Exchange, BothWait
<1>2. CommandShown'
  BY DEF Exchange, CommandShown
<1>3. CommandServed'
  BY DEF Exchange, CommandServed
<1>4. AnswerShown'
  BY SMTT(30) DEF Exchange, AnswerShown
<1>5. LinesFetched'
  BY DEF Exchange, LinesFetched, LinesPut, LinesTaken
<1>6. QED
  BY <1>1, <1>2, <1>3, <1>4, <1>5 DEF Exchange

(* What MEMORY polls for: a command that L2 awaits the answer of, or that    *)
(* starts the draining.                                                     *)
LEMMA CommandFound ==
    ASSUME IInv, Exchange, pc["MEMORY"] = "poll", delay["MEMORY"] = Waiting(0, 0),
           flag["valid_from_L2_to_Memory"] \/ memory.write_underway
    PROVE  /\ ~flag["done_from_Memory"] /\ ~flagNext["done_from_Memory"]
           /\ ~flag["write_enable_from_L2_to_Memory"] =>
                  pc["L2"] = "await_read" /\ flag["valid_from_L2_to_Memory"]
           /\ flag["write_enable_from_L2_to_Memory"] /\ ~HasStoreback =>
                  pc["L2"] = "await_write" /\ flag["valid_from_L2_to_Memory"]
<1> USE NumberTypes, WaitingFields, WaitingDiffers
    DEF L2Awaits, L2Commands, Answers, Withdraws, Interrupted, Flag, Thread
<1>1. ~flag["done_from_Memory"] /\ ~flagNext["done_from_Memory"]
  BY DEF Exchange, AnswerShown
<1>2. flag["valid_from_L2_to_Memory"]
  BY DEF Exchange, CommandServed
<1>3. CASE L2Commands
  BY <1>1, <1>2, <1>3 DEF Exchange, CommandShown, BothWait
<1>4. CASE ~L2Commands
  BY <1>1, <1>2, <1>4 DEF Exchange, CommandShown
<1>5. QED
  BY <1>3, <1>4

(* MEMORY takes the command L2 is waiting for.                              *)
LEMMA MemoryAcceptExchange ==
    ASSUME IInv, Exchange, UNCHANGED <<l2, prefetch>>, memory'.i = memory.i,
           memory'.write_underway = memory.write_underway, Drives({}),
           flag["valid_from_L2_to_Memory"] \/ memory.write_underway,
           \/ /\ ThreadMoves("MEMORY", "poll", "read", MemoryLatency, 0)
              /\ ~flag["write_enable_from_L2_to_Memory"]
           \/ /\ ThreadMoves("MEMORY", "poll", "write", MemoryLatency, 0)
              /\ flag["write_enable_from_L2_to_Memory"] /\ ~HasStoreback
    PROVE  Exchange'
<1> USE NumberTypes, WaitingFields, WaitingDiffers
    DEF L2Awaits, L2Fetches, L2Commands, L2Rests, Answers, Withdraws,
        Interrupted, ThreadMoves, Drives, Flag, Thread
<1>1. /\ ~flag["done_from_Memory"] /\ ~flagNext["done_from_Memory"]
      /\ flag["valid_from_L2_to_Memory"]
      /\ \/ pc["L2"] = "await_read" /\ pc'["MEMORY"] = "read"
         \/ pc["L2"] = "await_write" /\ pc'["MEMORY"] = "write"
  BY CommandFound
<1>2. BothWait'
  BY DEF Exchange, BothWait
<1>3. CommandShown'
  BY <1>1 DEF Exchange, CommandShown
<1>4. CommandServed'
  BY SMTT(30), <1>1 DEF Exchange, CommandServed
<1>5. AnswerShown'
  BY <1>1 DEF Exchange, AnswerShown
<1>6. LinesFetched'
  BY DEF Exchange, LinesFetched, LinesPut, LinesTaken
<1>7. QED
  BY <1>2, <1>3, <1>4, <1>5, <1>6 DEF Exchange

(* MEMORY answers: L2 looks at a read two delta cycles later.                *)
LEMMA MemoryAnswerExchange ==
    ASSUME IInv, Exchange, UNCHANGED <<l2, prefetch>>,
           Drives({"done_from_Memory"}), flagNext'["done_from_Memory"],
           \/ /\ ThreadMoves("MEMORY", "read", "prefetch", 0, 2)
              /\ memory'.i = 1
              /\ memory'.write_underway = memory.write_underway
           \/ /\ ThreadMoves("MEMORY", "write", "restart", 1, 2)
              /\ memory'.i = memory.i
              /\ memory'.write_underway = memory.write_underway
           \/ /\ ThreadMoves("MEMORY", "take", "restart", 1, 2)
              /\ memory'.i = memory.i /\ ~memory'.write_underway
    PROVE  Exchange'
<1> USE NumberTypes, WaitingFields, WaitingDiffers
    DEF L2Awaits, L2Fetches, L2Commands, L2Rests, Answers, Withdraws,
        Interrupted, ThreadMoves, Drives, Flag, Thread
<1>1. BothWait'
  BY SMTT(30) DEF Exchange, BothWait
<1>2. CommandShown'
  BY DEF Exchange, CommandShown
<1>3. ~Interrupted'
  BY DEF Exchange, BothWait, CommandServed
<1>4. CommandServed'
  BY SMTT(30), <1>3 DEF Exchange, CommandServed
<1>5. AnswerShown'
  BY <1>3 DEF Exchange, AnswerShown
<1>6. LinesFetched'
  BY SMTT(30) DEF Exchange, LinesFetched, LinesPut, LinesTaken, CommandServed
<1>7. QED
  BY <1>1, <1>2, <1>4, <1>5, <1>6 DEF Exchange

(* MEMORY reads the next line, or has read them all.                        *)
LEMMA MemoryPrefetchExchange ==
    ASSUME IInv, Exchange, UNCHANGED <<l2, prefetch>>, memory'.i = memory.i,
           memory'.write_underway = memory.write_underway,
           \/ /\ ThreadMoves("MEMORY", "prefetch", "put", MemoryLatency, 2)
              /\ memory.i <= PrefetchLines /\ Drives({})
           \/ /\ ThreadMoves("MEMORY", "prefetch", "restart", 0, 2)
              /\ memory.i > PrefetchLines /\ ~memory.write_underway /\ Drives({})
           \/ /\ ThreadMoves("MEMORY", "prefetch", "drain", 0, 1)
              /\ memory.i > PrefetchLines
              /\ Drives({"done_from_Memory"}) /\ ~flagNext'["done_from_Memory"]
    PROVE  Exchange'
<1>0. LinesPut' = LinesPut /\ LinesTaken' = LinesTaken
  <2>1. LinesTaken' = LinesTaken
    BY DEF LinesTaken, ThreadMoves, Thread
  <2>2. /\ PrefetchLines \in Nat
        /\ pc["MEMORY"] = "prefetch" => memory.i \in 1 .. PrefetchLines + 1
    BY NumberTypes DEF Exchange, LinesFetched
  <2>3. LinesPut' = LinesPut
    BY <2>2 DEF LinesPut, ThreadMoves
  <2>4. QED
    BY <2>1, <2>3
<1> USE NumberTypes, WaitingFields, WaitingDiffers
    DEF L2Awaits, L2Fetches, L2Commands, L2Rests, Answers, Withdraws,
        Interrupted, ThreadMoves, Drives, Flag, Thread
<1>1. BothWait'
  BY DEF Exchange, BothWait
<1>2. CommandShown'
  BY DEF Exchange, CommandShown
<1>3. CommandServed'
  BY SMTT(30) DEF Exchange, CommandServed
<1>4. AnswerShown'
  BY DEF Exchange, AnswerShown
<1>5. LinesFetched'
  <2>1. /\ memory.i \in 1 .. PrefetchLines + 1
        /\ memory.i <= PrefetchLines => pc["L2"] = "await_read" \/ L2Fetches
    BY DEF Exchange, LinesFetched
  <2>2. QED
    BY <1>0, <2>1 DEF Exchange, LinesFetched
<1>6. QED
  BY <1>1, <1>2, <1>3, <1>4, <1>5 DEF Exchange

(* It puts a line into the buffer, for an L2 that has taken all before it.   *)
LEMMA MemoryPutExchange ==
    ASSUME IInv, Exchange, UNCHANGED l2, memory'.i = memory.i + 1,
           memory'.write_underway = memory.write_underway, Drives({}),
           ThreadMoves("MEMORY", "put", "prefetch", 0, 0),
           Len(prefetch'.queue) \in Nat,
           Len(prefetch'.queue) <= Len(prefetch.queue) + 1
    PROVE  Exchange'
<1>1. LinesTaken' = LinesTaken
  BY DEF LinesTaken, ThreadMoves, Thread
<1>2. LinesPut = memory.i - 1 /\ LinesPut' = memory.i
  BY NumberTypes DEF LinesPut, ThreadMoves
<1>3. LinesTaken + Len(prefetch.queue) <= LinesPut =>
          LinesTaken' + Len(prefetch'.queue) <= LinesPut'
  <2>1. memory.i \in Nat /\ LinesTaken \in Nat /\ Len(prefetch.queue) \in Nat
    BY NumberTypes DEF LinesTaken
  <2>2. QED
    BY <1>1, <1>2, <2>1
<1> USE NumberTypes, WaitingFields, WaitingDiffers
    DEF L2Awaits, L2Fetches, L2Commands, L2Rests, Answers, Withdraws,
        Interrupted, ThreadMoves, Drives, Flag, Thread
<1>4. L2Fetches /\ memory.i \in 1 .. PrefetchLines
  BY DEF Exchange, CommandServed, LinesFetched
<1>5. BothWait'
  BY <1>4 DEF Exchange, BothWait
<1>6. CommandShown'
  BY <1>4 DEF Exchange, CommandShown
<1>7. CommandServed'
  BY <1>4 DEF Exchange, CommandServed
<1>8. AnswerShown'
  BY <1>4 DEF Exchange, AnswerShown
<1>9. LinesFetched'
  <2>1. LinesTaken + Len(prefetch.queue) <= LinesPut
    BY <1>4 DEF Exchange, LinesFetched
  <2>2. LinesTaken' + Len(prefetch'.queue) <= LinesPut'
    BY <1>3, <2>1
  <2>3. QED
    BY SMTT(30), <1>4, <2>2 DEF Exchange, LinesFetched
<1>10. QED
  BY <1>5, <1>6, <1>7, <1>8, <1>9 DEF Exchange

(* The draining starts, with nothing left of an older answer.                *)
LEMMA MemoryDrainExchange ==
    ASSUME IInv, Exchange, UNCHANGED <<l2, prefetch>>, memory'.i = memory.i,
           memory'.write_underway, HasStoreback,
           flag["valid_from_L2_to_Memory"] \/ memory.write_underway,
           ThreadMoves("MEMORY", "poll", "drain", 0, 1),
           Drives({"done_from_Memory"}), ~flagNext'["done_from_Memory"]
    PROVE  Exchange'
<1> USE NumberTypes, WaitingFields, WaitingDiffers
    DEF L2Awaits, L2Fetches, L2Commands, L2Rests, Answers, Withdraws,
        Interrupted, ThreadMoves, Drives, Flag, Thread
<1>1. ~flag["done_from_Memory"] /\ ~flagNext["done_from_Memory"]
  BY CommandFound
<1>2. BothWait'
  BY DEF Exchange, BothWait
<1>3. CommandShown'
  BY DEF Exchange, CommandShown
<1>4. CommandServed'
  BY DEF Exchange, CommandServed
<1>5. AnswerShown'
  BY <1>1 DEF Exchange, AnswerShown
<1>6. LinesFetched'
  BY DEF Exchange, LinesFetched, LinesPut, LinesTaken
<1>7. QED
  BY <1>2, <1>3, <1>4, <1>5, <1>6 DEF Exchange

(* It goes on; no signal is touched.                                        *)
LEMMA MemoryDrainsExchange ==
    ASSUME IInv, Exchange, UNCHANGED <<l2, prefetch>>,
           memory'.write_underway = memory.write_underway,
           NEW label \in {"drain", "take", "taken", "latency", "commit"},
           NEW next \in {"drain", "take", "taken", "latency", "commit"},
           NEW clocks, NEW deltas, next = "drain" => clocks = 0,
           ThreadMoves("MEMORY", label, next, clocks, deltas), Drives({})
    PROVE  Exchange'
<1> USE NumberTypes, WaitingFields, WaitingDiffers
    DEF L2Awaits, L2Fetches, L2Commands, L2Rests, Answers, Withdraws,
        Interrupted, ThreadMoves, Drives, Flag, Thread
<1>1. ~flag["done_from_Memory"] /\ ~flagNext["done_from_Memory"]
  BY DEF Exchange, AnswerShown
<1>2. BothWait'
  BY DEF Exchange, BothWait
<1>3. CommandShown'
  BY DEF Exchange, CommandShown
<1>4. CommandServed'
  BY DEF Exchange, CommandServed
<1>5. AnswerShown'
  BY <1>1 DEF Exchange, AnswerShown
<1>6. LinesFetched'
  BY DEF Exchange, LinesFetched, LinesPut, LinesTaken
<1>7. QED
  BY <1>2, <1>3, <1>4, <1>5, <1>6 DEF Exchange

(* A read that L2 awaits interrupts it.                                     *)
LEMMA MemoryAbortExchange ==
    ASSUME IInv, Exchange, UNCHANGED <<l2, prefetch>>, memory'.i = memory.i,
           HasStoreback, ReadRequested,
           ThreadMoves("MEMORY", "latency", "restart", 0, 2), Drives({})
    PROVE  Exchange'
<1> USE NumberTypes, WaitingFields, WaitingDiffers
    DEF L2Awaits, L2Fetches, L2Commands, L2Rests, Answers, Withdraws,
        Interrupted, ThreadMoves, Drives, Flag, Thread
<1>1. ~flag["done_from_Memory"] /\ ~flagNext["done_from_Memory"]
  BY DEF Exchange, AnswerShown
<1>2. pc["L2"] = "await_read" /\ flag["valid_from_L2_to_Memory"]
  BY DEF Exchange, CommandShown, ReadRequested
<1>3. BothWait'
  BY DEF Exchange, BothWait
<1>4. CommandShown'
  BY <1>2 DEF Exchange, CommandShown
<1>5. CommandServed'
  BY <1>2 DEF Exchange, CommandServed
<1>6. AnswerShown'
  BY <1>1 DEF Exchange, AnswerShown
<1>7. LinesFetched'
  BY DEF Exchange, LinesFetched, LinesPut, LinesTaken
<1>8. QED
  BY <1>3, <1>4, <1>5, <1>6, <1>7 DEF Exchange

-----------------------------------------------------------------------------
(* The end of a delta cycle.                                                *)
LEMMA DeltaExchange ==
    ASSUME IInv, Exchange, Delta
    PROVE  Exchange'
<1>1. /\ flag' = flagNext /\ flagNext' = flagNext /\ pc' = pc
      /\ UNCHANGED <<l2, memory>>
  BY DEF Delta, DeltaCycle, memoryVars
<1>2. Len(prefetch'.queue) = Len(prefetch.queue)
  BY DEF Delta, PrefetchUpdate, FifoUpdate, IInv, TypeOK, PrefetchTypeOK
<1>3. \A t \in Thread :
        /\ delay[t] = Waiting(delay[t].clk, delay[t].delta)
        /\ delay[t] # Waiting(0, 0)
        /\ delay[t].clk # 0 => delay'[t] = delay[t]
        /\ delay[t].clk = 0 => delay'[t] = Waiting(0, delay[t].delta - 1)
        /\ delay'[t].clk = delay[t].clk
  <2>1. delay \in [Thread -> Delay]
    BY DEF IInv, TypeOK, KernelTypeOK
  <2>2. QED
    BY <2>1, WaitingFields
    DEF Delta, DeltaCycle, NoThreadReady, Delay, Waiting
<1>4. LinesPut' = LinesPut /\ LinesTaken' = LinesTaken
  BY <1>1 DEF LinesPut, LinesTaken
<1> USE <1>1, <1>3, NumberTypes, WaitingFields, WaitingDiffers
    DEF L2Awaits, L2Fetches, L2Commands, L2Rests, Answers, Withdraws,
        Interrupted, Flag, Thread
<1>5. BothWait'
  BY DEF Exchange, BothWait
<1>6. CommandShown'
  BY DEF Exchange, CommandShown
<1>7. CommandServed'
  BY SMTT(30) DEF Exchange, BothWait, CommandShown, CommandServed
<1>8. AnswerShown'
  BY DEF Exchange, AnswerShown
<1>9. LinesFetched'
  BY <1>2, <1>4 DEF Exchange, LinesFetched
<1>10. QED
  BY <1>5, <1>6, <1>7, <1>8, <1>9 DEF Exchange

(* Where a clock edge finds the two, the signals have settled.              *)
Settles ==
    run = "stopped" /\ stage \in {"idle", "request", "finish"} =>
        /\ flag = flagNext
        /\ Len(storeback.fifo.queue) <= storeback.fifo.avail

(* The next clock edge.                                                     *)
LEMMA EdgeExchange ==
    ASSUME IInv, Exchange, Settles, ClockEdge, pc' = pc,
           stage \in {"idle", "request", "finish"},
           \A s \in {"valid_from_L2_to_Memory", "done_from_Memory",
                     "write_enable_from_L2_to_Memory"} :
               flag'[s] = flag[s] /\ flagNext'[s] = flagNext[s],
           UNCHANGED <<l2, memory, prefetch>>
    PROVE  Exchange'
<1>1. flag = flagNext /\ run = "stopped"
  BY DEF ClockEdge, Settles
<1>2. \A t \in Thread :
        /\ delay[t].clk \in Nat \ {0} /\ delay[t].delta \in Nat
        /\ delay'[t].clk = delay[t].clk - 1
        /\ delay'[t].delta = delay[t].delta
        /\ \A c, d : delay[t] = Waiting(c, d)
                       <=> delay[t].clk = c /\ delay[t].delta = d
        /\ \A c, d : delay'[t] = Waiting(c, d)
                       <=> delay'[t].clk = c /\ delay'[t].delta = d
  <2>1. delay \in [Thread -> Delay]
    BY DEF IInv, TypeOK, KernelTypeOK
  <2>2. \A t \in Thread : delay[t].clk > 0
    BY <1>1 DEF IInv, ThreadsHeld
  <2>3. QED
    BY <2>1, <2>2 DEF ClockEdge, Delay, Waiting
<1>3. LinesPut' = LinesPut /\ LinesTaken' = LinesTaken
  BY DEF LinesPut, LinesTaken
<1> USE <1>1, <1>2
    DEF L2Awaits, L2Fetches, L2Commands, L2Rests, Answers, Withdraws,
        Interrupted, Flag, Thread
<1>4. BothWait'
  BY DEF Exchange, BothWait
<1>5. CommandShown'
  BY DEF Exchange, CommandShown
<1>6. CommandServed'
  BY DEF Exchange, BothWait, CommandServed
<1>7. AnswerShown'
  BY DEF Exchange, AnswerShown
<1>8. LinesFetched'
  BY <1>3 DEF Exchange, BothWait, LinesFetched
<1>9. QED
  BY <1>4, <1>5, <1>6, <1>7, <1>8 DEF Exchange

-----------------------------------------------------------------------------
(* The request on its way to MEMORY: what L1 and L2 pass on is the address   *)
(* and the direction of the request being served.                           *)
RequestPath ==
    stage = "request" =>
        /\ addr["address"] = request.addr /\ addrNext["address"] = request.addr
        /\ L1Awaits => /\ addrNext["address_from_L1_to_L2"] = request.addr
                       /\ flagNext["write_enable_from_L1_to_L2"] = request.we
        /\ L1Awaits /\ flag["valid_from_L1_to_L2"] =>
               /\ addr["address_from_L1_to_L2"] = request.addr
               /\ flag["write_enable_from_L1_to_L2"] = request.we
        /\ pc["L2"] \in {"await_write", "store", "retry"} => request.we
        /\ pc["L2"] \in {"flush", "issue", "await_read"} => ~request.we
        /\ L2Commands => addrNext["address_from_L2_to_Memory"] = request.addr
        /\ L2Commands /\ flag["valid_from_L2_to_Memory"] =>
               addr["address_from_L2_to_Memory"] = request.addr

(* L2 works only on a request.                                              *)
LEMMA WorksServes ==
    ASSUME IInv, Handshake, CachesRest, L2Works, run # "stopped"
    PROVE  Serves
<1>1. stage \in Stage
  BY DEF IInv, TypeOK
<1>2. stage \in {"idle", "request"}
  BY <1>1 DEF CachesRest, Over, Idles, Stage
<1>3. QED
  BY <1>2 DEF Handshake, Serves

(* It sees that request then.                                               *)
LEMMA L2SeesRequest ==
    ASSUME IInv, Handshake, CachesRest, CommandStands, RequestPath, L2Works,
           run # "stopped"
    PROVE  /\ Serves /\ L1Awaits
           /\ addr["address_from_L1_to_L2"] = request.addr
           /\ flag["write_enable_from_L1_to_L2"] = request.we
<1>1. Serves
  BY WorksServes
<1>2. stage = "request" /\ L1Awaits /\ flag["valid_from_L1_to_L2"]
  BY <1>1 DEF Serves, CommandUp, CommandStands, L2Works
<1>3. QED
  BY <1>1, <1>2 DEF RequestPath

(* What L2Complete() drives.                                                *)
LEMMA CompleteDrives ==
    ASSUME IInv, NEW label, Runs("L2", label), NEW STATE driven,
           NEW S \in SUBSET Flag, driven \in [Flag -> BOOLEAN],
           \A s \in Flag \ S : driven[s] = flagNext[s],
           L2Complete(driven)
    PROVE  /\ ThreadMoves("L2", label, "restart", 1, 0)
           /\ Drives(S \cup {"done_from_L2"})
           /\ \A s \in Flag \ {"done_from_L2"} : flagNext'[s] = driven[s]
<1>1. ThreadMoves("L2", label, "restart", 1, 0)
  BY ThreadMovesSuspend DEF L2Complete, Thread
<1>2. QED
  BY <1>1 DEF L2Complete, Drive, Drives

(* Each step of L2 keeps the handshake with MEMORY.                          *)
LEMMA L2StepExchange ==
    ASSUME IInv, Handshake, CachesRest, CommandStands, RequestPath, Exchange,
           L2Step
    PROVE  Exchange'
<1> USE DEF Flag, Drive, Thread
<1>0. /\ flagNext \in [Flag -> BOOLEAN] /\ Withdrawn \in [Flag -> BOOLEAN]
      /\ \A s \in Flag \ {"valid_from_L2_to_Memory"} :
             Withdrawn[s] = flagNext[s]
      /\ ~Withdrawn["valid_from_L2_to_Memory"]
  BY DEF IInv, TypeOK, KernelTypeOK, Withdrawn
<1>1. UNCHANGED memory
  BY DEF L2Step, memoryVars
<1>2. CASE L2Restart
  <2>1. ThreadMoves("L2", "restart", "poll", 0, 2)
    BY <1>2, ThreadMovesSuspend DEF L2Restart
  <2>2. Drives({"done_from_L2", "hit_from_L2"})
    BY <1>0, <1>2 DEF L2Restart, Drives
  <2>3. QED
    BY <1>1, <1>2, <2>1, <2>2, L2IdleExchange DEF L2Restart, bufferVars
<1>3. CASE L2Poll
  <2>1. PICK next, clocks, deltas :
            /\ next \in {"poll", "access"}
            /\ ThreadMoves("L2", "poll", next, clocks, deltas)
    BY <1>3, ThreadMovesSuspend DEF L2Poll
  <2>2. Drives({"done_from_L2", "hit_from_L2"}) /\ l2'.i = l2.i
    BY <1>3 DEF L2Poll, Drives, signalVars, IInv, TypeOK, L2TypeOK
  <2>3. QED
    BY <1>1, <1>3, <2>1, <2>2, L2IdleExchange DEF L2Poll, bufferVars
<1>4. CASE L2ReadHit
  <2>1. PICK driven \in [Flag -> BOOLEAN] :
          /\ driven = [flagNext EXCEPT !["hit_from_L2"] = TRUE]
          /\ L2Complete(driven)
    BY <1>0, <1>4 DEF L2ReadHit
  <2>2. \A s \in Flag \ {"hit_from_L2"} : driven[s] = flagNext[s]
    BY <1>0, <2>1
  <2>3. /\ ThreadMoves("L2", "access", "restart", 1, 0)
        /\ Drives({"hit_from_L2"} \cup {"done_from_L2"})
    BY <1>4, <2>1, <2>2, CompleteDrives DEF L2ReadHit
  <2>4. {"hit_from_L2"} \cup {"done_from_L2"} = {"done_from_L2", "hit_from_L2"}
    OBVIOUS
  <2>5. QED
    BY <1>1, <1>4, <2>3, <2>4, L2IdleExchange DEF L2ReadHit, bufferVars
<1>5. CASE L2ReadMiss
  <2>1. PICK next \in {"flush", "issue"} :
            ThreadMoves("L2", "access", next, 0, 0)
    BY <1>5, ThreadMovesSuspend DEF L2ReadMiss
  <2>2. Drives({"done_from_L2", "hit_from_L2"})
    BY <1>5 DEF L2ReadMiss, Drives, signalVars
  <2>3. QED
    BY <1>1, <1>5, <2>1, <2>2, L2IdleExchange DEF L2ReadMiss, bufferVars
<1>6. CASE L2FlushDone
  <2>1. ThreadMoves("L2", "flush", "issue", 0, 0)
    BY <1>6, ThreadMovesSuspend DEF L2FlushDone
  <2>2. Drives({"done_from_L2", "hit_from_L2"})
    BY <1>6 DEF L2FlushDone, Drives, signalVars
  <2>3. QED
    BY <1>1, <1>6, <2>1, <2>2, L2IdleExchange DEF L2FlushDone, bufferVars
<1>7. CASE L2StillWaiting
  <2>1. PICK label \in {"await_write", "flush", "await_read"} :
            ThreadMoves("L2", label, label, 1, 2)
    BY <1>7, ThreadMovesSuspend DEF L2StillWaiting
  <2>2. /\ Drives({"done_from_L2", "hit_from_L2"}) /\ Drives({})
        /\ UNCHANGED <<l2, prefetch>> /\ ~flag["done_from_Memory"]
    BY <1>7 DEF L2StillWaiting, Drives, signalVars, bufferVars
  <2>3. CASE label = "flush"
    BY <1>1, <2>1, <2>2, <2>3, L2IdleExchange
  <2>4. CASE label # "flush"
    BY <1>1, <2>1, <2>2, <2>4, L2WaitExchange
  <2>5. QED
    BY <2>3, <2>4
<1>8. CASE L2Write
  <2>1. PICK next, deltas :
          /\ \/ next = "store" /\ HasStoreback
             \/ next = "await_write" /\ ~HasStoreback
          /\ ThreadMoves("L2", "access", next, 0, deltas)
    <3>1. CASE HasStoreback
      BY <1>8, <3>1, ThreadMovesSuspend DEF L2Write
    <3>2. CASE ~HasStoreback
      BY <1>8, <3>2, ThreadMovesSuspend DEF L2Write
    <3>3. QED
      BY <3>1, <3>2
  <2>2. /\ Drives({"hit_from_L2", "valid_from_L2_to_Memory",
                   "write_enable_from_L2_to_Memory"})
        /\ flagNext'["valid_from_L2_to_Memory"]
        /\ flagNext'["write_enable_from_L2_to_Memory"] = TRUE
    BY <1>0, <1>8 DEF L2Write, Drives, IInv, TypeOK, KernelTypeOK
  <2>3. l2'.i = l2.i /\ prefetch' = prefetch
    BY <1>8 DEF L2Write, bufferVars, IInv, TypeOK, L2TypeOK
  <2>4. QED
    BY <1>1, <2>1, <2>2, <2>3, L2CommandExchange
<1>9. CASE L2Issue
  <2>1. ThreadMoves("L2", "issue", "await_read", 0, 0)
    BY <1>9, ThreadMovesSuspend DEF L2Issue
  <2>2. ~flag["write_enable_from_L1_to_L2"]
    <3>1. L2Works /\ run # "stopped" /\ pc["L2"] = "issue"
      BY <1>9 DEF L2Issue, Runs, L2Works
    <3>2. QED
      BY <3>1, L2SeesRequest DEF RequestPath, Serves
  <2>3. /\ Drives({"hit_from_L2", "valid_from_L2_to_Memory",
                   "write_enable_from_L2_to_Memory"})
        /\ flagNext'["valid_from_L2_to_Memory"]
        /\ ~flagNext'["write_enable_from_L2_to_Memory"]
    BY <1>0, <1>9, <2>2 DEF L2Issue, Drives
  <2>4. QED
    BY <1>1, <1>9, <2>1, <2>3, L2CommandExchange DEF L2Issue, bufferVars
<1>10. CASE L2StoreFails
  <2>1. ThreadMoves("L2", "store", "retry", 1, 0)
    BY <1>10, ThreadMovesSuspend DEF L2StoreFails
  <2>2. QED
    BY <1>1, <1>10, <2>1, L2WaitExchange
    DEF L2StoreFails, Drives, signalVars, bufferVars
<1>11. CASE L2Retry /\ flag["valid_from_L1_to_L2"]
  <2>1. ThreadMoves("L2", "retry", "store", 0, 2)
    BY <1>11, ThreadMovesSuspend DEF L2Retry
  <2>2. QED
    BY <1>1, <1>11, <2>1, L2WaitExchange
    DEF L2Retry, Drives, signalVars, bufferVars
<1>12. ASSUME NEW label \in {"store", "retry", "await_write", "await_read"},
              Runs("L2", label), L2Complete(Withdrawn),
              label \in {"await_write", "await_read"} =>
                  flag["done_from_Memory"],
              label = "await_read" => PrefetchLines = 0,
              UNCHANGED prefetch
       PROVE  Exchange'
  <2>1. /\ ThreadMoves("L2", label, "restart", 1, 0)
        /\ Drives({"valid_from_L2_to_Memory"} \cup {"done_from_L2"})
        /\ ~flagNext'["valid_from_L2_to_Memory"]
    BY <1>0, <1>12, CompleteDrives
  <2>2. {"valid_from_L2_to_Memory"} \cup {"done_from_L2"}
          = {"done_from_L2", "valid_from_L2_to_Memory"}
    OBVIOUS
  <2>3. QED
    BY <1>1, <1>12, <2>1, <2>2, L2WithdrawExchange
<1>13. CASE L2Store \/ L2WriteDone
  BY <1>12, <1>13 DEF L2Store, L2WriteDone, bufferVars
<1>14. CASE L2Fill /\ ~HasPrefetch
  BY <1>12, <1>14, ConstantsAssumption
  DEF L2Fill, L2Answer, HasPrefetch, bufferVars
<1>15. CASE L2Fill /\ HasPrefetch
  <2>1. ThreadMoves("L2", "await_read", "prefetch", 0, 1)
    BY <1>15, ThreadMovesSuspend DEF L2Fill
  <2>2. /\ Drives({"done_from_L2", "valid_from_L2_to_Memory"})
        /\ ~flagNext'["valid_from_L2_to_Memory"]
    BY <1>0, <1>15 DEF L2Fill, Drives
  <2>3. l2'.i = 0
    BY <1>15 DEF L2Fill, Filled, IInv, TypeOK, L2TypeOK
  <2>4. QED
    BY <1>1, <1>15, <2>1, <2>2, <2>3, L2WithdrawExchange
    DEF L2Fill, HasPrefetch, bufferVars
<1>16. CASE L2PrefetchEmpty
  <2>1. ThreadMoves("L2", "prefetch", "prefetch", 1, 3)
    BY <1>16, ThreadMovesSuspend DEF L2PrefetchEmpty
  <2>2. QED
    BY <1>1, <1>16, <2>1, L2FetchExchange
    DEF L2PrefetchEmpty, Drives, signalVars, bufferVars
<1>17. CASE L2PrefetchTake
  <2>1. ThreadMoves("L2", "prefetch", "install", 0, 1)
    BY <1>17, ThreadMovesSuspend DEF L2PrefetchTake
  <2>2. l2'.i = l2.i
    BY <1>17 DEF L2PrefetchTake, IInv, TypeOK, L2TypeOK
  <2>3. Len(prefetch'.queue) = Len(prefetch.queue) - 1
    <3>1. prefetch \in [queue : Seq(PrefetchedLine), avail : Nat, free : Nat]
      BY DEF IInv, TypeOK, PrefetchTypeOK
    <3>2. prefetch.queue # << >> /\ prefetch' = FifoRead(prefetch)
      BY <1>17, <3>1, EmptySeq
      DEF L2PrefetchTake, PrefetchTake, IInv, BuffersOK, FifoBounded
    <3>3. QED
      BY <3>1, <3>2, HeadTailProperties DEF FifoRead
  <2>4. QED
    BY <1>1, <1>17, <2>1, <2>2, <2>3, L2FetchExchange
    DEF L2PrefetchTake, Drives, signalVars
<1>18. CASE L2Install
  <2>1. l2'.i = l2.i + 1 /\ l2.i \in Nat /\ PrefetchLines \in Nat
    BY <1>18, ConstantsAssumption DEF L2Install, Filled, IInv, TypeOK, L2TypeOK
  <2>2. CASE l2'.i < PrefetchLines
    <3>1. ThreadMoves("L2", "install", "prefetch", 0, 1)
      BY <1>18, <2>2, ThreadMovesSuspend DEF L2Install
    <3>2. QED
      BY <1>1, <1>18, <2>1, <2>2, <3>1, L2FetchExchange
      DEF L2Install, Drives, signalVars, bufferVars
  <2>3. CASE ~(l2'.i < PrefetchLines)
    <3>1. L2Complete(flagNext) /\ Runs("L2", "install") /\ prefetch' = prefetch
      BY <1>18, <2>3 DEF L2Install, L2Answer, bufferVars
    <3>2. /\ ThreadMoves("L2", "install", "restart", 1, 0)
          /\ Drives({} \cup {"done_from_L2"})
      BY <1>0, <3>1, CompleteDrives
    <3>3. {} \cup {"done_from_L2"} = {"done_from_L2"}
      OBVIOUS
    <3>4. QED
      BY <1>1, <2>1, <2>3, <3>1, <3>2, <3>3, L2FetchedExchange
  <2>4. QED
    BY <2>2, <2>3
<1>19. CASE L2Retry
  <2>1. CASE flag["valid_from_L1_to_L2"]
    BY <1>11, <1>19, <2>1
  <2>2. CASE ~flag["valid_from_L1_to_L2"]
    BY <1>12, <1>19, <2>2 DEF L2Retry, bufferVars
  <2>3. QED
    BY <2>1, <2>2
<1>20. CASE L2Fill
  BY <1>14, <1>15, <1>20
<1>21. L2Next
  BY DEF L2Step
<1>22. QED
  BY <1>2, <1>3, <1>4, <1>5, <1>6, <1>7, <1>8, <1>9, <1>10, <1>13, <1>16,
     <1>17, <1>18, <1>19, <1>20, <1>21 DEF L2Next

(* Each step of MEMORY keeps it.                                             *)
LEMMA MemoryStepExchange ==
    ASSUME IInv, EmptyIsEmpty, Exchange, MemoryStep
    PROVE  Exchange'
<1> USE DEF Thread
<1>0. /\ flagNext \in [Flag -> BOOLEAN] /\ "done_from_Memory" \in Flag
      /\ memory.i \in Nat
      /\ MemoryTypeOK
  BY NumberTypes DEF IInv, TypeOK, KernelTypeOK, Flag
<1>1. UNCHANGED l2
  BY DEF MemoryStep
<1>2. ASSUME NEW b \in BOOLEAN,
             Drive([flagNext EXCEPT !["done_from_Memory"] = b])
      PROVE  Drives({"done_from_Memory"}) /\ flagNext'["done_from_Memory"] = b
  BY <1>0, <1>2 DEF Drive, Drives
<1>3. UNCHANGED signalVars => Drives({})
  BY DEF signalVars, Drives
<1>4. CASE MemoryRestart
  <2>1. ThreadMoves("MEMORY", "restart", "poll", 0, 2)
    BY <1>4, ThreadMovesSuspend DEF MemoryRestart
  <2>2. Drives({"done_from_Memory"}) /\ flagNext'["done_from_Memory"] = FALSE
    BY <1>2, <1>4 DEF MemoryRestart
  <2>3. QED
    BY <1>1, <1>4, <2>1, <2>2, MemoryPollExchange
    DEF MemoryRestart, memoryVars, memoryBuffers
<1>5. CASE MemoryIdle
  <2>1. ThreadMoves("MEMORY", "poll", "poll", 1, 2)
    BY <1>5, ThreadMovesSuspend DEF MemoryIdle
  <2>2. QED
    BY <1>1, <1>3, <1>5, <2>1, MemoryPollExchange
    DEF MemoryIdle, memoryVars, memoryBuffers
<1>6. CASE MemoryAcceptRead
  <2>1. ThreadMoves("MEMORY", "poll", "read", MemoryLatency, 0)
    BY <1>6, ThreadMovesSuspend DEF MemoryAcceptRead, Polled
  <2>2. /\ memory'.i = memory.i
        /\ memory'.write_underway = memory.write_underway
    BY <1>0, <1>6 DEF MemoryAcceptRead, MemoryTypeOK
  <2>3. QED
    BY <1>1, <1>3, <1>6, <2>1, <2>2, MemoryAcceptExchange
    DEF MemoryAcceptRead, Polled, memoryBuffers
<1>7. CASE MemoryAcceptWrite
  <2>1. ThreadMoves("MEMORY", "poll", "write", MemoryLatency, 0)
    BY <1>7, ThreadMovesSuspend DEF MemoryAcceptWrite, Polled
  <2>2. /\ memory'.i = memory.i
        /\ memory'.write_underway = memory.write_underway
    BY <1>0, <1>7 DEF MemoryAcceptWrite, MemoryTypeOK
  <2>3. QED
    BY <1>1, <1>3, <1>7, <2>1, <2>2, MemoryAcceptExchange
    DEF MemoryAcceptWrite, Polled, memoryBuffers
<1>8. CASE MemoryAcceptDrain
  <2>1. ThreadMoves("MEMORY", "poll", "drain", 0, 1)
    BY <1>8, ThreadMovesSuspend DEF MemoryAcceptDrain, Polled, StartDraining
  <2>2. memory'.i = memory.i /\ memory'.write_underway = TRUE
    BY <1>0, <1>8 DEF MemoryAcceptDrain, MemoryTypeOK
  <2>3. Drives({"done_from_Memory"}) /\ flagNext'["done_from_Memory"] = FALSE
    BY <1>2, <1>8 DEF MemoryAcceptDrain, StartDraining
  <2>4. QED
    BY <1>1, <1>8, <2>1, <2>2, <2>3, MemoryDrainExchange
    DEF MemoryAcceptDrain, Polled, memoryBuffers
<1>9. CASE MemoryRead
  <2>1. ThreadMoves("MEMORY", "read", "prefetch", 0, 2)
    BY <1>9, ThreadMovesSuspend DEF MemoryRead
  <2>2. memory'.i = 1 /\ memory'.write_underway = memory.write_underway
    BY <1>0, <1>9 DEF MemoryRead, MemoryTypeOK
  <2>3. Drives({"done_from_Memory"}) /\ flagNext'["done_from_Memory"] = TRUE
    BY <1>2, <1>9 DEF MemoryRead
  <2>4. QED
    BY <1>1, <1>9, <2>1, <2>2, <2>3, MemoryAnswerExchange
    DEF MemoryRead, memoryBuffers
<1>10. CASE MemoryPrefetch
  <2>1. ThreadMoves("MEMORY", "prefetch", "put", MemoryLatency, 2)
    BY <1>10, ThreadMovesSuspend DEF MemoryPrefetch
  <2>2. /\ memory'.i = memory.i
        /\ memory'.write_underway = memory.write_underway
    BY <1>0, <1>10 DEF MemoryPrefetch, MemoryTypeOK
  <2>3. QED
    BY <1>1, <1>3, <1>10, <2>1, <2>2, MemoryPrefetchExchange
    DEF MemoryPrefetch, memoryBuffers
<1>11. CASE MemoryPut
  <2>1. ThreadMoves("MEMORY", "put", "prefetch", 0, 0)
    BY <1>11, ThreadMovesSuspend DEF MemoryPut
  <2>2. /\ memory'.i = memory.i + 1
        /\ memory'.write_underway = memory.write_underway
    BY <1>0, <1>11 DEF MemoryPut, MemoryTypeOK
  <2>3. /\ Len(prefetch'.queue) \in Nat
        /\ Len(prefetch'.queue) <= Len(prefetch.queue) + 1
    <3>1. /\ prefetch \in [queue : Seq(PrefetchedLine), avail : Nat, free : Nat]
          /\ memory.prefetched_line \in PrefetchedLine
          /\ Len(prefetch.queue) \in Nat
      BY <1>0, NumberTypes DEF IInv, TypeOK, PrefetchTypeOK, MemoryTypeOK
    <3>2. \/ prefetch' = FifoWrite(prefetch, memory.prefetched_line)
          \/ prefetch' = prefetch
      BY <1>11 DEF MemoryPut, PrefetchWrite
    <3>3. CASE prefetch' = FifoWrite(prefetch, memory.prefetched_line)
      <4>1. prefetch'.queue = Append(prefetch.queue, memory.prefetched_line)
        BY <3>1, <3>3 DEF FifoWrite
      <4>2. Len(prefetch'.queue) = Len(prefetch.queue) + 1
        BY <3>1, <4>1, AppendProperties
      <4>3. QED
        BY <3>1, <4>2
    <3>4. QED
      BY <3>1, <3>2, <3>3
  <2>4. QED
    BY <1>1, <1>3, <1>11, <2>1, <2>2, <2>3, MemoryPutExchange DEF MemoryPut
<1>12. CASE MemoryReadDone
  <2>1. memory'.i = memory.i /\ UNCHANGED memory /\ UNCHANGED prefetch
    BY <1>12 DEF MemoryReadDone, memoryVars, memoryBuffers
  <2>2. CASE memory.write_underway
    <3>1. ThreadMoves("MEMORY", "prefetch", "drain", 0, 1)
      BY <1>12, <2>2, ThreadMovesSuspend DEF MemoryReadDone, StartDraining
    <3>2. Drives({"done_from_Memory"}) /\ flagNext'["done_from_Memory"] = FALSE
      BY <1>2, <1>12, <2>2 DEF MemoryReadDone, StartDraining
    <3>3. QED
      BY <1>1, <1>12, <2>1, <3>1, <3>2, MemoryPrefetchExchange
      DEF MemoryReadDone
  <2>3. CASE ~memory.write_underway
    <3>1. ThreadMoves("MEMORY", "prefetch", "restart", 0, 2)
      BY <1>12, <2>3, ThreadMovesSuspend DEF MemoryReadDone
    <3>2. QED
      BY <1>1, <1>12, <2>1, <2>3, <3>1, MemoryPrefetchExchange
      DEF MemoryReadDone, Drives
  <2>4. QED
    BY <2>2, <2>3
<1>13. CASE MemoryWrite
  <2>1. ThreadMoves("MEMORY", "write", "restart", 1, 2)
    BY <1>13, ThreadMovesSuspend DEF MemoryWrite
  <2>2. Drives({"done_from_Memory"}) /\ flagNext'["done_from_Memory"] = TRUE
    BY <1>2, <1>13 DEF MemoryWrite
  <2>3. QED
    BY <1>1, <1>13, <2>1, <2>2, MemoryAnswerExchange
    DEF MemoryWrite, memoryBuffers
<1>14. CASE MemoryDrained
  <2>1. ThreadMoves("MEMORY", "take", "restart", 1, 2)
    BY <1>14, ThreadMovesSuspend DEF MemoryDrained
  <2>2. Drives({"done_from_Memory"}) /\ flagNext'["done_from_Memory"] = TRUE
    BY <1>2, <1>14 DEF MemoryDrained
  <2>3. memory'.i = memory.i /\ memory'.write_underway = FALSE
    BY <1>0, <1>14 DEF MemoryDrained, MemoryTypeOK
  <2>4. QED
    BY <1>1, <1>14, <2>1, <2>2, <2>3, MemoryAnswerExchange
    DEF MemoryDrained, memoryBuffers
<1>15. CASE MemoryCallRead \/ MemoryCommit
  <2>1. \/ ThreadMoves("MEMORY", "drain", "take", 0, 1)
        \/ ThreadMoves("MEMORY", "commit", "drain", 0, 0)
    BY <1>15, ThreadMovesSuspend DEF MemoryCallRead, MemoryCommit
  <2>2. UNCHANGED <<memory, prefetch>> /\ Drives({})
    BY <1>3, <1>15 DEF MemoryCallRead, MemoryCommit, memoryVars, memoryBuffers
  <2>3. QED
    BY <1>1, <2>1, <2>2, MemoryDrainsExchange
<1>16. CASE MemoryResume
  <2>1. ThreadMoves("MEMORY", "drain", "latency", 0, 2)
    BY <1>16, ThreadMovesSuspend DEF MemoryResume
  <2>2. memory'.write_underway = memory.write_underway
    BY <1>0, <1>16 DEF MemoryResume, MemoryTypeOK
  <2>3. QED
    BY <1>1, <1>3, <1>16, <2>1, <2>2, MemoryDrainsExchange
    DEF MemoryResume, memoryBuffers
<1>17. CASE MemoryTake \/ MemoryTaken
  <2>1. \/ ThreadMoves("MEMORY", "take", "taken", 0, 1)
        \/ ThreadMoves("MEMORY", "taken", "latency", 0, 2)
    BY <1>17, ThreadMovesSuspend DEF MemoryTake, MemoryTaken
  <2>2. memory'.write_underway = memory.write_underway
    BY <1>0, <1>17 DEF MemoryTake, MemoryTaken, MemoryTypeOK
  <2>3. UNCHANGED prefetch /\ Drives({})
    BY <1>3, <1>17 DEF MemoryTake, MemoryTaken
  <2>4. QED
    BY <1>1, <2>1, <2>2, <2>3, MemoryDrainsExchange
<1>18. CASE MemoryAbort
  <2>1. ThreadMoves("MEMORY", "latency", "restart", 0, 2)
    BY <1>18, ThreadMovesSuspend DEF MemoryAbort
  <2>2. memory'.i = memory.i
    BY <1>0, <1>18 DEF MemoryAbort, MemoryTypeOK
  <2>3. HasStoreback
    BY <2>1 DEF EmptyIsEmpty, Drains, Exchange, BothWait, ThreadMoves
  <2>4. QED
    BY <1>1, <1>3, <1>18, <2>1, <2>2, <2>3, MemoryAbortExchange
    DEF MemoryAbort, memoryBuffers
<1>19. CASE MemoryLatencyStep
  <2>1. PICK next, deltas :
            /\ next \in {"latency", "commit"}
            /\ ThreadMoves("MEMORY", "latency", next, 1, deltas)
    BY <1>19, ThreadMovesSuspend DEF MemoryLatencyStep
  <2>2. memory'.write_underway = memory.write_underway
    BY <1>0, <1>19 DEF MemoryLatencyStep, MemoryTypeOK
  <2>3. QED
    BY <1>1, <1>3, <1>19, <2>1, <2>2, MemoryDrainsExchange
    DEF MemoryLatencyStep, memoryBuffers
<1>20. MemoryNext
  BY DEF MemoryStep
<1>21. QED
  BY <1>4, <1>5, <1>6, <1>7, <1>8, <1>9, <1>10, <1>11, <1>12, <1>13, <1>14,
     <1>15, <1>16, <1>17, <1>18, <1>19, <1>20 DEF MemoryNext

(* What the driver does to the two: it starts a clock cycle, or only assigns  *)
(* signals of its own.                                                      *)
LEMMA DriverMoves ==
    ASSUME IInv, Handshake, Settles, Driver
    PROVE  /\ \A s \in Flag \ {"valid", "write_enable", "valid_from_L1_to_L2"} :
                  flag'[s] = flag[s] /\ flagNext'[s] = flagNext[s]
           /\ \/ delay' = delay
              \/ ClockEdge /\ stage \in {"idle", "request", "finish"}
<1>0. flag \in [Flag -> BOOLEAN] /\ flagNext \in [Flag -> BOOLEAN]
  BY DEF IInv, TypeOK, KernelTypeOK
<1>1. CASE \E r \in Requests : SendRequest(r)
  <2>1. PICK r \in Requests : SendRequest(r)
    BY <1>1
  <2>2. flag = flagNext /\ delay' = delay
    BY <2>1 DEF SendRequest, Handshake
  <2>3. \A s \in Flag \ {"valid", "write_enable"} :
            flag'[s] = flag[s] /\ flagNext'[s] = flag[s]
    BY <1>0, <2>1 DEF SendRequest, AssignNow
  <2>4. QED
    BY <2>2, <2>3
<1>2. CASE RequestAnswered
  <2>1. flag = flagNext /\ delay' = delay
    BY <1>2 DEF RequestAnswered, CycleEnds, Settled, SignalsSettled
  <2>2. \A s \in Flag \ {"valid"} :
            flag'[s] = flag[s] /\ flagNext'[s] = flag[s]
    BY <1>0, <1>2 DEF RequestAnswered, AssignNow
  <2>3. QED
    BY <2>1, <2>2
<1>3. CASE Finish
  <2>1. CASE HasStoreback
    <3>1. flag = flagNext /\ ClockEdge /\ stage = "idle"
      BY <1>3, <2>1 DEF Finish, Handshake
    <3>2. \A s \in Flag \ {"valid_from_L1_to_L2"} :
              flag'[s] = flag[s] /\ flagNext'[s] = flag[s]
      BY <1>0, <1>3, <2>1 DEF Finish, AssignNow
    <3>3. QED
      BY <3>1, <3>2
  <2>2. CASE ~HasStoreback
    BY <1>3, <2>2 DEF Finish
  <2>3. QED
    BY <2>1, <2>2
<1>4. CASE StartCycle
  BY <1>4 DEF StartCycle, signalVars
<1>5. CASE RequestExhausted \/ RequestContinues
  BY <1>5 DEF RequestExhausted, RequestContinues, signalVars
<1>6. CASE FinishWaits \/ Finished \/ Stopped
  BY <1>6 DEF FinishWaits, Finished, Stopped, signalVars, vars, kernelVars
<1>7. QED
  BY <1>1, <1>2, <1>3, <1>4, <1>5, <1>6 DEF Driver

(* Every step of the program keeps the handshake of L2 and MEMORY.           *)
LEMMA NextExchange ==
    ASSUME IInv, Handshake, CachesRest, CommandStands, RequestPath,
           EmptyIsEmpty, Settles, Exchange, [Next]_vars
    PROVE  Exchange'
<1> USE DEF Thread, Flag
<1>1. CASE L1Step
  <2>1. /\ \A t \in {"L2", "MEMORY"} : pc'[t] = pc[t] /\ delay'[t] = delay[t]
        /\ UNCHANGED <<l2, memory, prefetch>>
    BY <1>1, StepMoves DEF L1Step, memoryVars, bufferVars
  <2>2. \A s \in {"valid_from_L2_to_Memory", "done_from_Memory",
                  "write_enable_from_L2_to_Memory"} :
            flag'[s] = flag[s] /\ flagNext'[s] = flagNext[s]
    BY <1>1
    DEF L1Step, L1Next, L1Restart, L1Poll, L1Write, L1ReadHit, L1ReadMiss,
        L1StillWaiting, L1WriteDone, L1Fill, L1Complete, L1Propagate, Drive,
        signalVars, IInv, TypeOK, KernelTypeOK
  <2>3. QED
    BY <2>1, <2>2, ElsewhereExchange
<1>2. CASE L2Step
  BY <1>2, L2StepExchange
<1>3. CASE MemoryStep
  BY <1>3, MemoryStepExchange
<1>4. CASE Delta
  BY <1>4, DeltaExchange
<1>5. CASE Driver
  <2>1. /\ pc' = pc /\ UNCHANGED <<l2, memory, prefetch>>
    BY <1>5, DriverUnchanged DEF moduleVars
  <2>2. \A s \in {"valid_from_L2_to_Memory", "done_from_Memory",
                  "write_enable_from_L2_to_Memory"} :
            flag'[s] = flag[s] /\ flagNext'[s] = flagNext[s]
    BY <1>5, DriverMoves
  <2>3. CASE delay' = delay
    BY <2>1, <2>2, <2>3, ElsewhereExchange
  <2>4. CASE ClockEdge /\ stage \in {"idle", "request", "finish"}
    BY <2>1, <2>2, <2>4, EdgeExchange
  <2>5. QED
    BY <1>5, <2>3, <2>4, DriverMoves
<1>6. CASE UNCHANGED vars
  BY <1>6, ElsewhereExchange DEF vars, kernelVars, moduleVars
<1>7. QED
  BY <1>1, <1>2, <1>3, <1>4, <1>5, <1>6 DEF Next

-----------------------------------------------------------------------------
(* When sc_start() returns the fifo of the store-back buffer has settled as  *)
(* the signals have.                                                        *)
LEMMA NextSettles ==
    ASSUME IInv, Handshake, Settles, [Next]_vars
    PROVE  Settles'
<1>1. CASE L1Step \/ L2Step \/ MemoryStep
  BY <1>1, ThreadStepRuns DEF Settles
<1>2. CASE Delta
  BY <1>2, DeltaType DEF Settles, Delta, IInv, TypeOK
<1>3. CASE Driver
  <2>1. storeback' = storeback
    BY <1>3, DriverUnchanged DEF moduleVars
  <2>2. Settled => /\ flag = flagNext
                   /\ storeback.fifo.avail = Len(storeback.fifo.queue)
    <3>1. storeback.fifo \in [queue : Seq(Write), avail : Nat, free : Nat]
      BY DEF IInv, TypeOK, StorebackTypeOK
    <3>2. Settled => storeback.fifo
                       = FifoUpdate(storeback.fifo, StorebackLines)
      BY DEF Settled, FifoSettled
    <3>3. FifoUpdate(storeback.fifo, StorebackLines).avail
            = Len(storeback.fifo.queue)
      BY <3>1 DEF FifoUpdate
    <3>4. QED
      BY <3>2, <3>3 DEF Settled, SignalsSettled
  <2>3. Len(storeback.fifo.queue) \in Nat
    BY LenProperties DEF IInv, TypeOK, StorebackTypeOK
  <2>4. CASE \E r \in Requests : SendRequest(r)
    BY <2>1, <2>4 DEF SendRequest, AssignNow, Settles, Handshake
  <2>5. CASE StartCycle \/ RequestExhausted \/ Finish \/ Finished
    BY <2>5 DEF StartCycle, RequestExhausted, Finish, Finished, Settles
  <2>6. CASE RequestContinues
    BY <2>1, <2>2, <2>3, <2>6
    DEF RequestContinues, CycleEnds, Settles, signalVars
  <2>7. CASE RequestAnswered
    BY <2>1, <2>2, <2>3, <2>7
    DEF RequestAnswered, CycleEnds, AssignNow, Settles
  <2>8. CASE FinishWaits
    BY <2>1, <2>2, <2>3, <2>8
    DEF FinishWaits, FinishLooks, Settles, signalVars
  <2>9. CASE Stopped
    BY <2>9 DEF Stopped, vars, kernelVars, moduleVars, driverVars, Settles
  <2>10. QED
    BY <1>3, <2>4, <2>5, <2>6, <2>7, <2>8, <2>9 DEF Driver
<1>4. CASE UNCHANGED vars
  BY <1>4 DEF vars, kernelVars, moduleVars, driverVars, Settles
<1>5. QED
  BY <1>1, <1>2, <1>3, <1>4 DEF Next

-----------------------------------------------------------------------------
(* L1 passes on the request it looks at, and touches nothing once it has.    *)
LEMMA L1StepPath ==
    ASSUME IInv, Handshake, RequestPath, L1Step
    PROVE  RequestPath'
<1> USE DEF AddressSignal, Flag, Thread
<1> SUFFICES ASSUME stage = "request"
             PROVE  RequestPath'
  BY DEF RequestPath, L1Step, driverVars
<1>0. /\ flag \in [Flag -> BOOLEAN] /\ flagNext \in [Flag -> BOOLEAN]
      /\ addrNext \in [AddressSignal -> Address]
      /\ stage' = stage /\ request' = request
  BY DEF IInv, TypeOK, KernelTypeOK, L1Step, driverVars
<1>1. /\ pc'["L2"] = pc["L2"] /\ flag' = flag /\ addr' = addr
      /\ \A s \in {"address", "address_from_L2_to_Memory"} :
             addrNext'[s] = addrNext[s]
  <2>1. pc'["L2"] = pc["L2"] /\ run # "stopped"
    BY StepMoves
  <2>2. QED
    BY <1>0, <2>1
    DEF L1Step, L1Next, L1Restart, L1Poll, L1Write, L1ReadHit, L1ReadMiss,
        L1StillWaiting, L1WriteDone, L1Fill, L1Complete, L1Propagate, Drive,
        DriveAddress, signalVars
<1>2. L2Commands' <=> L2Commands
  BY <1>1 DEF L2Commands, L2Awaits
<1>3. /\ L1Awaits' => /\ addrNext'["address_from_L1_to_L2"] = request.addr
                      /\ flagNext'["write_enable_from_L1_to_L2"] = request.we
      /\ L1Awaits' /\ flag["valid_from_L1_to_L2"] => L1Awaits
  <2>1. CASE L1Write \/ L1ReadMiss
    <3>1. run # "stopped" /\ pc["L1"] = "access"
      BY <2>1 DEF L1Write, L1ReadMiss, Runs
    <3>2. flag["write_enable"] = request.we /\ ~flag["valid_from_L1_to_L2"]
      BY <3>1 DEF Handshake, Sampled, CommandUp, L1Awaits
    <3>3. /\ addrNext'["address_from_L1_to_L2"] = addr["address"]
          /\ flagNext'["write_enable_from_L1_to_L2"] = flag["write_enable"]
      BY <1>0, <2>1 DEF L1Write, L1ReadMiss, L1Propagate, Drive, DriveAddress
    <3>4. QED
      BY <3>2, <3>3 DEF RequestPath
  <2>2. CASE ~L1Write /\ ~L1ReadMiss
    <3>1. L1Awaits' => L1Awaits
      BY <2>2
      DEF L1Step, L1Next, L1Restart, L1Poll, L1ReadHit, L1StillWaiting,
          L1WriteDone, L1Fill, L1Complete, Runs, Suspend, L1Awaits, IInv,
          TypeOK, KernelTypeOK
    <3>2. /\ addrNext'["address_from_L1_to_L2"]
               = addrNext["address_from_L1_to_L2"]
          /\ flagNext'["write_enable_from_L1_to_L2"]
               = flagNext["write_enable_from_L1_to_L2"]
      BY <1>0, <2>2
      DEF L1Step, L1Next, L1Restart, L1Poll, L1ReadHit, L1StillWaiting,
          L1WriteDone, L1Fill, L1Complete, Drive, signalVars
    <3>3. QED
      BY <3>1, <3>2 DEF RequestPath
  <2>3. QED
    BY <2>1, <2>2
<1>4. QED
  BY <1>0, <1>1, <1>2, <1>3 DEF RequestPath

(* L2 passes on the request it has latched.                                 *)
LEMMA L2StepPath ==
    ASSUME IInv, Handshake, CachesRest, CommandStands, RequestPath, Exchange,
           L2Step
    PROVE  RequestPath'
<1> USE DEF AddressSignal, Flag, Thread
<1> SUFFICES ASSUME stage = "request"
             PROVE  RequestPath'
  BY DEF RequestPath, L2Step, driverVars
<1>0. /\ flag \in [Flag -> BOOLEAN] /\ flagNext \in [Flag -> BOOLEAN]
      /\ addrNext \in [AddressSignal -> Address] /\ pc \in [Thread -> Label]
      /\ stage' = stage /\ request' = request
  BY DEF IInv, TypeOK, KernelTypeOK, L2Step, driverVars
<1>1. run # "stopped" /\ pc'["L1"] = pc["L1"]
  BY StepMoves
<1>2. /\ flag' = flag /\ addr' = addr
      /\ flagNext'["write_enable_from_L1_to_L2"]
           = flagNext["write_enable_from_L1_to_L2"]
      /\ \A s \in {"address", "address_from_L1_to_L2"} :
             addrNext'[s] = addrNext[s]
  <2>1. CASE L2Write \/ L2Issue
    BY <1>0, <2>1 DEF L2Write, L2Issue, Drive, DriveAddress
  <2>2. CASE L2Restart \/ L2Poll \/ L2Store \/ L2StoreFails \/ L2Retry
               \/ L2ReadHit \/ L2ReadMiss
    BY <1>0, <2>2
    DEF L2Restart, L2Poll, L2Store, L2StoreFails, L2Retry, L2ReadHit,
        L2ReadMiss, L2Complete, Withdrawn, Drive, signalVars
  <2>3. CASE L2StillWaiting \/ L2WriteDone \/ L2FlushDone \/ L2Fill
               \/ L2PrefetchTake \/ L2PrefetchEmpty \/ L2Install
    BY <1>0, <2>3
    DEF L2StillWaiting, L2WriteDone, L2FlushDone, L2Fill, L2PrefetchTake,
        L2PrefetchEmpty, L2Install, L2Answer, L2Complete, Withdrawn, Drive,
        signalVars
  <2>4. QED
    BY <2>1, <2>2, <2>3 DEF L2Step, L2Next
<1>3. L1Awaits' <=> L1Awaits
  BY <1>1 DEF L1Awaits
<1>4. /\ pc'["L2"] \in {"await_write", "store", "retry"} => request.we
      /\ pc'["L2"] \in {"flush", "issue", "await_read"} => ~request.we
      /\ L2Commands' => addrNext'["address_from_L2_to_Memory"] = request.addr
      /\ L2Commands' /\ flag["valid_from_L2_to_Memory"] =>
             addr["address_from_L2_to_Memory"] = request.addr
  <2>1. CASE L2Write \/ L2Issue
    <3>1. L2Works /\ ~flag["valid_from_L2_to_Memory"]
      BY <2>1
      DEF L2Write, L2Issue, Runs, L2Works, Exchange, CommandShown, L2Commands,
          L2Awaits, L2Rests
    <3>2. /\ addr["address_from_L1_to_L2"] = request.addr
          /\ flag["write_enable_from_L1_to_L2"] = request.we
      BY <1>1, <3>1, L2SeesRequest
    <3>3. /\ addrNext'["address_from_L2_to_Memory"] = request.addr
          /\ \/ pc'["L2"] \in {"await_write", "store"} /\ request.we
             \/ pc'["L2"] = "await_read" /\ pc["L2"] = "issue"
      BY <1>0, <2>1, <3>2
      DEF L2Write, L2Issue, DriveAddress, Suspend, Runs
    <3>4. QED
      BY <3>1, <3>3 DEF RequestPath
  <2>2. CASE L2ReadMiss
    <3>1. L2Works /\ pc'["L2"] \in {"flush", "issue"} /\ ~flag["write_enable_from_L1_to_L2"]
      BY <1>0, <2>2 DEF L2ReadMiss, Runs, Suspend, L2Works
    <3>2. flag["write_enable_from_L1_to_L2"] = request.we
      BY <1>1, <3>1, L2SeesRequest
    <3>3. QED
      BY <3>1, <3>2 DEF L2Commands, L2Awaits
  <2>3. CASE ~L2Write /\ ~L2Issue /\ ~L2ReadMiss
    <3>1. /\ \/ pc'["L2"] = pc["L2"]
             \/ pc["L2"] \in {"store", "retry"} /\ pc'["L2"] \in {"store", "retry"}
             \/ pc["L2"] = "flush" /\ pc'["L2"] = "issue"
             \/ pc'["L2"] \in {"restart", "poll", "access", "prefetch", "install"}
      <4>1. CASE L2Restart \/ L2Poll \/ L2Store \/ L2StoreFails \/ L2Retry
                   \/ L2ReadHit
        BY <1>0, <4>1
        DEF L2Restart, L2Poll, L2Store, L2StoreFails, L2Retry, L2ReadHit,
            L2Complete, Runs, Suspend
      <4>2. CASE L2StillWaiting \/ L2WriteDone \/ L2FlushDone \/ L2Fill
                   \/ L2PrefetchTake \/ L2PrefetchEmpty \/ L2Install
        BY <1>0, <4>2
        DEF L2StillWaiting, L2WriteDone, L2FlushDone, L2Fill, L2PrefetchTake,
            L2PrefetchEmpty, L2Install, L2Answer, L2Complete, Runs, Suspend
      <4>3. QED
        BY <2>3, <4>1, <4>2 DEF L2Step, L2Next
    <3>2. addrNext' = addrNext
      <4>1. CASE L2Restart \/ L2Poll \/ L2Store \/ L2StoreFails \/ L2Retry
                   \/ L2ReadHit
        BY <4>1
        DEF L2Restart, L2Poll, L2Store, L2StoreFails, L2Retry, L2ReadHit,
            L2Complete, signalVars
      <4>2. CASE L2StillWaiting \/ L2WriteDone \/ L2FlushDone \/ L2Fill
                   \/ L2PrefetchTake \/ L2PrefetchEmpty \/ L2Install
        BY <4>2
        DEF L2StillWaiting, L2WriteDone, L2FlushDone, L2Fill, L2PrefetchTake,
            L2PrefetchEmpty, L2Install, L2Answer, L2Complete, signalVars
      <4>3. QED
        BY <2>3, <4>1, <4>2 DEF L2Step, L2Next
    <3>3. L2Commands' => L2Commands
      BY <3>1 DEF L2Commands, L2Awaits
    <3>4. QED
      BY <3>1, <3>2, <3>3 DEF RequestPath
  <2>4. QED
    BY <2>1, <2>2, <2>3
<1>5. QED
  BY <1>0, <1>2, <1>3, <1>4 DEF RequestPath

(* The path of a request is kept by every step.                             *)
LEMMA NextPath ==
    ASSUME IInv, Handshake, CachesRest, CommandStands, RequestPath, Exchange,
           [Next]_vars
    PROVE  RequestPath'
<1> USE DEF AddressSignal, Flag, Thread
<1>1. CASE L1Step
  BY <1>1, L1StepPath
<1>2. CASE L2Step
  BY <1>2, L2StepPath
<1>3. CASE MemoryStep
  <2>1. /\ \A t \in {"L1", "L2"} : pc'[t] = pc[t]
        /\ Drives({"done_from_Memory"})
    BY <1>3, MemoryDrives DEF MemoryStep
  <2>2. addr' = addr /\ addrNext' = addrNext
    BY <1>3
    DEF MemoryStep, MemoryNext, MemoryRestart, MemoryIdle, MemoryAcceptRead,
        MemoryAcceptWrite, MemoryAcceptDrain, MemoryRead, MemoryPrefetch,
        MemoryPut, MemoryReadDone, MemoryWrite, MemoryResume, MemoryCallRead,
        MemoryTake, MemoryDrained, MemoryTaken, MemoryAbort,
        MemoryLatencyStep, MemoryCommit, signalVars
  <2>3. QED
    BY <1>3, <2>1, <2>2
    DEF RequestPath, Drives, L1Awaits, L2Commands, L2Awaits, MemoryStep,
        driverVars
<1>4. CASE Delta
  <2>1. /\ flag' = flagNext /\ flagNext' = flagNext /\ pc' = pc
        /\ addr' = addrNext /\ addrNext' = addrNext /\ UNCHANGED driverVars
    BY <1>4 DEF Delta, DeltaCycle
  <2>2. QED
    BY <2>1 DEF RequestPath, L1Awaits, L2Commands, L2Awaits, driverVars
<1>5. CASE \E r \in Requests : SendRequest(r)
  <2>1. PICK r \in Requests : SendRequest(r)
    BY <1>5
  <2>2. stage = "idle" /\ request' = r /\ pc' = pc
    BY <2>1 DEF SendRequest
  <2>3. /\ addr'["address"] = r.addr /\ addrNext'["address"] = r.addr
    BY <2>1 DEF SendRequest, IInv, TypeOK, KernelTypeOK
  <2>4. ~L1Awaits' /\ pc'["L2"] \in {"restart", "poll"}
    BY <2>2 DEF Handshake, CommandUp, L1Awaits
  <2>5. QED
    BY <2>2, <2>3, <2>4 DEF RequestPath, L2Commands, L2Awaits
<1>6. CASE StartCycle \/ RequestContinues
  BY <1>6
  DEF StartCycle, RequestContinues, signalVars, driverVars, RequestPath,
      L1Awaits, L2Commands, L2Awaits, RequestContinues
<1>7. CASE RequestExhausted \/ RequestAnswered \/ Finish \/ FinishWaits
             \/ Finished \/ Stopped
  BY <1>7
  DEF RequestExhausted, RequestAnswered, Finish, FinishWaits, Finished,
      Stopped, vars, driverVars, RequestPath
<1>8. CASE UNCHANGED vars
  BY <1>8
  DEF vars, kernelVars, driverVars, RequestPath, L1Awaits, L2Commands, L2Awaits
<1>9. QED
  BY <1>1, <1>2, <1>3, <1>4, <1>5, <1>6, <1>7, <1>8 DEF Next, Driver

-----------------------------------------------------------------------------
(* All that L1, L2 and MEMORY have agreed on, for every configuration.       *)
Linked ==
    /\ IInv /\ Handshake /\ CommandStands /\ CachesRest
    /\ RequestPath /\ EmptyIsEmpty /\ Settles /\ Exchange

(* It holds when the simulation starts.                                     *)
LEMMA InitLinked == Init => Linked
<1> SUFFICES ASSUME Init PROVE Linked
  OBVIOUS
<1>1. /\ IInv /\ Handshake /\ CommandStands /\ CachesRest
  BY InitIInv, InitHandshake, InitRest
<1>2. EmptyIsEmpty
  BY EmptySeq
  DEF Init, KernelInit, MemoryInit, NoData, StorebackInit, EmptyFifo,
      EmptyIsEmpty, Drains, Thread
<1>3. RequestPath /\ Settles
  BY EmptySeq
  DEF Init, KernelInit, StorebackInit, EmptyFifo, RequestPath, Settles
<1>4. /\ pc["L2"] = "restart" /\ pc["MEMORY"] = "restart"
      /\ delay["MEMORY"] = Waiting(1, 2)
      /\ ~memory.write_underway /\ Len(prefetch.queue) = 0
      /\ \A s \in Flag : ~flag[s] /\ ~flagNext[s]
  BY EmptySeq
  DEF Init, KernelInit, MemoryInit, PrefetchInit, EmptyFifo, Thread, Waiting
<1>5. Exchange
  BY <1>4
  DEF Exchange, BothWait, CommandShown, CommandServed, AnswerShown,
      LinesFetched, L2Commands, L2Awaits, L2Fetches, Interrupted, Flag
<1>6. QED
  BY <1>1, <1>2, <1>3, <1>5 DEF Linked

(* Every step keeps it.                                                     *)
LEMMA NextLinked == Linked /\ [Next]_vars => Linked'
  BY NextIInv, NextHandshake, NextRest, NextPath, NextEmpty, NextSettles,
     NextExchange DEF Linked

(* L2 takes a command.                                                      *)
LEMMA L2TakesCommand ==
    ASSUME Linked, L2Step, pc["L2"] = "poll", pc'["L2"] = "access"
    PROVE  Serving /\ Awaiting("L1") /\ l2'.address_int = request.addr
<1> USE DEF Linked, Thread
<1>1. pc \in [Thread -> Label] /\ run # "stopped" /\ stage \in Stage
  BY StepMoves DEF IInv, TypeOK, KernelTypeOK
<1>2. L2Poll
  <2>1. ~L2Restart /\ ~L2Write /\ ~L2Store /\ ~L2StoreFails /\ ~L2Retry
    BY DEF L2Restart, L2Write, L2Store, L2StoreFails, L2Retry, Runs
  <2>2. ~L2ReadHit /\ ~L2ReadMiss /\ ~L2StillWaiting /\ ~L2WriteDone
    BY DEF L2ReadHit, L2ReadMiss, L2StillWaiting, L2WriteDone, Runs
  <2>3. ~L2FlushDone /\ ~L2Issue /\ ~L2Fill /\ ~L2PrefetchTake
        /\ ~L2PrefetchEmpty /\ ~L2Install
    BY DEF L2FlushDone, L2Issue, L2Fill, L2PrefetchTake, L2PrefetchEmpty,
           L2Install, Runs
  <2>4. QED
    BY <2>1, <2>2, <2>3 DEF L2Step, L2Next
<1>3. /\ flag["valid_from_L1_to_L2"]
      /\ l2'.address_int = addr["address_from_L1_to_L2"]
  BY <1>1, <1>2 DEF L2Poll, Suspend, IInv, TypeOK, L2TypeOK
<1>4. stage = "request"
  BY <1>1, <1>3 DEF CachesRest, Over, Idles, Handshake, Stage
<1>5. L1Awaits
  BY <1>3, <1>4 DEF Handshake, CommandUp
<1>6. QED
  BY <1>3, <1>4, <1>5 DEF RequestPath, Serving, Awaiting, L1Awaits

(* MEMORY takes one.                                                        *)
LEMMA MemoryTakesCommand ==
    ASSUME Linked, MemoryStep, pc["MEMORY"] = "poll",
           pc'["MEMORY"] \in {"read", "write"}
    PROVE  /\ Serving /\ Awaiting("L2") /\ memory'.address_u = request.addr
           /\ request.we = (pc'["MEMORY"] = "write")
<1> USE DEF Linked, Thread
<1>1. pc \in [Thread -> Label] /\ run # "stopped" /\ request.we \in BOOLEAN
  BY StepMoves DEF IInv, TypeOK, KernelTypeOK, Request
<1>2. MemoryAcceptRead \/ MemoryAcceptWrite
  <2>1. ~MemoryRestart /\ ~MemoryIdle /\ ~MemoryAcceptDrain /\ ~MemoryRead
        /\ ~MemoryPrefetch /\ ~MemoryPut
    BY <1>1
    DEF MemoryRestart, MemoryIdle, MemoryAcceptDrain, MemoryRead,
        MemoryPrefetch, MemoryPut, StartDraining, Runs, Suspend
  <2>2. ~MemoryReadDone /\ ~MemoryWrite /\ ~MemoryResume /\ ~MemoryCallRead
        /\ ~MemoryTake /\ ~MemoryDrained
    BY DEF MemoryReadDone, MemoryWrite, MemoryResume, MemoryCallRead,
           MemoryTake, MemoryDrained, Runs
  <2>3. ~MemoryTaken /\ ~MemoryAbort /\ ~MemoryLatencyStep /\ ~MemoryCommit
    BY DEF MemoryTaken, MemoryAbort, MemoryLatencyStep, MemoryCommit, Runs
  <2>4. QED
    BY <2>1, <2>2, <2>3 DEF MemoryStep, MemoryNext
<1>3. /\ delay["MEMORY"] = Waiting(0, 0)
      /\ flag["valid_from_L2_to_Memory"] \/ memory.write_underway
      /\ memory'.address_u = addr["address_from_L2_to_Memory"]
      /\ \/ /\ pc'["MEMORY"] = "read"
            /\ ~flag["write_enable_from_L2_to_Memory"]
         \/ /\ pc'["MEMORY"] = "write" /\ ~HasStoreback
            /\ flag["write_enable_from_L2_to_Memory"]
  BY <1>1, <1>2, WaitingFields
  DEF MemoryAcceptRead, MemoryAcceptWrite, Polled, Runs, Suspend, IInv,
      TypeOK, MemoryTypeOK
<1>4. /\ flag["valid_from_L2_to_Memory"]
      /\ \/ pc'["MEMORY"] = "read" /\ pc["L2"] = "await_read"
         \/ pc'["MEMORY"] = "write" /\ pc["L2"] = "await_write"
  BY <1>3, CommandFound
<1>5. stage = "request"
  BY <1>1, <1>4, WorksServes DEF L2Works, Serves
<1>6. QED
  BY <1>1, <1>3, <1>4, <1>5
  DEF RequestPath, L2Commands, L2Awaits, Serving, Awaiting

(* L2 and MEMORY only ever start on the command that the level above awaits, *)
(* with the address of the request being served, with and without the        *)
(* buffers (modules.hpp, the comment on the valid flags: "must wait until L2 *)
(* give new command, not the current old command").                          *)
THEOREM CommandsAreFresh == Spec => CommandsServedFresh
<1> DEFINE MemoryFresh ==
               pc["MEMORY"] = "poll" /\ pc'["MEMORY"] \in {"read", "write"} =>
                   /\ Serving /\ Awaiting("L2")
                   /\ memory'.address_u = request.addr
                   /\ request.we = (pc'["MEMORY"] = "write")
           L2Fresh ==
               pc["L2"] = "poll" /\ pc'["L2"] = "access" =>
                   /\ Serving /\ Awaiting("L1")
                   /\ l2'.address_int = request.addr
<1>1. Linked /\ [Next]_vars => [MemoryFresh /\ L2Fresh]_vars
  <2> SUFFICES ASSUME Linked, Next PROVE MemoryFresh /\ L2Fresh
    OBVIOUS
  <2>1. CASE L1Step \/ Delta \/ Driver
    <3>1. pc'["L2"] = pc["L2"] /\ pc'["MEMORY"] = pc["MEMORY"]
      BY <2>1, StepMoves, DriverUnchanged DEF Delta, DeltaCycle, Linked
    <3>2. QED
      BY <3>1
  <2>2. CASE L2Step
    <3>1. pc'["MEMORY"] = pc["MEMORY"]
      BY <2>2, StepMoves DEF Linked
    <3>2. QED
      BY <2>2, <3>1, L2TakesCommand
  <2>3. CASE MemoryStep
    <3>1. pc'["L2"] = pc["L2"]
      BY <2>3, StepMoves DEF Linked
    <3>2. QED
      BY <2>3, <3>1, MemoryTakesCommand
  <2>4. QED
    BY <2>1, <2>2, <2>3 DEF Next
<1>2. QED
  BY <1>1, InitLinked, NextLinked, PTL DEF Spec, CommandsServedFresh

-----------------------------------------------------------------------------
(* The places of the prefetch buffer: each is free or holds a line, or has   *)
(* been emptied by L2 in this delta cycle.                                  *)
JustTaken ==
    IF pc["L2"] = "install" /\ delay["L2"] # Waiting(0, 0) THEN 1 ELSE 0
Room ==
    /\ pc["L2"] = "install" =>
           delay["L2"] = Waiting(0, 1) \/ delay["L2"] = Waiting(0, 0)
    /\ prefetch.free + Len(prefetch.queue) + JustTaken = PrefetchLines

(* There is room for the line that MEMORY prefetched.                        *)
LEMMA PutHasRoom ==
    ASSUME IInv, Exchange, Room, MemoryPut
    PROVE  /\ prefetch.free > 0
           /\ prefetch'.free = prefetch.free - 1
           /\ Len(prefetch'.queue) = Len(prefetch.queue) + 1
<1>1. /\ PrefetchLines \in Nat /\ l2.i \in Nat /\ memory.i \in Nat
      /\ Len(prefetch.queue) \in Nat /\ prefetch.free \in Nat
      /\ prefetch.queue \in Seq(PrefetchedLine)
      /\ memory.prefetched_line \in PrefetchedLine
  BY NumberTypes DEF IInv, TypeOK, PrefetchTypeOK, MemoryTypeOK
<1>2. pc["MEMORY"] = "put"
  BY DEF MemoryPut, Runs
<1>3. delay["MEMORY"] = Waiting(0, 0) /\ delay["MEMORY"].clk = 0
  BY WaitingFields DEF MemoryPut, Runs
<1>4. L2Fetches /\ memory.i <= PrefetchLines /\ LinesPut = memory.i - 1
      /\ LinesTaken + Len(prefetch.queue) <= LinesPut
  <2>1. L2Fetches /\ memory.i <= PrefetchLines
    BY <1>1, <1>2, <1>3
    DEF Exchange, LinesFetched, CommandServed, L2Commands, L2Awaits
  <2>2. QED
    BY <1>2, <2>1 DEF Exchange, LinesFetched, LinesPut
<1>5. prefetch.free > 0
  <2>1. CASE pc["L2"] = "install"
    <3>1. LinesTaken = l2.i + 1 /\ JustTaken \in {0, 1}
      BY <2>1 DEF LinesTaken, JustTaken
    <3>2. QED
      BY SMTT(30), <1>1, <1>4, <3>1 DEF Room
  <2>2. CASE pc["L2"] # "install"
    <3>1. LinesTaken = l2.i /\ JustTaken = 0
      BY <2>2 DEF LinesTaken, JustTaken
    <3>2. QED
      BY SMTT(30), <1>1, <1>4, <3>1 DEF Room
  <2>3. QED
    BY <2>1, <2>2
<1>6. QED
  BY <1>1, <1>5, AppendProperties
  DEF MemoryPut, PrefetchWrite, FifoWrite, IInv, TypeOK, PrefetchTypeOK

(* Only MEMORY puts lines into the prefetch buffer, and only L2 takes them.  *)
LEMMA MemoryKeepsPrefetch ==
    ASSUME MemoryStep, ~MemoryPut
    PROVE  prefetch' = prefetch
  BY DEF MemoryStep, MemoryNext, memoryBuffers, MemoryRestart, MemoryIdle,
         MemoryAcceptRead, MemoryAcceptWrite, MemoryAcceptDrain, MemoryRead,
         MemoryPrefetch, MemoryReadDone, MemoryWrite, MemoryResume,
         MemoryCallRead, MemoryTake, MemoryDrained, MemoryTaken, MemoryAbort,
         MemoryLatencyStep, MemoryCommit

(* After any other step of L2 nothing has been taken in its delta cycle.     *)
LEMMA L2KeepsPrefetch ==
    ASSUME IInv, L2Step, ~L2PrefetchTake
    PROVE  /\ prefetch' = prefetch /\ pc'["L2"] # "install"
           /\ delay["L2"] = Waiting(0, 0)
<1>1. delay["L2"] = Waiting(0, 0)
  BY StepMoves, WaitingFields
<1>2. prefetch' = prefetch
  BY DEF L2Step, L2Next, bufferVars, L2Restart, L2Poll, L2Write, L2Store,
         L2StoreFails, L2Retry, L2ReadHit, L2ReadMiss, L2StillWaiting,
         L2WriteDone, L2FlushDone, L2Issue, L2Fill, L2PrefetchEmpty, L2Install
<1>3. pc'["L2"] # "install"
  <2> USE DEF IInv, TypeOK, KernelTypeOK, Thread, Suspend, L2Complete
  <2>1. CASE L2Restart \/ L2Poll \/ L2Write \/ L2Store \/ L2StoreFails
               \/ L2Retry
    BY <2>1 DEF L2Restart, L2Poll, L2Write, L2Store, L2StoreFails, L2Retry
  <2>2. CASE L2ReadHit \/ L2ReadMiss \/ L2StillWaiting \/ L2WriteDone
               \/ L2FlushDone \/ L2Issue
    BY <2>2
    DEF L2ReadHit, L2ReadMiss, L2StillWaiting, L2WriteDone, L2FlushDone,
        L2Issue
  <2>3. CASE L2Fill \/ L2PrefetchEmpty \/ L2Install
    BY <2>3 DEF L2Fill, L2PrefetchEmpty, L2Install, L2Answer
  <2>4. QED
    BY <2>1, <2>2, <2>3 DEF L2Step, L2Next
<1>4. QED
  BY <1>1, <1>2, <1>3

(* Every step keeps account of the places.                                   *)
LEMMA NextRoom ==
    ASSUME Linked, Room, [Next]_vars
    PROVE  Room'
<1> USE DEF Thread
<1>0. /\ IInv /\ prefetch.free \in Nat /\ Len(prefetch.queue) \in Nat
      /\ PrefetchLines \in Nat
      /\ pc \in [Thread -> Label] /\ delay \in [Thread -> Delay]
  BY NumberTypes DEF Linked, IInv, TypeOK, PrefetchTypeOK
<1>1. CASE /\ prefetch' = prefetch /\ pc'["L2"] = pc["L2"]
           /\ delay'["L2"] = delay["L2"]
  BY <1>1 DEF Room, JustTaken
<1>2. CASE L1Step
  BY <1>0, <1>1, <1>2, StepMoves DEF L1Step, bufferVars
<1>3. CASE L2Step
  <2>1. CASE L2PrefetchTake
    <3>1. /\ pc["L2"] = "prefetch" /\ pc'["L2"] = "install"
          /\ delay'["L2"] = Waiting(0, 1)
      BY <1>0, <2>1 DEF L2PrefetchTake, Runs, Suspend, Waiting
    <3>2. /\ prefetch'.free = prefetch.free
          /\ Len(prefetch'.queue) = Len(prefetch.queue) - 1
      <4>1. prefetch \in [queue : Seq(PrefetchedLine), avail : Nat, free : Nat]
        BY <1>0 DEF IInv, TypeOK, PrefetchTypeOK
      <4>2. prefetch.queue # <<>> /\ prefetch' = FifoRead(prefetch)
        BY <1>0, <2>1, <4>1, EmptySeq
        DEF L2PrefetchTake, PrefetchTake, IInv, BuffersOK, FifoBounded
      <4>3. QED
        BY <4>1, <4>2, HeadTailProperties DEF FifoRead
    <3>3. QED
      BY <1>0, <3>1, <3>2, WaitingDiffers DEF Room, JustTaken
  <2>2. CASE ~L2PrefetchTake
    <3>1. /\ prefetch' = prefetch /\ pc'["L2"] # "install"
          /\ delay["L2"] = Waiting(0, 0)
      BY <1>0, <1>3, <2>2, L2KeepsPrefetch
    <3>2. QED
      BY <3>1 DEF Room, JustTaken
  <2>3. QED
    BY <2>1, <2>2
<1>4. CASE MemoryStep
  <2>1. pc'["L2"] = pc["L2"] /\ delay'["L2"] = delay["L2"]
    BY <1>0, <1>4, StepMoves
  <2>2. CASE MemoryPut
    <3>1. /\ prefetch'.free = prefetch.free - 1
          /\ Len(prefetch'.queue) = Len(prefetch.queue) + 1
      BY <1>0, <2>2, PutHasRoom DEF Linked
    <3>2. JustTaken' = JustTaken /\ JustTaken \in {0, 1}
      BY <2>1 DEF JustTaken
    <3>3. QED
      BY SMTT(30), <1>0, <2>1, <3>1, <3>2 DEF Room
  <2>3. CASE ~MemoryPut
    BY <1>1, <1>4, <2>1, <2>3, MemoryKeepsPrefetch
  <2>4. QED
    BY <2>2, <2>3
<1>5. CASE Delta
  <2>1. /\ pc' = pc
        /\ prefetch'.free = PrefetchLines - Len(prefetch.queue)
        /\ prefetch'.queue = prefetch.queue
    BY <1>0, <1>5
    DEF Delta, DeltaCycle, PrefetchUpdate, FifoUpdate, IInv, TypeOK,
        PrefetchTypeOK
  <2>2. pc["L2"] = "install" => delay'["L2"] = Waiting(0, 0)
    BY <1>0, <1>5, WaitingFields
    DEF Room, Delta, DeltaCycle, NoThreadReady, Delay, Waiting
  <2>3. QED
    BY <1>0, <2>1, <2>2 DEF Room, JustTaken
<1>6. CASE Driver
  <2>1. prefetch' = prefetch /\ pc' = pc
    BY <1>6, DriverUnchanged DEF moduleVars
  <2>2. CASE delay' = delay
    BY <1>1, <2>1, <2>2
  <2>3. CASE ClockEdge /\ stage \in {"idle", "request", "finish"}
    <3>1. pc["L2"] # "install"
      BY <1>0, <2>3, WaitingFields DEF Room, ClockEdge, IInv, ThreadsHeld
    <3>2. QED
      BY <2>1, <3>1 DEF Room, JustTaken
  <2>4. QED
    BY <1>6, <2>2, <2>3, DriverMoves DEF Linked
<1>7. CASE UNCHANGED vars
  BY <1>1, <1>7 DEF vars, kernelVars, moduleVars
<1>8. QED
  BY <1>2, <1>3, <1>4, <1>5, <1>6, <1>7 DEF Next

(* No line that MEMORY prefetched is ever lost, with and without a           *)
(* store-back buffer (prefetch_buffer.hpp, write(), which drops a line when  *)
(* the fifo is full): when MEMORY puts a line, L2 has left room for it.      *)
THEOREM LinesAreKept == Spec => NoLineLost
<1>1. Init => Room
  BY EmptySeq, ConstantsAssumption
  DEF Init, PrefetchInit, EmptyFifo, KernelInit, Thread, Room, JustTaken
<1>2. Linked /\ Room /\ [Next]_vars =>
        [pc["MEMORY"] = "put" /\ pc'["MEMORY"] = "prefetch" =>
             Len(prefetch'.queue) = Len(prefetch.queue) + 1]_vars
  <2> SUFFICES ASSUME Linked, Room, Next, pc["MEMORY"] = "put",
                      pc'["MEMORY"] = "prefetch"
               PROVE  Len(prefetch'.queue) = Len(prefetch.queue) + 1
    OBVIOUS
  <2>1. CASE L1Step \/ L2Step \/ Delta \/ Driver
    BY <2>1, StepMoves, DriverUnchanged DEF Delta, DeltaCycle, Linked
  <2>2. CASE MemoryStep
    <3>1. MemoryPut
      BY <2>2
      DEF MemoryStep, MemoryNext, Polled, MemoryRestart, MemoryIdle,
          MemoryAcceptRead, MemoryAcceptWrite, MemoryAcceptDrain, MemoryRead,
          MemoryPrefetch, MemoryReadDone, MemoryWrite, MemoryResume,
          MemoryCallRead, MemoryTake, MemoryDrained, MemoryTaken,
          MemoryAbort, MemoryLatencyStep, MemoryCommit, Runs
    <3>2. QED
      BY <3>1, PutHasRoom DEF Linked
  <2>3. QED
    BY <2>1, <2>2 DEF Next
<1>3. QED
  BY <1>1, <1>2, InitLinked, NextLinked, NextRoom, PTL DEF Spec, NoLineLost

-----------------------------------------------------------------------------
(* What L2 may take from done_from_Memory while it waits for the store-back  *)
(* buffer to be written back.                                               *)

(* An entry that is not readable yet was written in this delta cycle, by an  *)
(* L2 that rests since.                                                     *)
JustStored == Len(storeback.fifo.queue) > storeback.fifo.avail => L2Rests

(* A write is pending: in the buffer, or on its way from there to memory.    *)
Pending ==
    \/ pc["MEMORY"] \in {"taken", "latency", "commit"} \/ memory.temp.present
    \/ Len(storeback.fifo.queue) # 0

(* done_from_Memory is up although a write is pending: it is the answer to a *)
(* read, or L2 has stored the write since.  In the next cycle it is           *)
(* withdrawn before L2 can look for it.                                      *)
StillUp ==
    \/ L2Rests \/ L2Fetches
    \/ pc["MEMORY"] \in {"prefetch", "put"} /\ pc["L2"] = "await_read"
    \/ /\ pc["L2"] = "await_read" /\ delay["L2"] = Waiting(0, 0)
       /\ flag["done_from_Memory"] /\ delay["MEMORY"].clk = 0
    \/ /\ pc["MEMORY"] \in {"restart", "poll"} /\ delay["MEMORY"].clk = 0
       /\ pc["L2"] \in {"restart", "poll", "access"}
       /\ pc["L2"] = "access" => delay["L2"].clk # 0
WrittenBack ==
    (flag["done_from_Memory"] \/ flagNext["done_from_Memory"]) /\ Pending =>
        StillUp

(* These are the writes that have not reached memory.                        *)
LEMMA PendingMeans ==
    ASSUME IInv
    PROVE  Pending <=> PendingWrites # << >>
<1>1. storeback.fifo.queue \in Seq(Write)
  BY DEF IInv, TypeOK, StorebackTypeOK
<1>2. /\ memory.write_address \in Address \cup {Elsewhere}
      /\ memory.data \in Value
  BY DEF IInv, TypeOK, MemoryTypeOK
<1> DEFINE Flight == [address |-> memory.write_address, data |-> memory.data]
           flying == \/ pc["MEMORY"] \in {"taken", "latency", "commit"}
                     \/ memory.temp.present
<1>3. CASE flying
  <2>0. storeback.fifo.queue \in Seq({Flight} \cup Write)
    BY <1>1, SeqMonotonic
  <2>1. /\ InFlight = <<Flight>> /\ Pending
        /\ InFlight \in Seq({Flight} \cup Write)
        /\ storeback.fifo.queue \in Seq({Flight} \cup Write)
    <3>1. InFlight = <<Flight>> /\ Pending
      BY <1>3 DEF InFlight, Pending
    <3>2. <<Flight>> \in Seq({Flight} \cup Write)
      OBVIOUS
    <3>3. QED
      BY <2>0, <3>1, <3>2
  <2>2. Len(PendingWrites) = 1 + Len(storeback.fifo.queue)
    BY <2>1, ConcatProperties DEF PendingWrites
  <2>3. Len(storeback.fifo.queue) \in Nat
    BY <1>1, LenProperties
  <2>4. Len(PendingWrites) # 0
    BY <2>2, <2>3
  <2>5. QED
    BY <2>1, <2>4, EmptySeq
<1>4. CASE ~flying
  <2>1. InFlight = << >> /\ (Pending <=> Len(storeback.fifo.queue) # 0)
    BY <1>4 DEF InFlight, Pending
  <2>2. PendingWrites = storeback.fifo.queue
    BY <1>1, <2>1, ConcatEmptySeq DEF PendingWrites
  <2>3. QED
    BY <1>1, <2>1, <2>2, EmptySeq
<1>5. QED
  BY <1>3, <1>4

(* What a step of L2 can be, seen from the write-back.                      *)
LEMMA L2Stores ==
    ASSUME Linked, L2Step
    PROVE  /\ delay["L2"] = Waiting(0, 0)
           /\ flag' = flag
           /\ flagNext'["done_from_Memory"] = flagNext["done_from_Memory"]
           /\ L2Rests' \/ L2Fetches'
              \/ /\ pc["L2"] = "await_read" /\ pc'["L2"] = "await_read"
                 /\ ~flag["done_from_Memory"]
              \/ /\ pc["L2"] \in {"restart", "poll"}
                 /\ pc'["L2"] \in {"poll", "access"}
                 /\ pc'["L2"] = "access" => delay'["L2"].clk # 0
              \/ pc["L2"] \in {"access", "store", "retry", "await_write",
                               "flush", "issue"}
           /\ storeback' = storeback \/ L2Rests'
<1> USE WaitingFields, NumberTypes
    DEF Linked, L2Rests, L2Fetches, Thread, Runs, Suspend, L2Complete, Waiting,
        Now, Drive, Flag
<1>1. delay["L2"] = Waiting(0, 0)
  BY StepMoves
<1>2. /\ flag' = flag
      /\ flagNext'["done_from_Memory"] = flagNext["done_from_Memory"]
  <2>1. L2Restart \/ L2Poll \/ L2Moves \/ L2Ends
    BY L2NextKinds DEF L2Step
  <2>2. QED
    BY <2>1 DEF L2Restart, L2Poll, L2Moves, L2Ends, Drives, signalVars
<1>3. storeback' = storeback \/ L2Rests'
  <2>1. CASE L2Store
    BY <2>1 DEF L2Store
  <2>2. CASE ~L2Store
    BY <2>2, L2KeepsStoreback
  <2>3. QED
    BY <2>1, <2>2
<1>4. CASE L2Restart \/ L2Poll
  BY <1>1, <1>2, <1>3, <1>4 DEF L2Restart, L2Poll
<1>5. CASE L2Write \/ L2Store \/ L2StoreFails \/ L2Retry \/ L2ReadHit
             \/ L2ReadMiss \/ L2WriteDone \/ L2FlushDone \/ L2Issue
  <2>1. pc["L2"] \in {"access", "store", "retry", "await_write", "flush",
                      "issue"}
    BY <1>5
    DEF L2Write, L2Store, L2StoreFails, L2Retry, L2ReadHit, L2ReadMiss,
        L2WriteDone, L2FlushDone, L2Issue
  <2>2. QED
    BY <1>1, <1>2, <1>3, <2>1
<1>6. CASE L2StillWaiting
  BY <1>1, <1>2, <1>3, <1>6 DEF L2StillWaiting
<1>7. CASE L2Fill \/ L2PrefetchTake \/ L2PrefetchEmpty \/ L2Install
  <2>1. L2Rests' \/ L2Fetches'
    BY <1>7
    DEF L2Fill, L2PrefetchTake, L2PrefetchEmpty, L2Install, L2Answer
  <2>2. QED
    BY <1>1, <1>2, <1>3, <2>1
<1>8. QED
  BY <1>4, <1>5, <1>6, <1>7 DEF L2Step, L2Next

(* A step of L2 leaves nothing pending behind a done that is still up.       *)
LEMMA L2StepWritten ==
    ASSUME Linked, JustStored, WrittenBack, L2Step
    PROVE  JustStored' /\ WrittenBack'
<1> USE WaitingFields, WaitingDiffers
<1>1. /\ UNCHANGED memory /\ pc'["MEMORY"] = pc["MEMORY"]
      /\ delay'["MEMORY"] = delay["MEMORY"]
  BY StepMoves DEF Linked, L2Step, memoryVars
<1>2. JustStored'
  BY L2Stores DEF JustStored, L2Rests
<1>3. CASE L2Rests' \/ L2Fetches'
  BY <1>2, <1>3 DEF WrittenBack, StillUp
<1>4. CASE ~L2Rests' /\ ~L2Fetches'
  <2>1. storeback' = storeback /\ (Pending' <=> Pending)
    BY <1>1, <1>4, L2Stores DEF Pending
  <2>2. SUFFICES ASSUME StillUp PROVE StillUp'
    BY <1>2, <2>1, L2Stores DEF WrittenBack
  <2>3. CASE pc["L2"] = "await_read"
    BY <1>1, <1>4, <2>2, <2>3, L2Stores DEF StillUp, L2Rests, L2Fetches
  <2>4. CASE pc["L2"] \in {"restart", "poll"}
    BY <1>1, <1>4, <2>2, <2>4, L2Stores DEF StillUp, L2Rests, L2Fetches
  <2>5. CASE pc["L2"] \in {"access", "store", "retry", "await_write", "flush",
                           "issue"}
    BY <1>1, <1>4, <2>2, <2>5, L2Stores DEF StillUp, L2Rests, L2Fetches
  <2>6. QED
    BY <1>4, <2>3, <2>4, <2>5, L2Stores
<1>5. QED
  BY <1>3, <1>4

(* A step of MEMORY raises done when nothing is pending, or for a read.      *)
LEMMA MemoryStepWritten ==
    ASSUME Linked, JustStored, WrittenBack, MemoryStep
    PROVE  JustStored' /\ WrittenBack'
<1> USE WaitingFields, WaitingDiffers, NumberTypes DEF Linked, Thread
<1>0. /\ delay["MEMORY"] = Waiting(0, 0)
      /\ \A t \in {"L1", "L2"} : pc'[t] = pc[t] /\ delay'[t] = delay[t]
      /\ flag' = flag
      /\ L2Rests' = L2Rests /\ L2Fetches' = L2Fetches
  BY StepMoves, MemoryDrives DEF MemoryStep, Drives, L2Rests, L2Fetches
<1>1. /\ memory.i \in Nat /\ storeback.fifo.avail \in Nat
      /\ storeback.fifo.queue \in Seq(Write)
      /\ Len(storeback.fifo.queue) \in Nat
      /\ storeback \in [fifo : [queue : Seq(Write), avail : Nat, free : Nat],
                        tags_storeback : [Slot -> Nat],
                        head : Nat, tail : Nat, empty : BOOLEAN]
      /\ MemoryTypeOK /\ KernelTypeOK
  BY LenProperties DEF IInv, TypeOK, StorebackTypeOK
<1>2. JustStored'
  <2>1. CASE MemoryTake
    <3>1. /\ storeback'.fifo.queue = Tail(storeback.fifo.queue)
          /\ storeback'.fifo.avail = storeback.fifo.avail - 1
      BY <1>1, <2>1 DEF MemoryTake, StorebackTake, FifoRead
    <3>2. storeback.fifo.queue # << >>
      BY <1>1, <2>1, EmptySeq DEF MemoryTake, IInv, BuffersOK, FifoBounded
    <3>3. Len(storeback'.fifo.queue) = Len(storeback.fifo.queue) - 1
      BY <1>1, <3>1, <3>2, HeadTailProperties
    <3>4. QED
      BY <1>0, <1>1, <3>1, <3>3 DEF JustStored
  <2>2. CASE MemoryTaken
    <3>1. storeback'.fifo = storeback.fifo
      BY <1>1, <2>2 DEF MemoryTaken, StorebackAdvanceHead
    <3>2. QED
      BY <1>0, <3>1 DEF JustStored
  <2>3. CASE ~MemoryTake /\ ~MemoryTaken
    BY <1>0, <2>3, MemoryKeepsStoreback DEF JustStored
  <2>4. QED
    BY <2>1, <2>2, <2>3
<1> SUFFICES WrittenBack'
  BY <1>2
<1>3. CASE pc["MEMORY"] \notin {"restart", "read", "prefetch", "put", "write"}
             /\ ~MemoryDrained
  <2>1. ~flag["done_from_Memory"] /\ ~flagNext["done_from_Memory"]
    BY <1>0, <1>3 DEF Exchange, AnswerShown, Answers, Withdraws
  <2>2. ~flagNext'["done_from_Memory"]
    <3>1. CASE MemoryIdle \/ MemoryAcceptRead \/ MemoryAcceptWrite
      BY <2>1, <3>1
      DEF MemoryIdle, MemoryAcceptRead, MemoryAcceptWrite, signalVars
    <3>2. CASE MemoryAcceptDrain
      BY <1>1, <3>2
      DEF MemoryAcceptDrain, StartDraining, Drive, KernelTypeOK, Flag
    <3>3. CASE MemoryResume \/ MemoryCallRead \/ MemoryTake \/ MemoryTaken
                 \/ MemoryAbort \/ MemoryLatencyStep \/ MemoryCommit
      BY <2>1, <3>3
      DEF MemoryResume, MemoryCallRead, MemoryTake, MemoryTaken, MemoryAbort,
          MemoryLatencyStep, MemoryCommit, signalVars
    <3>4. QED
      BY <1>3, <3>1, <3>2, <3>3
      DEF MemoryStep, MemoryNext, MemoryRestart, MemoryRead, MemoryPrefetch,
          MemoryPut, MemoryReadDone, MemoryWrite, Runs
  <2>3. QED
    BY <1>0, <2>1, <2>2 DEF WrittenBack
<1>4. CASE MemoryDrained
  <2>1. storeback' = storeback /\ pc'["MEMORY"] = "restart"
        /\ ~memory'.temp.present /\ storeback.fifo.avail = 0
    BY <1>1, <1>4
    DEF MemoryDrained, memoryBuffers, Suspend, EmptyIsEmpty, Runs,
        MemoryTypeOK, KernelTypeOK
  <2>2. CASE Len(storeback.fifo.queue) = 0
    BY <2>1, <2>2 DEF WrittenBack, Pending
  <2>3. CASE Len(storeback.fifo.queue) # 0
    BY <1>0, <1>1, <2>1, <2>3 DEF JustStored, WrittenBack, StillUp
  <2>4. QED
    BY <2>2, <2>3
<1>5. CASE MemoryWrite
  <2>1. ~HasStoreback /\ ~memory.write_underway
    BY <1>5 DEF MemoryWrite, Runs, Exchange, CommandServed, BothWait
  <2>2. ~memory'.temp.present /\ pc'["MEMORY"] = "restart"
        /\ storeback' = storeback
    BY <1>1, <1>5, <2>1
    DEF MemoryWrite, memoryBuffers, EmptyIsEmpty, Drains, Suspend,
        KernelTypeOK
  <2>3. Len(storeback.fifo.queue) = 0
    BY <1>1, <2>1, ConstantsAssumption
    DEF HasStoreback, IInv, BuffersOK, FifoBounded
  <2>4. QED
    BY <2>2, <2>3 DEF WrittenBack, Pending
<1>6. CASE MemoryRead
  <2>1. pc["L2"] = "await_read" /\ pc'["MEMORY"] = "prefetch"
    BY <1>1, <1>6
    DEF MemoryRead, Runs, Exchange, CommandServed, Suspend, KernelTypeOK
  <2>2. QED
    BY <1>0, <2>1 DEF WrittenBack, StillUp
<1>7. CASE MemoryRestart \/ MemoryPrefetch \/ MemoryPut \/ MemoryReadDone
  <2>1. /\ Pending' = Pending
        /\ flagNext'["done_from_Memory"] => flagNext["done_from_Memory"]
    <3>1. /\ storeback' = storeback /\ memory'.temp = memory.temp
          /\ pc["MEMORY"] \notin {"taken", "latency", "commit"}
          /\ pc'["MEMORY"] \notin {"taken", "latency", "commit"}
      <4>1. CASE MemoryRestart \/ MemoryReadDone
        <5>1. /\ UNCHANGED <<memory, storeback>>
              /\ pc["MEMORY"] \in {"restart", "prefetch"}
          BY <4>1
          DEF MemoryRestart, MemoryReadDone, Runs, memoryVars, memoryBuffers
        <5>2. pc'["MEMORY"] \in {"poll", "drain", "restart"}
          BY <1>1, <4>1
          DEF MemoryRestart, MemoryReadDone, StartDraining, Suspend,
              KernelTypeOK
        <5>3. QED
          BY <5>1, <5>2
      <4>2. CASE MemoryPrefetch
        BY <1>1, <4>2
        DEF MemoryPrefetch, Suspend, Runs, memoryBuffers, MemoryTypeOK,
            KernelTypeOK
      <4>3. CASE MemoryPut
        BY <1>1, <4>3
        DEF MemoryPut, Suspend, Runs, MemoryTypeOK, KernelTypeOK
      <4>4. QED
        BY <1>7, <4>1, <4>2, <4>3
    <3>2. flagNext'["done_from_Memory"] => flagNext["done_from_Memory"]
      BY <1>1, <1>7
      DEF MemoryRestart, MemoryPrefetch, MemoryPut, MemoryReadDone, Drive,
          StartDraining, signalVars, KernelTypeOK, Flag
    <3>3. QED
      BY <3>1, <3>2 DEF Pending
  <2>2. SUFFICES ASSUME StillUp PROVE StillUp'
    BY <1>0, <2>1 DEF WrittenBack
  <2>3. CASE L2Rests \/ L2Fetches
    BY <1>0, <2>3 DEF StillUp
  <2>4. CASE ~L2Rests /\ ~L2Fetches /\ MemoryRestart
    <3>1. /\ pc["MEMORY"] = "restart" /\ pc'["MEMORY"] = "poll"
          /\ delay'["MEMORY"].clk = 0
      BY <1>1, <2>4 DEF MemoryRestart, Runs, Suspend, KernelTypeOK
    <3>2. QED
      BY <1>0, <2>2, <2>4, <3>1 DEF StillUp
  <2>5. CASE ~L2Rests /\ ~L2Fetches /\ (MemoryPrefetch \/ MemoryPut)
    <3>1. pc["MEMORY"] \in {"prefetch", "put"}
          /\ pc'["MEMORY"] \in {"prefetch", "put"}
      BY <1>1, <2>5 DEF MemoryPrefetch, MemoryPut, Runs, Suspend, KernelTypeOK
    <3>2. QED
      BY <1>0, <2>2, <2>5, <3>1 DEF StillUp
  <2>6. CASE ~L2Rests /\ ~L2Fetches /\ MemoryReadDone
    <3>1. pc["MEMORY"] = "prefetch" /\ delay'["MEMORY"].clk = 0
      BY <1>1, <2>6
      DEF MemoryReadDone, StartDraining, Runs, Suspend, KernelTypeOK
    <3>2. pc["L2"] = "await_read"
      BY <2>2, <2>6, <3>1 DEF StillUp
    <3>3. delay["L2"] = Waiting(0, 0) /\ flag["done_from_Memory"]
      BY <1>0, <3>1, <3>2 DEF Exchange, CommandServed, L2Commands, L2Awaits
    <3>4. QED
      BY <1>0, <3>1, <3>2, <3>3 DEF StillUp
  <2>7. QED
    BY <1>7, <2>3, <2>4, <2>5, <2>6
<1>8. QED
  BY <1>3, <1>4, <1>5, <1>6, <1>7
  DEF MemoryStep, MemoryNext, Polled, MemoryIdle, MemoryAcceptRead,
      MemoryAcceptWrite, MemoryAcceptDrain, MemoryResume, MemoryCallRead,
      MemoryTake, MemoryTaken, MemoryAbort, MemoryLatencyStep, MemoryCommit,
      Runs

(* A done that is up at a clock edge is withdrawn before L2 works again.     *)
LEMMA EdgeWritten ==
    ASSUME Linked, WrittenBack, ClockEdge,
           stage \in {"idle", "request", "finish"}, pc' = pc,
           UNCHANGED <<memory, storeback>>,
           flag'["done_from_Memory"] = flag["done_from_Memory"],
           flagNext'["done_from_Memory"] = flagNext["done_from_Memory"]
    PROVE  WrittenBack'
<1> USE WaitingFields, WaitingDiffers, NumberTypes DEF Linked, Thread
<1>1. /\ \A t \in Thread : /\ delay[t].clk # 0
                           /\ delay'[t].clk = delay[t].clk - 1
      /\ flag = flagNext
  <2>1. \A t \in Thread : delay[t].clk > 0 /\ delay[t] \in Delay
    BY DEF ClockEdge, IInv, ThreadsHeld
  <2>2. QED
    BY SMTT(30), <2>1 DEF ClockEdge, Settles, Delay
<1>2. SUFFICES ASSUME flagNext["done_from_Memory"], StillUp
               PROVE  StillUp'
  BY <1>1 DEF WrittenBack, Pending
<1>3. CASE L2Rests
  <2>1. pc["L2"] = "restart" /\ pc["MEMORY"] = "restart"
    BY <1>1, <1>2, <1>3
    DEF L2Rests, Exchange, AnswerShown, Answers, BothWait, LinesFetched,
        L2Fetches
  <2>2. delay["MEMORY"].clk = 1
    BY <1>1, <2>1 DEF Exchange, BothWait
  <2>3. delay'["MEMORY"].clk = 0
    BY <1>1, <2>2
  <2>4. QED
    BY <2>1, <2>3 DEF StillUp
<1>4. CASE ~L2Rests
  BY <1>1, <1>2, <1>4 DEF StillUp, L2Fetches
<1>5. QED
  BY <1>3, <1>4

(* Every step of the program.                                               *)
LEMMA NextWritten ==
    ASSUME Linked, JustStored, WrittenBack, [Next]_vars
    PROVE  JustStored' /\ WrittenBack'
<1> USE DEF Thread, Flag
<1>1. ASSUME pc' = pc, delay' = delay, UNCHANGED <<memory, storeback>>,
             flag'["done_from_Memory"] = flag["done_from_Memory"],
             flagNext'["done_from_Memory"] = flagNext["done_from_Memory"]
      PROVE  JustStored' /\ WrittenBack'
  BY <1>1
  DEF JustStored, WrittenBack, Pending, StillUp, L2Rests, L2Fetches
<1>2. CASE L1Step
  <2>1. /\ \A t \in {"L2", "MEMORY"} : pc'[t] = pc[t] /\ delay'[t] = delay[t]
        /\ UNCHANGED <<memory, storeback>>
    BY <1>2, StepMoves DEF L1Step, memoryVars, bufferVars, Linked
  <2>2. /\ flag' = flag
        /\ flagNext'["done_from_Memory"] = flagNext["done_from_Memory"]
    BY <1>2
    DEF L1Step, L1Next, L1Restart, L1Poll, L1Write, L1ReadHit, L1ReadMiss,
        L1StillWaiting, L1WriteDone, L1Fill, L1Complete, L1Propagate, Drive,
        signalVars, Linked, IInv, TypeOK, KernelTypeOK
  <2>3. QED
    BY <2>1, <2>2
    DEF JustStored, WrittenBack, Pending, StillUp, L2Rests, L2Fetches
<1>3. CASE L2Step
  BY <1>3, L2StepWritten
<1>4. CASE MemoryStep
  BY <1>4, MemoryStepWritten
<1>5. CASE Delta
  <2>1. /\ flag' = flagNext /\ flagNext' = flagNext /\ pc' = pc
        /\ memory' = memory
        /\ storeback'.fifo.queue = storeback.fifo.queue
        /\ storeback'.fifo.avail = Len(storeback.fifo.queue)
    BY <1>5
    DEF Delta, DeltaCycle, StorebackUpdate, FifoUpdate, memoryVars, Linked,
        IInv, TypeOK, StorebackTypeOK
  <2>2. \A t \in Thread :
          /\ delay[t] # Waiting(0, 0)
          /\ delay[t].clk # 0 => delay'[t] = delay[t]
          /\ delay'[t].clk = delay[t].clk
    <3>1. delay \in [Thread -> Delay]
      BY DEF Linked, IInv, TypeOK, KernelTypeOK
    <3>2. QED
      BY <1>5, <3>1, WaitingFields DEF Delta, DeltaCycle, NoThreadReady, Delay
  <2>3. Len(storeback.fifo.queue) \in Nat
    BY LenProperties DEF Linked, IInv, TypeOK, StorebackTypeOK
  <2>4. JustStored'
    BY <2>1, <2>3 DEF JustStored
  <2>5. L2Rests => L2Rests'
    BY <2>1, <2>2, WaitingFields DEF L2Rests
  <2>6. Pending' = Pending
    BY <2>1 DEF Pending
  <2>7. StillUp => StillUp'
    BY <2>1, <2>2, <2>5 DEF StillUp, L2Fetches
  <2>8. QED
    BY <2>1, <2>4, <2>6, <2>7 DEF WrittenBack
<1>6. CASE Driver
  <2>1. pc' = pc /\ UNCHANGED <<memory, storeback>>
    BY <1>6, DriverUnchanged DEF moduleVars
  <2>2. /\ flag'["done_from_Memory"] = flag["done_from_Memory"]
        /\ flagNext'["done_from_Memory"] = flagNext["done_from_Memory"]
    BY <1>6, DriverMoves DEF Linked
  <2>3. CASE delay' = delay
    BY <1>1, <2>1, <2>2, <2>3
  <2>4. CASE ClockEdge /\ stage \in {"idle", "request", "finish"}
    <3>1. storeback.fifo.avail \in Nat /\ Len(storeback.fifo.queue) \in Nat
      BY LenProperties DEF Linked, IInv, TypeOK, StorebackTypeOK
    <3>2. JustStored'
      BY <2>1, <2>4, <3>1 DEF JustStored, Linked, Settles, ClockEdge
    <3>3. QED
      BY <2>1, <2>2, <2>4, <3>2, EdgeWritten
  <2>5. QED
    BY <1>6, <2>3, <2>4, DriverMoves DEF Linked
<1>7. CASE UNCHANGED vars
  BY <1>1, <1>7 DEF vars, kernelVars, moduleVars
<1>8. QED
  BY <1>2, <1>3, <1>4, <1>5, <1>6, <1>7 DEF Next

(* The wait of a read miss for the buffer ends when everything is written    *)
(* back: MEMORY has drained the buffer to the end, and the done L2 takes is  *)
(* not the answer to an older read (storeback_buffer.hpp and cache_l2.hpp,   *)
(* "flush all contents of the buffer into the memory").                      *)
THEOREM FlushIsComplete == Spec => FlushEmptiesBuffer
<1>1. Init => JustStored /\ WrittenBack
  BY EmptySeq
  DEF Init, KernelInit, StorebackInit, EmptyFifo, JustStored, WrittenBack, Flag
<1>2. Linked /\ JustStored /\ WrittenBack /\ [Next]_vars =>
        [pc["L2"] = "flush" /\ pc'["L2"] = "issue" => PendingWrites = << >>]_vars
  <2> SUFFICES ASSUME Linked, WrittenBack, Next, pc["L2"] = "flush",
                      pc'["L2"] = "issue"
               PROVE  PendingWrites = << >>
    OBVIOUS
  <2>1. CASE L1Step \/ MemoryStep \/ Delta \/ Driver
    BY <2>1, StepMoves, DriverUnchanged DEF Delta, DeltaCycle, Linked
  <2>2. CASE L2Step
    <3>1. pc \in [Thread -> Label] /\ "L2" \in Thread
      BY DEF Linked, IInv, TypeOK, KernelTypeOK, Thread
    <3>2. ~L2StillWaiting
      BY <3>1 DEF L2StillWaiting, Runs, Suspend
    <3>3. L2FlushDone
      BY <2>2, <3>2
      DEF L2Step, L2Next, L2Restart, L2Poll, L2Write, L2Store, L2StoreFails,
          L2Retry, L2ReadHit, L2ReadMiss, L2WriteDone, L2Issue, L2Fill,
          L2PrefetchTake, L2PrefetchEmpty, L2Install, Runs
    <3>4. ~StillUp /\ flag["done_from_Memory"]
      BY <3>3 DEF L2FlushDone, StillUp, L2Rests, L2Fetches
    <3>5. QED
      BY <3>4, PendingMeans DEF WrittenBack, Linked
  <2>3. QED
    BY <2>1, <2>2 DEF Next
<1>3. QED
  BY <1>1, <1>2, InitLinked, NextLinked, NextWritten, PTL
  DEF Spec, FlushEmptiesBuffer

-----------------------------------------------------------------------------
(* The memory as it will be when pending writes have reached it.             *)

(* A set of numbers has a least one ...                                     *)
LEMMA LeastNumber ==
    ASSUME NEW S \in SUBSET Nat, S # {}
    PROVE  \E x \in S : \A y \in S : x <= y
<1> DEFINE R == OpToRel(<, Nat)
<1>1. \A m, n \in Nat : m < n => <<m, n>> \in R
  BY DEF OpToRel
<1>2. IsWellFoundedOn(R, Nat)
  BY NatLessThanWellFounded
<1> HIDE DEF R
<1>3. PICK x \in S : \A y \in S : ~(<<y, x>> \in R)
  BY <1>2, WFMin
<1>4. \A y \in S : ~(y < x) /\ x \in Nat /\ y \in Nat
  BY <1>1, <1>3
<1>5. QED
  BY <1>4

(* ... and, when it is bounded, a greatest.                                 *)
LEMMA GreatestNumber ==
    ASSUME NEW n \in Nat, NEW S \in SUBSET (1 .. n), S # {}
    PROVE  \E x \in S : \A y \in S : y <= x
<1> DEFINE T == {n - i : i \in S}
<1>1. T \in SUBSET Nat /\ T # {}
  <2>1. \A i \in S : n - i \in Nat
    OBVIOUS
  <2>2. QED
    BY <2>1
<1>2. PICK t \in T : \A u \in T : t <= u
  BY <1>1, LeastNumber
<1>3. PICK x \in S : t = n - x
  BY <1>2
<1>4. \A y \in S : n - x <= n - y
  BY <1>2, <1>3
<1>5. QED
  BY <1>4

(* The contents m after the writes of q.                                    *)
AfterWrites(m, q) ==
    [a \in Address |->
        LET hits == {i \in DOMAIN q : q[i].address = a}
        IN IF hits = {} THEN m[a]
           ELSE q[CHOOSE i \in hits : \A j \in hits : j <= i].data]

(* An address holds what the last write to it stored.                        *)
LEMMA LastWrite ==
    ASSUME NEW m, NEW q \in Seq(Write), NEW a \in Address
    PROVE  /\ (\A i \in 1 .. Len(q) : q[i].address # a) =>
                  AfterWrites(m, q)[a] = m[a]
           /\ \A k \in 1 .. Len(q) :
                  /\ q[k].address = a
                  /\ \A j \in 1 .. Len(q) : q[j].address = a => j <= k
                  => AfterWrites(m, q)[a] = q[k].data
           /\ \/ \A i \in 1 .. Len(q) : q[i].address # a
              \/ \E k \in 1 .. Len(q) :
                    /\ q[k].address = a
                    /\ \A j \in 1 .. Len(q) : q[j].address = a => j <= k
<1> DEFINE hits == {i \in DOMAIN q : q[i].address = a}
<1>1. DOMAIN q = 1 .. Len(q) /\ Len(q) \in Nat
  BY LenProperties
<1>2. AfterWrites(m, q)[a] =
          IF hits = {} THEN m[a]
          ELSE q[CHOOSE i \in hits : \A j \in hits : j <= i].data
  BY DEF AfterWrites
<1>3. (\A i \in 1 .. Len(q) : q[i].address # a) => AfterWrites(m, q)[a] = m[a]
  BY <1>1, <1>2
<1>4. ASSUME NEW k \in 1 .. Len(q), q[k].address = a,
             \A j \in 1 .. Len(q) : q[j].address = a => j <= k
      PROVE  AfterWrites(m, q)[a] = q[k].data
  <2>1. k \in hits /\ \A j \in hits : j <= k
    BY <1>1, <1>4
  <2>2. \A i \in hits : (\A j \in hits : j <= i) => i = k
    BY <1>1, <2>1
  <2>3. (CHOOSE i \in hits : \A j \in hits : j <= i) = k
    BY <2>1, <2>2
  <2>4. QED
    BY <1>2, <2>1, <2>3
<1>5. ASSUME ~(\A i \in 1 .. Len(q) : q[i].address # a)
      PROVE  \E k \in 1 .. Len(q) :
                /\ q[k].address = a
                /\ \A j \in 1 .. Len(q) : q[j].address = a => j <= k
  <2>1. hits \in SUBSET (1 .. Len(q)) /\ hits # {}
    BY <1>1, <1>5
  <2> HIDE DEF hits
  <2>2. PICK k \in hits : \A j \in hits : j <= k
    BY <1>1, <2>1, GreatestNumber
  <2>3. QED
    BY <1>1, <2>2 DEF hits
<1>6. QED
  BY <1>3, <1>4, <1>5

(* One more write is seen at its address.                                    *)
LEMMA AfterAppend ==
    ASSUME NEW m, NEW q \in Seq(Write), NEW w \in Write
    PROVE  AfterWrites(m, Append(q, w))
             = [AfterWrites(m, q) EXCEPT ![w.address] = w.data]
<1> DEFINE p == Append(q, w)
<1>1. /\ Len(q) \in Nat /\ p \in Seq(Write) /\ Len(p) = Len(q) + 1
      /\ \A i \in 1 .. Len(q) : p[i] = q[i]
      /\ p[Len(q) + 1] = w
  BY LenProperties, AppendProperties
<1>2. w.address \in Address
  BY DEF Write
<1> HIDE DEF p
<1>3. ASSUME NEW a \in Address
      PROVE  AfterWrites(m, p)[a] = IF a = w.address THEN w.data
                                    ELSE AfterWrites(m, q)[a]
  <2>1. CASE a = w.address
    <3>1. /\ Len(p) \in 1 .. Len(p) /\ p[Len(p)].address = a
          /\ \A j \in 1 .. Len(p) : j <= Len(p)
      BY <1>1, <2>1
    <3>2. QED
      BY <1>1, <2>1, <3>1, LastWrite
  <2>2. CASE a # w.address /\ \A i \in 1 .. Len(q) : q[i].address # a
    <3>1. \A i \in 1 .. Len(p) : p[i].address # a
      BY <1>1, <2>2
    <3>2. QED
      BY <1>1, <2>2, <3>1, LastWrite
  <2>3. ASSUME a # w.address, NEW k \in 1 .. Len(q), q[k].address = a,
               \A j \in 1 .. Len(q) : q[j].address = a => j <= k
        PROVE  AfterWrites(m, p)[a] = AfterWrites(m, q)[a]
    <3>1. AfterWrites(m, q)[a] = q[k].data
      BY <2>3, LastWrite
    <3>2. k \in 1 .. Len(p) /\ p[k] = q[k] /\ p[k].address = a
      BY <1>1, <2>3
    <3>3. \A j \in 1 .. Len(p) : p[j].address = a => j <= k
      BY <1>1, <2>3
    <3>4. AfterWrites(m, p)[a] = p[k].data
      BY <1>1, <3>2, <3>3, LastWrite
    <3>5. QED
      BY <3>1, <3>2, <3>4
  <2>4. QED
    BY <2>1, <2>2, <2>3, LastWrite
<1>4. /\ AfterWrites(m, p) = [a \in Address |-> AfterWrites(m, p)[a]]
      /\ AfterWrites(m, q) = [a \in Address |-> AfterWrites(m, q)[a]]
  BY DEF AfterWrites
<1>5. AfterWrites(m, p) = [AfterWrites(m, q) EXCEPT ![w.address] = w.data]
  BY <1>2, <1>3, <1>4
<1>6. QED
  BY <1>5 DEF p

(* The oldest write may as well have reached the memory.                     *)
LEMMA AfterHead ==
    ASSUME NEW m, m \in [Address -> Value], NEW w \in Write,
           NEW q \in Seq(Write)
    PROVE  AfterWrites([m EXCEPT ![w.address] = w.data], q)
             = AfterWrites(m, <<w>> \o q)
<1> DEFINE p == <<w>> \o q
           n == [m EXCEPT ![w.address] = w.data]
<1>1. /\ Len(q) \in Nat /\ p \in Seq(Write) /\ Len(p) = Len(q) + 1
      /\ \A i \in 1 .. Len(q) : p[i + 1] = q[i]
      /\ p[1] = w
  <2>1. <<w>> \in Seq(Write) /\ Len(<<w>>) = 1 /\ Len(q) \in Nat
    BY LenProperties
  <2>2. /\ p \in Seq(Write) /\ Len(p) = 1 + Len(q)
        /\ \A i \in 1 .. 1 + Len(q) :
               p[i] = IF i <= 1 THEN <<w>>[i] ELSE q[i - 1]
    BY <2>1, ConcatProperties
  <2> HIDE DEF p
  <2>3. ASSUME NEW i \in 1 .. Len(q) PROVE p[i + 1] = q[i]
    <3>1. i + 1 \in 1 .. 1 + Len(q) /\ ~(i + 1 <= 1) /\ (i + 1) - 1 = i
      BY <2>1
    <3>2. QED
      BY <2>2, <3>1
  <2>4. p[1] = w
    BY <2>1, <2>2
  <2>5. QED
    BY <2>1, <2>2, <2>3, <2>4
<1>2. \A a \in Address : n[a] = IF a = w.address THEN w.data ELSE m[a]
  BY DEF Write
<1> HIDE DEF p, n
<1>3. ASSUME NEW a \in Address
      PROVE  AfterWrites(n, q)[a] = AfterWrites(m, p)[a]
  <2>1. ASSUME \A i \in 1 .. Len(q) : q[i].address # a
        PROVE  AfterWrites(n, q)[a] = AfterWrites(m, p)[a]
    <3>1. AfterWrites(n, q)[a] = n[a]
      BY <2>1, LastWrite
    <3>2. \A i \in 2 .. Len(p) : p[i].address # a
      <4>1. ASSUME NEW i \in 2 .. Len(p) PROVE p[i].address # a
        <5>1. i - 1 \in 1 .. Len(q) /\ (i - 1) + 1 = i
          BY <1>1
        <5>2. p[i] = q[i - 1]
          BY <1>1, <5>1
        <5>3. QED
          BY <2>1, <5>1, <5>2
      <4>2. QED
        BY <4>1
    <3>3. CASE a = w.address
      <4>1. /\ 1 \in 1 .. Len(p) /\ p[1].address = a
            /\ \A j \in 1 .. Len(p) : p[j].address = a => j <= 1
        BY <1>1, <3>2, <3>3
      <4>2. QED
        BY <1>1, <1>2, <3>1, <3>3, <4>1, LastWrite
    <3>4. CASE a # w.address
      <4>1. \A i \in 1 .. Len(p) : p[i].address # a
        BY <1>1, <3>2, <3>4
      <4>2. QED
        BY <1>1, <1>2, <3>1, <3>4, <4>1, LastWrite
    <3>5. QED
      BY <3>3, <3>4
  <2>2. ASSUME NEW k \in 1 .. Len(q), q[k].address = a,
               \A j \in 1 .. Len(q) : q[j].address = a => j <= k
        PROVE  AfterWrites(n, q)[a] = AfterWrites(m, p)[a]
    <3>1. AfterWrites(n, q)[a] = q[k].data
      BY <2>2, LastWrite
    <3>2. k + 1 \in 1 .. Len(p) /\ p[k + 1] = q[k] /\ p[k + 1].address = a
      BY <1>1, <2>2
    <3>3. ASSUME NEW j \in 1 .. Len(p), p[j].address = a PROVE j <= k + 1
      <4>1. CASE j = 1
        BY <4>1
      <4>2. CASE j # 1
        <5>1. j - 1 \in 1 .. Len(q) /\ (j - 1) + 1 = j
          BY <1>1, <4>2
        <5>2. q[j - 1].address = a
          BY <1>1, <3>3, <5>1
        <5>3. QED
          BY <2>2, <5>1, <5>2
      <4>3. QED
        BY <4>1, <4>2
    <3>4. AfterWrites(m, p)[a] = p[k + 1].data
      <4> DEFINE l == k + 1
      <4>1. /\ l \in 1 .. Len(p) /\ p[l].address = a
            /\ \A j \in 1 .. Len(p) : p[j].address = a => j <= l
        BY <3>2, <3>3
      <4> HIDE DEF l
      <4>2. AfterWrites(m, p)[a] = p[l].data
        BY <1>1, <4>1, LastWrite
      <4>3. QED
        BY <4>2 DEF l
    <3>5. QED
      BY <3>1, <3>2, <3>4
  <2>3. QED
    BY <2>1, <2>2, LastWrite
<1>4. QED
  BY <1>3 DEF AfterWrites, p, n
-----------------------------------------------------------------------------
(* Programs that only write.                                                *)
OnlyWrites == \A r \in Requests : r.we

(* Nothing is read then, so that no draining is interrupted.                 *)
NothingRead ==
    /\ stage = "request" => request \in Requests
    /\ stats.answered => stats.we
    /\ pc["L2"] \in {"restart", "poll", "access", "store", "retry"}
    /\ pc["MEMORY"] \in {"restart", "poll", "drain", "take", "taken",
                         "latency", "commit"}
    /\ ~memory.temp.present /\ memory.write_address \in Address

(* The data of the request on its way to the buffer.                         *)
WritePath ==
    stage = "request" =>
        /\ bus.data_in = request.data
        /\ pc["L1"] = "await_write" => bus.data_from_L1_to_L2 = request.data
        /\ pc["L2"] \in {"store", "retry"} =>
               bus.data_from_L2_to_Memory = request.data

(* From when on the write counts: when L2 has answered, and when L1 has.      *)
WriteTaken ==
    /\ stage = "request"
    /\ \/ pc["L1"] = "await_write" /\ pc["L2"] = "restart"
       \/ pc["L1"] = "restart" /\ delay["L1"] = Waiting(1, 0) /\ run = "cycle"
WriteHolds == WriteTaken => Settling[request.addr] = request.data

Writing == Linked /\ NothingRead /\ WritePath /\ WriteHolds

(* What settles is the memory with the pending writes.                       *)
LEMMA SettlingIs ==
    ASSUME IInv, NothingRead
    PROVE  /\ Settling = AfterWrites(memory_blocks, PendingWrites)
           /\ memory_blocks \in [Address -> Value]
           /\ storeback.fifo.queue \in Seq(Write) /\ InFlight \in Seq(Write)
           /\ [address |-> memory.write_address, data |-> memory.data] \in Write
<1>1. /\ memory_blocks \in [Address -> Value] /\ memory.data \in Value
      /\ storeback.fifo.queue \in Seq(Write)
  BY DEF IInv, TypeOK, MemoryTypeOK, StorebackTypeOK
<1>2. [address |-> memory.write_address, data |-> memory.data] \in Write
  BY <1>1 DEF NothingRead, Write
<1>3. InFlight \in Seq(Write)
  BY <1>2, EmptySeq DEF InFlight
<1>4. QED
  BY <1>1, <1>2, <1>3 DEF Settling, AfterWrites

(* A step that leaves the writes and the memory alone.                       *)
LEMMA SameSettling ==
    ASSUME memory_blocks' = memory_blocks, InFlight' = InFlight,
           storeback'.fifo.queue = storeback.fifo.queue
    PROVE  Settling' = Settling
  BY DEF Settling, PendingWrites

(* L2 reads nothing.                                                        *)
LEMMA L2StepReadsNothing ==
    ASSUME HasStoreback, OnlyWrites, Writing, L2Step
    PROVE  NothingRead'
<1> USE DEF Writing, Linked, NothingRead, Thread
<1>1. /\ UNCHANGED <<memory, stage, stats, request>>
      /\ pc'["MEMORY"] = pc["MEMORY"] /\ pc \in [Thread -> Label]
      /\ run # "stopped"
  BY StepMoves DEF L2Step, memoryVars, driverVars, IInv, TypeOK, KernelTypeOK
<1>2. pc["L2"] = "access" => flag["write_enable_from_L1_to_L2"]
  BY <1>1, L2SeesRequest DEF L2Works, Serves, OnlyWrites
<1>3. pc'["L2"] \in {"restart", "poll", "access", "store", "retry"}
  <2>1. CASE L2Restart \/ L2Poll \/ L2Write
    BY <1>1, <2>1 DEF L2Restart, L2Poll, L2Write, Suspend
  <2>2. CASE L2Store \/ L2StoreFails \/ L2Retry
    BY <1>1, <2>2 DEF L2Store, L2StoreFails, L2Retry, L2Complete, Suspend
  <2>3. QED
    BY <1>1, <1>2, <2>1, <2>2
    DEF L2Step, L2Next, L2ReadHit, L2ReadMiss, L2StillWaiting, L2WriteDone,
        L2FlushDone, L2Issue, L2Fill, L2PrefetchTake, L2PrefetchEmpty,
        L2Install, Runs
<1>4. QED
  BY <1>1, <1>3

(* Nor does MEMORY, whose draining nothing interrupts.                       *)
LEMMA MemoryStepReadsNothing ==
    ASSUME HasStoreback, Writing, MemoryStep
    PROVE  NothingRead'
<1> USE WaitingFields, WaitingDiffers
    DEF Writing, Linked, NothingRead, Thread, Runs, Suspend, MemoryTypeOK
<1>1. /\ UNCHANGED <<stage, stats, request>> /\ pc'["L2"] = pc["L2"]
      /\ pc \in [Thread -> Label] /\ MemoryTypeOK
      /\ storeback.fifo.queue \in Seq(Write)
      /\ storeback.fifo.avail \in Nat /\ Len(storeback.fifo.queue) \in Nat
  BY StepMoves, LenProperties
  DEF MemoryStep, driverVars, IInv, TypeOK, KernelTypeOK, StorebackTypeOK
<1> SUFFICES /\ pc'["MEMORY"] \in {"restart", "poll", "drain", "take", "taken",
                                   "latency", "commit"}
             /\ ~memory'.temp.present /\ memory'.write_address \in Address
  BY <1>1
<1>2. CASE MemoryRestart \/ MemoryIdle
  BY <1>1, <1>2 DEF MemoryRestart, MemoryIdle, memoryVars
<1>3. CASE MemoryAcceptRead \/ MemoryAcceptWrite
  <2>1. flag["write_enable_from_L2_to_Memory"]
    BY <1>3, CommandFound DEF MemoryAcceptRead, MemoryAcceptWrite, Polled
  <2>2. QED
    BY <1>3, <2>1 DEF MemoryAcceptRead, MemoryAcceptWrite
<1>4. CASE MemoryAcceptDrain
  BY <1>1, <1>4 DEF MemoryAcceptDrain, StartDraining
<1>5. CASE MemoryCallRead
  BY <1>1, <1>5 DEF MemoryCallRead, memoryVars
<1>6. CASE MemoryTake
  <2>1. storeback.fifo.queue # << >>
    BY <1>1, <1>6, EmptySeq DEF MemoryTake, IInv, BuffersOK, FifoBounded
  <2>2. Head(storeback.fifo.queue) \in Write
    BY <1>1, <2>1, HeadTailProperties
  <2>3. Head(storeback.fifo.queue).address \in Address
    BY <2>2 DEF Write
  <2>4. QED
    BY <1>1, <1>6, <2>3 DEF MemoryTake
<1>7. CASE MemoryDrained \/ MemoryTaken
  BY <1>1, <1>7 DEF MemoryDrained, MemoryTaken
<1>8. CASE MemoryLatencyStep \/ MemoryCommit
  BY <1>1, <1>8 DEF MemoryLatencyStep, MemoryCommit
<1>9. ~MemoryAbort
  BY DEF MemoryAbort, ReadRequested, Exchange, CommandShown, Answers, Withdraws,
         L2Commands, L2Awaits
<1>10. QED
  BY <1>2, <1>3, <1>4, <1>5, <1>6, <1>7, <1>8, <1>9
  DEF MemoryStep, MemoryNext, MemoryRead, MemoryPrefetch, MemoryPut,
      MemoryReadDone, MemoryWrite, MemoryResume

(* Nor does anything else.                                                  *)
LEMMA NextReadsNothing ==
    ASSUME HasStoreback, OnlyWrites, Writing, [Next]_vars
    PROVE  NothingRead'
<1> USE DEF Writing, NothingRead
<1>1. CASE L1Step
  BY <1>1, StepMoves DEF L1Step, memoryVars, driverVars, Linked
<1>2. CASE L2Step
  BY <1>2, L2StepReadsNothing
<1>3. CASE MemoryStep
  BY <1>3, MemoryStepReadsNothing
<1>4. CASE Delta
  BY <1>4 DEF Delta, DeltaCycle, memoryVars, driverVars
<1>5. CASE Driver
  <2>1. UNCHANGED <<pc, memory>>
    BY <1>5, DriverUnchanged DEF moduleVars
  <2>2. CASE \E r \in Requests : SendRequest(r)
    BY <2>1, <2>2 DEF SendRequest, NoStats
  <2>3. CASE RequestAnswered
    BY <2>1, <2>3 DEF RequestAnswered, OnlyWrites
  <2>4. CASE StartCycle \/ RequestExhausted \/ RequestContinues \/ Finish
    BY <2>1, <2>4
    DEF StartCycle, RequestExhausted, RequestContinues, Finish, driverVars
  <2>5. CASE FinishWaits \/ Finished \/ Stopped
    BY <2>1, <2>5 DEF FinishWaits, Finished, Stopped, vars, driverVars
  <2>6. QED
    BY <1>5, <2>2, <2>3, <2>4, <2>5 DEF Driver
<1>6. CASE UNCHANGED vars
  BY <1>6 DEF vars, kernelVars, moduleVars, driverVars
<1>7. QED
  BY <1>1, <1>2, <1>3, <1>4, <1>5, <1>6 DEF Next

-----------------------------------------------------------------------------
(* What settles changes when L2 stores a write, and then as it should.       *)

(* A sequence is its head and its tail.                                     *)
LEMMA HeadAndTail ==
    ASSUME NEW S, NEW q \in Seq(S), q # << >>
    PROVE  <<Head(q)>> \o Tail(q) = q
<1>1. /\ Len(q) \in Nat /\ Head(q) \in S /\ Tail(q) \in Seq(S)
      /\ Len(Tail(q)) = Len(q) - 1
      /\ \A i \in 1 .. Len(Tail(q)) : Tail(q)[i] = q[i + 1]
  BY LenProperties, HeadTailProperties
<1>2. <<Head(q)>> \in Seq(S) /\ Len(<<Head(q)>>) = 1 /\ Head(q) = q[1]
  BY <1>1
<1> DEFINE p == <<Head(q)>> \o Tail(q)
<1>3. /\ p \in Seq(S) /\ Len(p) = Len(q)
      /\ \A i \in 1 .. Len(q) :
             p[i] = IF i <= 1 THEN <<Head(q)>>[i] ELSE Tail(q)[i - 1]
  BY <1>1, <1>2, ConcatProperties
<1> HIDE DEF p
<1>4. ASSUME NEW i \in 1 .. Len(q) PROVE p[i] = q[i]
  <2>1. CASE i = 1
    BY <1>1, <1>2, <1>3, <2>1
  <2>2. CASE i # 1
    <3>1. /\ i - 1 \in 1 .. Len(Tail(q)) /\ (i - 1) + 1 = i /\ ~(i <= 1)
      BY <1>1, <2>2
    <3>2. QED
      BY <1>1, <1>3, <3>1
  <2>3. QED
    BY <2>1, <2>2
<1>5. p = q
  BY <1>3, <1>4, SeqEqual
<1>6. QED
  BY <1>5 DEF p

(* A step of L2.                                                            *)
LEMMA L2StepSettles ==
    ASSUME HasStoreback, OnlyWrites, Writing, L2Step
    PROVE  /\ ~L2Store => Settling' = Settling
           /\ L2Store => Settling' = [Settling EXCEPT
                                         ![request.addr] = request.data]
<1> USE DEF Writing, Linked, Thread
<1>1. /\ UNCHANGED <<memory_blocks, memory, stage, request>>
      /\ pc'["MEMORY"] = pc["MEMORY"] /\ run # "stopped"
      /\ InFlight' = InFlight
  BY StepMoves DEF L2Step, memoryVars, driverVars, InFlight
<1>2. ASSUME ~L2Store PROVE Settling' = Settling
  BY <1>1, <1>2, L2KeepsStoreback, SameSettling
<1>3. ASSUME L2Store
      PROVE  Settling' = [Settling EXCEPT ![request.addr] = request.data]
  <2> DEFINE w == [address |-> request.addr, data |-> request.data]
             q == storeback.fifo.queue
  <2>1. L2Works /\ pc["L2"] = "store"
    BY <1>3 DEF L2Store, Runs, L2Works
  <2>2. /\ stage = "request" /\ request \in Requests
        /\ addr["address_from_L1_to_L2"] = request.addr
        /\ bus.data_from_L2_to_Memory = request.data
    BY <1>1, <2>1, L2SeesRequest DEF Serves, NothingRead, WritePath
  <2>3. w \in Write
    BY <2>2, ConstantsAssumption DEF Request, Write
  <2>4. storeback'.fifo.queue = Append(q, w)
    BY <1>3, <2>2
    DEF L2Store, StorebackWrite, FifoWrite, IInv, TypeOK, StorebackTypeOK
  <2>5. /\ Settling = AfterWrites(memory_blocks, PendingWrites)
        /\ q \in Seq(Write) /\ InFlight \in Seq(Write)
    BY SettlingIs
  <2>6. PendingWrites \in Seq(Write)
    BY <2>5, ConcatProperties DEF PendingWrites
  <2> HIDE DEF w, q
  <2>7. PendingWrites' = Append(PendingWrites, w)
    <3>1. <<w>> \in Seq(Write) /\ Append(q, w) = q \o <<w>>
      BY <2>3, <2>5, AppendIsConcat
    <3>2. Append(PendingWrites, w) = (InFlight \o q) \o <<w>>
      BY <2>3, <2>6, AppendIsConcat DEF PendingWrites, q
    <3>3. (InFlight \o q) \o <<w>> = InFlight \o (q \o <<w>>)
      BY <2>5, <3>1, ConcatAssociative
    <3>4. PendingWrites' = InFlight \o Append(q, w)
      BY <1>1, <2>4 DEF PendingWrites
    <3>5. QED
      BY <3>1, <3>2, <3>3, <3>4
  <2>8. Settling' = AfterWrites(memory_blocks, Append(PendingWrites, w))
    BY <1>1, <2>7 DEF Settling, AfterWrites
  <2>9. Settling' = [Settling EXCEPT ![w.address] = w.data]
    BY <2>3, <2>5, <2>6, <2>8, AfterAppend
  <2>10. QED
    BY <2>9 DEF w
<1>4. QED
  BY <1>2, <1>3

(* A step of MEMORY: it takes the oldest write out of the buffer, or lets it *)
(* reach the memory.                                                        *)
LEMMA MemoryStepSettles ==
    ASSUME HasStoreback, Writing, MemoryStep
    PROVE  Settling' = Settling
<1> USE DEF Writing, Linked, NothingRead, Thread, Runs, Suspend
<1>1. /\ pc \in [Thread -> Label] /\ MemoryTypeOK
      /\ storeback \in [fifo : [queue : Seq(Write), avail : Nat, free : Nat],
                        tags_storeback : [Slot -> Nat],
                        head : Nat, tail : Nat, empty : BOOLEAN]
      /\ storeback.fifo.queue \in Seq(Write)
      /\ storeback.fifo.avail \in Nat /\ Len(storeback.fifo.queue) \in Nat
  BY LenProperties DEF IInv, TypeOK, KernelTypeOK, StorebackTypeOK
<1>2. CASE MemoryTake
  <2> DEFINE w == Head(storeback.fifo.queue)
             t == Tail(storeback.fifo.queue)
  <2>1. storeback.fifo.queue # << >>
    BY <1>1, <1>2, EmptySeq DEF MemoryTake, IInv, BuffersOK, FifoBounded
  <2>2. w \in Write /\ t \in Seq(Write)
    BY <1>1, <2>1, HeadTailProperties
  <2>3. /\ memory_blocks' = memory_blocks /\ storeback'.fifo.queue = t
        /\ memory'.write_address = w.address /\ memory'.data = w.data
        /\ pc["MEMORY"] = "take" /\ pc'["MEMORY"] = "taken"
    BY <1>1, <1>2 DEF MemoryTake, StorebackTake, FifoRead, MemoryTypeOK
  <2>4. w = [address |-> w.address, data |-> w.data]
    BY <2>2 DEF Write
  <2>5. InFlight = << >> /\ InFlight' = <<w>>
    BY <2>3, <2>4 DEF InFlight
  <2>6. PendingWrites = storeback.fifo.queue
    BY <1>1, <2>5, ConcatEmptySeq DEF PendingWrites
  <2>7. PendingWrites' = <<w>> \o t
    BY <2>3, <2>5 DEF PendingWrites
  <2>8. PendingWrites' = PendingWrites
    BY <1>1, <2>1, <2>6, <2>7, HeadAndTail
  <2>9. QED
    BY <2>3, <2>8 DEF Settling
<1>3. CASE MemoryCommit
  <2> DEFINE w == [address |-> memory.write_address, data |-> memory.data]
             q == storeback.fifo.queue
  <2>1. /\ memory_blocks' = [memory_blocks EXCEPT ![w.address] = w.data]
        /\ storeback' = storeback /\ memory' = memory
        /\ pc["MEMORY"] = "commit" /\ pc'["MEMORY"] = "drain"
    BY <1>1, <1>3 DEF MemoryCommit, memoryBuffers
  <2>2. InFlight = <<w>> /\ InFlight' = << >>
    BY <2>1 DEF InFlight
  <2>3. /\ Settling = AfterWrites(memory_blocks, PendingWrites)
        /\ memory_blocks \in [Address -> Value] /\ w \in Write
    BY SettlingIs
  <2> HIDE DEF w
  <2>4. PendingWrites = <<w>> \o q /\ PendingWrites' = q
    BY <1>1, <2>1, <2>2, ConcatEmptySeq DEF PendingWrites
  <2>5. Settling' = AfterWrites(memory_blocks', q)
    BY <2>4 DEF Settling, AfterWrites
  <2> HIDE DEF q
  <2>6. q \in Seq(Write)
    BY <1>1 DEF q
  <2>7. AfterWrites([memory_blocks EXCEPT ![w.address] = w.data], q)
          = AfterWrites(memory_blocks, <<w>> \o q)
    BY <2>3, <2>6, AfterHead
  <2>8. QED
    BY <2>1, <2>3, <2>4, <2>5, <2>7
<1>4. CASE MemoryTaken \/ MemoryLatencyStep
  <2>1. /\ memory_blocks' = memory_blocks
        /\ storeback'.fifo = storeback.fifo
        /\ memory'.write_address = memory.write_address
        /\ memory'.data = memory.data
        /\ pc["MEMORY"] \in {"taken", "latency"}
        /\ pc'["MEMORY"] \in {"latency", "commit"}
    BY <1>1, <1>4
    DEF MemoryTaken, MemoryLatencyStep, StorebackAdvanceHead, memoryBuffers,
        MemoryTypeOK
  <2>2. QED
    BY <2>1, SameSettling DEF InFlight
<1>5. CASE /\ ~MemoryTake /\ ~MemoryCommit /\ ~MemoryTaken
           /\ ~MemoryLatencyStep
  <2>1. storeback' = storeback
    BY <1>5, MemoryKeepsStoreback
  <2>2. /\ memory_blocks' = memory_blocks
        /\ pc["MEMORY"] \in {"restart", "poll", "drain", "take"}
        /\ pc'["MEMORY"] \notin {"taken", "latency", "commit"}
        /\ ~memory'.temp.present
    <3>1. ~MemoryAbort
      BY DEF MemoryAbort, ReadRequested, Exchange, CommandShown, Answers,
             Withdraws, L2Commands, L2Awaits
    <3>2. CASE MemoryRestart \/ MemoryIdle \/ MemoryCallRead \/ MemoryDrained
      BY <1>1, <3>2
      DEF MemoryRestart, MemoryIdle, MemoryCallRead, MemoryDrained, memoryVars,
          MemoryTypeOK
    <3>3. CASE MemoryAcceptRead \/ MemoryAcceptWrite \/ MemoryAcceptDrain
      BY <1>1, <3>3
      DEF MemoryAcceptRead, MemoryAcceptWrite, MemoryAcceptDrain, Polled,
          StartDraining, MemoryTypeOK
    <3>4. QED
      BY <1>5, <3>1, <3>2, <3>3
      DEF MemoryStep, MemoryNext, MemoryRead, MemoryPrefetch, MemoryPut,
          MemoryReadDone, MemoryWrite, MemoryResume
  <2>3. QED
    BY <2>1, <2>2, SameSettling DEF InFlight
<1>6. QED
  BY <1>2, <1>3, <1>4, <1>5

(* Between the steps of the threads nothing settles.                        *)
LEMMA ElsewhereSettles ==
    ASSUME Writing, L1Step \/ Delta \/ Driver \/ UNCHANGED vars
    PROVE  Settling' = Settling
<1>1. /\ UNCHANGED <<memory_blocks, memory>> /\ pc'["MEMORY"] = pc["MEMORY"]
      /\ storeback'.fifo.queue = storeback.fifo.queue
  <2>1. CASE L1Step
    BY <2>1, StepMoves DEF L1Step, memoryVars, bufferVars, Writing, Linked
  <2>2. CASE Delta
    BY <2>2
    DEF Delta, DeltaCycle, StorebackUpdate, FifoUpdate, memoryVars, Writing,
        Linked, IInv, TypeOK, StorebackTypeOK
  <2>3. CASE Driver
    BY <2>3, DriverUnchanged DEF moduleVars
  <2>4. CASE UNCHANGED vars
    BY <2>4 DEF vars, kernelVars, moduleVars
  <2>5. QED
    BY <2>1, <2>2, <2>3, <2>4
<1>2. QED
  BY <1>1, SameSettling DEF InFlight

(* While a write is served L1 waits as for a write.                          *)
LEMMA WriteServed ==
    ASSUME OnlyWrites, Writing, run # "stopped"
    PROVE  /\ stage = "request" /\ pc["L1"] \in {"access", "await_write",
                                                  "await_read"} =>
                  /\ request.we /\ flag["write_enable"]
                  /\ pc["L1"] # "await_read" /\ Serves
           /\ L2Works =>
                  /\ stage = "request" /\ pc["L1"] = "await_write"
                  /\ flag["write_enable_from_L1_to_L2"]
                  /\ flag["valid_from_L1_to_L2"]
                  /\ request.we
<1> USE DEF Writing, Linked, NothingRead
<1>1. stage = "request" => request.we /\ Serves
  BY DEF OnlyWrites, Handshake, Serves
<1>2. L2Works => Serves /\ L1Awaits /\ flag["write_enable_from_L1_to_L2"] = request.we
  BY L2SeesRequest
<1>3. QED
  BY <1>1, <1>2 DEF Serves, Sampled, L1Awaits, CommandStands

(* The data of the request on its way.                                       *)
LEMMA NextWritePath ==
    ASSUME HasStoreback, OnlyWrites, Writing, [Next]_vars
    PROVE  WritePath'
<1> USE DEF Writing, Linked, NothingRead, Thread
<1>0. pc \in [Thread -> Label] /\ bus \in Bus
  BY DEF IInv, TypeOK, KernelTypeOK
<1>1. CASE L1Step
  <2>1. /\ stage' = stage /\ request' = request /\ pc'["L2"] = pc["L2"]
        /\ run # "stopped"
    BY <1>1, StepMoves DEF L1Step, driverVars
  <2>2. CASE L1Write
    BY <1>0, <2>1, <2>2 DEF L1Write, Bus, WritePath
  <2>3. CASE ~L1Write
    <3>1. pc'["L1"] = "await_write" => pc["L1"] = "await_write"
      BY <1>0, <1>1, <2>3
      DEF L1Step, L1Next, L1Restart, L1Poll, L1ReadHit, L1ReadMiss,
          L1StillWaiting, L1WriteDone, L1Fill, L1Complete, Runs, Suspend
    <3>2. /\ bus'.data_in = bus.data_in
          /\ bus'.data_from_L1_to_L2 = bus.data_from_L1_to_L2
          /\ bus'.data_from_L2_to_Memory = bus.data_from_L2_to_Memory
      BY <1>0, <1>1, <2>3
      DEF L1Step, L1Next, L1Restart, L1Poll, L1ReadHit, L1ReadMiss,
          L1StillWaiting, L1WriteDone, L1Fill, Bus
    <3>3. QED
      BY <2>1, <3>1, <3>2 DEF WritePath
  <2>4. QED
    BY <2>2, <2>3
<1>2. CASE L2Step
  <2>1. /\ stage' = stage /\ request' = request /\ pc'["L1"] = pc["L1"]
        /\ run # "stopped"
    BY <1>2, StepMoves DEF L2Step, driverVars
  <2>2. CASE L2Write
    <3>1. L2Works
      BY <2>2 DEF L2Write, Runs, L2Works
    <3>2. bus.data_from_L1_to_L2 = request.data
      BY <2>1, <3>1, WriteServed DEF WritePath
    <3>3. QED
      BY <1>0, <2>1, <2>2, <3>2 DEF L2Write, Bus, WritePath
  <2>3. CASE ~L2Write
    <3>1. ~L2ReadHit /\ ~L2ReadMiss
      BY <2>1, WriteServed DEF L2ReadHit, L2ReadMiss, Runs, L2Works
    <3>2. /\ bus' = bus
          /\ pc'["L2"] \in {"store", "retry"} => pc["L2"] \in {"store", "retry"}
      <4>1. CASE L2Restart \/ L2Poll
        BY <1>0, <4>1 DEF L2Restart, L2Poll, Suspend
      <4>2. CASE L2Store \/ L2StoreFails \/ L2Retry
        BY <1>0, <4>2
        DEF L2Store, L2StoreFails, L2Retry, Runs
      <4>3. QED
        BY <1>2, <2>3, <3>1, <4>1, <4>2
        DEF L2Step, L2Next, L2StillWaiting, L2WriteDone, L2FlushDone, L2Issue,
            L2Fill, L2PrefetchTake, L2PrefetchEmpty, L2Install, Runs
    <3>3. QED
      BY <2>1, <3>2 DEF WritePath
  <2>4. QED
    BY <2>2, <2>3
<1>3. CASE MemoryStep
  <2>1. /\ \A t \in {"L1", "L2"} : pc'[t] = pc[t]
        /\ stage' = stage /\ request' = request
    BY <1>3, StepMoves DEF MemoryStep, driverVars
  <2>2. bus' = bus
    BY <1>3
    DEF MemoryStep, MemoryNext, Runs, MemoryRestart, MemoryIdle,
        MemoryAcceptRead, MemoryAcceptWrite, MemoryAcceptDrain, MemoryRead,
        MemoryPrefetch, MemoryPut, MemoryReadDone, MemoryWrite, MemoryResume,
        MemoryCallRead, MemoryTake, MemoryDrained, MemoryTaken, MemoryAbort,
        MemoryLatencyStep, MemoryCommit
  <2>3. QED
    BY <2>1, <2>2 DEF WritePath
<1>4. CASE Delta
  BY <1>4 DEF Delta, DeltaCycle, driverVars, WritePath
<1>5. ASSUME NEW r \in Requests, SendRequest(r)
      PROVE  WritePath'
  <2>1. pc' = pc /\ pc["L1"] = "restart" /\ pc["L2"] \in {"restart", "poll"}
    BY <1>5 DEF SendRequest, Handshake, CommandUp, L1Awaits
  <2>2. request' = r /\ bus'.data_in = r.data
    BY <1>0, <1>5 DEF SendRequest, Bus
  <2>3. QED
    BY <2>1, <2>2 DEF WritePath
<1>6. CASE StartCycle \/ RequestContinues \/ Stopped
  BY <1>6
  DEF StartCycle, RequestContinues, Stopped, driverVars, vars, kernelVars,
      WritePath
<1>7. CASE RequestExhausted \/ RequestAnswered \/ Finish \/ FinishWaits
             \/ Finished
  BY <1>7
  DEF RequestExhausted, RequestAnswered, Finish, FinishWaits, Finished,
      WritePath
<1>8. CASE UNCHANGED vars
  BY <1>8 DEF vars, kernelVars, driverVars, WritePath
<1>9. QED
  BY <1>1, <1>2, <1>3, <1>4, <1>5, <1>6, <1>7, <1>8 DEF Next, Driver

(* A write that was answered has been stored, and settles.                   *)
LEMMA NextWriteHolds ==
    ASSUME HasStoreback, OnlyWrites, Writing, [Next]_vars
    PROVE  WriteHolds'
<1> USE WaitingFields, WaitingDiffers DEF Writing, Linked, NothingRead, Thread
<1>0. pc \in [Thread -> Label] /\ delay \in [Thread -> Delay]
  BY DEF IInv, TypeOK, KernelTypeOK
<1>1. SUFFICES ASSUME Settling' = Settling \/ L2Step, WriteTaken'
               PROVE  \/ WriteTaken /\ Settling' = Settling /\ request' = request
                      \/ Settling'[request'.addr] = request'.data
  <2>1. Settling' = Settling \/ L2Step
    BY ElsewhereSettles, MemoryStepSettles DEF Next
  <2>2. QED
    BY <2>1, <1>1 DEF WriteHolds
<1>2. CASE L1Step
  <2>1. /\ UNCHANGED <<stage, request, run>> /\ run # "stopped"
        /\ pc'["L2"] = pc["L2"] /\ delay'["L2"] = delay["L2"]
        /\ Settling' = Settling /\ stage = "request"
    BY <1>1, <1>2, StepMoves, ElsewhereSettles DEF L1Step, driverVars, WriteTaken
  <2>2. ~L1ReadHit /\ ~L1ReadMiss /\ ~L1Fill
    BY <2>1, WriteServed DEF L1ReadHit, L1ReadMiss, L1Fill, Runs
  <2>3. CASE L1Restart \/ L1Poll
    BY <1>0, <1>1, <2>3 DEF L1Restart, L1Poll, Suspend, WriteTaken
  <2>4. CASE L1Write
    <3>1. Serves /\ pc["L1"] = "access" /\ pc'["L1"] = "await_write"
      BY <1>0, <2>1, <2>4, WriteServed DEF L1Write, Runs, Suspend
    <3>2. pc["L2"] = "poll"
      BY <3>1 DEF Serves, AnswerUp, L1AtEdge, CommandUp, L1Awaits
    <3>3. QED
      BY <1>1, <2>1, <3>1, <3>2 DEF WriteTaken
  <2>5. CASE L1StillWaiting
    BY <1>0, <1>1, <2>1, <2>5 DEF L1StillWaiting, Runs, Suspend, WriteTaken
  <2>6. CASE L1WriteDone
    <3>1. /\ Serves /\ pc["L1"] = "await_write" /\ delay["L1"] = Waiting(0, 0)
          /\ flag["done_from_L2"]
      BY <2>1, <2>6, WriteServed DEF L1WriteDone, Runs
    <3>2. pc["L2"] = "restart"
      BY <3>1 DEF Serves, AnswerUp, L2Withdraws, L1AtEdge, L1Awaits
    <3>3. QED
      BY <2>1, <3>1, <3>2 DEF WriteTaken
  <2>7. QED
    BY <1>2, <2>2, <2>3, <2>4, <2>5, <2>6 DEF L1Step, L1Next
<1>3. CASE L2Step
  <2>1. /\ UNCHANGED <<stage, request, run>> /\ run # "stopped"
        /\ pc'["L1"] = pc["L1"] /\ delay'["L1"] = delay["L1"]
        /\ stage = "request"
    BY <1>1, <1>3, StepMoves DEF L2Step, driverVars, WriteTaken
  <2>2. CASE L2Store
    <3>1. Settling' = [Settling EXCEPT ![request.addr] = request.data]
      BY <1>3, <2>2, L2StepSettles
    <3>2. request.addr \in Address /\ DOMAIN Settling = Address
      BY DEF IInv, TypeOK, Request, Settling
    <3>3. QED
      BY <2>1, <3>1, <3>2
  <2>3. CASE ~L2Store
    <3>1. Settling' = Settling
      BY <1>3, <2>3, L2StepSettles
    <3>2. pc'["L2"] # "restart"
      <4>1. CASE L2Restart \/ L2Poll
        BY <1>0, <4>1 DEF L2Restart, L2Poll, Suspend
      <4>2. CASE L2Write
        BY <1>0, <4>2 DEF L2Write, Suspend
      <4>3. CASE L2StoreFails
        BY <1>0, <4>3 DEF L2StoreFails, Suspend
      <4>4. CASE L2Retry
        <5>1. flag["valid_from_L1_to_L2"]
          BY <2>1, <4>4, WriteServed DEF L2Retry, Runs, L2Works
        <5>2. QED
          BY <1>0, <4>4, <5>1 DEF L2Retry, Suspend
      <4>5. ~L2ReadHit /\ ~L2ReadMiss
        BY <2>1, WriteServed DEF L2ReadHit, L2ReadMiss, Runs, L2Works
      <4>6. QED
        BY <1>3, <2>3, <4>1, <4>2, <4>3, <4>4, <4>5
        DEF L2Step, L2Next, L2StillWaiting, L2WriteDone, L2FlushDone, L2Issue,
            L2Fill, L2PrefetchTake, L2PrefetchEmpty, L2Install, Runs
    <3>3. QED
      BY <1>1, <2>1, <3>1, <3>2 DEF WriteTaken
  <2>4. QED
    BY <2>2, <2>3
<1>4. CASE MemoryStep
  BY <1>1, <1>4, StepMoves, MemoryStepSettles
  DEF MemoryStep, driverVars, WriteTaken
<1>5. CASE Delta
  <2>1. /\ pc' = pc /\ UNCHANGED driverVars /\ Settling' = Settling
        /\ run' = "cycle" => run = "cycle"
    BY <1>5, ElsewhereSettles DEF Delta, DeltaCycle
  <2>2. delay'["L1"] = Waiting(1, 0) => delay["L1"] = Waiting(1, 0)
    BY <1>0, <1>5 DEF Delta, DeltaCycle, Delay
  <2>3. QED
    BY <1>1, <2>1, <2>2 DEF WriteTaken, driverVars
<1>6. ASSUME NEW r \in Requests, SendRequest(r)
      PROVE  FALSE
  <2>1. pc' = pc /\ run' = run /\ pc["L1"] = "restart" /\ run = "stopped"
    BY <1>6 DEF SendRequest, Handshake
  <2>2. QED
    BY <1>1, <2>1 DEF WriteTaken
<1>7. CASE StartCycle
  <2>1. /\ pc' = pc /\ UNCHANGED driverVars /\ ClockEdge /\ Settling' = Settling
    BY <1>7, ElsewhereSettles DEF StartCycle, Driver
  <2>2. pc["L1"] = "restart" => delay'["L1"] # Waiting(1, 0)
    <3>1. stage = "request" => Waits
      BY DEF Handshake
    <3>2. delay'["L1"] = [delay["L1"] EXCEPT !.clk = @ - 1]
      BY <2>1 DEF ClockEdge
    <3>3. stage = "request"
      BY <1>1, <2>1 DEF WriteTaken, driverVars
    <3>4. QED
      BY <3>1, <3>2, <3>3 DEF Waits, Waiting, Now
  <2>3. QED
    BY <1>1, <2>1, <2>2 DEF WriteTaken, driverVars
<1>8. CASE RequestContinues
  <2>1. /\ pc' = pc /\ stage' = stage /\ request' = request /\ run' = "stopped"
        /\ Settling' = Settling
    BY <1>8, ElsewhereSettles DEF RequestContinues, CycleEnds, Driver
  <2>2. QED
    BY <1>1, <2>1 DEF WriteTaken
<1>9. CASE RequestExhausted \/ RequestAnswered \/ Finish \/ FinishWaits
             \/ Finished
  BY <1>1, <1>9
  DEF RequestExhausted, RequestAnswered, Finish, FinishWaits, Finished,
      WriteTaken
<1>10. CASE UNCHANGED vars
  BY <1>1, <1>10, ElsewhereSettles DEF vars, kernelVars, driverVars, WriteTaken
<1>11. QED
  BY <1>2, <1>3, <1>4, <1>5, <1>6, <1>7, <1>8, <1>9, <1>10
  DEF Next, Driver, Stopped

(* All of it holds at first and is kept.                                    *)
LEMMA InitWriting == Init => Writing
<1> SUFFICES ASSUME Init PROVE Writing
  OBVIOUS
<1>1. Linked
  BY InitLinked
<1>2. NothingRead
  BY ConstantsAssumption
  DEF Init, KernelInit, MemoryInit, NoData, NoStats, Thread, NothingRead,
      Address
<1>3. WritePath /\ WriteHolds
  BY DEF Init, WritePath, WriteHolds, WriteTaken
<1>4. QED
  BY <1>1, <1>2, <1>3 DEF Writing

LEMMA NextWriting ==
    ASSUME HasStoreback, OnlyWrites, Writing, [Next]_vars
    PROVE  Writing'
  BY NextLinked, NextReadsNothing, NextWritePath, NextWriteHolds DEF Writing

(* A step of a thread: when L2 stores a write, it takes effect.              *)
LEMMA ThreadStepBuffered ==
    ASSUME HasStoreback, OnlyWrites, Writing, L1Step \/ L2Step \/ MemoryStep
    PROVE  [BufferedMemory!Next]_(BufferedMemory!vars)
<1>1. UNCHANGED driverVars /\ Serving' = Serving /\ Answer' = Answer
  BY DEF L1Step, L2Step, MemoryStep, driverVars, Serving, Answer
<1>2. CASE Settling' = Settling
  BY <1>1, <1>2 DEF BufferedMemory!vars, driverVars
<1>3. CASE L2Step /\ L2Store
  <2>1. Settling' = [Settling EXCEPT ![request.addr] = request.data]
    BY <1>3, L2StepSettles
  <2>2. L2Works /\ run # "stopped"
    BY <1>3 DEF L2Store, Runs, L2Works
  <2>3. Serving /\ request.we
    BY <2>2, WriteServed DEF Serving
  <2>4. BufferedMemory!Commit
    BY <1>1, <2>1, <2>3 DEF BufferedMemory!Commit, driverVars
  <2>5. QED
    BY <2>4 DEF BufferedMemory!Next
<1>4. QED
  BY <1>2, <1>3, L2StepSettles, MemoryStepSettles, ElsewhereSettles

(* The answer to a write comes when the write is stored.                     *)
LEMMA RequestAnsweredBuffered ==
    ASSUME HasStoreback, OnlyWrites, Writing, RequestAnswered
    PROVE  BufferedMemory!AnswerWrite
<1> USE DEF Writing, Linked, NothingRead
<1>1. /\ stage = "request" /\ stage' = "idle" /\ request' = NoRequest
      /\ stats'.we = request.we
  BY DEF RequestAnswered
<1>2. Settling' = Settling
  BY ElsewhereSettles DEF Driver
<1>3. Serving = TRUE /\ Serving' = FALSE
  BY <1>1 DEF Serving
<1>4. request.we
  BY <1>1 DEF OnlyWrites
<1>5. Answer = << >> /\ Answer' = << >>
  BY <1>1, <1>4 DEF Answer
<1>6. WriteTaken
  BY <1>1, AnsweredState DEF WriteTaken
<1>7. QED
  BY <1>1, <1>2, <1>3, <1>4, <1>5, <1>6
  DEF WriteHolds, BufferedMemory!AnswerWrite

(* Every step is one of the one memory, or none.                             *)
LEMMA NextBuffered ==
    ASSUME HasStoreback, OnlyWrites, Writing, [Next]_vars
    PROVE  [BufferedMemory!Next]_(BufferedMemory!vars)
<1>1. CASE UNCHANGED vars
  BY <1>1, ElsewhereSettles
  DEF vars, driverVars, BufferedMemory!vars, Serving, Answer
<1>2. CASE L1Step \/ L2Step \/ MemoryStep
  BY <1>2, ThreadStepBuffered
<1>3. CASE RequestAnswered
  BY <1>3, RequestAnsweredBuffered DEF BufferedMemory!Next
<1>4. ASSUME NEW r \in Requests, SendRequest(r)
      PROVE  BufferedMemory!Issue(r)
  <2>1. Settling' = Settling
    BY <1>4, ElsewhereSettles DEF Driver
  <2>2. QED
    BY <1>4, <2>1
    DEF SendRequest, BufferedMemory!Issue, Serving, Answer, NoStats
<1>5. CASE Delta \/ StartCycle \/ RequestContinues
  <2>1. Settling' = Settling
    BY <1>5, ElsewhereSettles DEF Driver
  <2>2. QED
    BY <1>5, <2>1
    DEF Delta, StartCycle, RequestContinues, driverVars, BufferedMemory!vars,
        Serving, Answer
<1>6. CASE RequestExhausted \/ Finish \/ FinishWaits \/ Finished
  <2>1. Settling' = Settling
    BY <1>6, ElsewhereSettles DEF Driver
  <2>2. QED
    BY <1>6, <2>1
    DEF RequestExhausted, Finish, FinishWaits, Finished, FinishLooks,
        BufferedMemory!vars, Serving, Answer
<1>7. QED
  BY <1>1, <1>2, <1>3, <1>4, <1>5, <1>6
  DEF Next, Driver, Stopped, BufferedMemory!Next

(* With the store-back buffer, the hierarchy is still one memory for a       *)
(* program that only writes, in every configuration: a write counts from     *)
(* when L2 has put it into the buffer, before it is answered; from then on   *)
(* no draining, no full buffer and no order in which L2 and MEMORY reach the *)
(* fifo drops a write, or lets an older one to the same address overwrite a  *)
(* newer one (storeback_buffer.hpp, write() and read(); memory.hpp,          *)
(* write_from_buffer()).                                                    *)
THEOREM BufferIsOneMemory ==
    ASSUME HasStoreback, OnlyWrites
    PROVE  Spec => ImplementsBufferedMemory
<1>1. Init => Writing /\ BufferedMemory!Init
  <2>1. Init => BufferedMemory!Init
    <3> SUFFICES ASSUME Init PROVE BufferedMemory!Init
      OBVIOUS
    <3>1. /\ storeback.fifo.queue = << >> /\ InFlight = << >>
          /\ memory_blocks = [a \in Address |-> Zero]
      BY DEF Init, KernelInit, StorebackInit, EmptyFifo, MemoryInit, NoData,
             InFlight, Thread
    <3>2. << >> \in Seq(Write) /\ Len(<< >>) = 0
      BY EmptySeq
    <3>3. PendingWrites = << >>
      BY <3>1, <3>2, ConcatEmptySeq DEF PendingWrites
    <3>4. Settling = AfterWrites(memory_blocks, << >>)
      BY <3>3 DEF Settling, AfterWrites
    <3>5. ASSUME NEW a \in Address
          PROVE  AfterWrites(memory_blocks, << >>)[a] = Zero
      <4>1. \A i \in 1 .. Len(<< >>) : << >>[i].address # a
        BY <3>2
      <4>2. AfterWrites(memory_blocks, << >>)[a] = memory_blocks[a]
        BY <3>2, <4>1, LastWrite
      <4>3. QED
        BY <3>1, <4>2
    <3>6. Settling = [a \in Address |-> Zero]
      BY <3>4, <3>5 DEF AfterWrites
    <3>7. QED
      BY <3>6 DEF Init, BufferedMemory!Init, Serving, Answer, NoStats
  <2>2. QED
    BY <2>1, InitWriting
<1>2. Writing /\ [Next]_vars => Writing'
  BY NextWriting
<1>3. Writing /\ [Next]_vars => [BufferedMemory!Next]_(BufferedMemory!vars)
  BY NextBuffered
<1>4. QED
  BY <1>1, <1>2, <1>3, PTL DEF Spec, ImplementsBufferedMemory, BufferedMemory!Spec
=============================================================================
