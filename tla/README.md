# The cache simulator in TLA+

This directory specifies, model-checks and partly proves the two-level cache
simulator in `src/` (C, C++ and SystemC): an L1 and an L2 cache, both direct
mapped and write-through, a main memory, and between L2 and memory an optional
store-back buffer and an optional prefetch buffer; the program around them, from
the command line and the file of requests to the reported result; and the
generator of the example files.  Paths below are relative to
`src/src/`.

## 1. Inventory

| Part | Source | State | Operations |
|---|---|---|---|
| SystemC kernel | `src/systemc` (library), used by all modules | signals, waits, simulation time | `sc_start`, `wait`, delta cycles, `sc_fifo` |
| L1 | `modules/cache_l1.hpp` | lines, valid bits, tags, the latched address | thread `update()` |
| L2 | `modules/cache_l2.hpp` | lines, valid bits, tags, the latched address | thread `update()`, `read_from_prefetch()` |
| Memory | `modules/memory.hpp` | `memory_blocks`, `write_underway`, `temp` | thread `update()`, `write_from_buffer()`, `prefetch_next_line()` |
| Store-back buffer | `modules/storeback_buffer.hpp` | two `sc_fifo`s, ring of tags, `head`, `tail`, `empty` | `write()` (called by L2), `read()` (by memory), `in_buffer()`, `is_empty()` |
| Prefetch buffer | `modules/prefetch_buffer.hpp` | two `sc_fifo`s | `write()` (by memory), `read()` (by L2) |
| CPU_L1_L2 | `modules/modules.hpp` | the signals and buses between the modules | `send_request()`, `finish_memory()`, `get_gate_count()` |
| run_simulation | `main/simulator.cpp` | the budget `original_cycles`, `CacheStats` | loop over the requests, `statsUpdater()` |
| Command line | `main/parser/terminal_parser.c` | the variables that become the `Config` | `parse_user_input()`, `input_checker()` (never called) |
| Request file | `main/parser/parse.c`, `csv_parser.c` | the file position, the array of requests | `calculateLines()`, `start_parse()`, `parse_csv()` |
| Executor | `main/executor.c` | none of its own | `main()` |
| Matrix generator | `assets/matrix_multiplication/matrix_csv.c` | six arrays, the files written | `create_csv()`, 17 `matrix_multiplication_*`, `transpose_matrix()`, `reset_matrix()` |
| Gate count, tracing, printer, scripts | `modules/modules.hpp`, `main/grapher`, `build.sh` | none | output |

How they interact: `send_request()` puts a request on the signals towards L1 and
starts the kernel for one clock period at a time until `done_from_L1` is up.  Each
level passes a command down with `valid`, `write_enable` and an address signal,
waits its latency, and answers with a one-cycle `done`.  Data travels in
plain character arrays, which have no delta-cycle delay.  The three `update()`
threads are coroutines of one kernel: they never run in parallel, but the order
within a delta cycle is not specified, and everything depends on how many
`wait(SC_ZERO_TIME)` stand between writing one signal and reading another.

What is hard:

* *Handshakes by counting delta cycles.* A `done` is up for one cycle; who looks
  a delta cycle too early waits for a cycle longer or for ever, who withdraws
  `valid` too late is served twice.
* *One memory out of three copies.* L1 and L2 are evicted independently (their
  numbers of lines need not be powers of two), prefetching installs lines nobody
  asked for, and a write only updates the copies it meets.
* *Two threads on the store-back buffer.* `write()` and `read()` both contain waits
  and both maintain `empty`; the fifo's own counts change only between delta cycles.
* *A draining that is interrupted by a read*, and `done_from_Memory` that means
  both "command served" and "buffer drained".
* *The end*: budget overruns in the middle of a request, and waiting for writes
  that are still pending.

What makes each part correct: L1, L2 and memory together behave as one memory;
commands are served exactly once, in the right number of cycles; every request is
answered; the ring describes the fifo, no write is dropped or reordered and all
reach memory before the simulation ends; no prefetched line is lost or
mislabelled; cycles, hits and misses add up.

Around the hierarchy nothing is concurrent, and what is hard is that one thing is done twice:
a file is counted by one reader and parsed by another, who disagree on what a line is and
where the file ends, and the array between them is sized by the first and filled by the
second; numbers are checked by one function and converted by another, and the checks that
the simulator relies on stand in a third that nobody calls; a generator indexes an operand one way in a function and
transposes it in the call of that function.  What makes these parts correct: the
well-formed files are accepted and no others; nothing is written outside the array; exactly the
rows of the file are simulated, in their order; what reaches the hierarchy is what its
assumptions ask for; every generated file computes the product it is named for.

`PROJECT.json` lists each hazard at its line.

## 2. The modules

```
SystemC     CacheIndex
   |   \    /   |
   |  StorebackBuffer   PrefetchBuffer
   |        \   /   \   /
L1Cache    L2Cache   MainMemory                CommandLine
      \       |       /                             |
        CPU_L1_L2                              RequestFile     MatrixCsv
        /       \                                   |              |
 Hierarchy     Simulation --------------------- Executor ----------+
 (INSTANCE                                          |
 CoherentMemory)                                MCExecutor
     |
 MCHierarchy

Proofs: Hierarchy_proofs
            Storeback_proofs - Coherence_proofs
            Latency_proofs
            Simulation_proofs --+
        RequestFile_proofs -----+
        MatrixCsv_proofs -------+-- Executor_proofs
```

**SystemC** is external: the kernel as the simulator relies on it.  `pc[t]` is the
`wait()` at which a thread stands and `delay[t]` how many clock edges and then
delta cycles it still waits.  A released thread runs from one wait to the next
(`Runs`, `Suspend`); released threads run in any order; when none is left the
delta cycle ends (`DeltaCycle`), signals take their requested values
(`flagNext` becomes `flag`) and the fifos their counts; when nothing is left to
do before the next clock edge `sc_start()` returns (`run = "stopped"`).
`run = "zero"` and `"paused"` are the two zero-time starts of `finish_memory()`.

**CacheIndex** is the arithmetic of index, tag and offset: the odd one for numbers
of lines that are not powers of two, and the shift and the mask of the line size, which
come from different numbers when that is no power of two.

**L1Cache, L2Cache, MainMemory** have one action for what their thread does between
two waits, named for it; consecutive waits with nothing between them are
one delay.  **StorebackBuffer** and **PrefetchBuffer** are the steps of the buffers'
methods, which run inside the threads of their callers: `StorebackTake` and
`StorebackAdvanceHead` are the two halves of `read()`.

**CPU_L1_L2** composes them and adds `send_request()` and `finish_memory()`; `Requests`
come in any order for ever, and the simulation may end after any of them.
**Simulation** adds the loop of `run_simulation()`: the array has at most
`NumRequests` entries, cycles are budgeted, statistics summed.

**CoherentMemory** is the abstract specification: one memory, one request at a time.
**Hierarchy** states the properties of the composition, among them that it implements
CoherentMemory.

**CommandLine** is `parse_user_input()`: one action for each kind of argument the
`getopt_long()` loop meets, the narrowing of a number to the variable it goes to, the
refusals and the checks at the end.  **RequestFile** adds the file: `CountLine` is one line of
`calculateLines()`, `Allocate` the `malloc()`, `SkipLine`, `RejectLine` and `ReadRow` one line
of `parse_csv()`, `Parsed` its end with the marker.  `phase` says in which of these
functions `main()` is.

**MatrixCsv** is `create_csv()`: one action per call of a transposition or method (`Enter`
empties its file), per iteration of its innermost loop, and per return; `counter` holds the
variables of the nested loops (`Advance`) and `local` the sum or element that a method
keeps.  A method is written once for all seventeen, by the order of its loops, the
form of its innermost body (standard, local sum, hoisted operand) and the operands it
indexes with row and column exchanged.

**Executor** composes RequestFile, Simulation and MatrixCsv into the whole program: the
parser runs, then `run_simulation()` takes the elements of the array until its end or
the marker (`SendNext`, `LeaveArray`), and the hierarchy serves each.  The file is written by
hand (`WrittenByHand`: any member of `Files`) or is one of the generator's
(`RunOnWorkload`).

**MCHierarchy** and **MCExecutor** fix requests, files and command lines for TLC.

A definition whose comment begins "A mistake:" is not part of the model.  It is the
definition after it as a plausible error would have it, and is used to see
that a property notices (`mutants` in `PROJECT.json`).

### Abstractions

* A word is 4 bytes and atomic; addresses count words.  This is exact for
  word-aligned requests and line sizes that are multiples of 4, which is what the
  simulator's examples use: the shift and the mask of the code lose their two lowest bits,
  which are those inside a word.
* The data fifo and the address fifo of each buffer are one fifo of pairs: every
  method reads and writes both in the same step.
* Addresses end at `MaxAddress`; in the code at 2^32 - 1 bytes.  The runs keep requests
  and prefetched lines below the end (`ReachAssumption`).
* The uninitialised local `address_u` of `write_from_buffer()` may be any address or
  none of the modelled ones (`Elsewhere`).
* `head` and `tail` of the store-back buffer are not initialised by the code; the runs
  start them at 0, the theorems at any pair that agrees.
* Cycles are counted up to `CountCap`.  Where `TrackCycles` is FALSE the budget is not
  counted and may run out in any cycle, or never: every moment at which a simulation
  can be cut off is covered.
* A line of the file is one of five kinds (`RequestFile`), and the first line with a byte 0xFF
  is known (`eofByte`): this is all that the two readers tell apart.  `calculateLines()` stores
  what `fgetc()` returns in a `char`; as on x86 it is signed, and 0xFF is its end of file.  Where it
  is unsigned, the reading never ends.  Files have fewer than 2^31 lines, as both readers
  count in an `int` (`FileAssumption`).
* A `garbled` line (`R,abc`) has the right fields and no number in them:
  `sscanf()` leaves the element as `malloc()` returned it, any of `Leftovers`.  What is written
  behind the array may abort the program at any later moment, or never, or change what
  `parse_csv()` reads next (`damaged`, `Abort`).
* An argument is a record of what the loop sees of it.  `--num-requests` is a `size_t`
  narrowed to `int` later; numbers for which the size of the array in bytes exceeds a `size_t`
  are left out (`CommandLineAssumption`), as are lines longer than the parser's buffers.
* The generator's elements are `float` in the code and integers here.  They are whole numbers below
  100 and so are all sums; a `float` holds them exactly up to 2^24, which sums of products
  reach at matrices of about 1700 rows.  The six arrays lie one behind the other; addresses count
  elements.
* The constants of the hierarchy are one configuration.  A command line that is accepted with
  another one is followed to the end of the parser (`OfThisInstance`).

The model was compared with the built program on 282 random scripts of up to six
requests over random geometries, latencies, buffers and budgets: cycles, hits and
misses of every request, data returned, `head`, `tail`, `empty`,
`write_underway`, the cycles of `finish_memory()` and the final memory agreed.  `RequestFile`
was compared on 1500 random files, with and without `--num-requests`: acceptance and number of
simulated requests agreed, but for the aborts of files without a last newline, which
the model has as a choice.  The 20 files that the compiled `matrix_csv.c` writes
for two-by-two matrices are row for row those of `MatrixCsv`.

## 3. The runs

Passing runs:

| Run | Instance | Shows |
|---|---|---|
| `Plain` | 2-line L1, 3-line L2, two-word lines, latencies 1, 2, 3, no buffers, 3 lines that collide (the last of the address space among them), 2 values, endless requests at line starts, fairness | the hierarchy implements CoherentMemory; all cached copies equal memory; every reported latency is that of the levels passed; hit flags are true; each command is served once; every request is answered unless the budget cuts it off |
| `Prefetch` | 4-line L2, 2-line prefetch buffer | the memory property with prefetched lines; each miss takes exactly two more memory latencies; no prefetched line is dropped |
| `Storeback` | 2-entry buffer, memory latency 5, conditional flush, reads and writes | ring and fifo agree although two threads keep them; an early return of `finish_memory()` leaves nothing behind; retried writes are not given up; a flush that ends has emptied the buffer |
| `StorebackWrites` | writes only, memory latency 6: the buffer fills up | the ring agrees when it is full and wraps around; memory plus pending writes behaves as one memory, in the order of the writes |
| `Executor` | 25 command lines, 220 files written by hand, the 17 generated ones of a pair of 2x2 matrices, 1-line L1, 2-line L2, 1-entry store-back buffer, a budget of 220 cycles, fairness of `main` | the program from options to result: what is accepted, what is sent, what is reported, that it ends, and that a generated file leaves the product in memory |

Runs that show the code doing something else than its comments say (each a `finding`):

| Run | Shows |
|---|---|
| `StaleRead` | a read does not see a write that memory has popped from the buffer and not finished: "write 0 = 1, read 0" returns 0 |
| `WritesLeftBehind` | the simulation ends with a write still in the buffer, after taking the `done` of an earlier draining for its own |
| `AbortedWrite` | a write interrupted by a read is resumed without its address |
| `LostTrigger` | memory misses the one-cycle command that starts the draining; a read that waits for the flush waits for ever, whatever the budget |
| `PartialLine` | only the first word of a line is sent to L1, and lines are fetched from the requested address on: requests inside a line are answered with other words |
| `LastLine` | the last row of a file that does not end with a newline is parsed and not simulated; so are the rows from one with a byte 0xFF on |
| `PrefetchOverwrites` | with a prefetch buffer of at least L2 lines - 1 lines, the word sent to L1 is that of a prefetched line |

`StaleRead`, `WritesLeftBehind`, `LostTrigger`, `PartialLine`, `PrefetchOverwrites` and
`LastLine` (both ways) were reproduced with the built program.  For `PrefetchOverwrites`: 2 L2 lines,
prefetch buffer of 1, "write 8 = 5, read 0" prints 5.  For `LastLine`: of two rows without a
last newline one is simulated; with three the marker lands behind the block and the
program aborts in `free()`.

### Bounds, and why they are enough

Requests are served one after the other and the number of requests is unbounded in
all runs but those of `Executor`, so that every state of the caches the addresses allow is
reached, in every combination.  What matters of addresses is whether they collide in L1,
in L2, in both or in neither: in `Plain` lines 0 and 3 collide in L2, 1 and 3 in L1.  Two
values tell old from new, as each step compares a copy with memory, not with a history.
A two-entry buffer is the smallest whose ring is neither always full nor always empty
when `head = tail`; the memory latency decides how writes pile up, and 5 or 6
is what it takes to fill it (a store takes L2 about 4 cycles).  The largest run has 2.2
million states.

In `Executor` the files written by hand are of two sorts.  Those of up to `MCLines` = 2 lines,
of every kind, with and without the last newline, with a byte 0xFF in any of them or in
none: the readers go through a file line by
line, and what one line can do to the next is where `i` and the position are.  Those of
`MCPrefix` + `MCRows` = 73 rows are as long as the budget: with 71 equal writes first, the four
kinds of each of the last two rows make the budget end in the last request, in
`finish_memory()`, or not at all.  The budget of 220 cycles is just enough for the longest
generated file, 52 rows (`jki_opt2`).  The capacity of one entry makes `head = tail`
always.  `IntModulus` = 512 stands for 2^32 (and its square for the 2^64 of a `size_t`): it is
more than twice the budget, so that
the budget is positive as an `int`, and the command lines hold numbers on both sides of
it.  `MaxElements` = 600 stands for the longest array `malloc()` can provide; one
command line asks for just that many.  The size of the matrices is the smallest with more
than one iteration of each loop.  With both buffers at once (store-back 1, prefetch 1)
every generated file stops in the way of `LostTrigger`, so that combination is not run.

`CountCap` (20) is above every latency of the configuration where cycles are read; in
the store-back runs, which do not read them, it is 3; in `Executor` it is the budget, and
counts are exact.  No run disables
the deadlock check: `Stopped` is the end of the simulation, `Exited` that of a program
that did not simulate, and anything else that cannot move is an error.

### Fairness

`FairSpec` asks weak fairness of `Running`: the steps of the threads, the kernel and the
driver's loops.  That is justified because the kernel runs whatever is
released and the driver's loops call `sc_start()` again until they end;
neither waits for anything outside.  Nothing is assumed of the next request
(`SendRequest`) or the end (`Finish`), which are the input's, and a budget that is not
counted is never forced to run out: `RequestsAnswered` says that some number of cycles is
enough.  The order of released
threads is left open and needs no fairness: each waits after its step.

`FairExecutorSpec` asks weak fairness of `main` alone: once started, the program is a single
process that nothing outside stops.  Nobody is bound to write a file and start it
(`create_csv`, `RunOnWorkload`).  Here the budget is counted, so `MainEnds` holds without
the question whether requests are answered.

### Properties

In `Hierarchy`: `ImplementsCoherentMemory` and `ImplementsBufferedMemory` (refinement; in
the second the abstract memory is memory with all pending writes applied),
`CopiesMatchMemory`, `ReadsSeePendingWrites`, `RequestLatency`, `StatsTruthful`,
`HitsTruthful`, `CommandsServedFresh`, `RequestsAnswered`, `RingMatchesFifo`,
`NoWriteGivenUp`, `EarlyFinishIsSafe`, `AllWritesArrive`, `AbortedWriteContinues`,
`FlushEmptiesBuffer`, `NoLineLost`.  In `Simulation`: `CyclesAddUp`, `CountersAgree`,
`ResultHonest`.  In `CommandLine`: `InputsChecked`, `LastOptionWins`.  In `RequestFile`: `ArraySuffices`,
`AcceptsWellFormedFiles`.  In `MatrixCsv`: `EveryMethodMultiplies`, `AccessesAsAnalysed`.  In `Executor`:
`RequestsInFileOrder`, `NothingLeftOut`, `EveryRowSimulated` (of which `LastLine` shows the
violation), `MainEnds`, `SimulatedProduct`.  Each is explained where it is defined.

## 4. The proofs

Checked by TLAPS for all values of the constants that satisfy the assumptions in
`CPU_L1_L2` (what `input_checker()` asks for, and that the two powers of two which the
constructors compute are even powers that cover the lines, twice as many at most:
`PowerAssumption`, which also says that an offset is inside its line and, where the line
size is a power of two, the remainder by it; an assumption because these operators choose
among exponentials the provers know nothing of; TLC evaluates it in every run).

* **`TypeCorrect`** (`Hierarchy_proofs`): `Spec => []TypeOK`.  `TypeOK` is not inductive.
  Reading a fifo is only defined when it has an entry, and its free places would
  become negative if write and update could together exceed the capacity; a clock edge
  counts every thread's wait down by one, which is only right if none is at zero.
  The invariant `IInv` adds `BuffersOK` (readable entries are in the fifo,
  entries and free places together fit), `TakenFromBuffer` (memory is inside
  `read()` only if there is a buffer, so that the remainder by its size is defined) and
  `ThreadsHeld` (when the driver is about to start a cycle every thread still waits
  for a clock edge).  One lemma for each thread has one step per action; `IndexType`
  shows that index, tag and offset of every address fall into the cache, for
  powers of two and other numbers of lines, and every line size.
* **`RingCorrect`** (`Storeback_proofs`): `RingMatchesFifo`, for buffers of any size and every
  interleaving.  The invariant `Ring` says where `tail` is, `head` plus the entry
  that is being taken plus the entries of the fifo, modulo the capacity; from it follow what
  `EntriesCounted` computes and that an appended tag never hits the slot of an
  entry (`ModApart`: fewer than capacity apart).  Assumed: `head` and `tail` start equal
  and in range (`PointersAgree`), which the code leaves to chance.
* **`CyclesAddUpCorrect`**, **`ResultCorrect`** (`Simulation_proofs`): budget, cycles under way and
  cycles reported are balanced at every stage (`Budget`), so the reported number
  is what the clock spent, and SIZE_MAX is reported exactly on an overrun.  Assumed: the
  budget is counted and `CountCap` is at least the budget, i.e. counts are exact.
* **`StatsCorrect`** (`Hierarchy_proofs`): `StatsTruthful`.  What `send_request()` reads at the end
  of a cycle is only right if no signal of an earlier request is still up and the caches
  stand where it takes them to stand.  The invariant `Handshake` says, while requests are
  served, how long each cache can wait (`Waits`), that the command from L1 to L2 is up
  exactly while L1 awaits its answer (`CommandUp`), that `done` and `hit` are up from the
  step that sets them to the first one after the next clock edge (`AnswerUp`, `DoneUp`,
  and `L2Withdraws`: the one delta cycle in which a withdrawn signal is still visible), and
  what the driver has seen of it so far (`Sampled`).  One lemma per action of the two
  caches, one for the delta cycle, one for the clock edge; memory and its commands
  only leave these signals alone.  The hard case is an L2 that answers in the cycle
  in which L1 looks: the order of the two threads is not fixed.
* **`WritesAreKept`** (`Hierarchy_proofs`): `NoWriteGivenUp`.  On top of `Handshake`,
  `CommandStands` (L2 sees the command it works on) and `CachesRest` (no command is left
  when the requests are over).
* **`CountersCorrect`** (`Simulation_proofs`): `CountersAgree`, from `Handshake`: the counters are
  a tally of the answered requests and `stats`, which is truthful for each
  (`Tally`, `Agreed`).
* **`EarlyFinishCorrect`** (`Storeback_proofs`): `EarlyFinishIsSafe`, for every configuration.
  `empty` is written by two threads and may be wrong while memory drains: `read()` looks at
  `tail` after an entry has left the fifo and before L2 has added the next.  The invariant says
  that memory is draining, or about to take the draining up again, whenever `write_underway`
  is set or a write is in flight (`Drains`), and that outside the draining `empty` means that
  nothing is left (`EmptyIsEmpty`).
* **`CommandsAreFresh`** (`Storeback_proofs`): `CommandsServedFresh`, for every configuration, with
  and without the buffers.  The invariant `Linked` adds to `Handshake` that each level works on
  the address of the request (`RequestPath`) and `Exchange`, how L2 and memory stand to each
  other: how long they can wait (`BothWait`), that a command is up while L2 works on it and
  that a withdrawn one which is still visible only ever meets a memory that does not start it
  again (`CommandShown`: the exception is a write to the buffer, which may start the draining
  twice, without harm), that memory works for an L2 that awaits it (`CommandServed`), from when
  to when `done` is visible (`AnswerShown`), and that L2 takes every line that memory puts
  (`LinesFetched`).  With a buffer memory drains between the commands, is interrupted by a
  read and comes back (`Interrupted`), may still be at its last prefetched line when L2 has
  long answered, and a read may look while the `done` of a finished draining is up: what of
  the handshake without a buffer survives that is this invariant.
* **`LinesAreKept`** (`Storeback_proofs`): `NoLineLost`, for every configuration.  `Room` counts the
  places of the fifo; one that L2 has just taken is only given back in the next delta cycle
  (`JustTaken`), and memory, a memory latency behind, puts into it after that (`PutHasRoom`).
* **`FlushIsComplete`** (`Storeback_proofs`): `FlushEmptiesBuffer`, for every configuration: a read
  miss that waits for the buffer goes on only when every write has reached memory.  L2 looks
  at nothing but `done`, which memory also raises for reads and for drainings that ended before.
  `WrittenBack` lists where both threads can be while `done` is up and a write is pending
  (`StillUp`): L2 rests after storing it, fetches lines, or looks no sooner than the next clock
  cycle, in which `done` is withdrawn before L2 sees it.
* **`BufferIsOneMemory`** (`Storeback_proofs`): `ImplementsBufferedMemory`, the refinement of
  `CoherentMemory` with the buffer in between, for a program that only writes (`OnlyWrites`, which
  the instance of `StorebackWrites` satisfies; with reads it is not true, `StaleRead` and
  `AbortedWrite` show how it breaks).  The memory a reader would be promised is
  `Settling`: for each address the last write that is on its way to memory, in the hands of
  memory or in the buffer, and what memory holds where there is none.  `Writing` adds to
  `Linked` that nobody has begun to read (`NothingRead`), that the data of the request is what
  L1, L2 and the buses carry (`WritePath`), and that from the moment L2 has put the write into
  the buffer `Settling` holds it (`WriteHolds`).  Two lemmas do the rest: appending an entry is
  one write to `Settling` (`AfterAppend`), and taking the oldest from the fifo into the hands of
  memory, or from there into memory, changes nothing (`AfterHead`).
* **`LatencyCorrect`** (`Latency_proofs`): `RequestLatency`, the sum of the latencies of the levels
  a request went through, for all latencies and numbers of prefetched lines, without a
  store-back buffer and where no request takes more cycles than `CountCap` (`WholeCount`).
  The invariant `Timeline` goes through the phases of a request (with L1; with L2; command to
  memory; memory at work; lines prefetched; answered) and says of each how many clock
  edges have passed, what every thread still waits for and, where two of them meet, how many
  delta cycles they are apart: an answer that L1 or L2 just misses costs a cycle, so the sum
  is only right if nobody ever looks one delta cycle early.
* **`Coherence_proofs`**, for every number of lines, latency and request sequence that satisfies
  `WriteThrough`: no store-back buffer (with one, `StaleRead` and
  `StorebackWrites` show what is lost), a line size that is a power of two (`LineIsPower`; the
  comment in `L1::update()` takes it for granted, `cache_l1.hpp:145`, and nothing in the program
  checks it: section 5), requests to the first word of a line
  (`PartialLine` shows what becomes of the others), and no line
  prefetched for a request falls on the L2 index of the request itself (`PrefetchOverwrites`
  shows that case).  The invariant `Whole` adds to `Handshake`:
  `MemoryHandshake`, how L2 and memory stand to each other while memory polls, works,
  answers and prefetches (`MemoryWaits`, `MemoryReady`, `MemoryCommandUp`, `MemoryDoneUp`) and
  that L2 takes what memory puts (`Prefetching`); `DataPath`, that each level works on
  the address and data of the request; and `Contents`, that copies, answers on the
  buses and prefetched lines are those of memory.  Its arithmetic is `SameLine`: index, tag
  and offset determine the address, which they do for powers of two only.
  * **`CopiesCoherent`**: `CopiesMatchMemory`.
  * **`CachesAreOneMemory`**: `ImplementsCoherentMemory`, the refinement.  Every step of
    `CPU_L1_L2` is one of `CoherentMemory` or a stutter (`NextMaps`): a write takes
    effect in `MemoryWrite`, the answer is given in `RequestAnswered`.
  * **`HitsOfWrites`**: `HitsTruthful`.  `HitsUp` says from when on each hit signal is that of the
    write under way.
  * **`WritesAlwaysReachMemory`**: `WritesReachMemory`, without a store-back buffer but with nothing
    else of `WriteThrough`: for requests inside a line and for every prefetching.  Reads may
    then get wrong words, so `Contents` is lost; what is left is `AllHandled`, the handshakes,
    the path of the command and its data through both caches, and `WriteAnswered`: from the
    moment memory raises `done` until `send_request()` sees it, the write is in memory.
    The property is stated with its theorem, and was checked with TLC on the requests of
    `PartialLine` with a prefetch buffer as large as that of `PrefetchOverwrites`.
* **`FileTypeCorrect`**, **`InputsCorrect`**, **`LastOptionCorrect`** (`RequestFile_proofs`): the parsers'
  variables keep their types, an accepted configuration satisfies `input_checker()` but for an L1
  latency of 0, and the last value of every option is the one used, for
  every command line and every width of an `int`.  `LastStored` is the invariant of the
  third: after `argument` arguments the configuration holds, for each name, the last value
  among these (`StoredHolds`, `StoredKeeps`: storing one option does not touch another).
* **`ArrayCorrect`**, **`AcceptanceCorrect`** (`RequestFile_proofs`): for every file.  The array suffices
  if the file ends with a newline and has no byte 0xFF, and always with `--num-requests`.  A file is
  accepted if it follows rules 1, 3 and 6 of `parse_csv()` and not otherwise, with two
  exceptions that `AcceptsWellFormedFiles` states.  A request of 0 is refused if there are
  rows, though these are enough for rule 6 (`csv_parser.c:30`).  And of a number that an `int` does not keep
  (not `NumberKept`) something else is looked for: with 2^32 + 1 asked for, a file with one
  row is accepted, if there is memory for the array.  Both are what the code does, against its comment.  The invariant
  `ReadersInv` ties what has been counted and what has been stored to the position: the
  count is the number of counted lines so far, `parsed` the number of rows so far, both
  cardinalities, with one lemma for a step of each (`CountedStep`, `RowsStep`);
  a row is always counted if the last line has its newline and no line a byte 0xFF
  (`RowsCounted`), and the narrowing of `--num-requests` only makes it smaller (`WantedBelow`), or
  leaves it as it is (`WantedIsAsked`).
* **`ExecutorCycles`** (`Executor_proofs`): `CyclesAddUp` and `ResultHonest` for whole runs of the
  program.  Every step of it is a step of `Simulation` or leaves that where it is
  (`ExecutorStep`), so `ExecutorSpec` implements `SimulationSpec` and the theorems of
  `Simulation_proofs` carry over.
* **`ExecutorCounters`** (`Executor_proofs`): `CountersAgree` and `StatsTruthful` for whole runs of
  the program, the same way.
* **`NothingIsLeftOut`** (`Executor_proofs`): for every file, generated ones included, a simulation that
  is not cut off has sent as many requests as were asked for, if an `int` keeps that number, and
  without `--num-requests` exactly the rows of the file, if it ends with a newline and has no byte
  0xFF.  On top of
  `ReadersInv` the invariant `WholeInv` says that the array holds requests below `parsed`
  and, once parsed, the marker there (`ArrayFilled`), and that the loop of
  `run_simulation()` has not passed it (`Sent`).
* **`RowsInOrder`** (`Executor_proofs`): `RequestsInFileOrder` for every file, also
  one that the two readers count differently.  `StoredInOrder` says of each element below
  `parsed` which row it is, by the number of rows before it; `SentInOrder`, that the loop of
  `run_simulation()` has not passed the marker.  Where the marker had to be written
  behind the array, the array is full of rows, so that the bound of the loop stops it.
* **`ExecutorParses`** (`Executor_proofs`): `FileTypeOK`, `ArraySuffices`, `AcceptsWellFormedFiles`,
  `InputsChecked` and `LastOptionWins` for whole runs of the program.  Its invariant `ProgramInv` is
  that of the parsers, with what the array holds and what has been sent of it, and with
  `NotStarted`: until the generator has ended and the program was started on one of its
  files, nothing is read or sent.  The last three theorems have the hypothesis `[]TypedFile`:
  the rows of the file are among the `Requests` of the instance.  `HandwrittenTyped` proves it of
  the files written by hand; of the generated ones it says that `Requests` and the address
  space are large enough for the matrices, which run `Executor` checks (`FileTypeOK`).

* **`MethodsMultiply`**, **`FilesAsAnalysed`** (`MatrixCsv_proofs`): `EveryMethodMultiplies` and
  `AccessesAsAnalysed`, for every matrix size and all operands.  `SumsAre` shows that the
  recursive function of the partial sums has the value its definition gives it, which lets
  the invariant speak of them: a function that adds in place has in each element the sum of
  as many products as have passed for it (`PartialSums`), one with a local sum has the whole
  sum where the innermost loop has ended (`WholeSums`), and `local` is the element or
  sum the remaining iterations need (`LocalKept`).  Which iterations have passed is the
  lexicographic order of the counters (`Passed`), and `PassedOfElement` is why six nestings
  of the loops come to one result: whatever the nesting, the products of an element are taken
  up in the order of k.  `Elements` and `OperandValues` need that create_csv() passes
  the arrays its functions index as transposed (`MethodTable`), `ResultApart` that no two
  elements share a place.  The file has `RowsSoFar` rows, which `IterationsStep` counts by the
  iterations of the inner loops, and a method that has ended keeps its file because no other
  has its name (`MethodNames`).
* **`ExecutorMultiplies`** (`Executor_proofs`): both for whole runs of the program.
* **`FilesHoldProduct`** (`MatrixCsv_proofs`): `FilesLeave`, what the rows of each finished file leave
  in a memory of zeros if they are carried out in their order (`Leaves`: the last row that
  writes to an address stores the value, or none does and it is zero).  At every moment a method
  has written to its file what it has stored in its array, so the file of a method that is
  passed the result leaves the product.  One that is passed the transposed result touches nothing
  of the result itself (`FileSpares`), and `c.csv` holds the product whichever of the
  three methods wrote it last, because all three transpose the same product.
* **`ProductSimulated`** (`Executor_proofs`): `SimulatedProduct`, the end of the chain: without a
  store-back buffer, a simulation of a generated file that is not cut off leaves the product in
  the simulated memory, for matrices of every size, every method, command line, line
  size and prefetching.  From `FilesLeave` the rows of the file, those of the
  transpositions before and behind it included, leave the product (`WorkloadHoldsProduct`); the
  parser stores exactly these rows in the array (`WorkloadRead`); between two requests memory is
  what the rows sent so far leave (`Replayed`, by `LeftBy`: of each address the last write
  to it), and each served request makes it that of one row more (`ServedWrites`, from the
  same `NextWrites` as `WritesAlwaysReachMemory`); a loop that ends has sent all.  Requests
  are single words at any place in a line of any size, so `WriteThrough` would not do.  Assumed: `Unbuffered`;
  memory starts as zeros that are the numbers the generator stores (`Zero = 0`); the six
  matrices fit into the address space (`MatricesFit`).  With a store-back buffer it does not hold for all
  configurations (`WritesLeftBehind`, `AbortedWrite`, `LostTrigger`); run `Executor` has a buffer of one
  entry and shows an instance in which it does.

`IInv` and `Ring` were first checked with TLC on the instances of `StorebackWrites` and
`Prefetch`, `Handshake` and what stands on it on those of `Plain`, `Prefetch`, `Storeback`,
`StaleRead` and `PartialLine`, `Exchange` and `WrittenBack` on buffers of 0 to 2 entries with 0 to
3 prefetched lines, with and without the conditional flush, `Writing` on those of `StorebackWrites`, `Whole` and `WriteThrough` on those of `Plain` and `Prefetch`,
`Timeline` on those two with 0 to 3 prefetched lines and several latencies, `GeneratorInv` on matrices of 1, 2 and 3 rows.

`SimulatedProduct` was checked on the instance of `Executor` without its buffer, with lines of one and of two words.

Only model-checked: liveness (`RequestsAnswered`, `MainEnds`), which is out of the provers' reach, and
`SimulatedProduct` with a store-back buffer, where it is not true of every configuration.  Every safety
invariant and action property of the passing runs is stated by a theorem.

## 5. Not modelled

* `get_gate_count()` is one closed formula over the configuration whose result is printed, and
  tracing is output of the library: neither changes the state of the hierarchy.  The
  printer, the build and smoke-test scripts, slides and examples hold no state either.
* `matrix.c` has the loops of `matrix_csv.c` once more, without the rows, to be timed.
* A latency of 0 passes the command line (`InputsChecked` has it as its one exception) and
  makes the threads wait for zero cycles: the simulation then hangs inside one
  clock cycle, whatever the budget.  `ConstantsAssumption` asks for latencies of at least 1.
* Line sizes that are no power of two are modelled, but not among the runs: with them the
  caches are not coherent.  The code shifts by the logarithm of the next lower power
  and masks with the size less one.  With lines of 12 bytes, the bytes 0 and 4 have the same
  tag, index and offset, and 12, the start of a line for memory, has the offset 8.  In TLC, with
  lines of three words and otherwise as `Plain`, `CopiesMatchMemory` and
  `ImplementsCoherentMemory` are violated, and the built program answers "write 12 = 1, read 12"
  with 0.  Line sizes that are no multiple of 4 are not modelled.
* Requests inside a word.  At the end of the address space a read stops at `UINT_MAX` with
  `address_u` on the last byte, so that a prefetch goes on one byte off; a line of words
  cannot hold what it then fetches.  The built program shows the effect ("write 4 = 5, read
  0xFFFFFFFC, read 0" with a prefetch buffer of 1 hits a wrong line in L2).
* Starting values of `head` and `tail` that differ: they describe entries that do not exist or
  index outside the vector.
* The SystemC library other than as above.  By lines it is most of this repository: its
  vendored headers are about 85 000 of the 89 000 lines, of which the simulator uses
  signals, waits, a clock and `sc_fifo`.  Numeric types, TLM, ports, processes the program
  has none of and tracing have no behaviour in it that a model could state, so the share of
  all lines that the definitions stand for stays small; of the program's own code every file
  with state is modelled.

## 6. Plan

1. *Done*: kernel, caches, memory, buffers, drivers, statistics; command line, request file,
   `main()`, generator; the runs above; type correctness, the ring, the handshake of the
   caches, the budget and the counters, the readers of the file, and that whole runs
   leave no row out.
2. *Next models*: addresses of bytes, for requests inside a word and at the end of the address
   space; the unconditional flush with reads after a full buffer.
3. *Done*: the handshake of L2 with memory, coherence and latencies for all geometries without a
   store-back buffer; the handshake of L2 with memory, the complete flush, the kept lines, the
   early end and the refinement for programs that only write with one.
4. *Done*: the generator for matrices of every size, its files, and whole runs of the program
   on them (`ProductSimulated`).
5. *Next proofs*: which geometries and latencies keep `SimulatedProduct` true with a store-back buffer.
