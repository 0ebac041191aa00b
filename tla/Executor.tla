----------------------------- MODULE Executor -----------------------------
(***************************************************************************)
(* The whole program, main() in executor.c: the command line (CommandLine)  *)
(* and the file are parsed into the configuration and the array of requests *)
(* (RequestFile), which run_simulation() then sends through the hierarchy   *)
(* (Simulation).  The file is written by hand or by the generator of the    *)
(* examples (MatrixCsv).                                                    *)
(***************************************************************************)
EXTENDS Simulation, RequestFile, MatrixCsv

executorVars == <<vars, simulationVars, parseVars, generatorVars>>

(* NumRequests, the bound of Simulation, is never reached: no array is longer. *)
ASSUME ExecutorAssumption ==
    /\ RowRequests \subseteq Requests
    /\ MaxElements <= NumRequests

(* The constants of the hierarchy are one configuration.  One that was      *)
(* accepted and is not this instance's is followed to the end of the parser. *)
OfThisInstance ==
    /\ config.cycles = Cycles
    /\ config.l1Lines = L1Lines /\ config.l2Lines = L2Lines
    /\ config.lineSize = 4 * LineWords
    /\ config.l1Latency = L1Latency /\ config.l2Latency = L2Latency
    /\ config.memoryLatency = MemoryLatency
    /\ config.prefetch = PrefetchLines /\ config.storeback = StorebackLines
    /\ config.condition = Conditional

-----------------------------------------------------------------------------
(* Where the file comes from.                                               *)

WrittenByHand ==
    /\ FileInit
    /\ heap = [x \in ArrayName |-> [e \in 0 .. Area - 1 |-> Garbage]]
    /\ csv = [f \in {} |-> <<>>]
    /\ next_method = 0
    /\ call = "none" /\ counter = [v \in {"i", "j", "k"} |-> 0] /\ local = 0

ToBeGenerated ==
    /\ GeneratorInit
    /\ CommandLineInit
    /\ phase = "generate"
    /\ file = [lines |-> <<>>, terminated |-> TRUE, readable |-> FALSE,
               eofByte |-> 0]
    /\ position = 0 /\ numRequests = 0
    /\ requests = <<>> /\ parsed = 0 /\ damaged = FALSE

ExecutorInit == SimulationInit /\ (WrittenByHand \/ ToBeGenerated)

create_csv ==
    /\ phase = "generate"
    /\ Generate
    /\ UNCHANGED <<vars, simulationVars, parseVars>>

(* The file of a method together with those of the transpositions it needs, *)
(* as the files under examples/ are put together.                           *)
Workload(m) ==
    LET needed(operand, name) ==
            IF operand \in PassedTransposed(m) THEN csv[name] ELSE <<>>
    IN needed("a", "a") \o needed("b", "b") \o csv[m.name]
           \o needed("result", "c")

RunOnWorkload ==
    /\ phase = "generate" /\ Generated
    /\ \E p \in DOMAIN Methods :
          LET rows == Workload(Methods[p])
          IN file' = [terminated |-> TRUE, readable |-> TRUE, eofByte |-> 0,
                      lines |-> [k \in DOMAIN rows |->
                                   [kind |-> "row", request |-> rows[k]]]]
    /\ phase' = "options"
    /\ UNCHANGED <<commandLineVars, position, numRequests, arrayVars,
                   vars, simulationVars, generatorVars>>

-----------------------------------------------------------------------------
Parse == start_parse /\ UNCHANGED <<vars, simulationVars, generatorVars>>

(* requests[i] of the loop in run_simulation().                             *)
NextElement == requests[served]

(* Whatever an element that was never set holds would be sent.              *)
SendNext ==
    /\ phase = "parsed" /\ OfThisInstance
    /\ served < numRequests
    /\ NextElement.kind # "end"
    /\ TakeRequest
    /\ NextElement.kind = "request" => request' = NextElement.request
    /\ UNCHANGED <<parseVars, generatorVars>>

(* A mistake: the last element of the array is not reached.                 *)
LeaveArrayEarly ==
    /\ phase = "parsed" /\ OfThisInstance
    /\ served + 1 = numRequests \/ NextElement.kind # "request"
    /\ LeaveLoop
    /\ UNCHANGED <<parseVars, generatorVars>>

(* The end of the array, or an element with we = -1.                        *)
LeaveArray ==
    /\ phase = "parsed" /\ OfThisInstance
    /\ served = numRequests \/ NextElement.kind # "request"
    /\ LeaveLoop
    /\ UNCHANGED <<parseVars, generatorVars>>

GoOn ==
    /\ phase = "parsed" /\ OfThisInstance
    /\ AddRequest \/ Overrun \/ AddMemoryCycles \/ SimulationGoesOn
    /\ UNCHANGED <<parseVars, generatorVars>>

Exited ==
    /\ \/ phase \in {"help", "refused", "failed", "aborted"}
       \/ phase = "parsed" /\ ~OfThisInstance
    /\ UNCHANGED executorVars

main == Parse \/ SendNext \/ LeaveArray \/ GoOn

ExecutorNext == create_csv \/ RunOnWorkload \/ main \/ Exited

ExecutorSpec == ExecutorInit /\ [][ExecutorNext]_executorVars

(* Once started, main() is a single process that nothing outside can stop;  *)
(* nobody is bound to write a file and start it.                            *)
FairExecutorSpec == ExecutorSpec /\ WF_executorVars(main)

-----------------------------------------------------------------------------
(* The simulated requests are the rows of the file, in their order: no line  *)
(* that is no request takes the place of one, and nothing that the parser    *)
(* did not store is sent (run_simulation(): "If req.we == -1, end            *)
(* simulation").                                                             *)
RequestsInFileOrder ==
    [][served' # served =>
          \E j \in 1 .. Len(file.lines) :
              /\ IsRow(file.lines[j]) /\ RowsUpTo(j) = served'
              /\ request' \in RowOf(file.lines[j])]_executorVars

(* A simulation that is not cut off has simulated as many rows as            *)
(* --num-requests asked for, if an int keeps that number, and without it     *)
(* every row, if the last line has its newline and no byte is 0xFF           *)
(* (parse_csv(), "The number of requests to be simulated" and "Read to the   *)
(* end of csv if false").                                                    *)
NothingLeftOut ==
    stage = "done" =>
        IF config.custom
        THEN NumberKept => served = config.numRequests
        ELSE file.terminated /\ file.eofByte = 0 =>
                 served = RowsUpTo(Len(file.lines))

(* Without --num-requests every row is simulated (parse_csv(): "Read to the  *)
(* end of csv if false").                                                    *)
EveryRowSimulated ==
    stage = "done" /\ ~config.custom => served = RowsUpTo(Len(file.lines))

(* The budget ends every run, even one in which a request is never answered  *)
(* (terminal_parser.c, "The number of cycles to be simulated").              *)
MainEnds ==
    phase # "generate" ~>
        \/ phase \in {"help", "refused", "failed", "aborted"}
        \/ phase = "parsed" /\ ~OfThisInstance
        \/ stage \in {"done", "exhausted", "unfinished"}

(* A generated file leaves the product of the two matrices where the method  *)
(* puts it, in the memory at the end of the simulation: no row is lost or    *)
(* swapped between create_csv(), the parser, the caches and the buffer, and  *)
(* a transposition of the result that a later method has written over the    *)
(* one of its own serves a method as well (examples/).                       *)
SimulatedProduct ==
    stage = "done" /\ Generated /\ ~config.custom =>
        \A i, j \in Position :
            memory_blocks[AddressOf("result", At(i, j))]
                = Product(heap["a"], heap["b"], i, j)
=============================================================================
