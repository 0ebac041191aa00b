-------------------------- MODULE Executor_proofs --------------------------
(***************************************************************************)
(* What holds for whole runs of the program, whatever file and command      *)
(* line they start from.                                                    *)
(***************************************************************************)
EXTENDS Executor, RequestFile_proofs, Simulation_proofs, MatrixCsv_proofs,
        Coherence_proofs

(* Every step of the program is one of run_simulation(), or leaves it where *)
(* it is.                                                                   *)
LEMMA ExecutorStep ==
    [ExecutorNext]_executorVars => [SimulationNext]_<<vars, simulationVars>>
<1> SUFFICES ASSUME [ExecutorNext]_executorVars
             PROVE  [SimulationNext]_<<vars, simulationVars>>
  OBVIOUS
<1>1. CASE create_csv \/ RunOnWorkload \/ Parse \/ Exited \/ UNCHANGED executorVars
  BY <1>1 DEF create_csv, RunOnWorkload, Parse, Exited, executorVars
<1>2. CASE SendNext \/ LeaveArray \/ GoOn
  BY <1>2 DEF SendNext, LeaveArray, GoOn, SimulationNext
<1>3. QED
  BY <1>1, <1>2 DEF ExecutorNext, main

LEMMA ExecutorSimulates == ExecutorSpec => SimulationSpec
<1>1. ExecutorInit => SimulationInit
  BY DEF ExecutorInit
<1>2. QED
  BY <1>1, ExecutorStep, PTL DEF ExecutorSpec, SimulationSpec

(* The cycles of the budget that were spent are the cycles the program      *)
(* counted, for every command line and file (executor.c, simulator.cpp).    *)
THEOREM ExecutorCycles ==
    ASSUME BudgetCounted
    PROVE  ExecutorSpec => [](CyclesAddUp /\ ResultHonest)
  BY ExecutorSimulates, CyclesAddUpCorrect, ResultCorrect, PTL

(* The hits and misses the program prints agree with each other, and the     *)
(* request statistics they are added from are truthful, likewise.           *)
THEOREM ExecutorCounters == ExecutorSpec => [](CountersAgree /\ StatsTruthful)
<1>1. SimulationSpec => Spec
  <2>1. SimulationInit => Init
    BY DEF SimulationInit
  <2>2. [SimulationNext]_<<vars, simulationVars>> => [Next]_vars
    BY SimulationStep
  <2>3. QED
    BY <2>1, <2>2, PTL DEF SimulationSpec, Spec
<1>2. QED
  BY <1>1, ExecutorSimulates, CountersCorrect, StatsCorrect, PTL

-----------------------------------------------------------------------------
(* Every row is simulated.                                                  *)

(* Once there is a file, a run of the program is one of the parser alone, as *)
(* far as the parser goes.                                                  *)
LEMMA ParserStep ==
    ASSUME phase # "generate", [ExecutorNext]_executorVars
    PROVE  [start_parse]_parseVars /\ phase' # "generate"
<1>1. CASE Parse
  BY <1>1 DEF Parse, start_parse, parse_user_input, ReadNumber, ReadWord,
              PassOver, RefuseArgument, print_help, CheckConfig, StartFile,
              CannotOpen, CountLine, LinesCounted, Allocate, SkipLine,
              RejectLine, ReadRow, TooFewRows, Parsed, Abort, NextIs,
              NextLineIs, LoopLeft
<1>2. CASE SendNext \/ LeaveArray \/ GoOn \/ Exited \/ UNCHANGED executorVars
  <2>1. UNCHANGED parseVars
    BY <1>2 DEF SendNext, LeaveArray, GoOn, Exited, executorVars
  <2>2. QED
    BY <2>1 DEF parseVars
<1>3. CASE create_csv \/ RunOnWorkload
  BY <1>3 DEF create_csv, RunOnWorkload
<1>4. QED
  BY <1>1, <1>2, <1>3 DEF ExecutorNext, main

(* The array of an accepted file: all its requests, then the marker.        *)
ArrayFilled ==
    /\ phase = "parse" =>
         \A i \in 0 .. parsed - 1 :
            i \in DOMAIN requests /\ requests[i].kind = "request"
    /\ phase = "parsed" =>
         /\ \A i \in 0 .. parsed - 1 :
               i \in DOMAIN requests /\ requests[i].kind = "request"
         /\ parsed \in DOMAIN requests /\ requests[parsed].kind = "end"
         /\ parsed = IF config.custom THEN Wanted
                                      ELSE RowsUpTo(Len(file.lines))

(* No more requests than the array holds have been sent, and all of them    *)
(* when the loop was left.                                                  *)
Sent ==
    /\ served \in Nat
    /\ phase \notin {"parsed", "aborted"} => served = 0 /\ stage = "idle"
    /\ phase = "parsed" =>
         /\ served <= parsed
         /\ stage \in {"probe", "finish", "done", "unfinished"} =>
               served = parsed
    /\ phase # "aborted"

Options == {"options", "help", "refused", "start"}
WholeInv ==
    /\ phase \in Options => served = 0 /\ stage = "idle"
    /\ WholeFile => ArrayFilled /\ Sent

(* parse_csv() fills the array from its start.                              *)
LEMMA ParseFills ==
    ASSUME ReadersInv, ReadersInv', WholeFile, WholeFile', ArrayFilled, start_parse
    PROVE  ArrayFilled'
<1>1. /\ parsed \in Nat /\ numRequests \in Nat
      /\ phase = "parse" => requests \in [0 .. numRequests -> Element]
      /\ FileTypeOK
  BY DEF ReadersInv, FileTypeOK
<1>2. CASE ReadRow
  <2>1. /\ phase = "parse" /\ phase' = "parse" /\ parsed' = parsed + 1
        /\ parsed \in DOMAIN requests
    BY <1>2, RoomForRow DEF ReadRow, NextLineIs, IsRow, WholeFile
  <2>2. PICK r : StoreElement(parsed, [kind |-> "request", request |-> r])
    BY <1>2 DEF ReadRow
  <2>3. requests' = [requests EXCEPT ![parsed] = [kind |-> "request", request |-> r]]
    BY <2>1, <2>2 DEF StoreElement
  <2>4. ASSUME NEW i \in 0 .. parsed
        PROVE  i \in DOMAIN requests' /\ requests'[i].kind = "request"
    <3>1. CASE i = parsed
      BY <2>1, <2>3, <3>1
    <3>2. CASE i # parsed
      <4>1. i \in 0 .. parsed - 1
        BY <1>1, <3>2
      <4>2. i \in DOMAIN requests /\ requests[i].kind = "request"
        BY <2>1, <4>1 DEF ArrayFilled
      <4>3. QED
        BY <2>3, <3>2, <4>2
    <3>3. QED
      BY <3>1, <3>2
  <2>5. parsed' - 1 = parsed
    BY <1>1, <2>1
  <2>6. QED
    BY <2>1, <2>4, <2>5 DEF ArrayFilled
<1>3. CASE Parsed
  <2>1. /\ phase = "parse" /\ phase' = "parsed" /\ parsed' = parsed
        /\ parsed \in DOMAIN requests /\ StoreElement(parsed, End)
        /\ UNCHANGED <<config, file, numRequests>>
    BY <1>3, RoomForMarker DEF Parsed, LoopLeft, WholeFile, commandLineVars
  <2>2. requests' = [requests EXCEPT ![parsed] = End]
    BY <2>1 DEF StoreElement
  <2>3. parsed \in DOMAIN requests' /\ requests'[parsed].kind = "end"
    BY <2>1, <2>2 DEF End
  <2>4. ASSUME NEW i \in 0 .. parsed - 1
        PROVE  i \in DOMAIN requests' /\ requests'[i].kind = "request"
    <3>1. i # parsed
      BY <1>1
    <3>2. i \in DOMAIN requests /\ requests[i].kind = "request"
      BY <2>1 DEF ArrayFilled
    <3>3. QED
      BY <2>2, <3>1, <3>2
  <2>5. parsed = IF config.custom THEN Wanted ELSE RowsUpTo(Len(file.lines))
    <3>1. CASE config.custom
      BY <1>3, <3>1 DEF Parsed
    <3>2. CASE ~config.custom
      BY <1>3, <2>1, <3>2 DEF Parsed, LoopLeft, Enough, ReadersInv, Readers
    <3>3. QED
      BY <3>1, <3>2
  <2>6. (IF config.custom THEN Wanted ELSE RowsUpTo(Len(file.lines)))'
          = IF config.custom THEN Wanted ELSE RowsUpTo(Len(file.lines))
    BY <2>1 DEF Wanted, RowsUpTo
  <2>7. QED
    BY <2>1, <2>3, <2>4, <2>5, <2>6 DEF ArrayFilled
<1>4. CASE Allocate
  <2>1. phase = "allocate" /\ parsed' = parsed /\ phase' \in {"parse", "failed"}
    BY <1>4 DEF Allocate
  <2>2. parsed = 0
    BY <2>1 DEF ReadersInv, Readers
  <2>3. 0 .. parsed' - 1 = {}
    BY <2>1, <2>2
  <2>4. QED
    BY <2>1, <2>3 DEF ArrayFilled
<1>5. CASE SkipLine
  <2>1. phase = "parse" /\ phase' = "parse" /\ UNCHANGED <<requests, parsed>>
    BY <1>5 DEF SkipLine, NextLineIs, arrayVars
  <2>2. QED
    BY <2>1 DEF ArrayFilled
<1>6. CASE \/ parse_user_input \/ StartFile \/ CannotOpen \/ CountLine
           \/ LinesCounted \/ RejectLine \/ TooFewRows
  <2>1. phase' \notin {"parse", "parsed"}
    BY <1>1, <1>6, CommandLineType
       DEF StartFile, CannotOpen, CountLine, LinesCounted, RejectLine,
           TooFewRows, FileTypeOK
  <2>2. QED
    BY <2>1 DEF ArrayFilled
<1>7. CASE Abort
  BY <1>7 DEF Abort, ReadersInv, ArraySuffices, WholeFile
<1>8. QED
  BY <1>2, <1>3, <1>4, <1>5, <1>6, <1>7 DEF start_parse

(* Before the array is complete nothing is sent.                            *)
LEMMA ParseSendsNothing ==
    ASSUME ReadersInv, ReadersInv', WholeFile, Sent, Parse
    PROVE  Sent'
<1>1. UNCHANGED <<served, stage>>
  BY DEF Parse, vars, driverVars, simulationVars
<1>2. phase \notin {"parsed", "aborted"} /\ phase' # "aborted"
  <2>1. ~Abort
    BY DEF Abort, ReadersInv, ArraySuffices, WholeFile
  <2>2. QED
    BY <2>1, CommandLineType
       DEF Parse, start_parse, StartFile, CannotOpen, CountLine, LinesCounted,
           Allocate, SkipLine, RejectLine, ReadRow, TooFewRows, Parsed,
           NextLineIs, LoopLeft, ReadersInv, FileTypeOK
<1>3. served = 0 /\ stage = "idle"
  BY <1>2 DEF Sent
<1>4. parsed' \in Nat
  BY DEF ReadersInv, FileTypeOK
<1>5. QED
  BY <1>1, <1>2, <1>3, <1>4 DEF Sent

(* The loop in run_simulation() stops at the marker, not before.            *)
LEMMA SimulationSends ==
    ASSUME ReadersInv, WholeFile, ArrayFilled, Sent, SendNext \/ LeaveArray \/ GoOn
    PROVE  Sent'
<1>1. /\ phase = "parsed" /\ phase' = "parsed" /\ parsed' = parsed
      /\ served \in Nat /\ parsed \in Nat /\ numRequests \in Nat
      /\ DOMAIN requests = 0 .. numRequests
      /\ parsed \in 0 .. numRequests /\ served <= parsed
      /\ served \in DOMAIN requests
      /\ served # parsed => requests[served].kind = "request"
      /\ requests[parsed].kind = "end"
  <2>1. phase = "parsed" /\ phase' = "parsed" /\ parsed' = parsed
    BY DEF SendNext, LeaveArray, GoOn, parseVars, fileVars, arrayVars
  <2>2. /\ parsed \in Nat /\ numRequests \in Nat /\ served \in Nat
        /\ DOMAIN requests = 0 .. numRequests
        /\ served <= parsed
    BY <2>1 DEF ReadersInv, FileTypeOK, Sent
  <2>3. /\ parsed \in 0 .. numRequests /\ requests[parsed].kind = "end"
        /\ \A i \in 0 .. parsed - 1 : requests[i].kind = "request"
    BY <2>1, <2>2 DEF ArrayFilled
  <2>4. served \in DOMAIN requests
        /\ (served # parsed => served \in 0 .. parsed - 1)
    BY <2>2, <2>3
  <2>5. QED
    BY <2>1, <2>2, <2>3, <2>4
<1>2. CASE SendNext
  <2>1. served' = served + 1 /\ stage' = "request" /\ served # parsed
    BY <1>1, <1>2 DEF SendNext, TakeRequest, SendRequest, NextElement
  <2>2. QED
    BY <1>1, <2>1 DEF Sent
<1>3. CASE LeaveArray
  <2>1. served' = served /\ served = parsed
    BY <1>1, <1>3 DEF LeaveArray, LeaveLoop, NextElement
  <2>2. QED
    BY <1>1, <2>1 DEF Sent
<1>4. CASE GoOn
  <2>1. served' = served
    BY <1>4 DEF GoOn, AddRequest, Overrun, AddMemoryCycles, SimulationGoesOn,
                simulationVars
  <2>2. CASE stage \in {"probe", "finish", "done", "unfinished"}
    BY <1>1, <2>1, <2>2 DEF Sent
  <2>3. CASE stage \notin {"probe", "finish", "done", "unfinished"}
    <3>1. stage' \notin {"probe", "finish", "done", "unfinished"}
      BY <1>4, <2>3
         DEF GoOn, AddRequest, RequestAnswered, Overrun, RequestExhausted,
             AddMemoryCycles, Finished, FinishLooks, FinishWaits,
             SimulationGoesOn, L1Step, L2Step, MemoryStep, Delta, StartCycle,
             RequestContinues, Stopped, vars, driverVars
    <3>2. QED
      BY <1>1, <2>1, <3>1 DEF Sent
  <2>4. QED
    BY <2>2, <2>3
<1>5. QED
  BY <1>2, <1>3, <1>4

(* Every step keeps the array filled and what was sent of it in order.      *)
LEMMA NextWhole ==
    ASSUME ReadersInv, ReadersInv', WholeInv, phase # "generate",
           [ExecutorNext]_executorVars
    PROVE  WholeInv'
<1>1. CASE Parse /\ parse_user_input
  <2>1. phase \in Options /\ phase' \in Options
        /\ UNCHANGED <<served, stage>>
    BY <1>1, CommandLineType
       DEF Options, Parse, ReadersInv, FileTypeOK, vars, driverVars,
           simulationVars
  <2>2. served' = 0 /\ stage' = "idle"
    BY <2>1 DEF WholeInv
  <2>3. ArrayFilled' /\ Sent'
    BY <2>1, <2>2 DEF Options, ArrayFilled, Sent
  <2>4. QED
    BY <2>2, <2>3 DEF WholeInv
<1>2. CASE Parse /\ ~parse_user_input
  <2>1. UNCHANGED <<config, file, served, stage>> /\ start_parse
        /\ phase' \notin Options
    BY <1>2 DEF Options, Parse, start_parse, StartFile, CannotOpen, CountLine,
                LinesCounted, Allocate, SkipLine, RejectLine, ReadRow,
                TooFewRows, Parsed, Abort, NextLineIs, LoopLeft,
                commandLineVars, fileVars, vars, driverVars, simulationVars
  <2>2. SUFFICES ASSUME WholeFile' PROVE ArrayFilled' /\ Sent'
    BY <2>1 DEF WholeInv
  <2>3. WholeFile
    BY <2>1, <2>2 DEF WholeFile
  <2>4. ArrayFilled /\ Sent
    BY <2>3 DEF WholeInv
  <2>5. QED
    BY <1>2, <2>1, <2>2, <2>3, <2>4, ParseFills, ParseSendsNothing
<1>3. CASE SendNext \/ LeaveArray \/ GoOn
  <2>1. phase = "parsed" /\ UNCHANGED parseVars
    BY <1>3 DEF SendNext, LeaveArray, GoOn
  <2>2. UNCHANGED <<config, phase, file, numRequests, requests, parsed>>
    BY <2>1 DEF parseVars, commandLineVars, fileVars, arrayVars
  <2>3. SUFFICES ASSUME WholeFile' PROVE ArrayFilled' /\ Sent'
    BY <2>1, <2>2 DEF Options, WholeInv
  <2>4. WholeFile
    BY <2>2, <2>3 DEF WholeFile
  <2>5. ArrayFilled /\ Sent
    BY <2>4 DEF WholeInv
  <2>6. ArrayFilled'
    BY <2>2, <2>5 DEF ArrayFilled, Wanted, RowsUpTo
  <2>7. QED
    BY <1>3, <2>4, <2>5, <2>6, SimulationSends
<1>4. CASE Exited \/ UNCHANGED executorVars
  <2>1. UNCHANGED <<config, phase, file, numRequests, requests, parsed>>
    BY <1>4 DEF Exited, executorVars, parseVars, commandLineVars, fileVars,
                arrayVars
  <2>2. UNCHANGED <<served, stage>>
    BY <1>4 DEF Exited, executorVars, vars, driverVars, simulationVars
  <2>3. QED
    BY <2>1, <2>2 DEF WholeInv, Options, WholeFile, ArrayFilled, Sent, Wanted, RowsUpTo
<1>5. CASE create_csv \/ RunOnWorkload
  BY <1>5 DEF create_csv, RunOnWorkload
<1>6. QED
  BY <1>1, <1>2, <1>3, <1>4, <1>5 DEF ExecutorNext, main

-----------------------------------------------------------------------------
(* The requests are the rows, in their order.                               *)

(* An element of the array is the row that as many rows stand before.       *)
RowStored(i) ==
    /\ requests[i].kind = "request"
    /\ \E j \in 1 .. Len(file.lines) :
          /\ IsRow(file.lines[j]) /\ RowsUpTo(j) = i + 1
          /\ requests[i].request \in RowOf(file.lines[j])

StoredInOrder ==
    phase \in {"parse", "parsed"} =>
        \A i \in 0 .. parsed - 1 : i \in DOMAIN requests => RowStored(i)

(* The loop of run_simulation() does not pass the marker; one that had to   *)
(* be written behind the array stops nothing, but then all of the array is  *)
(* rows.                                                                    *)
SentInOrder ==
    /\ served \in Nat
    /\ phase \notin {"parsed", "aborted"} => served = 0
    /\ phase = "parsed" /\ parsed \in DOMAIN requests =>
           served <= parsed /\ requests[parsed].kind = "end"

(* What parse_csv() stores is the row it has read.                          *)
LEMMA RowIsStored ==
    ASSUME ReadersInv, StoredInOrder, ReadRow
    PROVE  StoredInOrder'
<1>1. /\ phase = "parse" /\ phase' = "parse" /\ file' = file
      /\ parsed' = parsed + 1 /\ parsed \in Nat
      /\ position \in Nat /\ Len(file.lines) \in Nat
      /\ position < Len(file.lines)
      /\ DOMAIN requests = 0 .. numRequests
      /\ parsed = RowsUpTo(position)
  BY DEF ReadRow, NextLineIs, ReadersInv, Readers, FileTypeOK, File
<1>0. PICK j \in Nat : j = position + 1
  BY <1>1
<1>2. j \in 1 .. Len(file.lines) /\ IsRow(file.lines[j])
  BY <1>0, <1>1 DEF ReadRow, NextLineIs, IsRow
<1>3. RowsUpTo(j) = parsed + 1
  BY <1>0, <1>1, <1>2, RowsStep
<1>4. PICK r \in RowOf(file.lines[j]) :
           StoreElement(parsed, [kind |-> "request", request |-> r])
  BY <1>0 DEF ReadRow
<1>5. /\ DOMAIN requests' = DOMAIN requests
      /\ \A i \in DOMAIN requests :
            requests'[i] = IF i = parsed THEN [kind |-> "request", request |-> r]
                                         ELSE requests[i]
  BY <1>4 DEF StoreElement
<1>6. \A k : RowsUpTo(k)' = RowsUpTo(k)
  BY <1>1 DEF RowsUpTo
<1>7. SUFFICES ASSUME NEW i \in 0 .. parsed, i \in DOMAIN requests
               PROVE  RowStored(i)'
  <2>1. parsed' - 1 = parsed
    BY <1>1
  <2>2. QED
    BY <1>5, <2>1 DEF StoredInOrder
<1>8. CASE i = parsed
  <2>1. requests'[i] = [kind |-> "request", request |-> r]
    BY <1>5, <1>7, <1>8
  <2>2. requests'[i].kind = "request" /\ requests'[i].request = r
    BY <2>1
  <2>3. file'.lines = file.lines /\ RowsUpTo(j)' = i + 1
    BY <1>1, <1>3, <1>6, <1>8
  <2>4. r \in RowOf(file.lines[j])'
    BY <1>1, <1>4 DEF RowOf
  <2>5. QED
    BY <1>2, <2>2, <2>3, <2>4 DEF RowStored
<1>9. CASE i # parsed
  <2>1. i \in 0 .. parsed - 1
    BY <1>1, <1>9
  <2>2. RowStored(i)
    BY <1>1, <1>7, <2>1 DEF StoredInOrder
  <2>3. requests'[i] = requests[i]
    BY <1>5, <1>7, <1>9
  <2>4. QED
    BY <1>1, <1>6, <2>2, <2>3 DEF RowStored, RowOf
<1>10. QED
  BY <1>8, <1>9

(* No other step of the parser disturbs the rows of the array.              *)
LEMMA ParseStoresInOrder ==
    ASSUME ReadersInv, ReadersInv', StoredInOrder, start_parse
    PROVE  StoredInOrder'
<1>1. /\ parsed \in Nat /\ DOMAIN requests' = DOMAIN requests'
      /\ phase = "parse" => requests \in [0 .. numRequests -> Element]
      /\ FileTypeOK
  BY DEF ReadersInv, FileTypeOK
<1>2. CASE ReadRow
  BY <1>2, RowIsStored
<1>3. CASE Parsed
  <2>1. /\ phase = "parse" /\ phase' = "parsed" /\ parsed' = parsed
        /\ file' = file /\ StoreElement(parsed, End)
    BY <1>3 DEF Parsed, LoopLeft
  <2>2. /\ DOMAIN requests' = DOMAIN requests
        /\ \A i \in DOMAIN requests :
              i # parsed => requests'[i] = requests[i]
    BY <2>1 DEF StoreElement
  <2>3. \A k : RowsUpTo(k)' = RowsUpTo(k)
    BY <2>1 DEF RowsUpTo
  <2>4. SUFFICES ASSUME NEW i \in 0 .. parsed - 1, i \in DOMAIN requests
                 PROVE  RowStored(i)'
    BY <2>1, <2>2 DEF StoredInOrder
  <2>5. i # parsed /\ RowStored(i)
    BY <1>1, <2>1, <2>4 DEF StoredInOrder
  <2>6. requests'[i] = requests[i]
    BY <2>2, <2>4, <2>5
  <2>7. QED
    BY <2>1, <2>3, <2>5, <2>6 DEF RowStored, RowOf
<1>4. CASE Allocate
  <2>1. phase = "allocate" /\ parsed' = parsed /\ phase' \in {"parse", "failed"}
    BY <1>4 DEF Allocate
  <2>2. parsed = 0
    BY <2>1 DEF ReadersInv, Readers
  <2>3. 0 .. parsed' - 1 = {}
    BY <2>1, <2>2
  <2>4. QED
    BY <2>3 DEF StoredInOrder
<1>5. CASE SkipLine \/ Abort
  <2>1. phase \in {"parse", "parsed"} /\ UNCHANGED <<file, requests, parsed>>
    BY <1>5 DEF SkipLine, Abort, NextLineIs, fileVars, arrayVars
  <2>2. QED
    <3>1. \A k : RowsUpTo(k)' = RowsUpTo(k)
      BY <2>1 DEF RowsUpTo
    <3>2. \A i : RowStored(i)' = RowStored(i)
      BY <2>1, <3>1 DEF RowStored, RowOf
    <3>3. QED
      BY <2>1, <3>2 DEF StoredInOrder
<1>6. CASE \/ parse_user_input \/ StartFile \/ CannotOpen \/ CountLine
           \/ LinesCounted \/ RejectLine \/ TooFewRows
  <2>1. phase' \notin {"parse", "parsed"}
    BY <1>1, <1>6, CommandLineType
       DEF StartFile, CannotOpen, CountLine, LinesCounted, RejectLine,
           TooFewRows, FileTypeOK
  <2>2. QED
    BY <2>1 DEF StoredInOrder
<1>7. QED
  BY <1>2, <1>3, <1>4, <1>5, <1>6 DEF start_parse

(* The parser sends nothing and puts the marker behind the rows.            *)
LEMMA ParseKeepsSent ==
    ASSUME ReadersInv, ReadersInv', SentInOrder, Parse
    PROVE  SentInOrder'
<1>1. served' = served /\ parsed' \in Nat
  BY DEF Parse, vars, driverVars, simulationVars, ReadersInv, FileTypeOK
<1>2. CASE Abort
  <2>1. /\ damaged /\ phase \in {"parse", "parsed"}
        /\ phase' = "parsed" => phase = "parse"
        /\ UNCHANGED <<numRequests, requests, parsed>>
    BY <1>2 DEF Abort, fileVars, arrayVars
  <2>2. phase' = "parsed" => parsed \notin DOMAIN requests
    BY <2>1 DEF ReadersInv, Readers, FileTypeOK
  <2>3. phase' \notin {"parsed", "aborted"} => phase = "parse"
    BY <1>2 DEF Abort
  <2>4. QED
    BY <1>1, <2>1, <2>2, <2>3 DEF SentInOrder
<1>3. CASE Parsed
  <2>1. phase = "parse" /\ parsed' = parsed /\ StoreElement(parsed, End)
    BY <1>3 DEF Parsed, LoopLeft
  <2>2. parsed \in DOMAIN requests' => requests'[parsed].kind = "end"
    BY <2>1 DEF StoreElement, End
  <2>3. QED
    BY <1>1, <2>1, <2>2 DEF SentInOrder
<1>4. CASE ~Abort /\ ~Parsed
  <2>1. phase \notin {"parsed", "aborted"} /\ phase' \notin {"parsed", "aborted"}
    BY <1>4, CommandLineType
       DEF Parse, start_parse, StartFile, CannotOpen, CountLine, LinesCounted,
           Allocate, SkipLine, RejectLine, ReadRow, TooFewRows, NextLineIs,
           LoopLeft, ReadersInv, FileTypeOK
  <2>2. QED
    BY <1>1, <2>1 DEF SentInOrder
<1>5. QED
  BY <1>2, <1>3, <1>4

(* An element that is sent is one of the rows.                              *)
LEMMA NextIsRow ==
    ASSUME ReadersInv, StoredInOrder, SentInOrder, SendNext
    PROVE  /\ served' = served + 1
           /\ served \in DOMAIN requests /\ RowStored(served)
           /\ served < parsed
           /\ request' = requests[served].request
<1>1. /\ phase = "parsed" /\ served < numRequests
      /\ requests[served].kind # "end"
      /\ served' = served + 1 /\ served \in Nat
      /\ parsed \in Nat /\ numRequests \in Nat
      /\ DOMAIN requests = 0 .. numRequests
  BY DEF SendNext, TakeRequest, NextElement, SentInOrder, ReadersInv, FileTypeOK
<1>2. served < parsed
  <2>1. CASE parsed \in DOMAIN requests
    BY <1>1, <2>1 DEF SentInOrder
  <2>2. CASE parsed \notin DOMAIN requests
    BY <1>1, <2>2
  <2>3. QED
    BY <2>1, <2>2
<1>3. served \in DOMAIN requests /\ served \in 0 .. parsed - 1
  BY <1>1, <1>2
<1>4. RowStored(served)
  BY <1>1, <1>3 DEF StoredInOrder
<1>5. request' = requests[served].request
  BY <1>4 DEF RowStored, SendNext, NextElement
<1>6. QED
  BY <1>1, <1>2, <1>3, <1>4, <1>5

LEMMA NextInOrder ==
    ASSUME ReadersInv, ReadersInv', StoredInOrder, SentInOrder,
           phase # "generate", [ExecutorNext]_executorVars
    PROVE  StoredInOrder' /\ SentInOrder'
<1>1. CASE Parse
  BY <1>1, ParseStoresInOrder, ParseKeepsSent DEF Parse
<1>2. CASE SendNext \/ LeaveArray \/ GoOn \/ Exited \/ UNCHANGED executorVars
  <2>1. UNCHANGED <<config, phase, file, numRequests, requests, parsed>>
    BY <1>2 DEF SendNext, LeaveArray, GoOn, Exited, executorVars, parseVars,
                commandLineVars, fileVars, arrayVars
  <2>2. StoredInOrder'
    <3>1. \A k : RowsUpTo(k)' = RowsUpTo(k)
      BY <2>1 DEF RowsUpTo
    <3>2. \A i : RowStored(i)' = RowStored(i)
      BY <2>1, <3>1 DEF RowStored, RowOf
    <3>3. QED
      BY <2>1, <3>2 DEF StoredInOrder
  <2>3. CASE SendNext
    <3>1. served' = served + 1 /\ served < parsed /\ phase = "parsed"
      BY <2>3, NextIsRow DEF SendNext
    <3>2. parsed \in Nat /\ served \in Nat
      BY DEF ReadersInv, FileTypeOK, SentInOrder
    <3>3. QED
      BY <2>1, <2>2, <3>1, <3>2 DEF SentInOrder
  <2>4. CASE LeaveArray \/ GoOn \/ Exited \/ UNCHANGED executorVars
    <3>1. served' = served
      BY <2>4 DEF LeaveArray, LeaveLoop, GoOn, AddRequest, Overrun,
                  AddMemoryCycles, SimulationGoesOn, Exited, executorVars,
                  vars, driverVars, simulationVars
    <3>2. QED
      BY <2>1, <2>2, <3>1 DEF SentInOrder
  <2>5. QED
    BY <1>2, <2>3, <2>4
<1>3. CASE create_csv \/ RunOnWorkload
  BY <1>3 DEF create_csv, RunOnWorkload
<1>4. QED
  BY <1>1, <1>2, <1>3 DEF ExecutorNext, main

-----------------------------------------------------------------------------
(* Whole runs: the file may come from the generator first.                  *)

(* The rows of the file are requests of this instance: FileAssumption says  *)
(* so of files written by hand (HandwrittenTyped), FileTypeOK of every file  *)
(* a run of the model meets.                                                *)
TypedFile == file \in File

(* Before the file exists nothing is read and nothing is sent.              *)
NotStarted ==
    phase = "generate" =>
        /\ position = 0 /\ parsed = 0 /\ damaged = FALSE
        /\ served = 0 /\ stage = "idle"
ProgramInv ==
    /\ ReadersInv /\ ConfigChecked /\ LastStored
    /\ WholeInv /\ StoredInOrder /\ SentInOrder /\ NotStarted

LEMMA InitProgram ==
    ASSUME ExecutorInit, TypedFile
    PROVE  ProgramInv
<1>1. served = 0 /\ stage = "idle"
  BY DEF ExecutorInit, SimulationInit, Init
<1>2. CASE WrittenByHand
  <2>1. FileInit /\ phase = "options"
    BY <1>2 DEF WrittenByHand, FileInit
  <2>2. ReadersInv /\ ConfigChecked /\ LastStored
    BY <2>1, InitReaders
       DEF FileInit, CommandLineInit, ConfigChecked, LastStored, Accepted
  <2>3. WholeInv /\ StoredInOrder /\ SentInOrder /\ NotStarted
    BY <1>1, <2>1 DEF WholeInv, ArrayFilled, Sent, StoredInOrder, SentInOrder,
                      NotStarted
  <2>4. QED
    BY <2>2, <2>3 DEF ProgramInv
<1>3. CASE ToBeGenerated
  <2>1. /\ phase = "generate" /\ position = 0 /\ parsed = 0 /\ damaged = FALSE
        /\ numRequests = 0 /\ argument = 0 /\ arguments \in CommandLines
        /\ config = Defaults
    BY <1>3 DEF ToBeGenerated, CommandLineInit
  <2>2. config \in Config /\ ~config.custom /\ config.numRequests = 0
    <3>1. IntModulus \div 2 - 1 \in Int
      BY CommandLineAssumption
    <3>2. QED
      BY <2>1, <3>1 DEF Defaults, Config
  <2>3. CommandLineTypeOK
    <3>1. 0 \in 0 .. Len(arguments)
      BY <2>1, CommandLineAssumption, LenProperties
    <3>2. QED
      BY <2>1, <2>2, <3>1 DEF CommandLineTypeOK, Phase
  <2>4. FileTypeOK
    <3>1. Len(file.lines) \in Nat
      BY DEF TypedFile, File
    <3>2. position \in 0 .. Len(file.lines)
      BY <2>1, <3>1
    <3>3. damaged \in BOOLEAN
      BY <2>1, Zenon
    <3>4. numRequests \in Nat /\ parsed \in Nat
          /\ phase \notin {"parse", "parsed", "aborted"}
      BY <2>1
    <3>5. QED
      BY <2>3, <3>2, <3>3, <3>4 DEF TypedFile, FileTypeOK
  <2>5. ReadersInv
    BY <2>1, <2>2, <2>4
       DEF ReadersInv, Readers, Accepted, ArraySuffices, AcceptsWellFormedFiles
  <2>6. ConfigChecked /\ LastStored
    BY <2>1 DEF ConfigChecked, LastStored, Accepted
  <2>7. WholeInv /\ StoredInOrder /\ SentInOrder /\ NotStarted
    BY <1>1, <2>1 DEF WholeInv, Options, ArrayFilled, Sent, StoredInOrder,
                      SentInOrder, NotStarted
  <2>8. QED
    BY <2>5, <2>6, <2>7 DEF ProgramInv
<1>4. QED
  BY <1>2, <1>3 DEF ExecutorInit

(* The program starts on a generated file as on one written by hand.        *)
LEMMA RunKeepsProgram ==
    ASSUME ProgramInv, TypedFile', RunOnWorkload
    PROVE  ProgramInv'
<1>1. /\ phase = "generate" /\ phase' = "options"
      /\ position = 0 /\ parsed = 0 /\ damaged = FALSE /\ served = 0
      /\ stage = "idle"
  BY DEF RunOnWorkload, ProgramInv, NotStarted
<1>2. UNCHANGED <<arguments, argument, config, position, numRequests, requests,
                  parsed, damaged, served, stage>>
  BY DEF RunOnWorkload, commandLineVars, arrayVars, vars, driverVars,
         simulationVars
<1>3. FileTypeOK'
  <2>1. CommandLineTypeOK'
    BY <1>1, <1>2 DEF ProgramInv, ReadersInv, FileTypeOK, CommandLineTypeOK, Phase
  <2>2. Len(file'.lines) \in Nat
    BY DEF TypedFile, File
  <2>3. position' \in 0 .. Len(file'.lines)
    BY <1>1, <1>2, <2>2
  <2>4. numRequests' \in Nat /\ parsed' \in Nat /\ damaged' \in BOOLEAN
    BY <1>2 DEF ProgramInv, ReadersInv, FileTypeOK
  <2>5. QED
    BY <1>1, <2>1, <2>3, <2>4 DEF FileTypeOK, TypedFile
<1>4. ReadersInv'
  <2>1. ~config'.custom => config'.numRequests = 0
    BY <1>2 DEF ProgramInv, ReadersInv, Readers
  <2>2. Readers'
    BY <1>1, <1>2, <2>1 DEF Readers, Accepted
  <2>3. QED
    BY <1>1, <1>2, <1>3, <2>2
       DEF ReadersInv, ArraySuffices, AcceptsWellFormedFiles
<1>5. ConfigChecked' /\ LastStored'
  <2>1. ~Accepted'
    BY <1>1 DEF Accepted
  <2>2. LastStored
    BY DEF ProgramInv
  <2>3. QED
    BY <1>2, <2>1, <2>2
       DEF ConfigChecked, LastStored, LastUpTo, IsNumber, Holds
<1>6. WholeInv' /\ StoredInOrder' /\ SentInOrder' /\ NotStarted'
  BY <1>1, <1>2 DEF WholeInv, ArrayFilled, Sent, StoredInOrder, SentInOrder,
                    NotStarted
<1>7. QED
  BY <1>4, <1>5, <1>6 DEF ProgramInv

LEMMA NextProgram ==
    ASSUME ProgramInv, TypedFile', [ExecutorNext]_executorVars
    PROVE  ProgramInv'
<1>1. CASE phase # "generate"
  <2>1. [start_parse]_parseVars /\ phase' # "generate"
    BY <1>1, ParserStep
  <2>2. FileTypeOK /\ ReadersInv'
    BY <2>1, NextReaders DEF ProgramInv, ReadersInv
  <2>3. ConfigChecked' /\ LastStored'
    BY <2>1, <2>2, NextConfigChecked, NextLastStored DEF ProgramInv
  <2>4. WholeInv' /\ StoredInOrder' /\ SentInOrder'
    BY <1>1, <2>2, NextWhole, NextInOrder DEF ProgramInv
  <2>5. QED
    BY <2>1, <2>2, <2>3, <2>4 DEF ProgramInv, NotStarted
<1>2. CASE RunOnWorkload
  BY <1>2, RunKeepsProgram
<1>3. CASE phase = "generate" /\ ~RunOnWorkload
  <2>1. UNCHANGED <<vars, simulationVars, parseVars>>
    <3>1. ~start_parse
      BY <1>3, CommandLineType
         DEF ProgramInv, ReadersInv, FileTypeOK, start_parse, StartFile,
             CannotOpen, CountLine, LinesCounted, Allocate, SkipLine,
             RejectLine, ReadRow, TooFewRows, Parsed, Abort, NextLineIs, LoopLeft
    <3>2. QED
      BY <1>3, <3>1 DEF ExecutorNext, create_csv, main, Parse, SendNext,
                        LeaveArray, GoOn, Exited, executorVars
  <2>2. UNCHANGED <<phase, position, parsed, damaged, served, stage>>
    BY <2>1 DEF parseVars, fileVars, arrayVars, vars, driverVars, simulationVars
  <2>3. FileTypeOK /\ ReadersInv' /\ ConfigChecked' /\ LastStored'
    BY <2>1, NextReaders, NextConfigChecked, NextLastStored
       DEF ProgramInv, ReadersInv
  <2>4. NotStarted'
    BY <2>2 DEF ProgramInv, NotStarted
  <2>5. WholeInv' /\ StoredInOrder' /\ SentInOrder'
    BY <1>3, <2>2, <2>4 DEF WholeInv, Options, ArrayFilled, Sent, StoredInOrder,
                            SentInOrder, NotStarted
  <2>6. QED
    BY <2>3, <2>4, <2>5 DEF ProgramInv
<1>4. QED
  BY <1>1, <1>2, <1>3

LEMMA ProgramCorrect == ExecutorSpec /\ []TypedFile => []ProgramInv
<1>1. ExecutorInit /\ TypedFile => ProgramInv
  BY InitProgram
<1>2. ProgramInv /\ TypedFile' /\ [ExecutorNext]_executorVars => ProgramInv'
  BY NextProgram
<1>3. QED
  BY <1>1, <1>2, PTL DEF ExecutorSpec

(* What is proved of the parsers alone holds in whole runs of the program:  *)
(* nothing is written behind the array of a file whose lines have all been  *)
(* counted, files are accepted as the rules in parse_csv() demand, with the *)
(* exceptions AcceptsWellFormedFiles names, and the configuration that      *)
(* run_simulation() gets is a checked one with the last value of every      *)
(* option.                                                                  *)
THEOREM ExecutorParses ==
    ExecutorSpec /\ []TypedFile
        => [](/\ FileTypeOK /\ ArraySuffices /\ AcceptsWellFormedFiles
              /\ InputsChecked /\ LastOptionWins)
<1>1. ProgramInv => FileTypeOK /\ ArraySuffices /\ AcceptsWellFormedFiles
  BY DEF ProgramInv, ReadersInv
<1>2. ProgramInv => InputsChecked /\ LastOptionWins
  BY CheckedIsValid, StoredIsLast DEF ProgramInv, ReadersInv
<1>3. QED
  BY <1>1, <1>2, ProgramCorrect, PTL

(* A simulation that is not cut off has simulated as many rows as           *)
(* --num-requests asked for, if an int keeps that number, and without it    *)
(* every row of its file, if that ends with a newline and has no byte 0xFF, *)
(* generated or written by hand, for every command line and every           *)
(* configuration.                                                           *)
THEOREM NothingIsLeftOut ==
    ExecutorSpec /\ []TypedFile => []NothingLeftOut
<1>1. ProgramInv => NothingLeftOut
  <2> SUFFICES ASSUME ProgramInv, stage = "done", WholeFile
               PROVE  IF config.custom
                      THEN NumberKept => served = config.numRequests
                      ELSE served = RowsUpTo(Len(file.lines))
    BY DEF NothingLeftOut, WholeFile
  <2>1. phase = "parsed" /\ served = parsed
    BY DEF ProgramInv, WholeInv, Sent
  <2>2. parsed = IF config.custom THEN Wanted ELSE RowsUpTo(Len(file.lines))
    BY <2>1 DEF ProgramInv, WholeInv, ArrayFilled
  <2>3. config.custom => numRequests = config.numRequests
    BY <2>1 DEF ProgramInv, ReadersInv, Readers, Accepted
  <2>4. QED
    BY <2>1, <2>2, <2>3 DEF NumberKept, Wanted
<1>2. QED
  BY <1>1, ProgramCorrect, PTL

(* Every request that is sent is the next row of its file: none is left out, *)
(* repeated or taken from a line that is no request, whatever the readers    *)
(* disagree about, for every file, generated or written by hand, every       *)
(* command line and every configuration.                                     *)
THEOREM RowsInOrder ==
    ExecutorSpec /\ []TypedFile => RequestsInFileOrder
<1> DEFINE A == served' # served =>
                  \E j \in 1 .. Len(file.lines) :
                      /\ IsRow(file.lines[j]) /\ RowsUpTo(j) = served'
                      /\ request' \in RowOf(file.lines[j])
<1>1. ProgramInv /\ [ExecutorNext]_executorVars => [A]_executorVars
  <2> SUFFICES ASSUME ProgramInv, ExecutorNext, served' # served
               PROVE  \E j \in 1 .. Len(file.lines) :
                         /\ IsRow(file.lines[j]) /\ RowsUpTo(j) = served'
                         /\ request' \in RowOf(file.lines[j])
    OBVIOUS
  <2>1. SendNext
    BY DEF ExecutorNext, create_csv, RunOnWorkload, main, Parse, LeaveArray,
           LeaveLoop, GoOn, AddRequest, Overrun, AddMemoryCycles,
           SimulationGoesOn, Exited, executorVars, vars, driverVars,
           simulationVars
  <2>2. QED
    BY <2>1, NextIsRow DEF ProgramInv, RowStored
<1>2. QED
  BY <1>1, ProgramCorrect, PTL DEF ExecutorSpec, RequestsInFileOrder

(* A file that was written by hand has such rows.                           *)
LEMMA HandwrittenTyped ==
    SimulationInit /\ WrittenByHand /\ [][ExecutorNext]_executorVars
        => ExecutorSpec /\ []TypedFile
<1> DEFINE I == TypedFile /\ phase # "generate"
<1>1. SimulationInit /\ WrittenByHand => ExecutorInit /\ I
  BY FileAssumption
     DEF ExecutorInit, WrittenByHand, FileInit, TypedFile
<1>2. I /\ [ExecutorNext]_executorVars => I'
  <2> SUFFICES ASSUME I, [ExecutorNext]_executorVars PROVE I'
    OBVIOUS
  <2>1. [start_parse]_parseVars /\ phase' # "generate"
    BY ParserStep
  <2>2. file' = file
    BY <2>1 DEF start_parse, fileVars, StartFile, CannotOpen, CountLine,
                LinesCounted, Allocate, SkipLine, RejectLine, ReadRow,
                TooFewRows, Parsed, Abort, parseVars
  <2>3. QED
    BY <2>1, <2>2 DEF TypedFile
<1>3. QED
  BY <1>1, <1>2, PTL DEF ExecutorSpec

-----------------------------------------------------------------------------
(* The generator inside the program: the invariant of MatrixCsv, unless the *)
(* file was written by hand and the generator never runs.                   *)

NoGenerator == phase # "generate" /\ next_method = 0 /\ call = "none"

LEMMA ExecutorGenerates ==
    ASSUME GeneratorInv \/ NoGenerator, [ExecutorNext]_executorVars
    PROVE  GeneratorInv' \/ NoGenerator'
<1>1. [Generate]_generatorVars
  BY DEF ExecutorNext, create_csv, RunOnWorkload, main, Parse, SendNext,
         LeaveArray, GoOn, Exited, executorVars
<1>2. CASE GeneratorInv
  BY <1>1, <1>2, GeneratorKeeps
<1>3. CASE NoGenerator
  <2>1. phase' # "generate"
    BY <1>3, ParserStep DEF NoGenerator
  <2>2. UNCHANGED generatorVars
    BY <1>3 DEF NoGenerator, ExecutorNext, create_csv, RunOnWorkload, main,
                Parse, SendNext, LeaveArray, GoOn, Exited, executorVars
  <2>3. QED
    BY <1>3, <2>1, <2>2 DEF NoGenerator, generatorVars
<1>4. QED
  BY <1>2, <1>3

(* Every method multiplies and writes the rows of the analysis in whole      *)
(* runs of the program, for matrices of every size.                         *)
THEOREM ExecutorMultiplies ==
    ExecutorSpec => [](EveryMethodMultiplies /\ AccessesAsAnalysed)
<1>1. ExecutorInit => GeneratorInv \/ NoGenerator
  BY GeneratorBegins
     DEF ExecutorInit, WrittenByHand, ToBeGenerated, NoGenerator, FileInit,
         CommandLineInit
<1>2. (GeneratorInv \/ NoGenerator) /\ [ExecutorNext]_executorVars
        => (GeneratorInv \/ NoGenerator)'
  BY ExecutorGenerates
<1>3. GeneratorInv \/ NoGenerator => EveryMethodMultiplies /\ AccessesAsAnalysed
  <2>1. GeneratorInv => EveryMethodMultiplies /\ AccessesAsAnalysed
    BY FilesAreAnalysed DEF GeneratorInv
  <2>2. ASSUME NoGenerator PROVE EveryMethodMultiplies /\ AccessesAsAnalysed
    <3>1. \A p \in DOMAIN Methods : ~(p < next_method)
      BY <2>2, MethodCount DEF NoGenerator
    <3>2. QED
      BY <2>2, <3>1 DEF NoGenerator, EveryMethodMultiplies, AccessesAsAnalysed
  <2>3. QED
    BY <2>1, <2>2
<1>4. QED
  BY <1>1, <1>2, <1>3, PTL DEF ExecutorSpec

-----------------------------------------------------------------------------
(* Generated files: what a method stores is what is in the memory at the    *)
(* end.                                                                     *)

LEMMA LeavesLater ==
    ASSUME NEW S, NEW s \in Seq(S), NEW t \in Seq(S), NEW a, NEW v,
           Untouched(s, a), Leaves(t, a, v)
    PROVE  Leaves(s \o t, a, v)
<1>1. CASE LastStores(t, a, v)
  BY <1>1, LeavesJoined DEF Leaves
<1>2. CASE v = 0 /\ Untouched(t, a)
  BY <1>2, LeavesJoined DEF Leaves
<1>3. QED
  BY <1>1, <1>2 DEF Leaves

(* The files that are put together for a method: those of the operands do   *)
(* not touch the result.                                                    *)
LEMMA WorkloadHoldsProduct ==
    ASSUME Generated, GeneratorInv, FilesLeave, NEW p \in DOMAIN Methods
    PROVE  /\ Workload(Methods[p]) \in Seq(AccessRow)
           /\ \A i, j \in Position :
                 Leaves(Workload(Methods[p]), AddressOf("result", At(i, j)),
                        Product(heap["a"], heap["b"], i, j))
<1> DEFINE R == AccessRow
<1>1. PICK m : m = Methods[p]
  OBVIOUS
<1>2. /\ call = "none" /\ p < next_method
      /\ \A f \in {"a", "b"} : f \in DOMAIN csv /\ FileSpares(f, "result")
  <2>1. call = "none" /\ next_method > 17 /\ p \in 1 .. 17
    BY MethodCount DEF Generated
  <2>2. next_method \in 0 .. 18
    BY DEF GeneratorInv, GeneratorTypes
  <2>3. QED
    BY <2>1, <2>2 DEF FilesLeave
<1>3. /\ m.name \in DOMAIN csv
      /\ IF "result" \in PassedTransposed(m)
         THEN "c" \in DOMAIN csv /\ FileSpares(m.name, "result") /\ FileProduct("c")
         ELSE FileProduct(m.name)
  <2>1. m.name \in DOMAIN csv
    BY <1>1, <1>2 DEF GeneratorInv, FilesWhole
  <2>2. IF ResultArray(m) = "result"
        THEN FileProduct(m.name)
        ELSE "c" \in DOMAIN csv /\ FileSpares(m.name, "result")
    BY <1>1, <1>2 DEF FilesLeave
  <2>3. "c" \in DOMAIN csv => FileProduct("c")
    BY <1>2 DEF FilesLeave
  <2>4. QED
    BY <2>1, <2>2, <2>3 DEF ResultArray
<1>4. \A f \in DOMAIN csv : csv[f] \in Seq(R)
  BY DEF GeneratorInv, GeneratorTypes, FilesType
<1>5. <<>> \in Seq(R) /\ \A a : Untouched(<<>>, a)
  BY DEF Untouched
<1>6. PICK ra \in Seq(R) :
         /\ ra = IF "a" \in PassedTransposed(m) THEN csv["a"] ELSE <<>>
         /\ \A l \in 0 .. Area - 1 : Untouched(ra, AddressOf("result", l))
  BY <1>2, <1>4, <1>5 DEF FileSpares
<1>7. PICK rb \in Seq(R) :
         /\ rb = IF "b" \in PassedTransposed(m) THEN csv["b"] ELSE <<>>
         /\ \A l \in 0 .. Area - 1 : Untouched(rb, AddressOf("result", l))
  BY <1>2, <1>4, <1>5 DEF FileSpares
<1>8. PICK rm \in Seq(R) : rm = csv[m.name]
  BY <1>3, <1>4
<1>9. PICK rc \in Seq(R) :
         rc = IF "result" \in PassedTransposed(m) THEN csv["c"] ELSE <<>>
  BY <1>3, <1>4, <1>5
<1>10. PICK w : w = ((ra \o rb) \o rm) \o rc /\ w = Workload(m)
  BY <1>6, <1>7, <1>8, <1>9 DEF Workload
<1>11. PICK rab \in Seq(R) : rab = ra \o rb
  BY ConcatProperties
<1>12. PICK rabm \in Seq(R) : rabm = rab \o rm
  BY ConcatProperties
<1>13. w = rabm \o rc /\ w \in Seq(R)
  BY <1>10, <1>11, <1>12, ConcatProperties
<1>14. ASSUME NEW i \in Position, NEW j \in Position
       PROVE  Leaves(w, AddressOf("result", At(i, j)),
                     Product(heap["a"], heap["b"], i, j))
  <2>1. PICK a : a = AddressOf("result", At(i, j))
    OBVIOUS
  <2>2. PICK v : v = Product(heap["a"], heap["b"], i, j)
    OBVIOUS
  <2>3. At(i, j) \in 0 .. Area - 1
    BY AtRange
  <2>4. Untouched(ra, a) /\ Untouched(rb, a)
    BY <1>6, <1>7, <2>1, <2>3
  <2>5. Untouched(rab, a)
    BY <1>11, <2>4, LeavesJoined
  <2>6. CASE "result" \in PassedTransposed(m)
    <3>1. Untouched(rm, a) /\ Leaves(rc, a, v)
      BY <1>3, <1>8, <1>9, <2>1, <2>2, <2>3, <2>6 DEF FileSpares, FileProduct
    <3>2. Untouched(rabm, a)
      BY <1>12, <2>5, <3>1, LeavesJoined
    <3>3. Leaves(w, a, v)
      BY <1>13, <3>1, <3>2, LeavesLater
    <3>4. QED
      BY <2>1, <2>2, <3>3
  <2>7. CASE "result" \notin PassedTransposed(m)
    <3>1. Leaves(rm, a, v) /\ Untouched(rc, a)
      BY <1>3, <1>5, <1>8, <1>9, <2>1, <2>2, <2>7 DEF FileProduct
    <3>2. Leaves(rabm, a, v)
      BY <1>12, <2>5, <3>1, LeavesLater
    <3>3. Leaves(w, a, v)
      BY <1>13, <3>1, <3>2, LeavesJoined
    <3>4. QED
      BY <2>1, <2>2, <3>3
  <2>8. QED
    BY <2>6, <2>7
<1>15. QED
  BY <1>1, <1>10, <1>13, <1>14

(* A generated file, and what its lines stand for.                          *)
Rows == [k \in DOMAIN file.lines |-> file.lines[k].request]
WorkloadFile ==
    /\ file.terminated /\ file.readable /\ file.eofByte = 0
    /\ file.lines \in Seq([kind : {"row"}, request : AccessRow])
    /\ \A i, j \in Position :
          Leaves(Rows, AddressOf("result", At(i, j)),
                 Product(heap["a"], heap["b"], i, j))

(* Both readers find every line of such a file to be a request; before it is *)
(* opened nothing is counted or stored.                                      *)
OptionsRead ==
    phase \in Options \cup {"generate"} =>
        /\ position = 0 /\ parsed = 0 /\ damaged = FALSE
        /\ ~config.custom => config.numRequests = 0
RowsRead ==
    LET all == Len(file.lines)
    IN /\ damaged = FALSE /\ phase # "aborted"
       /\ phase = "count" =>
             position \in 0 .. all /\ numRequests = position /\ parsed = 0
       /\ phase = "allocate" =>
             position = 0 /\ numRequests = all /\ parsed = 0
       /\ phase \in {"parse", "parsed"} =>
             /\ numRequests = all /\ parsed \in 0 .. all /\ position = parsed
             /\ DOMAIN requests = 0 .. all
             /\ \A i \in 0 .. parsed - 1 :
                   requests[i] = [kind |-> "request", request |-> Rows[i + 1]]
       /\ phase = "parsed" => parsed = all
WorkloadRead ==
    /\ CommandLineTypeOK /\ OptionsRead
    /\ ~config.custom /\ phase \notin Options \cup {"generate"} => RowsRead

LEMMA LinesOfWorkload ==
    ASSUME WorkloadFile
    PROVE  /\ Len(file.lines) \in Nat
           /\ DOMAIN file.lines = 1 .. Len(file.lines)
           /\ \A k \in 1 .. Len(file.lines) : file.lines[k].kind = "row"
<1>1. PICK S : S = [kind : {"row"}, request : AccessRow]
  OBVIOUS
<1>2. file.lines \in Seq(S)
  BY <1>1 DEF WorkloadFile
<1>3. /\ Len(file.lines) \in Nat
      /\ file.lines \in [1 .. Len(file.lines) -> S]
      /\ DOMAIN file.lines = 1 .. Len(file.lines)
  BY <1>2, LenProperties
<1>4. \A e \in S : e.kind = "row"
  BY <1>1
<1>5. QED
  BY <1>3, <1>4

LEMMA OptionsOfWorkload ==
    ASSUME CommandLineTypeOK, OptionsRead, parse_user_input, UNCHANGED fileVars
    PROVE  WorkloadRead'
<1>1. /\ CommandLineTypeOK' /\ phase = "options"
      /\ phase' \in {"options", "help", "refused", "start"}
  BY CommandLineType
<1>2. UNCHANGED <<position, parsed, damaged>>
  BY DEF fileVars, arrayVars
<1>3. ~config'.custom => config'.numRequests = 0
  <2>1. ~config.custom => config.numRequests = 0
    BY <1>1 DEF OptionsRead, Options
  <2>2. CASE ReadNumber
    <3>1. /\ NextArgument.kind = "number" /\ argument < Len(arguments)
          /\ config' = Stored(config, NextArgument.name, NextArgument.value)
      BY <2>2 DEF ReadNumber, NextIs
    <3>2. config \in Config
      BY DEF CommandLineTypeOK
    <3>3. ~config'.custom => ~config.custom /\ config'.numRequests = config.numRequests
      BY <3>1, <3>2, NextArgumentType, StoredType
    <3>4. QED
      BY <2>1, <3>3
  <2>3. CASE ~ReadNumber
    <3>1. /\ config'.custom = config.custom
          /\ config'.numRequests = config.numRequests
      BY <2>3
         DEF parse_user_input, ReadWord, PassOver, RefuseArgument, print_help,
             CheckConfig, commandLineVars, CommandLineTypeOK, Config
    <3>2. QED
      BY <2>1, <3>1
  <2>4. QED
    BY <2>2, <2>3
<1>4. OptionsRead'
  BY <1>1, <1>2, <1>3 DEF OptionsRead, Options
<1>5. phase' \in Options \cup {"generate"}
  BY <1>1 DEF Options
<1>6. QED
  BY <1>1, <1>4, <1>5 DEF WorkloadRead

LEMMA RowOfWorkload ==
    ASSUME WorkloadFile, RowsRead, ~config.custom, ReadRow
    PROVE  RowsRead'
<1>1. PICK N \in Nat : N = Len(file.lines)
  BY LinesOfWorkload
<1>2. /\ DOMAIN file.lines = 1 .. N
      /\ \A k \in 1 .. N : file.lines[k].kind = "row"
  BY <1>1, LinesOfWorkload
<1>3. /\ phase = "parse" /\ phase' = phase /\ position < N
      /\ parsed' = parsed + 1 /\ position' = position + 1
      /\ file' = file /\ numRequests' = numRequests
  BY <1>1 DEF ReadRow, NextLineIs
<1>4. /\ numRequests = N /\ parsed \in 0 .. N /\ position = parsed
      /\ DOMAIN requests = 0 .. N /\ damaged = FALSE
      /\ \A i \in 0 .. parsed - 1 :
            requests[i] = [kind |-> "request", request |-> Rows[i + 1]]
  BY <1>1, <1>3 DEF RowsRead
<1>5. parsed \in Nat /\ parsed < N /\ parsed + 1 \in 1 .. N /\ parsed \in 0 .. N
  BY <1>3, <1>4
<1>6. RowOf(file.lines[parsed + 1]) = {Rows[parsed + 1]}
  BY <1>2, <1>5 DEF RowOf, Rows
<1>7. StoreElement(parsed, [kind |-> "request", request |-> Rows[parsed + 1]])
  BY <1>4, <1>6 DEF ReadRow
<1>8. /\ damaged' = damaged
      /\ requests' = [requests EXCEPT
                        ![parsed] = [kind |-> "request", request |-> Rows[parsed + 1]]]
  BY <1>4, <1>5, <1>7 DEF StoreElement
<1>9. Rows' = Rows
  BY <1>3 DEF Rows
<1>10. ASSUME NEW i \in 0 .. parsed
       PROVE  requests'[i] = [kind |-> "request", request |-> Rows[i + 1]]
  <2>1. i \in DOMAIN requests
    BY <1>4, <1>5
  <2>2. CASE i = parsed
    BY <1>8, <2>1, <2>2
  <2>3. CASE i # parsed
    <3>1. i \in 0 .. parsed - 1
      BY <1>5, <2>3
    <3>2. QED
      BY <1>4, <1>8, <2>1, <2>3, <3>1
  <2>4. QED
    BY <2>2, <2>3
<1>11. DOMAIN requests' = 0 .. N
  BY <1>4, <1>8
<1>12. parsed' \in 0 .. N /\ position' = parsed' /\ parsed' - 1 = parsed
  BY <1>3, <1>4, <1>5
<1>13. Len(file'.lines) = N
  BY <1>1, <1>3
<1>14. \A i \in 0 .. parsed' - 1 :
          requests'[i] = [kind |-> "request", request |-> Rows'[i + 1]]
  BY <1>9, <1>10, <1>12
<1>15. QED
  BY <1>3, <1>4, <1>8, <1>11, <1>12, <1>13, <1>14 DEF RowsRead

(* The parser reads a generated file as it was written.                     *)
LEMMA ParseOfWorkload ==
    ASSUME WorkloadFile, WorkloadRead, phase # "generate", start_parse
    PROVE  WorkloadRead'
<1>1. CASE parse_user_input /\ UNCHANGED fileVars
  BY <1>1, OptionsOfWorkload DEF WorkloadRead
<1>2. CASE \/ StartFile \/ CannotOpen \/ CountLine \/ LinesCounted \/ Allocate
           \/ SkipLine \/ RejectLine \/ ReadRow \/ TooFewRows \/ Parsed \/ Abort
  <2>1. UNCHANGED <<arguments, argument, config, file>>
        /\ phase' \in Phase \ (Options \cup {"generate"})
    BY <1>2 DEF StartFile, CannotOpen, CountLine, LinesCounted, Allocate,
                SkipLine, RejectLine, ReadRow, TooFewRows, Parsed, Abort,
                NextLineIs, LoopLeft, commandLineVars, fileVars, Options, Phase
  <2>2. CommandLineTypeOK' /\ OptionsRead'
    BY <2>1 DEF WorkloadRead, CommandLineTypeOK, OptionsRead
  <2>3. SUFFICES ASSUME ~config.custom PROVE RowsRead'
    BY <2>1, <2>2 DEF WorkloadRead
  <2>4. PICK N \in Nat : N = Len(file.lines)
    BY LinesOfWorkload
  <2>5. /\ DOMAIN file.lines = 1 .. N
        /\ \A k \in 1 .. N : file.lines[k].kind = "row"
    BY <2>4, LinesOfWorkload
  <2>6. Len(file'.lines) = N /\ Rows' = Rows
    BY <2>1, <2>4 DEF Rows
  <2>7. phase # "start" => RowsRead
    BY <1>2, <2>3
       DEF WorkloadRead, StartFile, CannotOpen, CountLine, LinesCounted, Allocate,
           SkipLine, RejectLine, ReadRow, TooFewRows, Parsed, Abort,
           NextLineIs, LoopLeft, Options
  <2>8. CASE StartFile
    <3>1. /\ position = 0 /\ parsed = 0 /\ damaged = FALSE
          /\ config.numRequests = 0 /\ phase' = "count"
      BY <2>3, <2>8 DEF StartFile, WorkloadRead, OptionsRead, Options
    <3>2. /\ position' = 0 /\ parsed' = 0 /\ damaged' = FALSE
          /\ numRequests' = 0
      BY <2>8, <3>1 DEF StartFile, arrayVars
    <3>3. QED
      BY <2>4, <2>6, <3>1, <3>2 DEF RowsRead
  <2>9. CASE CannotOpen
    BY <2>9 DEF CannotOpen, WorkloadFile
  <2>10. CASE CountLine
    <3>1. /\ phase = "count" /\ phase' = "count" /\ position < N
          /\ position' = position + 1 /\ UNCHANGED <<parsed, damaged>>
      BY <2>4, <2>10 DEF CountLine, arrayVars
    <3>2. /\ position \in 0 .. N /\ numRequests = position /\ parsed = 0
          /\ damaged = FALSE
      BY <2>4, <2>7, <3>1 DEF RowsRead
    <3>3. position + 1 \in 1 .. N /\ position + 1 \in 0 .. N
      BY <3>1, <3>2
    <3>4. Counted(position + 1)
      BY <2>5, <3>3 DEF Counted, Ended, ReadsOn, WorkloadFile
    <3>5. numRequests' = position'
      BY <2>10, <3>1, <3>2, <3>4 DEF CountLine
    <3>6. QED
      BY <2>6, <3>1, <3>2, <3>3, <3>5 DEF RowsRead
  <2>11. CASE LinesCounted
    <3>1. /\ phase = "count" /\ phase' = "allocate" /\ position = N
          /\ position' = 0 /\ UNCHANGED <<numRequests, parsed, damaged>>
      BY <2>4, <2>11 DEF LinesCounted, ReadsOn, WorkloadFile, arrayVars
    <3>2. numRequests = N /\ parsed = 0 /\ damaged = FALSE
      BY <2>4, <2>7, <3>1 DEF RowsRead
    <3>3. QED
      BY <2>6, <3>1, <3>2 DEF RowsRead
  <2>12. CASE Allocate
    <3>1. /\ phase = "allocate" /\ phase' \in {"parse", "failed"}
          /\ phase' = "parse" => requests' = [i \in 0 .. numRequests |-> Unset]
          /\ UNCHANGED <<position, numRequests, parsed, damaged>>
      BY <2>12 DEF Allocate
    <3>2. numRequests = N /\ parsed = 0 /\ damaged = FALSE /\ position = 0
      BY <2>4, <2>7, <3>1 DEF RowsRead
    <3>3. CASE phase' = "parse"
      <4>1. DOMAIN requests' = 0 .. N /\ 0 .. parsed' - 1 = {}
        BY <3>1, <3>2, <3>3
      <4>2. QED
        BY <2>4, <2>6, <3>1, <3>2, <3>3, <4>1 DEF RowsRead
    <3>4. CASE phase' = "failed"
      BY <2>6, <3>1, <3>2, <3>4 DEF RowsRead
    <3>5. QED
      BY <3>1, <3>3, <3>4
  <2>13. CASE SkipLine \/ RejectLine
    <3>1. /\ phase = "parse" /\ position < N
          /\ file.lines[position + 1].kind \in {"empty", "ignored", "malformed"}
      BY <2>4, <2>13 DEF SkipLine, RejectLine, NextLineIs
    <3>2. position \in 0 .. N
      BY <2>4, <2>7, <3>1 DEF RowsRead
    <3>3. position + 1 \in 1 .. N
      BY <3>1, <3>2
    <3>4. QED
      BY <2>5, <3>1, <3>3
  <2>14. CASE ReadRow
    BY <2>3, <2>7, <2>14, RowOfWorkload DEF ReadRow, NextLineIs
  <2>15. CASE TooFewRows
    BY <2>3, <2>15 DEF TooFewRows
  <2>16. CASE Parsed
    <3>1. /\ phase = "parse" /\ phase' = "parsed" /\ position = N
          /\ UNCHANGED <<position, numRequests, parsed>>
          /\ StoreElement(parsed, End)
      BY <2>3, <2>4, <2>16 DEF Parsed, LoopLeft, Enough
    <3>2. /\ numRequests = N /\ parsed = N /\ damaged = FALSE
          /\ DOMAIN requests = 0 .. N
          /\ \A i \in 0 .. N - 1 :
                requests[i] = [kind |-> "request", request |-> Rows[i + 1]]
      BY <2>4, <2>7, <3>1 DEF RowsRead
    <3>3. N \in DOMAIN requests /\ N \in 0 .. N
      BY <3>2
    <3>4. damaged' = FALSE /\ requests' = [requests EXCEPT ![N] = End]
      BY <3>1, <3>2, <3>3 DEF StoreElement
    <3>5. ASSUME NEW i \in 0 .. N - 1
          PROVE  requests'[i] = [kind |-> "request", request |-> Rows[i + 1]]
      <4>1. i \in 0 .. N /\ i # N
        OBVIOUS
      <4>2. QED
        BY <3>2, <3>4, <4>1
    <3>6. /\ DOMAIN requests' = 0 .. N
          /\ \A i \in 0 .. N - 1 :
                requests'[i] = [kind |-> "request", request |-> Rows'[i + 1]]
      BY <2>6, <3>2, <3>4, <3>5
    <3>7. parsed' = N /\ position' = N /\ numRequests' = N
      BY <3>1, <3>2
    <3>8. QED
      BY <2>6, <3>1, <3>3, <3>4, <3>6, <3>7 DEF RowsRead
  <2>17. CASE Abort
    BY <2>7, <2>17 DEF Abort, RowsRead
  <2>18. QED
    BY <1>2, <2>8, <2>9, <2>10, <2>11, <2>12, <2>13, <2>14, <2>15, <2>16, <2>17
<1>3. QED
  BY <1>1, <1>2 DEF start_parse

LEMMA WorkloadWritten ==
    ASSUME GeneratorInv, FilesLeave, CommandLineTypeOK, OptionsRead, RunOnWorkload
    PROVE  WorkloadFile' /\ WorkloadRead'
<1>0. PICK R : R = [kind : {"row"}, request : AccessRow]
  OBVIOUS
<1>1. PICK p \in DOMAIN Methods :
        file' = [terminated |-> TRUE, readable |-> TRUE, eofByte |-> 0,
                 lines |-> [k \in DOMAIN Workload(Methods[p]) |->
                    [kind |-> "row", request |-> Workload(Methods[p])[k]]]]
  BY DEF RunOnWorkload
<1>2. PICK rows \in Seq(AccessRow) :
         /\ rows = Workload(Methods[p])
         /\ \A i, j \in Position :
               Leaves(rows, AddressOf("result", At(i, j)),
                      Product(heap["a"], heap["b"], i, j))
  BY WorkloadHoldsProduct DEF RunOnWorkload
<1>3. PICK n \in Nat : n = Len(rows) /\ DOMAIN rows = 1 .. n
                       /\ rows \in [1 .. n -> AccessRow]
  BY LenProperties
<1>4. file'.terminated /\ file'.readable /\ file'.eofByte = 0
      /\ file'.lines = [k \in 1 .. n |-> [kind |-> "row", request |-> rows[k]]]
  BY <1>1, <1>2, <1>3
<1>5. file'.lines \in [1 .. n -> R]
  BY <1>0, <1>3, <1>4
<1>6. file'.lines \in Seq(R)
  BY <1>5
<1>7. Rows' = rows
  <2>1. Rows' = [k \in 1 .. n |-> rows[k]]
    BY <1>4 DEF Rows
  <2>2. QED
    BY <1>3, <2>1
<1>8. heap' = heap /\ UNCHANGED <<arguments, argument, config, position, parsed, damaged>>
      /\ phase = "generate" /\ phase' = "options"
  BY DEF RunOnWorkload, generatorVars, commandLineVars, arrayVars
<1>9. WorkloadFile'
  <2>1. \A i, j \in Position :
           Leaves(Rows, AddressOf("result", At(i, j)),
                  Product(heap["a"], heap["b"], i, j))'
    BY <1>2, <1>7, <1>8
  <2>2. QED
    BY <1>0, <1>4, <1>6, <2>1 DEF WorkloadFile
<1>10. WorkloadRead'
  <2>1. phase' \in Phase /\ phase' \in Options
    BY <1>8 DEF Options, Phase
  <2>2. CommandLineTypeOK'
    BY <1>8, <2>1 DEF CommandLineTypeOK
  <2>3. OptionsRead'
    BY <1>8 DEF OptionsRead
  <2>4. QED
    BY <2>1, <2>2, <2>3 DEF WorkloadRead
<1>11. QED
  BY <1>9, <1>10

(* What the first n rows leave at an address that held 0.                   *)
LeftBy(n, a, v) ==
    \/ v = 0 /\ \A k \in 1 .. n : ~Writes(Rows[k], a)
    \/ \E k \in 1 .. n :
          /\ Writes(Rows[k], a) /\ Rows[k].data = v
          /\ \A l \in k + 1 .. n : ~Writes(Rows[l], a)

LEMMA LeftByNext ==
    ASSUME NEW n \in Nat, NEW m \in Nat, m = n + 1, NEW a, NEW v
    PROVE  /\ Writes(Rows[m], a) /\ Rows[m].data = v => LeftBy(m, a, v)
           /\ ~Writes(Rows[m], a) /\ LeftBy(n, a, v) => LeftBy(m, a, v)
<1>1. \A k \in 1 .. m : k \in 1 .. n \/ k = m
  OBVIOUS
<1>2. m \in 1 .. m /\ m + 1 .. m = {} /\ \A k \in 1 .. n : k \in 1 .. m
  OBVIOUS
<1>3. ASSUME Writes(Rows[m], a), Rows[m].data = v
      PROVE  LeftBy(m, a, v)
  <2>1. \A l \in m + 1 .. m : ~Writes(Rows[l], a)
    BY <1>2
  <2>2. QED
    BY <1>2, <1>3, <2>1 DEF LeftBy
<1>4. ASSUME ~Writes(Rows[m], a), LeftBy(n, a, v)
      PROVE  LeftBy(m, a, v)
  <2>1. CASE v = 0 /\ \A k \in 1 .. n : ~Writes(Rows[k], a)
    <3>1. \A k \in 1 .. m : ~Writes(Rows[k], a)
      BY <1>1, <1>4, <2>1
    <3>2. QED
      BY <2>1, <3>1 DEF LeftBy
  <2>2. CASE \E k \in 1 .. n :
                /\ Writes(Rows[k], a) /\ Rows[k].data = v
                /\ \A l \in k + 1 .. n : ~Writes(Rows[l], a)
    <3>1. PICK k \in 1 .. n :
             /\ Writes(Rows[k], a) /\ Rows[k].data = v
             /\ \A l \in k + 1 .. n : ~Writes(Rows[l], a)
      BY <2>2
    <3>2. \A l \in k + 1 .. m : l \in k + 1 .. n \/ l = m
      OBVIOUS
    <3>3. \A l \in k + 1 .. m : ~Writes(Rows[l], a)
      BY <1>4, <3>1, <3>2
    <3>4. k \in 1 .. m
      BY <1>2
    <3>5. QED
      BY <3>1, <3>3, <3>4 DEF LeftBy
  <2>3. QED
    BY <1>4, <2>1, <2>2 DEF LeftBy
<1>5. QED
  BY <1>3, <1>4

(* There is one last row that stores.                                       *)
LEMMA LeftByAll ==
    ASSUME WorkloadFile, NEW n \in Nat, n = Len(file.lines), NEW a, NEW v, NEW w,
           LeftBy(n, a, v), Leaves(Rows, a, w)
    PROVE  v = w
<1>1. DOMAIN Rows = 1 .. n
  BY LinesOfWorkload DEF Rows
<1>2. CASE w = 0 /\ Untouched(Rows, a)
  <2>1. \A k \in 1 .. n : ~Writes(Rows[k], a)
    BY <1>1, <1>2 DEF Untouched
  <2>2. QED
    BY <1>2, <2>1 DEF LeftBy
<1>3. CASE LastStores(Rows, a, w)
  <2>1. PICK j \in 1 .. n :
           /\ Writes(Rows[j], a) /\ Rows[j].data = w
           /\ \A l \in 1 .. n : l > j => ~Writes(Rows[l], a)
    BY <1>1, <1>3 DEF LastStores
  <2>2. PICK k \in 1 .. n :
           /\ Writes(Rows[k], a) /\ Rows[k].data = v
           /\ \A l \in k + 1 .. n : ~Writes(Rows[l], a)
    BY <2>1 DEF LeftBy
  <2>3. ~(j > k)
    <3>1. j > k => j \in k + 1 .. n
      OBVIOUS
    <3>2. QED
      BY <2>1, <2>2, <3>1
  <2>4. ~(k > j)
    BY <2>1, <2>2
  <2>5. j = k
    BY <2>3, <2>4
  <2>6. QED
    BY <2>1, <2>2, <2>5
<1>4. QED
  BY <1>2, <1>3 DEF Leaves

-----------------------------------------------------------------------------
(* The simulation of a generated file.                                      *)

NothingSent == served = 0 /\ stage = "idle" /\ \A a \in Address : memory_blocks[a] = 0

(* The memory is what the rows that were answered leave; the row that is    *)
(* being served may have stored already.                                    *)
Replayed ==
    LET all == Len(file.lines)
    IN /\ served \in 0 .. all
       /\ stage \notin {"request", "exhausted"} =>
             \A a \in Address : LeftBy(served, a, memory_blocks[a])
       /\ stage = "request" =>
             /\ served # 0 /\ request = Rows[served]
             /\ \A a \in Address :
                   \/ LeftBy(served - 1, a, memory_blocks[a])
                   \/ Writes(request, a) /\ memory_blocks[a] = request.data
       /\ stage \in {"probe", "finish", "done", "unfinished"} => served = all

(* A row is sent only when the one before it has been answered.             *)
LEMMA SendReplays ==
    ASSUME WorkloadFile, RowsRead, Replayed, SendNext
    PROVE  Replayed'
<1>1. PICK N \in Nat : N = Len(file.lines)
  BY LinesOfWorkload
<1>2. /\ phase = "parsed" /\ stage = "idle" /\ stage' = "request"
      /\ served < numRequests /\ served' = served + 1
      /\ memory_blocks' = memory_blocks /\ file' = file
  BY DEF SendNext, TakeRequest, SendRequest, moduleVars, parseVars, fileVars
<1>3. /\ served \in 0 .. N /\ numRequests = N /\ parsed = N
      /\ \A i \in 0 .. N - 1 :
            requests[i] = [kind |-> "request", request |-> Rows[i + 1]]
      /\ \A a \in Address : LeftBy(served, a, memory_blocks[a])
  BY <1>1, <1>2 DEF RowsRead, Replayed
<1>4. served \in 0 .. N - 1 /\ served' \in 0 .. N /\ served' # 0
      /\ served' - 1 = served
  BY <1>2, <1>3
<1>5. requests[served] = [kind |-> "request", request |-> Rows[served + 1]]
  BY <1>3, <1>4
<1>6. request' = Rows[served']
  BY <1>2, <1>5 DEF SendNext, NextElement
<1>7. Rows' = Rows /\ Len(file'.lines) = N
  BY <1>1, <1>2 DEF Rows
<1>8. \A a \in Address : LeftBy(served - 1, a, memory_blocks[a])'
  BY <1>2, <1>3, <1>4, <1>7 DEF LeftBy
<1>9. QED
  BY <1>2, <1>4, <1>6, <1>7, <1>8 DEF Replayed

(* How run_simulation() goes on with what was sent.                         *)
LEMMA GoOnStages ==
    ASSUME GoOn
    PROVE  /\ phase = "parsed" /\ served' = served /\ file' = file
           /\ stage' = "request" => stage = "request" /\ request' = request
           /\ stage = "request" => stage' \in {"request", "idle", "exhausted"}
           /\ stage = "exhausted" => stage' = "exhausted"
           /\ stage' \in {"probe", "finish", "done", "unfinished"} =>
                 stage \in {"probe", "finish", "done", "unfinished"}
<1>1. phase = "parsed" /\ file' = file
  BY DEF GoOn, parseVars, fileVars
<1>2. CASE AddRequest
  BY <1>1, <1>2 DEF AddRequest, RequestAnswered
<1>3. CASE Overrun
  BY <1>1, <1>3 DEF Overrun, RequestExhausted, FinishWaits, FinishLooks
<1>4. CASE AddMemoryCycles
  BY <1>1, <1>4 DEF AddMemoryCycles, Finished, FinishLooks
<1>5. CASE SimulationGoesOn
  <2>1. served' = served
    BY <1>5 DEF SimulationGoesOn, simulationVars
  <2>2. CASE FinishWaits /\ stage' = "finish"
    BY <1>1, <2>1, <2>2 DEF FinishWaits, FinishLooks
  <2>3. CASE ~(FinishWaits /\ stage' = "finish")
    <3>1. stage' = stage /\ request' = request
      BY <1>5, <2>3
         DEF SimulationGoesOn, L1Step, L2Step, MemoryStep, Delta, StartCycle,
             RequestContinues, Stopped, vars, driverVars
    <3>2. QED
      BY <1>1, <1>5, <2>1, <2>3, <3>1
         DEF SimulationGoesOn
  <2>4. QED
    BY <2>2, <2>3
<1>6. QED
  BY <1>2, <1>3, <1>4, <1>5 DEF GoOn

(* The cells that were written are those of the request that is served.     *)
LEMMA ServedWrites ==
    ASSUME Unbuffered, AllHandled, GoOn, stage = "request", stage' = "request",
           NEW a \in Address
    PROVE  \/ memory_blocks'[a] = memory_blocks[a]
           \/ Writes(request, a) /\ memory_blocks'[a] = request.data
<1>1. [Next]_vars
  BY SimulationStep DEF GoOn, SimulationNext
<1>2. CASE memory_blocks' = memory_blocks
  BY <1>2
<1>3. CASE /\ request.we
           /\ memory_blocks' = [memory_blocks EXCEPT ![request.addr] = request.data]
  <2>1. a \in DOMAIN memory_blocks
    BY DEF AllHandled, IInv, TypeOK, MemoryTypeOK
  <2>2. CASE a = request.addr
    BY <1>3, <2>1, <2>2 DEF Writes
  <2>3. CASE a # request.addr
    BY <1>3, <2>1, <2>3
  <2>4. QED
    BY <2>2, <2>3
<1>4. QED
  BY <1>1, <1>2, <1>3, NextWrites

LEMMA GoOnReplays ==
    ASSUME Unbuffered, AllHandled, WorkloadFile, Replayed, GoOn
    PROVE  Replayed'
<1>1. PICK N \in Nat : N = Len(file.lines)
  BY LinesOfWorkload
<1>2. /\ served' = served /\ Rows' = Rows /\ Len(file'.lines) = N
      /\ served \in 0 .. N
  BY <1>1, GoOnStages DEF Rows, Replayed
<1>3. \A n, a, v : LeftBy(n, a, v)' <=> LeftBy(n, a, v)
  BY <1>2 DEF LeftBy
<1>4. [Next]_vars
  BY SimulationStep DEF GoOn, SimulationNext
<1>5. stage' \in {"probe", "finish", "done", "unfinished"} => served' = N
  BY <1>1, <1>2, GoOnStages DEF Replayed
<1>6. CASE stage = "request" /\ stage' = "request"
  <2>1. request' = request /\ served # 0 /\ request = Rows[served]
    BY <1>6, GoOnStages DEF Replayed
  <2>2. ASSUME NEW a \in Address
        PROVE  \/ LeftBy(served - 1, a, memory_blocks'[a])
               \/ Writes(request, a) /\ memory_blocks'[a] = request.data
    <3>1. \/ LeftBy(served - 1, a, memory_blocks[a])
          \/ Writes(request, a) /\ memory_blocks[a] = request.data
      BY <1>6 DEF Replayed
    <3>2. \/ memory_blocks'[a] = memory_blocks[a]
          \/ Writes(request, a) /\ memory_blocks'[a] = request.data
      BY <1>6, ServedWrites
    <3>3. QED
      BY <3>1, <3>2
  <2>3. \A a \in Address :
           \/ LeftBy(served - 1, a, memory_blocks[a])'
           \/ (Writes(request, a) /\ memory_blocks[a] = request.data)'
    BY <1>2, <2>1, <2>2 DEF LeftBy
  <2>4. QED
    BY <1>2, <1>6, <2>1, <2>3 DEF Replayed
<1>7. CASE stage = "request" /\ stage' = "idle"
  <2>1. memory_blocks' = memory_blocks
        /\ (request.we => memory_blocks[request.addr] = request.data)
    BY <1>4, <1>7, NextWrites DEF Written
  <2>2. PICK n \in Nat : served = n + 1 /\ n = served - 1
    BY <1>2, <1>7 DEF Replayed
  <2>3. ASSUME NEW a \in Address
        PROVE  LeftBy(served, a, memory_blocks[a])
    <3>1. /\ request = Rows[served]
          /\ \/ LeftBy(n, a, memory_blocks[a])
             \/ Writes(request, a) /\ memory_blocks[a] = request.data
      BY <1>7, <2>2 DEF Replayed
    <3>2. Writes(request, a) => memory_blocks[a] = request.data
      BY <2>1 DEF Writes
    <3>3. served \in Nat
      BY <1>2
    <3>4. QED
      BY <2>2, <3>1, <3>2, <3>3, LeftByNext
  <2>4. \A a \in Address : LeftBy(served, a, memory_blocks[a])'
    BY <1>2, <2>1, <2>3 DEF LeftBy
  <2>5. QED
    BY <1>2, <1>5, <1>7, <2>4 DEF Replayed
<1>8. CASE stage' = "exhausted"
  BY <1>2, <1>8 DEF Replayed
<1>9. CASE stage # "request" /\ stage # "exhausted"
  <2>1. memory_blocks' = memory_blocks /\ stage' # "request"
    BY <1>4, <1>9, NextWrites, GoOnStages
  <2>2. \A a \in Address : LeftBy(served, a, memory_blocks[a])
    BY <1>9 DEF Replayed
  <2>3. \A a \in Address : LeftBy(served, a, memory_blocks[a])'
    BY <1>2, <2>1, <2>2 DEF LeftBy
  <2>4. QED
    BY <1>2, <1>5, <2>1, <2>3 DEF Replayed
<1>10. stage = "request" => stage' \in {"request", "idle", "exhausted"}
       /\ (stage = "exhausted" => stage' = "exhausted")
  BY GoOnStages
<1>11. QED
  BY <1>6, <1>7, <1>8, <1>9, <1>10, GoOnStages

(* run_simulation() leaves its loop after the last row.                     *)
LEMMA LeaveReplays ==
    ASSUME Unbuffered, AllHandled, WorkloadFile, RowsRead, Replayed, LeaveArray
    PROVE  Replayed'
<1>1. PICK N \in Nat : N = Len(file.lines)
  BY LinesOfWorkload
<1>2. /\ phase = "parsed" /\ stage = "idle" /\ stage' \in {"probe", "done"}
      /\ served' = served /\ memory_blocks' = memory_blocks /\ file' = file
      /\ served = numRequests \/ requests[served].kind # "request"
  BY DEF LeaveArray, LeaveLoop, Finish, moduleVars, parseVars, fileVars,
         NextElement
<1>3. /\ served \in 0 .. N /\ numRequests = N /\ parsed = N
      /\ \A i \in 0 .. N - 1 :
            requests[i] = [kind |-> "request", request |-> Rows[i + 1]]
      /\ \A a \in Address : LeftBy(served, a, memory_blocks[a])
  BY <1>1, <1>2 DEF RowsRead, Replayed
<1>4. served = N
  <2>1. CASE served \in 0 .. N - 1
    <3>1. requests[served] = [kind |-> "request", request |-> Rows[served + 1]]
      BY <1>3, <2>1
    <3>2. requests[served].kind = "request"
      BY <3>1
    <3>3. QED
      BY <1>2, <1>3, <3>2
  <2>2. CASE served \notin 0 .. N - 1
    BY <1>3, <2>2
  <2>3. QED
    BY <2>1, <2>2
<1>5. Rows' = Rows /\ Len(file'.lines) = N
  BY <1>1, <1>2 DEF Rows
<1>6. \A a \in Address : LeftBy(served, a, memory_blocks[a])'
  BY <1>2, <1>3, <1>5 DEF LeftBy
<1>7. QED
  BY <1>2, <1>3, <1>4, <1>5, <1>6 DEF Replayed

(* The invariant of a run on a generated file.                              *)
WorkloadInv ==
    /\ GeneratorInv /\ FilesLeave
    /\ CommandLineTypeOK /\ OptionsRead
    /\ phase # "generate" => Generated /\ WorkloadFile /\ WorkloadRead
    /\ phase = "parsed" /\ ~config.custom => Replayed
ProductInv ==
    /\ AllHandled
    /\ phase \notin {"parsed", "aborted"} => NothingSent
    /\ NoGenerator \/ WorkloadInv

LEMMA NothingSentYet ==
    ASSUME Unbuffered, AllHandled, [ExecutorNext]_executorVars,
           phase \notin {"parsed", "aborted"} => NothingSent
    PROVE  phase' \notin {"parsed", "aborted"} => NothingSent'
<1>1. CASE create_csv \/ RunOnWorkload \/ Parse \/ Exited \/ UNCHANGED executorVars
  <2>1. UNCHANGED <<served, stage, memory_blocks>>
    BY <1>1 DEF create_csv, RunOnWorkload, Parse, Exited, executorVars, vars,
                moduleVars, driverVars, simulationVars
  <2>2. phase \in {"parsed", "aborted"} => phase' \in {"parsed", "aborted"}
    BY <1>1 DEF create_csv, RunOnWorkload, Parse, Exited, executorVars,
                start_parse, parse_user_input, ReadNumber, ReadWord, PassOver,
                RefuseArgument, print_help, CheckConfig, NextIs, StartFile,
                CannotOpen, CountLine, LinesCounted, Allocate, SkipLine,
                RejectLine, ReadRow, TooFewRows, Parsed, Abort, NextLineIs,
                LoopLeft, parseVars
  <2>3. QED
    BY <2>1, <2>2 DEF NothingSent
<1>2. CASE SendNext \/ LeaveArray \/ GoOn
  <2>1. phase' = "parsed"
    BY <1>2 DEF SendNext, LeaveArray, GoOn, parseVars
  <2>2. QED
    BY <2>1
<1>3. QED
  BY <1>1, <1>2 DEF ExecutorNext, main

LEMMA NextWorkload ==
    ASSUME Unbuffered, Zero = 0, ProductInv, WorkloadInv, [ExecutorNext]_executorVars
    PROVE  WorkloadInv'
<1>1. [Generate]_generatorVars
  BY DEF ExecutorNext, create_csv, RunOnWorkload, main, Parse, SendNext,
         LeaveArray, GoOn, Exited, executorVars
<1>2. GeneratorInv' /\ FilesLeave'
  BY <1>1, GeneratorKeeps, GeneratorLeaves DEF WorkloadInv
<1>3. CASE create_csv
  <2>1. phase = "generate" /\ UNCHANGED parseVars
    BY <1>3 DEF create_csv
  <2>2. UNCHANGED <<arguments, argument, config, phase, position, parsed, damaged>>
    BY <2>1 DEF parseVars, commandLineVars, fileVars, arrayVars
  <2>3. CommandLineTypeOK' /\ OptionsRead'
    BY <2>2 DEF WorkloadInv, CommandLineTypeOK, OptionsRead
  <2>4. QED
    BY <1>2, <2>1, <2>2, <2>3 DEF WorkloadInv
<1>4. CASE RunOnWorkload
  <2>1. WorkloadFile' /\ WorkloadRead'
    BY <1>4, WorkloadWritten DEF WorkloadInv
  <2>2. Generated' /\ phase' = "options"
    BY <1>4 DEF RunOnWorkload, Generated, generatorVars
  <2>3. QED
    BY <1>2, <2>1, <2>2 DEF WorkloadInv, WorkloadRead
<1>5. CASE Parse
  <2>1. /\ start_parse /\ UNCHANGED <<vars, simulationVars, generatorVars>>
        /\ phase # "generate" /\ phase' # "generate"
    BY <1>5, CommandLineType
       DEF Parse, WorkloadInv, start_parse, StartFile, CannotOpen, CountLine,
           LinesCounted, Allocate, SkipLine, RejectLine, ReadRow, TooFewRows,
           Parsed, Abort, NextLineIs, LoopLeft
  <2>2. Generated /\ WorkloadFile /\ WorkloadRead
    BY <2>1 DEF WorkloadInv
  <2>3. WorkloadRead'
    BY <2>1, <2>2, ParseOfWorkload
  <2>4. file' = file /\ heap' = heap
    BY <2>1 DEF start_parse, fileVars, StartFile, CannotOpen, CountLine,
                LinesCounted, Allocate, SkipLine, RejectLine, ReadRow,
                TooFewRows, Parsed, Abort, generatorVars
  <2>5. WorkloadFile' /\ Generated'
    <3>1. Generated'
      BY <2>1, <2>2 DEF Generated, generatorVars
    <3>2. Rows' = Rows
      BY <2>4 DEF Rows
    <3>3. QED
      BY <2>2, <2>4, <3>1, <3>2 DEF WorkloadFile
  <2>6. phase' = "parsed" => phase # "parsed" /\ phase # "aborted"
    BY <2>1, CommandLineType
       DEF WorkloadInv, start_parse, StartFile, CannotOpen, CountLine,
           LinesCounted, Allocate, SkipLine, RejectLine, ReadRow, TooFewRows,
           Parsed, Abort, NextLineIs, LoopLeft
  <2>7. ASSUME phase' = "parsed" PROVE Replayed'
    <3>1. NothingSent
      BY <2>6, <2>7 DEF ProductInv
    <3>2. PICK N \in Nat : N = Len(file'.lines)
      BY <2>2, <2>4, LinesOfWorkload
    <3>3. /\ served' = 0 /\ stage' = "idle"
          /\ \A a \in Address : memory_blocks'[a] = 0
      BY <2>1, <3>1 DEF NothingSent, vars, moduleVars, driverVars, simulationVars
    <3>4. 1 .. 0 = {}
      OBVIOUS
    <3>5. \A a \in Address : LeftBy(served, a, memory_blocks[a])'
      BY <3>3, <3>4 DEF LeftBy
    <3>6. QED
      BY <3>2, <3>3, <3>5 DEF Replayed
  <2>8. CommandLineTypeOK' /\ OptionsRead'
    BY <2>3 DEF WorkloadRead
  <2>9. QED
    BY <1>2, <2>3, <2>5, <2>7, <2>8 DEF WorkloadInv
<1>6. CASE SendNext \/ LeaveArray \/ GoOn
  <2>1. phase = "parsed" /\ UNCHANGED <<parseVars, generatorVars>>
    BY <1>6 DEF SendNext, LeaveArray, GoOn
  <2>2. UNCHANGED <<arguments, argument, config, phase, file, position,
                    numRequests, requests, parsed, damaged, heap, next_method, call>>
    BY <2>1 DEF parseVars, commandLineVars, fileVars, arrayVars, generatorVars
  <2>3. Generated /\ WorkloadFile /\ WorkloadRead
    BY <2>1 DEF WorkloadInv
  <2>4. Rows' = Rows
    BY <2>2 DEF Rows
  <2>5. Generated' /\ WorkloadFile'
    BY <2>2, <2>3, <2>4 DEF Generated, WorkloadFile
  <2>6. CommandLineTypeOK' /\ OptionsRead'
    BY <2>2 DEF WorkloadInv, CommandLineTypeOK, OptionsRead
  <2>7. RowsRead => RowsRead'
    BY <2>2, <2>4 DEF RowsRead
  <2>8. WorkloadRead'
    BY <2>2, <2>3, <2>6, <2>7 DEF WorkloadRead
  <2>9. ASSUME ~config'.custom PROVE Replayed'
    <3>1. RowsRead /\ Replayed
      BY <2>1, <2>2, <2>3, <2>9 DEF WorkloadInv, WorkloadRead, Options
    <3>2. QED
      BY <1>6, <2>3, <3>1, SendReplays, LeaveReplays, GoOnReplays DEF ProductInv
  <2>10. QED
    BY <1>2, <2>5, <2>6, <2>8, <2>9 DEF WorkloadInv
<1>7. CASE Exited \/ UNCHANGED executorVars
  <2>1. UNCHANGED <<parseVars, generatorVars, vars, simulationVars>>
    BY <1>7 DEF Exited, executorVars
  <2>2. UNCHANGED <<arguments, argument, config, phase, file, position,
                    numRequests, requests, parsed, damaged, heap, next_method, call,
                    served, stage, request, memory_blocks>>
    BY <2>1 DEF parseVars, commandLineVars, fileVars, arrayVars, generatorVars,
                vars, moduleVars, driverVars, simulationVars
  <2>3. Rows' = Rows
    BY <2>2 DEF Rows
  <2>4. /\ (Generated => Generated') /\ (WorkloadFile => WorkloadFile')
        /\ (WorkloadRead => WorkloadRead')
    <3>1. RowsRead => RowsRead'
      BY <2>2, <2>3 DEF RowsRead
    <3>2. (OptionsRead => OptionsRead') /\ (CommandLineTypeOK => CommandLineTypeOK')
      BY <2>2 DEF CommandLineTypeOK, OptionsRead
    <3>3. QED
      BY <2>2, <2>3, <3>1, <3>2 DEF Generated, WorkloadFile, WorkloadRead
  <2>5. Replayed => Replayed'
    BY <2>2, <2>3 DEF Replayed, LeftBy
  <2>6. (OptionsRead => OptionsRead') /\ (CommandLineTypeOK => CommandLineTypeOK')
    BY <2>2 DEF CommandLineTypeOK, OptionsRead
  <2>7. QED
    BY <1>2, <2>2, <2>4, <2>5, <2>6 DEF WorkloadInv
<1>8. QED
  BY <1>3, <1>4, <1>5, <1>6, <1>7 DEF ExecutorNext, main

LEMMA NextProduct ==
    ASSUME Unbuffered, Zero = 0, ProductInv, [ExecutorNext]_executorVars
    PROVE  ProductInv'
<1>1. [Next]_vars
  BY ExecutorStep, SimulationStep
<1>2. AllHandled'
  BY <1>1, NextHandled DEF ProductInv
<1>3. phase' \notin {"parsed", "aborted"} => NothingSent'
  BY NothingSentYet DEF ProductInv
<1>4. CASE NoGenerator
  <2>1. phase' # "generate"
    BY <1>4, ParserStep DEF NoGenerator
  <2>2. UNCHANGED generatorVars
    BY <1>4 DEF NoGenerator, ExecutorNext, create_csv, RunOnWorkload, main,
                Parse, SendNext, LeaveArray, GoOn, Exited, executorVars
  <2>3. NoGenerator'
    BY <1>4, <2>1, <2>2 DEF NoGenerator, generatorVars
  <2>4. QED
    BY <1>2, <1>3, <2>3 DEF ProductInv
<1>5. CASE WorkloadInv
  BY <1>2, <1>3, <1>5, NextWorkload DEF ProductInv
<1>6. QED
  BY <1>4, <1>5 DEF ProductInv

LEMMA InitProduct ==
    ASSUME Zero = 0, ExecutorInit
    PROVE  ProductInv
<1>1. Init /\ served = 0
  BY DEF ExecutorInit, SimulationInit
<1>2. AllHandled
  BY <1>1, InitHandled
<1>3. NothingSent
  BY <1>1 DEF Init, MemoryInit, NothingSent
<1>4. CASE WrittenByHand
  BY <1>2, <1>3, <1>4
     DEF ProductInv, NoGenerator, WrittenByHand, FileInit
<1>5. CASE ToBeGenerated
  <2>1. GeneratorInv /\ FilesLeave
    BY <1>5, GeneratorBegins, FilesBegin DEF ToBeGenerated
  <2>2. phase = "generate" /\ position = 0 /\ parsed = 0 /\ damaged = FALSE
        /\ CommandLineInit
    BY <1>5 DEF ToBeGenerated
  <2>3. CommandLineTypeOK
    <3>1. argument = 0 /\ arguments \in CommandLines /\ config = Defaults
      BY <2>2 DEF CommandLineInit
    <3>2. 0 \in 0 .. Len(arguments)
      BY <3>1, CommandLineAssumption, LenProperties
    <3>3. config \in Config
      <4>1. IntModulus \div 2 - 1 \in Int
        BY CommandLineAssumption
      <4>2. QED
        BY <3>1, <4>1 DEF Defaults, Config
    <3>4. QED
      BY <2>2, <3>1, <3>2, <3>3 DEF CommandLineTypeOK, Phase
  <2>4. OptionsRead
    BY <2>2 DEF CommandLineInit, Defaults, OptionsRead
  <2>5. QED
    BY <1>2, <1>3, <2>1, <2>2, <2>3, <2>4 DEF ProductInv, WorkloadInv
<1>6. QED
  BY <1>4, <1>5 DEF ExecutorInit

(* The six arrays lie in the memory that is simulated.                      *)
MatricesFit == 6 * Area - 1 <= MaxAddress

LEMMA ResultAddress ==
    ASSUME MatricesFit, NEW e \in 0 .. Area - 1
    PROVE  AddressOf("result", e) \in Address
<1>1. DOMAIN Arrays = 1 .. 6 /\ Arrays[3] = "result"
      /\ \A p \in 1 .. 6 : Arrays[p] = "result" => p = 3
  BY DEF Arrays
<1> DEFINE q == CHOOSE p \in DOMAIN Arrays : Arrays[p] = "result"
<1>2. q = 3
  BY <1>1
<1>3. AddressOf("result", e) = e + Area * (q - 1)
  BY DEF AddressOf
<1> HIDE DEF q
<1>4. PICK A \in Nat : A = Area
  BY AreaNat
<1>5. MaxAddress \in Nat
  BY ConstantsAssumption
<1>6. e \in Nat /\ e <= A - 1 /\ 6 * A - 1 <= MaxAddress
  BY <1>4 DEF MatricesFit
<1>7. e + A * (q - 1) \in 0 .. MaxAddress
  BY <1>2, <1>5, <1>6
<1>8. QED
  BY <1>3, <1>4, <1>7 DEF Address

(* A generated file leaves the product of the matrices in the memory: no row *)
(* is lost, repeated or swapped between create_csv(), the readers of the     *)
(* file, the loop of run_simulation() and the caches, and every write has    *)
(* reached the memory when its request is answered.  This is so for matrices *)
(* of every size and content, every method, command line, line size and      *)
(* prefetching.  There is no store-back buffer: with one, writes may be left *)
(* behind in it.                                                             *)
THEOREM ProductSimulated ==
    ASSUME Unbuffered, Zero = 0, MatricesFit
    PROVE  ExecutorSpec => []SimulatedProduct
<1>1. ExecutorInit => ProductInv
  BY InitProduct
<1>2. ProductInv /\ [ExecutorNext]_executorVars => ProductInv'
  BY NextProduct
<1>3. ProductInv => SimulatedProduct
  <2> SUFFICES ASSUME ProductInv, stage = "done", Generated, ~config.custom,
                      NEW i \in Position, NEW j \in Position
               PROVE  memory_blocks[AddressOf("result", At(i, j))]
                        = Product(heap["a"], heap["b"], i, j)
    BY DEF SimulatedProduct
  <2>1. phase \in {"parsed", "aborted"}
    BY DEF ProductInv, NothingSent
  <2>2. WorkloadInv
    <3>1. ~NoGenerator
      BY MethodCount DEF NoGenerator, Generated
    <3>2. QED
      BY <3>1 DEF ProductInv
  <2>3. WorkloadFile /\ RowsRead
    BY <2>1, <2>2 DEF WorkloadInv, WorkloadRead, Options
  <2>4. phase = "parsed"
    BY <2>1, <2>3 DEF RowsRead
  <2>5. Replayed
    BY <2>2, <2>4 DEF WorkloadInv
  <2>6. PICK n \in Nat : n = Len(file.lines)
    BY <2>3, LinesOfWorkload
  <2>7. PICK a \in Address : a = AddressOf("result", At(i, j))
    BY AtRange, ResultAddress
  <2>8. PICK w : w = Product(heap["a"], heap["b"], i, j)
    OBVIOUS
  <2>9. LeftBy(n, a, memory_blocks[a])
    BY <2>5, <2>6 DEF Replayed
  <2>10. Leaves(Rows, a, w)
    BY <2>3, <2>7, <2>8 DEF WorkloadFile
  <2>11. memory_blocks[a] = w
    BY <2>3, <2>6, <2>9, <2>10, LeftByAll
  <2>12. QED
    BY <2>7, <2>8, <2>11
<1>4. QED
  BY <1>1, <1>2, <1>3, PTL DEF ExecutorSpec
=============================================================================
