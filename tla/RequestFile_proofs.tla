------------------------ MODULE RequestFile_proofs ------------------------
(***************************************************************************)
(* What parse_user_input() and start_parse() promise run_simulation(), for  *)
(* every command line, every file and every width of an int: a checked      *)
(* configuration, and an array that holds its requests and the marker.      *)
(***************************************************************************)
EXTENDS RequestFile, FiniteSetTheorems, TLAPS

-----------------------------------------------------------------------------
(* Types.                                                                   *)

(* The 32 bits of a number, read without and with a sign.                   *)
LEMMA ConversionType ==
    ASSUME NEW value \in Int
    PROVE  AsUnsigned(value) \in Nat /\ AsInt(value) \in Int
<1>1. IntModulus \in Nat \ {0}
  BY CommandLineAssumption
<1>2. AsUnsigned(value) \in Nat
  BY <1>1 DEF AsUnsigned
<1>3. QED
  BY <1>1, <1>2 DEF AsInt

(* The narrowing of a natural number never makes it larger.                 *)
LEMMA NarrowedBelow ==
    ASSUME NEW value \in Nat
    PROVE  AsInt(value) <= value
<1>1. IntModulus \in Nat \ {0}
  BY CommandLineAssumption
<1>2. value % IntModulus \in Nat /\ value % IntModulus <= value
  BY <1>1
<1>3. QED
  BY <1>1, <1>2 DEF AsInt, AsUnsigned

(* The arguments are what getopt_long() can return.                         *)
LEMMA NextArgumentType ==
    ASSUME CommandLineTypeOK, argument < Len(arguments)
    PROVE  /\ NextArgument \in Argument
           /\ NextArgument.kind = "number" =>
                 /\ NextArgument.name \in NumberOption
                 /\ NextArgument.value \in Int
                 /\ NextArgument.name = "num-requests"
                       => NextArgument.value \in Nat
<1>1. arguments \in CommandLines /\ arguments \in Seq(Argument)
  BY CommandLineAssumption DEF CommandLineTypeOK
<1>2. argument + 1 \in 1 .. Len(arguments)
  BY <1>1 DEF CommandLineTypeOK
<1>3. NextArgument \in Argument /\ argument + 1 \in DOMAIN arguments
  BY <1>1, <1>2 DEF NextArgument
<1>4. NextArgument.kind = "number" => /\ NextArgument.name \in NumberOption
                                      /\ NextArgument.value \in Int
  BY <1>3 DEF Argument
<1>5. NextArgument.kind = "number" /\ NextArgument.name = "num-requests"
         => NextArgument.value \in Nat
  BY <1>1, <1>3, CommandLineAssumption DEF NextArgument
<1>6. QED
  BY <1>3, <1>4, <1>5

(* An option stores a number of the type of its variable.                   *)
LEMMA StoredType ==
    ASSUME NEW c \in Config, NEW name \in NumberOption, NEW value \in Int,
           name = "num-requests" => value \in Nat
    PROVE  /\ Stored(c, name, value) \in Config
           /\ ~Stored(c, name, value).custom =>
                 /\ ~c.custom
                 /\ Stored(c, name, value).numRequests = c.numRequests
<1>1. AsUnsigned(value) \in Nat /\ AsInt(value) \in Int
  BY ConversionType
<1>2. QED
  BY <1>1 DEF Stored, Config, NumberOption

(* A line of the file that has not been read is a line.                     *)
LEMMA NextLineType ==
    ASSUME FileTypeOK, position < Len(file.lines)
    PROVE  /\ position + 1 \in 1 .. Len(file.lines)
           /\ file.lines[position + 1] \in FileLine
<1>1. file.lines \in Seq(FileLine) /\ position \in 0 .. Len(file.lines)
  BY DEF FileTypeOK, File
<1>2. QED
  BY <1>1

(* A row is a request, and so is whatever memory held.                      *)
LEMMA RowType ==
    ASSUME NEW line \in FileLine, IsRow(line)
    PROVE  RowOf(line) \subseteq RowRequests
  BY FileAssumption DEF RowOf, IsRow, FileLine

(* Neither the checks of main() nor its readers start with a wrong type.    *)
LEMMA InitFileType == FileInit => FileTypeOK
<1> SUFFICES ASSUME FileInit PROVE FileTypeOK
  OBVIOUS
<1>1. IntModulus \in Nat \ {0} /\ arguments \in Seq(Argument) /\ file \in File
  BY CommandLineAssumption, FileAssumption DEF FileInit, CommandLineInit
<1>2. Defaults \in Config
  <2>1. IntModulus \div 2 - 1 \in Int
    BY <1>1
  <2>2. QED
    BY <2>1 DEF Defaults, Config
<1>3. CommandLineTypeOK
  BY <1>1, <1>2 DEF FileInit, CommandLineInit, CommandLineTypeOK, Phase
<1>4. Len(file.lines) \in Nat
  BY <1>1 DEF File
<1>5. /\ position \in 0 .. Len(file.lines) /\ numRequests \in Nat
      /\ parsed \in Nat
      /\ phase \notin {"parse", "parsed", "aborted"}
  BY <1>4 DEF FileInit
<1>6. damaged \in BOOLEAN
  BY Zenon DEF FileInit
<1>7. QED
  BY <1>1, <1>3, <1>5, <1>6 DEF FileTypeOK

(* parse_user_input() keeps the types of its variables.                     *)
LEMMA CommandLineType ==
    ASSUME CommandLineTypeOK, parse_user_input
    PROVE  /\ CommandLineTypeOK'
           /\ phase = "options"
           /\ phase' \in {"options", "help", "refused", "start"}
<1>1. /\ arguments \in CommandLines /\ arguments \in Seq(Argument)
      /\ argument \in 0 .. Len(arguments) /\ Len(arguments) \in Nat
      /\ config \in Config
  BY CommandLineAssumption DEF CommandLineTypeOK
<1>2. CASE ReadNumber
  <2>1. /\ NextArgument.kind = "number" /\ argument < Len(arguments)
        /\ argument' = argument + 1 /\ arguments' = arguments
        /\ phase = "options" /\ phase' = phase
        /\ config' = Stored(config, NextArgument.name, NextArgument.value)
    BY <1>2 DEF ReadNumber, NextIs
  <2>2. config' \in Config
    BY <1>1, <2>1, NextArgumentType, StoredType
  <2>3. QED
    BY <1>1, <2>1, <2>2 DEF CommandLineTypeOK, Phase
<1>3. CASE ReadWord
  <2>1. /\ argument < Len(arguments)
        /\ argument' = argument + 1 /\ arguments' = arguments
        /\ phase = "options" /\ phase' = phase
    BY <1>3 DEF ReadWord, NextIs
  <2>2. config' \in Config
    BY <1>1, <1>3 DEF ReadWord, Config
  <2>3. QED
    BY <1>1, <2>1, <2>2 DEF CommandLineTypeOK, Phase
<1>4. CASE PassOver
  BY <1>1, <1>4 DEF PassOver, NextIs, CommandLineTypeOK, Phase
<1>5. CASE RefuseArgument \/ print_help \/ CheckConfig
  BY <1>5 DEF RefuseArgument, print_help, CheckConfig, NextIs, commandLineVars,
              CommandLineTypeOK, Phase
<1>6. QED
  BY <1>2, <1>3, <1>4, <1>5 DEF parse_user_input

(* An element of the array is replaced by another.                          *)
LEMMA StoreType ==
    ASSUME NEW n \in Nat, requests \in [0 .. n -> Element], damaged \in BOOLEAN,
           NEW i, NEW e \in Element, StoreElement(i, e)
    PROVE  requests' \in [0 .. n -> Element] /\ damaged' \in BOOLEAN
<1>1. CASE i \in DOMAIN requests
  BY <1>1 DEF StoreElement
<1>2. CASE i \notin DOMAIN requests
  BY <1>2 DEF StoreElement
<1>3. QED
  BY <1>1, <1>2

(* Every step keeps the types.                                              *)
LEMMA NextFileType ==
    ASSUME FileTypeOK, [start_parse]_parseVars
    PROVE  FileTypeOK'
<1>1. /\ file \in File /\ Len(file.lines) \in Nat
      /\ position \in 0 .. Len(file.lines)
      /\ numRequests \in Nat /\ parsed \in Nat /\ damaged \in BOOLEAN
      /\ CommandLineTypeOK /\ config \in Config
  BY DEF FileTypeOK, File, CommandLineTypeOK
<1>2. CASE parse_user_input /\ UNCHANGED fileVars
  <2>1. CommandLineTypeOK' /\ phase' \notin {"parse", "parsed", "aborted"}
    BY <1>1, <1>2, CommandLineType
  <2>2. UNCHANGED <<file, position, numRequests, parsed, damaged>>
    BY <1>2 DEF fileVars, arrayVars
  <2>3. QED
    BY <1>1, <2>1, <2>2 DEF FileTypeOK
<1>3. CASE StartFile \/ LinesCounted \/ CountLine
  <2>1. phase' \in {"count", "allocate"} /\ UNCHANGED <<commandLineVars, file>>
    BY <1>3 DEF StartFile, LinesCounted, CountLine
  <2>2. UNCHANGED <<parsed, damaged>>
    BY <1>3 DEF StartFile, LinesCounted, CountLine, arrayVars
  <2>3. config.numRequests \in Nat
    BY <1>1 DEF Config
  <2>4. position' \in 0 .. Len(file.lines) /\ numRequests' \in Nat
    BY <1>1, <1>3, <2>3 DEF StartFile, LinesCounted, CountLine
  <2>5. QED
    BY <1>1, <2>1, <2>2, <2>4
       DEF FileTypeOK, CommandLineTypeOK, commandLineVars, Phase
<1>4. CASE Allocate
  <2>1. /\ UNCHANGED <<commandLineVars, file, position, numRequests>>
        /\ UNCHANGED <<parsed, damaged>>
        /\ phase' \in {"parse", "failed"}
        /\ phase' = "parse" => requests' = [i \in 0 .. numRequests |-> Unset]
    BY <1>4 DEF Allocate
  <2>2. Unset \in Element
    BY DEF Unset, Element
  <2>3. QED
    BY <1>1, <2>1, <2>2
       DEF FileTypeOK, CommandLineTypeOK, commandLineVars, Phase
<1>5. CASE SkipLine
  BY <1>1, <1>5 DEF SkipLine, NextLineIs, FileTypeOK, CommandLineTypeOK,
                    commandLineVars, arrayVars, Phase
<1>6. CASE CannotOpen \/ RejectLine \/ TooFewRows \/ Abort
  BY <1>1, <1>6 DEF CannotOpen, RejectLine, TooFewRows, Abort, FileTypeOK,
                    CommandLineTypeOK, commandLineVars, fileVars, arrayVars,
                    Phase
<1>7. CASE ReadRow
  <2>1. /\ phase = "parse" /\ phase' = "parse" /\ position < Len(file.lines)
        /\ IsRow(file.lines[position + 1])
        /\ position' = position + 1 /\ parsed' = parsed + 1
        /\ UNCHANGED <<commandLineVars, file, numRequests>>
    BY <1>7 DEF ReadRow, NextLineIs, IsRow
  <2>2. PICK r \in RowOf(file.lines[position + 1]) :
           StoreElement(parsed, [kind |-> "request", request |-> r])
    BY <1>7 DEF ReadRow
  <2>3. r \in RowRequests
    BY <2>1, <2>2, NextLineType, RowType
  <2>4. [kind |-> "request", request |-> r] \in Element
    BY <2>3 DEF Element
  <2>5. requests \in [0 .. numRequests -> Element]
    BY <2>1 DEF FileTypeOK
  <2>6. requests' \in [0 .. numRequests -> Element] /\ damaged' \in BOOLEAN
    BY <1>1, <2>2, <2>4, <2>5, StoreType
  <2>7. QED
    BY <1>1, <2>1, <2>6 DEF FileTypeOK, CommandLineTypeOK, commandLineVars
<1>8. CASE Parsed
  <2>1. /\ phase = "parse" /\ phase' = "parsed" /\ StoreElement(parsed, End)
        /\ UNCHANGED <<commandLineVars, file, position, numRequests, parsed>>
    BY <1>8 DEF Parsed, LoopLeft
  <2>2. requests \in [0 .. numRequests -> Element] /\ End \in Element
    BY <2>1 DEF FileTypeOK, End, Element
  <2>3. requests' \in [0 .. numRequests -> Element] /\ damaged' \in BOOLEAN
    BY <1>1, <2>1, <2>2, StoreType
  <2>4. QED
    BY <1>1, <2>1, <2>3
       DEF FileTypeOK, CommandLineTypeOK, commandLineVars, Phase
<1>9. CASE UNCHANGED parseVars
  BY <1>9 DEF parseVars, commandLineVars, fileVars, arrayVars, FileTypeOK,
              CommandLineTypeOK
<1>10. QED
  BY <1>2, <1>3, <1>4, <1>5, <1>6, <1>7, <1>8, <1>9 DEF start_parse

(* The variables of both parsers keep their types, and the array has room   *)
(* for numRequests requests and the marker, for every file and every        *)
(* command line (terminal_parser.c, parse.c, csv_parser.c).                 *)
THEOREM FileTypeCorrect == FileSpec => []FileTypeOK
  BY InitFileType, NextFileType, PTL DEF FileSpec

-----------------------------------------------------------------------------
(* The configuration.                                                       *)

(* A configuration leaves parse_user_input() checked, and is not changed    *)
(* after that.                                                              *)
ConfigChecked == Accepted => ConfigValid(config)

LEMMA NextConfigChecked ==
    ASSUME FileTypeOK, ConfigChecked, [start_parse]_parseVars
    PROVE  ConfigChecked'
<1>1. CASE parse_user_input /\ UNCHANGED fileVars
  <2>1. phase' \in {"options", "help", "refused"} \/ CheckConfig
    BY <1>1, CommandLineType
       DEF parse_user_input, ReadNumber, ReadWord, PassOver, RefuseArgument,
           print_help, NextIs, FileTypeOK
  <2>2. CASE CheckConfig
    <3>1. config' = config /\ (phase' = "start" => ConfigValid(config))
          /\ phase' \in {"start", "refused"}
      BY <2>2 DEF CheckConfig, commandLineVars
    <3>2. QED
      BY <3>1 DEF ConfigChecked, Accepted, ConfigValid
  <2>3. QED
    BY <2>1, <2>2 DEF ConfigChecked, Accepted
<1>2. CASE start_parse /\ ~(parse_user_input /\ UNCHANGED fileVars)
  <2>1. config' = config /\ Accepted
    BY <1>2 DEF start_parse, StartFile, CannotOpen, CountLine, LinesCounted,
                Allocate, SkipLine, RejectLine, ReadRow, TooFewRows, Parsed,
                Abort, NextLineIs, LoopLeft, commandLineVars, Accepted
  <2>2. QED
    BY <2>1 DEF ConfigChecked, ConfigValid
<1>3. CASE UNCHANGED parseVars
  BY <1>3 DEF parseVars, commandLineVars, ConfigChecked, Accepted, ConfigValid
<1>4. QED
  BY <1>1, <1>2, <1>3

LEMMA CheckedIsValid ==
    ASSUME FileTypeOK, ConfigChecked
    PROVE  InputsChecked
<1> SUFFICES ASSUME ConfigValid(config), config.l1Latency # 0
             PROVE  input_checker(config)
  BY DEF ConfigChecked, InputsChecked
<1>1. /\ config.l1Latency \in Nat /\ config.l2Latency \in Nat
      /\ config.memoryLatency \in Nat
  BY DEF FileTypeOK, CommandLineTypeOK, Config
<1>2. QED
  BY <1>1 DEF ConfigValid, input_checker

(* For every command line, run_simulation() gets what its input_checker()   *)
(* would accept, except for an L1 latency of 0 (simulator.cpp).             *)
THEOREM InputsCorrect == FileSpec => []InputsChecked
<1>1. FileInit => ConfigChecked
  BY DEF FileInit, ConfigChecked, Accepted
<1>2. FileTypeOK /\ ConfigChecked => InputsChecked
  BY CheckedIsValid
<1>3. QED
  BY <1>1, <1>2, InitFileType, NextFileType, NextConfigChecked, PTL
     DEF FileSpec

-----------------------------------------------------------------------------
(* Options that are given again.                                            *)

(* c holds the value of the option in its field.                            *)
Holds(c, name, value) ==
    /\ name = "cycles" => c.cycles = AsInt(value)
    /\ name = "cacheline-size" => c.lineSize = AsUnsigned(value)
    /\ name = "l1-lines" => c.l1Lines = AsUnsigned(value)
    /\ name = "l2-lines" => c.l2Lines = AsUnsigned(value)
    /\ name = "l1-latency" => c.l1Latency = AsUnsigned(value)
    /\ name = "l2-latency" => c.l2Latency = AsUnsigned(value)
    /\ name = "memory-latency" => c.memoryLatency = AsUnsigned(value)
    /\ name = "num-requests" => c.numRequests = value /\ c.custom = TRUE
    /\ name = "prefetch-buffer" => c.prefetch = AsUnsigned(value)
    /\ name = "storeback-buffer" => c.storeback = AsUnsigned(value)

(* To store what is there already changes nothing.                          *)
LEMMA StoredHeld ==
    ASSUME NEW c \in Config, NEW name \in NumberOption, NEW value,
           Holds(c, name, value)
    PROVE  Stored(c, name, value) = c
<1>1. CASE name \in {"cycles", "cacheline-size", "l1-lines", "l2-lines"}
  BY <1>1 DEF Stored, Config, Holds
<1>2. CASE name \in {"l1-latency", "l2-latency", "memory-latency"}
  BY <1>2 DEF Stored, Config, Holds
<1>3. CASE name \in {"num-requests", "prefetch-buffer", "storeback-buffer"}
  BY <1>3 DEF Stored, Config, Holds
<1>4. QED
  BY <1>1, <1>2, <1>3 DEF NumberOption

(* What has been stored is there.                                           *)
LEMMA StoredHolds ==
    ASSUME NEW c \in Config, NEW name \in NumberOption, NEW value
    PROVE  Holds(Stored(c, name, value), name, value)
  BY DEF Stored, Config, NumberOption, Holds

(* The number of another option does not undo it, nor does                  *)
(* --storeback-condition.                                                   *)
LEMMA StoredKeeps ==
    ASSUME NEW c \in Config, NEW name \in NumberOption, NEW value,
           NEW other \in NumberOption \ {name}, NEW number,
           Holds(c, name, value)
    PROVE  Holds(Stored(c, other, number), name, value)
<1> DEFINE d == Stored(c, other, number)
<1>1. /\ other # "cycles" => d.cycles = c.cycles
      /\ other # "cacheline-size" => d.lineSize = c.lineSize
      /\ other # "l1-lines" => d.l1Lines = c.l1Lines
      /\ other # "l2-lines" => d.l2Lines = c.l2Lines
      /\ other # "l1-latency" => d.l1Latency = c.l1Latency
  BY DEF Stored, Config, NumberOption
<1>2. /\ other # "l2-latency" => d.l2Latency = c.l2Latency
      /\ other # "memory-latency" => d.memoryLatency = c.memoryLatency
      /\ other # "prefetch-buffer" => d.prefetch = c.prefetch
      /\ other # "storeback-buffer" => d.storeback = c.storeback
  BY DEF Stored, Config, NumberOption
<1>3. other # "num-requests" =>
         d.numRequests = c.numRequests /\ d.custom = c.custom
  BY DEF Stored, Config, NumberOption
<1> HIDE DEF d
<1>4. Holds(d, name, value)
  BY <1>1, <1>2, <1>3 DEF Holds
<1>5. QED
  BY <1>4 DEF d

LEMMA ConditionKeeps ==
    ASSUME NEW c \in Config, NEW name, NEW value, NEW condition,
           Holds(c, name, value)
    PROVE  Holds([c EXCEPT !.condition = condition], name, value)
  BY DEF Config, Holds

(* The loop has stored the last value of every option that it has reached.  *)
IsNumber(k) == arguments[k].kind = "number"
LastUpTo(k, n) ==
    /\ IsNumber(k)
    /\ \A later \in k + 1 .. n :
          IsNumber(later) => arguments[later].name # arguments[k].name
LastStored ==
    /\ Accepted => argument = Len(arguments)
    /\ \A k \in 1 .. argument :
          LastUpTo(k, argument) =>
              Holds(config, arguments[k].name, arguments[k].value)

(* The options that have been read have the names of options.               *)
LEMMA OptionType ==
    ASSUME CommandLineTypeOK, NEW k \in 1 .. Len(arguments), IsNumber(k)
    PROVE  arguments[k].name \in NumberOption
<1>1. arguments \in Seq(Argument)
  BY CommandLineAssumption DEF CommandLineTypeOK
<1>2. arguments[k] \in Argument
  BY <1>1
<1>3. QED
  BY <1>2 DEF IsNumber, Argument

LEMMA NextLastStored ==
    ASSUME FileTypeOK, LastStored, [start_parse]_parseVars
    PROVE  LastStored'
<1>1. /\ CommandLineTypeOK /\ config \in Config /\ argument \in Nat
      /\ Len(arguments) \in Nat /\ argument <= Len(arguments)
  BY CommandLineAssumption DEF FileTypeOK, CommandLineTypeOK
<1>2. CASE ReadNumber
  <2>1. /\ NextArgument.kind = "number" /\ argument < Len(arguments)
        /\ argument' = argument + 1 /\ arguments' = arguments
        /\ phase = "options" /\ phase' = phase
        /\ config' = Stored(config, NextArgument.name, NextArgument.value)
    BY <1>2 DEF ReadNumber, NextIs
  <2>2. /\ NextArgument = arguments[argument + 1] /\ IsNumber(argument + 1)
        /\ NextArgument.name \in NumberOption
    BY <1>1, <2>1, OptionType DEF NextArgument, IsNumber
  <2>3. ASSUME NEW k \in 1 .. argument + 1, LastUpTo(k, argument + 1)
        PROVE  Holds(config', arguments[k].name, arguments[k].value)
    <3>1. CASE k = argument + 1
      BY <1>1, <2>1, <2>2, <3>1, StoredHolds
    <3>2. CASE k # argument + 1
      <4>1. k \in 1 .. argument /\ k \in 1 .. Len(arguments)
            /\ argument + 1 \in k + 1 .. argument + 1
        BY <1>1, <3>2
      <4>2. LastUpTo(k, argument) /\ IsNumber(k)
            /\ NextArgument.name # arguments[k].name
        BY <1>1, <2>2, <2>3, <4>1 DEF LastUpTo
      <4>3. Holds(config, arguments[k].name, arguments[k].value)
        BY <4>1, <4>2 DEF LastStored
      <4>4. arguments[k].name \in NumberOption
        BY <1>1, <4>1, <4>2, OptionType
      <4>5. QED
        BY <1>1, <2>1, <2>2, <4>2, <4>3, <4>4, StoredKeeps
    <3>3. QED
      BY <3>1, <3>2
  <2>4. QED
    BY <2>1, <2>3 DEF LastStored, LastUpTo, IsNumber, Accepted
<1>3. CASE ReadWord \/ PassOver
  <2>1. /\ ~IsNumber(argument + 1)
        /\ argument' = argument + 1 /\ arguments' = arguments
        /\ phase = "options" /\ phase' = phase
    BY <1>3 DEF ReadWord, PassOver, NextIs, NextArgument, IsNumber
  <2>2. ASSUME NEW k \in 1 .. argument + 1, LastUpTo(k, argument + 1)
        PROVE  Holds(config', arguments[k].name, arguments[k].value)
    <3>1. IsNumber(k) /\ k \in 1 .. argument /\ k \in 1 .. Len(arguments)
      BY <1>1, <2>1, <2>2 DEF LastUpTo
    <3>2. LastUpTo(k, argument)
      BY <1>1, <2>2, <3>1 DEF LastUpTo
    <3>3. Holds(config, arguments[k].name, arguments[k].value)
      BY <3>1, <3>2 DEF LastStored
    <3>4. arguments[k].name \in NumberOption
      BY <1>1, <3>1, OptionType
    <3>5. \/ config' = config
          \/ \E condition : config' = [config EXCEPT !.condition = condition]
      BY <1>3, Zenon DEF ReadWord, PassOver
    <3>6. CASE config' = config
      BY <3>3, <3>6
    <3>7. CASE \E condition : config' = [config EXCEPT !.condition = condition]
      <4>1. PICK condition : config' = [config EXCEPT !.condition = condition]
        BY <3>7
      <4>2. QED
        BY <1>1, <3>3, <3>4, <4>1, ConditionKeeps
    <3>8. QED
      BY <3>5, <3>6, <3>7
  <2>3. QED
    BY <2>1, <2>2 DEF LastStored, LastUpTo, IsNumber, Accepted
<1>4. CASE /\ UNCHANGED commandLineVars
           /\ \/ phase' \in {"help", "refused"} \/ CheckConfig \/ phase' = phase
              \/ Accepted
  <2>1. Accepted' => argument = Len(arguments)
    BY <1>4 DEF Accepted, CheckConfig, LastStored
  <2>2. QED
    BY <1>4, <2>1 DEF commandLineVars, LastStored, LastUpTo, IsNumber
<1>5. CASE start_parse /\ ~ReadNumber /\ ~ReadWord /\ ~PassOver
  <2>1. UNCHANGED commandLineVars
        /\ (phase' \in {"help", "refused"} \/ CheckConfig \/ Accepted)
    BY <1>5 DEF start_parse, parse_user_input, RefuseArgument, print_help,
                CheckConfig, StartFile, CannotOpen, CountLine, LinesCounted,
                Allocate, SkipLine, RejectLine, ReadRow, TooFewRows, Parsed,
                Abort, NextLineIs, LoopLeft, Accepted
  <2>2. QED
    BY <1>4, <2>1
<1>6. CASE UNCHANGED parseVars
  BY <1>4, <1>6 DEF parseVars
<1>7. QED
  BY <1>2, <1>3, <1>5, <1>6 DEF start_parse

LEMMA StoredIsLast ==
    ASSUME FileTypeOK, LastStored
    PROVE  LastOptionWins
<1>1. arguments \in Seq(Argument)
  BY CommandLineAssumption DEF FileTypeOK, CommandLineTypeOK
<1>2. DOMAIN arguments = 1 .. Len(arguments)
  BY <1>1
<1>3. ASSUME Accepted, NEW k \in 1 .. Len(arguments),
             LastUpTo(k, Len(arguments))
      PROVE  config = Stored(config, arguments[k].name, arguments[k].value)
  <2>1. Holds(config, arguments[k].name, arguments[k].value)
    BY <1>3 DEF LastStored
  <2>2. arguments[k].name \in NumberOption
    BY <1>3, OptionType DEF LastUpTo, FileTypeOK
  <2>3. QED
    BY <2>1, <2>2, StoredHeld DEF FileTypeOK, CommandLineTypeOK
<1>4. QED
  BY <1>2, <1>3 DEF LastOptionWins, LastUpTo, IsNumber

(* The last value of every number option is the one that counts, for every  *)
(* sequence of arguments (terminal_parser.c, the getopt_long() loop).       *)
THEOREM LastOptionCorrect == FileSpec => []LastOptionWins
<1>1. FileInit => LastStored
  BY DEF FileInit, CommandLineInit, LastStored, Accepted
<1>2. FileTypeOK /\ LastStored => LastOptionWins
  BY StoredIsLast
<1>3. QED
  BY <1>1, <1>2, InitFileType, NextFileType, NextLastStored, PTL DEF FileSpec

-----------------------------------------------------------------------------
(* Counting lines.                                                          *)

CountedUpTo(k) == {j \in 1 .. k : Counted(j)}
RowLinesUpTo(k) == {j \in 1 .. k : IsRow(file.lines[j])}

(* Numbers up to k are finitely many, and one more with k + 1.              *)
LEMMA CountOneMore ==
    ASSUME NEW k \in Nat, NEW S, NEW T, S \subseteq 1 .. k,
           T = S \/ T = S \cup {k + 1}
    PROVE  /\ IsFiniteSet(S) /\ Cardinality(S) \in Nat /\ Cardinality(S) <= k
           /\ T = S => Cardinality(T) = Cardinality(S)
           /\ k + 1 \in T => Cardinality(T) = Cardinality(S) + 1
<1>1. IsFiniteSet(1 .. k) /\ Cardinality(1 .. k) = k
  BY FS_Interval
<1>2. IsFiniteSet(S) /\ Cardinality(S) <= k
  BY <1>1, FS_Subset
<1>3. Cardinality(S) \in Nat
  BY <1>2, FS_CardinalityType
<1>4. k + 1 \notin S
  OBVIOUS
<1>5. Cardinality(S \cup {k + 1}) = Cardinality(S) + 1
  BY <1>2, <1>4, FS_AddElement
<1>6. QED
  BY <1>2, <1>3, <1>4, <1>5

(* What calculateLines() has counted after one line more.                   *)
LEMMA CountedStep ==
    ASSUME NEW k \in Nat
    PROVE  /\ Cardinality(CountedUpTo(0)) = 0
           /\ Cardinality(CountedUpTo(k)) \in Nat
           /\ Cardinality(CountedUpTo(k + 1))
                = IF Counted(k + 1) THEN Cardinality(CountedUpTo(k)) + 1
                                    ELSE Cardinality(CountedUpTo(k))
<1>1. CountedUpTo(k) \subseteq 1 .. k
  BY DEF CountedUpTo
<1>2. CountedUpTo(k + 1) = IF Counted(k + 1) THEN CountedUpTo(k) \cup {k + 1}
                                             ELSE CountedUpTo(k)
  BY DEF CountedUpTo
<1>3. CountedUpTo(0) = {}
  BY DEF CountedUpTo
<1>4. QED
  BY <1>1, <1>2, <1>3, CountOneMore, FS_EmptySet

(* What parse_csv() has stored after one line more.                         *)
LEMMA RowsStep ==
    ASSUME NEW k \in Nat
    PROVE  /\ RowsUpTo(0) = 0
           /\ RowsUpTo(k) \in Nat
           /\ RowsUpTo(k + 1)
                = IF IsRow(file.lines[k + 1]) THEN RowsUpTo(k) + 1
                                              ELSE RowsUpTo(k)
<1>1. RowLinesUpTo(k) \subseteq 1 .. k
  BY DEF RowLinesUpTo
<1>2. RowLinesUpTo(k + 1)
        = IF IsRow(file.lines[k + 1]) THEN RowLinesUpTo(k) \cup {k + 1}
                                      ELSE RowLinesUpTo(k)
  BY DEF RowLinesUpTo
<1>3. RowLinesUpTo(0) = {}
  BY DEF RowLinesUpTo
<1>4. /\ RowsUpTo(0) = Cardinality(RowLinesUpTo(0))
      /\ RowsUpTo(k) = Cardinality(RowLinesUpTo(k))
      /\ RowsUpTo(k + 1) = Cardinality(RowLinesUpTo(k + 1))
  BY DEF RowsUpTo, RowLinesUpTo
<1>5. RowsUpTo(0) = 0
  BY <1>3, <1>4, FS_EmptySet
<1>6. QED
  BY <1>1, <1>2, <1>4, <1>5, CountOneMore

(* More lines have no fewer rows.                                           *)
LEMMA RowsMonotone ==
    ASSUME NEW m \in Nat, NEW k \in 0 .. m
    PROVE  RowsUpTo(k) <= RowsUpTo(m)
<1>1. RowLinesUpTo(k) \in SUBSET RowLinesUpTo(m)
  BY DEF RowLinesUpTo
<1>2. RowLinesUpTo(m) \in SUBSET (1 .. m)
  BY DEF RowLinesUpTo
<1>3. IsFiniteSet(RowLinesUpTo(m))
  BY <1>2, FS_Interval, FS_Subset
<1>4. Cardinality(RowLinesUpTo(k)) <= Cardinality(RowLinesUpTo(m))
  BY <1>1, <1>3, FS_Subset
<1>5. QED
  BY <1>4 DEF RowsUpTo, RowLinesUpTo

(* A row of a file that ends with a newline and has no byte 0xFF is counted *)
(* as a line.                                                               *)
LEMMA RowsCounted ==
    ASSUME FileTypeOK, file.terminated, file.eofByte = 0,
           NEW m \in 0 .. Len(file.lines)
    PROVE  RowsUpTo(m) <= Cardinality(CountedUpTo(Len(file.lines)))
<1> DEFINE all == Len(file.lines)
<1>1. all \in Nat
  BY DEF FileTypeOK, File
<1>2. RowLinesUpTo(m) \in SUBSET CountedUpTo(all)
  BY <1>1 DEF RowLinesUpTo, CountedUpTo, Counted, Ended, ReadsOn, IsRow
<1>3. CountedUpTo(all) \in SUBSET (1 .. all)
  BY DEF CountedUpTo
<1>4. IsFiniteSet(CountedUpTo(all))
  <2>1. IsFiniteSet(1 .. all)
    BY <1>1, FS_Interval
  <2>2. QED
    BY <1>3, <2>1, FS_Subset
<1>5. Cardinality(RowLinesUpTo(m)) <= Cardinality(CountedUpTo(all))
  BY <1>2, <1>4, FS_Subset
<1>6. QED
  BY <1>5 DEF RowsUpTo, RowLinesUpTo

(* Where calculateLines() stops it has counted all it ever will.            *)
LEMMA CountedInAll ==
    ASSUME FileTypeOK, position = Len(file.lines) \/ ~ReadsOn(position + 1)
    PROVE  CountedUpTo(position) = CountedUpTo(Len(file.lines))
<1>1. /\ position \in 0 .. Len(file.lines) /\ Len(file.lines) \in Nat
      /\ file.eofByte \in Nat
  BY DEF FileTypeOK, File
<1>2. CASE position = Len(file.lines)
  BY <1>2
<1>3. CASE ~ReadsOn(position + 1)
  <2>1. ASSUME NEW k \in position + 1 .. Len(file.lines)
        PROVE  ~Counted(k)
    BY <1>1, <1>3 DEF Counted, ReadsOn
  <2>2. QED
    BY <1>1, <2>1 DEF CountedUpTo
<1>4. QED
  BY <1>2, <1>3

-----------------------------------------------------------------------------
(* The two readers of the file.                                             *)

(* Where each of them is: calculateLines() has counted the lines up to      *)
(* position, parse_csv() has stored the rows up to there and met nothing    *)
(* malformed, and has not stored more than it looks for, but for the first  *)
(* one.  What it has written behind the array it wrote after filling it.    *)
Readers ==
    /\ ~config.custom => config.numRequests = 0
    /\ config.custom /\ Accepted /\ phase # "start" =>
         numRequests = config.numRequests
    /\ phase \in {"options", "help", "refused", "start"} =>
         position = 0 /\ parsed = 0 /\ ~damaged
    /\ phase = "count" =>
         /\ parsed = 0 /\ ~damaged /\ ~config.custom
         /\ numRequests = Cardinality(CountedUpTo(position))
    /\ phase = "allocate" => position = 0 /\ parsed = 0 /\ ~damaged
    /\ phase \in {"allocate", "parse"} /\ ~config.custom =>
         numRequests = Cardinality(CountedUpTo(Len(file.lines)))
    /\ phase = "parse" =>
         /\ parsed = RowsUpTo(position) /\ WellFormedUpTo(position)
         /\ config.custom => parsed <= 1 \/ parsed <= Wanted
         /\ damaged => parsed > numRequests

(* All rows have been counted, or their number was given.                   *)
WholeFile == config.custom \/ (file.terminated /\ file.eofByte = 0)

ReadersInv == FileTypeOK /\ Readers /\ ArraySuffices /\ AcceptsWellFormedFiles

(* What the invariants say of a state in which parse_csv() reads.           *)
LEMMA WantedBelow ==
    ASSUME FileTypeOK
    PROVE  Wanted \in Int /\ Wanted <= numRequests /\ numRequests \in Nat
<1>1. numRequests \in Nat /\ numRequests \in Int
  BY DEF FileTypeOK
<1>2. QED
  BY <1>1, ConversionType, NarrowedBelow DEF Wanted

(* The array reaches to where parse_csv() stores its next request: a file   *)
(* that ends with a newline and has no byte 0xFF has been counted in full,  *)
(* and with --num-requests the loop ends in time.                           *)
LEMMA RoomForRow ==
    ASSUME ReadersInv, phase = "parse", position < Len(file.lines), ~Enough,
           IsRow(file.lines[position + 1]), WholeFile
    PROVE  parsed \in DOMAIN requests
<1>1. /\ position \in Nat /\ parsed \in Nat /\ numRequests \in Nat
      /\ DOMAIN requests = 0 .. numRequests
      /\ position + 1 \in 0 .. Len(file.lines)
  BY DEF ReadersInv, FileTypeOK, File
<1>2. CASE config.custom
  <2>1. Wanted \in Int /\ Wanted <= numRequests
    BY WantedBelow DEF ReadersInv
  <2>2. QED
    BY <1>1, <1>2, <2>1 DEF Enough
<1>3. CASE ~config.custom
  <2>1. RowsUpTo(position + 1) = parsed + 1
    BY <1>1, RowsStep DEF ReadersInv, Readers
  <2>2. RowsUpTo(position + 1) <= Cardinality(CountedUpTo(Len(file.lines)))
    BY <1>1, <1>3, RowsCounted DEF ReadersInv, WholeFile
  <2>3. numRequests = Cardinality(CountedUpTo(Len(file.lines)))
    BY <1>3 DEF ReadersInv, Readers
  <2>4. QED
    BY <1>1, <2>1, <2>2, <2>3
<1>4. QED
  BY <1>2, <1>3

(* ... and to where it stores the marker.                                   *)
LEMMA RoomForMarker ==
    ASSUME ReadersInv, Parsed, WholeFile
    PROVE  parsed \in DOMAIN requests
<1>1. /\ position \in 0 .. Len(file.lines) /\ parsed \in Nat
      /\ numRequests \in Nat /\ phase = "parse"
      /\ DOMAIN requests = 0 .. numRequests
  BY DEF ReadersInv, FileTypeOK, Parsed, LoopLeft
<1>2. CASE config.custom
  <2>1. parsed = Wanted /\ Wanted <= numRequests
    BY <1>2, WantedBelow DEF ReadersInv, Parsed
  <2>2. QED
    BY <1>1, <2>1
<1>3. CASE ~config.custom
  <2>1. parsed <= Cardinality(CountedUpTo(Len(file.lines)))
    BY <1>1, <1>3, RowsCounted DEF ReadersInv, Readers, WholeFile
  <2>2. numRequests = Cardinality(CountedUpTo(Len(file.lines)))
    BY <1>1, <1>3 DEF ReadersInv, Readers
  <2>3. QED
    BY <1>1, <2>1, <2>2
<1>4. QED
  BY <1>2, <1>3

(* --num-requests is what parse_csv() looks for, if an int keeps it.        *)
LEMMA WantedIsAsked ==
    ASSUME ReadersInv, phase = "parse", config.custom, NumberKept
    PROVE  Wanted = config.numRequests /\ config.numRequests \in Nat
<1>1. numRequests = config.numRequests /\ numRequests \in Nat
  BY DEF ReadersInv, Readers, FileTypeOK, Accepted
<1>2. QED
  BY <1>1 DEF NumberKept, Wanted

(* When parse_csv() accepts, everything it had to read is well-formed and   *)
(* it has as many rows as it was asked for.                                 *)
LEMMA AcceptedIsAcceptable ==
    ASSUME ReadersInv, Parsed, NumberKept
    PROVE  Acceptable
<1> DEFINE all == Len(file.lines)
<1>1. /\ all \in Nat /\ position \in 0 .. all /\ parsed \in Nat
      /\ phase = "parse" /\ (Enough \/ position = all)
      /\ parsed = RowsUpTo(position) /\ WellFormedUpTo(position)
      /\ ~config.custom \/ parsed = Wanted
  BY DEF ReadersInv, Readers, FileTypeOK, File, Parsed, LoopLeft
<1>2. CASE config.custom
  <2>1. RowsUpTo(position) >= config.numRequests
    BY <1>1, <1>2, WantedIsAsked
  <2>2. QED
    BY <1>1, <1>2, <2>1 DEF Acceptable
<1>3. CASE ~config.custom
  BY <1>1, <1>3 DEF Acceptable, Enough
<1>4. QED
  BY <1>2, <1>3

(* While parse_csv() wants another row, no part of the file that it has     *)
(* read would have been enough.                                             *)
LEMMA NotYetEnough ==
    ASSUME ReadersInv, phase = "parse", config.custom, NumberKept,
           config.numRequests # 0, ~Enough, NEW k \in 0 .. position
    PROVE  ~(RowsUpTo(k) >= config.numRequests)
<1>1. /\ position \in Nat /\ k \in Nat /\ parsed \in Nat
      /\ parsed = RowsUpTo(position)
      /\ Wanted = config.numRequests /\ config.numRequests \in Nat
  BY WantedIsAsked DEF ReadersInv, Readers, FileTypeOK, File
<1>2. RowsUpTo(k) \in Nat /\ RowsUpTo(k) <= parsed
  BY <1>1, RowsStep, RowsMonotone
<1>3. QED
  BY <1>1, <1>2 DEF Enough

(* When it refuses a line or the number of rows, the file is not one it     *)
(* should accept, unless no request at all was asked for.                   *)
LEMMA RefusedIsUnacceptable ==
    ASSUME ReadersInv, RejectLine \/ TooFewRows, NumberKept,
           ~config.custom \/ config.numRequests # 0
    PROVE  ~Acceptable
<1> DEFINE all == Len(file.lines)
<1>1. /\ all \in Nat /\ position \in 0 .. all /\ parsed \in Nat
      /\ phase = "parse"
      /\ config.custom => parsed <= 1 \/ parsed <= Wanted
  BY DEF ReadersInv, Readers, FileTypeOK, File, RejectLine, NextLineIs,
         TooFewRows, LoopLeft
<1>2. CASE RejectLine
  <2>1. /\ position + 1 \in 1 .. all /\ ~Enough
        /\ file.lines[position + 1].kind = "malformed"
    BY <1>1, <1>2 DEF RejectLine, NextLineIs
  <2>2. \A k \in position + 1 .. all : ~WellFormedUpTo(k)
    BY <1>1, <2>1 DEF WellFormedUpTo
  <2>3. CASE ~config.custom
    BY <1>1, <2>1, <2>2, <2>3 DEF Acceptable
  <2>4. CASE config.custom
    <3>1. \A k \in 0 .. position : ~(RowsUpTo(k) >= config.numRequests)
      BY <1>1, <2>1, <2>4, NotYetEnough
    <3>2. QED
      BY <1>1, <2>2, <2>4, <3>1 DEF Acceptable
  <2>5. QED
    BY <2>3, <2>4
<1>3. CASE TooFewRows
  <2>1. config.custom /\ parsed # Wanted /\ (Enough \/ position = all)
    BY <1>3 DEF TooFewRows, LoopLeft
  <2>2. Wanted = config.numRequests /\ config.numRequests \in Nat \ {0}
    BY <1>1, <2>1, WantedIsAsked
  <2>3. ~Enough
    BY <1>1, <2>1, <2>2 DEF Enough
  <2>4. \A k \in 0 .. all : ~(RowsUpTo(k) >= config.numRequests)
    BY <1>1, <2>1, <2>2, <2>3, NotYetEnough
  <2>5. QED
    BY <2>1, <2>4 DEF Acceptable
<1>4. QED
  BY <1>2, <1>3

(* A new program has read nothing.                                          *)
LEMMA InitReaders == FileInit => ReadersInv
<1> SUFFICES ASSUME FileInit PROVE ReadersInv
  OBVIOUS
<1>1. FileTypeOK
  BY InitFileType
<1>2. damaged = FALSE
  BY Zenon DEF FileInit
<1>3. /\ phase = "options" /\ position = 0 /\ parsed = 0
      /\ config.numRequests = 0
  BY DEF FileInit, CommandLineInit, Defaults
<1>4. Readers
  BY <1>2, <1>3 DEF Readers, Accepted
<1>5. QED
  BY <1>1, <1>2, <1>3, <1>4
     DEF ReadersInv, ArraySuffices, AcceptsWellFormedFiles

(* A step that leaves alone what the outcome depends on leaves it right.    *)
LEMMA SameOutcome ==
    ASSUME AcceptsWellFormedFiles, ArraySuffices,
           UNCHANGED <<file, config, damaged>>,
           \/ phase' \notin {"parsed", "failed"}
           \/ phase' = phase /\ numRequests' = numRequests
    PROVE  AcceptsWellFormedFiles' /\ ArraySuffices'
<1>1. ArraySuffices'
  BY DEF ArraySuffices
<1>2. CASE phase' \notin {"parsed", "failed"}
  BY <1>1, <1>2 DEF AcceptsWellFormedFiles
<1>3. CASE phase' = phase /\ numRequests' = numRequests
  BY <1>1, <1>3
     DEF AcceptsWellFormedFiles, NumberKept, Acceptable, RowsUpTo, WellFormedUpTo
<1>4. QED
  BY <1>2, <1>3

(* What the lines read so far say does not change while the file does not.  *)
LEMMA SamePlace ==
    ASSUME file' = file, position' = position
    PROVE  /\ RowsUpTo(position)' = RowsUpTo(position)
           /\ WellFormedUpTo(position)' = WellFormedUpTo(position)
           /\ Cardinality(CountedUpTo(position))' = Cardinality(CountedUpTo(position))
  BY DEF RowsUpTo, WellFormedUpTo, CountedUpTo, Counted, Ended, ReadsOn

LEMMA SameTotal ==
    ASSUME file' = file
    PROVE  Cardinality(CountedUpTo(Len(file.lines)))'
             = Cardinality(CountedUpTo(Len(file.lines)))
  BY DEF CountedUpTo, Counted, Ended, ReadsOn

(* One line more has been read.                                             *)
LEMMA NextPlace ==
    ASSUME FileTypeOK, file' = file, position' = position + 1
    PROVE  /\ RowsUpTo(position)'
                = IF IsRow(file.lines[position + 1]) THEN RowsUpTo(position) + 1
                                                     ELSE RowsUpTo(position)
           /\ WellFormedUpTo(position)
                /\ file.lines[position + 1].kind # "malformed"
                => WellFormedUpTo(position)'
           /\ Cardinality(CountedUpTo(position))'
                = IF Counted(position + 1)
                  THEN Cardinality(CountedUpTo(position)) + 1
                  ELSE Cardinality(CountedUpTo(position))
<1>1. position \in Nat
  BY DEF FileTypeOK, File
<1>2. RowsUpTo(position)' = RowsUpTo(position + 1)
  BY DEF RowsUpTo
<1>3. WellFormedUpTo(position) /\ file.lines[position + 1].kind # "malformed"
        => WellFormedUpTo(position)'
  BY <1>1 DEF WellFormedUpTo
<1>4. Cardinality(CountedUpTo(position))' = Cardinality(CountedUpTo(position + 1))
  BY DEF CountedUpTo, Counted, Ended, ReadsOn
<1>5. QED
  BY <1>1, <1>2, <1>3, <1>4, RowsStep, CountedStep

(* parse_user_input() does not touch the file, and num-requests is the      *)
(* default unless it was given.                                             *)
LEMMA OptionsKeepReaders ==
    ASSUME ReadersInv, parse_user_input, UNCHANGED fileVars
    PROVE  Readers' /\ ArraySuffices' /\ AcceptsWellFormedFiles'
<1>1. /\ CommandLineTypeOK /\ phase = "options"
      /\ phase' \in {"options", "help", "refused", "start"}
  BY CommandLineType DEF ReadersInv, FileTypeOK
<1>2. UNCHANGED <<file, position, numRequests, parsed, damaged>>
  BY DEF fileVars, arrayVars
<1>3. position = 0 /\ parsed = 0 /\ ~damaged
  BY <1>1 DEF ReadersInv, Readers
<1>4. ~config'.custom => config'.numRequests = 0
  <2>1. CASE ReadNumber
    <3>1. /\ NextArgument.kind = "number" /\ argument < Len(arguments)
          /\ config' = Stored(config, NextArgument.name, NextArgument.value)
      BY <2>1 DEF ReadNumber, NextIs
    <3>2. config \in Config
      BY <1>1 DEF CommandLineTypeOK
    <3>3. ~config'.custom => ~config.custom /\ config'.numRequests = config.numRequests
      BY <1>1, <3>1, <3>2, NextArgumentType, StoredType
    <3>4. QED
      BY <3>3 DEF ReadersInv, Readers
  <2>2. CASE ~ReadNumber
    <3>1. /\ config'.custom = config.custom
          /\ config'.numRequests = config.numRequests
      BY <1>1, <2>2
         DEF parse_user_input, ReadWord, PassOver, RefuseArgument, print_help,
             CheckConfig, commandLineVars, CommandLineTypeOK, Config
    <3>2. QED
      BY <3>1 DEF ReadersInv, Readers
  <2>3. QED
    BY <2>1, <2>2
<1>5. Readers'
  BY <1>1, <1>2, <1>3, <1>4 DEF Readers, Accepted
<1>6. QED
  BY <1>1, <1>2, <1>3, <1>5 DEF ArraySuffices, AcceptsWellFormedFiles

(* Every step of start_parse() keeps both readers where they are.           *)
LEMMA NextReaders ==
    ASSUME ReadersInv, [start_parse]_parseVars
    PROVE  ReadersInv'
<1>1. /\ FileTypeOK' /\ FileTypeOK /\ Readers
      /\ ArraySuffices /\ AcceptsWellFormedFiles
  BY NextFileType DEF ReadersInv
<1>2. /\ position \in Nat /\ parsed \in Nat /\ numRequests \in Nat
      /\ Len(file.lines) \in Nat
  BY <1>1 DEF FileTypeOK, File
<1>3. CASE parse_user_input /\ UNCHANGED fileVars
  BY <1>1, <1>3, OptionsKeepReaders DEF ReadersInv
<1>4. CASE StartFile
  <2>1. /\ phase = "start" /\ phase' = IF config.custom THEN "allocate" ELSE "count"
        /\ numRequests' = config.numRequests
        /\ UNCHANGED <<config, file, position, parsed, damaged>>
    BY <1>4 DEF StartFile, commandLineVars, arrayVars
  <2>2. position = 0 /\ parsed = 0 /\ ~damaged
    BY <1>1, <2>1 DEF Readers
  <2>3. ~config.custom => numRequests' = Cardinality(CountedUpTo(position))
    BY <1>1, <2>1, <2>2, CountedStep DEF Readers
  <2>4. Readers'
    BY <1>1, <2>1, <2>2, <2>3, SamePlace DEF Readers, Accepted
  <2>5. QED
    BY <1>1, <2>1, <2>4, SameOutcome DEF ReadersInv
<1>5. CASE CountLine
  <2>1. /\ phase = "count" /\ phase' = "count" /\ position' = position + 1
        /\ numRequests' = IF Counted(position + 1) THEN numRequests + 1
                                                   ELSE numRequests
        /\ UNCHANGED <<config, file, parsed, damaged>>
    BY <1>5 DEF CountLine, commandLineVars, arrayVars
  <2>2. Readers'
    BY <1>1, <2>1, NextPlace DEF Readers, Accepted
  <2>3. QED
    BY <1>1, <2>1, <2>2, SameOutcome DEF ReadersInv
<1>6. CASE LinesCounted
  <2>1. /\ phase = "count" /\ phase' = "allocate" /\ position' = 0
        /\ position = Len(file.lines) \/ ~ReadsOn(position + 1)
        /\ UNCHANGED <<config, file, numRequests, parsed, damaged>>
    BY <1>6 DEF LinesCounted, commandLineVars, arrayVars
  <2>2. Readers'
    BY <1>1, <2>1, SameTotal, CountedInAll DEF Readers, Accepted
  <2>3. QED
    BY <1>1, <2>1, <2>2, SameOutcome DEF ReadersInv
<1>7. CASE Allocate
  <2>1. /\ phase = "allocate"
        /\ \/ phase' = "parse"
           \/ phase' = "failed" /\ ~(numRequests < MaxElements)
        /\ UNCHANGED <<config, file, position, numRequests, parsed, damaged>>
    BY <1>7 DEF Allocate, commandLineVars
  <2>2. RowsUpTo(0) = 0 /\ WellFormedUpTo(0)
    BY RowsStep DEF WellFormedUpTo
  <2>3. Readers'
    BY <1>1, <2>1, <2>2, SamePlace, SameTotal DEF Readers, Accepted
  <2>4. MaxElements \in Nat
    BY FileAssumption
  <2>5. ArraySuffices' /\ AcceptsWellFormedFiles'
    BY <1>1, <1>2, <2>1, <2>4 DEF ArraySuffices, AcceptsWellFormedFiles
  <2>6. QED
    BY <1>1, <2>3, <2>5 DEF ReadersInv
<1>8. CASE SkipLine
  <2>1. /\ phase = "parse" /\ phase' = "parse" /\ position' = position + 1
        /\ file.lines[position + 1].kind \in {"empty", "ignored"}
        /\ UNCHANGED <<config, file, numRequests, parsed, damaged>>
    BY <1>8 DEF SkipLine, NextLineIs, commandLineVars, arrayVars
  <2>2. /\ ~IsRow(file.lines[position + 1])
        /\ file.lines[position + 1].kind # "malformed"
    BY <2>1 DEF IsRow
  <2>3. Readers'
    BY <1>1, <2>1, <2>2, NextPlace, SameTotal DEF Readers, Wanted, Accepted
  <2>4. QED
    BY <1>1, <2>1, <2>3, SameOutcome DEF ReadersInv
<1>9. CASE ReadRow
  <2>1. /\ phase = "parse" /\ phase' = "parse" /\ position' = position + 1
        /\ position < Len(file.lines) /\ ~Enough
        /\ IsRow(file.lines[position + 1]) /\ parsed' = parsed + 1
        /\ file.lines[position + 1].kind # "malformed"
        /\ UNCHANGED <<config, file, numRequests>>
    BY <1>9 DEF ReadRow, NextLineIs, IsRow, commandLineVars
  <2>2. config.custom => parsed + 1 <= 1 \/ parsed + 1 <= Wanted
    BY <1>1, <1>2, <2>1, WantedBelow DEF Enough
  <2>3. damaged' => parsed + 1 > numRequests
    <3>1. DOMAIN requests = 0 .. numRequests
      BY <1>1, <2>1 DEF FileTypeOK
    <3>2. damaged => parsed > numRequests
      BY <1>1, <2>1 DEF Readers
    <3>3. damaged' => damaged \/ parsed \notin DOMAIN requests
      BY <1>9 DEF ReadRow, StoreElement
    <3>4. QED
      BY <1>2, <3>1, <3>2, <3>3
  <2>4. Readers'
    BY <1>1, <2>1, <2>2, <2>3, NextPlace, SameTotal DEF Readers, Wanted, Accepted
  <2>5. WholeFile => ~damaged'
    <3>1. SUFFICES ASSUME WholeFile PROVE ~damaged'
      OBVIOUS
    <3>2. parsed \in DOMAIN requests
      BY <2>1, <3>1, RoomForRow
    <3>3. ~damaged
      BY <1>1, <3>1 DEF ArraySuffices, WholeFile
    <3>4. QED
      BY <1>9, <3>2, <3>3 DEF ReadRow, StoreElement
  <2>6. ArraySuffices' /\ AcceptsWellFormedFiles'
    BY <2>1, <2>5 DEF ArraySuffices, AcceptsWellFormedFiles, WholeFile
  <2>7. QED
    BY <1>1, <2>4, <2>6 DEF ReadersInv
<1>10. CASE Parsed
  <2>1. /\ phase = "parse" /\ phase' = "parsed" /\ file.readable
        /\ StoreElement(parsed, End)
        /\ UNCHANGED <<config, file, numRequests>>
    BY <1>10 DEF Parsed, LoopLeft, commandLineVars
  <2>2. NumberKept' => Acceptable'
    <3>1. NumberKept => Acceptable
      BY <1>10, AcceptedIsAcceptable
    <3>2. QED
      BY <2>1, <3>1 DEF Acceptable, NumberKept, RowsUpTo, WellFormedUpTo
  <2>3. WholeFile => ~damaged'
    <3>1. SUFFICES ASSUME WholeFile PROVE ~damaged'
      OBVIOUS
    <3>2. parsed \in DOMAIN requests
      BY <1>10, <3>1, RoomForMarker
    <3>3. ~damaged
      BY <1>1, <3>1 DEF ArraySuffices, WholeFile
    <3>4. QED
      BY <2>1, <3>2, <3>3 DEF StoreElement
  <2>4. Readers'
    BY <1>1, <2>1 DEF Readers, Accepted
  <2>5. ArraySuffices' /\ AcceptsWellFormedFiles'
    BY <2>1, <2>2, <2>3 DEF ArraySuffices, AcceptsWellFormedFiles, WholeFile
  <2>6. QED
    BY <1>1, <2>4, <2>5 DEF ReadersInv
<1>11. CASE CannotOpen
  <2>1. /\ ~file.readable /\ phase' = "failed" /\ phase \in {"count", "parse"}
        /\ UNCHANGED <<config, file, position, numRequests, parsed, damaged>>
    BY <1>11 DEF CannotOpen, commandLineVars, fileVars, arrayVars
  <2>2. Readers' /\ ArraySuffices' /\ AcceptsWellFormedFiles'
    BY <1>1, <2>1 DEF Readers, Accepted, ArraySuffices, AcceptsWellFormedFiles
  <2>3. QED
    BY <1>1, <2>2 DEF ReadersInv
<1>12. CASE RejectLine \/ TooFewRows
  <2>1. /\ phase = "parse" /\ phase' = "failed"
        /\ UNCHANGED <<config, file, position, numRequests, parsed, damaged>>
    BY <1>12 DEF RejectLine, TooFewRows, NextLineIs, LoopLeft,
                 commandLineVars, fileVars, arrayVars
  <2>2. NumberKept' => \/ ~Acceptable'
                       \/ config.custom /\ config.numRequests = 0
    <3>1. NumberKept => \/ ~Acceptable
                        \/ config.custom /\ config.numRequests = 0
      BY <1>12, RefusedIsUnacceptable
    <3>2. QED
      BY <2>1, <3>1 DEF Acceptable, NumberKept, RowsUpTo, WellFormedUpTo
  <2>3. Readers' /\ ArraySuffices' /\ AcceptsWellFormedFiles'
    BY <1>1, <2>1, <2>2
       DEF Readers, Accepted, ArraySuffices, AcceptsWellFormedFiles
  <2>4. QED
    BY <1>1, <2>3 DEF ReadersInv
<1>13. CASE Abort
  <2>1. /\ phase \in {"parse", "parsed"}
        /\ phase' \in {"parsed", "failed", "aborted"} /\ damaged
        /\ UNCHANGED <<config, file, position, numRequests, parsed, damaged>>
    BY <1>13 DEF Abort, commandLineVars, fileVars, arrayVars
  <2>2. Readers' /\ ArraySuffices' /\ AcceptsWellFormedFiles'
    BY <1>1, <2>1 DEF Readers, Accepted, ArraySuffices, AcceptsWellFormedFiles
  <2>3. QED
    BY <1>1, <2>2 DEF ReadersInv
<1>14. CASE UNCHANGED parseVars
  <2>1. UNCHANGED <<config, phase, file, position, numRequests, parsed, damaged>>
    BY <1>14 DEF parseVars, commandLineVars, fileVars, arrayVars
  <2>2. Readers'
    BY <1>1, <2>1, SamePlace, SameTotal DEF Readers, Wanted, Accepted
  <2>3. QED
    BY <1>1, <2>1, <2>2, SameOutcome DEF ReadersInv
<1>15. QED
  BY <1>3, <1>4, <1>5, <1>6, <1>7, <1>8, <1>9, <1>10, <1>11, <1>12, <1>13,
     <1>14 DEF start_parse

LEMMA ReadersCorrect == FileSpec => []ReadersInv
  BY InitReaders, NextReaders, PTL DEF FileSpec

(* Nothing is ever written behind the array, for every file that ends with  *)
(* a newline and has no byte 0xFF, and for every file if --num-requests is  *)
(* given (parse.c).                                                         *)
THEOREM ArrayCorrect == FileSpec => []ArraySuffices
<1>1. ReadersInv => ArraySuffices
  BY DEF ReadersInv
<1>2. QED
  BY <1>1, ReadersCorrect, PTL

(* Whatever their length and lines, files are accepted exactly as the rules *)
(* in parse_csv() demand, for every number of requests that an int keeps,   *)
(* but for 0 (csv_parser.c), unless the array was too short.                *)
THEOREM AcceptanceCorrect == FileSpec => []AcceptsWellFormedFiles
<1>1. ReadersInv => AcceptsWellFormedFiles
  BY DEF ReadersInv
<1>2. QED
  BY <1>1, ReadersCorrect, PTL
=============================================================================
