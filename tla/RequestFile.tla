---------------------------- MODULE RequestFile ----------------------------
(***************************************************************************)
(* From the .csv file to the array of requests: calculateLines() and the    *)
(* rest of start_parse() (parse.c), parse_csv() (csv_parser.c).  The array  *)
(* is sized by one reading of the file and filled by another, and the two   *)
(* readers agree neither on what a line is nor on where the file ends.  A   *)
(* line is one of                                                           *)
(*   empty      nothing before the newline;                                 *)
(*   ignored    blanks only, or a comma in front: a line to calculateLines, *)
(*              nothing to parse_csv;                                       *)
(*   malformed  refused by parse_csv;                                       *)
(*   row        a request;                                                  *)
(*   garbled    R or W with the right number of fields, which sscanf cannot *)
(*              read as numbers: the element keeps what malloc left in it.  *)
(* Lines longer than the buffers of parse_csv are left out.  A byte 0xFF    *)
(* ends the file for calculateLines() only, which keeps what fgetc() returns *)
(* in a char, signed as on x86.                                             *)
(***************************************************************************)
EXTENDS CommandLine

CONSTANTS
    Files,         \* what the file with the given name may contain
    RowRequests,   \* the requests a row may stand for
    Leftovers,     \* those that memory malloc() returns may happen to hold
    MaxElements    \* the longest array malloc() can provide

VARIABLES
    file,            \* the file
    position,        \* lines of the file read so far
    numRequests,     \* config->numRequests
    requests,        \* config->requests
    parsed,          \* i, the requests parse_csv() has stored
    damaged          \* an element behind the array has been written

arrayVars == <<requests, parsed, damaged>>
fileVars == <<file, position, numRequests, arrayVars>>
parseVars == <<commandLineVars, phase, fileVars>>

FileLine == [kind : {"empty", "ignored", "malformed"}]
                \cup [kind : {"row"}, request : RowRequests]
                \cup [kind : {"garbled"}, we : BOOLEAN]

(* A file ends with a newline (terminated) or in the middle of a line; it   *)
(* can be opened (readable) or not; eofByte is the first line that has a    *)
(* byte 0xFF, 0 if there is none.                                           *)
File == [lines : Seq(FileLine), terminated : BOOLEAN, readable : BOOLEAN,
         eofByte : Nat]

Element == [kind : {"unset", "end"}] \cup [kind : {"request"}, request : RowRequests]
Unset == [kind |-> "unset"]
End == [kind |-> "end"]

(* Both readers count in an int: longer files are left out.                 *)
ASSUME FileAssumption ==
    /\ Files \subseteq File
    /\ \A f \in Files :
          /\ 2 * Len(f.lines) < IntModulus
          /\ f.eofByte # 0 => /\ f.eofByte \in DOMAIN f.lines
                              /\ f.lines[f.eofByte].kind # "empty"
    /\ Leftovers \subseteq RowRequests
    /\ MaxElements \in Nat

(* config, the array and the positions of both readers keep their types, and *)
(* the array has the marker's element beside those of the requests           *)
(* (start_parse(): "Allocate (numRequests + 1)").                            *)
FileTypeOK ==
    /\ CommandLineTypeOK
    /\ file \in File
    /\ position \in 0 .. Len(file.lines)
    /\ numRequests \in Nat /\ parsed \in Nat /\ damaged \in BOOLEAN
    /\ phase \in {"parse", "parsed", "aborted"} =>
           requests \in [0 .. numRequests -> Element]

FileInit ==
    /\ CommandLineInit
    /\ phase = "options"
    /\ file \in Files
    /\ position = 0 /\ numRequests = 0
    /\ requests = <<>> /\ parsed = 0 /\ damaged = FALSE

(* if (!(config->customNumRequest))                                         *)
StartFile ==
    /\ phase = "start"
    /\ phase' = IF config.custom THEN "allocate" ELSE "count"
    /\ numRequests' = config.numRequests
    /\ UNCHANGED <<commandLineVars, file, position, arrayVars>>

(* fopen() in calculateLines() or, with --num-requests, in parse_csv().     *)
CannotOpen ==
    /\ phase \in {"count", "parse"}
    /\ ~file.readable
    /\ phase' = "failed"
    /\ UNCHANGED <<commandLineVars, fileVars>>

-----------------------------------------------------------------------------
(* calculateLines()                                                         *)

(* ch == EOF before the newline of line k, or not.                          *)
ReadsOn(k) == file.eofByte = 0 \/ k < file.eofByte

(* count++ happens at a newline, after at least one other character.        *)
Ended(k) == file.terminated \/ k < Len(file.lines)
Counted(k) == file.lines[k].kind # "empty" /\ Ended(k) /\ ReadsOn(k)

CountLine ==
    /\ phase = "count" /\ file.readable
    /\ position < Len(file.lines) /\ ReadsOn(position + 1)
    /\ position' = position + 1
    /\ numRequests' = IF Counted(position + 1) THEN numRequests + 1
                                               ELSE numRequests
    /\ UNCHANGED <<commandLineVars, phase, file, arrayVars>>

LinesCounted ==
    /\ phase = "count" /\ file.readable
    /\ position = Len(file.lines) \/ ~ReadsOn(position + 1)
    /\ phase' = "allocate"
    /\ position' = 0
    /\ UNCHANGED <<commandLineVars, file, numRequests, arrayVars>>

(* A mistake: no room for the marker, but for an empty file.                *)
AllocateExactly ==
    /\ phase = "allocate"
    /\ phase' = "parse"
    /\ requests' = [i \in 0 .. numRequests - 1 |-> Unset]
    /\ UNCHANGED <<commandLineVars, file, position, numRequests, parsed, damaged>>

(* malloc((numRequests + 1) * sizeof(struct Request))                       *)
Allocate ==
    /\ phase = "allocate"
    /\ IF numRequests < MaxElements
       THEN /\ phase' = "parse"
            /\ requests' = [i \in 0 .. numRequests |-> Unset]
       ELSE phase' = "failed" /\ UNCHANGED requests
    /\ UNCHANGED <<commandLineVars, file, position, numRequests, parsed, damaged>>

-----------------------------------------------------------------------------
(* parse_csv()                                                              *)

(* The parameter int numRequests.                                           *)
Wanted == AsInt(numRequests)

(* A mistake: one row more than was asked for.                              *)
EnoughLate == config.custom /\ parsed > 0 /\ parsed > Wanted

(* The test at the end of the loop, which only a row reaches.               *)
Enough == config.custom /\ parsed > 0 /\ parsed >= Wanted

(* requests[i] = e; behind the array it changes something else.             *)
StoreElement(i, e) ==
    IF i \in DOMAIN requests
    THEN requests' = [requests EXCEPT ![i] = e] /\ UNCHANGED damaged
    ELSE damaged' = TRUE /\ UNCHANGED requests

NextLineIs(kinds) ==
    /\ phase = "parse" /\ file.readable /\ ~Enough
    /\ position < Len(file.lines)
    /\ file.lines[position + 1].kind \in kinds

(* A mistake: nothing but a valid row moves on to the next line.            *)
SkipStays ==
    /\ NextLineIs({"empty", "ignored"})
    /\ UNCHANGED parseVars

SkipLine ==
    /\ NextLineIs({"empty", "ignored"})
    /\ position' = position + 1
    /\ UNCHANGED <<commandLineVars, phase, file, numRequests, arrayVars>>

RejectLine ==
    /\ NextLineIs({"malformed"})
    /\ phase' = "failed"
    /\ UNCHANGED <<commandLineVars, fileVars>>

RowOf(line) ==
    IF line.kind = "row" THEN {line.request}
                         ELSE {r \in Leftovers : r.we = line.we}

ReadRow ==
    /\ NextLineIs({"row", "garbled"})
    /\ \E r \in RowOf(file.lines[position + 1]) :
          StoreElement(parsed, [kind |-> "request", request |-> r])
    /\ parsed' = parsed + 1
    /\ position' = position + 1
    /\ UNCHANGED <<commandLineVars, phase, file, numRequests>>

LoopLeft ==
    /\ phase = "parse" /\ file.readable
    /\ Enough \/ position = Len(file.lines)

(* customReq && i != numRequests                                            *)
TooFewRows ==
    /\ LoopLeft
    /\ config.custom /\ parsed # Wanted
    /\ phase' = "failed"
    /\ UNCHANGED <<commandLineVars, fileVars>>

(* A mistake: the marker is left out.                                       *)
ParsedUnmarked ==
    /\ LoopLeft
    /\ ~config.custom \/ parsed = Wanted
    /\ phase' = "parsed"
    /\ UNCHANGED <<commandLineVars, fileVars>>

(* requests[i].we = -1                                                      *)
Parsed ==
    /\ LoopLeft
    /\ ~config.custom \/ parsed = Wanted
    /\ StoreElement(parsed, End)
    /\ phase' = "parsed"
    /\ UNCHANGED <<commandLineVars, file, position, numRequests, parsed>>

(* What was written behind the array may be what malloc() and free() keep   *)
(* there, so that they abort the program at any time or never, or the part  *)
(* of the file that fgets() reads from: parse_csv() then ends either way.   *)
Abort ==
    /\ damaged
    /\ \/ phase = "parse" /\ phase' \in {"parsed", "failed", "aborted"}
       \/ phase = "parsed" /\ phase' = "aborted"
    /\ UNCHANGED <<commandLineVars, fileVars>>

start_parse ==
    \/ parse_user_input /\ UNCHANGED fileVars
    \/ StartFile \/ CannotOpen
    \/ CountLine \/ LinesCounted \/ Allocate
    \/ SkipLine \/ RejectLine \/ ReadRow \/ TooFewRows \/ Parsed \/ Abort

FileSpec == FileInit /\ [][start_parse]_parseVars

-----------------------------------------------------------------------------
IsRow(line) == line.kind \in {"row", "garbled"}

(* Nothing is written outside the array: calculateLines(), which knows       *)
(* nothing of rows, never counts less than parse_csv() finds, unless the last *)
(* line has no newline or a byte 0xFF ends its reading; with --num-requests   *)
(* the narrowing to int never asks for more (parse.c, "Allocate (numRequests  *)
(* + 1) for the .we = -1 marker").                                            *)
ArraySuffices ==
    damaged => ~config.custom /\ (~file.terminated \/ file.eofByte # 0)

RowsUpTo(k) == Cardinality({j \in 1 .. k : IsRow(file.lines[j])})
WellFormedUpTo(k) == \A j \in 1 .. k : file.lines[j].kind # "malformed"

(* No line that has to be read is malformed (rules 1 and 3 of the comment of *)
(* parse_csv()), and there are at least as many rows as requests "to be      *)
(* simulated" (rule 6).  Without --num-requests all lines have to be read.   *)
Acceptable ==
    \E k \in 0 .. Len(file.lines) :
        /\ WellFormedUpTo(k)
        /\ IF config.custom THEN RowsUpTo(k) >= config.numRequests
                            ELSE k = Len(file.lines)

(* The number of --num-requests is the same as a parameter int of parse_csv(). *)
NumberKept == AsInt(config.numRequests) = config.numRequests

(* A file is accepted exactly if it follows the rules, with two exceptions:  *)
(* 0 requests are refused when there is something to read, which rule 6 does *)
(* not ask for, and a number that an int does not keep is not the number of  *)
(* requests that is looked for (parse_csv(), rules 1, 3 and 6 of its         *)
(* comment, and its parameter int numRequests).                              *)
AcceptsWellFormedFiles ==
    NumberKept /\ ~damaged =>
        /\ phase = "parsed" => Acceptable /\ file.readable
        /\ phase = "failed" =>
              \/ ~Acceptable \/ ~file.readable \/ numRequests >= MaxElements
              \/ config.custom /\ config.numRequests = 0
=============================================================================
