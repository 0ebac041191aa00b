---------------------------- MODULE CommandLine ----------------------------
(***************************************************************************)
(* parse_user_input() (terminal_parser.c): the arguments, one iteration of  *)
(* the getopt_long() loop after the other, the conversion of the numbers to *)
(* the 32 bits of their variables, and the checks at the end.               *)
(***************************************************************************)
EXTENDS Integers, Sequences, FiniteSets

CONSTANTS
    CommandLines,   \* the argument lists main() may be given
    IntModulus      \* 2^32: the values of an unsigned int

VARIABLES
    arguments,   \* argv
    argument,    \* the number of arguments getopt_long() has handled
    config,      \* the variables that end up in the Config
    phase        \* where main() is

commandLineVars == <<arguments, argument, config>>

NumberOption == {"cycles", "cacheline-size", "l1-lines", "l2-lines",
                 "l1-latency", "l2-latency", "memory-latency",
                 "num-requests", "prefetch-buffer", "storeback-buffer"}
WordOption == {"storeback-condition", "pretty-print"}

(* complete: strtol() or strtoul() reaches the end without ERANGE.          *)
Argument ==
    [kind : {"number"}, name : NumberOption, value : Int, complete : BOOLEAN]
      \cup [kind : {"word"}, name : WordOption, word : {"true", "false", "other"}]
      \cup [kind : {"file"}, csv : BOOLEAN]
      \cup [kind : {"tf", "help", "unknown"}]

RequestSize == 12   \* sizeof(struct Request)

(* num-requests is a size_t, of twice the bits of an int: numbers with which *)
(* (numRequests + 1) * sizeof(struct Request) does not fit are left out.     *)
ASSUME CommandLineAssumption ==
    /\ IntModulus \in Nat \ {0}
    /\ CommandLines \subseteq Seq(Argument)
    /\ \A line \in CommandLines : \A k \in DOMAIN line :
          /\ line[k].kind = "number"
          /\ line[k].name = "num-requests"
          => /\ line[k].value \in Nat
             /\ (line[k].value + 1) * RequestSize < IntModulus * IntModulus

AsUnsigned(value) == value % IntModulus
AsInt(value) ==
    IF 2 * AsUnsigned(value) >= IntModulus THEN AsUnsigned(value) - IntModulus
                                           ELSE AsUnsigned(value)

Defaults == [cycles |-> IntModulus \div 2 - 1,
             l1Lines |-> 64, l2Lines |-> 256, lineSize |-> 64,
             l1Latency |-> 4, l2Latency |-> 12, memoryLatency |-> 100,
             numRequests |-> 0, custom |-> FALSE,
             prefetch |-> 0, storeback |-> 0, condition |-> FALSE]

Config == [cycles : Int, l1Lines : Nat, l2Lines : Nat, lineSize : Nat,
           l1Latency : Nat, l2Latency : Nat, memoryLatency : Nat,
           numRequests : Nat, custom : BOOLEAN,
           prefetch : Nat, storeback : Nat, condition : BOOLEAN]

(* "generate": before the file exists; "options": in parse_user_input();    *)
(* "help", "refused": it has ended the program; "start": it has returned;   *)
(* "count": in calculateLines(); "parse": in parse_csv(); "parsed": the     *)
(* array is passed to run_simulation(); "failed": no array; "aborted".      *)
Phase == {"generate", "options", "help", "refused", "start",
          "count", "allocate", "parse", "parsed", "failed", "aborted"}

(* The variables of parse_user_input() keep their types: what is stored is   *)
(* never below 0 but for cycles (terminal_parser.c, the declarations).       *)
CommandLineTypeOK ==
    /\ arguments \in CommandLines
    /\ argument \in 0 .. Len(arguments)
    /\ config \in Config
    /\ phase \in Phase

CommandLineInit ==
    /\ arguments \in CommandLines
    /\ argument = 0
    /\ config = Defaults

-----------------------------------------------------------------------------
(* The loop.                                                                *)

NextArgument == arguments[argument + 1]
NextIs(kinds) ==
    /\ phase = "options"
    /\ argument < Len(arguments)
    /\ NextArgument.kind \in kinds

Stored(c, name, value) ==
    LET n == AsUnsigned(value)
    IN CASE name = "cycles" -> [c EXCEPT !.cycles = AsInt(value)]
         [] name = "cacheline-size" -> [c EXCEPT !.lineSize = n]
         [] name = "l1-lines" -> [c EXCEPT !.l1Lines = n]
         [] name = "l2-lines" -> [c EXCEPT !.l2Lines = n]
         [] name = "l1-latency" -> [c EXCEPT !.l1Latency = n]
         [] name = "l2-latency" -> [c EXCEPT !.l2Latency = n]
         [] name = "memory-latency" -> [c EXCEPT !.memoryLatency = n]
         [] name = "num-requests" -> [c EXCEPT !.numRequests = value,
                                               !.custom = TRUE]
         [] name = "prefetch-buffer" -> [c EXCEPT !.prefetch = n]
         [] name = "storeback-buffer" -> [c EXCEPT !.storeback = n]

(* A mistake: an option that is given again is passed over.                 *)
ReadNumberOnce ==
    /\ NextIs({"number"}) /\ NextArgument.complete
    /\ config' = IF \E k \in 1 .. argument :
                       /\ arguments[k].kind = "number"
                       /\ arguments[k].name = NextArgument.name
                 THEN config
                 ELSE Stored(config, NextArgument.name, NextArgument.value)
    /\ argument' = argument + 1
    /\ UNCHANGED <<arguments, phase>>

ReadNumber ==
    /\ NextIs({"number"}) /\ NextArgument.complete
    /\ config' = Stored(config, NextArgument.name, NextArgument.value)
    /\ argument' = argument + 1
    /\ UNCHANGED <<arguments, phase>>

(* --pretty-print, like --tf, only changes the output.                      *)
ReadWord ==
    /\ NextIs({"word"}) /\ NextArgument.word # "other"
    /\ config' = IF NextArgument.name = "storeback-condition"
                 THEN [config EXCEPT !.condition = NextArgument.word = "true"]
                 ELSE config
    /\ argument' = argument + 1
    /\ UNCHANGED <<arguments, phase>>

(* getopt_long() moves what is no option behind the options.                *)
PassOver ==
    /\ NextIs({"tf", "file"})
    /\ argument' = argument + 1
    /\ UNCHANGED <<arguments, config, phase>>

RefuseArgument ==
    /\ \/ NextIs({"number"}) /\ ~NextArgument.complete
       \/ NextIs({"word"}) /\ NextArgument.word = "other"
       \/ NextIs({"unknown"})
    /\ phase' = "refused"
    /\ UNCHANGED commandLineVars

print_help ==
    /\ NextIs({"help"})
    /\ phase' = "help"
    /\ UNCHANGED commandLineVars

-----------------------------------------------------------------------------
(* The checks.                                                              *)

OneCsvFile ==
    LET files == {k \in DOMAIN arguments : arguments[k].kind = "file"}
    IN Cardinality(files) = 1 /\ \A k \in files : arguments[k].csv

(* A mistake: a cache without lines is accepted.                            *)
ConfigValidButLines(c) ==
    /\ c.l1Lines <= c.l2Lines
    /\ c.l1Latency <= c.l2Latency /\ c.l2Latency <= c.memoryLatency
    /\ c.lineSize # 0
    /\ c.cycles >= 0

ConfigValid(c) ==
    /\ c.l1Lines <= c.l2Lines
    /\ c.l1Latency <= c.l2Latency /\ c.l2Latency <= c.memoryLatency
    /\ c.l1Lines # 0 /\ c.l2Lines # 0 /\ c.lineSize # 0
    /\ c.cycles >= 0

CheckConfig ==
    /\ phase = "options"
    /\ argument = Len(arguments)
    /\ phase' = IF OneCsvFile /\ ConfigValid(config) THEN "start" ELSE "refused"
    /\ UNCHANGED commandLineVars

parse_user_input ==
    ReadNumber \/ ReadWord \/ PassOver \/ RefuseArgument \/ print_help \/ CheckConfig

-----------------------------------------------------------------------------
Accepted == phase \notin {"generate", "options", "help", "refused"}

(* What run_simulation() would ask of its arguments; executor.c never calls *)
(* it.  Its last test, for requests that are NULL, is left out: start_parse() *)
(* has ended the program before if there is no memory for them.             *)
input_checker(c) ==
    /\ c.cycles >= 0
    /\ c.l1Lines # 0 /\ c.l2Lines # 0 /\ c.lineSize # 0
    /\ c.l1Lines <= c.l2Lines
    /\ c.l1Latency # 0 /\ c.l2Latency # 0 /\ c.memoryLatency # 0
    /\ c.l1Latency <= c.l2Latency /\ c.l2Latency <= c.memoryLatency

(* The parser asks for as much as input_checker(), after every conversion to *)
(* 32 bits and whatever options follow each other, except for one thing: a   *)
(* latency of 0 for L1 (simulator.cpp: "every input has been checked by      *)
(* parsers that are called by executor.c").                                  *)
InputsChecked == Accepted /\ config.l1Latency # 0 => input_checker(config)

(* Of an option that is given more than once the last value counts, and no   *)
(* option changes what belongs to another (parse_user_input(), the chain of  *)
(* strcmp() over long_index).                                                *)
LastOptionWins ==
    Accepted =>
        \A k \in DOMAIN arguments :
            /\ arguments[k].kind = "number"
            /\ \A later \in k + 1 .. Len(arguments) :
                  arguments[later].kind = "number" =>
                      arguments[later].name # arguments[k].name
            => config = Stored(config, arguments[k].name, arguments[k].value)
=============================================================================
