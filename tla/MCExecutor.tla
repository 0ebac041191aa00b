---------------------------- MODULE MCExecutor ----------------------------
(* Whole runs of the program for TLC: files of up to MCLines lines of every *)
(* kind, with a byte 0xFF in any of them or in none, files of valid rows whose last MCRows the budget ends in, and the  *)
(* files of the generator for a pair of two-by-two matrices.                *)
EXTENDS Executor

CONSTANTS MCLines, MCPrefix, MCRows

MCRowRequests ==
    {[we |-> FALSE, addr |-> 0, data |-> Zero],
     [we |-> FALSE, addr |-> 1, data |-> Zero],
     [we |-> TRUE, addr |-> 0, data |-> 1],
     [we |-> TRUE, addr |-> 1, data |-> 1]}
MCAddress == 0 .. 6 * Area - 1
MCRequests == [we : {FALSE}, addr : MCAddress, data : {Zero}]
                \cup [we : {TRUE}, addr : MCAddress, data : Value]
MCPointers == {<<0, 0>>}

Row(r) == [kind |-> "row", request |-> r]
MCLine ==
    [kind : {"empty", "ignored", "malformed"}] \cup [kind : {"garbled"}, we : {TRUE}]
      \cup {Row(r) : r \in {q \in MCRowRequests : q.addr = 0}}
MCFiles ==
    LET mixed == UNION {[1 .. n -> MCLine] : n \in 0 .. MCLines}
        write == [we |-> TRUE, addr |-> 0, data |-> 1]
        long == {[k \in 1 .. MCPrefix |-> Row(write)] \o s :
                   s \in [1 .. MCRows -> {Row(r) : r \in MCRowRequests}]}
    IN [lines : long, terminated : {TRUE}, readable : {TRUE}, eofByte : {0}]
         \cup {f \in [lines : mixed, terminated : BOOLEAN, readable : {TRUE},
                      eofByte : 0 .. MCLines] :
                 /\ ~f.terminated => /\ f.lines # <<>>
                                      /\ f.lines[Len(f.lines)].kind # "empty"
                 /\ f.eofByte # 0 => /\ f.eofByte \in DOMAIN f.lines
                                     /\ f.lines[f.eofByte].kind # "empty"}
         \cup {[lines |-> <<>>, terminated |-> TRUE, readable |-> FALSE,
                 eofByte |-> 0]}

(* The arguments that make this instance, and variations: more requests,    *)
(* numbers that 32 bits make others of, options that are given again, and   *)
(* everything that is refused.                                              *)
Number(name, value) ==
    [kind |-> "number", name |-> name, value |-> value, complete |-> TRUE]
Word(name, word) == [kind |-> "word", name |-> name, word |-> word]
Name == [kind |-> "file", csv |-> TRUE]
MCBase == <<Number("cycles", Cycles + IntModulus), Number("cacheline-size", 4),
            Name, Number("l1-lines", L2Lines), Number("l2-lines", L2Lines),
            Number("l1-latency", L1Latency), Number("l2-latency", L2Latency),
            Number("memory-latency", MemoryLatency),
            Number("storeback-buffer", StorebackLines), Word("pretty-print", "true"),
            [kind |-> "tf"], Number("l1-lines", L1Lines)>>
MCVariations ==
    {Number("num-requests", n) : n \in {0, 2, IntModulus - 1, IntModulus + 1, MaxElements}}
      \cup {Number("l1-lines", n) : n \in {0, -1, 3, IntModulus + 2}}
      \cup {Number("l1-latency", 0), Number("l2-latency", 0),
            Number("memory-latency", 0), Number("cycles", IntModulus - 1),
            Number("cacheline-size", 0), Number("prefetch-buffer", 2),
            [Number("cycles", 1) EXCEPT !.complete = FALSE],
            Word("storeback-condition", "true"), Word("storeback-condition", "other"),
            Word("pretty-print", "other"),
            Name, [kind |-> "unknown"], [kind |-> "help"]}
MCCommandLines == {MCBase} \cup {Append(MCBase, v) : v \in MCVariations}
      \cup {<<[kind |-> "file", csv |-> FALSE]>>, <<Name>>}

(* The product has no entry above 6 and is not symmetric.                   *)
MCMatrices == {<<<<1, 2, 1, 0>>, <<0, 1, 3, 1>>>>}
MCOperands ==
    {<<[i \in 0 .. 3 |-> p[1][i + 1]], [i \in 0 .. 3 |-> p[2][i + 1]]>> :
        p \in MCMatrices}
=============================================================================
