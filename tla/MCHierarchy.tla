---------------------------- MODULE MCHierarchy ----------------------------
(* The hierarchy for TLC: which addresses are read, which are written, and  *)
(* the values written; head and tail of the store-back buffer start at 0,   *)
(* as in the memory a fresh process gets from new.                          *)
EXTENDS Hierarchy

CONSTANTS MCReads, MCWrites, MCValues

MCRequests ==
    [we : {FALSE}, addr : MCReads, data : {Zero}]
        \cup [we : {TRUE}, addr : MCWrites, data : MCValues]
MCPointers == {<<0, 0>>}
=============================================================================
