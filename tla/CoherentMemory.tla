-------------------------- MODULE CoherentMemory --------------------------
(***************************************************************************)
(* What the caches must not be able to change: one memory that serves one   *)
(* request after the other.  A write takes effect at some moment between    *)
(* its request and its answer, a read is answered with what is stored.      *)
(***************************************************************************)
CONSTANTS Address, Zero, Requests, NoRequest

VARIABLES
    store,     \* the content of every address
    busy,      \* whether a request is being served
    request,   \* the request, NoRequest between requests
    answer     \* what the last read returned, as a sequence of length 0 or 1

vars == <<store, busy, request, answer>>

Init ==
    /\ store = [a \in Address |-> Zero]
    /\ busy = FALSE
    /\ request = NoRequest
    /\ answer = <<>>

Issue(r) ==
    /\ ~busy
    /\ busy' = TRUE
    /\ request' = r
    /\ answer' = <<>>
    /\ UNCHANGED store

Commit ==
    /\ busy
    /\ request.we
    /\ store' = [store EXCEPT ![request.addr] = request.data]
    /\ UNCHANGED <<busy, request, answer>>

AnswerWrite ==
    /\ busy
    /\ request.we
    /\ store[request.addr] = request.data
    /\ busy' = FALSE
    /\ request' = NoRequest
    /\ UNCHANGED <<store, answer>>

AnswerRead ==
    /\ busy
    /\ ~request.we
    /\ busy' = FALSE
    /\ request' = NoRequest
    /\ answer' = <<store[request.addr]>>
    /\ UNCHANGED store

Next == (\E r \in Requests : Issue(r)) \/ Commit \/ AnswerWrite \/ AnswerRead

Spec == Init /\ [][Next]_vars

(* Every request is served and answered.                                    *)
FairSpec == Spec /\ WF_vars(Commit) /\ WF_vars(AnswerWrite \/ AnswerRead)
=============================================================================
