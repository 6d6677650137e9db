---------------------------- MODULE MCTimeouts ------------------------------
(* The idle timeouts for TLC: those of a websocket and those of HTTP        *)
(* connections.  The sweep decides about each connection by itself, so that *)
(* the two share no state; `part' says which of them moves, the other stays *)
(* in its initial state.                                                    *)
EXTENDS WsPing, ConnTimeout

CONSTANT Parts      \* bound: the parts that move

VARIABLE part

timeoutVars == <<part, pingVars, vars>>

TimeoutsInit == part \in Parts /\ WsPingInit /\ Init

TimeoutsNext ==
    /\ UNCHANGED part
    /\ \/ part = "websocket" /\ WsPingNext /\ UNCHANGED vars
       \/ part = "http" /\ Next /\ UNCHANGED pingVars

TimeoutsSpec == TimeoutsInit /\ [][TimeoutsNext]_timeoutVars
=============================================================================
