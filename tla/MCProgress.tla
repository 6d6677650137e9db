----------------------------- MODULE MCProgress -----------------------------
(* What has begun comes to an end: the calls that make room for a           *)
(* connection, and pushes to and pops from a message queue, for TLC.  The   *)
(* two share no state; `part' says which of them moves, the other stays in  *)
(* its initial state.                                                       *)
EXTENDS ConnLimit, MessageQueue

VARIABLE part

progressVars == <<vars, mqVars, part>>

\* Everything pushed was popped: the consumers wait.
AllPopped ==
    /\ pushes = MaxPushes /\ list = <<>>
    /\ \A t \in mqThreads : at[t] = "idle"
    /\ UNCHANGED mqVars

ProgressInit == Init /\ mqInit /\ part \in {"call", "queue"}

ProgressNext ==
    /\ UNCHANGED part
    /\ \/ part = "call" /\ Next /\ UNCHANGED mqVars
       \/ part = "queue" /\ (mqNext \/ AllPopped) /\ UNCHANGED vars

\* Each part has the fairness of its own specification.
ProgressSpec ==
    /\ ProgressInit /\ [][ProgressNext]_progressVars
    /\ WF_vars(part = "call" /\ Call) /\ WF_vars(part = "call" /\ DeleteHead)
    /\ \A p \in Producers : WF_mqVars(part = "queue" /\ PushStep(p))
    /\ \A c \in Consumers : WF_mqVars(part = "queue" /\ PopStep(c))
=============================================================================
