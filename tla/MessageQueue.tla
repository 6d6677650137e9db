---------------------------- MODULE MessageQueue ----------------------------
(***************************************************************************)
(* The message queue between the event loop, the application threads and   *)
(* the websocket threads (message_queue.c): a list under a mutex, and a    *)
(* semaphore that counts its entries for those who wait.                   *)
(*                                                                         *)
(* A step is one call of ws_pushQueue() or ws_popQueue() to a mutex, the   *)
(* list or the semaphore.  ws_list_append() and ws_list_extract_at(, 0)    *)
(* are Append and Head/Tail on the list.                                   *)
(***************************************************************************)
EXTENDS Integers, Sequences, FiniteSets

CONSTANTS
    Producers, Consumers,   \* the threads that push and the ones that pop
    Messages,               \* elements
    NULL,                   \* what ws_list_extract_at() returns of no list
    Nobody,                 \* the mutex is free
    MaxPushes               \* bound: calls of ws_pushQueue() in a behaviour

ASSUME MessageQueueAssumption ==
    /\ IsFiniteSet(Producers) /\ IsFiniteSet(Consumers)
    /\ Producers \cap Consumers = {}
    /\ Nobody \notin Producers \cup Consumers
    /\ NULL \notin Messages
    /\ MaxPushes \in Nat

VARIABLES
    list,       \* entry_list
    sem,        \* semid
    lock,       \* who holds lock
    at,         \* per thread: the next thing it does
    element,    \* per producer: the argument of its call
    ret,        \* per consumer: what its last call found
    pushes      \* calls of ws_pushQueue() so far, counted against MaxPushes

mqVars == <<list, sem, lock, at, element, ret, pushes>>

-----------------------------------------------------------------------------
(* ws_pushQueue(mq, element).                                              *)

PushCall(p, m) ==
    /\ at[p] = "idle"
    /\ pushes < MaxPushes
    /\ pushes' = pushes + 1
    /\ element' = [element EXCEPT ![p] = m]
    /\ at' = [at EXCEPT ![p] = "lock"]
    /\ UNCHANGED <<list, sem, lock, ret>>

PushLock(p) ==
    /\ at[p] = "lock"
    /\ lock = Nobody
    /\ lock' = p
    /\ at' = [at EXCEPT ![p] = "append"]
    /\ UNCHANGED <<list, sem, element, ret, pushes>>

(* Faulty: the element goes to the front.                                  *)
PushAppendFront(p) ==
    /\ at[p] = "append"
    /\ list' = <<element[p]>> \o list
    /\ at' = [at EXCEPT ![p] = "unlock"]
    /\ UNCHANGED <<sem, lock, element, ret, pushes>>

PushAppend(p) ==
    /\ at[p] = "append"
    /\ list' = Append(list, element[p])
    /\ at' = [at EXCEPT ![p] = "unlock"]
    /\ UNCHANGED <<sem, lock, element, ret, pushes>>

PushUnlock(p) ==
    /\ at[p] = "unlock"
    /\ lock' = Nobody
    /\ at' = [at EXCEPT ![p] = "post"]
    /\ UNCHANGED <<list, sem, element, ret, pushes>>

(* Faulty: only the first of several waiting elements is announced.        *)
PushPostIfOne(p) ==
    /\ at[p] = "post"
    /\ sem' = IF Len(list) <= 1 THEN sem + 1 ELSE sem
    /\ at' = [at EXCEPT ![p] = "idle"]
    /\ UNCHANGED <<list, lock, element, ret, pushes>>

PushPost(p) ==
    /\ at[p] = "post"
    /\ sem' = sem + 1
    /\ at' = [at EXCEPT ![p] = "idle"]
    /\ UNCHANGED <<list, lock, element, ret, pushes>>

-----------------------------------------------------------------------------
(* ws_popQueue(mq).                                                        *)

PopWait(c) ==
    /\ at[c] = "idle"
    /\ sem > 0
    /\ sem' = sem - 1
    /\ at' = [at EXCEPT ![c] = "lock"]
    /\ UNCHANGED <<list, lock, element, ret, pushes>>

PopLock(c) ==
    /\ at[c] = "lock"
    /\ lock = Nobody
    /\ lock' = c
    /\ at' = [at EXCEPT ![c] = "extract"]
    /\ UNCHANGED <<list, sem, element, ret, pushes>>

PopExtract(c) ==
    /\ at[c] = "extract"
    /\ ret' = [ret EXCEPT ![c] = IF list = <<>> THEN NULL ELSE Head(list)]
    /\ list' = IF list = <<>> THEN list ELSE Tail(list)
    /\ at' = [at EXCEPT ![c] = "unlock"]
    /\ UNCHANGED <<sem, lock, element, pushes>>

PopUnlock(c) ==
    /\ at[c] = "unlock"
    /\ lock' = Nobody
    /\ at' = [at EXCEPT ![c] = "idle"]
    /\ UNCHANGED <<list, sem, element, ret, pushes>>

-----------------------------------------------------------------------------
mqInit ==
    /\ list = <<>>
    /\ sem = 0
    /\ lock = Nobody
    /\ at = [t \in Producers \cup Consumers |-> "idle"]
    /\ element = [p \in Producers |-> NULL]
    /\ ret = [c \in Consumers |-> NULL]
    /\ pushes = 0

PushStep(p) == PushLock(p) \/ PushAppend(p) \/ PushUnlock(p) \/ PushPost(p)

PopStep(c) == PopWait(c) \/ PopLock(c) \/ PopExtract(c) \/ PopUnlock(c)

mqNext ==
    \/ \E p \in Producers : PushStep(p) \/ \E m \in Messages : PushCall(p, m)
    \/ \E c \in Consumers : PopStep(c)

(* A push that has begun goes on, and the consumers are the loops of the   *)
(* websocket threads, which pop again and again.                           *)
mqSpec ==
    /\ mqInit /\ [][mqNext]_mqVars
    /\ \A p \in Producers : WF_mqVars(PushStep(p))
    /\ \A c \in Consumers : WF_mqVars(PopStep(c))

-----------------------------------------------------------------------------
(* Properties.                                                             *)

mqThreads == Producers \cup Consumers

(* The variables have their types; the semaphore never goes below zero.    *)
mqTypeOK ==
    /\ list \in Seq(Messages)
    /\ sem \in Nat
    /\ lock \in mqThreads \cup {Nobody}
    /\ at \in [mqThreads -> {"idle", "lock", "append", "extract", "unlock", "post"}]
    /\ element \in [Producers -> Messages \cup {NULL}]
    /\ ret \in [Consumers -> Messages \cup {NULL}]
    /\ pushes \in 0 .. MaxPushes

\* Consumers let through by the semaphore that have not taken an entry yet,
\* and producers whose entry is there but not announced yet.
Granted   == {c \in Consumers : at[c] \in {"lock", "extract"}}
Unposted  == {p \in Producers : at[p] \in {"unlock", "post"}}

(* Every entry of the list is accounted for: it is counted by the          *)
(* semaphore, promised to a consumer, or about to be announced.            *)
SemCounts == Len(list) = sem + Cardinality(Granted) + Cardinality(Unposted)

(* The list is worked on by the holder of the mutex alone, so append and   *)
(* extract, several pointer writes each, may be single steps here.         *)
ListLocked ==
    \A t \in mqThreads : at[t] \in {"append", "extract", "unlock"} <=> lock = t

F == INSTANCE Fifo WITH Elements <- Messages, Takers <- Consumers,
                        Nothing <- NULL, queue <- list, taken <- ret

(* A push and a pop are each one step of a queue; in particular no         *)
(* consumer comes back from ws_popQueue() without an element.              *)
IsFifo == F!Spec

(* No wakeup is lost: what is in the list is taken in the end.             *)
Drained == list # <<>> ~> list = <<>>
=============================================================================
