----------------------------- MODULE WsThreads ------------------------------
(***************************************************************************)
(* The websocket side of the server: the event loop, the input and the     *)
(* output thread with their message queues, and application threads that   *)
(* send frames and close connections by GUID (websockets.c,                *)
(* websockets_send_recv.c, websocket_handler.c, deleteSocket() and         *)
(* getSocketByGUID() in system_sockets_container.c, shutdownWebserver()).  *)
(*                                                                         *)
(* A step is a critical section, a lock taken inside another one, or an    *)
(* access to closeSocket outside its mutex.  A push to and a pop from a    *)
(* queue are atomic; module MessageQueue shows why they may be.            *)
(***************************************************************************)
EXTENDS Integers, Sequences, FiniteSets

CONSTANTS
    Conns,          \* websocket connections, named by their GUIDs
    Apps,           \* application threads
    Loop, In, Out,  \* event loop, websocket input and output thread
    None,           \* no connection, no thread
    MaxFrames,      \* bound: frames made in a behaviour
    MaxMsgs         \* bound: messages received per connection

Threads == Apps \cup {Loop, In, Out}

ASSUME WsThreadsAssumption ==
    /\ IsFiniteSet(Conns) /\ IsFiniteSet(Apps)
    /\ Cardinality({Loop, In, Out}) = 3
    /\ {Loop, In, Out} \cap Apps = {}
    /\ None \notin Conns \cup Threads
    /\ MaxFrames \in Nat /\ MaxMsgs \in Nat

VARIABLES
    conn,       \* life of the socket_info of a connection
    tree,       \* sock_tree: GUIDs that getSocketByGUID() finds
    closing,    \* closeSocket
    chunks,     \* websocket_chunk_list, as frame numbers
    wire,       \* what has been written to the connection
    armed,      \* registered for the write event
    received,   \* messages received, counted against MaxMsgs
    gone,       \* DISCONNECT calls of the application's handler
    inQ, outQ,  \* websocket_input_queue, websocket_output_queue
    running,    \* websocket_threads_running
    made,       \* frames made so far, counted against MaxFrames
    pushed,     \* frames pushed so far; a frame is its number, 0 is the 101
    socks,      \* who holds socks_mutex
    mutex,      \* who holds the socket_mutex of a connection
    ending,     \* the event loop has been left, shutdownWebserver() runs
    th          \* per thread: where it is, its connection, its frame

connVars  == <<conn, tree, closing, chunks, wire, armed, received, gone>>
queueVars == <<inQ, outQ, running, made, pushed>>
lockVars  == <<socks, mutex>>
vars == <<conn, tree, closing, chunks, wire, armed, received, gone,
          inQ, outQ, running, made, pushed, socks, mutex, ending, th>>

Stop == [sig |-> "stop", c |-> None, n |-> 0]

At(t)    == th[t].at
Of(t)    == th[t].c
Frame(t) == th[t].n

\* Thread t comes to place p, with connection c and frame or local value n.
Goto(t, p, c, n) == th' = [th EXCEPT ![t] = [at |-> p, c |-> c, n |-> n]]
Step(t, p)       == Goto(t, p, Of(t), Frame(t))

-----------------------------------------------------------------------------
(* Shared helpers.                                                         *)

Push(c) ==
    /\ pushed' = pushed + 1
    /\ outQ' = Append(outQ, [sig |-> "frame", c |-> c, n |-> pushed + 1])

\* sendWebsocketFrame() with running set.
PushFrame(c) ==
    /\ made < MaxFrames
    /\ made' = made + 1
    /\ Push(c)

NoFrame == UNCHANGED <<made, pushed, outQ>>

(* Faulty: the list is tested after the frame has been added.              *)
AppendFrameTestsLate(c, n) ==
    /\ chunks' = [chunks EXCEPT ![c] = Append(@, n)]
    /\ armed' = [armed EXCEPT ![c] = @ \/ chunks'[c] = <<>>]

(* Faulty: a frame goes in front of what is queued.                        *)
AppendFrameFront(c, n) ==
    /\ chunks' = [chunks EXCEPT ![c] = <<n>> \o @]
    /\ armed' = [armed EXCEPT ![c] = @ \/ chunks[c] = <<>>]

(* A frame goes behind what is queued on the socket, and the write event   *)
(* is set when there was nothing: insert_websocket_output_chunk().         *)
AppendFrame(c, n) ==
    /\ chunks' = [chunks EXCEPT ![c] = Append(@, n)]
    /\ armed' = [armed EXCEPT ![c] = @ \/ chunks[c] = <<>>]

-----------------------------------------------------------------------------
(* getSocketByGUID(), used by the output thread and by closeWebsocket():   *)
(* the socket is looked up and its mutex taken under socks_mutex.          *)

(* Faulty: socks_mutex is given back before the socket's own is taken.     *)
LookupUnlocks(t) ==
    /\ At(t) \in {"find", "findToClose"}
    /\ socks = None
    /\ IF Of(t) \in tree
         THEN Step(t, IF At(t) = "find" THEN "lock" ELSE "lockToClose")
         ELSE Goto(t, "ready", None, 0)
    /\ UNCHANGED <<connVars, queueVars, socks, mutex, ending>>

Lookup(t) ==
    /\ At(t) \in {"find", "findToClose"}
    /\ socks = None
    /\ IF Of(t) \in tree
         THEN socks' = t /\ Step(t, IF At(t) = "find" THEN "lock" ELSE "lockToClose")
         ELSE UNCHANGED socks /\ Goto(t, "ready", None, 0)
    /\ UNCHANGED <<connVars, queueVars, mutex, ending>>

LockFound(t) ==
    /\ At(t) \in {"lock", "lockToClose"}
    /\ mutex[Of(t)] = None
    /\ mutex' = [mutex EXCEPT ![Of(t)] = t]
    /\ socks' = None
    /\ Step(t, IF At(t) = "lock" THEN "check" ELSE "mark")
    /\ UNCHANGED <<connVars, queueVars, ending>>

Unlock(t) == mutex' = [mutex EXCEPT ![Of(t)] = None]

\* closeWebsocket(), the rest.
MarkClosing(t) ==
    /\ At(t) = "mark"
    /\ closing' = [closing EXCEPT ![Of(t)] = TRUE]
    /\ Unlock(t)
    /\ Goto(t, "ready", None, 0)
    /\ UNCHANGED <<conn, tree, chunks, wire, armed, received, gone, queueVars, socks, ending>>

-----------------------------------------------------------------------------
(* The output thread: websocket_output_thread_function() and               *)
(* sendWebsocketFrameReal().                                               *)

OutPop ==
    /\ At(Out) = "ready"
    /\ outQ # <<>>
    /\ outQ' = Tail(outQ)
    /\ IF Head(outQ) = Stop
         THEN Step(Out, "ended")
         ELSE Goto(Out, "find", Head(outQ).c, Head(outQ).n)
    /\ UNCHANGED <<connVars, inQ, running, made, pushed, lockVars, ending>>

\* closeSocket is read under the mutex, but not only written under it.
OutCheck ==
    /\ At(Out) = "check"
    /\ IF closing[Of(Out)]
         THEN Unlock(Out) /\ Goto(Out, "ready", None, 0)
         ELSE UNCHANGED mutex /\ Step(Out, "append")
    /\ UNCHANGED <<connVars, queueVars, socks, ending>>

OutAppend ==
    /\ At(Out) = "append"
    /\ AppendFrame(Of(Out), Frame(Out))
    /\ Unlock(Out)
    /\ Goto(Out, "ready", None, 0)
    /\ UNCHANGED <<conn, tree, closing, wire, received, gone, queueVars, socks, ending>>

-----------------------------------------------------------------------------
(* The input thread: websocket_input_thread_function().  The handler of    *)
(* the application may send a frame or close a connection, any of them.    *)

(* Faulty: the newest message comes first.                                 *)
InPopNewest ==
    /\ At(In) = "ready"
    /\ inQ # <<>>
    /\ inQ' = SubSeq(inQ, 1, Len(inQ) - 1)
    /\ LET m == inQ[Len(inQ)]
       IN  /\ IF m = Stop THEN Step(In, "ended") ELSE Goto(In, "handle", m.c, 0)
           /\ IF m.sig = "disconnect" THEN gone' = [gone EXCEPT ![m.c] = @ + 1]
                                      ELSE UNCHANGED gone
    /\ UNCHANGED <<conn, tree, closing, chunks, wire, armed, received, outQ,
                   running, made, pushed, lockVars, ending>>

InPop ==
    /\ At(In) = "ready"
    /\ inQ # <<>>
    /\ inQ' = Tail(inQ)
    /\ LET m == Head(inQ)
       IN  /\ IF m = Stop THEN Step(In, "ended") ELSE Goto(In, "handle", m.c, 0)
           /\ IF m.sig = "disconnect" THEN gone' = [gone EXCEPT ![m.c] = @ + 1]
                                      ELSE UNCHANGED gone
    /\ UNCHANGED <<conn, tree, closing, chunks, wire, armed, received, outQ,
                   running, made, pushed, lockVars, ending>>

InHandle(c) ==
    /\ At(In) = "handle"
    /\ \/ PushFrame(c) /\ Goto(In, "ready", None, 0)
       \/ NoFrame /\ Goto(In, "ready", None, 0)
       \/ NoFrame /\ Goto(In, "findToClose", c, 0)
    /\ UNCHANGED <<connVars, inQ, running, lockVars, ending>>

-----------------------------------------------------------------------------
(* Application threads: sendWebsocketFrame() looks at running before it    *)
(* pushes, closeWebsocket() does not.                                      *)

AppSend(t, c) ==
    /\ t \in Apps
    /\ At(t) = "ready"
    /\ made < MaxFrames
    /\ made' = made + 1
    /\ IF running
         THEN Goto(t, "push", c, 0)
         ELSE UNCHANGED th              \* the frame is released
    /\ UNCHANGED <<connVars, inQ, outQ, running, pushed, lockVars, ending>>

AppPush(t) ==
    /\ At(t) = "push"
    /\ Push(Of(t))
    /\ Goto(t, "ready", None, 0)
    /\ UNCHANGED <<connVars, inQ, running, made, lockVars, ending>>

AppClose(t, c) ==
    /\ t \in Apps
    /\ At(t) = "ready"
    /\ conn[c] # "none"
    /\ ~closing[c]
    /\ Goto(t, "findToClose", c, 0)
    /\ UNCHANGED <<connVars, queueVars, lockVars, ending>>

-----------------------------------------------------------------------------
(* The event loop: an upgrade (startWebsocketConnection()).  The 101 is    *)
(* queued before the GUID can be found, the events are set at the end.     *)

Others == <<wire, received, gone>>

LoopUpgrade(c) ==
    /\ At(Loop) = "ready"
    /\ conn[c] = "none"
    /\ conn' = [conn EXCEPT ![c] = "open"]
    /\ chunks' = [chunks EXCEPT ![c] = <<0>>]
    /\ Goto(Loop, "register", c, 0)
    /\ UNCHANGED <<tree, closing, armed, Others, queueVars, lockVars, ending>>

addSocketByGUID ==
    /\ At(Loop) = "register"
    /\ socks = None
    /\ tree' = tree \cup {Of(Loop)}
    /\ Step(Loop, "connect")
    /\ UNCHANGED <<conn, closing, chunks, armed, Others, queueVars, lockVars, ending>>

\* The CONNECT handler may send; when it fails a close frame is sent.
LoopConnect ==
    /\ At(Loop) = "connect"
    /\ \/ PushFrame(Of(Loop)) /\ Step(Loop, "arm")
       \/ NoFrame /\ Step(Loop, "arm")
       \/ PushFrame(Of(Loop)) /\ Step(Loop, "markArm")
    /\ UNCHANGED <<connVars, inQ, running, lockVars, ending>>

LoopArm ==
    /\ At(Loop) = "arm"
    /\ armed' = [armed EXCEPT ![Of(Loop)] = TRUE]
    /\ Goto(Loop, "ready", None, 0)
    /\ UNCHANGED <<conn, tree, closing, chunks, Others, queueVars, lockVars, ending>>

\* closeSocket = 1 behind a close frame, without the mutex.
LoopMark ==
    /\ \/ At(Loop) = "markArm" /\ Step(Loop, "arm")
       \/ At(Loop) = "markReady" /\ Goto(Loop, "ready", None, 0)
       \/ At(Loop) = "markClose" /\ Step(Loop, "close")
    /\ closing' = [closing EXCEPT ![Of(Loop)] = TRUE]
    /\ UNCHANGED <<conn, tree, chunks, armed, Others, queueVars, lockVars, ending>>

-----------------------------------------------------------------------------
(* websocket_event_handler() and handleWebsocket(): the list is looked at  *)
(* under the mutex, closeSocket after it.                                  *)

LoopEvent(c, e) ==
    /\ At(Loop) = "ready"
    /\ conn[c] = "open"
    /\ e = "write" => armed[c]
    /\ mutex[c] = None
    /\ Goto(Loop, IF e = "write" THEN "testWrite" ELSE "testRead", c,
            IF chunks[c] = <<>> THEN 1 ELSE 0)
    /\ UNCHANGED <<connVars, queueVars, lockVars, ending>>

LoopTest ==
    /\ At(Loop) \in {"testRead", "testWrite"}
    /\ Step(Loop, IF closing[Of(Loop)] /\ th[Loop].n = 1 THEN "close"
                  ELSE IF At(Loop) = "testRead" THEN "read" ELSE "write")
    /\ UNCHANGED <<connVars, queueVars, lockVars, ending>>

(* recFrame(): a message, a ping, a close frame, a frame that is an error, *)
(* nothing complete yet, or the peer is gone.                              *)
LoopRead ==
    /\ At(Loop) = "read"
    /\ LET c == Of(Loop)
       IN  \/ /\ received[c] < MaxMsgs
              /\ received' = [received EXCEPT ![c] = @ + 1]
              /\ inQ' = Append(inQ, [sig |-> "msg", c |-> c, n |-> 0])
              /\ NoFrame
              /\ Goto(Loop, "ready", None, 0)
           \/ /\ PushFrame(c)
              /\ \/ Goto(Loop, "ready", None, 0)
                 \/ Step(Loop, "markReady")
                 \/ Step(Loop, "markClose")
              /\ UNCHANGED <<received, inQ>>
           \/ /\ Goto(Loop, "ready", None, 0) \/ Step(Loop, "close")
              /\ NoFrame
              /\ UNCHANGED <<received, inQ>>
    /\ UNCHANGED <<conn, tree, closing, chunks, wire, armed, gone, running,
                   lockVars, ending>>

(* k frames are written; the write event stays set while some are left.    *)
LoopWrite(k) ==
    /\ At(Loop) = "write"
    /\ mutex[Of(Loop)] = None
    /\ LET c == Of(Loop)
       IN  /\ k <= Len(chunks[c])
           /\ wire' = [wire EXCEPT ![c] = @ \o SubSeq(chunks[c], 1, k)]
           /\ chunks' = [chunks EXCEPT ![c] = SubSeq(@, k + 1, Len(@))]
           /\ \/ /\ armed' = [armed EXCEPT ![c] = k < Len(chunks[c])]
                 /\ Goto(Loop, "ready", None, 0)
              \/ /\ k < Len(chunks[c])                  \* a send error
                 /\ UNCHANGED armed
                 /\ Step(Loop, "close")
    /\ UNCHANGED <<conn, tree, closing, received, gone, queueVars, lockVars, ending>>

(* connTimeoutSweep(): a connection has expired, or is sent a ping.        *)
Ping == -1

LoopExpire(c) ==
    /\ At(Loop) = "ready"
    /\ conn[c] = "open"
    /\ Goto(Loop, "close", c, 0)
    /\ UNCHANGED <<connVars, queueVars, lockVars, ending>>

conn_send_ping(c) ==
    /\ At(Loop) = "ready"
    /\ conn[c] = "open"
    /\ mutex[c] = None
    /\ ~closing[c]
    /\ made < MaxFrames
    /\ made' = made + 1
    /\ AppendFrame(c, Ping)
    /\ UNCHANGED <<conn, tree, closing, Others, inQ, outQ, running, pushed,
                   lockVars, ending, th>>

-----------------------------------------------------------------------------
(* WebserverConnectionManagerCloseRequest(): the disconnect is queued, the *)
(* socket taken out of the tree under both mutexes, then unregistered and  *)
(* freed.                                                                  *)

QueueDisconnect ==
    /\ At(Loop) = "close"
    /\ inQ' = Append(inQ, [sig |-> "disconnect", c |-> Of(Loop), n |-> 0])
    /\ Step(Loop, "unlink")
    /\ UNCHANGED <<connVars, outQ, running, made, pushed, lockVars, ending>>

LockContainer ==
    /\ At(Loop) = "unlink"
    /\ socks = None
    /\ socks' = Loop
    /\ Step(Loop, "delete")
    /\ UNCHANGED <<connVars, queueVars, mutex, ending>>

deleteSocket ==
    /\ At(Loop) = "delete"
    /\ mutex[Of(Loop)] = None
    /\ closing' = [closing EXCEPT ![Of(Loop)] = TRUE]
    /\ tree' = tree \ {Of(Loop)}
    /\ socks' = None
    /\ Step(Loop, "unregister")
    /\ UNCHANGED <<conn, chunks, armed, Others, queueVars, mutex, ending>>

FreeSocket ==
    /\ At(Loop) = "unregister"
    /\ armed' = [armed EXCEPT ![Of(Loop)] = FALSE]
    /\ conn' = [conn EXCEPT ![Of(Loop)] = "freed"]
    /\ chunks' = [chunks EXCEPT ![Of(Loop)] = <<>>]
    /\ Goto(Loop, IF ending THEN "shutdown" ELSE "ready", None, 0)
    /\ UNCHANGED <<tree, closing, Others, queueVars, lockVars, ending>>

-----------------------------------------------------------------------------
(* shutdownWebserver(): deleteAllSockets(), then stopWebsocketApi().       *)

LeaveLoop ==
    /\ At(Loop) = "ready"
    /\ ending' = TRUE
    /\ Goto(Loop, "shutdown", None, 0)
    /\ UNCHANGED <<connVars, queueVars, lockVars>>

deleteAllSockets(c) ==
    /\ At(Loop) = "shutdown"
    /\ conn[c] = "open"
    /\ Goto(Loop, "close", c, 0)
    /\ UNCHANGED <<connVars, queueVars, lockVars, ending>>

StopInput ==
    /\ At(Loop) = "shutdown"
    /\ \A c \in Conns : conn[c] # "open"
    /\ inQ' = Append(inQ, Stop)
    /\ Step(Loop, "joinIn")
    /\ UNCHANGED <<connVars, outQ, running, made, pushed, lockVars, ending>>

(* Faulty: the output thread is joined but not told to stop.               *)
StopOutputSilently ==
    /\ At(Loop) = "joinIn"
    /\ At(In) = "ended"
    /\ Step(Loop, "joinOut")
    /\ UNCHANGED <<connVars, queueVars, lockVars, ending>>

StopOutput ==
    /\ At(Loop) = "joinIn"
    /\ At(In) = "ended"
    /\ outQ' = Append(outQ, Stop)
    /\ Step(Loop, "joinOut")
    /\ UNCHANGED <<connVars, inQ, running, made, pushed, lockVars, ending>>

Stopped ==
    /\ At(Loop) = "joinOut"
    /\ At(Out) = "ended"
    /\ running' = FALSE
    /\ Step(Loop, "stopped")
    /\ UNCHANGED <<connVars, inQ, outQ, made, pushed, lockVars, ending>>

Terminated == At(Loop) = "stopped" /\ UNCHANGED vars

-----------------------------------------------------------------------------
Init ==
    /\ conn = [c \in Conns |-> "none"]
    /\ tree = {}
    /\ closing = [c \in Conns |-> FALSE]
    /\ chunks = [c \in Conns |-> <<>>]
    /\ wire = [c \in Conns |-> <<>>]
    /\ armed = [c \in Conns |-> FALSE]
    /\ received = [c \in Conns |-> 0]
    /\ gone = [c \in Conns |-> 0]
    /\ inQ = <<>> /\ outQ = <<>>
    /\ running = TRUE
    /\ made = 0 /\ pushed = 0
    /\ socks = None
    /\ mutex = [c \in Conns |-> None]
    /\ ending = FALSE
    /\ th = [t \in Threads |-> [at |-> "ready", c |-> None, n |-> 0]]

Found(t) == Lookup(t) \/ LockFound(t) \/ MarkClosing(t)

OutStep == OutPop \/ Found(Out) \/ OutCheck \/ OutAppend

InStep == InPop \/ Found(In) \/ \E c \in Conns : InHandle(c)

\* What an application thread has begun, and what it may begin.
AppStep(t)  == AppPush(t) \/ Found(t)
AppBegin(t) == \E c \in Conns : AppSend(t, c) \/ AppClose(t, c)

LoopStep ==
    \/ addSocketByGUID \/ LoopConnect \/ LoopArm \/ LoopMark
    \/ LoopTest \/ LoopRead \/ \E k \in 0 .. MaxFrames + 1 : LoopWrite(k)
    \/ QueueDisconnect \/ LockContainer \/ deleteSocket \/ FreeSocket
    \/ \E c \in Conns : deleteAllSockets(c)
    \/ StopInput \/ StopOutput \/ Stopped

LoopBegin ==
    \/ \E c \in Conns : \/ LoopUpgrade(c)
                        \/ LoopEvent(c, "read") \/ LoopEvent(c, "write")
                        \/ LoopExpire(c) \/ conn_send_ping(c)
    \/ LeaveLoop

Next ==
    \/ OutStep \/ InStep \/ LoopStep \/ LoopBegin
    \/ \E t \in Apps : AppStep(t) \/ AppBegin(t)
    \/ Terminated

(* Every thread goes on with what it has begun; nobody has to begin.       *)
Spec ==
    /\ Init /\ [][Next]_vars
    /\ WF_vars(OutStep) /\ WF_vars(InStep) /\ WF_vars(LoopStep)
    /\ \A t \in Apps : WF_vars(AppStep(t))

-----------------------------------------------------------------------------
(* Properties.                                                             *)

(* A socket another thread has found by its GUID is not freed before that  *)
(* thread has let go of it, and a freed one cannot be found any more and   *)
(* is not registered again: no event for a freed socket.                   *)
NoUseAfterFree ==
    /\ \A t \in Threads :
          At(t) \in {"lock", "lockToClose", "check", "mark", "append"} =>
             conn[Of(t)] = "open"
    /\ \A c \in Conns : mutex[c] # None \/ c \in tree => conn[c] = "open"
    /\ \A c \in Conns : conn[c] = "freed" => ~armed[c] /\ chunks[c] = <<>>

(* Frames queued on a socket are never forgotten: whenever its mutex is    *)
(* free the write event is set, once the upgrade is through.               *)
WriteArmed ==
    \A c \in Conns :
        /\ chunks[c] # <<>> /\ mutex[c] = None
        /\ ~ (Of(Loop) = c /\ At(Loop) \in {"register", "connect", "markArm", "arm"})
        => armed[c]

(* The answer to the upgrade goes out first, frames behind it in the order *)
(* in which they were pushed to the output queue.                          *)
FramesInOrder ==
    \A c \in Conns :
        LET all == wire[c] \o chunks[c]
        IN  /\ all # <<>> => all[1] = 0
            /\ \A i, j \in DOMAIN all : i < j /\ all[j] > 0 => all[i] < all[j]

(* The handler hears of a disconnect once and of nothing after it, and     *)
(* when the server has stopped it has heard of every one, also of the      *)
(* connections that shutdownWebserver() closed.                            *)
DisconnectHeard ==
    \A c \in Conns :
        /\ gone[c] <= 1
        /\ gone[c] = 1 => \A i \in DOMAIN inQ : inQ[i].c # c
        /\ At(Loop) = "stopped" /\ conn[c] # "none" => gone[c] = 1

(* stopWebsocketApi() comes to its end: neither of the joins waits for     *)
(* ever, and no thread waits for a mutex that is never given back.         *)
ShutdownEnds == At(Loop) = "shutdown" ~> At(Loop) = "stopped"
=============================================================================
