-------------------------- MODULE WsThreadsProofs ---------------------------
(***************************************************************************)
(* Proofs about WsThreads, for any connections, application threads and    *)
(* bounds: no thread uses a socket that has been freed, queued frames keep *)
(* the write event set, frames go out in the order they were pushed in,    *)
(* and the handler hears of every disconnect once.                         *)
(***************************************************************************)
EXTENDS WsThreads, FiniteSetTheorems, SequenceTheorems, TLAPS

-----------------------------------------------------------------------------
(* Types: what the queues hold, and the places a thread can be at.         *)

InEntry  == {Stop} \cup [sig : {"msg", "disconnect"}, c : Conns, n : {0}]
OutEntry == {Stop} \cup [sig : {"frame"}, c : Conns, n : Nat]

Upgrading == {"register", "connect", "markArm", "arm"}
Serving   == {"markReady", "markClose", "testRead", "testWrite", "read",
              "write", "close"}
Closing   == {"unlink", "delete", "unregister"}
Leaving   == {"joinIn", "joinOut", "stopped"}
Sending   == {"find", "lock", "check", "append"}
ToClose   == {"findToClose", "lockToClose", "mark"}
Place     == {"ready", "shutdown", "ended", "handle", "push"}
                \cup Upgrading \cup Serving \cup Closing \cup Leaving
                \cup Sending \cup ToClose

(* A thread at one of these places has no connection in hand.              *)
Resting == {"ready", "shutdown", "ended"} \cup Leaving

(* getSocketByGUID() has found the socket and holds socks_mutex; then it   *)
(* holds the socket's own mutex.                                           *)
Looked == {"lock", "lockToClose"}
Locked == {"check", "append", "mark"}

ThreadsOK == th \in [Threads -> [at : Place, c : Conns \cup {None}, n : Int]]

ConnsOK ==
    /\ conn \in [Conns -> {"none", "open", "freed"}]
    /\ tree \subseteq Conns
    /\ closing \in [Conns -> BOOLEAN] /\ armed \in [Conns -> BOOLEAN]
    /\ chunks \in [Conns -> Seq(Int)] /\ wire \in [Conns -> Seq(Int)]
    /\ received \in [Conns -> Nat] /\ gone \in [Conns -> Nat]

QueuesOK ==
    /\ inQ \in Seq(InEntry) /\ outQ \in Seq(OutEntry)
    /\ running \in BOOLEAN /\ made \in Nat /\ pushed \in Nat

LocksOK ==
    /\ socks \in Threads \cup {None}
    /\ mutex \in [Conns -> Threads \cup {None}]

TypeOK == ConnsOK /\ QueuesOK /\ LocksOK /\ ThreadsOK /\ ending \in BOOLEAN

(* Which thread runs which code, and that it has a connection there.       *)
Places ==
    /\ At(Loop) \in {"ready", "shutdown"} \cup Upgrading \cup Serving
                       \cup Closing \cup Leaving
    /\ At(Out) \in {"ready", "ended"} \cup Sending
    /\ At(In) \in {"ready", "handle", "ended"} \cup ToClose
    /\ \A t \in Apps : At(t) \in {"ready", "push"} \cup ToClose
    /\ \A t \in Threads : At(t) \notin Resting => Of(t) \in Conns

-----------------------------------------------------------------------------
(* The parts of the inductive invariant.                                   *)

(* The holder of a mutex is the thread that is at the lines between the    *)
(* lock and the unlock: socks_mutex, and the mutex of each socket.         *)
Locks ==
    /\ \A t \in Threads : socks = t <=> At(t) \in Looked \cup {"delete"}
    /\ \A t \in Threads, c \in Conns :
          mutex[c] = t <=> Of(t) = c /\ At(t) \in Locked

(* A socket that a thread has found by its GUID stays in the tree until    *)
(* the thread lets go of it; the one the event loop is about to free is no *)
(* longer there.                                                           *)
FoundStays ==
    /\ \A t \in Threads : At(t) \in Looked \cup Locked => Of(t) \in tree
    /\ At(Loop) = "unregister" => Of(Loop) \notin tree

(* Only open sockets are in the tree, and the one the event loop works on  *)
(* is open.                                                                *)
OpenInUse ==
    /\ \A c \in tree : conn[c] = "open"
    /\ At(Loop) \in Upgrading \cup Serving \cup Closing => conn[Of(Loop)] = "open"

(* Nothing is queued for a connection before it is opened and after it is  *)
(* freed.                                                                  *)
ClosedEmpty ==
    \A c \in Conns :
       /\ conn[c] = "none" => chunks[c] = <<>> /\ wire[c] = <<>>
       /\ conn[c] = "freed" => ~armed[c] /\ chunks[c] = <<>>

(* WriteArmed, also while somebody holds the mutex of the socket.          *)
ArmedAlways ==
    \A c \in Conns :
       chunks[c] # <<>> /\ ~ (Of(Loop) = c /\ At(Loop) \in Upgrading) => armed[c]

-----------------------------------------------------------------------------
(* The threads are distinct, and None is none of them.                     *)
LEMMA Distinct ==
    /\ Loop # In /\ Loop # Out /\ In # Out
    /\ Loop \notin Apps /\ In \notin Apps /\ Out \notin Apps
    /\ None \notin Conns /\ None \notin Threads
    /\ Loop \in Threads /\ In \in Threads /\ Out \in Threads /\ Apps \subseteq Threads
<1>1. \A a, b : Cardinality({a, b}) # 3
  <2> TAKE a, b
  <2>1. IsFiniteSet({a}) /\ Cardinality({a}) = 1
    BY FS_Singleton
  <2>2. Cardinality({a} \cup {b}) = IF b \in {a} THEN 1 ELSE 2
    BY <2>1, FS_AddElement
  <2> QED
    BY <2>2, {a, b} = {a} \cup {b}
<1>2. Loop # In /\ Loop # Out /\ In # Out
  <2>1. CASE Loop = In
    BY <2>1, <1>1, WsThreadsAssumption, {Loop, In, Out} = {In, Out}
  <2>2. CASE Loop = Out
    BY <2>2, <1>1, WsThreadsAssumption, {Loop, In, Out} = {In, Out}
  <2>3. CASE In = Out
    BY <2>3, <1>1, WsThreadsAssumption, {Loop, In, Out} = {Loop, Out}
  <2> QED
    BY <2>1, <2>2, <2>3
<1> QED
  BY <1>2, WsThreadsAssumption DEF Threads

(* What a thread does to the program counters: it moves itself, and no     *)
(* other thread.                                                           *)
Moved(t, p, c, n) ==
    /\ ThreadsOK'
    /\ At(t)' = p /\ Of(t)' = c /\ Frame(t)' = n
    /\ \A u \in Threads \ {t} :
          At(u)' = At(u) /\ Of(u)' = Of(u) /\ Frame(u)' = Frame(u)

(* A Goto or a Step is a move of its thread.                               *)
LEMMA Moves ==
    ASSUME ThreadsOK
    PROVE  /\ \A t \in Threads, p \in Place, c \in Conns \cup {None}, n \in Int :
                 Goto(t, p, c, n) => Moved(t, p, c, n)
           /\ \A t \in Threads, p \in Place :
                 Step(t, p) => Moved(t, p, Of(t), Frame(t))
<1>1. ASSUME NEW t \in Threads, NEW p \in Place, NEW c \in Conns \cup {None},
             NEW n \in Int, Goto(t, p, c, n)
      PROVE  Moved(t, p, c, n)
  <2>1. ThreadsOK'
    BY <1>1 DEF ThreadsOK, Goto
  <2> QED
    BY <1>1, <2>1 DEF ThreadsOK, Goto, Moved, At, Of, Frame
<1>2. ASSUME NEW t \in Threads, NEW p \in Place, Step(t, p)
      PROVE  Moved(t, p, Of(t), Frame(t))
  <2>1. Of(t) \in Conns \cup {None} /\ Frame(t) \in Int
    BY DEF ThreadsOK, Of, Frame
  <2> QED
    BY <1>1, <1>2, <2>1 DEF Step
<1> QED
  BY <1>1, <1>2

(* Nobody moves when th does not change.                                   *)
LEMMA Stays ==
    ASSUME UNCHANGED th
    PROVE  /\ ThreadsOK => ThreadsOK'
           /\ \A u \in Threads :
                 At(u)' = At(u) /\ Of(u)' = Of(u) /\ Frame(u)' = Frame(u)
  BY DEF ThreadsOK, At, Of, Frame

(* The connection and the frame a thread has in hand have their types.     *)
LEMMA InHand ==
    ASSUME ThreadsOK, NEW t \in Threads
    PROVE  At(t) \in Place /\ Of(t) \in Conns \cup {None} /\ Frame(t) \in Int
  BY DEF ThreadsOK, At, Of, Frame

(* A thread that is not resting has a connection in hand.                  *)
LEMMA HasConn ==
    ASSUME Places, NEW t \in Threads, At(t) \notin Resting
    PROVE  Of(t) \in Conns
  BY DEF Places

(* Taking the first entry out of a queue: what is left, and where it was.  *)
LEMMA TailOf ==
    ASSUME NEW S, NEW q \in Seq(S), q # <<>>
    PROVE  /\ Head(q) \in S /\ Head(q) = q[1] /\ 1 \in DOMAIN q
           /\ Tail(q) \in Seq(S) /\ Len(Tail(q)) = Len(q) - 1
           /\ DOMAIN Tail(q) = 1 .. Len(q) - 1 /\ DOMAIN q = 1 .. Len(q)
           /\ \A i \in DOMAIN Tail(q) : i + 1 \in DOMAIN q /\ Tail(q)[i] = q[i + 1]
<1>1. Len(q) \in Nat /\ Len(q) >= 1 /\ DOMAIN q = 1 .. Len(q)
  BY EmptySeq, LenProperties
<1>2. Tail(q) \in Seq(S) /\ Len(Tail(q)) = Len(q) - 1
  BY HeadTailProperties
<1>3. DOMAIN Tail(q) = 1 .. Len(q) - 1
  BY <1>2, LenProperties
<1>4. \A i \in 1 .. Len(q) - 1 : Tail(q)[i] = q[i + 1]
  BY <1>1, HeadTailProperties
<1>5. Head(q) \in S /\ Head(q) = q[1]
  BY <1>1, HeadTailProperties, ElementOfSeq
<1> QED
  BY <1>1, <1>2, <1>3, <1>4, <1>5

(* Putting an entry behind a queue.                                        *)
LEMMA AppendOf ==
    ASSUME NEW S, NEW q \in Seq(S), NEW e \in S
    PROVE  /\ Append(q, e) \in Seq(S) /\ Append(q, e) # <<>>
           /\ Len(Append(q, e)) = Len(q) + 1 /\ Len(q) \in Nat
           /\ DOMAIN Append(q, e) = 1 .. Len(q) + 1 /\ DOMAIN q = 1 .. Len(q)
           /\ \A i \in DOMAIN q : Append(q, e)[i] = q[i]
           /\ Append(q, e)[Len(q) + 1] = e
<1>1. DOMAIN q = 1 .. Len(q) /\ Len(q) \in Nat
  BY LenProperties
<1>2. Append(q, e) \in Seq(S) /\ Append(q, e) # <<>> /\ Len(Append(q, e)) = Len(q) + 1
  BY AppendProperties
<1>3. DOMAIN Append(q, e) = 1 .. Len(q) + 1
  BY <1>2, LenProperties
<1> QED
  BY <1>1, <1>2, <1>3, AppendProperties

(* An entry of a queue is the stop entry, or about a connection.           *)
LEMMA Entries ==
    /\ \A m \in InEntry : \/ m = Stop
                           \/ /\ m # Stop /\ m.sig \in {"msg", "disconnect"}
                              /\ m.c \in Conns /\ m.n = 0
    /\ \A m \in OutEntry : m = Stop \/ (m # Stop /\ m.c \in Conns /\ m.n \in Nat)
    /\ \A c \in Conns : /\ [sig |-> "msg", c |-> c, n |-> 0] \in InEntry \ {Stop}
                        /\ [sig |-> "disconnect", c |-> c, n |-> 0] \in InEntry \ {Stop}
                        /\ \A n \in Nat :
                              [sig |-> "frame", c |-> c, n |-> n] \in OutEntry \ {Stop}
    /\ Stop \in InEntry /\ Stop \in OutEntry /\ Stop.sig = "stop" /\ Stop.c = None
<1>1. Stop.sig = "stop" /\ Stop.c = None
  BY DEF Stop
<1>2. ASSUME NEW m \in [sig : {"msg", "disconnect"}, c : Conns, n : {0}]
      PROVE  m # Stop /\ m.sig \in {"msg", "disconnect"} /\ m.c \in Conns /\ m.n = 0
  BY <1>1, Distinct
<1>3. ASSUME NEW m \in [sig : {"frame"}, c : Conns, n : Nat]
      PROVE  m # Stop /\ m.c \in Conns /\ m.n \in Nat
  BY <1>1, Distinct
<1>4. ASSUME NEW c \in Conns
      PROVE  /\ [sig |-> "msg", c |-> c, n |-> 0]
                  \in [sig : {"msg", "disconnect"}, c : Conns, n : {0}]
             /\ [sig |-> "disconnect", c |-> c, n |-> 0]
                  \in [sig : {"msg", "disconnect"}, c : Conns, n : {0}]
             /\ \A n \in Nat : [sig |-> "frame", c |-> c, n |-> n]
                                \in [sig : {"frame"}, c : Conns, n : Nat]
  OBVIOUS
<1>5. \A m \in InEntry :
         m = Stop \/ m \in [sig : {"msg", "disconnect"}, c : Conns, n : {0}]
  BY DEF InEntry
<1>6. \A m \in OutEntry : m = Stop \/ m \in [sig : {"frame"}, c : Conns, n : Nat]
  BY DEF OutEntry
<1>7. /\ [sig : {"msg", "disconnect"}, c : Conns, n : {0}] \subseteq InEntry
      /\ [sig : {"frame"}, c : Conns, n : Nat] \subseteq OutEntry
      /\ Stop \in InEntry /\ Stop \in OutEntry
  BY DEF InEntry, OutEntry
<1>8. ASSUME NEW c \in Conns
      PROVE  /\ [sig |-> "msg", c |-> c, n |-> 0] \in InEntry \ {Stop}
             /\ [sig |-> "disconnect", c |-> c, n |-> 0] \in InEntry \ {Stop}
             /\ \A n \in Nat :
                   [sig |-> "frame", c |-> c, n |-> n] \in OutEntry \ {Stop}
  BY <1>2, <1>3, <1>4, <1>7
<1>9. ASSUME NEW m \in InEntry
      PROVE  \/ m = Stop
             \/ /\ m # Stop /\ m.sig \in {"msg", "disconnect"}
                /\ m.c \in Conns /\ m.n = 0
  <2>1. CASE m \in [sig : {"msg", "disconnect"}, c : Conns, n : {0}]
    BY <2>1, <1>2
  <2> QED
    BY <2>1, <1>5
<1>10. ASSUME NEW m \in OutEntry
       PROVE  m = Stop \/ (m # Stop /\ m.c \in Conns /\ m.n \in Nat)
  <2>1. CASE m \in [sig : {"frame"}, c : Conns, n : Nat]
    BY <2>1, <1>3
  <2> QED
    BY <2>1, <1>6
<1> QED
  BY <1>1, <1>7, <1>8, <1>9, <1>10, Zenon

(* The frame a thread pushes is an entry of the output queue.              *)
LEMMA FramePushed ==
    ASSUME QueuesOK, NEW c \in Conns
    PROVE  LET e == [sig |-> "frame", c |-> c, n |-> pushed + 1]
           IN  e \in OutEntry /\ e # Stop /\ Append(outQ, e) \in Seq(OutEntry)
<1>1. pushed + 1 \in Nat
  BY DEF QueuesOK
<1>2. [sig |-> "frame", c |-> c, n |-> pushed + 1] \in OutEntry \ {Stop}
  BY <1>1, Entries
<1> QED
  BY <1>2, AppendOf DEF QueuesOK

(* A pop ends its thread, or leaves it with a connection in hand.          *)
LEMMA PopMoves ==
    ASSUME TypeOK
    PROVE  /\ OutPop => IF Head(outQ) = Stop
                          THEN Moved(Out, "ended", Of(Out), Frame(Out))
                          ELSE /\ Moved(Out, "find", Head(outQ).c, Head(outQ).n)
                               /\ Head(outQ).c \in Conns /\ Head(outQ).n \in Nat
           /\ InPop => IF Head(inQ) = Stop
                         THEN Moved(In, "ended", Of(In), Frame(In))
                         ELSE /\ Moved(In, "handle", Head(inQ).c, 0)
                              /\ Head(inQ).c \in Conns
<1> USE Distinct, Moves DEF TypeOK, QueuesOK, Place, Sending
<1>1. ASSUME OutPop, Head(outQ) = Stop
      PROVE  Moved(Out, "ended", Of(Out), Frame(Out))
  BY <1>1 DEF OutPop
<1>2. ASSUME OutPop, Head(outQ) # Stop
      PROVE  /\ Moved(Out, "find", Head(outQ).c, Head(outQ).n)
             /\ Head(outQ).c \in Conns /\ Head(outQ).n \in Nat
  <2>1. Head(outQ) \in OutEntry
    BY <1>2, TailOf DEF OutPop
  <2>2. Head(outQ).c \in Conns /\ Head(outQ).n \in Nat
    BY <1>2, <2>1, Entries
  <2> QED
    BY <1>2, <2>2 DEF OutPop
<1>3. ASSUME InPop, Head(inQ) = Stop
      PROVE  Moved(In, "ended", Of(In), Frame(In))
  BY <1>3 DEF InPop
<1>4. ASSUME InPop, Head(inQ) # Stop
      PROVE  Moved(In, "handle", Head(inQ).c, 0) /\ Head(inQ).c \in Conns
  <2>1. Head(inQ) \in InEntry
    BY <1>4, TailOf DEF InPop
  <2>2. Head(inQ).c \in Conns
    BY <1>4, <2>1, Entries
  <2> QED
    BY <1>4, <2>2 DEF InPop
<1> QED
  BY <1>1, <1>2, <1>3, <1>4

(* The initial state.                                                      *)
LEMMA TypeInit == Init => TypeOK /\ Places
<1> SUFFICES ASSUME Init PROVE TypeOK /\ Places
  OBVIOUS
<1>1. ThreadsOK
  BY DEF Init, ThreadsOK, Place
<1>2. ConnsOK /\ QueuesOK /\ LocksOK
  BY DEF Init, ConnsOK, QueuesOK, LocksOK
<1>3. \A t \in Threads : At(t) = "ready"
  BY DEF Init, At
<1> QED
  BY <1>1, <1>2, <1>3, Distinct DEF Places, Resting, TypeOK, Init

(* Types of what the server keeps of a connection.                         *)
LEMMA ConnsStep == ASSUME TypeOK, Places, [Next]_vars PROVE ConnsOK'
<1> USE Distinct DEF TypeOK, ConnsOK, connVars
<1>1. ASSUME NEW t \in Threads \ {Loop}, Lookup(t) PROVE ConnsOK'
  BY <1>1 DEF Lookup
<1>2. ASSUME NEW t \in Threads \ {Loop}, LockFound(t) PROVE ConnsOK'
  BY <1>2 DEF LockFound
<1>3. ASSUME NEW t \in Threads \ {Loop}, MarkClosing(t) PROVE ConnsOK'
  BY <1>3 DEF MarkClosing, Unlock
<1>4. ASSUME OutPop PROVE ConnsOK'
  BY <1>4 DEF OutPop
<1>5. ASSUME OutCheck PROVE ConnsOK'
  BY <1>5 DEF OutCheck, Unlock
<1>6. ASSUME OutAppend PROVE ConnsOK'
  <2>1. Of(Out) \in Conns /\ Frame(Out) \in Int
    BY <1>6, InHand, HasConn DEF OutAppend, Resting, Leaving
  <2>2. Append(chunks[Of(Out)], Frame(Out)) \in Seq(Int)
    BY <2>1, AppendOf
  <2> QED
    BY <1>6, <2>1, <2>2 DEF OutAppend, AppendFrame
<1>7. ASSUME InPop PROVE ConnsOK'
  <2>1. Head(inQ) \in InEntry
    BY <1>7, TailOf DEF InPop, QueuesOK
  <2>2. Head(inQ).sig = "disconnect" => Head(inQ).c \in Conns
    BY <2>1, Entries
  <2>3. CASE Head(inQ).sig # "disconnect"
    BY <1>7, <2>3 DEF InPop
  <2>4. CASE Head(inQ).sig = "disconnect"
    <3> DEFINE c == Head(inQ).c
    <3>1. c \in Conns
      BY <2>2, <2>4
    <3>2. gone' = [gone EXCEPT ![c] = gone[c] + 1]
      BY <1>7, <2>4 DEF InPop
    <3> HIDE DEF c
    <3>3. gone' \in [Conns -> Nat]
      BY <3>1, <3>2
    <3> QED
      BY <1>7, <3>3 DEF InPop
  <2> QED
    BY <2>3, <2>4
<1>8. ASSUME NEW c \in Conns, InHandle(c) PROVE ConnsOK'
  BY <1>8 DEF InHandle, PushFrame, Push, NoFrame
<1>9. ASSUME NEW t \in Apps, NEW c \in Conns, AppSend(t, c) PROVE ConnsOK'
  BY <1>9 DEF AppSend
<1>10. ASSUME NEW t \in Apps, AppPush(t) PROVE ConnsOK'
  BY <1>10 DEF AppPush, Push
<1>11. ASSUME NEW t \in Apps, NEW c \in Conns, AppClose(t, c) PROVE ConnsOK'
  BY <1>11 DEF AppClose
<1>12. ASSUME NEW c \in Conns, LoopUpgrade(c) PROVE ConnsOK'
  BY <1>12 DEF LoopUpgrade, Others
<1>13. ASSUME addSocketByGUID PROVE ConnsOK'
  BY <1>13, HasConn DEF addSocketByGUID, Others, Resting, Leaving
<1>14. ASSUME LoopConnect PROVE ConnsOK'
  BY <1>14 DEF LoopConnect, PushFrame, Push, NoFrame
<1>15. ASSUME LoopArm PROVE ConnsOK'
  BY <1>15 DEF LoopArm, Others
<1>16. ASSUME LoopMark PROVE ConnsOK'
  BY <1>16 DEF LoopMark, Others
<1>17. ASSUME NEW c \in Conns, NEW e, LoopEvent(c, e) PROVE ConnsOK'
  BY <1>17 DEF LoopEvent
<1>18. ASSUME LoopTest PROVE ConnsOK'
  BY <1>18 DEF LoopTest
<1>19. ASSUME LoopRead PROVE ConnsOK'
  BY <1>19 DEF LoopRead, PushFrame, Push, NoFrame
<1>20. ASSUME NEW k \in Nat, LoopWrite(k) PROVE ConnsOK'
  <2> DEFINE c == Of(Loop)
  <2>0. /\ At(Loop) = "write" /\ k <= Len(chunks[c])
        /\ wire' = [wire EXCEPT ![c] = wire[c] \o SubSeq(chunks[c], 1, k)]
        /\ chunks' = [chunks EXCEPT ![c] = SubSeq(chunks[c], k + 1, Len(chunks[c]))]
        /\ armed' = [armed EXCEPT ![c] = k < Len(chunks[c])] \/ UNCHANGED armed
        /\ UNCHANGED <<conn, tree, closing, received, gone>>
    BY <1>20 DEF LoopWrite
  <2>1. c \in Conns /\ Len(chunks[c]) \in Nat /\ k \in 0 .. Len(chunks[c])
    <3>1. c \in Conns
      BY <2>0, HasConn DEF Resting, Leaving
    <3> QED
      BY <2>0, <3>1, LenProperties
  <2>2. /\ SubSeq(chunks[c], 1, k) \in Seq(Int)
        /\ SubSeq(chunks[c], k + 1, Len(chunks[c])) \in Seq(Int)
    BY <2>1, SubSeqProperties
  <2>3. wire[c] \o SubSeq(chunks[c], 1, k) \in Seq(Int)
    BY <2>1, <2>2, ConcatProperties
  <2> QED
    <3> HIDE DEF c
    <3>1. CASE armed' = [armed EXCEPT ![c] = k < Len(chunks[c])]
      BY <2>0, <2>1, <2>2, <2>3, <3>1, SMTT(30)
    <3>2. CASE UNCHANGED armed
      BY <2>0, <2>1, <2>2, <2>3, <3>2
    <3> QED
      BY <2>0, <3>1, <3>2
<1>21. ASSUME NEW c \in Conns, LoopExpire(c) PROVE ConnsOK'
  BY <1>21 DEF LoopExpire
<1>22. ASSUME NEW c \in Conns, conn_send_ping(c) PROVE ConnsOK'
  BY <1>22 DEF conn_send_ping, AppendFrame, Ping, Others
<1>23. ASSUME QueueDisconnect PROVE ConnsOK'
  BY <1>23 DEF QueueDisconnect
<1>24. ASSUME LockContainer PROVE ConnsOK'
  BY <1>24 DEF LockContainer
<1>25. ASSUME deleteSocket PROVE ConnsOK'
  BY <1>25 DEF deleteSocket, Others
<1>26. ASSUME FreeSocket PROVE ConnsOK'
  <2>1. <<>> \in Seq(Int)
    BY EmptySeq
  <2> QED
    BY <1>26, <2>1 DEF FreeSocket, Others
<1>27. ASSUME LeaveLoop PROVE ConnsOK'
  BY <1>27 DEF LeaveLoop
<1>28. ASSUME NEW c \in Conns, deleteAllSockets(c) PROVE ConnsOK'
  BY <1>28 DEF deleteAllSockets
<1>29. ASSUME StopInput PROVE ConnsOK'
  BY <1>29 DEF StopInput
<1>30. ASSUME StopOutput PROVE ConnsOK'
  BY <1>30 DEF StopOutput
<1>31. ASSUME Stopped PROVE ConnsOK'
  BY <1>31 DEF Stopped
<1>32. CASE UNCHANGED vars
  BY <1>32 DEF vars
<1> HIDE DEF ConnsOK, TypeOK, connVars
<1> QED
  BY <1>1, <1>2, <1>3, <1>4, <1>5, <1>6, <1>7, <1>8, <1>9, <1>10, <1>11,
     <1>12, <1>13, <1>14, <1>15, <1>16, <1>17, <1>18, <1>19, <1>20, <1>21,
     <1>22, <1>23, <1>24, <1>25, <1>26, <1>27, <1>28, <1>29, <1>30, <1>31,
     <1>32
     DEF Next, OutStep, InStep, LoopStep, LoopBegin, AppStep, AppBegin,
         Found, Terminated, Threads

(* Types of the queues.                                                    *)
LEMMA QueuesStep == ASSUME TypeOK, Places, [Next]_vars PROVE QueuesOK'
<1> USE Distinct DEF TypeOK, QueuesOK, queueVars
<1>1. ASSUME NEW t \in Threads \ {Loop}, Lookup(t) PROVE QueuesOK'
  BY <1>1 DEF Lookup
<1>2. ASSUME NEW t \in Threads \ {Loop}, LockFound(t) PROVE QueuesOK'
  BY <1>2 DEF LockFound
<1>3. ASSUME NEW t \in Threads \ {Loop}, MarkClosing(t) PROVE QueuesOK'
  BY <1>3 DEF MarkClosing, Unlock
<1>4. ASSUME OutPop PROVE QueuesOK'
  BY <1>4 DEF OutPop
<1>5. ASSUME OutCheck PROVE QueuesOK'
  BY <1>5 DEF OutCheck, Unlock
<1>6. ASSUME OutAppend PROVE QueuesOK'
  BY <1>6 DEF OutAppend, AppendFrame, Unlock
<1>7. ASSUME InPop PROVE QueuesOK'
  BY <1>7 DEF InPop
<1>8. ASSUME NEW c \in Conns, InHandle(c) PROVE QueuesOK'
  <2>1. c \in Conns
    BY <1>8, HasConn DEF Resting, Leaving, InHandle
  <2>2. Append(outQ, [sig |-> "frame", c |-> c, n |-> pushed + 1]) \in Seq(OutEntry)
    BY <2>1, FramePushed
  <2>3. CASE PushFrame(c)
    BY <1>8, <2>2, <2>3 DEF InHandle, PushFrame, Push
  <2>4. CASE NoFrame
    BY <1>8, <2>4 DEF InHandle, NoFrame
  <2> QED
    BY <1>8, <2>3, <2>4 DEF InHandle
<1>9. ASSUME NEW t \in Apps, NEW c \in Conns, AppSend(t, c) PROVE QueuesOK'
  BY <1>9 DEF AppSend
<1>10. ASSUME NEW t \in Apps, AppPush(t) PROVE QueuesOK'
  <2>1. Of(t) \in Conns
    BY <1>10, HasConn DEF Resting, Leaving, AppPush
  <2>2. Append(outQ, [sig |-> "frame", c |-> Of(t), n |-> pushed + 1]) \in Seq(OutEntry)
    BY <2>1, FramePushed
  <2> QED
    BY <1>10, <2>2 DEF AppPush, Push
<1>11. ASSUME NEW t \in Apps, NEW c \in Conns, AppClose(t, c)
       PROVE  QueuesOK'
  BY <1>11 DEF AppClose
<1>12. ASSUME NEW c \in Conns, LoopUpgrade(c) PROVE QueuesOK'
  BY <1>12 DEF LoopUpgrade, Others
<1>13. ASSUME addSocketByGUID PROVE QueuesOK'
  BY <1>13 DEF addSocketByGUID, Others
<1>14. ASSUME LoopConnect PROVE QueuesOK'
  <2>1. Of(Loop) \in Conns
    BY <1>14, HasConn DEF Resting, Leaving, LoopConnect
  <2>2. Append(outQ, [sig |-> "frame", c |-> Of(Loop), n |-> pushed + 1])
          \in Seq(OutEntry)
    BY <2>1, FramePushed
  <2>3. CASE PushFrame(Of(Loop))
    BY <1>14, <2>2, <2>3 DEF LoopConnect, PushFrame, Push
  <2>4. CASE NoFrame
    BY <1>14, <2>4 DEF LoopConnect, NoFrame
  <2> QED
    BY <1>14, <2>3, <2>4 DEF LoopConnect
<1>15. ASSUME LoopArm PROVE QueuesOK'
  BY <1>15 DEF LoopArm, Others
<1>16. ASSUME LoopMark PROVE QueuesOK'
  BY <1>16 DEF LoopMark, Others
<1>17. ASSUME NEW c \in Conns, NEW e, LoopEvent(c, e) PROVE QueuesOK'
  BY <1>17 DEF LoopEvent
<1>18. ASSUME LoopTest PROVE QueuesOK'
  BY <1>18 DEF LoopTest
<1>19. ASSUME LoopRead PROVE QueuesOK'
  <2>1. Of(Loop) \in Conns
    BY <1>19, HasConn DEF Resting, Leaving, LoopRead
  <2>2. Append(outQ, [sig |-> "frame", c |-> Of(Loop), n |-> pushed + 1])
          \in Seq(OutEntry)
    BY <2>1, FramePushed
  <2>3. Append(inQ, [sig |-> "msg", c |-> Of(Loop), n |-> 0]) \in Seq(InEntry)
    BY <2>1, Entries, AppendOf
  <2>4. CASE PushFrame(Of(Loop)) /\ UNCHANGED inQ
    BY <1>19, <2>2, <2>4 DEF LoopRead, PushFrame, Push
  <2>5. CASE NoFrame /\ inQ' = Append(inQ, [sig |-> "msg", c |-> Of(Loop), n |-> 0])
    BY <1>19, <2>3, <2>5 DEF LoopRead, NoFrame
  <2>6. CASE NoFrame /\ UNCHANGED inQ
    BY <1>19, <2>6 DEF LoopRead, NoFrame
  <2> QED
    BY <1>19, <2>4, <2>5, <2>6 DEF LoopRead
<1>20. ASSUME NEW k \in Nat, LoopWrite(k) PROVE QueuesOK'
  BY <1>20 DEF LoopWrite
<1>21. ASSUME NEW c \in Conns, LoopExpire(c) PROVE QueuesOK'
  BY <1>21 DEF LoopExpire
<1>22. ASSUME NEW c \in Conns, conn_send_ping(c) PROVE QueuesOK'
  BY <1>22 DEF conn_send_ping, AppendFrame, Ping, Others
<1>23. ASSUME QueueDisconnect PROVE QueuesOK'
  <2>1. Of(Loop) \in Conns
    BY <1>23, HasConn DEF Resting, Leaving, QueueDisconnect
  <2>2. Append(inQ, [sig |-> "disconnect", c |-> Of(Loop), n |-> 0]) \in Seq(InEntry)
    BY <2>1, Entries, AppendOf
  <2> QED
    BY <1>23, <2>2 DEF QueueDisconnect
<1>24. ASSUME LockContainer PROVE QueuesOK'
  BY <1>24 DEF LockContainer
<1>25. ASSUME deleteSocket PROVE QueuesOK'
  BY <1>25 DEF deleteSocket, Others
<1>26. ASSUME FreeSocket PROVE QueuesOK'
  BY <1>26 DEF FreeSocket, Others
<1>27. ASSUME LeaveLoop PROVE QueuesOK'
  BY <1>27 DEF LeaveLoop
<1>28. ASSUME NEW c \in Conns, deleteAllSockets(c) PROVE QueuesOK'
  BY <1>28 DEF deleteAllSockets
<1>29. ASSUME StopInput PROVE QueuesOK'
  <2>1. Append(inQ, Stop) \in Seq(InEntry)
    BY Entries, AppendOf
  <2> QED
    BY <1>29, <2>1 DEF StopInput
<1>30. ASSUME StopOutput PROVE QueuesOK'
  <2>1. Append(outQ, Stop) \in Seq(OutEntry)
    BY Entries, AppendOf
  <2> QED
    BY <1>30, <2>1 DEF StopOutput
<1>31. ASSUME Stopped PROVE QueuesOK'
  BY <1>31 DEF Stopped
<1>32. CASE UNCHANGED vars
  BY <1>32 DEF vars
<1> QED
  BY <1>1, <1>2, <1>3, <1>4, <1>5, <1>6, <1>7, <1>8, <1>9, <1>10, <1>11,
     <1>12, <1>13, <1>14, <1>15, <1>16, <1>17, <1>18, <1>19, <1>20, <1>21,
     <1>22, <1>23, <1>24, <1>25, <1>26, <1>27, <1>28, <1>29, <1>30, <1>31,
     <1>32
     DEF Next, OutStep, InStep, LoopStep, LoopBegin, AppStep, AppBegin,
         Found, Terminated, Threads

(* Types of the mutexes.                                                   *)
LEMMA LocksTypeStep == ASSUME TypeOK, Places, [Next]_vars PROVE LocksOK'
<1> USE Distinct DEF TypeOK, LocksOK, lockVars
<1>1. ASSUME NEW t \in Threads \ {Loop}, Lookup(t) PROVE LocksOK'
  BY <1>1 DEF Lookup
<1>2. ASSUME NEW t \in Threads \ {Loop}, LockFound(t) PROVE LocksOK'
  BY <1>2 DEF LockFound
<1>3. ASSUME NEW t \in Threads \ {Loop}, MarkClosing(t) PROVE LocksOK'
  BY <1>3 DEF MarkClosing, Unlock
<1>4. ASSUME OutPop PROVE LocksOK'
  BY <1>4 DEF OutPop
<1>5. ASSUME OutCheck PROVE LocksOK'
  BY <1>5 DEF OutCheck, Unlock
<1>6. ASSUME OutAppend PROVE LocksOK'
  BY <1>6 DEF OutAppend, AppendFrame, Unlock
<1>7. ASSUME InPop PROVE LocksOK'
  BY <1>7 DEF InPop
<1>8. ASSUME NEW c \in Conns, InHandle(c) PROVE LocksOK'
  BY <1>8 DEF InHandle, PushFrame, Push, NoFrame
<1>9. ASSUME NEW t \in Apps, NEW c \in Conns, AppSend(t, c) PROVE LocksOK'
  BY <1>9 DEF AppSend
<1>10. ASSUME NEW t \in Apps, AppPush(t) PROVE LocksOK'
  BY <1>10 DEF AppPush, Push
<1>11. ASSUME NEW t \in Apps, NEW c \in Conns, AppClose(t, c) PROVE LocksOK'
  BY <1>11 DEF AppClose
<1>12. ASSUME NEW c \in Conns, LoopUpgrade(c) PROVE LocksOK'
  BY <1>12 DEF LoopUpgrade, Others
<1>13. ASSUME addSocketByGUID PROVE LocksOK'
  BY <1>13 DEF addSocketByGUID, Others
<1>14. ASSUME LoopConnect PROVE LocksOK'
  BY <1>14 DEF LoopConnect, PushFrame, Push, NoFrame
<1>15. ASSUME LoopArm PROVE LocksOK'
  BY <1>15 DEF LoopArm, Others
<1>16. ASSUME LoopMark PROVE LocksOK'
  BY <1>16 DEF LoopMark, Others
<1>17. ASSUME NEW c \in Conns, NEW e, LoopEvent(c, e) PROVE LocksOK'
  BY <1>17 DEF LoopEvent
<1>18. ASSUME LoopTest PROVE LocksOK'
  BY <1>18 DEF LoopTest
<1>19. ASSUME LoopRead PROVE LocksOK'
  BY <1>19 DEF LoopRead, PushFrame, Push, NoFrame
<1>20. ASSUME NEW k \in Nat, LoopWrite(k) PROVE LocksOK'
  BY <1>20 DEF LoopWrite
<1>21. ASSUME NEW c \in Conns, LoopExpire(c) PROVE LocksOK'
  BY <1>21 DEF LoopExpire
<1>22. ASSUME NEW c \in Conns, conn_send_ping(c) PROVE LocksOK'
  BY <1>22 DEF conn_send_ping, AppendFrame, Ping, Others
<1>23. ASSUME QueueDisconnect PROVE LocksOK'
  BY <1>23 DEF QueueDisconnect
<1>24. ASSUME LockContainer PROVE LocksOK'
  BY <1>24 DEF LockContainer
<1>25. ASSUME deleteSocket PROVE LocksOK'
  BY <1>25 DEF deleteSocket, Others
<1>26. ASSUME FreeSocket PROVE LocksOK'
  BY <1>26 DEF FreeSocket, Others
<1>27. ASSUME LeaveLoop PROVE LocksOK'
  BY <1>27 DEF LeaveLoop
<1>28. ASSUME NEW c \in Conns, deleteAllSockets(c) PROVE LocksOK'
  BY <1>28 DEF deleteAllSockets
<1>29. ASSUME StopInput PROVE LocksOK'
  BY <1>29 DEF StopInput
<1>30. ASSUME StopOutput PROVE LocksOK'
  BY <1>30 DEF StopOutput
<1>31. ASSUME Stopped PROVE LocksOK'
  BY <1>31 DEF Stopped
<1>32. CASE UNCHANGED vars
  BY <1>32 DEF vars
<1> QED
  BY <1>1, <1>2, <1>3, <1>4, <1>5, <1>6, <1>7, <1>8, <1>9, <1>10, <1>11,
     <1>12, <1>13, <1>14, <1>15, <1>16, <1>17, <1>18, <1>19, <1>20, <1>21,
     <1>22, <1>23, <1>24, <1>25, <1>26, <1>27, <1>28, <1>29, <1>30, <1>31,
     <1>32
     DEF Next, OutStep, InStep, LoopStep, LoopBegin, AppStep, AppBegin,
         Found, Terminated, Threads

(* Every thread stays in its own code.                                     *)
LEMMA PlacesStep == ASSUME TypeOK, Places, [Next]_vars PROVE ThreadsOK' /\ Places'
<1> USE Distinct, Moves, InHand
    DEF TypeOK, Places, Place, Resting, Upgrading, Serving, Closing, Leaving,
        Sending, ToClose, Moved
<1>1. ASSUME NEW t \in Threads \ {Loop}, Lookup(t)
      PROVE  ThreadsOK' /\ Places'
  BY <1>1 DEF Lookup
<1>2. ASSUME NEW t \in Threads \ {Loop}, LockFound(t)
      PROVE  ThreadsOK' /\ Places'
  BY <1>2 DEF LockFound
<1>3. ASSUME NEW t \in Threads \ {Loop}, MarkClosing(t)
      PROVE  ThreadsOK' /\ Places'
  BY <1>3 DEF MarkClosing, Unlock
<1>4. ASSUME OutPop PROVE ThreadsOK' /\ Places'
  BY <1>4, PopMoves
<1>5. ASSUME OutCheck PROVE ThreadsOK' /\ Places'
  BY <1>5 DEF OutCheck, Unlock
<1>6. ASSUME OutAppend PROVE ThreadsOK' /\ Places'
  BY <1>6 DEF OutAppend, AppendFrame, Unlock
<1>7. ASSUME InPop PROVE ThreadsOK' /\ Places'
  BY <1>7, PopMoves
<1>8. ASSUME NEW c \in Conns, InHandle(c) PROVE ThreadsOK' /\ Places'
  BY <1>8 DEF InHandle, PushFrame, Push, NoFrame
<1>9. ASSUME NEW t \in Apps, NEW c \in Conns, AppSend(t, c)
      PROVE  ThreadsOK' /\ Places'
  <2>1. CASE UNCHANGED th
    BY <2>1, Stays
  <2>2. CASE Goto(t, "push", c, 0)
    BY <2>2
  <2> QED
    BY <1>9, <2>1, <2>2 DEF AppSend
<1>10. ASSUME NEW t \in Apps, AppPush(t) PROVE ThreadsOK' /\ Places'
  BY <1>10, SMTT(30) DEF AppPush, Push
<1>11. ASSUME NEW t \in Apps, NEW c \in Conns, AppClose(t, c)
       PROVE  ThreadsOK' /\ Places'
  BY <1>11 DEF AppClose
<1>12. ASSUME NEW c \in Conns, LoopUpgrade(c) PROVE ThreadsOK' /\ Places'
  BY <1>12 DEF LoopUpgrade, Others
<1>13. ASSUME addSocketByGUID PROVE ThreadsOK' /\ Places'
  BY <1>13 DEF addSocketByGUID, Others
<1>14. ASSUME LoopConnect PROVE ThreadsOK' /\ Places'
  BY <1>14 DEF LoopConnect, PushFrame, Push, NoFrame
<1>15. ASSUME LoopArm PROVE ThreadsOK' /\ Places'
  BY <1>15 DEF LoopArm, Others
<1>16. ASSUME LoopMark PROVE ThreadsOK' /\ Places'
  BY <1>16 DEF LoopMark, Others
<1>17. ASSUME NEW c \in Conns, NEW e, LoopEvent(c, e)
       PROVE  ThreadsOK' /\ Places'
  BY <1>17 DEF LoopEvent
<1>18. ASSUME LoopTest PROVE ThreadsOK' /\ Places'
  BY <1>18 DEF LoopTest
<1>19. ASSUME LoopRead PROVE ThreadsOK' /\ Places'
  BY <1>19 DEF LoopRead, PushFrame, Push, NoFrame
<1>20. ASSUME NEW k \in Nat, LoopWrite(k) PROVE ThreadsOK' /\ Places'
  BY <1>20 DEF LoopWrite
<1>21. ASSUME NEW c \in Conns, LoopExpire(c) PROVE ThreadsOK' /\ Places'
  BY <1>21 DEF LoopExpire
<1>22. ASSUME NEW c \in Conns, conn_send_ping(c) PROVE ThreadsOK' /\ Places'
  BY <1>22, Stays DEF conn_send_ping
<1>23. ASSUME QueueDisconnect PROVE ThreadsOK' /\ Places'
  BY <1>23 DEF QueueDisconnect
<1>24. ASSUME LockContainer PROVE ThreadsOK' /\ Places'
  BY <1>24 DEF LockContainer
<1>25. ASSUME deleteSocket PROVE ThreadsOK' /\ Places'
  BY <1>25 DEF deleteSocket, Others
<1>26. ASSUME FreeSocket PROVE ThreadsOK' /\ Places'
  BY <1>26 DEF FreeSocket, Others
<1>27. ASSUME LeaveLoop PROVE ThreadsOK' /\ Places'
  BY <1>27 DEF LeaveLoop
<1>28. ASSUME NEW c \in Conns, deleteAllSockets(c)
       PROVE  ThreadsOK' /\ Places'
  BY <1>28 DEF deleteAllSockets
<1>29. ASSUME StopInput PROVE ThreadsOK' /\ Places'
  BY <1>29 DEF StopInput
<1>30. ASSUME StopOutput PROVE ThreadsOK' /\ Places'
  BY <1>30 DEF StopOutput
<1>31. ASSUME Stopped PROVE ThreadsOK' /\ Places'
  BY <1>31 DEF Stopped
<1>32. CASE UNCHANGED vars
  BY <1>32, Stays DEF vars
<1> QED
  BY <1>1, <1>2, <1>3, <1>4, <1>5, <1>6, <1>7, <1>8, <1>9, <1>10, <1>11,
     <1>12, <1>13, <1>14, <1>15, <1>16, <1>17, <1>18, <1>19, <1>20, <1>21,
     <1>22, <1>23, <1>24, <1>25, <1>26, <1>27, <1>28, <1>29, <1>30, <1>31,
     <1>32
     DEF Next, OutStep, InStep, LoopStep, LoopBegin, AppStep, AppBegin,
         Found, Terminated, Threads

(* Every step keeps the types.                                             *)
LEMMA TypeStep == ASSUME TypeOK, Places, [Next]_vars PROVE TypeOK' /\ Places'
<1>1. ending' \in BOOLEAN
  BY DEF TypeOK, Next, OutStep, InStep, LoopStep, LoopBegin, AppStep,
         AppBegin, Found, Terminated, vars, Lookup, LockFound, MarkClosing,
         OutPop, OutCheck, OutAppend, InPop, InHandle, AppSend, AppPush,
         AppClose, LoopUpgrade, addSocketByGUID, LoopConnect, LoopArm,
         LoopMark, LoopEvent, LoopTest, LoopRead, LoopWrite, LoopExpire,
         conn_send_ping, QueueDisconnect, LockContainer, deleteSocket,
         FreeSocket, LeaveLoop, deleteAllSockets, StopInput, StopOutput,
         Stopped
<1> QED
  BY <1>1, ConnsStep, QueuesStep, LocksTypeStep, PlacesStep DEF TypeOK

-----------------------------------------------------------------------------
(* The mutexes are held by the threads between lock and unlock.            *)
LEMMA LocksStep == ASSUME TypeOK, Places, Locks, [Next]_vars PROVE Locks'
<1> ThreadsOK /\ LocksOK
  BY DEF TypeOK
<1> USE Distinct, Moves
    DEF LocksOK, Locks, Looked, Locked, Moved, Place, Upgrading, Serving, Closing,
        Leaving, Sending, ToClose, lockVars
<1>1. ASSUME NEW t \in Threads \ {Loop}, Lookup(t) PROVE Locks'
  BY <1>1 DEF Lookup
<1>2. ASSUME NEW t \in Threads \ {Loop}, LockFound(t) PROVE Locks'
  BY <1>2 DEF LockFound
<1>3. ASSUME NEW t \in Threads \ {Loop}, MarkClosing(t) PROVE Locks'
  BY <1>3 DEF MarkClosing, Unlock
<1>4. ASSUME OutPop PROVE Locks'
  BY <1>4, PopMoves DEF OutPop
<1>5. ASSUME OutCheck PROVE Locks'
  BY <1>5 DEF OutCheck, Unlock
<1>6. ASSUME OutAppend PROVE Locks'
  BY <1>6 DEF OutAppend, AppendFrame, Unlock
<1>7. ASSUME InPop PROVE Locks'
  BY <1>7, PopMoves DEF InPop
<1>8. ASSUME NEW c \in Conns, InHandle(c) PROVE Locks'
  BY <1>8 DEF InHandle, PushFrame, Push, NoFrame
<1>9. ASSUME NEW t \in Apps, NEW c \in Conns, AppSend(t, c) PROVE Locks'
  <2> t \in Threads /\ t # Loop
    OBVIOUS
  <2>1. CASE UNCHANGED th
    BY <1>9, <2>1, Stays DEF AppSend
  <2>2. CASE Goto(t, "push", c, 0)
    BY <1>9, <2>2 DEF AppSend
  <2> QED
    BY <1>9, <2>1, <2>2 DEF AppSend
<1>10. ASSUME NEW t \in Apps, AppPush(t) PROVE Locks'
  BY <1>10 DEF AppPush, Push
<1>11. ASSUME NEW t \in Apps, NEW c \in Conns, AppClose(t, c) PROVE Locks'
  <2> t \in Threads /\ t # Loop
    OBVIOUS
  <2> QED
    BY <1>11 DEF AppClose
<1>12. ASSUME NEW c \in Conns, LoopUpgrade(c) PROVE Locks'
  BY <1>12 DEF LoopUpgrade, Others
<1>13. ASSUME addSocketByGUID PROVE Locks'
  BY <1>13 DEF addSocketByGUID, Others
<1>14. ASSUME LoopConnect PROVE Locks'
  BY <1>14 DEF LoopConnect, PushFrame, Push, NoFrame
<1>15. ASSUME LoopArm PROVE Locks'
  BY <1>15 DEF LoopArm, Others
<1>16. ASSUME LoopMark PROVE Locks'
  BY <1>16 DEF LoopMark, Others
<1>17. ASSUME NEW c \in Conns, NEW e, LoopEvent(c, e) PROVE Locks'
  BY <1>17 DEF LoopEvent
<1>18. ASSUME LoopTest PROVE Locks'
  BY <1>18 DEF LoopTest
<1>19. ASSUME LoopRead PROVE Locks'
  BY <1>19, SMTT(30) DEF LoopRead, PushFrame, Push, NoFrame
<1>20. ASSUME NEW k \in Nat, LoopWrite(k) PROVE Locks'
  BY <1>20 DEF LoopWrite
<1>21. ASSUME NEW c \in Conns, LoopExpire(c) PROVE Locks'
  BY <1>21 DEF LoopExpire
<1>22. ASSUME NEW c \in Conns, conn_send_ping(c) PROVE Locks'
  BY <1>22, Stays DEF conn_send_ping, Others, AppendFrame
<1>23. ASSUME QueueDisconnect PROVE Locks'
  BY <1>23 DEF QueueDisconnect
<1>24. ASSUME LockContainer PROVE Locks'
  BY <1>24 DEF LockContainer
<1>25. ASSUME deleteSocket PROVE Locks'
  BY <1>25 DEF deleteSocket, Others
<1>26. ASSUME FreeSocket PROVE Locks'
  BY <1>26 DEF FreeSocket, Others
<1>27. ASSUME LeaveLoop PROVE Locks'
  BY <1>27 DEF LeaveLoop
<1>28. ASSUME NEW c \in Conns, deleteAllSockets(c) PROVE Locks'
  BY <1>28 DEF deleteAllSockets
<1>29. ASSUME StopInput PROVE Locks'
  BY <1>29 DEF StopInput
<1>30. ASSUME StopOutput PROVE Locks'
  BY <1>30 DEF StopOutput
<1>31. ASSUME Stopped PROVE Locks'
  BY <1>31 DEF Stopped
<1>32. CASE UNCHANGED vars
  BY <1>32, Stays DEF vars
<1> HIDE DEF Locks
<1> QED
  BY <1>1, <1>2, <1>3, <1>4, <1>5, <1>6, <1>7, <1>8, <1>9, <1>10, <1>11,
     <1>12, <1>13, <1>14, <1>15, <1>16, <1>17, <1>18, <1>19, <1>20, <1>21,
     <1>22, <1>23, <1>24, <1>25, <1>26, <1>27, <1>28, <1>29, <1>30, <1>31,
     <1>32
     DEF Next, OutStep, InStep, LoopStep, LoopBegin, AppStep, AppBegin,
         Found, Terminated, Threads

(* A socket is only taken out of the tree when no thread has found it.     *)
LEMMA FoundStep ==
    ASSUME TypeOK, Places, Locks, FoundStays, [Next]_vars PROVE FoundStays'
<1> ThreadsOK
  BY DEF TypeOK
<1> USE Distinct, Moves
    DEF Moved, Place, Upgrading, Serving, Closing, Leaving, Sending,
        ToClose, connVars, lockVars, FoundStays, Looked, Locked
<1>1. ASSUME NEW t \in Threads \ {Loop}, Lookup(t) PROVE FoundStays'
  BY <1>1 DEF Lookup
<1>2. ASSUME NEW t \in Threads \ {Loop}, LockFound(t) PROVE FoundStays'
  BY <1>2 DEF LockFound
<1>3. ASSUME NEW t \in Threads \ {Loop}, MarkClosing(t) PROVE FoundStays'
  BY <1>3 DEF MarkClosing, Unlock
<1>4. ASSUME OutPop PROVE FoundStays'
  BY <1>4, PopMoves DEF OutPop
<1>5. ASSUME OutCheck PROVE FoundStays'
  BY <1>5 DEF OutCheck, Unlock
<1>6. ASSUME OutAppend PROVE FoundStays'
  BY <1>6 DEF OutAppend, AppendFrame, Unlock
<1>7. ASSUME InPop PROVE FoundStays'
  BY <1>7, PopMoves DEF InPop
<1>8. ASSUME NEW c \in Conns, InHandle(c) PROVE FoundStays'
  BY <1>8 DEF InHandle, PushFrame, Push, NoFrame
<1>9. ASSUME NEW t \in Apps, NEW c \in Conns, AppSend(t, c)
      PROVE  FoundStays'
  <2> t \in Threads /\ t # Loop
    OBVIOUS
  <2>1. CASE UNCHANGED th
    BY <1>9, <2>1, Stays DEF AppSend
  <2>2. CASE Goto(t, "push", c, 0)
    BY <1>9, <2>2 DEF AppSend
  <2> QED
    BY <1>9, <2>1, <2>2 DEF AppSend
<1>10. ASSUME NEW t \in Apps, AppPush(t) PROVE FoundStays'
  BY <1>10 DEF AppPush, Push
<1>11. ASSUME NEW t \in Apps, NEW c \in Conns, AppClose(t, c)
       PROVE  FoundStays'
  <2> t \in Threads /\ t # Loop
    OBVIOUS
  <2> QED
    BY <1>11 DEF AppClose
<1>12. ASSUME NEW c \in Conns, LoopUpgrade(c) PROVE FoundStays'
  BY <1>12 DEF LoopUpgrade, Others
<1>13. ASSUME addSocketByGUID PROVE FoundStays'
  BY <1>13 DEF addSocketByGUID, Others
<1>14. ASSUME LoopConnect PROVE FoundStays'
  BY <1>14 DEF LoopConnect, PushFrame, Push, NoFrame
<1>15. ASSUME LoopArm PROVE FoundStays'
  BY <1>15 DEF LoopArm, Others
<1>16. ASSUME LoopMark PROVE FoundStays'
  BY <1>16 DEF LoopMark, Others
<1>17. ASSUME NEW c \in Conns, NEW e, LoopEvent(c, e) PROVE FoundStays'
  BY <1>17 DEF LoopEvent
<1>18. ASSUME LoopTest PROVE FoundStays'
  BY <1>18 DEF LoopTest
<1>19. ASSUME LoopRead PROVE FoundStays'
  BY <1>19 DEF LoopRead, PushFrame, Push, NoFrame
<1>20. ASSUME NEW k \in Nat, LoopWrite(k) PROVE FoundStays'
  BY <1>20 DEF LoopWrite
<1>21. ASSUME NEW c \in Conns, LoopExpire(c) PROVE FoundStays'
  BY <1>21 DEF LoopExpire
<1>22. ASSUME NEW c \in Conns, conn_send_ping(c) PROVE FoundStays'
  BY <1>22, Stays DEF conn_send_ping, Others, AppendFrame
<1>23. ASSUME QueueDisconnect PROVE FoundStays'
  BY <1>23 DEF QueueDisconnect
<1>24. ASSUME LockContainer PROVE FoundStays'
  BY <1>24 DEF LockContainer
<1>25. ASSUME deleteSocket PROVE FoundStays'
  <2>1. Of(Loop) \in Conns
    BY <1>25, HasConn DEF deleteSocket, Resting
  <2>2. ASSUME NEW t \in Threads, At(t) \in Looked \cup Locked
        PROVE  Of(t) # Of(Loop)
    <3>1. CASE At(t) \in Looked
      BY <1>25, <3>1 DEF deleteSocket, Locks
    <3>2. CASE At(t) \in Locked
      BY <1>25, <2>1, <3>2 DEF deleteSocket, Locks
    <3> QED
      BY <2>2, <3>1, <3>2
  <2>3. Moved(Loop, "unregister", Of(Loop), Frame(Loop))
    BY <1>25 DEF deleteSocket
  <2> QED
    BY <1>25, <2>2, <2>3 DEF deleteSocket
<1>26. ASSUME FreeSocket PROVE FoundStays'
  BY <1>26 DEF FreeSocket, Others
<1>27. ASSUME LeaveLoop PROVE FoundStays'
  BY <1>27 DEF LeaveLoop
<1>28. ASSUME NEW c \in Conns, deleteAllSockets(c) PROVE FoundStays'
  BY <1>28 DEF deleteAllSockets
<1>29. ASSUME StopInput PROVE FoundStays'
  BY <1>29 DEF StopInput
<1>30. ASSUME StopOutput PROVE FoundStays'
  BY <1>30 DEF StopOutput
<1>31. ASSUME Stopped PROVE FoundStays'
  BY <1>31 DEF Stopped
<1>32. CASE UNCHANGED vars
  BY <1>32, Stays DEF vars
<1> HIDE DEF FoundStays
<1> QED
  BY <1>1, <1>2, <1>3, <1>4, <1>5, <1>6, <1>7, <1>8, <1>9, <1>10, <1>11,
     <1>12, <1>13, <1>14, <1>15, <1>16, <1>17, <1>18, <1>19, <1>20, <1>21,
     <1>22, <1>23, <1>24, <1>25, <1>26, <1>27, <1>28, <1>29, <1>30, <1>31,
     <1>32
     DEF Next, OutStep, InStep, LoopStep, LoopBegin, AppStep, AppBegin,
         Found, Terminated, Threads

(* A socket is only freed when it is out of the tree.                      *)
LEMMA OpenStep ==
    ASSUME TypeOK, Places, FoundStays, OpenInUse, [Next]_vars PROVE OpenInUse'
<1> ThreadsOK /\ ConnsOK
  BY DEF TypeOK
<1> USE Distinct, Moves
    DEF ConnsOK, Moved, Place, Upgrading, Serving, Closing, Leaving, Sending,
        ToClose, connVars, OpenInUse
<1>1. ASSUME NEW t \in Threads \ {Loop}, Lookup(t) PROVE OpenInUse'
  BY <1>1 DEF Lookup
<1>2. ASSUME NEW t \in Threads \ {Loop}, LockFound(t) PROVE OpenInUse'
  BY <1>2 DEF LockFound
<1>3. ASSUME NEW t \in Threads \ {Loop}, MarkClosing(t) PROVE OpenInUse'
  BY <1>3 DEF MarkClosing, Unlock
<1>4. ASSUME OutPop PROVE OpenInUse'
  BY <1>4, PopMoves DEF OutPop
<1>5. ASSUME OutCheck PROVE OpenInUse'
  BY <1>5 DEF OutCheck, Unlock
<1>6. ASSUME OutAppend PROVE OpenInUse'
  BY <1>6 DEF OutAppend, AppendFrame, Unlock
<1>7. ASSUME InPop PROVE OpenInUse'
  BY <1>7, PopMoves DEF InPop
<1>8. ASSUME NEW c \in Conns, InHandle(c) PROVE OpenInUse'
  BY <1>8 DEF InHandle, PushFrame, Push, NoFrame
<1>9. ASSUME NEW t \in Apps, NEW c \in Conns, AppSend(t, c) PROVE OpenInUse'
  <2> t \in Threads /\ t # Loop
    OBVIOUS
  <2>1. CASE UNCHANGED th
    BY <1>9, <2>1, Stays DEF AppSend
  <2>2. CASE Goto(t, "push", c, 0)
    BY <1>9, <2>2 DEF AppSend
  <2> QED
    BY <1>9, <2>1, <2>2 DEF AppSend
<1>10. ASSUME NEW t \in Apps, AppPush(t) PROVE OpenInUse'
  BY <1>10 DEF AppPush, Push
<1>11. ASSUME NEW t \in Apps, NEW c \in Conns, AppClose(t, c)
       PROVE  OpenInUse'
  <2> t \in Threads /\ t # Loop
    OBVIOUS
  <2> QED
    BY <1>11 DEF AppClose
<1>12. ASSUME NEW c \in Conns, LoopUpgrade(c) PROVE OpenInUse'
  BY <1>12 DEF LoopUpgrade, Others
<1>13. ASSUME addSocketByGUID PROVE OpenInUse'
  BY <1>13 DEF addSocketByGUID, Others
<1>14. ASSUME LoopConnect PROVE OpenInUse'
  BY <1>14 DEF LoopConnect, PushFrame, Push, NoFrame
<1>15. ASSUME LoopArm PROVE OpenInUse'
  BY <1>15 DEF LoopArm, Others
<1>16. ASSUME LoopMark PROVE OpenInUse'
  BY <1>16 DEF LoopMark, Others
<1>17. ASSUME NEW c \in Conns, NEW e, LoopEvent(c, e) PROVE OpenInUse'
  BY <1>17 DEF LoopEvent
<1>18. ASSUME LoopTest PROVE OpenInUse'
  BY <1>18 DEF LoopTest
<1>19. ASSUME LoopRead PROVE OpenInUse'
  BY <1>19 DEF LoopRead, PushFrame, Push, NoFrame
<1>20. ASSUME NEW k \in Nat, LoopWrite(k) PROVE OpenInUse'
  BY <1>20 DEF LoopWrite
<1>21. ASSUME NEW c \in Conns, LoopExpire(c) PROVE OpenInUse'
  BY <1>21 DEF LoopExpire
<1>22. ASSUME NEW c \in Conns, conn_send_ping(c) PROVE OpenInUse'
  BY <1>22, Stays DEF conn_send_ping, Others, AppendFrame
<1>23. ASSUME QueueDisconnect PROVE OpenInUse'
  BY <1>23 DEF QueueDisconnect
<1>24. ASSUME LockContainer PROVE OpenInUse'
  BY <1>24 DEF LockContainer
<1>25. ASSUME deleteSocket PROVE OpenInUse'
  BY <1>25 DEF deleteSocket, Others
<1>26. ASSUME FreeSocket PROVE OpenInUse'
  BY <1>26 DEF FreeSocket, Others, FoundStays
<1>27. ASSUME LeaveLoop PROVE OpenInUse'
  BY <1>27 DEF LeaveLoop
<1>28. ASSUME NEW c \in Conns, deleteAllSockets(c) PROVE OpenInUse'
  BY <1>28 DEF deleteAllSockets
<1>29. ASSUME StopInput PROVE OpenInUse'
  BY <1>29 DEF StopInput
<1>30. ASSUME StopOutput PROVE OpenInUse'
  BY <1>30 DEF StopOutput
<1>31. ASSUME Stopped PROVE OpenInUse'
  BY <1>31 DEF Stopped
<1>32. CASE UNCHANGED vars
  BY <1>32, Stays DEF vars
<1> HIDE DEF OpenInUse
<1> QED
  BY <1>1, <1>2, <1>3, <1>4, <1>5, <1>6, <1>7, <1>8, <1>9, <1>10, <1>11,
     <1>12, <1>13, <1>14, <1>15, <1>16, <1>17, <1>18, <1>19, <1>20, <1>21,
     <1>22, <1>23, <1>24, <1>25, <1>26, <1>27, <1>28, <1>29, <1>30, <1>31,
     <1>32
     DEF Next, OutStep, InStep, LoopStep, LoopBegin, AppStep, AppBegin,
         Found, Terminated, Threads

(* Frames are only queued for an open socket.                              *)
LEMMA EmptyStep ==
    ASSUME TypeOK, Places, FoundStays, OpenInUse, ClosedEmpty, [Next]_vars
    PROVE  ClosedEmpty'
<1> ThreadsOK /\ ConnsOK
  BY DEF TypeOK
<1> USE Distinct, Moves
    DEF ConnsOK, Moved, Place, Upgrading, Serving, Closing, Leaving, Sending,
        ToClose, connVars, ClosedEmpty
<1>1. ASSUME NEW t \in Threads \ {Loop}, Lookup(t) PROVE ClosedEmpty'
  BY <1>1 DEF Lookup
<1>2. ASSUME NEW t \in Threads \ {Loop}, LockFound(t) PROVE ClosedEmpty'
  BY <1>2 DEF LockFound
<1>3. ASSUME NEW t \in Threads \ {Loop}, MarkClosing(t) PROVE ClosedEmpty'
  BY <1>3 DEF MarkClosing, Unlock
<1>4. ASSUME OutPop PROVE ClosedEmpty'
  BY <1>4, PopMoves DEF OutPop
<1>5. ASSUME OutCheck PROVE ClosedEmpty'
  BY <1>5 DEF OutCheck, Unlock
<1>6. ASSUME OutAppend PROVE ClosedEmpty'
  <2>1. Of(Out) \in Conns /\ conn[Of(Out)] = "open"
    BY <1>6, HasConn DEF OutAppend, FoundStays, OpenInUse, Locked, Resting
  <2> QED
    BY <1>6, <2>1 DEF OutAppend, AppendFrame
<1>7. ASSUME InPop PROVE ClosedEmpty'
  BY <1>7, PopMoves DEF InPop
<1>8. ASSUME NEW c \in Conns, InHandle(c) PROVE ClosedEmpty'
  BY <1>8 DEF InHandle, PushFrame, Push, NoFrame
<1>9. ASSUME NEW t \in Apps, NEW c \in Conns, AppSend(t, c)
      PROVE  ClosedEmpty'
  <2> t \in Threads /\ t # Loop
    OBVIOUS
  <2>1. CASE UNCHANGED th
    BY <1>9, <2>1, Stays DEF AppSend
  <2>2. CASE Goto(t, "push", c, 0)
    BY <1>9, <2>2 DEF AppSend
  <2> QED
    BY <1>9, <2>1, <2>2 DEF AppSend
<1>10. ASSUME NEW t \in Apps, AppPush(t) PROVE ClosedEmpty'
  BY <1>10 DEF AppPush, Push
<1>11. ASSUME NEW t \in Apps, NEW c \in Conns, AppClose(t, c)
       PROVE  ClosedEmpty'
  <2> t \in Threads /\ t # Loop
    OBVIOUS
  <2> QED
    BY <1>11 DEF AppClose
<1>12. ASSUME NEW c \in Conns, LoopUpgrade(c) PROVE ClosedEmpty'
  BY <1>12 DEF LoopUpgrade, Others
<1>13. ASSUME addSocketByGUID PROVE ClosedEmpty'
  BY <1>13 DEF addSocketByGUID, Others
<1>14. ASSUME LoopConnect PROVE ClosedEmpty'
  BY <1>14 DEF LoopConnect, PushFrame, Push, NoFrame
<1>15. ASSUME LoopArm PROVE ClosedEmpty'
  <2>1. Of(Loop) \in Conns /\ conn[Of(Loop)] = "open"
    BY <1>15, HasConn DEF LoopArm, OpenInUse, Resting
  <2> QED
    BY <1>15, <2>1 DEF LoopArm, Others
<1>16. ASSUME LoopMark PROVE ClosedEmpty'
  BY <1>16 DEF LoopMark, Others
<1>17. ASSUME NEW c \in Conns, NEW e, LoopEvent(c, e) PROVE ClosedEmpty'
  BY <1>17 DEF LoopEvent
<1>18. ASSUME LoopTest PROVE ClosedEmpty'
  BY <1>18 DEF LoopTest
<1>19. ASSUME LoopRead PROVE ClosedEmpty'
  BY <1>19 DEF LoopRead, PushFrame, Push, NoFrame
<1>20. ASSUME NEW k \in Nat, LoopWrite(k) PROVE ClosedEmpty'
  BY <1>20 DEF LoopWrite
<1>21. ASSUME NEW c \in Conns, LoopExpire(c) PROVE ClosedEmpty'
  BY <1>21 DEF LoopExpire
<1>22. ASSUME NEW c \in Conns, conn_send_ping(c) PROVE ClosedEmpty'
  BY <1>22, Stays DEF conn_send_ping, Others, AppendFrame
<1>23. ASSUME QueueDisconnect PROVE ClosedEmpty'
  BY <1>23 DEF QueueDisconnect
<1>24. ASSUME LockContainer PROVE ClosedEmpty'
  BY <1>24 DEF LockContainer
<1>25. ASSUME deleteSocket PROVE ClosedEmpty'
  BY <1>25 DEF deleteSocket, Others
<1>26. ASSUME FreeSocket PROVE ClosedEmpty'
  BY <1>26 DEF FreeSocket, Others
<1>27. ASSUME LeaveLoop PROVE ClosedEmpty'
  BY <1>27 DEF LeaveLoop
<1>28. ASSUME NEW c \in Conns, deleteAllSockets(c) PROVE ClosedEmpty'
  BY <1>28 DEF deleteAllSockets
<1>29. ASSUME StopInput PROVE ClosedEmpty'
  BY <1>29 DEF StopInput
<1>30. ASSUME StopOutput PROVE ClosedEmpty'
  BY <1>30 DEF StopOutput
<1>31. ASSUME Stopped PROVE ClosedEmpty'
  BY <1>31 DEF Stopped
<1>32. CASE UNCHANGED vars
  BY <1>32, Stays DEF vars
<1> HIDE DEF ClosedEmpty
<1> QED
  BY <1>1, <1>2, <1>3, <1>4, <1>5, <1>6, <1>7, <1>8, <1>9, <1>10, <1>11,
     <1>12, <1>13, <1>14, <1>15, <1>16, <1>17, <1>18, <1>19, <1>20, <1>21,
     <1>22, <1>23, <1>24, <1>25, <1>26, <1>27, <1>28, <1>29, <1>30, <1>31,
     <1>32
     DEF Next, OutStep, InStep, LoopStep, LoopBegin, AppStep, AppBegin,
         Found, Terminated, Threads

(* Whoever queues a frame sets the write event, unless it is set already.  *)
LEMMA ArmedStep ==
    ASSUME TypeOK, Places, ArmedAlways, [Next]_vars PROVE ArmedAlways'
<1> ThreadsOK /\ ConnsOK
  BY DEF TypeOK
<1> USE Distinct, Moves
    DEF ConnsOK, ArmedAlways, Moved, Place, Upgrading, Serving, Closing,
        Leaving, Sending, ToClose, connVars
<1>1. ASSUME NEW t \in Threads \ {Loop}, Lookup(t) PROVE ArmedAlways'
  BY <1>1 DEF Lookup
<1>2. ASSUME NEW t \in Threads \ {Loop}, LockFound(t) PROVE ArmedAlways'
  BY <1>2 DEF LockFound
<1>3. ASSUME NEW t \in Threads \ {Loop}, MarkClosing(t) PROVE ArmedAlways'
  BY <1>3 DEF MarkClosing, Unlock
<1>4. ASSUME OutPop PROVE ArmedAlways'
  BY <1>4, PopMoves DEF OutPop
<1>5. ASSUME OutCheck PROVE ArmedAlways'
  BY <1>5 DEF OutCheck, Unlock
<1>6. ASSUME OutAppend PROVE ArmedAlways'
  <2>1. Of(Out) \in Conns
    BY <1>6, HasConn DEF OutAppend, Resting
  <2>2. Moved(Out, "ready", None, 0)
    BY <1>6 DEF OutAppend
  <2>3. ASSUME NEW c \in Conns PROVE armed[c] => armed'[c]
    BY <1>6 DEF OutAppend, AppendFrame
  <2>4. ASSUME NEW c \in Conns, c # Of(Out) PROVE chunks'[c] = chunks[c]
    BY <1>6, <2>4 DEF OutAppend, AppendFrame
  <2>5. chunks[Of(Out)] = <<>> => armed'[Of(Out)]
    BY <1>6, <2>1 DEF OutAppend, AppendFrame
  <2> QED
    BY <2>1, <2>2, <2>3, <2>4, <2>5
<1>7. ASSUME InPop PROVE ArmedAlways'
  BY <1>7, PopMoves DEF InPop
<1>8. ASSUME NEW c \in Conns, InHandle(c) PROVE ArmedAlways'
  BY <1>8 DEF InHandle, PushFrame, Push, NoFrame
<1>9. ASSUME NEW t \in Apps, NEW c \in Conns, AppSend(t, c)
      PROVE  ArmedAlways'
  <2> t \in Threads /\ t # Loop
    OBVIOUS
  <2>1. CASE UNCHANGED th
    BY <1>9, <2>1, Stays DEF AppSend
  <2>2. CASE Goto(t, "push", c, 0)
    BY <1>9, <2>2 DEF AppSend
  <2> QED
    BY <1>9, <2>1, <2>2 DEF AppSend
<1>10. ASSUME NEW t \in Apps, AppPush(t) PROVE ArmedAlways'
  BY <1>10, SMTT(30) DEF AppPush, Push
<1>11. ASSUME NEW t \in Apps, NEW c \in Conns, AppClose(t, c)
       PROVE  ArmedAlways'
  <2> t \in Threads /\ t # Loop
    OBVIOUS
  <2> QED
    BY <1>11 DEF AppClose
<1>12. ASSUME NEW c \in Conns, LoopUpgrade(c) PROVE ArmedAlways'
  BY <1>12 DEF LoopUpgrade, Others
<1>13. ASSUME addSocketByGUID PROVE ArmedAlways'
  BY <1>13 DEF addSocketByGUID, Others
<1>14. ASSUME LoopConnect PROVE ArmedAlways'
  BY <1>14 DEF LoopConnect, PushFrame, Push, NoFrame
<1>15. ASSUME LoopArm PROVE ArmedAlways'
  BY <1>15 DEF LoopArm, Others
<1>16. ASSUME LoopMark PROVE ArmedAlways'
  BY <1>16 DEF LoopMark, Others
<1>17. ASSUME NEW c \in Conns, NEW e, LoopEvent(c, e) PROVE ArmedAlways'
  BY <1>17 DEF LoopEvent
<1>18. ASSUME LoopTest PROVE ArmedAlways'
  BY <1>18 DEF LoopTest
<1>19. ASSUME LoopRead PROVE ArmedAlways'
  BY <1>19 DEF LoopRead, PushFrame, Push, NoFrame
<1>20. ASSUME NEW k \in Nat, LoopWrite(k) PROVE ArmedAlways'
  BY <1>20 DEF LoopWrite
<1>21. ASSUME NEW c \in Conns, LoopExpire(c) PROVE ArmedAlways'
  BY <1>21 DEF LoopExpire
<1>22. ASSUME NEW c \in Conns, conn_send_ping(c) PROVE ArmedAlways'
  BY <1>22, Stays DEF conn_send_ping, Others, AppendFrame
<1>23. ASSUME QueueDisconnect PROVE ArmedAlways'
  BY <1>23 DEF QueueDisconnect
<1>24. ASSUME LockContainer PROVE ArmedAlways'
  BY <1>24 DEF LockContainer
<1>25. ASSUME deleteSocket PROVE ArmedAlways'
  BY <1>25 DEF deleteSocket, Others
<1>26. ASSUME FreeSocket PROVE ArmedAlways'
  BY <1>26 DEF FreeSocket, Others
<1>27. ASSUME LeaveLoop PROVE ArmedAlways'
  BY <1>27 DEF LeaveLoop
<1>28. ASSUME NEW c \in Conns, deleteAllSockets(c) PROVE ArmedAlways'
  BY <1>28 DEF deleteAllSockets
<1>29. ASSUME StopInput PROVE ArmedAlways'
  BY <1>29 DEF StopInput
<1>30. ASSUME StopOutput PROVE ArmedAlways'
  BY <1>30 DEF StopOutput
<1>31. ASSUME Stopped PROVE ArmedAlways'
  BY <1>31 DEF Stopped
<1>32. CASE UNCHANGED vars
  BY <1>32, Stays DEF vars
<1> HIDE DEF ArmedAlways
<1> QED
  BY <1>1, <1>2, <1>3, <1>4, <1>5, <1>6, <1>7, <1>8, <1>9, <1>10, <1>11,
     <1>12, <1>13, <1>14, <1>15, <1>16, <1>17, <1>18, <1>19, <1>20, <1>21,
     <1>22, <1>23, <1>24, <1>25, <1>26, <1>27, <1>28, <1>29, <1>30, <1>31,
     <1>32
     DEF Next, OutStep, InStep, LoopStep, LoopBegin, AppStep, AppBegin,
         Found, Terminated, Threads

-----------------------------------------------------------------------------
(* The inductive invariant of the sockets' life, and what follows from it. *)

LifeInv ==
    /\ TypeOK /\ Places /\ Locks
    /\ FoundStays /\ OpenInUse /\ ClosedEmpty /\ ArmedAlways

(* At the start no connection exists and no mutex is held.                 *)
LEMMA LifeInit == Init => LifeInv
<1> SUFFICES ASSUME Init PROVE LifeInv
  OBVIOUS
<1>1. TypeOK /\ Places
  BY TypeInit
<1>2. \A t \in Threads : At(t) = "ready"
  BY DEF Init, At
<1>3. Locks
  BY <1>2, Distinct DEF Init, Locks, Looked, Locked
<1>4. FoundStays /\ OpenInUse
  BY <1>2, Distinct
     DEF Init, FoundStays, OpenInUse, Looked, Locked, Upgrading, Serving, Closing
<1>5. ClosedEmpty /\ ArmedAlways
  BY DEF Init, ClosedEmpty, ArmedAlways
<1> QED
  BY <1>1, <1>3, <1>4, <1>5 DEF LifeInv

(* Every step keeps the invariant, part by part.                           *)
LEMMA LifeStep == LifeInv /\ [Next]_vars => LifeInv'
<1> SUFFICES ASSUME LifeInv, [Next]_vars PROVE LifeInv'
  OBVIOUS
<1> QED
  BY TypeStep, LocksStep, FoundStep, OpenStep, EmptyStep, ArmedStep DEF LifeInv

(* The sockets' invariant holds in every reachable state: it is what the   *)
(* locking of getSocketByGUID() and deleteSocket() keeps up.               *)
THEOREM LifeHolds == Spec => []LifeInv
  BY LifeInit, LifeStep, PTL DEF Spec

(* Every variable has its type, and every thread is at a line of its own   *)
(* function with a connection in hand wherever that line uses one.         *)
THEOREM TypeCorrect == Spec => [](TypeOK /\ Places)
<1>1. LifeInv => TypeOK /\ Places
  BY DEF LifeInv
<1> QED
  BY <1>1, LifeHolds, PTL

(* No thread uses a socket after the event loop has freed it: what a thread *)
(* has found with getSocketByGUID() stays open until it unlocks the socket, *)
(* since deleteSocket() takes both mutexes, and a freed socket is neither in *)
(* sock_tree nor registered.                                               *)
THEOREM SocketsLive == Spec => []NoUseAfterFree
<1>1. LifeInv => NoUseAfterFree
  <2> SUFFICES ASSUME LifeInv PROVE NoUseAfterFree
    OBVIOUS
  <2>1. ASSUME NEW t \in Threads, At(t) \in Looked \cup Locked
        PROVE  conn[Of(t)] = "open"
    BY <2>1 DEF LifeInv, FoundStays, OpenInUse
  <2>2. ASSUME NEW c \in Conns, mutex[c] # None PROVE c \in tree
    <3>1. mutex[c] \in Threads
      BY <2>2 DEF LifeInv, TypeOK, LocksOK
    <3> QED
      BY <3>1 DEF LifeInv, Locks, FoundStays
  <2> QED
    BY <2>1, <2>2 DEF NoUseAfterFree, LifeInv, OpenInUse, ClosedEmpty, Looked, Locked
<1> QED
  BY <1>1, LifeHolds, PTL

(* No frame is forgotten on a socket: insert_websocket_output_chunk() and  *)
(* websocket_event_handler() between them keep the write event set while   *)
(* the list is not empty.                                                  *)
THEOREM FramesArmed == Spec => []WriteArmed
<1>1. LifeInv => WriteArmed
  BY DEF LifeInv, ArmedAlways, WriteArmed, Upgrading
<1> QED
  BY <1>1, LifeHolds, PTL

-----------------------------------------------------------------------------
(* The order of the frames.                                                *)

(* Everything that was queued on the socket of c, in this order.           *)
Sent(c) == wire[c] \o chunks[c]

(* A frame has a larger number than everything in front of it; the 101 has *)
(* the number 0, a ping -1.                                                *)
Ascending(s) == \A i, j \in DOMAIN s : i < j /\ s[j] > 0 => s[i] < s[j]
Below(s, n)  == \A i \in DOMAIN s : s[i] < n

(* The 101 is the first on a connection.                                   *)
First101 ==
    \A c \in Conns : /\ conn[c] = "open" => Sent(c) # <<>>
                     /\ Sent(c) # <<>> => Sent(c)[1] = 0

(* The frames in the output queue are numbered in ascending order.         *)
QueueAscending ==
    /\ \A k \in DOMAIN outQ : outQ[k] # Stop => outQ[k].n \in 1 .. pushed
    /\ \A k, l \in DOMAIN outQ :
          k < l /\ outQ[k] # Stop /\ outQ[l] # Stop => outQ[k].n < outQ[l].n

(* The frame the output thread has in hand was pushed before every frame   *)
(* in the queue.                                                           *)
InHandNext ==
    At(Out) \in Sending =>
       /\ Frame(Out) \in 1 .. pushed
       /\ \A k \in DOMAIN outQ : outQ[k] # Stop => Frame(Out) < outQ[k].n

(* What is on a connection was pushed before what is on its way there.     *)
SentFirst ==
    \A c \in Conns :
       /\ Ascending(Sent(c))
       /\ Below(Sent(c), pushed + 1)
       /\ \A k \in DOMAIN outQ : outQ[k] # Stop => Below(Sent(c), outQ[k].n)
       /\ At(Out) \in Sending => Below(Sent(c), Frame(Out))

OrderInv == LifeInv /\ First101 /\ QueueAscending /\ InHandNext /\ SentFirst

(* The output thread keeps the frame it has in hand.                       *)
OutKeeps ==
    At(Out)' \in Sending => At(Out) \in Sending /\ Frame(Out)' = Frame(Out)

ConnsKeep == UNCHANGED <<conn, wire, chunks>>

(* What a step can mean for the order of frames.                           *)
OrderKinds ==
    \/ OutPop \/ OutAppend
    \/ OutKeeps /\ ConnsKeep /\ \E c \in Conns : Push(c)
    \/ OutKeeps /\ ConnsKeep /\ UNCHANGED pushed /\ outQ' = Append(outQ, Stop)
    \/ OutKeeps /\ UNCHANGED <<outQ, pushed>> /\ ConnsKeep
    \/ /\ OutKeeps /\ UNCHANGED <<outQ, pushed>>
       /\ \/ \E c \in Conns : LoopUpgrade(c) \/ conn_send_ping(c)
          \/ \E k \in Nat : LoopWrite(k)
          \/ FreeSocket

(* Every step is of one of these kinds.                                    *)
LEMMA OrderSteps == ASSUME LifeInv, [Next]_vars PROVE OrderKinds
<1> ThreadsOK /\ Places
  BY DEF LifeInv, TypeOK
<1> USE Distinct, Moves
    DEF OrderKinds, OutKeeps, ConnsKeep, Moved, Place, Upgrading, Serving, Closing,
        Leaving, Sending, ToClose, connVars, queueVars
<1>1. ASSUME NEW t \in Threads \ {Loop}, Lookup(t) PROVE OrderKinds
  BY <1>1 DEF Lookup
<1>2. ASSUME NEW t \in Threads \ {Loop}, LockFound(t) PROVE OrderKinds
  BY <1>2 DEF LockFound
<1>3. ASSUME NEW t \in Threads \ {Loop}, MarkClosing(t) PROVE OrderKinds
  BY <1>3 DEF MarkClosing, Unlock
<1>4. ASSUME OutPop PROVE OrderKinds
  BY <1>4
<1>5. ASSUME OutCheck PROVE OrderKinds
  BY <1>5 DEF OutCheck, Unlock
<1>6. ASSUME OutAppend PROVE OrderKinds
  BY <1>6
<1>7. ASSUME InPop PROVE OrderKinds
  BY <1>7, PopMoves DEF InPop, LifeInv
<1>8. ASSUME NEW c \in Conns, InHandle(c) PROVE OrderKinds
  BY <1>8 DEF InHandle, PushFrame, Push, NoFrame
<1>9. ASSUME NEW t \in Apps, NEW c \in Conns, AppSend(t, c) PROVE OrderKinds
  <2> t \in Threads /\ t # Loop
    OBVIOUS
  <2>1. CASE UNCHANGED th
    BY <1>9, <2>1, Stays DEF AppSend
  <2>2. CASE Goto(t, "push", c, 0)
    BY <1>9, <2>2 DEF AppSend
  <2> QED
    BY <1>9, <2>1, <2>2 DEF AppSend
<1>10. ASSUME NEW t \in Apps, AppPush(t) PROVE OrderKinds
  <2>1. Of(t) \in Conns /\ t \in Threads \ {Out}
    BY <1>10, HasConn DEF AppPush, Resting
  <2>2. Push(Of(t)) /\ OutKeeps /\ ConnsKeep
    BY <1>10, <2>1 DEF AppPush
  <2> QED
    BY <2>1, <2>2
<1>11. ASSUME NEW t \in Apps, NEW c \in Conns, AppClose(t, c)
       PROVE  OrderKinds
  <2> t \in Threads /\ t # Loop
    OBVIOUS
  <2> QED
    BY <1>11 DEF AppClose
<1>12. ASSUME NEW c \in Conns, LoopUpgrade(c) PROVE OrderKinds
  <2>1. OutKeeps /\ UNCHANGED <<outQ, pushed>>
    BY <1>12 DEF LoopUpgrade
  <2> QED
    BY <1>12, <2>1
<1>13. ASSUME addSocketByGUID PROVE OrderKinds
  BY <1>13 DEF addSocketByGUID, Others
<1>14. ASSUME LoopConnect PROVE OrderKinds
  <2>1. Of(Loop) \in Conns /\ OutKeeps /\ ConnsKeep
    BY <1>14, HasConn DEF LoopConnect, Resting
  <2>2. CASE NoFrame
    BY <2>1, <2>2 DEF NoFrame
  <2>3. CASE PushFrame(Of(Loop))
    BY <2>1, <2>3 DEF PushFrame
  <2> QED
    BY <1>14, <2>2, <2>3 DEF LoopConnect
<1>15. ASSUME LoopArm PROVE OrderKinds
  BY <1>15 DEF LoopArm, Others
<1>16. ASSUME LoopMark PROVE OrderKinds
  BY <1>16 DEF LoopMark, Others
<1>17. ASSUME NEW c \in Conns, NEW e, LoopEvent(c, e) PROVE OrderKinds
  BY <1>17 DEF LoopEvent
<1>18. ASSUME LoopTest PROVE OrderKinds
  BY <1>18 DEF LoopTest
<1>19. ASSUME LoopRead PROVE OrderKinds
  <2>1. Of(Loop) \in Conns /\ OutKeeps /\ ConnsKeep
    BY <1>19, HasConn DEF LoopRead, Resting
  <2>2. CASE NoFrame
    BY <2>1, <2>2 DEF NoFrame
  <2>3. CASE PushFrame(Of(Loop))
    BY <2>1, <2>3 DEF PushFrame
  <2> QED
    BY <1>19, <2>2, <2>3 DEF LoopRead
<1>20. ASSUME NEW k \in Nat, LoopWrite(k) PROVE OrderKinds
  <2>1. OutKeeps /\ UNCHANGED <<outQ, pushed>>
    BY <1>20 DEF LoopWrite
  <2> QED
    BY <1>20, <2>1
<1>21. ASSUME NEW c \in Conns, LoopExpire(c) PROVE OrderKinds
  BY <1>21 DEF LoopExpire
<1>22. ASSUME NEW c \in Conns, conn_send_ping(c) PROVE OrderKinds
  <2>1. OutKeeps /\ UNCHANGED <<outQ, pushed>>
    BY <1>22, Stays DEF conn_send_ping
  <2> QED
    BY <1>22, <2>1
<1>23. ASSUME QueueDisconnect PROVE OrderKinds
  BY <1>23 DEF QueueDisconnect
<1>24. ASSUME LockContainer PROVE OrderKinds
  BY <1>24 DEF LockContainer
<1>25. ASSUME deleteSocket PROVE OrderKinds
  BY <1>25 DEF deleteSocket, Others
<1>26. ASSUME FreeSocket PROVE OrderKinds
  BY <1>26 DEF FreeSocket, Others
<1>27. ASSUME LeaveLoop PROVE OrderKinds
  BY <1>27 DEF LeaveLoop
<1>28. ASSUME NEW c \in Conns, deleteAllSockets(c) PROVE OrderKinds
  BY <1>28 DEF deleteAllSockets
<1>29. ASSUME StopInput PROVE OrderKinds
  BY <1>29 DEF StopInput
<1>30. ASSUME StopOutput PROVE OrderKinds
  BY <1>30 DEF StopOutput
<1>31. ASSUME Stopped PROVE OrderKinds
  BY <1>31 DEF Stopped
<1>32. CASE UNCHANGED vars
  BY <1>32, Stays DEF vars
<1> HIDE DEF OrderKinds
<1> QED
  BY <1>1, <1>2, <1>3, <1>4, <1>5, <1>6, <1>7, <1>8, <1>9, <1>10, <1>11,
     <1>12, <1>13, <1>14, <1>15, <1>16, <1>17, <1>18, <1>19, <1>20, <1>21,
     <1>22, <1>23, <1>24, <1>25, <1>26, <1>27, <1>28, <1>29, <1>30, <1>31,
     <1>32
     DEF Next, OutStep, InStep, LoopStep, LoopBegin, AppStep, AppBegin,
         Found, Terminated, Threads

(* A frame with a larger number may go behind an ascending sequence.       *)
LEMMA AppendAscending ==
    ASSUME NEW s \in Seq(Int), NEW n \in Int, Ascending(s), n > 0 => Below(s, n)
    PROVE  /\ Ascending(Append(s, n))
           /\ \A m \in Int : Below(s, m) /\ n < m => Below(Append(s, n), m)
           /\ Append(s, n) # <<>>
           /\ s # <<>> => Append(s, n)[1] = s[1]
<1> DEFINE a == Append(s, n)
<1>0. \A i \in DOMAIN s : s[i] \in Int
  BY LenProperties, ElementOfSeq
<1>1. /\ a \in Seq(Int) /\ a # <<>> /\ Len(s) \in Nat
      /\ DOMAIN a = 1 .. Len(s) + 1 /\ DOMAIN s = 1 .. Len(s)
      /\ \A i \in DOMAIN s : a[i] = s[i] /\ s[i] \in Int
      /\ a[Len(s) + 1] = n
  BY <1>0, AppendOf
<1> HIDE DEF a
<1>2. ASSUME NEW i \in DOMAIN a, NEW j \in DOMAIN a, i < j, a[j] > 0
      PROVE  a[i] < a[j]
  <2>1. i \in DOMAIN s
    BY <1>1, <1>2
  <2>2. CASE j \in DOMAIN s
    BY <1>1, <1>2, <2>1, <2>2 DEF Ascending
  <2>3. CASE j = Len(s) + 1
    BY <1>1, <1>2, <2>1, <2>3 DEF Below
  <2> QED
    BY <1>1, <2>2, <2>3
<1>3. ASSUME NEW m \in Int, Below(s, m), n < m, NEW i \in DOMAIN a
      PROVE  a[i] < m
  <2>1. CASE i \in DOMAIN s
    BY <1>1, <1>3, <2>1 DEF Below
  <2>2. CASE i = Len(s) + 1
    BY <1>1, <1>3, <2>2
  <2> QED
    BY <1>1, <2>1, <2>2
<1>4. s # <<>> => 1 \in DOMAIN s
  BY <1>1, EmptySeq
<1> QED
  BY <1>1, <1>2, <1>3, <1>4 DEF Ascending, Below, a

(* A part at the beginning of an ascending sequence is ascending.          *)
LEMMA PrefixAscending ==
    ASSUME NEW s \in Seq(Int), NEW t \in Seq(Int)
    PROVE  /\ Ascending(s \o t) => Ascending(s)
           /\ \A n \in Int : Below(s \o t, n) => Below(s, n)
           /\ s # <<>> => s \o t # <<>> /\ (s \o t)[1] = s[1]
<1>1. Len(s) \in Nat /\ Len(t) \in Nat /\ DOMAIN s = 1 .. Len(s)
  BY LenProperties
<1>2. s \o t \in Seq(Int) /\ Len(s \o t) = Len(s) + Len(t)
  BY ConcatProperties
<1>3. DOMAIN (s \o t) = 1 .. Len(s) + Len(t)
  BY <1>2, LenProperties
<1>4. \A i \in DOMAIN s : i \in DOMAIN (s \o t) /\ (s \o t)[i] = s[i]
  BY <1>1, <1>3, ConcatProperties
<1>5. s # <<>> => 1 \in DOMAIN s
  BY <1>1, EmptySeq
<1>6. s # <<>> => s \o t # <<>>
  BY <1>1, <1>2, EmptySeq
<1> QED
  BY <1>4, <1>5, <1>6 DEF Ascending, Below

(* Moving the first k frames from one sequence to the other leaves the     *)
(* whole as it was.                                                        *)
LEMMA SplitSame ==
    ASSUME NEW s \in Seq(Int), NEW t \in Seq(Int), NEW k \in 0 .. Len(t)
    PROVE  (s \o SubSeq(t, 1, k)) \o SubSeq(t, k + 1, Len(t)) = s \o t
<1>1. Len(t) \in Nat
  BY LenProperties
<1>2. /\ SubSeq(t, 1, k) \in Seq(Int)
      /\ SubSeq(t, k + 1, Len(t)) \in Seq(Int)
  BY <1>1, SubSeqProperties
<1>3. SubSeq(t, 1, k) \o SubSeq(t, k + 1, Len(t)) = SubSeq(t, 1, Len(t))
  <2>1. 1 \in 1 .. Len(t) + 1 /\ k \in 1 - 1 .. Len(t) /\ Len(t) \in k .. Len(t)
    BY <1>1
  <2> QED
    BY <2>1, ConcatAdjacentSubSeq
<1>4. SubSeq(t, 1, Len(t)) = t
  BY <1>1, SubSeqFull
<1> DEFINE a == SubSeq(t, 1, k)
           b == SubSeq(t, k + 1, Len(t))
<1>5. a \in Seq(Int) /\ b \in Seq(Int)
  BY <1>2
<1>6. a \o b = t
  BY <1>3, <1>4
<1> HIDE DEF a, b
<1>7. (s \o a) \o b = s \o (a \o b)
  BY <1>5, ConcatAssociative, SMTT(30)
<1> QED
  BY <1>6, <1>7 DEF a, b

(* What is on a connection is a sequence, also behind an AppendFrame.      *)
LEMMA SentType ==
    ASSUME ConnsOK, NEW c \in Conns
    PROVE  /\ Sent(c) \in Seq(Int)
           /\ \A n \in Int : wire[c] \o Append(chunks[c], n) = Append(Sent(c), n)
<1>1. wire[c] \in Seq(Int) /\ chunks[c] \in Seq(Int)
  BY DEF ConnsOK
<1>2. Sent(c) \in Seq(Int)
  BY <1>1, ConcatProperties DEF Sent
<1>3. ASSUME NEW n \in Int
      PROVE  wire[c] \o Append(chunks[c], n) = Append(Sent(c), n)
  <2>1. <<n>> \in Seq(Int)
    OBVIOUS
  <2>2. Append(chunks[c], n) = chunks[c] \o <<n>> /\ Append(Sent(c), n) = Sent(c) \o <<n>>
    BY <1>1, <1>2, AppendIsConcat
  <2> DEFINE w == wire[c]
             q == chunks[c]
             u == <<n>>
  <2>3. w \in Seq(Int) /\ q \in Seq(Int) /\ u \in Seq(Int)
    BY <1>1, <2>1
  <2> HIDE DEF w, q, u
  <2>4. (w \o q) \o u = w \o (q \o u)
    BY <2>3, ConcatAssociative, SMTT(30)
  <2> QED
    BY <2>2, <2>4 DEF Sent, w, q, u
<1> QED
  BY <1>2, <1>3

(* What is on the connections after a step that leaves the queue alone.    *)
Tame(c) ==
    /\ Ascending(Sent(c)')
    /\ \A n \in Nat \ {0} : Below(Sent(c), n) => Below(Sent(c)', n)

(* A step that leaves the queue and the output thread's frame alone keeps  *)
(* the order if it keeps it on each connection.                            *)
LEMMA TameKeeps ==
    ASSUME OrderInv, OutKeeps, UNCHANGED <<outQ, pushed>>,
           \A c \in Conns : Tame(c)
    PROVE  QueueAscending' /\ InHandNext' /\ SentFirst'
<1> USE DEF OrderInv
<1>1. pushed \in Nat
  BY DEF LifeInv, TypeOK, QueuesOK
<1>2. QueueAscending'
  BY DEF QueueAscending
<1>3. InHandNext'
  BY DEF InHandNext, OutKeeps
<1>4. ASSUME NEW c \in Conns
      PROVE  /\ Ascending(Sent(c)')
             /\ Below(Sent(c)', pushed + 1)
             /\ \A k \in DOMAIN outQ : outQ[k] # Stop => Below(Sent(c)', outQ[k].n)
             /\ At(Out)' \in Sending => Below(Sent(c)', Frame(Out))
  <2>1. pushed + 1 \in Nat \ {0} /\ 1 .. pushed \subseteq Nat \ {0}
    BY <1>1
  <2>2. \A k \in DOMAIN outQ : outQ[k] # Stop => outQ[k].n \in Nat \ {0}
    BY <2>1 DEF QueueAscending
  <2>3. At(Out) \in Sending => Frame(Out) \in Nat \ {0}
    BY <2>1 DEF InHandNext
  <2>4. Below(Sent(c)', pushed + 1)
    BY <2>1 DEF Tame, SentFirst
  <2>5. \A k \in DOMAIN outQ : outQ[k] # Stop => Below(Sent(c)', outQ[k].n)
    BY <2>2 DEF Tame, SentFirst
  <2>6. At(Out)' \in Sending => Below(Sent(c)', Frame(Out))
    BY <2>3 DEF Tame, SentFirst, OutKeeps
  <2> QED
    BY <2>4, <2>5, <2>6 DEF Tame
<1>5. SentFirst'
  BY <1>4 DEF SentFirst, OutKeeps
<1> QED
  BY <1>2, <1>3, <1>5

(* The same for a step that leaves the connections alone as well.          *)
LEMMA ConnsKeepTame ==
    ASSUME OrderInv, ConnsKeep
    PROVE  First101' /\ \A c \in Conns : Sent(c)' = Sent(c) /\ Tame(c)
<1>1. \A c \in Conns : Sent(c)' = Sent(c)
  BY DEF ConnsKeep, Sent
<1> QED
  BY <1>1 DEF OrderInv, First101, SentFirst, Tame, ConnsKeep

(* A push is behind everything.                                            *)
LEMMA PushOrder ==
    ASSUME OrderInv, OutKeeps, ConnsKeep, NEW c \in Conns, Push(c)
    PROVE  First101' /\ QueueAscending' /\ InHandNext' /\ SentFirst'
<1> DEFINE e == [sig |-> "frame", c |-> c, n |-> pushed + 1]
<1>1. pushed \in Nat /\ outQ \in Seq(OutEntry) /\ QueuesOK
  BY DEF OrderInv, LifeInv, TypeOK, QueuesOK
<1>2. e \in OutEntry /\ e # Stop /\ e.n = pushed + 1
  BY <1>1, FramePushed
<1>3. outQ' = Append(outQ, e) /\ pushed' = pushed + 1
  BY DEF Push
<1> HIDE DEF e
<1>4. /\ Len(outQ) \in Nat /\ DOMAIN outQ = 1 .. Len(outQ)
      /\ DOMAIN outQ' = 1 .. Len(outQ) + 1
      /\ \A k \in DOMAIN outQ : outQ'[k] = outQ[k]
      /\ outQ'[Len(outQ) + 1] = e
  BY <1>1, <1>2, <1>3, AppendOf
<1>5. First101' /\ \A d \in Conns : Sent(d)' = Sent(d)
  BY ConnsKeepTame
<1>6. \A k \in DOMAIN outQ : outQ[k] # Stop => outQ[k].n \in 1 .. pushed
  BY DEF OrderInv, QueueAscending
<1>7. QueueAscending'
  <2>1. ASSUME NEW k \in DOMAIN outQ', outQ'[k] # Stop
        PROVE  outQ'[k].n \in 1 .. pushed'
    <3>1. CASE k \in DOMAIN outQ
      BY <1>1, <1>3, <1>4, <1>6, <2>1, <3>1
    <3>2. CASE k = Len(outQ) + 1
      BY <1>1, <1>2, <1>3, <1>4, <3>2
    <3> QED
      BY <1>4, <3>1, <3>2
  <2>2. ASSUME NEW k \in DOMAIN outQ', NEW l \in DOMAIN outQ', k < l,
               outQ'[k] # Stop, outQ'[l] # Stop
        PROVE  outQ'[k].n < outQ'[l].n
    <3>1. k \in DOMAIN outQ
      BY <1>4, <2>2
    <3>2. CASE l \in DOMAIN outQ
      BY <1>4, <2>2, <3>1, <3>2 DEF OrderInv, QueueAscending
    <3>3. CASE l = Len(outQ) + 1
      BY <1>1, <1>2, <1>4, <1>6, <2>2, <3>1, <3>3
    <3> QED
      BY <1>4, <3>2, <3>3
  <2> QED
    BY <2>1, <2>2 DEF QueueAscending
<1>8. InHandNext'
  <2> SUFFICES ASSUME At(Out)' \in Sending
               PROVE  /\ Frame(Out)' \in 1 .. pushed'
                      /\ \A k \in DOMAIN outQ' :
                            outQ'[k] # Stop => Frame(Out)' < outQ'[k].n
    BY DEF InHandNext
  <2>1. /\ Frame(Out)' = Frame(Out) /\ Frame(Out) \in 1 .. pushed
        /\ \A k \in DOMAIN outQ : outQ[k] # Stop => Frame(Out) < outQ[k].n
    BY DEF OutKeeps, OrderInv, InHandNext
  <2>2. ASSUME NEW k \in DOMAIN outQ', outQ'[k] # Stop
        PROVE  Frame(Out) < outQ'[k].n
    <3>1. CASE k \in DOMAIN outQ
      BY <1>4, <2>1, <2>2, <3>1
    <3>2. CASE k = Len(outQ) + 1
      BY <1>1, <1>2, <1>4, <2>1, <3>2
    <3> QED
      BY <1>4, <3>1, <3>2
  <2> QED
    BY <1>1, <1>3, <2>1, <2>2
<1>9. SentFirst'
  <2> SUFFICES ASSUME NEW d \in Conns
               PROVE  /\ Ascending(Sent(d))
                      /\ Below(Sent(d), pushed + 2)
                      /\ \A k \in DOMAIN outQ' :
                            outQ'[k] # Stop => Below(Sent(d), outQ'[k].n)
                      /\ At(Out)' \in Sending => Below(Sent(d), Frame(Out)')
    BY <1>1, <1>3, <1>5 DEF SentFirst
  <2>1. /\ Ascending(Sent(d)) /\ Below(Sent(d), pushed + 1)
        /\ \A k \in DOMAIN outQ : outQ[k] # Stop => Below(Sent(d), outQ[k].n)
        /\ At(Out) \in Sending => Below(Sent(d), Frame(Out))
    BY DEF OrderInv, SentFirst
  <2>2. Sent(d) \in Seq(Int)
    BY SentType DEF OrderInv, LifeInv, TypeOK
  <2>3. \A i \in DOMAIN Sent(d) : Sent(d)[i] \in Int
    BY <2>2, LenProperties, ElementOfSeq
  <2>4. Below(Sent(d), pushed + 2)
    BY <1>1, <2>1, <2>3 DEF Below
  <2>5. ASSUME NEW k \in DOMAIN outQ', outQ'[k] # Stop
        PROVE  Below(Sent(d), outQ'[k].n)
    <3>1. CASE k \in DOMAIN outQ
      BY <1>4, <2>1, <2>5, <3>1
    <3>2. CASE k = Len(outQ) + 1
      BY <1>2, <1>4, <2>1, <3>2
    <3> QED
      BY <1>4, <3>1, <3>2
  <2> QED
    BY <2>1, <2>4, <2>5 DEF OutKeeps
<1> QED
  BY <1>5, <1>7, <1>8, <1>9

(* So is the stop entry.                                                   *)
LEMMA StopOrder ==
    ASSUME OrderInv, OutKeeps, ConnsKeep, UNCHANGED pushed,
           outQ' = Append(outQ, Stop)
    PROVE  First101' /\ QueueAscending' /\ InHandNext' /\ SentFirst'
<1>1. outQ \in Seq(OutEntry) /\ Stop \in OutEntry
  BY Entries DEF OrderInv, LifeInv, TypeOK, QueuesOK
<1>2. /\ Len(outQ) \in Nat /\ DOMAIN outQ = 1 .. Len(outQ)
      /\ DOMAIN outQ' = 1 .. Len(outQ) + 1
      /\ \A k \in DOMAIN outQ : outQ'[k] = outQ[k]
      /\ outQ'[Len(outQ) + 1] = Stop
  BY <1>1, AppendOf
<1>3. \A k \in DOMAIN outQ' : outQ'[k] # Stop => k \in DOMAIN outQ /\ outQ'[k] = outQ[k]
  BY <1>2
<1>4. First101' /\ \A d \in Conns : Sent(d)' = Sent(d)
  BY ConnsKeepTame
<1>5. QueueAscending'
  BY <1>3 DEF OrderInv, QueueAscending
<1>6. InHandNext'
  BY <1>3 DEF OrderInv, InHandNext, OutKeeps
<1>7. SentFirst'
  BY <1>3, <1>4 DEF OrderInv, SentFirst, OutKeeps
<1> QED
  BY <1>4, <1>5, <1>6, <1>7

(* The output thread takes the oldest frame.                               *)
LEMMA PopOrder ==
    ASSUME OrderInv, OutPop
    PROVE  First101' /\ QueueAscending' /\ InHandNext' /\ SentFirst'
<1> TypeOK /\ outQ \in Seq(OutEntry) /\ outQ # <<>> /\ outQ' = Tail(outQ)
  BY DEF OrderInv, LifeInv, TypeOK, QueuesOK, OutPop
<1>1. ConnsKeep /\ pushed' = pushed
  BY DEF OutPop, connVars, ConnsKeep
<1>2. First101' /\ \A d \in Conns : Sent(d)' = Sent(d)
  BY <1>1, ConnsKeepTame
<1>3. /\ Head(outQ) = outQ[1] /\ 1 \in DOMAIN outQ
      /\ Len(outQ) \in Nat /\ DOMAIN outQ = 1 .. Len(outQ)
      /\ DOMAIN outQ' = 1 .. Len(outQ) - 1
      /\ \A i \in DOMAIN outQ' : i + 1 \in DOMAIN outQ /\ outQ'[i] = outQ[i + 1]
  BY TailOf, LenProperties
<1>4. QueueAscending'
  <2>1. ASSUME NEW k \in DOMAIN outQ', outQ'[k] # Stop
        PROVE  outQ'[k].n \in 1 .. pushed
    BY <1>3, <2>1 DEF OrderInv, QueueAscending
  <2>2. ASSUME NEW k \in DOMAIN outQ', NEW l \in DOMAIN outQ', k < l,
               outQ'[k] # Stop, outQ'[l] # Stop
        PROVE  outQ'[k].n < outQ'[l].n
    <3>1. k + 1 < l + 1
      BY <1>3, <2>2
    <3> QED
      BY <1>3, <2>2, <3>1 DEF OrderInv, QueueAscending
  <2> QED
    BY <1>1, <2>1, <2>2 DEF QueueAscending
<1>5. CASE outQ[1] = Stop
  <2>1. At(Out)' \notin Sending
    BY <1>3, <1>5, PopMoves DEF Moved, Sending
  <2>2. InHandNext'
    BY <2>1 DEF InHandNext
  <2>3. SentFirst'
    BY <1>1, <1>2, <1>3, <2>1 DEF OrderInv, SentFirst
  <2> QED
    BY <1>2, <1>4, <2>2, <2>3
<1>6. CASE outQ[1] # Stop
  <2>1. Frame(Out)' = outQ[1].n
    BY <1>3, <1>6, PopMoves DEF Moved
  <2>2. outQ[1].n \in 1 .. pushed
    BY <1>3, <1>6 DEF OrderInv, QueueAscending
  <2>3. ASSUME NEW k \in DOMAIN outQ', outQ'[k] # Stop
        PROVE  outQ[1].n < outQ'[k].n
    <3>1. 1 < k + 1
      BY <1>3
    <3> QED
      BY <1>3, <1>6, <2>3, <3>1 DEF OrderInv, QueueAscending
  <2>4. InHandNext'
    BY <1>1, <2>1, <2>2, <2>3 DEF InHandNext
  <2>5. ASSUME NEW d \in Conns
        PROVE  /\ Ascending(Sent(d)) /\ Below(Sent(d), pushed + 1)
               /\ \A k \in DOMAIN outQ' :
                     outQ'[k] # Stop => Below(Sent(d), outQ'[k].n)
               /\ Below(Sent(d), outQ[1].n)
    BY <1>3, <1>6 DEF OrderInv, SentFirst
  <2>6. SentFirst'
    BY <1>1, <1>2, <2>1, <2>5 DEF SentFirst
  <2> QED
    BY <1>2, <1>4, <2>4, <2>6
<1> QED
  BY <1>5, <1>6

(* The output thread queues its frame behind what was pushed before it.    *)
LEMMA OutAppendOrder ==
    ASSUME OrderInv, OutAppend
    PROVE  First101' /\ QueueAscending' /\ InHandNext' /\ SentFirst'
<1> TypeOK /\ ConnsOK /\ ThreadsOK /\ Places /\ Out \in Threads
  BY Distinct DEF OrderInv, LifeInv, TypeOK
<1>1. /\ At(Out) = "append" /\ Goto(Out, "ready", None, 0)
      /\ chunks' = [chunks EXCEPT ![Of(Out)] = Append(chunks[Of(Out)], Frame(Out))]
      /\ UNCHANGED <<conn, wire, outQ, pushed>>
  BY DEF OutAppend, AppendFrame, queueVars
<1>2. PICK o \in Conns, n \in Int : o = Of(Out) /\ n = Frame(Out)
  BY <1>1, HasConn, InHand DEF Resting, Leaving
<1>3. At(Out)' \notin Sending
  BY <1>1, Moves, Distinct DEF Moved, Place, Sending
<1>4. /\ Sent(o)' = Append(Sent(o), n)
      /\ \A d \in Conns \ {o} : Sent(d)' = Sent(d)
  <2>1. chunks'[o] = Append(chunks[o], n)
    BY <1>1, <1>2 DEF ConnsOK
  <2>2. wire[o] \o Append(chunks[o], n) = Append(Sent(o), n)
    BY <1>2, SentType
  <2>3. Sent(o)' = Append(Sent(o), n)
    BY <1>1, <2>1, <2>2 DEF Sent
  <2>4. \A d \in Conns \ {o} : chunks'[d] = chunks[d]
    BY <1>1, <1>2 DEF ConnsOK
  <2> QED
    BY <1>1, <2>3, <2>4 DEF Sent
<1>5. Sent(o) \in Seq(Int) /\ Ascending(Sent(o)) /\ Below(Sent(o), n)
  BY <1>1, <1>2, SentType DEF OrderInv, SentFirst, Sending
<1>6. /\ Ascending(Append(Sent(o), n)) /\ Append(Sent(o), n) # <<>>
      /\ \A m \in Int : Below(Sent(o), m) /\ n < m => Below(Append(Sent(o), n), m)
      /\ Sent(o) # <<>> => Append(Sent(o), n)[1] = Sent(o)[1]
  BY <1>2, <1>5, AppendAscending
<1>7. conn[o] = "open"
  BY <1>1, <1>2, Distinct DEF OrderInv, LifeInv, FoundStays, OpenInUse, Locked
<1>8. First101'
  BY <1>1, <1>2, <1>4, <1>6, <1>7 DEF OrderInv, First101
<1>9. QueueAscending' /\ InHandNext'
  BY <1>1, <1>3 DEF OrderInv, QueueAscending, InHandNext
<1>10. /\ n \in 1 .. pushed /\ pushed \in Nat
       /\ \A k \in DOMAIN outQ : outQ[k] # Stop => n < outQ[k].n /\ outQ[k].n \in 1 .. pushed
  BY <1>1, <1>2 DEF OrderInv, LifeInv, TypeOK, QueuesOK, QueueAscending,
       InHandNext, Sending
<1>11. ASSUME NEW d \in Conns
       PROVE  /\ Ascending(Sent(d)') /\ Below(Sent(d)', pushed + 1)
              /\ \A k \in DOMAIN outQ : outQ[k] # Stop => Below(Sent(d)', outQ[k].n)
  <2>1. CASE d # o
    BY <1>4, <2>1 DEF OrderInv, SentFirst
  <2>2. CASE d = o
    <3>1. Below(Sent(o), pushed + 1) /\ n < pushed + 1 /\ pushed + 1 \in Int
      BY <1>2, <1>10 DEF OrderInv, SentFirst
    <3>2. ASSUME NEW k \in DOMAIN outQ, outQ[k] # Stop
          PROVE  Below(Append(Sent(o), n), outQ[k].n)
      <4>1. Below(Sent(o), outQ[k].n) /\ n < outQ[k].n /\ outQ[k].n \in Int
        BY <1>2, <1>10, <3>2 DEF OrderInv, SentFirst
      <4> QED
        BY <1>6, <4>1
    <3> QED
      BY <1>4, <1>6, <2>2, <3>1, <3>2
  <2> QED
    BY <2>1, <2>2
<1>12. SentFirst'
  BY <1>1, <1>3, <1>11 DEF SentFirst
<1> QED
  BY <1>8, <1>9, <1>12

(* An upgrade queues the 101 on a connection with nothing on it.           *)
LEMMA UpgradeOrder ==
    ASSUME OrderInv, NEW o \in Conns, LoopUpgrade(o)
    PROVE  First101' /\ \A c \in Conns : Tame(c)
<1> ConnsOK
  BY DEF OrderInv, LifeInv, TypeOK
<1>1. conn[o] = "none" /\ wire[o] = <<>>
  BY DEF LoopUpgrade, OrderInv, LifeInv, ClosedEmpty
<1>2. /\ chunks'[o] = <<0>> /\ wire' = wire
      /\ \A d \in Conns \ {o} : chunks'[d] = chunks[d] /\ conn'[d] = conn[d]
  BY DEF LoopUpgrade, Others, ConnsOK
<1>3. Sent(o)' = <<0>>
  <2>1. <<>> \o <<0>> = <<0>>
    BY ConcatEmptySeq
  <2> QED
    BY <1>1, <1>2, <2>1 DEF Sent
<1>4. \A d \in Conns \ {o} : Sent(d)' = Sent(d)
  BY <1>2 DEF Sent
<1>5. DOMAIN <<0>> = {1} /\ <<0>>[1] = 0 /\ <<0>> # <<>>
  OBVIOUS
<1>6. Ascending(<<0>>) /\ \A n \in Nat \ {0} : Below(<<0>>, n)
  BY <1>5 DEF Ascending, Below
<1>7. First101'
  BY <1>2, <1>3, <1>4, <1>5 DEF OrderInv, First101
<1> QED
  BY <1>3, <1>4, <1>6, <1>7 DEF Tame, OrderInv, SentFirst

(* A ping may go behind anything.                                          *)
LEMMA PingOrder ==
    ASSUME OrderInv, NEW o \in Conns, conn_send_ping(o)
    PROVE  First101' /\ \A c \in Conns : Tame(c)
<1> ConnsOK
  BY DEF OrderInv, LifeInv, TypeOK
<1>1. /\ conn[o] = "open" /\ UNCHANGED <<conn, wire>>
      /\ chunks'[o] = Append(chunks[o], -1)
      /\ \A d \in Conns \ {o} : chunks'[d] = chunks[d]
  BY DEF conn_send_ping, AppendFrame, Ping, Others, ConnsOK
<1>2. Sent(o)' = Append(Sent(o), -1)
  <2>1. wire[o] \o Append(chunks[o], -1) = Append(Sent(o), -1)
    BY -1 \in Int, SentType
  <2> QED
    BY <1>1, <2>1 DEF Sent
<1>3. \A d \in Conns \ {o} : Sent(d)' = Sent(d)
  BY <1>1 DEF Sent
<1>4. Sent(o) \in Seq(Int) /\ Ascending(Sent(o))
  BY SentType DEF OrderInv, SentFirst
<1>5. /\ Ascending(Append(Sent(o), -1)) /\ Append(Sent(o), -1) # <<>>
      /\ \A m \in Int : Below(Sent(o), m) /\ -1 < m => Below(Append(Sent(o), -1), m)
      /\ Sent(o) # <<>> => Append(Sent(o), -1)[1] = Sent(o)[1]
  BY <1>4, AppendAscending
<1>6. First101'
  BY <1>1, <1>2, <1>3, <1>5 DEF OrderInv, First101
<1>7. \A n \in Nat \ {0} : n \in Int /\ -1 < n
  OBVIOUS
<1>8. Tame(o)
  BY <1>2, <1>5, <1>7 DEF Tame
<1> QED
  BY <1>3, <1>6, <1>8 DEF Tame, OrderInv, SentFirst

(* Writing moves frames from the list to the wire.                         *)
LEMMA WriteOrder ==
    ASSUME OrderInv, NEW k \in Nat, LoopWrite(k)
    PROVE  First101' /\ \A c \in Conns : Tame(c)
<1> ConnsOK /\ Places /\ Loop \in Threads
  BY Distinct DEF OrderInv, LifeInv, TypeOK
<1>1. PICK o \in Conns : o = Of(Loop)
  BY HasConn DEF LoopWrite, Resting, Leaving
<1>2. /\ k <= Len(chunks[o]) /\ conn' = conn
      /\ wire'[o] = wire[o] \o SubSeq(chunks[o], 1, k)
      /\ chunks'[o] = SubSeq(chunks[o], k + 1, Len(chunks[o]))
      /\ \A d \in Conns \ {o} : chunks'[d] = chunks[d] /\ wire'[d] = wire[d]
  BY <1>1 DEF LoopWrite, ConnsOK
<1>3. wire[o] \in Seq(Int) /\ chunks[o] \in Seq(Int)
  BY DEF ConnsOK
<1>4. k \in 0 .. Len(chunks[o])
  BY <1>2, <1>3, LenProperties
<1>5. Sent(o)' = Sent(o)
  BY <1>2, <1>3, <1>4, SplitSame, ZenonT(60) DEF Sent
<1>6. \A d \in Conns : Sent(d)' = Sent(d)
  BY <1>2, <1>5 DEF Sent
<1> QED
  BY <1>2, <1>6 DEF Tame, OrderInv, SentFirst, First101

(* What is not written is thrown away with the socket, from the end.       *)
LEMMA FreeOrder ==
    ASSUME OrderInv, FreeSocket
    PROVE  First101' /\ \A c \in Conns : Tame(c)
<1> ConnsOK /\ Places /\ Loop \in Threads
  BY Distinct DEF OrderInv, LifeInv, TypeOK
<1>1. PICK o \in Conns : o = Of(Loop)
  BY HasConn DEF FreeSocket, Resting, Leaving
<1>2. /\ conn'[o] = "freed" /\ wire' = wire /\ chunks'[o] = <<>>
      /\ \A d \in Conns \ {o} : chunks'[d] = chunks[d] /\ conn'[d] = conn[d]
  BY <1>1 DEF FreeSocket, Others, ConnsOK
<1>3. wire[o] \in Seq(Int) /\ chunks[o] \in Seq(Int)
  BY DEF ConnsOK
<1>4. Sent(o)' = wire[o]
  <2>1. wire[o] \o <<>> = wire[o]
    BY <1>3, ConcatEmptySeq
  <2> QED
    BY <1>2, <2>1 DEF Sent
<1>5. \A d \in Conns \ {o} : Sent(d)' = Sent(d)
  BY <1>2 DEF Sent
<1>6. /\ Ascending(Sent(o)) => Ascending(wire[o])
      /\ \A n \in Int : Below(Sent(o), n) => Below(wire[o], n)
      /\ wire[o] # <<>> => Sent(o) # <<>> /\ Sent(o)[1] = wire[o][1]
  BY <1>3, PrefixAscending DEF Sent
<1>7. First101'
  BY <1>2, <1>4, <1>5, <1>6 DEF OrderInv, First101
<1>8. Tame(o)
  BY <1>4, <1>6 DEF Tame, OrderInv, SentFirst
<1> QED
  BY <1>5, <1>7, <1>8 DEF Tame, OrderInv, SentFirst

(* At the start nothing is pushed, queued or sent.                         *)
LEMMA OrderInit == Init => OrderInv
<1> SUFFICES ASSUME Init PROVE OrderInv
  OBVIOUS
<1>1. \A c \in Conns : Sent(c) = <<>>
  <2>1. <<>> \o <<>> = <<>>
    BY ConcatEmptySeq, EmptySeq
  <2> QED
    BY <2>1 DEF Init, Sent
<1>2. At(Out) = "ready"
  BY Distinct DEF Init, At
<1>3. DOMAIN <<>> = {}
  OBVIOUS
<1>4. First101 /\ QueueAscending /\ InHandNext
  BY <1>1, <1>2, <1>3 DEF Init, First101, QueueAscending, InHandNext, Sending
<1>5. SentFirst
  BY <1>1, <1>2, <1>3 DEF Init, SentFirst, Sending, Ascending, Below
<1> QED
  BY <1>4, <1>5, LifeInit DEF OrderInv

(* Every step keeps the order, by the kind of the step.                    *)
LEMMA OrderStep == OrderInv /\ [Next]_vars => OrderInv'
<1> SUFFICES ASSUME OrderInv, [Next]_vars
             PROVE  First101' /\ QueueAscending' /\ InHandNext' /\ SentFirst'
  BY LifeStep DEF OrderInv
<1>2. OrderKinds
  BY OrderSteps DEF OrderInv
<1>3. CASE OutPop
  BY <1>3, PopOrder
<1>4. CASE OutAppend
  BY <1>4, OutAppendOrder
<1>5. CASE OutKeeps /\ ConnsKeep /\ \E c \in Conns : Push(c)
  BY <1>5, PushOrder
<1>6. CASE OutKeeps /\ ConnsKeep /\ UNCHANGED pushed /\ outQ' = Append(outQ, Stop)
  BY <1>6, StopOrder
<1>7. CASE OutKeeps /\ UNCHANGED <<outQ, pushed>> /\ ConnsKeep
  BY <1>7, ConnsKeepTame, TameKeeps
<1>8. CASE /\ OutKeeps /\ UNCHANGED <<outQ, pushed>>
           /\ \/ \E c \in Conns : LoopUpgrade(c) \/ conn_send_ping(c)
              \/ \E k \in Nat : LoopWrite(k)
              \/ FreeSocket
  <2>1. First101' /\ \A c \in Conns : Tame(c)
    BY <1>8, UpgradeOrder, PingOrder, WriteOrder, FreeOrder
  <2> QED
    BY <1>8, <2>1, TameKeeps
<1> QED
  BY <1>2, <1>3, <1>4, <1>5, <1>6, <1>7, <1>8 DEF OrderKinds

(* The order holds along websocket_output_thread_function(): in the queue, *)
(* in the frame in hand, and in what the socket has been given.            *)
THEOREM OrderHolds == Spec => []OrderInv
  BY OrderInit, OrderStep, PTL DEF Spec

(* The 101 of startWebsocketConnection() goes out first, and the frames    *)
(* behind it in the order in which sendWebsocketFrame() pushed them,       *)
(* whichever threads pushed.                                               *)
THEOREM FramesKeepOrder == Spec => []FramesInOrder
<1>1. OrderInv => FramesInOrder
  BY DEF OrderInv, First101, SentFirst, Ascending, Sent, FramesInOrder
<1> QED
  BY <1>1, OrderHolds, PTL

-----------------------------------------------------------------------------
(* Disconnects.                                                            *)

(* The disconnect of c has been queued.                                    *)
Closed(c) == conn[c] = "freed" \/ (Of(Loop) = c /\ At(Loop) \in Closing)

Disconnects(i, c) == inQ[i].sig = "disconnect" /\ inQ[i].c = c

(* From then on, and not before, the handler has heard of it or the entry  *)
(* is in the input queue.                                                  *)
ToldWhenClosed ==
    \A c \in Conns :
       /\ ~Closed(c) => gone[c] = 0 /\ \A i \in DOMAIN inQ : ~Disconnects(i, c)
       /\ Closed(c) => gone[c] = 1 \/ \E i \in DOMAIN inQ : Disconnects(i, c)

(* It is the last entry about the connection.                              *)
LastWord ==
    \A c \in Conns :
       /\ gone[c] \in {0, 1}
       /\ gone[c] = 1 => \A i \in DOMAIN inQ : inQ[i].c # c
       /\ \A i, j \in DOMAIN inQ : Disconnects(i, c) /\ inQ[j].c = c => j <= i

(* The stop entry is the last of all, behind it the input thread finds     *)
(* nothing, and the event loop waits for it with no connection left.       *)
StopLast ==
    /\ \A i \in DOMAIN inQ : inQ[i] = Stop => i = Len(inQ) /\ At(Loop) \in Leaving
    /\ At(In) = "ended" => inQ = <<>> /\ At(Loop) \in Leaving
    /\ At(Loop) \in {"joinOut", "stopped"} => At(In) = "ended"
    /\ At(Loop) \in Leaving => \A c \in Conns : conn[c] # "open"

HeardInv == LifeInv /\ ToldWhenClosed /\ LastWord /\ StopLast

(* Steps that neither close a connection nor end the input thread.         *)
SameClosed == \A c \in Conns : Closed(c)' <=> Closed(c)
SameEnd ==
    /\ At(In)' = "ended" <=> At(In) = "ended"
    /\ At(Loop)' \in Leaving <=> At(Loop) \in Leaving
    /\ At(Loop)' \in {"joinOut", "stopped"} => At(In) = "ended"
    /\ At(Loop) \in Leaving => UNCHANGED conn

(* What a step can mean for the disconnects.                               *)
HeardKinds ==
    \/ InPop \/ QueueDisconnect \/ StopInput
    \/ /\ SameClosed /\ SameEnd /\ UNCHANGED gone /\ At(Loop) \notin Leaving
       /\ \E c \in Conns :
             ~Closed(c) /\ inQ' = Append(inQ, [sig |-> "msg", c |-> c, n |-> 0])
    \/ SameClosed /\ SameEnd /\ UNCHANGED <<gone, inQ>>

(* Every step is of one of these kinds.                                    *)
LEMMA HeardSteps == ASSUME HeardInv, [Next]_vars PROVE HeardKinds
<1> ThreadsOK /\ ConnsOK /\ Places
  BY DEF HeardInv, LifeInv, TypeOK
<1> OpenInUse /\ (At(Loop) \in {"joinOut", "stopped"} => At(In) = "ended")
  BY DEF HeardInv, LifeInv, StopLast
<1> USE Distinct, Moves
    DEF HeardKinds, SameClosed, SameEnd, Closed, OpenInUse, ConnsOK, Moved, Place,
        Upgrading, Serving, Closing, Leaving, Sending, ToClose, connVars, queueVars
<1>1. ASSUME NEW t \in Threads \ {Loop}, Lookup(t) PROVE HeardKinds
  BY <1>1 DEF Lookup
<1>2. ASSUME NEW t \in Threads \ {Loop}, LockFound(t) PROVE HeardKinds
  BY <1>2 DEF LockFound
<1>3. ASSUME NEW t \in Threads \ {Loop}, MarkClosing(t) PROVE HeardKinds
  BY <1>3 DEF MarkClosing, Unlock
<1>4. ASSUME OutPop PROVE HeardKinds
  BY <1>4, PopMoves DEF OutPop, HeardInv, LifeInv
<1>5. ASSUME OutCheck PROVE HeardKinds
  BY <1>5 DEF OutCheck, Unlock
<1>6. ASSUME OutAppend PROVE HeardKinds
  BY <1>6 DEF OutAppend, AppendFrame, Unlock
<1>7. ASSUME InPop PROVE HeardKinds
  BY <1>7
<1>8. ASSUME NEW c \in Conns, InHandle(c) PROVE HeardKinds
  BY <1>8 DEF InHandle, PushFrame, Push, NoFrame
<1>9. ASSUME NEW t \in Apps, NEW c \in Conns, AppSend(t, c) PROVE HeardKinds
  <2> t \in Threads /\ t # Loop
    OBVIOUS
  <2>1. CASE UNCHANGED th
    BY <1>9, <2>1, Stays DEF AppSend
  <2>2. CASE Goto(t, "push", c, 0)
    BY <1>9, <2>2 DEF AppSend
  <2> QED
    BY <1>9, <2>1, <2>2 DEF AppSend
<1>10. ASSUME NEW t \in Apps, AppPush(t) PROVE HeardKinds
  BY <1>10 DEF AppPush, Push
<1>11. ASSUME NEW t \in Apps, NEW c \in Conns, AppClose(t, c)
       PROVE  HeardKinds
  <2> t \in Threads /\ t # Loop
    OBVIOUS
  <2> QED
    BY <1>11 DEF AppClose
<1>12. ASSUME NEW c \in Conns, LoopUpgrade(c) PROVE HeardKinds
  BY <1>12 DEF LoopUpgrade, Others
<1>13. ASSUME addSocketByGUID PROVE HeardKinds
  BY <1>13 DEF addSocketByGUID, Others
<1>14. ASSUME LoopConnect PROVE HeardKinds
  BY <1>14 DEF LoopConnect, PushFrame, Push, NoFrame
<1>15. ASSUME LoopArm PROVE HeardKinds
  BY <1>15 DEF LoopArm, Others
<1>16. ASSUME LoopMark PROVE HeardKinds
  BY <1>16 DEF LoopMark, Others
<1>17. ASSUME NEW c \in Conns, NEW e, LoopEvent(c, e) PROVE HeardKinds
  BY <1>17 DEF LoopEvent
<1>18. ASSUME LoopTest PROVE HeardKinds
  BY <1>18 DEF LoopTest
<1>19. ASSUME LoopRead PROVE HeardKinds
  <2>1. Of(Loop) \in Conns /\ ~Closed(Of(Loop)) /\ At(Loop) \notin Leaving
    BY <1>19, HasConn DEF LoopRead, Resting
  <2>2. SameClosed /\ SameEnd /\ UNCHANGED gone
    BY <1>19 DEF LoopRead
  <2>3. CASE inQ' = Append(inQ, [sig |-> "msg", c |-> Of(Loop), n |-> 0])
    <3> HIDE DEF SameClosed, SameEnd, Closed
    <3> QED
      BY <2>1, <2>2, <2>3
  <2>4. CASE UNCHANGED inQ
    <3> HIDE DEF SameClosed, SameEnd, Closed
    <3> QED
      BY <2>2, <2>4
  <2> QED
    BY <1>19, <2>3, <2>4 DEF LoopRead
<1>20. ASSUME NEW k \in Nat, LoopWrite(k) PROVE HeardKinds
  BY <1>20 DEF LoopWrite
<1>21. ASSUME NEW c \in Conns, LoopExpire(c) PROVE HeardKinds
  BY <1>21 DEF LoopExpire
<1>22. ASSUME NEW c \in Conns, conn_send_ping(c) PROVE HeardKinds
  BY <1>22, Stays DEF conn_send_ping, Others, AppendFrame
<1>23. ASSUME QueueDisconnect PROVE HeardKinds
  BY <1>23
<1>24. ASSUME LockContainer PROVE HeardKinds
  BY <1>24 DEF LockContainer
<1>25. ASSUME deleteSocket PROVE HeardKinds
  BY <1>25 DEF deleteSocket, Others
<1>26. ASSUME FreeSocket PROVE HeardKinds
  BY <1>26 DEF FreeSocket, Others
<1>27. ASSUME LeaveLoop PROVE HeardKinds
  BY <1>27 DEF LeaveLoop
<1>28. ASSUME NEW c \in Conns, deleteAllSockets(c) PROVE HeardKinds
  BY <1>28 DEF deleteAllSockets
<1>29. ASSUME StopInput PROVE HeardKinds
  BY <1>29
<1>30. ASSUME StopOutput PROVE HeardKinds
  BY <1>30 DEF StopOutput
<1>31. ASSUME Stopped PROVE HeardKinds
  BY <1>31 DEF Stopped
<1>32. CASE UNCHANGED vars
  BY <1>32, Stays DEF vars
<1> HIDE DEF HeardKinds
<1> QED
  BY <1>1, <1>2, <1>3, <1>4, <1>5, <1>6, <1>7, <1>8, <1>9, <1>10, <1>11,
     <1>12, <1>13, <1>14, <1>15, <1>16, <1>17, <1>18, <1>19, <1>20, <1>21,
     <1>22, <1>23, <1>24, <1>25, <1>26, <1>27, <1>28, <1>29, <1>30, <1>31,
     <1>32
     DEF Next, OutStep, InStep, LoopStep, LoopBegin, AppStep, AppBegin,
         Found, Terminated, Threads

(* A step that leaves the input queue alone.                               *)
LEMMA QuietHeard ==
    ASSUME HeardInv, SameClosed, SameEnd, UNCHANGED <<gone, inQ>>
    PROVE  ToldWhenClosed' /\ LastWord' /\ StopLast'
<1> USE DEF HeardInv
<1>1. ToldWhenClosed'
  BY DEF ToldWhenClosed, SameClosed, Disconnects
<1>2. LastWord'
  BY DEF LastWord, Disconnects
<1>3. StopLast'
  BY DEF StopLast, SameEnd
<1> QED
  BY <1>1, <1>2, <1>3

(* A message of a connection that is not closed.                           *)
LEMMA MessageHeard ==
    ASSUME HeardInv, SameClosed, SameEnd, UNCHANGED gone, At(Loop) \notin Leaving,
           NEW c \in Conns, ~Closed(c),
           inQ' = Append(inQ, [sig |-> "msg", c |-> c, n |-> 0])
    PROVE  ToldWhenClosed' /\ LastWord' /\ StopLast'
<1> DEFINE e == [sig |-> "msg", c |-> c, n |-> 0]
<1>1. e \in InEntry /\ e # Stop /\ e.sig = "msg" /\ e.c = c
  BY Entries
<1>2. inQ' = Append(inQ, e) /\ inQ \in Seq(InEntry)
  BY DEF HeardInv, LifeInv, TypeOK, QueuesOK
<1> HIDE DEF e
<1>3. /\ Len(inQ) \in Nat /\ DOMAIN inQ = 1 .. Len(inQ)
      /\ DOMAIN inQ' = 1 .. Len(inQ) + 1 /\ inQ' # <<>>
      /\ \A i \in DOMAIN inQ : inQ'[i] = inQ[i]
      /\ inQ'[Len(inQ) + 1] = e
  BY <1>1, <1>2, AppendOf
<1>4. \A i \in DOMAIN inQ' : i \in DOMAIN inQ \/ i = Len(inQ) + 1
  BY <1>3
<1>5. DOMAIN inQ \subseteq DOMAIN inQ'
  BY <1>3
<1>6. \A i \in DOMAIN inQ' : inQ'[i].sig = "disconnect" =>
                               i \in DOMAIN inQ /\ inQ'[i] = inQ[i]
  BY <1>1, <1>3, <1>4
<1>7. gone[c] = 0 /\ \A i \in DOMAIN inQ : ~Disconnects(i, c)
  BY DEF HeardInv, ToldWhenClosed
<1>8. ToldWhenClosed'
  <2>1. ASSUME NEW d \in Conns, ~Closed(d)
        PROVE  gone[d] = 0 /\ \A i \in DOMAIN inQ' : ~Disconnects(i, d)'
    BY <1>6, <2>1 DEF HeardInv, ToldWhenClosed, Disconnects
  <2>2. ASSUME NEW d \in Conns, Closed(d)
        PROVE  gone[d] = 1 \/ \E i \in DOMAIN inQ' : Disconnects(i, d)'
    BY <1>3, <1>5, <2>2 DEF HeardInv, ToldWhenClosed, Disconnects
  <2> QED
    BY <2>1, <2>2 DEF ToldWhenClosed, SameClosed
<1>9. LastWord'
  <2> SUFFICES ASSUME NEW d \in Conns
               PROVE  /\ gone[d] \in {0, 1}
                      /\ gone[d] = 1 => \A i \in DOMAIN inQ' : inQ'[i].c # d
                      /\ \A i, j \in DOMAIN inQ' :
                            Disconnects(i, d)' /\ inQ'[j].c = d => j <= i
    BY DEF LastWord
  <2>1. gone[d] \in {0, 1}
    BY DEF HeardInv, LastWord
  <2>2. ASSUME gone[d] = 1, NEW i \in DOMAIN inQ' PROVE inQ'[i].c # d
    BY <1>1, <1>3, <1>4, <1>7, <2>2 DEF HeardInv, LastWord
  <2>3. ASSUME NEW i \in DOMAIN inQ', NEW j \in DOMAIN inQ', Disconnects(i, d)',
               inQ'[j].c = d
        PROVE  j <= i
    <3>1. i \in DOMAIN inQ /\ Disconnects(i, d)
      BY <1>6, <2>3 DEF Disconnects
    <3>2. d # c
      BY <1>7, <3>1
    <3>3. j \in DOMAIN inQ /\ inQ[j].c = d
      BY <1>1, <1>3, <1>4, <2>3, <3>2
    <3> QED
      BY <3>1, <3>3 DEF HeardInv, LastWord
  <2> QED
    BY <2>1, <2>2, <2>3
<1>10. StopLast'
  <2>1. At(In) # "ended" /\ \A i \in DOMAIN inQ : inQ[i] # Stop
    BY DEF HeardInv, StopLast
  <2>2. \A i \in DOMAIN inQ' : inQ'[i] # Stop
    BY <1>1, <1>3, <1>4, <2>1
  <2> QED
    BY <2>1, <2>2 DEF StopLast, SameEnd
<1> QED
  BY <1>8, <1>9, <1>10

(* The disconnect of the connection the event loop closes.                 *)
LEMMA DisconnectHeardStep ==
    ASSUME HeardInv, QueueDisconnect
    PROVE  ToldWhenClosed' /\ LastWord' /\ StopLast'
<1> TypeOK /\ ThreadsOK /\ Places /\ OpenInUse /\ Loop \in Threads
  BY Distinct DEF HeardInv, LifeInv, TypeOK
<1>1. /\ At(Loop) = "close" /\ Step(Loop, "unlink")
      /\ inQ' = Append(inQ, [sig |-> "disconnect", c |-> Of(Loop), n |-> 0])
      /\ conn' = conn /\ gone' = gone
  BY DEF QueueDisconnect, connVars
<1>2. PICK o \in Conns : o = Of(Loop)
  BY <1>1, HasConn DEF Resting, Leaving
<1>3. Moved(Loop, "unlink", Of(Loop), Frame(Loop))
  BY <1>1, Moves DEF Place, Closing
<1>4. /\ At(Loop)' = "unlink" /\ Of(Loop)' = o /\ At(In)' = At(In)
      /\ conn[o] = "open"
  BY <1>1, <1>2, <1>3, Distinct DEF Moved, OpenInUse, Serving
<1>5. /\ ~Closed(o) /\ Closed(o)'
      /\ \A d \in Conns \ {o} : Closed(d)' <=> Closed(d)
  BY <1>1, <1>2, <1>4 DEF Closed, Closing
<1> DEFINE e == [sig |-> "disconnect", c |-> o, n |-> 0]
<1>6. e \in InEntry /\ e # Stop /\ e.sig = "disconnect" /\ e.c = o
  BY Entries
<1>7. inQ' = Append(inQ, e) /\ inQ \in Seq(InEntry)
  BY <1>1, <1>2 DEF TypeOK, QueuesOK
<1> HIDE DEF e
<1>8. /\ Len(inQ) \in Nat /\ DOMAIN inQ = 1 .. Len(inQ)
      /\ DOMAIN inQ' = 1 .. Len(inQ) + 1 /\ inQ' # <<>>
      /\ \A i \in DOMAIN inQ : inQ'[i] = inQ[i]
      /\ inQ'[Len(inQ) + 1] = e
  BY <1>6, <1>7, AppendOf
<1>9. \A i \in DOMAIN inQ' : i \in DOMAIN inQ \/ i = Len(inQ) + 1
  BY <1>8
<1>10. DOMAIN inQ \subseteq DOMAIN inQ' /\ Len(inQ) + 1 \in DOMAIN inQ'
  BY <1>8
<1>11. gone[o] = 0 /\ \A i \in DOMAIN inQ : ~Disconnects(i, o)
  BY <1>5 DEF HeardInv, ToldWhenClosed
<1>12. ToldWhenClosed'
  <2>1. ASSUME NEW d \in Conns, ~Closed(d)'
        PROVE  gone[d] = 0 /\ \A i \in DOMAIN inQ' : ~Disconnects(i, d)'
    BY <1>5, <1>6, <1>8, <1>9, <2>1 DEF HeardInv, ToldWhenClosed, Disconnects
  <2>2. ASSUME NEW d \in Conns, Closed(d)'
        PROVE  gone[d] = 1 \/ \E i \in DOMAIN inQ' : Disconnects(i, d)'
    <3>1. CASE d = o
      BY <1>6, <1>8, <1>10, <3>1 DEF Disconnects
    <3>2. CASE d # o
      BY <1>5, <1>8, <1>10, <2>2, <3>2 DEF HeardInv, ToldWhenClosed, Disconnects
    <3> QED
      BY <3>1, <3>2
  <2> QED
    BY <1>1, <2>1, <2>2 DEF ToldWhenClosed
<1>13. LastWord'
  <2> SUFFICES ASSUME NEW d \in Conns
               PROVE  /\ gone[d] \in {0, 1}
                      /\ gone[d] = 1 => \A i \in DOMAIN inQ' : inQ'[i].c # d
                      /\ \A i, j \in DOMAIN inQ' :
                            Disconnects(i, d)' /\ inQ'[j].c = d => j <= i
    BY <1>1 DEF LastWord
  <2>1. gone[d] \in {0, 1}
    BY DEF HeardInv, LastWord
  <2>2. ASSUME gone[d] = 1, NEW i \in DOMAIN inQ' PROVE inQ'[i].c # d
    BY <1>6, <1>8, <1>9, <1>11, <2>2 DEF HeardInv, LastWord
  <2>3. ASSUME NEW i \in DOMAIN inQ', NEW j \in DOMAIN inQ', Disconnects(i, d)',
               inQ'[j].c = d
        PROVE  j <= i
    <3>1. CASE d = o
      <4>1. i = Len(inQ) + 1
        BY <1>8, <1>9, <1>11, <2>3, <3>1 DEF Disconnects
      <4> QED
        BY <1>8, <4>1
    <3>2. CASE d # o
      <4>1. /\ i \in DOMAIN inQ /\ inQ'[i] = inQ[i]
            /\ j \in DOMAIN inQ /\ inQ'[j] = inQ[j]
        BY <1>6, <1>8, <1>9, <2>3, <3>2 DEF Disconnects
      <4> QED
        BY <2>3, <4>1 DEF HeardInv, LastWord, Disconnects
    <3> QED
      BY <3>1, <3>2
  <2> QED
    BY <2>1, <2>2, <2>3
<1>14. StopLast'
  <2>1. At(In) # "ended" /\ \A i \in DOMAIN inQ : inQ[i] # Stop
    BY <1>1 DEF HeardInv, StopLast, Leaving
  <2>2. \A i \in DOMAIN inQ' : inQ'[i] # Stop
    BY <1>6, <1>8, <1>9, <2>1
  <2> QED
    BY <1>4, <2>1, <2>2 DEF StopLast, Leaving
<1> QED
  BY <1>12, <1>13, <1>14

(* The stop entry, queued when no connection is open any more.             *)
LEMMA StopHeardStep ==
    ASSUME HeardInv, StopInput
    PROVE  ToldWhenClosed' /\ LastWord' /\ StopLast'
<1> TypeOK /\ ThreadsOK /\ Places /\ Loop \in Threads
  BY Distinct DEF HeardInv, LifeInv, TypeOK
<1>1. /\ At(Loop) = "shutdown" /\ Step(Loop, "joinIn")
      /\ inQ' = Append(inQ, Stop) /\ \A c \in Conns : conn[c] # "open"
      /\ conn' = conn /\ gone' = gone
  BY DEF StopInput, connVars
<1>2. Moved(Loop, "joinIn", Of(Loop), Frame(Loop))
  BY <1>1, Moves DEF Place, Leaving
<1>3. At(Loop)' = "joinIn" /\ At(In)' = At(In)
  BY <1>2, Distinct DEF Moved
<1>4. \A d \in Conns : Closed(d)' <=> Closed(d)
  BY <1>1, <1>3 DEF Closed, Closing
<1>5. Stop \in InEntry /\ Stop.sig # "disconnect" /\ Stop.c \notin Conns
  BY Entries, Distinct
<1>6. inQ \in Seq(InEntry)
  BY DEF TypeOK, QueuesOK
<1>7. /\ Len(inQ) \in Nat /\ DOMAIN inQ = 1 .. Len(inQ)
      /\ DOMAIN inQ' = 1 .. Len(inQ) + 1 /\ Len(inQ') = Len(inQ) + 1
      /\ \A i \in DOMAIN inQ : inQ'[i] = inQ[i]
      /\ inQ'[Len(inQ) + 1] = Stop
  BY <1>1, <1>5, <1>6, AppendOf
<1>8. \A i \in DOMAIN inQ' : i \in DOMAIN inQ \/ i = Len(inQ) + 1
  BY <1>7
<1>9. DOMAIN inQ \subseteq DOMAIN inQ'
  BY <1>7
<1>10. \A d \in Conns, i \in DOMAIN inQ' :
          inQ'[i].c = d => i \in DOMAIN inQ /\ inQ'[i] = inQ[i]
  BY <1>5, <1>7, <1>8
<1>11. ToldWhenClosed'
  <2>1. ASSUME NEW d \in Conns, ~Closed(d)
        PROVE  gone[d] = 0 /\ \A i \in DOMAIN inQ' : ~Disconnects(i, d)'
    BY <1>10, <2>1 DEF HeardInv, ToldWhenClosed, Disconnects
  <2>2. ASSUME NEW d \in Conns, Closed(d)
        PROVE  gone[d] = 1 \/ \E i \in DOMAIN inQ' : Disconnects(i, d)'
    BY <1>7, <1>9, <2>2 DEF HeardInv, ToldWhenClosed, Disconnects
  <2> QED
    BY <1>1, <1>4, <2>1, <2>2 DEF ToldWhenClosed
<1>12. LastWord'
  <2> SUFFICES ASSUME NEW d \in Conns
               PROVE  /\ gone[d] \in {0, 1}
                      /\ gone[d] = 1 => \A i \in DOMAIN inQ' : inQ'[i].c # d
                      /\ \A i, j \in DOMAIN inQ' :
                            Disconnects(i, d)' /\ inQ'[j].c = d => j <= i
    BY <1>1 DEF LastWord
  <2> QED
    BY <1>10 DEF HeardInv, LastWord, Disconnects
<1>13. StopLast'
  <2>1. At(In) # "ended" /\ \A i \in DOMAIN inQ : inQ[i] # Stop
    BY <1>1 DEF HeardInv, StopLast, Leaving
  <2>2. \A i \in DOMAIN inQ' : inQ'[i] = Stop => i = Len(inQ')
    BY <1>7, <1>8, <2>1
  <2> QED
    BY <1>1, <1>3, <2>1, <2>2 DEF StopLast, Leaving
<1> QED
  BY <1>11, <1>12, <1>13

(* The input thread takes an entry.  The handler hears of a disconnect     *)
(* that it had not heard of, and nothing about the connection is left.     *)
LEMMA PopHeardStep ==
    ASSUME HeardInv, InPop
    PROVE  ToldWhenClosed' /\ LastWord' /\ StopLast'
<1> TypeOK /\ Places
  BY DEF HeardInv, LifeInv
<1> DEFINE m == Head(inQ)
<1>1. /\ At(In) = "ready" /\ inQ # <<>> /\ inQ' = Tail(inQ) /\ conn' = conn
      /\ IF m.sig = "disconnect" THEN gone' = [gone EXCEPT ![m.c] = @ + 1]
                                 ELSE gone' = gone
  BY DEF InPop
<1>2. inQ \in Seq(InEntry)
  BY DEF TypeOK, QueuesOK
<1>3. /\ m \in InEntry /\ m = inQ[1] /\ 1 \in DOMAIN inQ
      /\ inQ' \in Seq(InEntry) /\ Len(inQ') = Len(inQ) - 1
      /\ DOMAIN inQ' = 1 .. Len(inQ) - 1 /\ DOMAIN inQ = 1 .. Len(inQ)
      /\ \A i \in DOMAIN inQ' : i + 1 \in DOMAIN inQ /\ inQ'[i] = inQ[i + 1]
  BY <1>1, <1>2, TailOf
<1>4. Len(inQ) \in Nat
  BY <1>2, LenProperties
<1>5. /\ At(Loop)' = At(Loop) /\ Of(Loop)' = Of(Loop)
      /\ At(In)' = IF m = Stop THEN "ended" ELSE "handle"
  BY PopMoves, Distinct DEF Moved
<1>6. \A d \in Conns : Closed(d)' <=> Closed(d)
  BY <1>1, <1>5 DEF Closed
<1>7. \/ m = Stop /\ m.sig # "disconnect"
      \/ m # Stop /\ m.sig = "msg"
      \/ m # Stop /\ m.sig = "disconnect" /\ m.c \in Conns
  BY <1>3, Entries
<1> HIDE DEF m
<1>8. \A i \in DOMAIN inQ : i = 1 \/ (i - 1 \in DOMAIN inQ' /\ inQ'[i - 1] = inQ[i])
  BY <1>3, <1>4
<1>9. \A i \in DOMAIN inQ' : i \in Int /\ i >= 1
  BY <1>3, <1>4
<1>10. gone \in [Conns -> Nat]
  BY DEF TypeOK, ConnsOK
<1>11. StopLast'
  <2>1. \A i \in DOMAIN inQ' : inQ'[i] = Stop => i = Len(inQ') /\ At(Loop) \in Leaving
    BY <1>3, <1>4, <1>9 DEF HeardInv, StopLast
  <2>2. ASSUME m = Stop PROVE inQ' = <<>> /\ At(Loop) \in Leaving
    <3>1. Len(inQ) = 1 /\ At(Loop) \in Leaving
      BY <1>3, <2>2 DEF HeardInv, StopLast
    <3> QED
      BY <1>3, <3>1, EmptySeq
  <2>3. At(Loop) \notin {"joinOut", "stopped"}
    BY <1>1 DEF HeardInv, StopLast
  <2>4. At(Loop) \in Leaving => \A c \in Conns : conn[c] # "open"
    BY DEF HeardInv, StopLast
  <2> QED
    BY <1>1, <1>5, <2>1, <2>2, <2>3, <2>4 DEF StopLast
<1>12. CASE m.sig # "disconnect"
  <2>1. gone' = gone
    BY <1>1, <1>12
  <2>2. ToldWhenClosed'
    <3>1. ASSUME NEW d \in Conns, ~Closed(d)
          PROVE  gone[d] = 0 /\ \A i \in DOMAIN inQ' : ~Disconnects(i, d)'
      BY <1>3, <3>1 DEF HeardInv, ToldWhenClosed, Disconnects
    <3>2. ASSUME NEW d \in Conns, Closed(d)
          PROVE  gone[d] = 1 \/ \E i \in DOMAIN inQ' : Disconnects(i, d)'
      <4>1. CASE gone[d] # 1
        <5>1. PICK i \in DOMAIN inQ : Disconnects(i, d)
          BY <3>2, <4>1 DEF HeardInv, ToldWhenClosed
        <5>2. i # 1
          BY <1>3, <1>12, <5>1 DEF Disconnects
        <5>3. i - 1 \in DOMAIN inQ' /\ inQ'[i - 1] = inQ[i]
          BY <1>8, <5>2
        <5> QED
          BY <5>1, <5>3 DEF Disconnects
      <4> QED
        BY <4>1
    <3> QED
      BY <1>6, <2>1, <3>1, <3>2 DEF ToldWhenClosed
  <2>3. LastWord'
    <3> SUFFICES ASSUME NEW d \in Conns
                 PROVE  /\ gone[d] \in {0, 1}
                        /\ gone[d] = 1 => \A i \in DOMAIN inQ' : inQ'[i].c # d
                        /\ \A i, j \in DOMAIN inQ' :
                              Disconnects(i, d)' /\ inQ'[j].c = d => j <= i
      BY <2>1 DEF LastWord
    <3>1. gone[d] \in {0, 1}
      BY DEF HeardInv, LastWord
    <3>2. ASSUME gone[d] = 1, NEW i \in DOMAIN inQ' PROVE inQ'[i].c # d
      BY <1>3, <3>2 DEF HeardInv, LastWord
    <3>3. ASSUME NEW i \in DOMAIN inQ', NEW j \in DOMAIN inQ', Disconnects(i, d)',
                 inQ'[j].c = d
          PROVE  j <= i
      <4>1. /\ i + 1 \in DOMAIN inQ /\ j + 1 \in DOMAIN inQ
            /\ Disconnects(i + 1, d) /\ inQ[j + 1].c = d
        BY <1>3, <3>3 DEF Disconnects
      <4>2. j + 1 <= i + 1
        BY <4>1 DEF HeardInv, LastWord
      <4> QED
        BY <1>9, <4>2
    <3> QED
      BY <3>1, <3>2, <3>3
  <2> QED
    BY <1>11, <2>2, <2>3
<1>13. CASE m.sig = "disconnect"
  <2>1. m.c \in Conns /\ Disconnects(1, m.c)
    BY <1>3, <1>7, <1>13 DEF Disconnects
  <2>2. \A j \in DOMAIN inQ : inQ[j].c = m.c => j <= 1
    BY <1>3, <2>1 DEF HeardInv, LastWord
  <2>3. \A i \in DOMAIN inQ' : inQ'[i].c # m.c
    <3> SUFFICES ASSUME NEW i \in DOMAIN inQ', inQ'[i].c = m.c PROVE FALSE
      OBVIOUS
    <3>1. i + 1 <= 1
      BY <1>3, <2>2
    <3> QED
      BY <1>9, <3>1
  <2>4. gone[m.c] = 0 /\ Closed(m.c)
    BY <1>3, <2>1 DEF HeardInv, LastWord, ToldWhenClosed, Disconnects
  <2>5. gone'[m.c] = 1 /\ \A d \in Conns \ {m.c} : gone'[d] = gone[d]
    BY <1>1, <1>10, <1>13, <2>1, <2>4
  <2>6. ToldWhenClosed'
    <3>1. ASSUME NEW d \in Conns, ~Closed(d)
          PROVE  gone'[d] = 0 /\ \A i \in DOMAIN inQ' : ~Disconnects(i, d)'
      <4>1. d # m.c
        BY <2>4, <3>1
      <4> QED
        BY <1>3, <2>5, <3>1, <4>1 DEF HeardInv, ToldWhenClosed, Disconnects
    <3>2. ASSUME NEW d \in Conns, Closed(d)
          PROVE  gone'[d] = 1 \/ \E i \in DOMAIN inQ' : Disconnects(i, d)'
      <4>1. CASE d # m.c /\ gone[d] # 1
        <5>1. PICK i \in DOMAIN inQ : Disconnects(i, d)
          BY <3>2, <4>1 DEF HeardInv, ToldWhenClosed
        <5>2. i # 1
          BY <1>3, <4>1, <5>1 DEF Disconnects
        <5>3. i - 1 \in DOMAIN inQ' /\ inQ'[i - 1] = inQ[i]
          BY <1>8, <5>2
        <5> QED
          BY <5>1, <5>3 DEF Disconnects
      <4> QED
        BY <2>5, <4>1
    <3> QED
      BY <1>6, <3>1, <3>2 DEF ToldWhenClosed
  <2>7. LastWord'
    <3> SUFFICES ASSUME NEW d \in Conns
                 PROVE  /\ gone'[d] \in {0, 1}
                        /\ gone'[d] = 1 => \A i \in DOMAIN inQ' : inQ'[i].c # d
                        /\ \A i, j \in DOMAIN inQ' :
                              Disconnects(i, d)' /\ inQ'[j].c = d => j <= i
      BY DEF LastWord
    <3>1. CASE d = m.c
      BY <2>3, <2>5, <3>1
    <3>2. CASE d # m.c
      <4>1. gone'[d] = gone[d] /\ gone[d] \in {0, 1}
        BY <2>5, <3>2 DEF HeardInv, LastWord
      <4>2. ASSUME gone[d] = 1, NEW i \in DOMAIN inQ' PROVE inQ'[i].c # d
        BY <1>3, <4>2 DEF HeardInv, LastWord
      <4>3. ASSUME NEW i \in DOMAIN inQ', NEW j \in DOMAIN inQ', Disconnects(i, d)',
                   inQ'[j].c = d
            PROVE  j <= i
        <5>1. /\ i + 1 \in DOMAIN inQ /\ j + 1 \in DOMAIN inQ
              /\ Disconnects(i + 1, d) /\ inQ[j + 1].c = d
          BY <1>3, <4>3 DEF Disconnects
        <5>2. j + 1 <= i + 1
          BY <5>1 DEF HeardInv, LastWord
        <5> QED
          BY <1>9, <5>2
      <4> QED
        BY <4>1, <4>2, <4>3
    <3> QED
      BY <3>1, <3>2
  <2> QED
    BY <1>11, <2>6, <2>7
<1> QED
  BY <1>12, <1>13

(* At the start nothing is queued and nobody has been told of anything.    *)
LEMMA HeardInit == Init => HeardInv
<1> SUFFICES ASSUME Init PROVE HeardInv
  OBVIOUS
<1>1. LifeInv
  BY LifeInit
<1>2. At(Loop) = "ready" /\ At(In) = "ready" /\ DOMAIN inQ = {}
  BY Distinct DEF Init, At
<1>3. \A c \in Conns : conn[c] = "none" /\ gone[c] = 0
  BY DEF Init
<1>4. ToldWhenClosed
  BY <1>2, <1>3 DEF ToldWhenClosed, Closed, Closing
<1>5. LastWord
  BY <1>2, <1>3 DEF LastWord
<1>6. StopLast
  BY <1>2 DEF StopLast, Leaving
<1> QED
  BY <1>1, <1>4, <1>5, <1>6 DEF HeardInv

(* Every step keeps what is known of the disconnects.                      *)
LEMMA HeardStep == HeardInv /\ [Next]_vars => HeardInv'
<1> SUFFICES ASSUME HeardInv, [Next]_vars PROVE HeardInv'
  OBVIOUS
<1>1. LifeInv'
  BY LifeStep DEF HeardInv
<1>2. ToldWhenClosed' /\ LastWord' /\ StopLast'
  <2>1. CASE InPop
    BY <2>1, PopHeardStep
  <2>2. CASE QueueDisconnect
    BY <2>2, DisconnectHeardStep
  <2>3. CASE StopInput
    BY <2>3, StopHeardStep
  <2>4. CASE /\ SameClosed /\ SameEnd /\ UNCHANGED gone /\ At(Loop) \notin Leaving
             /\ \E c \in Conns :
                   ~Closed(c) /\ inQ' = Append(inQ, [sig |-> "msg", c |-> c, n |-> 0])
    BY <2>4, MessageHeard
  <2>5. CASE SameClosed /\ SameEnd /\ UNCHANGED <<gone, inQ>>
    BY <2>5, QuietHeard
  <2> QED
    BY <2>1, <2>2, <2>3, <2>4, <2>5, HeardSteps DEF HeardKinds
<1> QED
  BY <1>1, <1>2 DEF HeardInv

(* What WebserverConnectionManagerCloseRequest() and stopWebsocketApi()    *)
(* queue for the input thread stays in the order that DisconnectHeard      *)
(* rests on.                                                               *)
THEOREM HeardHolds == Spec => []HeardInv
  BY HeardInit, HeardStep, PTL DEF Spec

(* The application's handler hears of a disconnect once and of nothing     *)
(* after it, and stopWebsocketApi() does not return before it has heard of *)
(* every connection's.                                                     *)
THEOREM DisconnectsHeard == Spec => []DisconnectHeard
<1>1. ASSUME HeardInv PROVE DisconnectHeard
  <2> SUFFICES ASSUME NEW c \in Conns
               PROVE  /\ gone[c] <= 1
                      /\ gone[c] = 1 => \A i \in DOMAIN inQ : inQ[i].c # c
                      /\ At(Loop) = "stopped" /\ conn[c] # "none" => gone[c] = 1
    BY DEF DisconnectHeard
  <2>1. gone[c] <= 1 /\ (gone[c] = 1 => \A i \in DOMAIN inQ : inQ[i].c # c)
    BY <1>1 DEF HeardInv, LastWord
  <2>2. ASSUME At(Loop) = "stopped", conn[c] # "none" PROVE gone[c] = 1
    <3>1. inQ = <<>> /\ conn[c] # "open"
      BY <1>1, <2>2 DEF HeardInv, StopLast, Leaving
    <3>2. conn[c] = "freed"
      BY <1>1, <2>2, <3>1 DEF HeardInv, LifeInv, TypeOK, ConnsOK
    <3>3. DOMAIN inQ = {}
      BY <3>1
    <3> QED
      BY <1>1, <3>2, <3>3 DEF HeardInv, ToldWhenClosed, Closed
  <2> QED
    BY <2>1, <2>2
<1> QED
  BY <1>1, HeardHolds, PTL
=============================================================================
