----------------------------- MODULE EventLoop -----------------------------
(* waitEvents() and the registrations of the three event backends           *)
(* (system_sockets_epoll.c, _kqueue.c, _select.c).  The wait fills a batch  *)
(* of ready events; the handlers it is dispatched to accept connections,    *)
(* register events and close connections, their own and others, whose       *)
(* memory and descriptors the next connection may take over.                *)
EXTENDS Integers, Sequences, FiniteSets

CONSTANTS
  Blocks,      \* memory blocks for socket_info; block 0 is the listening socket
  Backends,    \* [name, readCloses]: backends, and whether the read event of a websocket may close it
  MaxConns,    \* bound: connections that are accepted
  MaxBatch     \* MAX_EVENTS

ASSUME LoopConstants ==
  /\ Blocks \in SUBSET (Nat \ {0}) /\ IsFiniteSet(Blocks)
  /\ Backends \subseteq [name : {"epoll", "kqueue", "select"}, readCloses : BOOLEAN]
  /\ MaxConns \in Nat /\ MaxBatch \in Nat \ {0}

VARIABLES
  backend,
  sock,          \* the connection in each block: id (0: the block is free), fd, isWebsocket
  accepted,      \* connections so far
  table,         \* what is registered: [slot, fd, ptr, ev, persist]; slot only for select
  batch, pos,    \* the batch (epoll, kqueue) or the tables left to look at (select), and how far it is dispatched
  ready,         \* select: the descriptors that are readable and writable
  owing,         \* select: the write event to dispatch after the read event of the same entry
  loop,          \* where waitEvents() is
  break_loop,
  misdirected    \* a handler was called for a connection that is gone

loopVars == <<backend, sock, accepted, table, batch, pos, ready, owing, loop, break_loop, misdirected>>

Listen == 0
NoBlock == -1
AllBlocks == Blocks \cup {Listen}
NothingOwed == [ptr |-> NoBlock, id |-> 0]
Gone == [id |-> 0, fd |-> 0, isWebsocket |-> FALSE]
Alive(s) == {b \in Blocks : s[b].id # 0}
Select == backend.name = "select"

\* Descriptors and slots: the smallest that is not in use.
LeastFree(used) == CHOOSE n \in 1..(Cardinality(used) + 1) : n \notin used /\ \A m \in 1..(n - 1) : m \in used

---------------------------------------------------------------------------
(* Registrations.  epoll and kqueue replace what the descriptor had; select *)
(* adds an entry to client_sock[].                                          *)

Registration(s, b, ev, persist, slot) ==
  [slot |-> slot, fd |-> s[b].fd, ptr |-> b, ev |-> ev, persist |-> persist]

modifyEpoll(t, s, b, ev, persist) ==
  {r \in t : r.fd # s[b].fd} \cup {Registration(s, b, ev, persist, 0)}

register_socket(t, s, b, ev, persist) ==
  t \cup {Registration(s, b, ev, persist, LeastFree({r.slot : r \in t}))}

Register(t, s, b, ev, persist) ==
  IF Select THEN register_socket(t, s, b, ev, persist) ELSE modifyEpoll(t, s, b, ev, persist)

addEventSocketRead(t, s, b) == Register(t, s, b, {"read"}, FALSE)
addEventSocketWritePersist(t, s, b) == Register(t, s, b, {"write"}, TRUE)
addEventSocketReadWritePersist(t, s, b) == Register(t, s, b, {"read", "write"}, TRUE)

\* The first of some entries of client_sock[], and client_sock[] without it.
First(some) == {r \in some : \A q \in some : r.slot <= q.slot}
WithoutFirst(t, some) == t \ First(some)
delEventSocketAll2(t, fd) == WithoutFirst(t, {r \in t : r.fd = fd})
delEventSocketRead2(t, fd) == WithoutFirst(t, {r \in t : r.fd = fd /\ "read" \in r.ev})
delEventSocketWrite2(t, fd) == WithoutFirst(t, {r \in t : r.fd = fd /\ "write" \in r.ev})

\* Faulty: a registration that has fired is not taken out.
DelUnlessSpent(t, s, b) == {r \in t : r.fd # s[b].fd \/ r.ev = {}}

\* One entry of client_sock[], or all that epoll has of the descriptor.
delEventSocketAll(t, s, b) ==
  IF Select THEN delEventSocketAll2(t, s[b].fd) ELSE {r \in t : r.fd # s[b].fd}

updateEventSocketWrite(t, fd, enable) ==
  LET first == First({r \in t : r.fd = fd})
  IN  (t \ first) \cup {[r EXCEPT !.ev = IF enable THEN @ \cup {"write"} ELSE @ \ {"write"}] : r \in first}

\* Writing switched on or off for a websocket.
updateWebsocketEventFlags(t, s, b, list_empty) ==
  IF Select THEN updateEventSocketWrite(t, s[b].fd, ~list_empty)
  ELSE modifyEpoll(t, s, b, IF list_empty THEN {"read"} ELSE {"read", "write"}, TRUE)

---------------------------------------------------------------------------
(* What a handler does, as a change of w = [sock, table, batch, accepted].  *)

\* Faulty: the event behind the current one is not looked at.
FreedSkipsNext(bt, p, b) ==
  [i \in DOMAIN bt |-> IF i > p + 1 /\ bt[i].ptr = b THEN [bt[i] EXCEPT !.ptr = NoBlock] ELSE bt[i]]

\* The entries of the batch behind pos that point at the socket; select keeps no such batch.
eventSocketFreed(bt, p, b) ==
  [i \in DOMAIN bt |-> IF i > p /\ bt[i].ptr = b THEN [bt[i] EXCEPT !.ptr = NoBlock] ELSE bt[i]]

WebserverConnectionManagerCloseRequest(w, b) ==
  [w EXCEPT !.table = delEventSocketAll(w.table, w.sock, b),
            !.batch = eventSocketFreed(w.batch, pos, b),
            !.sock = [w.sock EXCEPT ![b] = Gone]]

\* With select a new connection does not take over a descriptor that is still to be dispatched.
DescriptorsInUse(w) == {w.sock[c].fd : c \in Alive(w.sock)} \cup ready.read \cup ready.write

addClientSocket(w, b) ==
  LET s == [w.sock EXCEPT ![b] = [id |-> w.accepted + 1, isWebsocket |-> FALSE,
                                  fd |-> LeastFree(DescriptorsInUse(w))]]
  IN  [w EXCEPT !.sock = s, !.accepted = @ + 1, !.table = addEventSocketRead(w.table, s, b)]

\* A connection may be closed for the limits before the new one takes a block.
handleServer(w) ==
  {w} \cup UNION {{addClientSocket(v, b) : b \in Blocks \ Alive(v.sock)} :
                    v \in {w} \cup {WebserverConnectionManagerCloseRequest(w, b) : b \in Alive(w.sock)}}

Rearm(w, t) == [w EXCEPT !.table = t]

Upgraded(w, b) ==
  LET s == [w.sock EXCEPT ![b] = [@ EXCEPT !.isWebsocket = TRUE]]
  IN  [w EXCEPT !.sock = s, !.table = addEventSocketReadWritePersist(w.table, s, b)]

\* Closing a connection may take its proxy partner with it.
Closings(w, b) ==
  LET x == WebserverConnectionManagerCloseRequest(w, b)
  IN  {x} \cup {WebserverConnectionManagerCloseRequest(x, c) : c \in Alive(x.sock)}

handleWebsocket(w, b, type) ==
  (IF type # "read" \/ backend.readCloses THEN {WebserverConnectionManagerCloseRequest(w, b)} ELSE {})
  \cup (IF type = "read" THEN {w} ELSE {})
  \cup (IF type = "write" THEN {Rearm(w, updateWebsocketEventFlags(w.table, w.sock, b, e)) : e \in BOOLEAN} ELSE {})

\* Connections that are handed to a backend server, and what they register from then on, are in ReverseProxy.
handleClientEvent(w, b, type) ==
  Closings(w, b)
  \cup (IF type = "read"
        THEN {Rearm(w, addEventSocketRead(w.table, w.sock, b)), Rearm(w, addEventSocketWritePersist(w.table, w.sock, b)),
              Upgraded(w, b)} ELSE {})
  \cup (IF type = "write"
        THEN {w, Rearm(w, addEventSocketRead(delEventSocketAll(w.table, w.sock, b), w.sock, b))} ELSE {})

handleer(w, b, type) ==
  IF b = Listen THEN handleServer(w)
  ELSE IF w.sock[b].isWebsocket THEN handleWebsocket(w, b, type)
  ELSE handleClientEvent(w, b, type)

IdOf(b) == IF b = Listen THEN 0 ELSE sock[b].id

LoopState(t, bt) == [sock |-> sock, table |-> t, batch |-> bt, accepted |-> accepted]

\* The handler runs; called for a connection that is gone it may do anything, so nothing more is followed.
Call(w, b, id, type) ==
  \/ /\ IdOf(b) # id
     /\ misdirected' = TRUE
     /\ table' = w.table /\ batch' = w.batch
     /\ UNCHANGED <<sock, accepted>>
  \/ /\ IdOf(b) = id
     /\ \E x \in handleer(w, b, type) :
          /\ x.accepted <= MaxConns
          /\ sock' = x.sock /\ table' = x.table /\ batch' = x.batch /\ accepted' = x.accepted
     /\ UNCHANGED misdirected

---------------------------------------------------------------------------
(* epoll and kqueue.                                                        *)

Event(r, flags) == [ptr |-> r.ptr, id |-> IdOf(r.ptr), flags |-> flags, fd |-> r.fd]

\* epoll reports a descriptor once, with all that is ready; kqueue each filter.
Reports ==
  IF backend.name = "epoll"
    THEN {Event(r, f) : r \in {q \in table : q.ev # {}}, f \in (SUBSET {"read", "write", "error"}) \ {{}}}
    ELSE {Event(r, {f}) : r \in table, f \in {"read", "write", "error"}}

Possible(e) ==
  \E r \in table : r.fd = e.fd /\ e.flags \subseteq r.ev \cup (IF r.fd = 0 THEN {} ELSE {"error"})

\* At most one report of a descriptor (and filter).
Distinct(d, e) == d.fd # e.fd \/ (backend.name = "kqueue" /\ d.flags # e.flags)

\* A one-shot registration is spent by being reported.
Spent(S) ==
  {IF r.persist \/ ~\E e \in S : e.fd = r.fd THEN r
   ELSE [r EXCEPT !.ev = IF backend.name = "epoll" THEN {} ELSE @ \ UNION {e.flags : e \in {d \in S : d.fd = r.fd}}] :
     r \in table}

epoll_wait ==
  /\ ~Select /\ loop = "wait" /\ ~break_loop
  /\ \E k \in 0..MaxBatch : \E events \in [1..k -> {e \in Reports : Possible(e)}] :
       /\ \A i, j \in 1..k : i # j => Distinct(events[i], events[j])
       /\ batch' = events
       /\ table' = Spent({events[i] : i \in 1..k})
  /\ pos' = 1 /\ loop' = "dispatch"
  /\ UNCHANGED <<backend, sock, accepted, ready, owing, break_loop, misdirected>>

\* Errors first; epoll gives a descriptor that is readable and writable its read event only.
eventHandler(flags) ==
  IF "error" \in flags THEN "timeout" ELSE IF "read" \in flags THEN "read" ELSE "write"

waitEventsDispatch ==
  /\ ~Select /\ loop = "dispatch" /\ pos <= Len(batch) /\ ~misdirected
  /\ \/ /\ batch[pos].ptr = NoBlock
        /\ UNCHANGED <<sock, table, batch, accepted, misdirected>>
     \/ /\ batch[pos].ptr # NoBlock
        /\ Call(LoopState(table, batch), batch[pos].ptr, batch[pos].id, eventHandler(batch[pos].flags))
  /\ pos' = pos + 1
  /\ UNCHANGED <<backend, ready, owing, loop, break_loop>>

---------------------------------------------------------------------------
(* select: the table is read again for every entry.                         *)

select ==
  /\ Select /\ loop = "wait" /\ ~break_loop
  /\ \E r \in SUBSET {q.fd : q \in {t \in table : "read" \in t.ev}},
        w \in SUBSET {q.fd : q \in {t \in table : "write" \in t.ev}} :
       ready' = [read |-> r, write |-> w]
  /\ pos' = 1 /\ loop' = "dispatch"
  /\ UNCHANGED <<backend, sock, accepted, table, batch, owing, break_loop, misdirected>>

Slots == Cardinality(Blocks) + 1

\* The entry is chosen, and taken out if it is for one event only, before the handlers run.
selectEntry ==
  /\ Select /\ loop = "dispatch" /\ pos <= Slots /\ owing = NothingOwed /\ ~misdirected
  /\ LET here == {r \in table : r.slot = pos}
         r == CHOOSE q \in here : TRUE
         readable == here # {} /\ r.fd \in ready.read
         kept == IF readable /\ ~r.persist THEN delEventSocketRead2(table, r.fd) ELSE table
         writable == here \cap kept # {} /\ r.fd \in ready.write
         left == IF writable /\ ~r.persist THEN delEventSocketWrite2(kept, r.fd) ELSE kept
     IN
     \/ /\ ~readable /\ ~writable
        /\ pos' = pos + 1
        /\ UNCHANGED <<sock, table, batch, accepted, misdirected, owing>>
     \/ /\ readable
        /\ Call(LoopState(left, batch), r.ptr, IdOf(r.ptr), "read")
        /\ owing' = IF writable THEN [ptr |-> r.ptr, id |-> IdOf(r.ptr)] ELSE NothingOwed
        /\ pos' = IF writable THEN pos ELSE pos + 1
     \/ /\ ~readable /\ writable
        /\ Call(LoopState(left, batch), r.ptr, IdOf(r.ptr), "write")
        /\ pos' = pos + 1 /\ UNCHANGED owing
  /\ UNCHANGED <<backend, ready, loop, break_loop>>

\* The write handler of the same entry, with the pointer taken before the read handler ran.
selectWrite ==
  /\ Select /\ loop = "dispatch" /\ owing # NothingOwed /\ ~misdirected
  /\ Call(LoopState(table, batch), owing.ptr, owing.id, "write")
  /\ owing' = NothingOwed /\ pos' = pos + 1
  /\ UNCHANGED <<backend, ready, loop, break_loop>>

---------------------------------------------------------------------------
Dispatched == loop = "dispatch" /\ owing = NothingOwed /\ pos > IF Select THEN Slots ELSE Len(batch)

\* Behind the batch: a connection that is due is closed.
connTimeoutSweep(b) ==
  /\ Dispatched /\ b \in Alive(sock)
  /\ LET w == WebserverConnectionManagerCloseRequest(LoopState(table, batch), b)
     IN  sock' = w.sock /\ table' = w.table /\ batch' = w.batch
  /\ UNCHANGED <<backend, accepted, pos, ready, owing, loop, break_loop, misdirected>>

\* The loop begins again.
eventLoopAfterDispatch ==
  /\ Dispatched
  /\ batch' = <<>> /\ pos' = 0 /\ loop' = "wait"
  /\ ready' = [read |-> {}, write |-> {}]
  /\ UNCHANGED <<backend, sock, accepted, table, owing, break_loop, misdirected>>

\* The output thread has a frame for a websocket; it holds the mutex that closing needs.
activateEventSocketWrite(b) ==
  /\ sock[b].isWebsocket
  /\ table' = updateWebsocketEventFlags(table, sock, b, FALSE)
  /\ UNCHANGED <<backend, sock, accepted, batch, pos, ready, owing, loop, break_loop, misdirected>>

breakEvents ==
  /\ ~break_loop /\ break_loop' = TRUE
  /\ UNCHANGED <<backend, sock, accepted, table, batch, pos, ready, owing, loop, misdirected>>

waitEventsReturns ==
  /\ loop = "wait" /\ break_loop
  /\ loop' = "returned" /\ break_loop' = FALSE
  /\ UNCHANGED <<backend, sock, accepted, table, batch, pos, ready, owing, misdirected>>

initEvents ==
  /\ backend \in Backends
  /\ sock = [b \in Blocks |-> Gone] /\ accepted = 0
  /\ table = {[slot |-> 1, fd |-> 0, ptr |-> Listen, ev |-> {"read"}, persist |-> TRUE]}
  /\ batch = <<>> /\ pos = 0 /\ owing = NothingOwed
  /\ ready = [read |-> {}, write |-> {}]
  /\ loop = "wait" /\ break_loop = FALSE /\ misdirected = FALSE

loopNext ==
  \/ epoll_wait
  \/ waitEventsDispatch
  \/ select
  \/ selectEntry
  \/ selectWrite
  \/ eventLoopAfterDispatch
  \/ \E b \in Blocks : connTimeoutSweep(b) \/ activateEventSocketWrite(b)
  \/ breakEvents
  \/ waitEventsReturns

loopSpec == initEvents /\ [][loopNext]_loopVars

---------------------------------------------------------------------------
(* No handler is called for a connection that was closed after its event    *)
(* was reported, nor, with epoll and kqueue, for the connection that took   *)
(* over its memory since (waitEvents(), eventSocketFreed()).                *)
EventsReachTheirConnection == ~misdirected

(* What is registered belongs to a connection that is there: closing leaves *)
(* no registration behind, and no connection waits unregistered while the   *)
(* loop waits (delEventSocketAll(), modifyEpoll(), register_socket()).      *)
RegistrationsMatch ==
  ~misdirected =>
    /\ \A r \in table : r.ptr # Listen => sock[r.ptr].id # 0 /\ sock[r.ptr].fd = r.fd
    /\ loop = "wait" => \A b \in Alive(sock) : \E r \in table : r.ptr = b /\ r.ev # {}
=============================================================================
