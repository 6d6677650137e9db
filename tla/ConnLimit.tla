----------------------------- MODULE ConnLimit ------------------------------
(***************************************************************************)
(* The connection container and the connection limits of the event loop    *)
(* (system_sockets_container.c, handleServer() and its helpers in          *)
(* system_sockets.c, proxy_connect_backend() in reverse_proxy.c).          *)
(*                                                                         *)
(* Everything here runs in the event loop thread, in one call of           *)
(* handleServer() or of a connection's handler; pc says how far that call  *)
(* has come.  Two things happen at any point of it: bytes arrive from a    *)
(* client, and an application thread changes a limit.                      *)
(***************************************************************************)
EXTENDS SockList, FiniteSets

CONSTANTS
    Socks,          \* memory for socket_info: slots, reused after a close
    Listener,       \* the slot of the listening socket
    Keys,           \* peer addresses as connLimitKeyFromAddress() groups them
    NoKey,          \* peer_key.valid == 0: the connection is in no group
    NoSock,         \* NULL
    Limits,         \* values conn_limit_max may be set to, 0 = off
    Totals,         \* values connLimitTotalMax() may have, 0 = off
    BusyModes,      \* what a connection can be doing while it is not waiting
    MaxTries,       \* CONN_TOTAL_MAX_TRIES
    Window,         \* CONN_GLOBAL_WINDOW
    ScanSlack       \* steps of a scan beyond the number of clients

ASSUME ConnLimitAssumption ==
    /\ IsFiniteSet(Socks)
    /\ Listener \in Socks
    /\ NoSock \notin Socks
    /\ NoKey \notin Keys
    /\ Limits \subseteq Nat
    /\ Totals \subseteq Nat
    /\ BusyModes \subseteq {"body", "upload", "output", "websocket"}
    /\ MaxTries \in Nat
    /\ Window \in Nat
    /\ ScanSlack \in Nat

VARIABLES
    kind,       \* what a slot holds
    cont,       \* the container: [list, cursor, clients]
    lru,        \* client sockets by last_io, the oldest first
    mode,       \* what the fields read by connLimitIsEvictable() say
    pending,    \* connHasPendingInput(): input arrived, not read yet
    backend,    \* the proxy backend socket of a client
    group,      \* socket_info::conn_group, as the key of the group
    table,      \* keys whose group is in the hash table
    count,      \* conn_group::count
    pinned,     \* conn_group::pinned
    maxPer,     \* conn_limit_max
    maxTotal,   \* what connLimitTotalMax() returns
    pc,         \* how far the call in progress has come
    acc         \* the locals of the call in progress

sockVars  == <<kind, cont, lru, mode, pending, backend>>
groupVars == <<group, table, count, pinned>>
vars == <<kind, cont, lru, mode, pending, backend, group, table, count,
          pinned, maxPer, maxTotal, pc, acc>>

Kinds == {"free", "server", "client", "backend"}

(* "idle": the server waits for the client (handshake, keep-alive, request *)
(* header, a body announced but not begun); "proxyRecv": the proxy still   *)
(* waits for the request; "proxyConnect", "proxyRun": the proxy works.     *)
Modes == {"idle", "proxyRecv", "proxyConnect", "proxyRun", "closing"}
             \cup BusyModes

NoCall == [key |-> NoKey, limit |-> 0, noted |-> {}, total |-> 0,
           before |-> 0, tries |-> 0, who |-> NoSock]

Free    == {s \in Socks : kind[s] = "free"}
Live    == Socks \ Free
Clients == {s \in Socks : kind[s] = "client"}
Counted == {s \in Socks : kind[s] \in {"client", "backend"}}
Members(k) == {s \in Socks : group[s] = k}

-----------------------------------------------------------------------------
(* The container.                                                          *)

(* Faulty: the cursor of the global scan stays on the socket that goes.    *)
UnlinkKeepsCursor(c, s) ==
    IF s \notin Elems(c.list) THEN c
    ELSE [list    |-> Drop(c.list, s),
          cursor  |-> c.cursor,
          clients |-> IF kind[s] = "server" THEN c.clients
                                            ELSE c.clients - 1]

sock_list_unlink(c, s) ==
    IF s \notin Elems(c.list) THEN c
    ELSE [list    |-> Drop(c.list, s),
          cursor  |-> IF c.cursor = s THEN NextIn(c.list, s, NoSock)
                                      ELSE c.cursor,
          clients |-> IF kind[s] = "server" THEN c.clients
                                            ELSE c.clients - 1]

addSocketContainer(c, s) ==
    [c EXCEPT !.list = Append(@, s), !.clients = @ + 1]

(* The sockets released with s: a proxy client takes its backend along     *)
(* (WebserverFreeSocketInfo -> reverse_proxy_cleanup).                     *)
Released(s) == {s} \cup ({backend[s]} \ {NoSock})

(* Faulty: an accept in progress does not keep the group.                  *)
DetachIgnoresPin(s) ==
    IF group[s] = NoKey
      THEN UNCHANGED groupVars
      ELSE LET k == group[s]
           IN  /\ group' = [group EXCEPT ![s] = NoKey]
               /\ count' = [count EXCEPT ![k] = @ - 1]
               /\ table' = IF count[k] = 1 THEN table \ {k} ELSE table
               /\ UNCHANGED pinned

(* connLimitDetach() with conn_group_put(): the group of s leaves the      *)
(* table when its last member goes and no accept holds it.                 *)
connLimitDetach(s) ==
    IF group[s] = NoKey
      THEN UNCHANGED groupVars
      ELSE LET k == group[s]
           IN  /\ group' = [group EXCEPT ![s] = NoKey]
               /\ count' = [count EXCEPT ![k] = @ - 1]
               /\ table' = IF count[k] = 1 /\ pinned[k] = 0
                             THEN table \ {k} ELSE table
               /\ UNCHANGED pinned

(* c is the container as the caller leaves it.                             *)
WebserverConnectionManagerCloseRequest(s, c) ==
    /\ cont' = LET d == sock_list_unlink(c, s)
               IN  IF backend[s] = NoSock THEN d
                   ELSE sock_list_unlink(d, backend[s])
    /\ kind' = [x \in Socks |-> IF x \in Released(s) THEN "free" ELSE kind[x]]
    /\ lru' = Drop(lru, s)
    /\ mode' = [mode EXCEPT ![s] = "idle"]
    /\ pending' = [pending EXCEPT ![s] = FALSE]
    /\ backend' = [x \in Socks |-> IF x = s \/ backend[x] = s
                                     THEN NoSock ELSE backend[x]]
    /\ connLimitDetach(s)

-----------------------------------------------------------------------------
(* Which connection may go.                                                *)

(* Faulty: every proxied connection counts as waiting.                     *)
EvictableWhileProxied(s) ==
    /\ kind[s] = "client"
    /\ mode[s] \in {"idle", "proxyRecv", "proxyConnect", "proxyRun"}

connLimitIsEvictable(s) ==
    kind[s] = "client" /\ mode[s] \in {"idle", "proxyRecv"}

connLimitPickVictim(k) ==
    FirstOf(lru, {s \in Members(k) : connLimitIsEvictable(s)}, NoSock)

(* connLimitPickGlobalVictim(): the walk visits At(0), At(1), ... from the *)
(* cursor round the list; Walked is where it stops, Looked(n) counts the   *)
(* clients among the first n.                                              *)
ScanStart == IF cont.cursor # NoSock THEN IndexIn(cont.list, cont.cursor) ELSE 1

At(n) == cont.list[((ScanStart - 1 + n) % Len(cont.list)) + 1]

Seen(n) == {m \in 0 .. n - 1 : kind[At(m)] = "client"}

SeenIdle(n) == {At(m) : m \in {i \in Seen(n) : connLimitIsEvictable(At(i))}}

Walked ==
    LET last    == cont.clients + ScanSlack
        done(n) == \/ n = last
                   \/ Cardinality(Seen(n)) >= 2 * Window
                   \/ Cardinality(Seen(n)) >= Window /\ SeenIdle(n) # {}
    IN  CHOOSE n \in 0 .. last : done(n) /\ \A m \in 0 .. n - 1 : ~done(m)

Moved == [cont EXCEPT !.cursor = At(Walked)]

connLimitPickGlobalVictim == FirstOf(lru, SeenIdle(Walked), NoSock)

-----------------------------------------------------------------------------
(* handleServer(): a connection from a peer with key k is taken from the   *)
(* listen queue; connLimitAcquire() finds or creates the group and pins it.*)

Accept(k) ==
    /\ pc = "loop"
    /\ Free # {}
    /\ acc' = [NoCall EXCEPT !.key = k, !.limit = IF k = NoKey THEN 0 ELSE maxPer]
    /\ pc' = IF k = NoKey \/ maxPer = 0 THEN "total" ELSE "admit"
    /\ IF k = NoKey
         THEN UNCHANGED <<table, count, pinned>>
         ELSE /\ table' = table \cup {k}
              /\ count' = [count EXCEPT ![k] = IF k \in table THEN @ ELSE 0]
              /\ pinned' = [pinned EXCEPT ![k] = IF k \in table THEN @ + 1 ELSE 1]
    /\ UNCHANGED <<sockVars, group, maxPer, maxTotal>>

(* connLimitRelease() with conn_group_put(); nothing without a group.      *)
connLimitRelease(k) ==
    IF k = NoKey
      THEN UNCHANGED <<table, pinned>>
      ELSE /\ pinned' = [pinned EXCEPT ![k] = @ - 1]
           /\ table' = IF pinned[k] = 1 /\ count[k] = 0
                         THEN table \ {k} ELSE table

(* Faulty: the first connection with input waiting ends the search.        *)
AdmitStopsEarly ==
    LET v == connLimitPickVictim(acc.key)
    IN  IF v = NoSock THEN TRUE ELSE pending[v]

(* Faulty: the search goes round among connections with input waiting.     *)
AdmitStopsNever == connLimitPickVictim(acc.key) = NoSock

(* conn_limit_admit(): one round of its loop.  A victim met again after    *)
(* this call has noted its input (last_io > start_seq) ends the loop.      *)
AdmitStops ==
    LET v == connLimitPickVictim(acc.key) IN v = NoSock \/ v \in acc.noted

AdmitSpare ==
    /\ pc = "admit"
    /\ count[acc.key] >= acc.limit
    /\ ~AdmitStops
    /\ LET v == connLimitPickVictim(acc.key)
       IN  /\ pending[v]
           /\ lru' = ToTail(lru, v)
           /\ acc' = [acc EXCEPT !.noted = @ \cup {v}]
    /\ UNCHANGED <<kind, cont, mode, pending, backend, groupVars, maxPer,
                   maxTotal, pc>>

AdmitEvict ==
    /\ pc = "admit"
    /\ count[acc.key] >= acc.limit
    /\ ~AdmitStops
    /\ LET v == connLimitPickVictim(acc.key)
       IN  /\ ~pending[v]
           /\ WebserverConnectionManagerCloseRequest(v, cont)
    /\ UNCHANGED <<maxPer, maxTotal, pc, acc>>

(* Faulty: a full group counts as one with room.                           *)
AdmitOkAtLimit ==
    /\ pc = "admit"
    /\ count[acc.key] <= acc.limit
    /\ pc' = "total"
    /\ UNCHANGED <<sockVars, groupVars, maxPer, maxTotal, acc>>

AdmitOk ==
    /\ pc = "admit"
    /\ count[acc.key] < acc.limit
    /\ pc' = "total"
    /\ UNCHANGED <<sockVars, groupVars, maxPer, maxTotal, acc>>

AdmitRefuse ==
    /\ pc = "admit"
    /\ count[acc.key] >= acc.limit
    /\ AdmitStops
    /\ connLimitRelease(acc.key)
    /\ pc' = "loop"
    /\ acc' = NoCall
    /\ UNCHANGED <<sockVars, group, count, maxPer, maxTotal>>

-----------------------------------------------------------------------------
(* connLimitEnsureTotalRoom(), called by handleServer() (acc.who = NoSock) *)
(* and by proxy_connect_backend() for the client acc.who.                  *)

TotalCheck ==
    /\ pc = "total"
    /\ acc' = [acc EXCEPT !.total = maxTotal, !.before = cont.clients,
                          !.tries = 0]
    /\ pc' = IF maxTotal = 0 \/ cont.clients < maxTotal THEN "room" ELSE "scan"
    /\ UNCHANGED <<sockVars, groupVars, maxPer, maxTotal>>

ScanGoesOn == acc.tries < MaxTries /\ cont.clients >= acc.total

ScanSpare ==
    /\ pc = "scan"
    /\ ScanGoesOn
    /\ LET v == connLimitPickGlobalVictim
       IN  /\ v # NoSock
           /\ pending[v]
           /\ lru' = ToTail(lru, v)
    /\ cont' = Moved
    /\ acc' = [acc EXCEPT !.tries = @ + 1]
    /\ UNCHANGED <<kind, mode, pending, backend, groupVars, maxPer, maxTotal, pc>>

(* The scan moves the cursor, the close may move it on again.              *)
ScanEvict ==
    /\ pc = "scan"
    /\ ScanGoesOn
    /\ LET v == connLimitPickGlobalVictim
       IN  /\ v # NoSock
           /\ ~pending[v]
           /\ WebserverConnectionManagerCloseRequest(v, Moved)
    /\ acc' = [acc EXCEPT !.tries = @ + 1]
    /\ UNCHANGED <<maxPer, maxTotal, pc>>

(* The end of the loop: a last walk that finds nobody moves the cursor too.*)
ScanOver ==
    /\ pc = "scan"
    /\ \/ ~ScanGoesOn /\ UNCHANGED cont
       \/ /\ ScanGoesOn
          /\ connLimitPickGlobalVictim = NoSock
          /\ cont' = Moved

(* Faulty: the connection to be added is not counted.                      *)
HasRoomNotCounting ==
    cont.clients < acc.total \/ cont.clients < acc.before

HasRoom == cont.clients < acc.total \/ cont.clients + 1 < acc.before

ScanRoom ==
    /\ ScanOver
    /\ HasRoom
    /\ pc' = "room"
    /\ UNCHANGED <<kind, lru, mode, pending, backend, groupVars, maxPer,
                   maxTotal, acc>>

(* Refused: the accepted descriptor is closed and the group released, or   *)
(* the proxy answers 502 and its client is on its way out.                 *)
ScanRefuse ==
    /\ ScanOver
    /\ ~HasRoom
    /\ connLimitRelease(acc.key)
    /\ mode' = IF acc.who = NoSock THEN mode
                                   ELSE [mode EXCEPT ![acc.who] = "closing"]
    /\ pc' = "loop"
    /\ acc' = NoCall
    /\ UNCHANGED <<kind, lru, pending, backend, group, count, maxPer, maxTotal>>

-----------------------------------------------------------------------------
(* addClientSocket() and connLimitAttach(), which gives up the pin.        *)
AddClient(s) ==
    /\ pc = "room"
    /\ acc.who = NoSock
    /\ kind[s] = "free"
    /\ kind' = [kind EXCEPT ![s] = "client"]
    /\ cont' = addSocketContainer(cont, s)
    /\ lru' = ToTail(lru, s)
    /\ mode' = [mode EXCEPT ![s] = "idle"]
    /\ pending' = [pending EXCEPT ![s] = FALSE]
    /\ IF acc.key = NoKey
         THEN UNCHANGED groupVars
         ELSE /\ group' = [group EXCEPT ![s] = acc.key]
              /\ count' = [count EXCEPT ![acc.key] = @ + 1]
              /\ pinned' = [pinned EXCEPT ![acc.key] = @ - 1]
              /\ UNCHANGED table
    /\ pc' = "loop"
    /\ acc' = NoCall
    /\ UNCHANGED <<backend, maxPer, maxTotal>>

(* The rest of proxy_connect_backend().                                    *)
AddBackend(s) ==
    /\ pc = "room"
    /\ acc.who # NoSock
    /\ kind[s] = "free"
    /\ kind' = [kind EXCEPT ![s] = "backend"]
    /\ cont' = addSocketContainer(cont, s)
    /\ backend' = [backend EXCEPT ![acc.who] = s]
    /\ mode' = [mode EXCEPT ![acc.who] = "proxyRun"]
    /\ pc' = "loop"
    /\ acc' = NoCall
    /\ UNCHANGED <<lru, pending, groupVars, maxPer, maxTotal>>

BackendFails ==
    /\ pc = "room"
    /\ acc.who # NoSock
    /\ mode' = [mode EXCEPT ![acc.who] = "closing"]
    /\ pc' = "loop"
    /\ acc' = NoCall
    /\ UNCHANGED <<kind, cont, lru, pending, backend, groupVars, maxPer, maxTotal>>

-----------------------------------------------------------------------------
(* The handlers of the connections, between two accepts.                   *)

(* Input is read; the request goes on arriving, is answered, is handed to  *)
(* the proxy, or ends the connection.                                      *)
Read(s, m) ==
    /\ pc = "loop"
    /\ connLimitIsEvictable(s)
    /\ pending[s]
    /\ mode[s] = "proxyRecv" => m \in {"proxyRecv", "proxyConnect", "closing"}
    /\ m # "proxyRun"
    /\ m = "proxyConnect" => Free # {}
    /\ pending' = [pending EXCEPT ![s] = FALSE]
    /\ lru' = ToTail(lru, s)
    /\ mode' = [mode EXCEPT ![s] = m]
    /\ IF m = "proxyConnect"
         THEN pc' = "total" /\ acc' = [NoCall EXCEPT !.who = s]
         ELSE UNCHANGED <<pc, acc>>
    /\ UNCHANGED <<kind, cont, backend, groupVars, maxPer, maxTotal>>

(* A response, upload or proxied request comes to its end.                 *)
Finish(s) ==
    /\ pc = "loop"
    /\ kind[s] = "client"
    /\ mode[s] \in BusyModes \cup {"proxyRun"}
    /\ lru' = ToTail(lru, s)
    /\ mode' = [mode EXCEPT ![s] = IF mode[s] \in {"proxyRun", "websocket"}
                                     THEN "closing" ELSE "idle"]
    /\ UNCHANGED <<kind, cont, pending, backend, groupVars, maxPer, maxTotal,
                   pc, acc>>

(* The peer is gone, an error, a timeout, or closeSocket is acted on.      *)
Close(s) ==
    /\ pc = "loop"
    /\ kind[s] = "client"
    /\ WebserverConnectionManagerCloseRequest(s, cont)
    /\ UNCHANGED <<maxPer, maxTotal, pc, acc>>

(* deleteAllSockets(), after the event loop has ended: always the head.    *)
Shutdown ==
    /\ pc = "loop"
    /\ pc' = "shutdown"
    /\ UNCHANGED <<sockVars, groupVars, maxPer, maxTotal, acc>>

DeleteHead ==
    /\ pc = "shutdown"
    /\ cont.list # <<>>
    /\ WebserverConnectionManagerCloseRequest(Head(cont.list), cont)
    /\ UNCHANGED <<maxPer, maxTotal, pc, acc>>

Stopped ==
    /\ pc = "shutdown"
    /\ cont.list = <<>>
    /\ UNCHANGED vars

-----------------------------------------------------------------------------
(* Concurrent with all of the above.                                       *)

Arrive(s) ==
    /\ kind[s] = "client"
    /\ ~pending[s]
    /\ pending' = [pending EXCEPT ![s] = TRUE]
    /\ UNCHANGED <<kind, cont, lru, mode, backend, groupVars, maxPer,
                   maxTotal, pc, acc>>

connLimitSetMax(n) ==
    /\ n # maxPer
    /\ maxPer' = n
    /\ UNCHANGED <<sockVars, groupVars, maxTotal, pc, acc>>

connLimitSetConfig(n) ==
    /\ n # maxTotal
    /\ maxTotal' = n
    /\ UNCHANGED <<sockVars, groupVars, maxPer, pc, acc>>

-----------------------------------------------------------------------------
Init ==
    /\ kind = [s \in Socks |-> IF s = Listener THEN "server" ELSE "free"]
    /\ cont = [list |-> <<Listener>>, cursor |-> NoSock, clients |-> 0]
    /\ lru = <<>>
    /\ mode = [s \in Socks |-> "idle"]
    /\ pending = [s \in Socks |-> FALSE]
    /\ backend = [s \in Socks |-> NoSock]
    /\ group = [s \in Socks |-> NoKey]
    /\ table = {}
    /\ count = [k \in Keys |-> 0]
    /\ pinned = [k \in Keys |-> 0]
    /\ maxPer \in Limits
    /\ maxTotal \in Totals
    /\ pc = "loop"
    /\ acc = NoCall

Call ==
    \/ AdmitSpare \/ AdmitEvict \/ AdmitOk \/ AdmitRefuse
    \/ TotalCheck \/ ScanSpare \/ ScanEvict \/ ScanRoom \/ ScanRefuse
    \/ \E s \in Socks : AddClient(s) \/ AddBackend(s)
    \/ BackendFails

Next ==
    \/ \E k \in Keys \cup {NoKey} : Accept(k)
    \/ Call
    \/ \E s \in Socks : \/ \E m \in Modes : Read(s, m)
                        \/ Finish(s)
                        \/ Close(s)
                        \/ Arrive(s)
    \/ Shutdown \/ DeleteHead \/ Stopped
    \/ \E n \in Limits : connLimitSetMax(n)
    \/ \E n \in Totals : connLimitSetConfig(n)

(* A call of handleServer() or of a handler runs on by itself; clients and *)
(* the application owe nothing.                                            *)
Spec == Init /\ [][Next]_vars /\ WF_vars(Call) /\ WF_vars(DeleteHead)

-----------------------------------------------------------------------------
(* Properties.                                                             *)

CallType ==
    [key : Keys \cup {NoKey}, limit : Nat, noted : SUBSET Socks, total : Nat,
     before : Nat, tries : Nat, who : Socks \cup {NoSock}]

(* The variables have their types: the fields of the sockets, of the       *)
(* container, of the groups and the locals of the call in progress.  The   *)
(* unsigned counters sock_list_clients, count and pinned never pass zero.  *)
TypeOK ==
    /\ kind \in [Socks -> Kinds]
    /\ cont \in [list : Seq(Socks), cursor : Socks \cup {NoSock}, clients : Nat]
    /\ lru \in Seq(Socks)
    /\ mode \in [Socks -> Modes]
    /\ pending \in [Socks -> BOOLEAN]
    /\ backend \in [Socks -> Socks \cup {NoSock}]
    /\ group \in [Socks -> Keys \cup {NoKey}]
    /\ table \in SUBSET Keys
    /\ count \in [Keys -> Nat]
    /\ pinned \in [Keys -> Nat]
    /\ maxPer \in Limits
    /\ maxTotal \in Totals
    /\ pc \in {"loop", "admit", "total", "scan", "room", "shutdown"}
    /\ acc \in CallType

(* The intrusive list holds exactly the sockets in use, each once;         *)
(* sock_list_clients counts those that are not listeners; the cursor of    *)
(* the global scan never points at a socket that has left the list, and a  *)
(* proxy backend has exactly one client and stays behind it in the list,   *)
(* as deleteAllSockets() needs.                                            *)
ContainerConsistent ==
    /\ Elems(cont.list) = Live
    /\ NoRepeats(cont.list)
    /\ cont.clients = Cardinality(Counted)
    /\ cont.cursor \in Live \cup {NoSock}
    /\ \A s \in Socks : backend[s] # NoSock =>
          kind[s] = "client" /\ kind[backend[s]] = "backend"
    /\ \A b \in Socks : kind[b] = "backend" =>
          \E s \in Socks : backend[s] = b /\ \A x \in Socks : backend[x] = b => x = s
    /\ \A i, j \in DOMAIN cont.list :
          backend[cont.list[i]] = cont.list[j] => i < j

(* A group counts its members exactly, and is in the hash table while it   *)
(* has members or an accept holds it, and only then: no connection and no  *)
(* accept in progress refers to a group that went to the free list.        *)
GroupsConsistent ==
    /\ \A k \in Keys :
          /\ count[k] = Cardinality(Members(k))
          /\ pinned[k] = IF acc.key = k THEN 1 ELSE 0
          /\ k \in table <=> count[k] + pinned[k] > 0
    /\ \A s \in Socks : group[s] # NoKey => kind[s] = "client"

(* A handler that makes room for its proxy backend goes on using its own   *)
(* client socket: that socket is still there, and still being proxied.     *)
CallerSurvives ==
    acc.who # NoSock => kind[acc.who] = "client" /\ mode[acc.who] = "proxyConnect"

(* Adding a connection never takes the number of its address above the     *)
(* limit that was in force when it was accepted, whatever connections were *)
(* closed and whatever limits were set in between.                         *)
AddressLimitKept ==
    [][\A k \in Keys : count'[k] > count[k] =>
          acc.limit = 0 \/ count'[k] <= acc.limit]_vars

(* Adding a connection or a proxy backend leaves the total at or below the *)
(* limit, or - after the limit was lowered - below what it was before room *)
(* was made: above its limit the total only ever comes down.               *)
TotalLimitKept ==
    [][cont'.clients > cont.clients =>
          \/ acc.total = 0
          \/ cont'.clients <= acc.total
          \/ cont'.clients < acc.before]_vars

(* conn_limit_admit() turns a connection away only when every connection   *)
(* of its address is busy or has input waiting.                            *)
RefusedOnlyIfBusy ==
    [][pc = "admit" /\ pc' = "loop" =>
          \A s \in Members(acc.key) :
              mode[s] \notin {"idle", "proxyRecv"} \/ pending[s]]_vars

(* Every accept and every attempt to make room comes to an end, however    *)
(* input keeps arriving on the connections looked at.                      *)
CallReturns == pc \in {"admit", "total", "scan", "room"} ~> pc = "loop"
=============================================================================
