# libcwebui: models, checks and proofs

libcwebui is an embeddable web server in C. One thread, the event loop, accepts
connections and serves HTTP, TLS, reverse proxying and the wire side of
websockets. A websocket input thread calls the application's handler, a
websocket output thread puts frames on sockets, and any application thread may
send a frame to a websocket, or close one, by its GUID. This directory holds
TLA+ modules of the parts in which those actors, cut and delayed input, slow or
vanishing clients, limits and deadlines meet, TLC runs that check them on small
instances, and TLAPS proofs of the results that should hold for every instance.

Paths below are relative to `src/lib/src` unless they say otherwise.

## 1. Inventory

| Component | State | Hard part | Correct when | Modules |
|---|---|---|---|---|
| Connection container, connection limits (`system_sockets_container.c`, `handleServer()`, `conn_limit_admit()`, `connLimitEnsureTotalRoom()`) | list of sockets, counter, cursor of the global scan, tree of GUIDs, groups by address | the cursor outlives its socket; evicting the last member of the group in use; input arriving on the victim; limits changed during an accept | list, counter, cursor, groups and proxy pairs agree; limits kept; every accept ends | `SockList`, `ConnLimit` |
| Idle timeouts (same file) | loop clock, stamps, `spared_at`, ping bookkeeping | requests that race the sweep; a blocked loop; whether a ping is on the wire | nobody closed too early, nobody kept for ever | `ConnTimeout`, `WsPing`, `ReverseProxy` |
| Websocket threads (`websockets.c`, `websockets_send_recv.c`, `websocket_handler.c`) | two queues, a mutex, chunk list and `closeSocket` per socket | five kinds of threads, two levels of locks, look-ups racing a close | no use after free, no lost frame, one disconnect, shutdown ends | `WsThreads`, `WsPing` |
| Message queue (`message_queue.c`) | list, mutex, semaphore | announced after the unlock | a FIFO without lost wakeups | `Fifo`, `MessageQueue` |
| Event loop and backends (`system_sockets_epoll.c`, `_kqueue.c`, `_select.c`) | registrations, batch of events | sockets freed in the middle of the batch, memory and descriptors reused | no handler runs for a connection that is gone | `EventLoop` |
| HTTP connection (`system_sockets.c`, `_recv.c`, `_send.c`, `header_parser.c`, `server.c`, `header_send.c`, `server_chunk_functions.c`, `ssl/openssl.c`) | header buffer, header, body, output list, body budget | requests cut and pipelined; answers cut by the socket; errors in every phase | one whole answer per request, in order | `Sockets`, `HttpConnection` |
| Text of a request (`header_parser.c`, `cookie.c`, `convert.c`, `utils.c`) | URL, parameters, cookies | escapes and separators | what the client meant | `RequestText` |
| Post streaming (`post_streaming.c`) | boundary search with hold-back | a boundary cut anywhere, payload that looks like one | the handler hears the parts, exactly | `PostStream` |
| Websocket frames, streaming (`websockets_send_recv.c`, `websockets_streaming.c`) | growing buffer, fragments, stream | control frames between fragments, cut headers | messages whole, once, in order | `WsFrames` |
| Reverse proxy (`reverse_proxy.c`) | state machine of client and backend, buffers | both sides stall and close on their own | bytes once and in order, never stuck, never spinning | `Sockets`, `ReverseProxy` |
| Sessions (`session.c`) | stores by GUID, locks, login id | two stores that expire apart; a store freed in use | access follows the login | `Session` |
| Variables, template engine (`variable*.c`, `engine*.c`, `conditions.c`) | heap of variables, position in the page | the end of a block is found by counting | pages render as they nest, nothing leaks | `Variables`, `Engine` |
| List and hash map (`linked_list.c`, `hashmap.c`) | nodes, `last`, iterator; buckets | deletion under an iterator, failing growth | a sequence, a function | `Containers` |
| Files and cache (`system_file_access*.c`, `system_file_cache.c`, `file_manager.c`) | cache entry, etag | a file replaced between two system calls, or while its body is sent | an answer is some version of the file | `Files` |

How they interact: the event loop (`EventLoop`) calls `handleer()`, which is
`HttpConnection` until the connection is taken over by the websocket code or by
the proxy. It calls the container, the limits and the timeouts directly. The
websocket upgrade hands the socket to the threads, which from then on share the
chunk list, `closeSocket` and the write registration with the loop under the
socket's mutex. Bodies go to `PostStream`, request lines and cookies through
`RequestText`, requests to sessions, templates and files. `shutdownWebserver()`
ends the loop, closes all connections, then stops and joins the threads.
`PROJECT.json` lists every component with its sources, and under `hazards` the
places where this can go wrong in ways a test would hardly reach.

## 2. Modules

Definitions keep the names of the C functions they model; a definition with a
name of its own is a part of a function or an idea of the model, and `map` in
`PROJECT.json` names the lines of each. Definitions introduced by "Faulty:" are
variants a plausible bug would give; no specification uses them. They are there
so that every property can be seen to fail for some change of the code
(`mutants` in `PROJECT.json`).

**SockList, ConnLimit** - container and limits. `cont` is the list with counter
and cursor, `lru` the clients in the order of `last_io`, `mode` what
`connLimitIsEvictable()` reads, `pending` what `connHasPendingInput()` would
say, `table`, `count`, `pinned` the groups. A call of `handleServer()` or
`proxy_connect_backend()` is a sequence of steps, `pc` says where it is, `acc`
holds its locals; between two steps bytes arrive and the application changes
limits. `Accept` ... `AdmitOk` are `conn_limit_admit()`; `TotalCheck`,
`ScanSpare`, `ScanEvict`, `ScanRoom`, `ScanRefuse` are
`connLimitEnsureTotalRoom()`; `Read`, `Finish`, `Close` stand for the handlers,
`Shutdown` and `DeleteHead` for `deleteAllSockets()`. A slot is memory: it is
reused.

**WsThreads** - event loop, input, output and application threads on the same
websockets. A step is a critical section, the taking of a lock inside another,
or an access to `closeSocket` outside its mutex. `Lookup`, `LockFound` are
`getSocketByGUID()` with its hand-over from `socks_mutex` to the socket's mutex;
`LoopUpgrade` to `LoopArm` the upgrade, `LoopTest`, `LoopRead`, `LoopWrite` the
event handler, `QueueDisconnect` to `FreeSocket` the close, `LeaveLoop` to
`Stopped` the shutdown. Frames are numbers in the order they were pushed; 0 is
the answer to the upgrade.

**Fifo, MessageQueue** - what push and pop promise, and one action per mutex,
list and semaphore operation, which refines it. The refinement is what lets
`WsThreads` treat a push or a pop as one step.

**WsPing** - one websocket's output in bytes, numbered in the order they are
queued: chunks that frames and pings share (a chunk is the interval of bytes it
holds), `websocket_send_pos`, `ws_chunks_sent`, and the sweep's decisions from
them. Socket events come before and after the sweep of a second: the loop sweeps
in the first round of a new `g_loop_now` and goes on dispatching in that second.
A sweep follows the last one after at most `MaxRound` seconds, the longest step
of the loop's clock.

**ConnTimeout** - the clock of the loop, the stamps of HTTP connections,
and `connTimeoutSweep()` with its bounded list and its sparing; `place` is where
a connection stands in the container's list, which decides where the walk ends.
History variables in it and in `WsPing` measure what really happened; that of a header begins
with its first byte, also when the read of the request before it brought it along
(`Pipelined`), where the code's `phase_at` is older.

**Sockets** - a connected socket with its peer: a bounded window, half close,
reset, the TLS layer's decrypted bytes, and `WebserverRecv()`/`WebserverSend()`
on it. A peer is part of the record, so that what arrives can be compared with
what was sent. Used by the next two.

**HttpConnection** - one connection from its first byte to its end. A request is
a sequence of units (pieces of the request line, one unit per field, the empty
line, the body); the client sends several in a row, the network cuts them
anywhere. `EventHandler` is one call of `handleer()`, computed by operators on
the whole state `w` named after the functions it calls: `ReadEvent` reads and
parses (`ReadHeader`, `ParseLines`, `ParseHeader`), takes bodies
(`handlePostStreamData`, `TakeBody`), answers (`getHttpRequest`,
`sendHTMLFile`, `sendHttpErrorPage`, `generateOutputBuffer`) and goes on with
the next request that is already in the buffer (`Pipelined`); `WriteEvent` is
the output list; `TlsAccept` the handshake. `OtherPosts` are other connections
that take a share of `post_buffer_allocated`. What a page says is one unit per
chunk; compression packs each of them.

**RequestText** - bytes of request and cookie lines: `url_decode`,
`recieveParameterFromGet`, `parseCookies`, `url_sanity_check` as they are, and a
client (`Written`, `Joined`) that encodes what it means.

**PostStream** - `startPostStream`, `FeedBody` with any cut of the rest of the
body, `EndPostRequest`, `PostDisconnect`. `scanForNeedle` with its `hold` and
`rebaseHold`, `collectPartHeader`, `beginPart`, `endPart` follow the source; a
header line is one token. The handler may abort in any of its calls. The
reference, `PartsOf`, reads the whole body at once.

**WsFrames** - `Arrive` with any cut, `RecvFrames` as `recFrameV8()` with its
loop, its buffer that grows and is recopied, fragments, control frames and
streams. A payload byte carries the position of the mask byte it was masked
with, so unmasking at the wrong offset gives garbage. A receive that fails without
setting `errno` leaves what an earlier call put there; `again` says whether that is
EAGAIN and is chosen freely. The reference `Receives` reads the list of frames.

**ReverseProxy** - one proxied request: `HandleClient` and `HandleBackend` are
the two handlers, dispatched from a batch that `EpollWait` has taken, so that
the second may find what the first has done; `ClientSends`, `BackendAnswers`,
... are the peers; `Expire` is the proxy branch of the sweep. The chunked
scanner reads a body unit by unit. An exchange is a request and a response, each
with its units, its header lines and the place where its header ends
(`ExchangesAre`): every client that sends a header and every backend that
answers with one, well formed or not.

**EventLoop** - registrations, waiting and dispatch of the three backends, with
handlers that accept, close their own or any other connection, upgrade and
register; memory blocks and descriptors are taken over by the next connection. What
a handler does for a proxied connection is left to `ReverseProxy`.

**Session** - stores by GUID for plain and for TLS connections, cookies of any
mix (none, known, unknown, one of the other kind), login, values, locks, the
timeout check. `login` is a ghost: which stores the last login bound.

**Variables, Engine** - a heap of variables, references and arrays with their
stores and iterators; a page is the sequence of its tags, `RenderPage` runs
`processHTML()` on it. The reference `Meaning` renders the tree the page was
flattened from.

**Containers** - list and map at the level of nodes and buckets beside the
sequence and function they stand for; an entry is taken from any position.
**Files** - one file and its cache entry; each system call is an action, and
`ReplaceFile` may come between any two. A request may name a tag, a date or both;
dates have minutes only (`MinuteTicks`). A file that is sent as it is leaves its
header in the request (`SendAnswer`) and its body in `sending`, which later write
events take on by some bytes each (`handleClientWriteData`), looking at the entry
anew every time; other requests come in between and may load the file again.

**MCReceivers, MCStores, MCProgress, MCTimeouts** put independent components in
one run: one of them moves in a behaviour, the others stay in a fixed initial
state. `MCProgress` is `ConnLimit` and `MessageQueue`, `MCTimeouts` is `WsPing` and
`ConnTimeout`.

## 3. Runs

| Run | Instance | What it shows |
|---|---|---|
| `conn_limit_safety` | three slots and the listener, one address and connections without one, limits 1 and 2, total off, 1 or 2 | container, groups and both limits stay right; the caller's own socket is never evicted; nobody is refused while an idle connection of the address could go |
| `progress` | the same slots with fixed limits; two producers, two consumers, four pushes | a call that makes room ends although input keeps arriving; the queue is a FIFO and loses no wakeup |
| `ws_threads` | one connection, two application threads, two frames, one message | no use after free, write event never forgotten, order of frames, disconnect heard last, shutdown ends |
| `timeouts` | a websocket: chunks of 3 bytes, frames and pings of 2, eleven seconds, events before and after each sweep; two HTTP connections, the second silent, limits of 3 s, one close per sweep, handlers that block up to 2 s | the sweep's idea of the ping is exact, silent clients are closed in time, others only if they took nothing for their limit; blocked time is not counted, a request that arrives at the deadline is kept, nobody stays overdue; pipelined headers may be closed early, section 6 |
| `reverse_proxy` | every response framing, bodies, tunnels, refused and broken messages; window of 2 units, buffers of 4 | bytes of both sides arrive once and in order (`ForwardedOnce`), a response ends early only for a reason (`NeverCutShort`), no event is reported for ever (`NoSpin`), nobody waits for an event that cannot come (`NoneForgotten`) |
| `receivers` | HTTP: some 130 streams of one to three requests, plain and TLS; uploads with payloads that look like boundaries; valid and invalid frame sequences; some 12 000 request and cookie lines | answers in order and whole, closed only after the answer, no request forgotten, body budget returned; parts, frames and text as the whole input says |
| `stores` | sessions (four mixes of GUIDs, logins, time), some 1 700 pages, list of 4, map of 4 keys, files with 3 contents and times in two minutes, sent by up to two bodies at a time, three backends with two memory blocks | access follows the login, held stores live, idle sessions end; pages render as they nest; containers keep their contents; answers are versions of the file; events reach their connection |
| `ws_output_early`, `pipelined_header` | one part of `timeouts` each | findings, section 6 |
| `proxy_tls_pending`, `ws_buffer_edge`, `select_freed` | smallest instances | findings, section 6 |

Why the bounds are enough. *Connections:* three slots give an accept, a victim
and a third party. *Frames:* two frames race for an empty and for a non-empty
chunk list. *Chunks:* a frame of two bytes in chunks of three lets a
ping lie in a chunk of its own, fill one up, or be cut by the end of one. *Seconds:*
eleven allow an idle time, a ping and both of its ends twice, with rounds of two
seconds; eight allow an expiry, a sparing, its end and, with a fault, a second
sparing. *Bodies:* one body is on its way while another request finds the file
changed, and a third comes behind both. *Units:* buffers of two to
four units are smaller than headers, bodies and answers, so each of them is cut
at every place and each buffer is full at some point; a header too long, a body
over the limit and one over the budget occur. `PostYield` must not be smaller
than a TLS record (`HttpSizes`): the code relies on it. *Requests:* every kind
of request that keeps the connection stands before every other kind. *Frames on
the wire:* the first buffer (5) is smaller than the largest (8) and than the
messages, so it grows; two mask bytes tell a wrong offset. *Boundaries:*
payloads contain every kind of prefix of the delimiter, alone and overlapping.
*Text:* every byte that means something, in every position of short names and
values, written plainly and escaped in both cases. *Sessions:* four GUIDs are
two clients with a store of each kind. *Pages:* every tag alone, in every block
and in blocks in blocks, behind settings and before tags that show what is left.
*Map:* three keys of one bucket until the map grows. *Loop:* two blocks and
three connections let a connection take over memory and descriptor of one freed
in the same batch.

`MaxFrames`, `MaxMsgs`, `MaxPushes`, `MaxBytes`, `MaxSeconds`, `MaxBlock`, `MaxTime`,
`Parts`, `Bounds`, `MaxList`, `MapSteps`, `MaxWrites`, `MaxRequests`, `MaxBodies` and
`MaxConns` are bounds of the model and not of the code. Symmetry is used for interchangeable
slots in `conn_limit_safety` only.

Deadlock is checked in `conn_limit_safety`, `progress`, `ws_threads` and
`timeouts`, where `Stopped`, `Terminated`, `AllPopped`, `WsPingDone` and `Done` mark
the proper ends. The others may stop: a client has sent and read all it wants. That nothing stops too early is a property there
(`NoneForgotten`, `NoRequestForgotten`).

Fairness. `ConnLimit`: weak fairness of the steps of a call in progress and of
the shutdown loop, which run on without waiting for anybody. `MessageQueue`:
weak fairness of a push that has begun and of the consumers, which are endless
loops. `WsThreads`: weak fairness of each thread for what it has begun; nobody
has to begin anything, neither clients nor the application. The other modules
assume no fairness: their "in time" and "not forgotten" properties are
invariants over the clock, or over the states in which no event is pending.

## 4. Proofs

Each theorem holds for every value of the constants that the named assumption of
its module allows. The pattern is the same everywhere: an invariant that is
inductive, one lemma per action (or per group of actions) that the action keeps
it, lemmas for the operators those rest on, and a temporal step that puts them
together. TLC checked each of these invariants on a run's instance before it was
proved. None of the properties of section 3 is inductive by itself; what is said
below is why, and what had to be added.

**ConnLimitProofs** - for any finite set of sockets, any addresses, limits and
scan bounds: `TypeCorrect`, `ContainerSafe`, `GroupsSafe`, `CallerSafe`
(`Spec => []...`) and the action properties `AddressLimit`, `TotalLimit` and
`RefusedForReason`. The assumption is `ConnLimitAssumption` in `ConnLimit`. The
invariant `IInv` is the conjunction of those four state predicates with
`CallConsistent`, which relates the place a call has come to and its locals (the
pin is held from `Accept` to the end of the call, room found for the address is
still there while room in total is made), and `BackendMode` (a client has a
backend only once the proxy has connected it). That the counter is exact needs
that nothing is unlinked twice, for which the proxy pairs must be one to one and
a backend must lie behind its client; that a group is not freed under an accept
needs the pin to belong to that accept alone. `RefusedForReason` needs `LastIoInv`
besides: the order of `last_io` has every client once, and the ones the accept
has put aside for their input still have it and come last in that order, so that
finding nobody in front of them means that nobody is left. The lemmas go from the
operators of `SockList` (`DropIndex`, `DropElems`, `FirstOfMember`) over the
effect of a close (`CloseContainer`, `CloseGroups`, `CloseLastIo`) to the steps.

**MessageQueueProofs** - for any finite sets of producers and consumers:
`QueueCounts`, `QueueLocked` and the refinement `QueueIsFifo`. The argument: a
consumer that passed the semaphore has an entry set aside for it, so
`PopExtract` never finds an empty list; this needs the mutex invariant, which
keeps every other thread from the list, and the roles of threads.

**WsThreadsProofs** - for any connections, application threads, frames and
messages, in every interleaving: `SocketsLive`, `FramesArmed`, `FramesKeepOrder`
and `DisconnectsHeard`. `LifeInv` says which thread holds which mutex at each
place of its function (`Locks`), that a socket somebody has found by its GUID
stays in the tree until that thread lets go of it (`FoundStays`), that only open
sockets are in the tree, and that the write event is set for every socket with
chunks unless it is still being upgraded, also while its mutex is held
(`ArmedAlways`). `OrderInv` puts what is on the wire, in the chunk list, in the
hand of the output thread and in the queue into one ascending line, with the
answer to the upgrade in front. `HeardInv` follows the disconnect from the loop
through the input queue to the handler; it needs that the queue is served in
order, and that the stop mark is behind the last disconnect.

**StoresProofs, Session** - for any timeout and check interval (`SessionBounds`; the code
checks every 10 s), any websockets and any number of GUIDs: `StoresLive`,
`AccessOfLogin` and `IdleEnd`. `SessInv` adds that the stores a request has are of
the kind it was asked for and were used since it began (`HasStores`), that a GUID
generated for it names no other store (`NewCookies`), that its stores are locked
once and no others are (`LocksAre`), that the last check left no store idle for
longer than the timeout (`CheckedStores`), that a store lasts as long as a handler
was told (`PromisesKept`), and that a session id belongs to one login
(`LoginsBound`). The proof follows `restoreSession()`: finding, generating,
creating and locking a store have a lemma each (`Found`, `Generated`, `Created`,
`LocksOne`), `RestoredOne` joins them for one kind of store, `Restored` for both.

**StoresProofs, Files** - for any contents, sizes, times and conditions of requests
(`FileConstants`): `FreshAnswers`, under the assumption of section 5 that a file is used in one way
only. `FileInv` states for every place between two system calls which version the
values read so far belong to: two versions of one tick differ in their length
(`VersionsApart`), what is in RAM is one content with its length and tag
(`RamKept`), and length and tag of a file sent from disk are those of a version of
the time noted, as long as the file still has that time (`DiskKept`). Without
these the answer "not modified" could be about another content. That a date which
matched is the minute of a version on disk needs that the time in the entry is one
of a version seen by the request (`TimeSeen`). `BodyInv` follows the bodies between
the requests: what a body has sent is one content with the length and tag of its
header, which the entry still has as long as nobody noted a change, and the file
does too where it is read again for each event. A file of the binary image is
unpacked only while it is rendered (`ImageKept`), so a body never meets it unpacked.

**EventLoopProofs** - for any number of memory blocks and connections and batches
of any length (`LoopConstants`), for epoll and kqueue: `EventsArrive` and
`Registered`. `LoopInv` relates batch, registrations and memory: an event that is
still to be dispatched is for a connection that is there or was cleared when its
socket was closed (`EventsMatch`); connections that are there have descriptors of
their own (`SocksApart`) and registrations are of these (`TableMatches`); and each
is registered, or an event is still to come that registers or closes it, except
the one whose handler runs. A new connection gets the least unused descriptor,
whose existence is proved by well-founded induction. For `select` both are false
in general (section 6), so there they are model-checked under the assumption of
section 5.

**ConnTimeoutProofs** - for any finite set of connections, any limits and any
length of `close_list`: `NoneTooEarly`, the first half of `SweptForReason`; with
`LimitsLong` (the limits between requests and within a body are off or at least
three seconds) and as long as no sweep ends early (`SweepsComplete`), `FreshInputKept`, all
of it. Both leave out a header pipelined behind another request, which section 6 is
about. `TimeInv` says that stamps are of the past and that the unblocked time of
a connection is at least what its stamp says, which rests on the clock: a wait
moves `g_loop_now` by its length and at most one second of the handlers' time.
`SparedInv` says why `spared_at` is set: the input it was set for is still
waiting, or the connection was read since the last sweep, and then it is not
expired yet. Both hypotheses are needed; section 7 describes what happens
without them.

**WsPingProofs** - for any size of chunks and frames and any limits: `PingExact`
and `ReasonToClose`, and `SilentGone` when the timeouts are not switched off.
`ByteInv` is about bytes: chunks follow each other without gaps from what is sent
to what is queued, and `ws_ping_seq`, `ws_ping_end` name the chunk and the place
in it where the ping ends, although later frames fill that chunk up. `StampsOK`
and `PingTimed` bound what the sweep has noted by what happened: output that was
drained and queued again since the last sweep was drained in this round, so that
either `ws_out_since` is its own or it was queued at most `MaxRound` seconds after
`tx_at`, which counts too. This is why `ClosedForReason` allows that much, and
cannot allow less (section 6). `SilentInv` bounds how long each of
the phases of a silent client lasts: idle, ping behind other output, ping out.
The lemma on `writeChunk` (`Written`, from `NewAre` and `ChainedConcat`) is the
one place where the size of a chunk matters.

**ReverseProxyProofs** - for any exchanges (`ExchangesAre`), buffer sizes
(`Sizes`) and windows (`WindowAssumption`): `ForwardedOnceHolds` and
`NoSpinHolds`. What the peers
have got says nothing about the next step, so `BytesInv` says for each state of
the proxy where every unit is: while the request is collected, what is in the
buffer and what is still to come are the request (`Collects`, with its header
found, `HasHeader`); while it is sent, what the backend has, the buffer behind
`sendPos` and, for an upgrade, what is to come are the request as rewritten
(`Sends`); then the same of the response and the client (`Awaits`, `Streams`) and
of both directions of a tunnel with its two backlogs (`Tunnels`). A connection in
use is held by its handler or marked for closing (`Held`), which keeps a second
`checkReverseProxy()` away. `BytesAccounted` is that invariant. There is one
lemma per function of the code (`StreamBodyOK`, `SendToBackendOK`, ...), each from
what holds where the function is entered to what holds where it returns, and
below them the facts about cutting and joining sequences and about `Send` and
`WebserverRecv` (`Sending`, `Reading`). The loops of `run_extern_handler()` and of
the tunnel's reader are recursive functions with at most as many rounds as there
are bytes to read; `Repeats` shows that a set of states which every round stays
in holds the last one.

`NoSpin` is about the next call of a handler, which may do nothing only if the
event it was called for is not the one its state waits for. `EventsInv`
(`EventsRegistered`) says which events those are: `Armed` gives for each state the
events of the two descriptors and whether the client's handler is the proxy's,
with something left to write wherever writing is waited for (`Waits`, `Both` for
the backlogs of a tunnel); `ReadsRequest` that the client is read while the
request is collected; `Calm` and `Clear` that no side is shut down or closed
behind a handler's back and that what TLS is known to hold is there. It is
inductive beside `BytesInv`, which tells how much of each buffer is sent. Again
there is one lemma per function, each with two halves: the events where it
returns are the right ones, and the state there is not the one it was entered in.

Only model-checked, and why:

* liveness: `CallReturns`, `Drained`, `ShutdownEnds`. Fairness and ENABLED are
  out of the prover's reach;
* `HttpConnection`, `PostStream`, `WsFrames`, `Variables`, `Engine` and
  `Containers` recurse over their input. What a recursive definition computes
  for every input takes an induction over data, which the installed provers
  cannot do, and the prover loses its main backend in such modules;
* `RequestText` has no RECURSIVE operator, but its property compares what loops
  over text compute, which is the same induction. So does `NeverCutShort` of
  `ReverseProxy`: that the chunked scanner is done exactly where the response
  ends is about what `proxy_chunked_scan()` computes for every body.
  `NoneForgotten` of the same module uses ENABLED;
* `NoneOverdue`: its bound counts the rounds in which a list of expired
  connections is worked off, and holds for limits that are long compared with
  that number only;
* `select`, see above, and everything that needs the assumptions of section 5
  which a model states by its choice of inputs.

Worth proving next: `NeverCutShort` for responses that are not chunked, and the
list of `Containers` apart from its map.

## 5. Assumptions about the environment

Each keeps a passing run off behaviour that section 7 describes.

* Requests of a client end within `session_timeout`; websocket handlers use the
  copied GUID of a store and do not name the reserved variables by GUID.
* Pages put text behind `{endif}`, nest loops at most two deep over different
  arrays, and do not set the array they loop over. Numbers are numeric.
* A file is not removed, does not change twice within one tick of its
  modification time while a request is served, and is either sent or rendered.
* A date in If-Modified-Since stands for its minute, and a body is judged only if
  no other request finds the file changed before it is out.
* The header of a further request comes in a read of its own, where it is about
  closing it too early (`SweptForReason`); section 6 has the other case.
* With `select`, a descriptor that is reused was not ready for writing in the
  batch of its predecessor, and no connection is proxied.
* Streamed websocket messages are not fragmented unless the handler aborts
  (section 7 has the others), and data is not directly followed by the end of the
  connection.
* NUL bytes do not occur in text. An empty disk file is not sent over TLS.
* `proxy_create_connection()` has the memory it needs; memory failures are
  inputs only where the model says so (`deflates`, `allocated`, `grown`,
  "nomem").

## 6. Findings

* `proxy_tls_pending`: `handleer()` calls the proxy's client handler by hand for
  decrypted bytes that are left; the handler takes the call for a client that is
  gone (`reverse_proxy.c:924`) and ends the exchange without a response.
* `ws_buffer_edge`: the receive buffer grows only if the payload alone is larger
  than it (`websockets_send_recv.c:425`); a message that fits the first buffer
  without its header only, masked 293 to 300 bytes, ends the connection.
* `select_freed`: `waitEvents()` of the `select` backend reads both pointers of
  an entry before it calls the first handler and uses the second one afterwards
  (`system_sockets_select.c:426`); a
  websocket closed by its read handler gets its write handler called.
* `ws_output_early`: `ws_out_since` is forgotten only by a sweep that finds no
  output (`system_sockets_container.c:989`); output that goes out after one sweep
  and is followed by more before the next leaves it to that, which is then given up
  up to two seconds before it has waited for `timeout_send_idle`. The comment says
  that the start is at most late.
* `pipelined_header`: `phase_at` is set only by a read that finds the header buffer
  empty (`system_sockets.c:702`); a header whose beginning the read of the previous
  request brought along is timed from that request, and closed at once if its answer
  took long, although the comment gives it `timeout_request_header`.

## 7. Other places where the code differs from what one would expect

Met while modelling, described here because no run is spent on them.

*Websocket threads.* `stopWebsocketApi()` (`websockets.c:187`) clears
`websocket_threads_running` after the join, so a frame queued in between is
neither sent nor released. `websocket_event_handler()`
(`websocket_handler.c:138`) judges by the chunk list alone whether all is sent;
frames still in the output queue, the close frame included, can be dropped.
When the socket takes a whole chunk and then nothing, the line logged as never
reached (`websocket_handler.c:114`) is reached.

*Websocket frames.* `CLIENT_NO_MORE_DATA` is 0 and `CLIENT_DISCONNECTED`
negative, so `continueWebsocketStream()` (`websockets_streaming.c:314-332`) takes
"no data yet" for a closed connection and tests a stale `errno` on disconnect; both
are modelled, and tell apart no well-formed message that is not fragmented. While a
stream is active `recFrameV8()` leaves every read to it
(`websockets_send_recv.c:202`), so a fragment of a streamed message that comes in a
read of its own, which the comment at `websockets_streaming.c:198` says `recFrameV8()`
passes on, is never parsed: `websocket_stream_remaining` is 0, 0 bytes are asked for,
and that looks like a disconnect, or like "no data yet" if `errno` still holds an
EAGAIN. A
streamed message of length 0 gets its end with the next data only; a final frame
inside a fragmented stream starts a new stream over it; a socket that is freed
with a stream open never calls `on_end()`. Data directly followed by FIN is
lost in `PlatformRecvSocketNonBlocking()`. A CLOSE frame stays in the buffer and
is answered again by each later read.

*Timeouts.* With limits of 1 or 2 s the clock can pass a whole
limit between two sweeps, and the second expiry finds `spared_at` still set. The
same happens with any limit when so many connections expire at once that sweeps
end early (`loop_sweep_pending`) for longer than the limit: a connection behind
the end of the walk was read in the meantime, keeps its old `spared_at`, and is
closed with fresh input when it expires again. TLC shows it with five
connections and `SweepMax` 1; in the code it takes rounds of more than
`CONN_SWEEP_MAX` expired connections for a whole limit.

*HTTP connection.* An HTTP/1.0 request with keep-alive is told keep-alive
(`header_send.c:114`) and closed (`system_sockets.c:983`, `2096`). A websocket
upgrade pipelined behind an answer that is not sent yet leaves that answer in
the output list. A lone CRLF in a segment of its own is answered 405. After a
refused upgrade the header is not reset. A client that half-closes before its
header was parsed gets no answer. An empty disk file over a plain socket ends
the connection, since `sendfile()` returns 0. An unreadable template is answered
with nothing. The Connection field of a partly received next request decides
whether the connection is kept for the previous one. OPTIONS with a bad
Content-Length leaves `header->error` set. `max_post_memory_total` = 0 (no
limit) is not modelled.

*Request text.* A trailing `&` makes a parameter with an empty name while an
empty cookie name is dropped; `+` in a path is decoded to a blank; an escape
that is not hexadecimal decodes to NUL and cuts the text; `stringfind()` does
not retry the byte that did not match as a beginning.

*Post streaming.* Form fields are buffered and never reported to the handler; a
mismatch in the preamble clears the hold without a rebase, which is harmless.

*Sessions.* `getWebsocketStoreGUID()` reads the store, which dangles after the
session has expired. `auth_only` files are refused to NOT_REGISTERED only, so a
SESSION_MISMATCH_ERROR is let through. `setUserRegistered()` on a plain
connection returns false although it registered. `removeSessionValue()` and the
calls by GUID do not look for reserved names; `getSessionValueByGUID()` creates
the variable.

*Template engine.* The character behind `{endif}` is passed over, so a tag that
directly follows is output as text. `find_tag_end_pos()` counts one start tag
between two end tags, so three directly nested loops match the wrong
`{endloop}`; when it finds none, `engine_loop_array()` works with negative
lengths. A loop, an integer index or a printing of the array inside its own loop
ends that loop (one iterator per list); setting the array there leaves the loop
variable dangling. `template_engine_start()` does not test
`MAX_ENGINE_RECURTION` (`engine.c:31`), so a page that includes itself deeply
writes past `engine_list`. `printHTMLChunk()` ignores `echo_off`; a missing loop
parameter is dereferenced; `enable_print_funcs` outlives its page; `{{` skips the
second brace; a set on a missing session variable writes the render variable
"tmp".

*Containers.* `ws_list_clear()` and `ws_list_destroy()` leave `last` and
`cur_iter`; `addWSVariableArrayIndex()` leaves an iterator active; registering a
name again leaks the old value.

*Files.* A body on its way is sent from the entry as it is in each write event
(`system_sockets.c:1203`): when another request finds the file changed and loads it
anew (`system_file_access_fs.c:86`), the rest comes from the new content, up to the
new length, behind a header with the old one. The model sends exactly that, and
`AnswersFresh` leaves those bodies out. If-Modified-Since is compared as text
without seconds (`utils.c:203`), so a client that names no tag is told "not
modified" of a file replaced within the minute. Without an SSL library
`generateEtag()` does not end if the file shrinks between stat and read; a file
that is both sent and rendered from disk may keep a stale tag; a recursive include of a file that is not in
RAM frees content in use.

*Select.* `register_socket()` never looks for an existing slot, so
`proxy_tunnel_update_events()` piles up slots and `delEventSocketAll2()` clears
the first only; readiness for writing that is left from a descriptor's previous
owner closes the new connection; `nfds` does not cover the signal pipe, so
`breakEvents()` before the first connection does not wake the loop.

## 8. Not modelled

The reserve descriptor with which `handleServer()` refuses connections when no
descriptor is left (`accept_reject_one()`); registrations and header rewriting
details of the proxy; header fields that only pages read; wording of headers and
pages; the file back ends for NFS; TLS libraries other than OpenSSL; custom
variable types; the allocator's statistics; tables of the extension API; digests
and base64, which are arithmetic on bytes that unit tests cover; Python
bindings, samples, fuzzers. Within modelled components: allocation failures
beyond those in section 5, the wrap of the 32-bit second clock, the exact
`last_io` counter (an order here).

## 9. Running

    tlc -config MCConnLimit.cfg MCConnLimit
    tlapm ConnLimitProofs.tla

and likewise for the other runs named in `PROJECT.json` and for the eight modules
whose names end in `Proofs`. No run takes more than three minutes on two cores;
a proof module takes from half a minute to a few minutes.
