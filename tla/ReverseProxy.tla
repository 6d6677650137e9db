---------------------------- MODULE ReverseProxy ----------------------------
(***************************************************************************)
(* One proxied request of reverse_proxy.c: the client's request is         *)
(* collected, rewritten and sent to the backend, the response is rewritten *)
(* and streamed back, or the two are joined to a tunnel.  The event loop   *)
(* is level triggered: a registered and ready descriptor is reported until *)
(* its handler does something about it.                                    *)
(*                                                                         *)
(* Data is a sequence of units.  Of a header only its last unit ("H") and  *)
(* its lines matter; the rewriting inserts a unit ("F", "C") before it.    *)
(* A body that is framed in chunks is spelled out, the scanner reads it.   *)
(***************************************************************************)
EXTENDS Sockets, FiniteSets

CONSTANTS
  Exchanges,    \* a request, the response the backend has for it, over TLS or not
  HeaderBuf,    \* units header_buffer holds (WEBSERVER_MAX_HEADER_LINE_LENGHT)
  MaxHeader,    \* PROXY_MAX_HEADER_SIZE
  BufferSize,   \* PROXY_BUFFER_SIZE
  BodyCap,      \* what the request buffer may grow to (512 MB in the code)
  ChunkSizeMax  \* PROXY_CHUNK_SIZE_MAX

ASSUME Sizes ==
  /\ {HeaderBuf, MaxHeader, BufferSize, BodyCap, ChunkSizeMax} \subseteq Nat \ {0}
  /\ HeaderBuf < BufferSize /\ MaxHeader < BufferSize /\ BufferSize < BodyCap

\* hdr is where the first header ends.
Message(m) ==
  /\ m.units \in Seq(STRING) /\ m.lines \in Seq({m.lines[i] : i \in DOMAIN m.lines})
  /\ m.hdr \in DOMAIN m.units /\ \A i \in 1..m.hdr : m.units[i] = "H" <=> i = m.hdr

VARIABLES
  proxy,     \* reverse_proxy_connection_t
  client,    \* the client's socket_info, its socket and its peer
  backend,   \* the same of the backend
  exchange,  \* the request and response being proxied
  batch      \* sockets epoll_wait() has reported and the loop has yet to dispatch

vars == <<proxy, client, backend, exchange, batch>>
W == [p |-> proxy, c |-> client, b |-> backend, x |-> exchange]
Become(w) == proxy' = w.p /\ client' = w.c /\ backend' = w.b /\ UNCHANGED exchange

-----------------------------------------------------------------------------
(* Header lines: a sequence of [name, value], the value a sequence of list  *)
(* elements.  Names are compared at the start of a line and without case.   *)

LinesOf(lines, name) == SelectSeq(lines, LAMBDA l : l.name = name)
Missing == -1
Invalid == -2

proxy_parse_content_length(lines) ==
  LET cls == LinesOf(lines, "Content-Length")
  IN  CASE cls = <<>> -> Missing
        [] cls # <<>> /\ (cls[1].value[1] \notin Nat \/ Len(cls) > 1) -> Invalid
        [] OTHER -> cls[1].value[1]

\* Only the last coding of the last line counts.
proxy_check_transfer_encoding(lines) ==
  LET tes == SelectSeq(LinesOf(lines, "Transfer-Encoding"), LAMBDA l : l.value # <<>>)
  IN  IF LinesOf(lines, "Transfer-Encoding") = <<>> THEN "none"
      ELSE IF tes # <<>> /\ tes[Len(tes)].value[Len(tes[Len(tes)].value)] = "chunked"
           THEN "chunked" ELSE "other"

proxy_get_upgrade_value(lines) ==
  LET ups == LinesOf(lines, "Upgrade")
  IN  IF ups = <<>> THEN "" ELSE ups[1].value[1]

proxy_header_has_connection_upgrade(lines) ==
  \E i \in DOMAIN lines : /\ lines[i].name = "Connection"
                          /\ \E j \in DOMAIN lines[i].value : lines[i].value[j] = "upgrade"

proxy_request_is_upgrade(lines) ==
  /\ proxy_header_has_connection_upgrade(lines)
  /\ LinesOf(lines, "Upgrade") # <<>>

\* The value is overwritten in place, which one shorter than " close" does not
\* allow ("x" stands for such a value); then a line has to be inserted.
proxy_force_connection_close(lines) ==
  LET cs == {i \in DOMAIN lines : lines[i].name = "Connection"}
      first == CHOOSE i \in cs : \A j \in cs : i <= j
  IN  IF cs = {} \/ lines[first].value = <<"x">> THEN 0 ELSE first

\* The lines after the rewriting, and what is inserted into the header.
WithClose(lines) ==
  LET i == proxy_force_connection_close(lines)
      close == [name |-> "Connection", value |-> <<"close">>]
  IN  IF i = 0 THEN Append(lines, close) ELSE [lines EXCEPT ![i] = close]

\* Position behind the header's end, 0 for the -1 of the code.
proxy_find_header_end(buf) ==
  LET ends == {i \in DOMAIN buf : buf[i] = "H"}
  IN  IF ends = {} THEN 0 ELSE CHOOSE i \in ends : \A j \in ends : i <= j

InsertBefore(buf, pos, unit) == SubSeq(buf, 1, pos - 1) \o <<unit>> \o SubSeq(buf, pos, Len(buf))

\* A client that announces a body has one to send, though it may stop anywhere.
ASSUME ExchangesAre ==
  \A x \in Exchanges :
    /\ Message(x.req) /\ Message(x.res) /\ x.tls \in BOOLEAN
    /\ x.req.hdr + proxy_parse_content_length(x.req.lines) <= Len(x.req.units)

-----------------------------------------------------------------------------
(* proxy_chunked_scan(), one unit at a time: it follows the framing of the  *)
(* body and says when the null chunk and its trailer are complete.          *)

Digits == [d \in {"0", "1", "2"} |-> CASE d = "0" -> 0 [] d = "1" -> 1 [] OTHER -> 2]

ScanUnit(k, u) ==
  LET Goto(st) == [k EXCEPT !.state = st]
      On(ch, st) == IF u = ch THEN Goto(st) ELSE Goto("ERROR")
      Line(st) == IF u = "cr" THEN Goto(st) ELSE IF u = "lf" THEN Goto("ERROR") ELSE k
  IN CASE k.state = "SIZE_START" ->
            IF u \in DOMAIN Digits THEN [state |-> "SIZE", size |-> Digits[u]] ELSE Goto("ERROR")
       [] k.state = "SIZE" ->
            IF u \in DOMAIN Digits
            THEN IF k.size > (ChunkSizeMax - Digits[u]) \div 16 THEN Goto("ERROR")
                 ELSE [k EXCEPT !.size = @ * 16 + Digits[u]]
            ELSE IF u = ";" THEN Goto("EXT") ELSE On("cr", "SIZE_LF")
       [] k.state = "EXT"      -> Line("SIZE_LF")
       [] k.state = "SIZE_LF"  -> On("lf", IF k.size = 0 THEN "TRAILER" ELSE "DATA")
       [] k.state = "DATA"     -> [state |-> IF k.size = 1 THEN "DATA_CR" ELSE "DATA",
                                   size |-> k.size - 1]
       [] k.state = "DATA_CR"  -> On("cr", "DATA_LF")
       [] k.state = "DATA_LF"  -> On("lf", "SIZE_START")
       [] k.state = "TRAILER"  -> IF u \in {"cr", "lf"} THEN Line("TRAILER_LF")
                                  ELSE Goto("TRAILER_LINE")
       [] k.state = "TRAILER_LF"      -> On("lf", "DONE")
       [] k.state = "TRAILER_LINE"    -> Line("TRAILER_LINE_LF")
       [] k.state = "TRAILER_LINE_LF" -> On("lf", "TRAILER")
       [] OTHER -> k

proxy_chunked_scan(k, units) ==
  LET after[i \in 0..Len(units)] == IF i = 0 THEN k ELSE ScanUnit(after[i - 1], units[i])
  IN  after[Len(units)]

-----------------------------------------------------------------------------
(* proxy_process_state(), from the last state backwards.  Each operator is  *)
(* the branch of one state; it ends in the branch of the next.              *)

proxy_shutdown_client(w) == [w EXCEPT !.c.shut = TRUE]

\* PROXY_STATE_DONE and _ERROR: the client is shut down and marked for closing,
\* the rest happens when its read event comes.
Finish(w, state) ==
  [proxy_shutdown_client(w) EXCEPT !.p.state = state, !.p.ended = state, !.c.close = TRUE, !.c.handle = FALSE,
                                   !.b.ev = "none", !.c.ev = "readonce"]
Done(w) == Finish(w, "DONE")

\* The page goes out as far as the socket takes it.
proxy_send_error_response(w, code) ==
  IF w.c.gone THEN w ELSE [w EXCEPT !.c = Send(@, <<code>>)]
Fail(w) ==
  Finish(IF w.p.headerSent THEN w ELSE proxy_send_error_response(w, "502"), "ERROR")
Reject(w, code) ==
  Fail([proxy_send_error_response(w, code) EXCEPT !.p.headerSent = TRUE])

\* Faulty: the backlog towards the backend waits for no write event.
UpdateReadEvents(w) ==
  [w EXCEPT !.c.ev = IF w.p.b2c # <<>> THEN "write" ELSE IF w.p.c2b = <<>> THEN "read" ELSE "none",
            !.b.ev = IF w.p.b2c = <<>> THEN "read" ELSE "none"]

proxy_tunnel_update_events(w) ==
  LET Ev(read, write) == IF read THEN (IF write THEN "readwrite" ELSE "read")
                         ELSE (IF write THEN "write" ELSE "none")
      toB == w.p.c2b # <<>>
      toC == w.p.b2c # <<>>
  IN  [w EXCEPT !.c.ev = Ev(~toB, toC), !.b.ev = Ev(~toC, toB)]

\* What is pending is sent as far as it goes; a peer that is gone ends it.
proxy_tunnel_flush_c2b(w) ==
  LET n == BytesSent(w.b, w.p.c2b)
  IN  [w EXCEPT !.b = Send(@, w.p.c2b), !.p.c2b = SubSeq(@, n + 1, Len(@))]
proxy_tunnel_flush_b2c(w) ==
  LET n == BytesSent(w.c, w.p.b2c)
  IN  [w EXCEPT !.c = Send(@, w.p.b2c), !.p.b2c = SubSeq(@, n + 1, Len(@))]

EnterTunnel(w) ==
  LET w1 == [w EXCEPT !.p.state = "TUNNEL", !.p.c2b = <<>>,
                      !.p.b2c = SubSeq(w.p.res, w.p.sendPos + 1, Len(w.p.res))]
  IN  IF w1.p.b2c # <<>> /\ w.c.gone THEN Fail(w1)
      ELSE proxy_tunnel_update_events(proxy_tunnel_flush_b2c(w1))

\* Faulty: the position in the buffer is lost while the client takes no more.
WaitWriteFromStart(w) ==
  [w EXCEPT !.p.state = "WAIT_WRITE", !.p.sendPos = 0, !.b.ev = "none", !.c.ev = "write"]

\* The client takes no more: reading from the backend pauses.
WaitWrite(w) ==
  [w EXCEPT !.p.state = "WAIT_WRITE", !.b.ev = "none", !.c.ev = "write"]

\* Faulty: the null chunk ends the body, its trailer is left behind.
CompleteBeforeTrailer(p) ==
  \/ p.mode = "length" /\ p.bodySent >= p.resLength
  \/ p.mode = "chunked" /\ p.chunk.state \in {"TRAILER", "DONE"}

BodyComplete(p) ==
  \/ p.mode = "length" /\ p.bodySent >= p.resLength
  \/ p.mode = "chunked" /\ p.chunk.state = "DONE"

EndIfComplete(w) == IF BodyComplete(w.p) THEN Done(w) ELSE w
StreamBody(w) ==
  LET rest == SubSeq(w.p.res, w.p.sendPos + 1, Len(w.p.res))
      n    == BytesSent(w.c, rest)
      w1   == [w EXCEPT !.c = Send(@, rest), !.p.sendPos = @ + n, !.p.bodySent = @ + n]
  IN  IF rest # <<>> /\ w.c.gone THEN Fail(w)
      ELSE IF n < Len(rest) THEN WaitWrite(w1)
      ELSE EndIfComplete([w1 EXCEPT !.p.res = <<>>, !.p.sendPos = 0])

\* w has sent n units of the rest of the header.
HeaderSent(w, n, rest) ==
  IF n < Len(rest) THEN WaitWrite(w)
  ELSE IF w.p.upgrade THEN EnterTunnel([w EXCEPT !.p.headerSent = TRUE])
  ELSE StreamBody([w EXCEPT !.p.headerSent = TRUE])

StreamFrom(w, rest) ==
  LET n == BytesSent(w.c, rest)
  IN  IF w.p.headerSent THEN StreamBody(w)
      ELSE IF rest # <<>> /\ w.c.gone THEN Fail(w)
      ELSE HeaderSent([w EXCEPT !.c = Send(@, rest), !.p.sendPos = @ + n], n, rest)

Streaming(w) == StreamFrom([w EXCEPT !.p.state = "STREAMING"], SubSeq(w.p.res, w.p.sendPos + 1, w.p.resEnd))

\* 101 only for a request that asked for it, and for the protocol asked for.
UpgradeAllowed(w) ==
  LET want == proxy_get_upgrade_value(w.x.req.lines)
  IN  /\ proxy_request_is_upgrade(w.x.req.lines)
      /\ want # "" /\ proxy_get_upgrade_value(w.x.res.lines) = want

proxy_inject_connection_close(w, end) ==
  IF proxy_force_connection_close(w.x.res.lines) # 0
  THEN [w EXCEPT !.p.resEnd = end]
  ELSE [w EXCEPT !.p.res = InsertBefore(@, end, "C"), !.p.resEnd = end + 1,
                 !.p.resSize = IF Len(w.p.res) + 1 > @ THEN Len(w.p.res) + 2 ELSE @]

BodyMode(w) ==
  IF w.x.res.status \in {204, 304} \/ proxy_parse_content_length(w.x.res.lines) >= 0 THEN "length"
  ELSE IF proxy_check_transfer_encoding(w.x.res.lines) = "chunked" THEN "chunked" ELSE "close"

\* The body that came with the header is scanned; one that is complete needs no
\* further reading.
BeginBody(w, body, length) ==
  [w EXCEPT !.p.mode = BodyMode(w), !.p.sendPos = 0,
            !.p.resLength = IF w.x.res.status \in {204, 304} \/ length < 0 THEN 0 ELSE length,
            !.p.chunk = IF BodyMode(w) = "chunked" THEN proxy_chunked_scan(@, body) ELSE @]
PauseIfWhole(w, body) ==
  IF w.p.mode = "length" /\ Len(body) >= w.p.resLength THEN [w EXCEPT !.b.ev = "none"] ELSE w

\* w is the header as it was received, w1 as it is rewritten.
HeaderRewritten(w, w1, length, outcome) ==
  LET body == SubSeq(w1.p.res, w1.p.resEnd + 1, Len(w1.p.res))
  IN  IF outcome = "nomem" /\ Len(w.p.res) < Len(w1.p.res) THEN Fail(w)
      ELSE IF \/ length = Invalid
              \/ length >= 0 /\ proxy_check_transfer_encoding(w.x.res.lines) # "none"
      THEN Fail(w1)
      ELSE Streaming(PauseIfWhole(BeginBody(w1, body, length), body))

RecvBackendHeader(w, outcome) ==
  LET end == proxy_find_header_end(w.p.res)
      w0  == [w EXCEPT !.p.resEnd = end]
  IN  IF end = 0 THEN w
      ELSE IF w.x.res.status = 101
      THEN IF UpgradeAllowed(w) THEN Streaming([w0 EXCEPT !.p.upgrade = TRUE]) ELSE Fail(w0)
      ELSE HeaderRewritten(w0, proxy_inject_connection_close(w, end),
                           proxy_parse_content_length(w.x.res.lines), outcome)

SendToBackend(w, outcome) ==
  LET rest == SubSeq(w.p.req, w.p.sendPos + 1, Len(w.p.req))
      n    == BytesSent(w.b, rest)
      w1   == [w EXCEPT !.p.state = "SEND", !.b = Send(@, rest), !.b.handle = TRUE,
                        !.p.sendPos = @ + n]
  IN  IF w.p.sendPos = 0 /\ outcome = "late" THEN Fail([w EXCEPT !.p.state = "SEND"])
      ELSE IF w.b.gone THEN Fail([w EXCEPT !.b.handle = TRUE])
      ELSE IF n < Len(rest) THEN [w1 EXCEPT !.b.ev = "write"]
      ELSE [w1 EXCEPT !.p.sendPos = 0, !.p.state = "RECV_RES_HEADER", !.b.ev = "read"]

proxy_inject_forwarded_headers(w) ==
  [w EXCEPT !.p.req = InsertBefore(@, w.p.reqEnd, "F"), !.p.reqEnd = @ + 1,
            !.p.reqLines = IF proxy_request_is_upgrade(@) THEN @ ELSE WithClose(@)]

proxy_connect_backend(w) == [w EXCEPT !.b.open = TRUE]

ConnectBackend(w, outcome) ==
  LET want == w.p.reqEnd + w.p.reqLength
      w1   == [w EXCEPT !.p.state = "CONNECT", !.c.ev = "peerclose",
                        !.p.req = IF proxy_request_is_upgrade(w.x.req.lines) THEN @
                                  ELSE SubSeq(@, 1, Least(Len(@), want))]
  IN  IF outcome = "fail" THEN Fail(w1)
      ELSE IF outcome = "nomem" THEN Fail(proxy_connect_backend(w1))
      ELSE SendToBackend(proxy_inject_forwarded_headers(proxy_connect_backend(w1)), outcome)

RecvClientBody(w, outcome) ==
  IF Len(w.p.req) - w.p.reqEnd >= w.p.reqLength THEN ConnectBackend(w, outcome)
  ELSE IF Len(w.p.req) >= w.p.reqSize THEN Reject(w, "413") ELSE w

RecvClientHeader(w, outcome) ==
  LET end    == proxy_find_header_end(w.p.req)
      length == proxy_parse_content_length(w.x.req.lines)
      te     == proxy_check_transfer_encoding(w.x.req.lines)
      needed == Least(end + length + 1, BodyCap)
      w1     == [w EXCEPT !.p.reqEnd = end, !.p.reqLength = IF length > 0 THEN length ELSE 0]
      w2     == [w1 EXCEPT !.p.reqSize = IF needed > @ THEN needed ELSE @]
  IN  IF end > MaxHeader \/ (end = 0 /\ Len(w.p.req) > MaxHeader) THEN Reject(w, "431")
      ELSE IF end = 0 THEN w
      ELSE IF (length >= 0 /\ te # "none") \/ te = "other" \/ length = Invalid
      THEN Reject([w EXCEPT !.p.reqEnd = end], "400")
      ELSE IF te = "chunked" THEN Reject([w EXCEPT !.p.reqEnd = end], "411")
      ELSE IF length <= 0 THEN ConnectBackend(w1, outcome)
      ELSE IF needed > w.p.reqSize /\ outcome = "nomem" THEN Fail(w1)
      ELSE IF Len(w.p.req) - end < length THEN [w2 EXCEPT !.p.state = "RECV_REQ_BODY"]
      ELSE ConnectBackend(w2, outcome)

proxy_process_state(w, outcome) ==
  CASE w.p.state = "RECV_REQ_HEADER" -> RecvClientHeader(w, outcome)
    [] w.p.state = "RECV_REQ_BODY"   -> RecvClientBody(w, outcome)
    [] w.p.state = "SEND"            -> SendToBackend(w, outcome)
    [] w.p.state = "RECV_RES_HEADER" -> RecvBackendHeader(w, outcome)
    [] w.p.state = "STREAMING"       -> Streaming(w)
    [] OTHER -> w

-----------------------------------------------------------------------------
(* The event handlers.                                                      *)

\* The buffer is full after this, or nothing is pending.
Append2Req(w, n) ==
  LET space == w.p.reqSize - Len(w.p.req)
  IN  IF space = 0 THEN w
      ELSE [w EXCEPT !.p.req = @ \o SubSeq(w.c.kin, 1, Taken(w.c, space)),
                     !.c = WebserverSSLPending(WebserverRecv(@, space, n))]

\* The tunnel's client side: first what is pending for it, then, while nothing
\* waits for the backend, reads as long as decrypted bytes are left.
TunnelRead(w, n) ==
  LET w1 == [w EXCEPT !.p.c2b = SubSeq(w.c.kin, 1, Taken(w.c, w.p.reqSize)),
                      !.c = WebserverRecv(@, w.p.reqSize, n)]
  IN  IF Disconnected(w.c) THEN Done(w)
      ELSE IF w1.p.c2b = <<>> THEN w1
      ELSE IF w.b.gone THEN Fail(w1)
      ELSE [proxy_tunnel_flush_c2b(w1) EXCEPT !.c = WebserverSSLPending(@)]

Rearm(w) == IF w.p.state # "TUNNEL" THEN w ELSE proxy_tunnel_update_events(w)

\* w is the tunnel behind the flush to the client.
ReadOn(v) == [w |-> v, more |-> v.p.state = "TUNNEL" /\ v.p.c2b = <<>> /\ v.c.pend > 0]
TunnelReads(w, n) ==
  LET Read(r) == IF r.more THEN ReadOn(TunnelRead(r.w, n)) ELSE r
      after[i \in 0..Len(w.c.kin) + 1] ==
        IF i = 0 THEN [w |-> w, more |-> w.p.c2b = <<>>] ELSE Read(after[i - 1])
  IN  after[Len(w.c.kin) + 1].w

TunnelClient(w, n) ==
  IF w.p.b2c # <<>> /\ w.c.gone THEN Done(w)
  ELSE Rearm(TunnelReads(proxy_tunnel_flush_b2c(w), n))

\* Faulty: an event while the request is sent is left to the default branch.
IgnoreWhileSending(w, n, outcome) ==
  CASE w.p.state \in {"RECV_REQ_HEADER", "RECV_REQ_BODY"} ->
         IF Len(w.p.req) < w.p.reqSize /\ Disconnected(w.c) THEN Fail(w)
         ELSE proxy_process_state(Append2Req(w, n), outcome)
    [] w.p.state = "WAIT_WRITE" ->
         Streaming([w EXCEPT !.c.ev = "peerclose", !.b.ev = "read"])
    [] w.p.state \in {"RECV_RES_HEADER", "STREAMING"} -> Done(w)
    [] w.p.state = "TUNNEL" -> TunnelClient(w, n)
    [] OTHER -> w

reverse_proxy_client_handler(w, n, outcome) ==
  CASE w.p.state \in {"RECV_REQ_HEADER", "RECV_REQ_BODY"} ->
         IF Len(w.p.req) < w.p.reqSize /\ Disconnected(w.c) THEN Fail(w)
         ELSE proxy_process_state(Append2Req(w, n), outcome)
    [] w.p.state = "WAIT_WRITE" ->
         Streaming([w EXCEPT !.c.ev = "peerclose", !.b.ev = "read"])
    [] w.p.state \in {"CONNECT", "SEND", "RECV_RES_HEADER", "STREAMING"} -> Done(w)
    [] w.p.state = "TUNNEL" -> TunnelClient(w, n)
    [] OTHER -> w

RecvHeader(w, outcome) ==
  LET k == Least(w.p.resSize - Len(w.p.res), Len(w.b.kin))
  IN  IF Len(w.p.res) >= w.p.resSize THEN Fail(w)
      ELSE IF k = 0 THEN (IF w.b.gone THEN Fail(w) ELSE w)
      ELSE RecvBackendHeader([w EXCEPT !.p.res = @ \o SubSeq(w.b.kin, 1, k),
                                       !.b.kin = SubSeq(@, k + 1, Len(@))], outcome)

RecvStream(w) ==
  LET k    == Least(w.p.resSize, Len(w.b.kin))
      data == SubSeq(w.b.kin, 1, k)
      w1   == [w EXCEPT !.p.res = <<>>, !.p.sendPos = 0]
  IN  IF Len(w.p.res) > w.p.sendPos THEN Streaming(w)
      ELSE IF w.p.mode = "length" /\ w.p.bodySent >= w.p.resLength THEN Done(w)
      ELSE IF k > 0
      THEN Streaming([w1 EXCEPT !.p.res = data, !.b.kin = SubSeq(@, k + 1, Len(@)),
                                !.p.chunk = IF w.p.mode = "chunked"
                                            THEN proxy_chunked_scan(@, data) ELSE @])
      ELSE IF ~w.b.gone THEN w1
      ELSE IF w.b.fin /\ (w.p.mode \in {"chunked", "close"} \/ w.p.bodySent >= w.p.resLength)
      THEN Done(w1) ELSE Fail(w1)

\* The tunnel's backend side; once the way to the backend is free again it
\* also takes what waits decrypted in the TLS layer of the client.
TunnelFlushed(w, w1, n) ==
  LET k  == Least(w.p.resSize, Len(w1.b.kin))
      w2 == [w1 EXCEPT !.p.b2c = SubSeq(w1.b.kin, 1, k), !.b.kin = SubSeq(@, k + 1, Len(@))]
  IN  IF w.p.c2b # <<>> /\ w1.p.c2b = <<>> /\ w1.c.pend > 0 THEN TunnelClient(w1, n)
      ELSE IF w1.p.b2c # <<>> THEN proxy_tunnel_update_events(w1)
      ELSE IF k = 0 THEN (IF w.b.gone THEN Done(w1) ELSE proxy_tunnel_update_events(w1))
      ELSE IF w.c.gone THEN Fail(w2)
      ELSE proxy_tunnel_update_events(proxy_tunnel_flush_b2c(w2))

TunnelBackend(w, n) ==
  IF w.p.c2b # <<>> /\ w.b.gone THEN Fail(w)
  ELSE TunnelFlushed(w, proxy_tunnel_flush_c2b(w), n)

reverse_proxy_backend_handler(w, n, outcome) ==
  CASE w.p.state = "SEND"            -> SendToBackend(w, outcome)
    [] w.p.state = "RECV_RES_HEADER" -> RecvHeader(w, outcome)
    [] w.p.state = "STREAMING"       -> RecvStream(w)
    [] w.p.state = "TUNNEL"          -> TunnelBackend(w, n)
    [] OTHER -> w

\* WebserverConnectionManagerCloseRequest() with reverse_proxy_cleanup().
proxy_cleanup_connection(w) ==
  [w EXCEPT !.p.state = "RELEASED", !.c.ev = "none", !.b.ev = "none", !.c.handle = FALSE,
            !.c.open = FALSE, !.b.open = FALSE]

\* The handler is called again as long as it reads and leaves something
\* decrypted behind.
Called(v, v1) ==
  LET read == Len(v1.c.kin) < Len(v.c.kin) /\ v1.c.handle
  IN  [w |-> IF v1.c.close THEN proxy_cleanup_connection(v1)
             ELSE IF read THEN [v1 EXCEPT !.c = WebserverSSLPending(@)] ELSE v1,
       more |-> read /\ ~v1.c.close /\ v1.c.pend > 0]

run_extern_handler(w, n, outcome) ==
  LET Call(r) == IF r.more THEN Called(r.w, reverse_proxy_client_handler(r.w, n, outcome)) ELSE r
      after[i \in 0..Len(w.c.kin) + 1] == IF i = 0 THEN [w |-> w, more |-> TRUE] ELSE Call(after[i - 1])
  IN  after[Len(w.c.kin) + 1].w

\* The connection is taken over with all that header_buffer holds.
proxy_create_connection(w, n) ==
  [w EXCEPT !.p.state = "RECV_REQ_HEADER", !.p.req = SubSeq(w.c.kin, 1, Taken(w.c, HeaderBuf)),
            !.c = [WebserverRecv(@, HeaderBuf, n) EXCEPT !.handle = TRUE]]

AwaitRequest(w) == IF w.p.state \in {"RECV_REQ_HEADER", "RECV_REQ_BODY"} THEN [w EXCEPT !.c.ev = "read"] ELSE w
HandlePending(w, n, outcome) == IF w.c.pend > 0 /\ w.c.handle THEN run_extern_handler(w, n, outcome) ELSE w

checkReverseProxy(w, n, outcome) ==
  LET Pending(v) == [v EXCEPT !.c = WebserverSSLPending(@)]
  IN  HandlePending(
        Pending(AwaitRequest(proxy_process_state(proxy_create_connection(w, n), outcome))), n, outcome)

\* handleer() for the client's descriptor.
DispatchClient(w, n, outcome) ==
  IF w.p.state = "RELEASED" THEN w
  ELSE IF w.c.handle THEN run_extern_handler(w, n, outcome)
  ELSE IF w.c.close \/ Disconnected(w.c) THEN proxy_cleanup_connection(w)
  ELSE checkReverseProxy([w EXCEPT !.c.ev = "none"], n, outcome)

DispatchBackend(w, n, outcome) ==
  IF w.p.state = "RELEASED" THEN w ELSE reverse_proxy_backend_handler(w, n, outcome)

-----------------------------------------------------------------------------
Init ==
  /\ exchange \in Exchanges
  /\ proxy = [state |-> "IDLE", ended |-> "", req |-> <<>>, reqEnd |-> 0, reqLength |-> 0,
              reqSize |-> BufferSize, reqLines |-> exchange.req.lines, sendPos |-> 0,
              res |-> <<>>, resEnd |-> 0, resLength |-> 0, resSize |-> BufferSize,
              mode |-> "none", bodySent |-> 0, upgrade |-> FALSE, headerSent |-> FALSE,
              chunk |-> [state |-> "SIZE_START", size |-> 0], c2b |-> <<>>, b2c |-> <<>>]
  /\ client = [Socket(exchange.req.units) EXCEPT !.ev = "readonce", !.open = TRUE,
                                                 !.tls = exchange.tls]
  /\ backend = Socket(exchange.res.units)
  /\ batch = {}

ClientSends ==
  /\ client.open /\ ~client.fin /\ ~client.gone
  /\ \E n \in Some(Len(client.todo)) :
       client' = [client EXCEPT !.kin = @ \o SubSeq(client.todo, 1, n),
                                !.todo = SubSeq(@, n + 1, Len(@))]
  /\ UNCHANGED <<proxy, backend, exchange, batch>>

ClientReads ==
  /\ client.open /\ ~client.gone /\ client.read < Len(client.got)
  /\ client' = [client EXCEPT !.read = Len(client.got)]
  /\ UNCHANGED <<proxy, backend, exchange, batch>>

\* The client shuts down its writing side, or it vanishes.
ClientLeaves ==
  /\ client.open /\ ~client.gone
  /\ \/ ~client.fin /\ client' = [client EXCEPT !.fin = TRUE]
     \/ client' = [client EXCEPT !.gone = TRUE]
  /\ UNCHANGED <<proxy, backend, exchange, batch>>

BackendReads ==
  /\ backend.open /\ ~backend.gone /\ backend.read < Len(backend.got)
  /\ backend' = [backend EXCEPT !.read = Len(backend.got)]
  /\ UNCHANGED <<proxy, client, exchange, batch>>

BackendAnswers ==
  /\ backend.open /\ ~backend.gone /\ backend.read > 0
  /\ \E n \in Some(Len(backend.todo)) :
       backend' = [backend EXCEPT !.kin = @ \o SubSeq(backend.todo, 1, n),
                                  !.todo = SubSeq(@, n + 1, Len(@))]
  /\ UNCHANGED <<proxy, client, exchange, batch>>

\* Data the backend leaves unread makes it a reset behind the last byte.
BackendCloses ==
  /\ backend.open /\ ~backend.gone
  /\ backend' = [backend EXCEPT !.gone = TRUE, !.fin = (backend.read = Len(backend.got))]
  /\ UNCHANGED <<proxy, client, exchange, batch>>

\* epoll_wait() reports what is ready now; a handler may change that before
\* the second socket of the batch has its turn.
EpollWait ==
  /\ batch = {}
  /\ batch' = {s \in {"client", "backend"} : IF s = "client" THEN Ready(client) ELSE Ready(backend)}
  /\ batch' # {}
  /\ UNCHANGED <<proxy, client, backend, exchange>>

Outcomes == {"ok", "fail", "late", "nomem"}
Records == IF client.tls THEN {0, 1, BufferSize} ELSE {0}

\* eventSocketFreed() takes the backend's event back when both are released.
HandleClient ==
  /\ "client" \in batch
  /\ \E n \in Records, o \in Outcomes :
       /\ \E w \in {DispatchClient(W, n, o)} : Become(w)
       /\ batch' = IF proxy'.state = "RELEASED" THEN {} ELSE batch \ {"client"}

HandleBackend ==
  /\ "backend" \in batch
  /\ \E n \in Records, o \in Outcomes :
       /\ \E w \in {DispatchBackend(W, n, o)} : Become(w)
  /\ batch' = batch \ {"backend"}

\* connTimeoutSweep(): a phase has lasted too long, the connection is closed.
\* The tunnel has no such deadline.
Expire ==
  /\ batch = {} /\ client.open /\ proxy.state # "TUNNEL"
  /\ Become(proxy_cleanup_connection(W))
  /\ UNCHANGED batch

Next ==
  \/ ClientSends \/ ClientReads \/ ClientLeaves
  \/ BackendReads \/ BackendAnswers \/ BackendCloses
  \/ EpollWait \/ HandleClient \/ HandleBackend \/ Expire

Spec == Init /\ [][Next]_vars

-----------------------------------------------------------------------------
IsUpgrade(x) == proxy_request_is_upgrade(x.req.lines)

\* What the backend is to get of exchange x: the rewritten header and the body,
\* and only in a tunnel what the client sends behind it.
Forwarded(x) ==
  LET length == proxy_parse_content_length(x.req.lines)
      n == IF IsUpgrade(x) THEN Len(x.req.units)
           ELSE x.req.hdr + (IF length > 0 THEN length ELSE 0)
  IN  InsertBefore(SubSeq(x.req.units, 1, n), x.req.hdr, "F")

\* What the client is to get of the first n units of the response.
Rewritten(x, n) ==
  LET units == SubSeq(x.res.units, 1, n)
  IN  IF x.res.status = 101 \/ proxy_force_connection_close(x.res.lines) # 0 \/ n < x.res.hdr
      THEN units ELSE InsertBefore(units, x.res.hdr, "C")

ErrorPages == {<<"400">>, <<"411">>, <<"413">>, <<"431">>, <<"502">>}

\* Whatever the cuts, stalls and rewriting, each side gets the other's bytes
\* once and in order: the backend exactly one request, with Connection: close
\* unless it is an upgrade, the client one response or one error page.
ForwardedOnce ==
  /\ IsPrefixOf(backend.got, Forwarded(exchange))
  /\ \/ IsPrefixOf(client.got, Rewritten(exchange, Len(exchange.res.units)))
     \/ client.got \in ErrorPages
  /\ backend.got # <<>> /\ ~IsUpgrade(exchange) =>
       \E i \in DOMAIN proxy.reqLines : proxy.reqLines[i] = [name |-> "Connection", value |-> <<"close">>]

\* A response is ended early only for a client that is gone: one that is still
\* there has got the whole message, or, when the backend closed without having
\* announced a length, all that the backend had sent.
NeverCutShort ==
  /\ proxy.ended = "DONE" /\ ~client.fin /\ ~client.gone
  /\ client.tls => exchange.req.extra = 0   \* see DoneOnlyIfGone
  =>
  \/ exchange.res.complete /\ Len(client.got) >= Len(Rewritten(exchange, exchange.res.len))
  \/ backend.gone /\ client.got = Rewritten(exchange, Len(exchange.res.units) - Len(backend.todo))

\* A descriptor that is registered and ready is one its handler does something
\* about: otherwise a level triggered loop reports it forever.
NoSpin ==
  \A n \in Records, o \in Outcomes :
    /\ Ready(client) => DispatchClient(W, n, o) # W
    /\ Ready(backend) => DispatchBackend(W, n, o) # W

\* The loop has nothing to dispatch and the peers nothing to read.
Quiet ==
  /\ batch = {} /\ ~Ready(client) /\ ~Ready(backend)
  /\ ~ENABLED ClientReads /\ ~ENABLED BackendReads

\* When everything has come to rest and either side has closed, or the response
\* is complete, the connection has been released, and a tunnel holds nothing
\* back: no order of closing, half closing and stalling leaves the proxy
\* waiting for an event that cannot come.
NoneForgotten ==
  Quiet =>
  /\ proxy.state = "TUNNEL" =>
       client.kin \o backend.kin \o proxy.c2b \o proxy.b2c = <<>>
  /\ \/ client.fin \/ client.gone \/ backend.gone \/ client.close
     \/ backend.todo = <<>> /\ exchange.res.complete /\ proxy.mode \in {"length", "chunked"}
     => proxy.state = "RELEASED"

\* reverse_proxy.c:921: an event in these states "can therefore only mean the
\* client is gone".
DoneOnlyIfGone ==
  proxy.ended = "DONE" /\ client.got = <<>> => client.fin \/ client.gone

=============================================================================
