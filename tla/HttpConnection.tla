--------------------------- MODULE HttpConnection ---------------------------
(***************************************************************************)
(* One client connection of the server from its first byte to its end:     *)
(* handleer() of system_sockets.c with the header parser, the receiving of *)
(* bodies, the dispatch of requests and the writing of the responses.      *)
(*                                                                         *)
(* A request is a sequence of units <<r, u>>: pieces of a line ("part"),   *)
(* the end of the request line, one unit for each field, the empty line    *)
(* ("end") and the body.  The client sends several of them in a row and    *)
(* the network cuts them anywhere.  What is written is units as well, so   *)
(* that an answer that is missing, doubled or mixed up with another shows. *)
(***************************************************************************)
EXTENDS Sockets

CONSTANTS
  Streams,     \* what a client sends: [reqs, tls]
  HeaderBuf,   \* WEBSERVER_MAX_HEADER_LINE_LENGHT
  MaxHeader,   \* WEBSERVER_MAX_HEADER_SIZE
  MaxPost,     \* max_post_size
  PostBudget,  \* max_post_memory_total
  PostYield,   \* bytes of a body read before other sockets get their turn
  StreamBuf,   \* POST_STREAM_READ_CHUNK_SIZE
  RecordMax    \* largest TLS record

\* What is left of a record when a body's reading yields is never announced
\* again by epoll; the code relies on a record being smaller than PostYield.
ASSUME HttpSizes ==
  /\ {HeaderBuf, MaxHeader, MaxPost, PostBudget, StreamBuf} \subseteq Nat \ {0}
  /\ RecordMax \in Nat /\ PostYield \in Nat /\ RecordMax <= PostYield

VARIABLES
  sock,       \* the socket, its registration and the client at its other end
  conn,       \* the rest of socket_info
  allocated,  \* post_buffer_allocated
  others,     \* the part of it that other connections have reserved
  traffic     \* what this client sends

httpVars == <<sock, conn, allocated, others, traffic>>
W == [s |-> sock, k |-> conn, a |-> allocated, q |-> traffic.reqs]
Become(w) == sock' = w.s /\ conn' = w.k /\ allocated' = w.a /\ UNCHANGED <<others, traffic>>
R(w, ret) == [w |-> w, ret |-> ret]

NoHeader ==
  [req |-> 0, method |-> "", v11 |-> FALSE, conn |-> "", length |-> 0, pos |-> 0, complete |-> FALSE,
   parsed |-> 0, error |-> FALSE, ws |-> "none", isws |-> 0, buffer |-> FALSE, reserved |-> 0]

-----------------------------------------------------------------------------
(* Answers.  head and body are header_chunk_list and html_chunk_list.       *)

HeadLine(w, u) == [w EXCEPT !.k.head = Append(@, u)]
printHTMLChunk(w, units) == [w EXCEPT !.k.body = @ \o units]

\* What the connection's future is said to be.
addConnectionStatusLines(w) ==
  HeadLine(w, <<0, IF w.k.close THEN "close"
                   ELSE IF w.k.hdr.conn # "" THEN w.k.hdr.conn
                   ELSE IF w.k.hdr.v11 THEN "keep-alive" ELSE "close">>)

Status(w, r, code) == addConnectionStatusLines(HeadLine(w, <<r, code>>))
EndHead(w) == HeadLine(w, <<0, "eoh">>)

\* The header of a page that is compressed ends in generateOutputBuffer().
sendHeader(w) ==
  IF w.k.comp THEN Status(w, w.k.hdr.req, "200") ELSE EndHead(Status(w, w.k.hdr.req, "200"))
sendHeaderNotModified(w) == EndHead(Status(w, w.k.hdr.req, "304"))
sendHeaderNotFound(w) == EndHead(Status(w, w.k.hdr.req, "404"))
sendPreflightAllowed(w) == EndHead(HeadLine(w, <<w.k.hdr.req, "204">>))

\* Faulty: the flag is left as the request before this one has set it.
KeepsCompression(w, code) ==
  EndHead(Status(w, 0, code))

sendHeaderError(w, code) == EndHead(Status([w EXCEPT !.k.comp = FALSE], 0, code))

\* 403 and 404 are answers like others, the rest ends the connection.
sendFileNotFound(w) == sendHeaderNotFound(printHTMLChunk(w, <<<<w.k.hdr.req, "text">>>>))
sendAccessDenied(w) == sendHeaderError(printHTMLChunk(w, <<<<0, "page">>>>), "403")
sendHttpErrorPage(w, code) ==
  sendHeaderError(printHTMLChunk([w EXCEPT !.k.errors = @ + 1, !.k.close = TRUE], <<<<0, "page">>>>), code)

releaseChunks(w, list) == [w EXCEPT !.k[list] = <<>>]
writeChunksToBuffer(w, list) == w.k[list]

\* The page compressed, chunk by chunk; it may not work, the chunks are left alone.
deflateChunks(w) ==
  [done |-> w.k.hdr.req = 0 \/ w.q[w.k.hdr.req].deflates,
   page |-> [i \in DOMAIN w.k.body |-> <<w.k.body[i][1], "packed">>]]

\* The chunk lists become an entry of output_list.
generateOutputBuffer(w, file) ==
  LET packed == deflateChunks(w)
      headed == EndHead(IF packed.done THEN HeadLine(w, <<0, "enc">>) ELSE w)
      data == IF file \in {"none", "empty"} THEN <<>> ELSE Repeat(<<w.k.hdr.req, "data">>, 2)
      output ==
        IF w.k.comp /\ file = "none"
        THEN [header |-> writeChunksToBuffer(headed, "head"),
              body |-> IF packed.done THEN packed.page ELSE writeChunksToBuffer(w, "body")]
        ELSE [header |-> <<>>, body |-> writeChunksToBuffer(w, "head") \o writeChunksToBuffer(w, "body")]
  IN  [releaseChunks(releaseChunks(w, "head"), "body") EXCEPT
         !.k.out = Append(@, [header |-> output.header, body |-> output.body, data |-> data, file |-> file])]

finish_error_response(w) ==
  [generateOutputBuffer(w, "none") EXCEPT !.k.buf = <<>>, !.k.close = TRUE]
ErrorPage(w, code) == R(finish_error_response(sendHttpErrorPage(w, code)), "answered")

-----------------------------------------------------------------------------
(* Bodies.                                                                  *)

postBufferReserve(w, size) == w.a + size <= PostBudget
postBufferRelease(w) ==
  [w EXCEPT !.a = IF @ >= w.k.hdr.reserved THEN @ - w.k.hdr.reserved ELSE 0, !.k.hdr.reserved = 0]

\* The body's next units; what lies behind it is the start of the next header.
TakeBody(w, data) ==
  LET use == Least(Len(data), w.k.hdr.length - w.k.hdr.pos)
      w1  == [w EXCEPT !.k.hdr.pos = @ + use, !.k.buf = SubSeq(data, use + 1, Len(data))]
  IN  R(w1, IF w1.k.hdr.pos = w1.k.hdr.length THEN "complete" ELSE "more")

\* The multipart parser (PostStream) refuses a body that is not one.
recv_post_payload_streaming(w, data) ==
  IF w.q[w.k.hdr.req].malformed
  THEN R([w EXCEPT !.k.hdr.error = TRUE, !.k.buf = <<>>, !.k.close = TRUE], "complete")
  ELSE TakeBody(w, data)

recv_post_payload(w, data) ==
  LET size == w.k.hdr.length + 1
  IN  IF w.k.streaming THEN recv_post_payload_streaming(w, data)
      ELSE IF w.k.hdr.buffer THEN TakeBody(w, data)
      ELSE IF ~postBufferReserve(w, size) THEN ErrorPage(w, "503")
      ELSE TakeBody([w EXCEPT !.a = @ + size, !.k.hdr.reserved = size, !.k.hdr.buffer = TRUE], data)

\* A stream's handler may have a limit of its own (0: none).
PostLimit(q) == IF q.content = "stream" /\ q.limit > 0 THEN q.limit ELSE MaxPost

\* 0, or the status that refuses the body before a byte of it is read.
check_post_header(w) ==
  LET q == w.q[w.k.hdr.req]
  IN  CASE q.content = "noboundary" -> R(w, "400")
        [] q.content # "noboundary" /\ w.k.hdr.length > PostLimit(q) -> R(w, "413")
        [] q.content = "stream" /\ w.k.hdr.length <= PostLimit(q) ->
             IF q.nosetup THEN R(w, "500") ELSE R([w EXCEPT !.k.streaming = TRUE], "0")
        [] OTHER -> R(w, "0")

\* The end of a header or a body.
Completed(w) == R([w EXCEPT !.k.hdr.complete = FALSE], "complete")

\* The loop goes on until the body ends or other sockets wait for too long.
RECURSIVE handlePostStreamData(_, _, _)
StreamFed(p, n, done) ==
  CASE p.ret = "answered" -> p
    [] p.ret = "complete" -> Completed(p.w)
    [] OTHER -> IF done > PostYield THEN R(p.w, "wait") ELSE handlePostStreamData(p.w, n, done)

handlePostStreamData(w, n, done) ==
  LET space == Least(StreamBuf, w.k.hdr.length - w.k.hdr.pos)
      k     == Taken(w.s, space)
      w1    == [w EXCEPT !.s = WebserverRecv(@, space, n)]
  IN  IF space = 0 THEN R(w, "wait")
      ELSE IF Disconnected(w.s) THEN R([w1 EXCEPT !.k.close = TRUE], "failed")
      ELSE IF k = 0 THEN R(w1, "wait")
      ELSE StreamFed(recv_post_payload(w1, SubSeq(w.s.kin, 1, k)), n, done + k)

-----------------------------------------------------------------------------
(* The header.                                                              *)

\* A request line with an unknown method or a refused url is answered with 405.
\* A line that comes while the method is known is a field.
matchHeaderFields(w, u) ==
  LET q == w.q[u[1]]
  IN  CASE u[2] = "connection" -> [w EXCEPT !.k.hdr.conn = q.conn]
        [] u[2] = "length"     -> [w EXCEPT !.k.hdr.length = IF q.badlength THEN 0 ELSE q.length,
                                            !.k.hdr.error = @ \/ q.badlength]
        [] u[2] = "key"        -> [w EXCEPT !.k.hdr.ws = q.ws]
        [] OTHER -> w
analyseHeaderLine(w, u) ==
  LET q  == w.q[u[1]]
      w1 == [w EXCEPT !.k.hdr.v11 = @ \/ q.v11, !.k.hdr.method = q.method, !.k.hdr.req = u[1]]
  IN  IF w.k.hdr.method # "" THEN R(matchHeaderFields(w, u), "line")
      ELSE IF u[2] # "line" \/ q.method = "bad" THEN R([w EXCEPT !.k.hdr.error = TRUE], "refused")
      ELSE R(w1, "line")

\* A proxied request behind a response that has yet to be written is dropped.
checkReverseProxy(w, u) ==
  IF w.k.checked \/ ~w.q[u[1]].proxied THEN R([w EXCEPT !.k.checked = TRUE], "own")
  ELSE IF w.k.out # <<>> THEN R([w EXCEPT !.k.buf = <<>>, !.k.close = TRUE, !.s.ev = "write"], "taken")
  ELSE R([w EXCEPT !.k.mode = "proxy"], "taken")

DropUnits(w, n) == [w EXCEPT !.k.buf = SubSeq(@, n + 1, Len(@)), !.k.hdr.parsed = @ + n]

\* A line of n units.
ParseLine(w, n) ==
  LET Analysed(y) == IF y.ret = "refused" THEN y ELSE R(DropUnits(y.w, n), "line")
      Checked(x) ==
        IF x.ret = "taken" THEN x
        ELSE IF w.k.hdr.parsed + n > MaxHeader THEN R(x.w, "toolarge")
        ELSE Analysed(analyseHeaderLine(x.w, w.k.buf[n]))
  IN  Checked(checkReverseProxy(w, w.k.buf[n]))

ParseHeader(w) ==
  LET buf  == w.k.buf
      ends == {i \in DOMAIN buf : buf[i][2] \notin {"part", "body"}}
      e    == CHOOSE i \in ends : \A j \in ends : i <= j
  IN  IF buf # <<>> /\ buf[1][2] = "end"
      THEN IF w.k.hdr.parsed = 0 /\ Len(buf) > 1
           THEN R([w EXCEPT !.k.buf = Tail(@)], "endmore")
           ELSE R([DropUnits(w, 1) EXCEPT !.k.hdr.complete = TRUE], IF Len(buf) > 1 THEN "endmore" ELSE "end")
      ELSE IF ends = {} \/ e >= HeaderBuf
      THEN R(w, IF Len(buf) >= HeaderBuf THEN "toolong" ELSE "wait")
      ELSE ParseLine(w, e)

\* An upgrade that is refused is answered here.
checkIskWebsocketConnection(w) ==
  LET Refuse(code) == EndHead(HeadLine([w EXCEPT !.k.hdr.isws = 2], <<0, code>>))
  IN  CASE w.k.hdr.ws = "none" \/ w.k.hdr.conn # "upgrade" -> [w EXCEPT !.k.hdr.isws = 0]
        [] w.k.hdr.ws = "old" /\ w.k.hdr.conn = "upgrade" -> Refuse("426")
        [] w.k.hdr.ws = "badkey" /\ w.k.hdr.conn = "upgrade" -> Refuse("400")
        [] OTHER -> [w EXCEPT !.k.hdr.isws = 1]

RECURSIVE ReadHeader(_, _, _)
\* What came behind the header was given to the body.
BodyBegun(p, n) ==
  CASE p.ret = "answered" -> p
    [] p.ret = "complete" -> Completed(p.w)
    [] OTHER -> ReadHeader(p.w, n, 0)

\* c is the verdict of check_post_header().
BeginPost(w, c, n, more) ==
  IF c.ret # "0" THEN ErrorPage([w EXCEPT !.k.hdr.error = TRUE], c.ret)
  ELSE IF w.k.hdr.length = 0 THEN Completed(c.w)
  ELSE IF ~more THEN R(c.w, "wait")
  ELSE BodyBegun(recv_post_payload(c.w, c.w.k.buf), n)

HeaderEnd(w, n, more) ==
  IF w.k.hdr.isws # 0 \/ w.k.hdr.method # "POST" THEN Completed(w)
  ELSE BeginPost(w, check_post_header(w), n, more)

\* p is what ParseHeader() made of w.
LineParsed(w, p, n, done) ==
  CASE p.ret = "line"     -> ReadHeader(p.w, n, done)
    [] p.ret = "wait"     -> IF Len(w.k.buf) = HeaderBuf THEN ErrorPage(w, "500") ELSE R(p.w, "wait")
    [] p.ret = "taken"    -> R(p.w, "taken")
    [] p.ret \in {"toolong", "refused", "toolarge"} ->
         ErrorPage(p.w, CASE p.ret = "toolong" -> "400" [] p.ret = "refused" -> "405" [] p.ret = "toolarge" -> "431")
    [] OTHER -> HeaderEnd(checkIskWebsocketConnection(p.w), n, p.ret = "endmore")

ParseLines(w, n, done) ==
  LineParsed(w, IF w.k.hdr.complete THEN R(w, "wait") ELSE ParseHeader(w), n, done)

\* A piece of the body was taken, or there was none to take.
BodyFed(p, n, done) ==
  CASE p.ret = "answered" -> p
    [] p.ret = "complete" -> Completed(p.w)
    [] OTHER -> IF done > PostYield THEN R(p.w, "wait") ELSE ReadHeader(p.w, n, done)

\* The loop of handleClientHeaderData(): read, then parse a line.  The body of
\* a POST takes the same way past the parser.
ReadHeader(w, n, done) ==
  LET space == HeaderBuf - Len(w.k.buf)
      k     == Taken(w.s, space)
      data  == SubSeq(w.s.kin, 1, k)
      w1    == [w EXCEPT !.s = WebserverRecv(@, space, n)]
  IN  IF space > 0 /\ Disconnected(w.s) THEN R([w1 EXCEPT !.k.close = TRUE], "failed")
      ELSE IF space > 0 /\ k = 0 /\ (w.k.buf = <<>> \/ (w.k.hdr.method = "POST" /\ w.k.hdr.complete))
      THEN R(w1, "wait")
      ELSE IF space > 0 /\ w.k.hdr.method = "POST" /\ w.k.hdr.complete
      THEN BodyFed(IF w.k.hdr.length > w.k.hdr.pos THEN recv_post_payload(w1, data) ELSE R(w1, "more"),
                   n, done + k)
      ELSE ParseLines(IF space = 0 THEN w ELSE [w1 EXCEPT !.k.buf = @ \o data], n, done)

handleClientHeaderData(w, n) ==
  IF w.k.streaming /\ w.k.hdr.complete THEN handlePostStreamData(w, n, 0) ELSE ReadHeader(w, n, 0)

-----------------------------------------------------------------------------
(* The request.                                                             *)

Page(w, n) == sendHeader(printHTMLChunk(w, Repeat(<<w.k.hdr.req, "text">>, n)))

BodyReleased(w) == [postBufferRelease(w) EXCEPT !.k.hdr.buffer = FALSE, !.k.hdr.length = 0, !.k.hdr.pos = 0]

\* Only a body in parts is taken apart, and released, before the page is made.
parsePostData(w) ==
  IF ~w.k.streaming /\ w.k.hdr.buffer /\ w.q[w.k.hdr.req].content = "parts" THEN BodyReleased(w) ELSE w

\* A large page is compressed for a client that takes it; a template that
\* cannot be read leaves the request without an answer.
sendHTMLFile(w) ==
  LET q == w.q[w.k.hdr.req]
  IN  CASE q.target = "unreadable" -> w
        [] q.target = "big"  -> Page([w EXCEPT !.k.comp = q.deflate], 2)
        [] q.target = "page" -> Page(w, 1)

check_url_functions(w) == Page(w, 1)

Files == {"ram", "disk", "empty"}
sendFile(w) ==
  IF w.q[w.k.hdr.req].target = "notmodified" THEN sendHeaderNotModified(w) ELSE sendHeader(w)

endHTTPRequest(w) == [w EXCEPT !.k.streaming = FALSE]

\* The target of the request, once its body was taken apart.
sendTarget(w) ==
  LET t == w.q[w.k.hdr.req].target
  IN  CASE t = "function" -> check_url_functions(w)
        [] t = "missing" -> sendFileNotFound(w)
        [] t = "denied" -> sendAccessDenied(w)
        [] t \in Files \cup {"notmodified"} -> sendFile(w)
        [] OTHER -> sendHTMLFile(w)

getHttpRequest(w) ==
  endHTTPRequest(IF w.k.hdr.method = "OPTIONS" THEN sendPreflightAllowed(w)
                 ELSE IF w.k.hdr.error THEN sendHttpErrorPage(w, "400")
                 ELSE sendTarget(parsePostData(w)))

handleWebRequest(w) ==
  IF w.k.errors > 5 THEN R(w, "failed")
  ELSE IF w.k.hdr.parsed = 0 THEN R(w, "ok")
  ELSE IF w.k.hdr.method = "" THEN R(sendHttpErrorPage(w, "405"), "ok")
  ELSE R(getHttpRequest(w), "ok")

\* Faulty: the reservation is forgotten with the request.
ResetWithoutRelease(w) ==
  [w EXCEPT !.k.hdr = [NoHeader EXCEPT !.v11 = w.k.hdr.v11, !.error = w.k.hdr.error,
                                 !.isws = w.k.hdr.isws]]

WebserverResetHttpRequestHeader(w) ==
  [postBufferRelease(w) EXCEPT !.k.hdr = [NoHeader EXCEPT !.v11 = w.k.hdr.v11, !.error = w.k.hdr.error,
                                 !.isws = w.k.hdr.isws]]

SentFile(w) ==
  IF w.k.hdr.method \in {"GET", "POST"} /\ ~w.k.hdr.error /\ w.q[w.k.hdr.req].target \in Files
  THEN w.q[w.k.hdr.req].target ELSE "none"

\* g is what handleWebRequest() made of the complete request w.
RequestHandled(w, g) ==
  IF g.ret = "failed" THEN g
  ELSE R([WebserverResetHttpRequestHeader(
            IF w.k.hdr.parsed # 0 THEN generateOutputBuffer(g.w, SentFile(w)) ELSE g.w) EXCEPT
          !.k.checked = FALSE], "answered")

HeaderRead(h) ==
  IF h.ret # "complete" THEN h
  ELSE CASE h.w.k.hdr.isws = 1 -> R([h.w EXCEPT !.k.mode = "websocket", !.s.ev = "none"], "taken")
         [] h.w.k.hdr.isws = 2 -> R([generateOutputBuffer(h.w, "none") EXCEPT !.s.ev = "write"], "taken")
         [] h.w.k.hdr.isws = 0 -> RequestHandled(h.w, handleWebRequest([h.w EXCEPT !.k.comp = FALSE]))

handleClient(w, n) == HeaderRead(handleClientHeaderData(w, n))

-----------------------------------------------------------------------------
(* The events of the socket.                                                *)

WebserverConnectionManagerCloseRequest(w) ==
  [postBufferRelease(w) EXCEPT !.k.mode = "closed", !.k.out = <<>>, !.s.open = FALSE, !.s.ev = "none"]

\* A buffer of the first entry of output_list, as far as the socket takes it.
sendData(w, part) ==
  LET units == Head(w.k.out)[part]
      left == SubSeq(units, BytesSent(w.s, units) + 1, Len(units))
  IN  IF units # <<>> /\ w.s.gone THEN R(w, "disconnected")
      ELSE R([w EXCEPT !.s = Send(@, units), !.k.out[1][part] = left],
             IF left = <<>> THEN "sent" ELSE "pending")

handleClientWriteDataSendRamFile(w) == sendData(w, "data")
handleClientWriteDataNotCachedReadWrite(w) == sendData(w, "data")
\* sendfile() has nothing to send of an empty file, which is taken for an error.
handleClientWriteDataSendFileSystem_sendfile(w) ==
  IF Head(w.k.out).data = <<>> THEN R(w, "disconnected") ELSE sendData(w, "data")
handleClientWriteDataNotCached(w) ==
  IF w.s.tls THEN handleClientWriteDataNotCachedReadWrite(w)
  ELSE handleClientWriteDataSendFileSystem_sendfile(w)

SendFileOf(b) ==
  IF b.ret # "sent" \/ Head(b.w.k.out).file = "none" THEN b
  ELSE IF Head(b.w.k.out).file = "ram" THEN handleClientWriteDataSendRamFile(b.w)
  ELSE handleClientWriteDataNotCached(b.w)

handleClientWriteDataSendOutputBuffer(w) ==
  LET Body(h) == IF h.ret = "sent" THEN sendData(h.w, "body") ELSE h
  IN  SendFileOf(Body(sendData(w, "header")))

RECURSIVE handleClientWriteData(_)
handleClientWriteData(w) ==
  LET Written(o) ==
        IF o.ret # "sent" THEN o ELSE handleClientWriteData([o.w EXCEPT !.k.out = Tail(@)])
  IN  IF w.k.out = <<>> THEN R(w, "sent") ELSE Written(handleClientWriteDataSendOutputBuffer(w))

checkConnectionKeepAlive(w) ==
  IF w.k.hdr.conn # "" THEN w.k.hdr.conn = "keep-alive" ELSE w.k.hdr.v11
NothingToSend(w) == w.k.close /\ w.k.out = <<>>

\* Faulty: only the first request is answered before the next read.
OneAtATime(w, n) == R(w, "done")

\* Requests that came together are answered one after the other.
RECURSIVE Pipelined(_, _)
Answered(h, n) ==
  CASE h.ret \in {"failed", "taken"} -> h
    [] h.ret = "wait" -> R(h.w, "done")
    [] OTHER -> Pipelined(h.w, n)

Pipelined(w, n) ==
  LET v == IF w.k.buf # <<>> THEN w ELSE [w EXCEPT !.s = WebserverSSLPending(@)]
  IN  IF w.k.close THEN R(w, "done")
      ELSE IF w.k.buf = <<>> /\ v.s.pend = 0 THEN R(v, "done")
      ELSE Answered(handleClient(v, n), n)

AfterRequests(w) ==
  IF NothingToSend(w) THEN WebserverConnectionManagerCloseRequest(w)
  ELSE IF w.k.out # <<>> THEN [w EXCEPT !.s.ev = "write"] ELSE [w EXCEPT !.s.ev = "readonce"]

EndOfRead(p) ==
  CASE p.ret = "failed" -> WebserverConnectionManagerCloseRequest(p.w)
    [] p.ret = "taken"  -> p.w
    [] OTHER -> AfterRequests(p.w)

FirstRead(h, v, n) ==
  CASE h.ret = "failed" -> WebserverConnectionManagerCloseRequest(h.w)
    [] h.ret = "taken"  -> h.w
    [] h.ret = "wait" /\ v.s.pend = 0 -> [v EXCEPT !.s.ev = "readonce"]
    [] OTHER -> EndOfRead(Pipelined(v, n))

ReadEvent(w, n) ==
  LET Read(h) == FirstRead(h, [h.w EXCEPT !.s = WebserverSSLPending(@)], n)
  IN  Read(handleClient([w EXCEPT !.s.ev = "none"], n))

EndOfWrite(d) ==
  CASE d.ret = "pending" -> d.w
    [] d.ret = "disconnected" -> WebserverConnectionManagerCloseRequest(d.w)
    [] d.ret = "sent" ->
         IF (checkConnectionKeepAlive(d.w) /\ ~d.w.k.close)
            \/ (~checkConnectionKeepAlive(d.w) /\ d.w.k.hdr.isws = 2)
         THEN [d.w EXCEPT !.s.ev = "readonce"]
         ELSE WebserverConnectionManagerCloseRequest(d.w)

WriteEvent(w) == EndOfWrite(handleClientWriteData(w))

\* Before the handshake: is there anything to work on?
tls_first_read(w) ==
  IF w.s.kin # <<>> THEN "data" ELSE IF w.s.fin \/ w.s.gone THEN "closed" ELSE "nothing"

\* The handshake takes its own bytes past WebserverRecv(); the library may fail it at any of them.
WebserverSSLAccept(w, outcome) ==
  CASE outcome = "error" -> "protocol_error"
    [] outcome # "error" /\ w.s.kin = <<>> -> IF w.s.fin \/ w.s.gone THEN "protocol_error" ELSE "more"
    [] OTHER -> IF w.s.kin[1] = <<0, "hello">> THEN "more" ELSE "ok"

TlsAccept(w, outcome) ==
  LET first == IF w.k.hello THEN "data" ELSE tls_first_read(w)
      w1 == [w EXCEPT !.s.kin = IF @ = <<>> THEN @ ELSE Tail(@), !.s.ev = "readonce", !.k.hello = TRUE]
  IN  CASE first = "closed"  -> R(WebserverConnectionManagerCloseRequest(w), "closed")
        [] first = "nothing" -> R([w EXCEPT !.s.ev = "readonce"], "wait")
        [] first = "data"    ->
             LET ret == WebserverSSLAccept(w, outcome)
             IN  CASE ret = "protocol_error" -> R(WebserverConnectionManagerCloseRequest(w), "closed")
                   [] ret = "more" -> R(w1, "wait")
                   [] ret = "ok"   -> R([w1 EXCEPT !.k.accepted = TRUE], "ok")

\* Reading starts with the event that completes the handshake.
ReadAccepted(a, n) == IF a.ret = "ok" THEN ReadEvent(a.w, n) ELSE a.w
Accepted(w, outcome) == IF w.k.accepted THEN R(w, "ok") ELSE TlsAccept(w, outcome)

\* Faulty: closing takes precedence over an answer that is still queued.
CloseFirst(w, event, n, outcome) ==
  IF w.k.close \/ event = "timeout" THEN WebserverConnectionManagerCloseRequest(w)
  ELSE IF event = "write" THEN WriteEvent(w)
  ELSE ReadAccepted(Accepted(w, outcome), n)

\* Closing comes first, except before the write event of a queued answer.
handleer(w, event, n, outcome) ==
  IF w.k.close /\ ~(event = "write" /\ w.k.out # <<>>) THEN WebserverConnectionManagerCloseRequest(w)
  ELSE CASE event = "timeout" -> WebserverConnectionManagerCloseRequest(w)
         [] event = "read"    -> ReadAccepted(Accepted(w, outcome), n)
         [] event = "write"   -> WriteEvent(w)

-----------------------------------------------------------------------------
\* The units of request r.
Units(q, r) ==
  LET names == Repeat("part", q.parts) \o q.lines \o Repeat("body", q.body)
  IN  [i \in DOMAIN names |-> <<r, names[i]>>]
RECURSIVE AllUnits(_, _)
AllUnits(reqs, r) == IF r > Len(reqs) THEN <<>> ELSE Units(reqs[r], r) \o AllUnits(reqs, r + 1)

Handshake == <<<<0, "hello">>, <<0, "finished">>>>

httpStart(t) ==
  /\ traffic = t
  /\ sock = [Socket((IF t.tls THEN Handshake ELSE <<>>) \o AllUnits(t.reqs, 1)) EXCEPT
               !.ev = "readonce", !.open = TRUE, !.tls = t.tls]
  /\ conn = [mode |-> "http", hello |-> FALSE, accepted |-> ~t.tls, buf |-> <<>>, hdr |-> NoHeader, checked |-> FALSE,
             head |-> <<>>, body |-> <<>>, out |-> <<>>, comp |-> FALSE, errors |-> 0,
             streaming |-> FALSE, close |-> FALSE]
  /\ allocated = 0 /\ others = 0

httpInit == \E t \in Streams : httpStart(t)

ClientSends ==
  /\ sock.open /\ ~sock.fin /\ ~sock.gone
  /\ \E n \in Some(Len(sock.todo)) :
       sock' = [sock EXCEPT !.kin = @ \o SubSeq(sock.todo, 1, n), !.todo = SubSeq(@, n + 1, Len(@))]
  /\ UNCHANGED <<conn, allocated, others, traffic>>

ClientReads ==
  /\ sock.open /\ ~sock.gone /\ sock.read < Len(sock.got)
  /\ sock' = [sock EXCEPT !.read = Len(sock.got)]
  /\ UNCHANGED <<conn, allocated, others, traffic>>

ClientLeaves ==
  /\ sock.open /\ ~sock.gone
  /\ \/ ~sock.fin /\ sock' = [sock EXCEPT !.fin = TRUE]
     \/ sock' = [sock EXCEPT !.gone = TRUE]
  /\ UNCHANGED <<conn, allocated, others, traffic>>

\* Bodies of other connections come and go.
OtherPosts ==
  /\ \E size \in {0, PostBudget} :
       /\ allocated - others + size <= PostBudget /\ size # others
       /\ allocated' = allocated - others + size /\ others' = size
  /\ UNCHANGED <<sock, conn, traffic>>

Records == IF sock.tls THEN {0, 1, RecordMax} ELSE {0}

\* One event of the socket: an error or a hang up beats reading, reading beats
\* writing.
EventHandler ==
  /\ conn.mode = "http" /\ Ready(sock)
  /\ \E n \in Records, o \in (IF conn.accepted THEN {"ok"} ELSE {"ok", "error"}) :
       \E w \in {handleer(W, IF sock.gone THEN "timeout" ELSE IF sock.ev = "write" THEN "write" ELSE "read",
                          n, o)} : Become(w)

httpNext == ClientSends \/ ClientReads \/ ClientLeaves \/ OtherPosts \/ EventHandler

-----------------------------------------------------------------------------
(* What the answers are to be, from the requests alone.                     *)

Asked == traffic.reqs
Modern(r) == \E j \in 1..r : Asked[j].v11
Closing == {"400", "405", "413", "431", "500", "503"}

\* The statuses request r may be answered with; more than one where other
\* connections decide.
Statuses(r) ==
  LET q == Asked[r]
  IN  CASE q.parts + 1 >= HeaderBuf -> {"400"}
        [] q.parts + 1 < HeaderBuf /\ q.method = "bad" -> {"405"}
        [] q.parts + 1 < HeaderBuf /\ q.method # "bad" /\ q.parts + Len(q.lines) - 1 > MaxHeader -> {"431"}
        [] OTHER ->
             IF q.ws # "none" THEN {IF q.ws = "old" THEN "426" ELSE IF q.ws = "badkey" THEN "refused" ELSE "101"}
             ELSE IF q.method = "OPTIONS" THEN {"204"}
             ELSE IF q.method = "POST" /\ q.content = "noboundary" THEN {"400"}
             ELSE IF q.method = "POST" /\ ~q.badlength /\ q.length > PostLimit(q) THEN {"413"}
             ELSE IF q.method = "POST" /\ q.content = "stream" /\ q.nosetup THEN {"500"}
             ELSE IF q.badlength \/ q.malformed THEN {"400"}
             ELSE {CASE q.target = "missing" -> "404" [] q.target = "denied" -> "403"
                     [] q.target = "notmodified" -> "304" [] q.target = "unreadable" -> "none"
                     [] OTHER -> "200"}
                  \cup (IF q.method = "POST" /\ q.content # "stream" /\ q.length > 0 THEN {"503"} ELSE {})

\* The answer with that status, unit by unit.
OnWire(r, status) ==
  LET q == Asked[r]
      future == IF status \in Closing THEN "close" ELSE IF q.conn # "" THEN q.conn
                ELSE IF Modern(r) THEN "keep-alive" ELSE "close"
      own == IF status \in Closing \cup {"403"} THEN 0 ELSE r
      packed == status = "200" /\ q.target = "big" /\ q.deflate /\ q.deflates
      enc == IF packed THEN <<<<0, "enc">>>> ELSE <<>>
      content == CASE status \in Closing \cup {"403"} -> <<<<0, "page">>>>
                   [] status = "304" \/ (status = "200" /\ q.target = "empty") -> <<>>
                   [] status = "200" /\ q.target = "big" -> Repeat(<<r, IF packed THEN "packed" ELSE "text">>, 2)
                   [] status = "200" /\ q.target \in {"ram", "disk"} -> Repeat(<<r, "data">>, 2)
                   [] OTHER -> <<<<r, "text">>>>
  IN  CASE status = "none" \/ status = "101" -> <<>>
        [] status = "426" -> <<<<0, "426">>, <<0, "eoh">>>>
        [] status = "refused" -> <<<<0, "400">>, <<0, "eoh">>>>
        [] status = "204" -> <<<<r, "204">>, <<0, "eoh">>>>
        [] OTHER -> <<<<own, status>>, <<0, future>>>> \o enc \o <<<<0, "eoh">>>> \o content

\* All answers to the first r requests; none follows one that closes.
RECURSIVE Wires(_)
Wires(r) ==
  IF r = 0 THEN {<<>>}
  ELSE {a \o OnWire(r, st) : a \in {v \in Wires(r - 1) : r = 1 \/ \E st0 \in Statuses(r - 1) \ Closing :
                                   v \in {u \o OnWire(r - 1, st0) : u \in Wires(r - 2)}},
                          st \in Statuses(r)}

Sent == Len(SelectSeq([r \in 1..Len(Asked) |-> r],
                      LAMBDA r : \A i \in DOMAIN sock.todo : sock.todo[i][1] > r))

-----------------------------------------------------------------------------
\* However the requests are cut and however slowly the client reads, it gets
\* their answers in the order of the requests, each once and each whole before
\* the next: nothing left over from one request reaches the answer of another.
AnswersInOrder ==
  \E r \in 0..Len(Asked) : \E a \in Wires(r) : IsPrefixOf(sock.got, a)

\* The server closes the connection to a client that is there only behind a
\* complete answer: one that says so, one to an HTTP/1.0 client, an empty file
\* (which sendfile() cannot send) or the last one before a request that only
\* the proxy could answer.
ClosedAfterAnswer ==
  conn.mode = "closed" /\ ~sock.fin /\ ~sock.gone /\ conn.accepted =>
    \E r \in 1..Len(Asked) :
      /\ sock.got \in Wires(r)
      /\ \/ \E st \in Statuses(r) \cap Closing : \E a \in Wires(r - 1) : sock.got = a \o OnWire(r, st)
         \/ ~Modern(r)
         \/ Asked[r].target = "empty"
         \/ r < Len(Asked) /\ Asked[r + 1].proxied

\* When nothing is left to read or to write every request that was sent in
\* full has been answered: no cut leaves one behind in a buffer, decrypted in
\* the TLS layer or behind an event nobody waits for.
NoRequestForgotten ==
  conn.mode = "http" /\ ~Ready(sock) /\ sock.read = Len(sock.got) /\ ~sock.fin /\ ~sock.gone =>
    sock.got \in Wires(Sent)

\* The budget for bodies is what the connections hold of it, whichever way a
\* body ended: a leak would in the end refuse every POST.
BudgetBalanced ==
  allocated = others + conn.hdr.reserved
=============================================================================
