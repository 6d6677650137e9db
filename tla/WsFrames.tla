------------------------------ MODULE WsFrames ------------------------------
(* The receiving side of one websocket (websockets_send_recv.c) and the     *)
(* streaming of large messages (websockets_streaming.c): frames arrive cut  *)
(* anywhere, are parsed in a buffer that grows with them, reassembled or    *)
(* handed to a stream handler chunk by chunk.                               *)
(*                                                                          *)
(* On the wire a frame is <<"op", opcode, fin, rsv>>, <<"len", length,      *)
(* masked>> (mask key and extended length included), then length payload    *)
(* tokens <<byte, k>>, masked with byte k of the key.  Unmasking with       *)
(* another position gives Garbage.  Recursive, for TLC only.                *)
EXTENDS Integers, Sequences, SequencesExt

CONSTANTS
  Sessions,     \* what clients send: [frames, handler, tls, abortAt]
  InBuffer,     \* WEBSOCKET_INIT_INBUFFER_SIZE
  MaxInBuffer,  \* WEBSOCKET_MAX_INBUFFER_SIZE
  MaxFragments, \* WEBSOCKET_MAX_FRAGMENTS
  StreamChunk,  \* WEBSOCKET_STREAM_CHUNK_SIZE
  ControlMax,   \* payload limit of control frames (125)
  TopLength,    \* a length with the most significant bit set, or that would wrap
  MaskLen       \* bytes of the mask key (4)

ASSUME WsFrameLimits == /\ MaxInBuffer >= InBuffer
                        /\ InBuffer > 2 /\ StreamChunk > 0 /\ MaskLen > 0

VARIABLES
  session,   \* the client: what it sends, and how
  wire,      \* tokens the client has not sent yet
  kernel,    \* tokens received and not read
  ws         \* websocket_* fields of the socket, its end, and what was delivered

wsfVars == <<session, wire, kernel, ws>>

HeaderLen == 2
Garbage == "?"

TakeOff(s, n) == SubSeq(s, n + 1, Len(s))

FrameTokens(f) ==
  <<<<"op", f.op, f.fin, f.rsv>>, <<"len", f.length, f.masked>>>>
  \o [i \in 1..Len(f.data) |-> <<f.data[i], (i - 1) % MaskLen>>]

Wire(frames) == FoldLeft(LAMBDA a, f : a \o FrameTokens(f), <<>>, frames)

Unmask(tokens, offset) ==
  [i \in DOMAIN tokens |-> IF tokens[i][2] = (offset + i - 1) % MaskLen THEN tokens[i][1] ELSE Garbage]

Tell(c, e) == [c EXCEPT !.heard = Append(@, e)]

\* A call of the stream handler, in which it may call WebsocketStreamAbort().
HandlerHears(c, events) ==
  [c EXCEPT !.heard = @ \o events, !.calls = @ + 1,
            !.stream.aborted = @ \/ c.calls + 1 = session.abortAt]
ChunkOf(data) == [i \in DOMAIN data |-> <<"byte", data[i]>>]

---------------------------------------------------------------------------
(* Sending: every control frame and message leaves in one final frame.      *)

sendWebsocketFrame(c, op, data) == Tell(c, <<"sent", op, data>>)
sendCloseFrameWithStatus(c, status) == sendWebsocketFrame(c, "CLOSE", <<status>>)
sendCloseFrame(c) == sendCloseFrameWithStatus(c, 1000)

\* The four ways recFrameV8() gives the connection up.
CloseWith(c, status) == [sendCloseFrameWithStatus(c, status) EXCEPT !.closeSocket = TRUE, !.ret = -1]

---------------------------------------------------------------------------
(* Streaming.                                                               *)

NoStream == [active |-> FALSE, fragmented |-> FALSE, remaining |-> 0, offset |-> 0, aborted |-> FALSE]
cleanupSocketStreamState(c) == [c EXCEPT !.stream = NoStream]

startWebsocketStream(c, length, fragmented) ==
  HandlerHears([c EXCEPT !.stream = [active |-> TRUE, fragmented |-> fragmented, aborted |-> FALSE,
                                     remaining |-> IF fragmented THEN 0 ELSE length, offset |-> 0]],
               <<<<"start">>>>)

\* on_end() and the end of the stream.
EndStream(c, ok) == cleanupSocketStreamState(HandlerHears(c, <<<<"end", ok /\ ~c.stream.aborted>>>>))

\* Faulty: the position in the mask key is not carried over to the next read.
ContinueUnmaskedFromStart(c, again) ==
  LET max == IF c.stream.remaining > StreamChunk THEN StreamChunk ELSE c.stream.remaining
      n == IF max < Len(kernel) THEN max ELSE Len(kernel)
      got == HandlerHears(c, ChunkOf(Unmask(SubSeq(kernel, 1, n), 0)))
      t == [got EXCEPT !.stream.remaining = @ - n, !.read = n]
  IN  IF n = 0 THEN [EndStream(c, FALSE) EXCEPT !.ret = -1]
      ELSE IF t.stream.remaining = 0 THEN EndStream(t, TRUE) ELSE t

\* Of a fragmented message remaining is 0: WebserverRecv() asks for no bytes and takes the 0 it gets for
\* a disconnect.  again: errno is EAGAIN, as an earlier call left it, and the stream just waits.  A read
\* that finds none is taken for the end of the connection.  An abort that leaves bytes of the message
\* unread closes the connection.
continueWebsocketStream(c, again) ==
  LET max == IF c.stream.remaining > StreamChunk THEN StreamChunk ELSE c.stream.remaining
      n == IF max < Len(kernel) THEN max ELSE Len(kernel)
      got == HandlerHears(c, ChunkOf(Unmask(SubSeq(kernel, 1, n), c.stream.offset)))
      t == [got EXCEPT !.stream.remaining = @ - n, !.stream.offset = (@ + n) % MaskLen, !.read = n]
  IN  IF max = 0 /\ again THEN [c EXCEPT !.ret = 0]
      ELSE IF n = 0 THEN [EndStream(c, FALSE) EXCEPT !.ret = -1]
      ELSE IF t.stream.remaining = 0 THEN EndStream(t, TRUE)
      ELSE IF t.stream.aborted THEN [EndStream(t, FALSE) EXCEPT !.closeSocket = TRUE, !.ret = -1]
      ELSE t

---------------------------------------------------------------------------
(* One frame, completely in the buffer at offset off.  The result is the    *)
(* connection; c.ret is 1 as long as recFrameV8() goes on.                   *)

InSequence(c) == (c.stream.active /\ c.stream.fragmented) \/ c.fragOp # "none"

\* A fragment of a streamed message.
FragmentChunk(c, fin, data) ==
  LET t == HandlerHears(c, ChunkOf(data))
  IN  IF t.stream.aborted \/ fin THEN EndStream(t, TRUE) ELSE t

\* A message or its first fragment.
DataFrame(c, op, fin, data) ==
  IF InSequence(c) THEN CloseWith(c, 1002)
  ELSE IF fin
       THEN IF op = "TEXT" /\ Len(data) >= MaxInBuffer THEN CloseWith(c, 1000)
            ELSE IF op = "TEXT" /\ Garbage \in ToSet(data) THEN CloseWith(c, 1007)
            ELSE Tell(c, <<"message", op, data>>)
  ELSE IF session.handler THEN FragmentChunk(startWebsocketStream(c, 0, TRUE), FALSE, data)
  ELSE IF Len(data) >= MaxInBuffer THEN CloseWith(c, 1009)
  ELSE [c EXCEPT !.fragOp = op, !.fragments = data, !.fragCount = 1]

Reassembled(c, data) ==
  LET all == c.fragments \o data
      done == [c EXCEPT !.fragOp = "none", !.fragments = <<>>, !.fragCount = 0]
  IN  IF c.fragOp = "TEXT" /\ Garbage \in ToSet(all) THEN CloseWith(done, 1007)
      ELSE Tell(done, <<"message", c.fragOp, all>>)

ContinueFrame(c, fin, data) ==
  IF ~InSequence(c) THEN CloseWith(c, 1002)
  ELSE IF c.stream.active /\ c.stream.fragmented
       THEN FragmentChunk(c, fin, data)
  ELSE IF Len(data) >= MaxInBuffer - Len(c.fragments) THEN CloseWith(c, 1009)
  ELSE IF c.fragCount + 1 > MaxFragments THEN CloseWith([c EXCEPT !.fragCount = @ + 1], 1009)
  ELSE IF fin THEN Reassembled(c, data)
  ELSE [c EXCEPT !.fragments = @ \o data, !.fragCount = @ + 1]

\* A ping is answered, a pong dropped; the socket is closed when the answer to a close is out.
ControlFrame(c, op, fin, data) ==
  IF ~fin \/ Len(data) > ControlMax THEN CloseWith(c, 1002)
  ELSE CASE op = "CLOSE" -> [sendCloseFrame(c) EXCEPT !.closeSocket = TRUE, !.ret = 0]
         [] op = "PING" -> sendWebsocketFrame(c, "PONG", data)
         [] op = "PONG" -> c

WholeFrame(c, op, fin, data) ==
  CASE op \in {"TEXT", "BINARY"} -> DataFrame(c, op, fin, data)
    [] op = "CONTINUE" -> ContinueFrame(c, fin, data)
    [] op \in {"CLOSE", "PING", "PONG"} -> ControlFrame(c, op, fin, data)
    [] OTHER -> CloseWith(c, 1002)

---------------------------------------------------------------------------
(* The loops of recFrameV8().  off is the offset in the buffer, at which    *)
(* the frame begins.                                                        *)

RECURSIVE ReadMore(_), ParseFrame(_, _)

\* recopy_buffer: the frame that is not complete moves to the front, then more is read.
RecopyBuffer(c, off) == ReadMore([c EXCEPT !.buffer = TakeOff(@, off)])

\* A streamed frame: what the buffer has of it goes to the handler at once.
StreamFrame(c, off, length) ==
  LET rest == TakeOff(c.buffer, off + HeaderLen)
      n == IF length < Len(rest) THEN length ELSE Len(rest)
      started == startWebsocketStream(c, length, FALSE)
      got == [HandlerHears(started, ChunkOf(Unmask(SubSeq(rest, 1, n), 0)))
                EXCEPT !.stream.remaining = @ - n, !.stream.offset = n % MaskLen]
      left == TakeOff(rest, n)
  IN  IF rest = <<>> THEN [started EXCEPT !.buffer = <<>>, !.ret = 0]
      ELSE IF got.stream.remaining > 0
           THEN IF got.stream.aborted THEN CloseWith(EndStream(got, FALSE), 1000)
                ELSE [got EXCEPT !.buffer = <<>>, !.ret = 0]
      ELSE IF left = <<>> THEN [EndStream(got, TRUE) EXCEPT !.buffer = <<>>, !.ret = 0]
      ELSE ParseFrame([EndStream(got, TRUE) EXCEPT !.buffer = left], 0)

BufferedFrame(c, off, op, fin, length) ==
  LET have == Len(c.buffer) - off
      end == off + HeaderLen + length
  IN  IF length > MaxInBuffer THEN CloseWith(c, 1009)
      ELSE IF have < HeaderLen + length
           THEN IF off = 0 /\ length > c.size
                THEN ReadMore([c EXCEPT !.size = HeaderLen + length + 1])
                ELSE RecopyBuffer(c, off)
      ELSE LET t == WholeFrame(c, op, fin, Unmask(SubSeq(c.buffer, off + HeaderLen + 1, end), 0))
           IN  IF t.ret # 1 THEN t
               ELSE IF end = Len(c.buffer) THEN ReadMore([t EXCEPT !.buffer = <<>>])
               ELSE ParseFrame(t, end)

ParseFrame(c, off) ==
  IF Len(c.buffer) - off < HeaderLen THEN RecopyBuffer(c, off)
  ELSE LET first == c.buffer[off + 1]
           second == c.buffer[off + 2]
       IN  IF first[4] \/ ~second[3] THEN CloseWith(c, 1002)
           ELSE IF second[2] >= TopLength THEN CloseWith(c, 1000)
           ELSE IF first[2] \in {"TEXT", "BINARY"} /\ first[3] /\ session.handler
                THEN StreamFrame(c, off, second[2])
           ELSE BufferedFrame(c, off, first[2], first[3], second[2])

\* WebserverRecv(); a full buffer asks for no bytes, which reads as a disconnect.
ReadMore(c) ==
  LET room == c.size - Len(c.buffer)
      left == Len(kernel) - c.read
      n == IF room < left THEN room ELSE left
  IN  IF room <= 0 THEN [c EXCEPT !.ret = -1]
      ELSE IF left = 0 THEN [c EXCEPT !.ret = 0]
      ELSE ParseFrame([c EXCEPT !.buffer = @ \o SubSeq(kernel, c.read + 1, c.read + n), !.read = @ + n], 0)

recFrameV8(c, again) == IF c.stream.active THEN continueWebsocketStream(c, again) ELSE ReadMore(c)

---------------------------------------------------------------------------
WsfStart(s) ==
  /\ session = s
  /\ wire = Wire(s.frames)
  /\ kernel = <<>>
  /\ ws = [buffer |-> <<>>, size |-> InBuffer, fragOp |-> "none", fragments |-> <<>>, fragCount |-> 0,
           stream |-> NoStream, closeSocket |-> FALSE, end |-> "open", heard |-> <<>>, calls |-> 0, read |-> 0, ret |-> 0]

WsfInit == \E s \in Sessions : WsfStart(s)

Arrive ==
  /\ ws.end = "open"
  /\ \E n \in 1..Len(wire) : kernel' = kernel \o SubSeq(wire, 1, n) /\ wire' = TakeOff(wire, n)
  /\ UNCHANGED <<session, ws>>

\* EVENT_READ.  Over TLS the event also comes for a record that is not complete yet.
RecvFrames ==
  /\ ws.end = "open"
  /\ kernel # <<>> \/ (session.tls /\ wire # <<>>)
  /\ \E t \in {recFrameV8([ws EXCEPT !.read = 0, !.ret = 1], again) : again \in BOOLEAN} :
       /\ kernel' = TakeOff(kernel, t.read)
       /\ ws' = [t EXCEPT !.read = 0, !.ret = 0, !.end = IF t.ret = -1 THEN "failed" ELSE "open"]
  /\ UNCHANGED <<session, wire>>

\* closeSocket is set and everything is sent, or the client has gone.
WsClosed ==
  /\ ws.end = "open"
  /\ ws.closeSocket \/ wire # <<>>
  /\ ws' = [ws EXCEPT !.end = "closed"]
  /\ UNCHANGED <<session, wire, kernel>>

WsfNext == Arrive \/ RecvFrames \/ WsClosed

WsfSpec == WsfInit /\ [][WsfNext]_wsfVars

---------------------------------------------------------------------------
(* What RFC 6455 makes of whole frames, one after the other.  open is the   *)
(* opcode of the message whose fragments are being collected.               *)

RECURSIVE Receives(_, _, _, _)
Receives(frames, handler, open, got) ==
  IF frames = <<>> THEN <<>>
  ELSE LET f == Head(frames)
           rest == Tail(frames)
           bytes == [i \in DOMAIN f.data |-> <<"byte", f.data[i]>>]
           control == f.op \in {"CLOSE", "PING", "PONG"}
           bad(status) == <<<<"sent", "CLOSE", <<status>>>>>>
           all == got \o f.data
           message(op) == IF op = "TEXT" /\ Garbage \in ToSet(all) THEN bad(1007)
                          ELSE <<<<"message", op, all>>>> \o Receives(rest, handler, "none", <<>>)
       IN  IF f.rsv \/ ~f.masked THEN bad(1002)
           ELSE IF f.length >= TopLength THEN bad(1000)
           ELSE IF f.length > MaxInBuffer /\ ~(handler /\ f.fin /\ f.op \in {"TEXT", "BINARY"}) THEN bad(1009)
           ELSE IF control
                THEN IF ~f.fin \/ f.length > ControlMax THEN bad(1002)
                     ELSE IF f.op = "CLOSE" THEN bad(1000)
                     ELSE (IF f.op = "PING" THEN <<<<"sent", "PONG", f.data>>>> ELSE <<>>)
                          \o Receives(rest, handler, open, got)
           ELSE IF f.op \notin {"TEXT", "BINARY", "CONTINUE"} \/ (f.op = "CONTINUE") = (open = "none") THEN bad(1002)
           ELSE IF handler
                THEN (IF f.op = "CONTINUE" THEN <<>> ELSE <<<<"start">>>>) \o bytes
                     \o (IF f.fin THEN <<<<"end", TRUE>>>> ELSE <<>>)
                     \o Receives(rest, handler, IF f.fin THEN "none" ELSE "STREAM", <<>>)
           ELSE IF Len(all) >= MaxInBuffer /\ ~(f.op = "BINARY" /\ f.fin)
                THEN bad(IF f.fin /\ f.op = "TEXT" THEN 1000 ELSE 1009)
           ELSE IF f.fin THEN message(IF f.op = "CONTINUE" THEN open ELSE f.op)
           ELSE Receives(rest, handler, IF f.op = "CONTINUE" THEN open ELSE f.op, all)

Expected == Receives(session.frames, session.handler, "none", <<>>)

\* What was heard before a stream failed or a message had too many fragments.
HeardFrames ==
  LET failed == SelectInSeq(ws.heard, LAMBDA e : e[1] = "end" /\ ~e[2])
      h == IF failed = 0 THEN ws.heard ELSE SubSeq(ws.heard, 1, failed - 1)
  IN  IF h # <<>> /\ Last(h) = <<"sent", "CLOSE", <<1009>>>> /\ ws.fragCount > MaxFragments THEN Front(h) ELSE h

\* Behind the answer to a close the buffer keeps the frame, and each later read answers it again.
RECURSIVE OneClose(_)
OneClose(h) ==
  IF Len(h) >= 2 /\ Last(h)[1] = "sent" /\ Last(h) = h[Len(h) - 1] /\ Last(h)[2] = "CLOSE"
  THEN OneClose(Front(h)) ELSE h

(* However the frames are cut, the messages, chunks and answers are those   *)
(* of the whole frames, in the order of the frames, unmasked right and with *)
(* nothing of a neighbour (recFrameV8(), continueWebsocketStream()); when   *)
(* everything has been read and the connection is still there, nothing is   *)
(* missing.                                                                 *)
FramesAsSent ==
  /\ IsPrefix(OneClose(HeardFrames), Expected)
  /\ (wire = <<>> /\ kernel = <<>> /\ ws.end = "open" /\ HeardFrames = ws.heard)
       => OneClose(ws.heard) = Expected

(* A client whose frames are valid and within the limits is not thrown out: *)
(* recFrameV8() and continueWebsocketStream() fail the connection only for  *)
(* an input that deserves it.                                               *)
ValidFramesAccepted ==
  ws.end = "failed" => \E i \in DOMAIN Expected : Expected[i][1] = "sent" /\ Expected[i][2] = "CLOSE"
=============================================================================
