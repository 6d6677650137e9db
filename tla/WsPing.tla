------------------------------- MODULE WsPing -------------------------------
(***************************************************************************)
(* The output of one websocket in bytes, and the idle timeouts that watch  *)
(* it: writeChunk(), the write path of handleWebsocket(), conn_send_ping() *)
(* and conn_timeout_websocket() as the sweep runs it once a second.        *)
(*                                                                         *)
(* The bytes of the output are numbered in the order they are queued, and  *)
(* a chunk is the part of them that it holds.  The clock is g_loop_now.    *)
(* The first round of the event loop with a new time is the Tick, events   *)
(* and the sweep; the later rounds of that second bring events only.  The  *)
(* output thread appends and closes at any time in between.                *)
(***************************************************************************)
EXTENDS Integers, Sequences, FiniteSetsExt

CONSTANTS
    ChunkSize,      \* 2000: bytes in a full chunk
    FrameLens,      \* lengths of the frames that are sent
    OutputIdle,     \* to_send_idle, in seconds; 0 switches a timeout off
    ClosingTime,    \* to_closing
    PingIdle,       \* to_ws_ping_idle
    Pong,           \* to_ws_pong
    MaxSeconds,     \* bound: seconds in a behaviour
    MaxBytes        \* bound: bytes queued in a behaviour

ASSUME WsPingAssumption ==
    /\ ChunkSize \in Nat \ {0}
    /\ FrameLens \subseteq Nat \ {0}
    /\ {OutputIdle, ClosingTime, PingIdle, Pong, MaxSeconds, MaxBytes} \subseteq Nat

PingLen == 2

\* Longest step of the clock from one sweep to the next: the wait of a second,
\* and one that a handler took (eventLoopBeforeWait() subtracts what is beyond).
MaxRound == 2

VARIABLES
    loopNow,    \* g_loop_now
    sweptAt,    \* loop_last_sweep
    toPing,     \* the sweep has decided to send a ping
    state,      \* "open", or what closed the socket
    closing,    \* closeSocket
    chunks,     \* websocket_chunk_list
    pos,        \* websocket_send_pos
    rx, tx,     \* rx_at, tx_at
    outSince,   \* ws_out_since
    ping,       \* ws_ping_at, _sent_at, _seq, _end
    count,      \* ws_chunks_sent
    past        \* history: bytes queued and sent, where the last ping ends,
                \* when it was sent, since when output has been waiting

pingVars == <<loopNow, sweptAt, toPing, state, closing, chunks, pos, rx, tx,
              outSince, ping, count, past>>

pingClock == <<loopNow, sweptAt, toPing>>

-----------------------------------------------------------------------------
(* Output.                                                                 *)

\* html_chunk: it holds the bytes behind `from' up to `to'.
Size(chunk) == chunk.to - chunk.from

\* Bytes that the last chunk still takes.
Room(list) ==
    IF list # <<>> /\ Size(list[Len(list)]) < ChunkSize
      THEN ChunkSize - Size(list[Len(list)]) ELSE 0

\* New chunks for the bytes behind a up to b.
NewChunks(a, b) ==
    [i \in 1 .. (b - a + ChunkSize - 1) \div ChunkSize |->
        [from |-> a + (i - 1) * ChunkSize, to |-> Min({a + i * ChunkSize, b})]]

(* writeChunk(): the last chunk is filled up, the rest goes to new ones.   *)
writeChunk(list, n) ==
    LET fill  == Min({n, Room(list)})
        start == past.queued + fill
    IN  (IF fill > 0 THEN [list EXCEPT ![Len(list)].to = start] ELSE list)
          \o NewChunks(start, past.queued + n)

Queue(n) ==
    /\ chunks' = writeChunk(chunks, n)
    /\ past' = [past EXCEPT !.queued = @ + n,
                            !.waiting = IF chunks = <<>> THEN loopNow ELSE @]

\* The output thread, with the socket's mutex.
sendWebsocketFrameReal(n) ==
    /\ state = "open"
    /\ ~closing
    /\ past.queued + n <= MaxBytes
    /\ Queue(n)
    /\ UNCHANGED <<pingClock, state, closing, pos, rx, tx, outSince, ping, count>>

closeWebsocket ==
    /\ state = "open"
    /\ ~closing
    /\ closing' = TRUE
    /\ UNCHANGED <<pingClock, state, chunks, pos, rx, tx, outSince, ping, count, past>>

\* Bytes in the first m chunks that are still to be sent.
Left(m) == IF m = 0 THEN 0 ELSE chunks[m].to - chunks[1].from - pos

(* What sending n bytes does to the history.                               *)
Sent(n) ==
    past' = [past EXCEPT !.sent = @ + n,
                         !.pingOut = IF past.sent < past.pingPos
                                        /\ past.sent + n >= past.pingPos
                                       THEN loopNow ELSE @]

(* EVENT_WRITE: m chunks go out whole and k bytes of the next, if there is *)
(* one; the event loop comes back for the others.                          *)
WriteEvent(m, k) ==
    /\ ~toPing
    /\ state = "open"
    /\ ~(closing /\ chunks = <<>>)
    /\ m \in 0 .. Len(chunks)
    /\ IF m = Len(chunks) THEN k = 0
       ELSE k \in 1 .. Size(chunks[m + 1]) - (IF m = 0 THEN pos ELSE 0) - 1
    /\ chunks' = SubSeq(chunks, m + 1, Len(chunks))
    /\ pos' = IF m = 0 THEN pos + k ELSE k
    /\ tx' = IF m + k > 0 THEN loopNow ELSE tx
    /\ count' = count + m
    /\ Sent(Left(m) + k)
    /\ UNCHANGED <<pingClock, state, closing, rx, outSince, ping>>

(* EVENT_WRITE: after m whole chunks the next send takes nothing           *)
(* (SOCKET_SEND_SEND_BUFFER_FULL), or fails; the socket is freed.          *)
WriteFails(m, why) ==
    /\ ~toPing
    /\ state = "open"
    /\ m \in 0 .. Len(chunks) - 1
    /\ why = "bufferFull" => m > 0      \* the write event says there is room
    /\ state' = why
    /\ UNCHANGED <<pingClock, closing, chunks, pos, rx, tx, outSince, ping,
                   count, past>>

(* EVENT_READ: data, of whatever kind.                                     *)
ReadEvent ==
    /\ ~toPing
    /\ state = "open"
    /\ ~(closing /\ chunks = <<>>)
    /\ rx' = loopNow
    /\ UNCHANGED <<pingClock, state, closing, chunks, pos, tx, outSince, ping,
                   count, past>>

\* websocket_event_handler(): any event, everything sent.
CloseMarked ==
    /\ ~toPing
    /\ state = "open"
    /\ closing /\ chunks = <<>>
    /\ state' = "closed"
    /\ UNCHANGED <<pingClock, closing, chunks, pos, rx, tx, outSince, ping,
                   count, past>>

-----------------------------------------------------------------------------
(* The sweep.                                                              *)

ws_expired(since, limit) == limit > 0 /\ since # 0 /\ loopNow - since >= limit

(* Faulty: the position within the chunk is not looked at.                 *)
PingOutEarly == count + 1 >= ping.seq

ping_out ==
    \/ count >= ping.seq
    \/ count + 1 = ping.seq /\ pos >= ping.end

\* When the sweep first sees the ping gone out; anything received answers it.
PingSeen ==
    IF rx >= ping.at THEN [ping EXCEPT !.at = 0, !.sentAt = 0]
    ELSE IF ping.sentAt = 0 /\ ping_out THEN [ping EXCEPT !.sentAt = loopNow]
    ELSE ping

Waiting == chunks # <<>>

(* Faulty: sending progress after the ping keeps a silent client alive.    *)
PongMissedUnlessSending ==
    /\ ping.at # 0 /\ rx < ping.at /\ ping.sentAt # 0
    /\ ws_expired(Max({ping.sentAt, tx}), Pong)

PongMissed ==
    /\ ping.at # 0 /\ rx < ping.at /\ ping.sentAt # 0
    /\ ws_expired(ping.sentAt, Pong)

(* Faulty: only the first sight of waiting output counts.                  *)
NotTakenSinceSeen ==
    Waiting /\ outSince # 0 /\ ws_expired(outSince, OutputIdle)

NotTaken ==
    Waiting /\ outSince # 0 /\ ws_expired(Max({outSince, tx}), OutputIdle)

Overdue ==
    IF closing
      THEN ~Waiting /\ ws_expired(Max({rx, tx}), ClosingTime)
      ELSE PongMissed

(* conn_timeout_action(), the branch of the websockets, and the close.     *)
Sweep ==
    /\ sweptAt # loopNow /\ ~toPing
    /\ state = "open"
    /\ sweptAt' = loopNow
    /\ outSince' = IF ~Waiting THEN 0 ELSE IF outSince = 0 THEN loopNow ELSE outSince
    /\ IF NotTaken \/ Overdue
         THEN state' = "expired" /\ UNCHANGED <<ping, toPing>>
         ELSE /\ UNCHANGED state
              /\ ping' = IF closing \/ ping.at = 0 THEN ping ELSE PingSeen
              /\ toPing' = (~closing /\ ping.at = 0 /\ ws_expired(rx, PingIdle))
    /\ UNCHANGED <<loopNow, closing, chunks, pos, rx, tx, count, past>>

(* Behind the walk, under the socket's mutex again.                        *)
conn_send_ping ==
    /\ toPing
    /\ toPing' = FALSE
    /\ IF closing
         THEN UNCHANGED <<chunks, ping, past>>
         ELSE /\ chunks' = writeChunk(chunks, PingLen)
              /\ ping' = [at |-> loopNow, sentAt |-> 0,
                          seq |-> count + Len(chunks'), end |-> Size(chunks'[Len(chunks')])]
              /\ past' = [past EXCEPT !.queued = @ + PingLen,
                                      !.pingPos = past.queued + PingLen,
                                      !.pingOut = 0,
                                      !.waiting = IF chunks = <<>> THEN loopNow ELSE @]
    /\ UNCHANGED <<loopNow, sweptAt, state, closing, pos, rx, tx, outSince, count>>

(* The next wait is over: a second later, or two when a handler took one.  *)
Tick(d) ==
    /\ sweptAt = loopNow /\ ~toPing
    /\ state = "open"
    /\ loopNow + d <= MaxSeconds
    /\ loopNow' = loopNow + d
    /\ UNCHANGED <<sweptAt, toPing, state, closing, chunks, pos, rx, tx, outSince,
                   ping, count, past>>

WsPingDone == (state # "open" \/ loopNow > MaxSeconds - MaxRound) /\ UNCHANGED pingVars

-----------------------------------------------------------------------------
WsPingInit ==
    /\ loopNow = 1 /\ sweptAt = 1 /\ toPing = FALSE
    /\ state = "open" /\ closing = FALSE
    /\ chunks = <<>> /\ pos = 0
    /\ rx = 1 /\ tx = 1 /\ outSince = 0
    /\ ping = [at |-> 0, sentAt |-> 0, seq |-> 0, end |-> 0]
    /\ count = 0
    /\ past = [queued |-> 0, sent |-> 0, pingPos |-> 0, pingOut |-> 0,
               waiting |-> 0]

WsPingNext ==
    \/ \E n \in FrameLens : sendWebsocketFrameReal(n)
    \/ closeWebsocket
    \/ \E m \in 0 .. MaxBytes + PingLen, k \in 0 .. ChunkSize : WriteEvent(m, k)
    \/ \E m \in 0 .. MaxBytes + PingLen, why \in {"bufferFull", "sendError"} :
          WriteFails(m, why)
    \/ ReadEvent \/ CloseMarked \/ Sweep \/ conn_send_ping
    \/ \E d \in 1 .. MaxRound : Tick(d)
    \/ WsPingDone

WsPingSpec == WsPingInit /\ [][WsPingNext]_pingVars

-----------------------------------------------------------------------------
(* Properties.                                                             *)

(* The chunk list holds what is queued and not sent, in order and without  *)
(* gaps, and the sweep's view of the ping, from chunk counts and the       *)
(* position in the chunk, is exact: the ping counts as out when its last   *)
(* byte is sent, however frames share chunks with it and sends are cut.    *)
PingOutExact ==
    /\ past.queued - past.sent = Left(Len(chunks))
    /\ \A i \in 2 .. Len(chunks) : chunks[i].from = chunks[i - 1].to
    /\ ping.at # 0 => (ping_out <=> past.sent >= past.pingPos)

(* A client is closed by the sweep for good reason: it took nothing for    *)
(* to_send_idle and has output to take, all of that time but the round in  *)
(* which it was queued, or it left a ping unanswered for to_ws_pong since  *)
(* that was on the wire.  A client that answers, and one that takes what   *)
(* it is sent, stay.  The round: ws_out_since is of output long taken when *)
(* all of it goes out behind one sweep and more is queued before the next. *)
ClosedForReason ==
    [][state' = "expired" /\ ~closing =>
          \/ /\ Waiting /\ loopNow - tx >= OutputIdle
             /\ loopNow - past.waiting >= OutputIdle - MaxRound
          \/ /\ past.sent >= past.pingPos
             /\ loopNow - past.pingOut >= Pong
             /\ rx < past.pingOut]_pingVars

(* The comment in conn_timeout_websocket(): the time of waiting output     *)
(* starts when the sweep first sees it, at most a second late.  So output  *)
(* that the next sweep finds not taken has waited for to_send_idle.  The   *)
(* code may still hold ws_out_since of earlier output, see above.          *)
OutputGivenItsTime ==
    state = "open" /\ sweptAt # loopNow /\ NotTaken => loopNow - past.waiting >= OutputIdle

(* A silent client is noticed: whatever else it takes, it is gone at the   *)
(* latest two rounds after the answer to its ping was due, and one that    *)
(* neither sends nor takes anything is gone after the idle time, the time  *)
(* to answer and the rounds in between.                                    *)
SilentIsClosed ==
    state = "open" /\ sweptAt = loopNow /\ ~closing =>
       /\ ping.at # 0 /\ past.sent >= past.pingPos /\ rx < ping.at =>
             loopNow - past.pingOut < Pong + 2
       /\ loopNow - Max({rx, tx}) < PingIdle + Max({OutputIdle, Pong}) + 4
=============================================================================
