---------------------------- MODULE ConnTimeout -----------------------------
(***************************************************************************)
(* The idle timeouts of HTTP connections: the clock of the event loop      *)
(* (eventLoopBeforeWait(), eventLoopAfterWait()), the stamps that reading  *)
(* and writing leave on a connection, and the sweep that closes expired    *)
(* connections (conn_timeout_action(), connTimeoutSweep()).                *)
(*                                                                         *)
(* A round of the loop is a wait, any number of handler steps and the      *)
(* sweep.  Websockets have a module of their own, WsPing.                  *)
(***************************************************************************)
EXTENDS Integers, FiniteSets, FiniteSetsExt

CONSTANTS
    Conns,          \* connections
    Silent,         \* bound: those whose peer sends nothing, on a plain port
    HeaderTime,     \* to_request_header, in seconds
    KeepAlive,      \* to_keep_alive
    ReceiveIdle,    \* to_receive_idle
    SendIdle,       \* to_send_idle
    SweepMax,       \* CONN_SWEEP_MAX
    MaxBlock,       \* bound: seconds a handler blocks
    MaxTime         \* bound: seconds in a behaviour

ASSUME ConnTimeoutAssumption ==
    /\ IsFiniteSet(Conns) /\ Silent \subseteq Conns
    /\ {HeaderTime, KeepAlive, ReceiveIdle, SendIdle, MaxBlock, MaxTime} \subseteq Nat
    /\ SweepMax \in Nat \ {0}

VARIABLES
    mono,       \* connMonotonicSec()
    stall,      \* loop_stall
    returned,   \* loop_returned_at
    now,        \* g_loop_now
    swept,      \* loop_last_sweep
    more,       \* loop_sweep_pending
    at,         \* "wait" or "dispatch"
    place,      \* where a connection stands in the container's list, 0: not in it
    conn,       \* per connection: what its fields say
    hist        \* history per connection: unblocked seconds since its last
                \* stamp and since input has been waiting, in the kernel
                \* or behind a request in the header buffer

vars == <<mono, stall, returned, now, swept, more, at, place, conn, hist>>

clockVars == <<mono, stall, returned, now, swept, more>>

(* "tls": the handshake; "first": nothing or a part of the first request's *)
(* header; "header": of a later one; "body": a request body is coming in;  *)
(* "out": output_list is not empty; "keep": between two requests.          *)
Phases == {"none", "tls", "first", "header", "body", "out", "keep"}

NoConn == [phase |-> "none", phaseAt |-> 0, rx |-> 0, tx |-> 0, spared |-> 0,
           started |-> FALSE, rest |-> FALSE, input |-> FALSE]

NoHist == [idle |-> 0, input |-> 0]

Open == {c \in Conns : conn[c].phase # "none"}

\* Ages beyond the largest limit need not be told apart.
Cap == Max({HeaderTime, KeepAlive, ReceiveIdle, SendIdle, 2})
Older(age, d) == Min({age + d, Cap})

-----------------------------------------------------------------------------
(* The clock.                                                              *)

Busy == mono - returned

(* Faulty: the time blocked counts in full.                                *)
StallNever(busy) == 0

\* Of the time since the last wait at most one second counts.
StallOf(busy) == IF busy > 1 THEN busy - 1 ELSE 0

(* eventLoopBeforeWait(), the wait of d seconds, eventLoopAfterWait().     *)
Wait(d) ==
    /\ at = "wait"
    /\ more => d = 0
    /\ mono + d <= MaxTime
    /\ stall' = stall + StallOf(Busy)
    /\ mono' = mono + d
    /\ returned' = mono'
    /\ now' = mono' - stall'
    /\ at' = "dispatch"
    /\ hist' = LET e == d + Min({Busy, 1})
               IN  [c \in Conns |->
                      [idle  |-> IF c \in Open THEN Older(hist[c].idle, e) ELSE 0,
                       input |-> IF conn[c].input \/ (conn[c].phase = "out" /\ conn[c].rest)
                                   THEN Older(hist[c].input, e) ELSE 0]]
    /\ UNCHANGED <<swept, more, place, conn>>

(* A handler keeps the loop busy for d seconds.                            *)
Block(d) ==
    /\ at = "dispatch"
    /\ Busy + d <= MaxBlock
    /\ mono + d <= MaxTime
    /\ mono' = mono + d
    /\ UNCHANGED <<stall, returned, now, swept, more, at, place, conn, hist>>

-----------------------------------------------------------------------------
(* Connections.                                                            *)

(* addClientSocket().                                                      *)
Accept(c, p) ==
    /\ at = "dispatch"
    /\ conn[c].phase = "none"
    /\ c \in Silent => p = "first"
    /\ conn' = [conn EXCEPT ![c] = [NoConn EXCEPT !.phase = p, !.phaseAt = now,
                                                  !.rx = now, !.tx = now]]
    /\ place' = [place EXCEPT ![c] = Cardinality(Open) + 1]
    /\ hist' = [hist EXCEPT ![c] = NoHist]
    /\ UNCHANGED <<clockVars, at>>

(* Input arrives in the kernel, at any time.                               *)
Arrive(c) ==
    /\ c \notin Silent
    /\ conn[c].phase \notin {"none", "out"}
    /\ ~conn[c].input
    /\ conn' = [conn EXCEPT ![c].input = TRUE]
    /\ hist' = [hist EXCEPT ![c].input = 0]
    /\ UNCHANGED <<clockVars, at, place>>

\* phase_at, when a request's first bytes are received: not for the first one.
PhaseAt(c) ==
    IF conn[c].phase \in {"first", "tls"} \/ conn[c].started
      THEN conn[c].phaseAt ELSE now

(* EVENT_READ on the plain connection, handleClientData(): a part of a     *)
(* header, a header with a body to come, a part of the body, or a request  *)
(* that is answered; the rest of the segment may begin the next one.       *)
Read(c, p, rest) ==
    /\ at = "dispatch"
    /\ conn[c].input
    /\ conn[c].phase \in {"first", "header", "body", "keep"}
    /\ p \in CASE conn[c].phase = "first" -> {"first", "body", "out"}
               [] conn[c].phase = "body"  -> {"body", "out"}
               [] OTHER                   -> {"header", "body", "out"}
    /\ rest => p = "out"
    /\ conn' = [conn EXCEPT
                  ![c] = [phase |-> p, phaseAt |-> PhaseAt(c), rx |-> now,
                          tx |-> IF p = "out" THEN now ELSE conn[c].tx,
                          spared |-> conn[c].spared, started |-> p # "out",
                          rest |-> rest, input |-> FALSE]]
    /\ hist' = [hist EXCEPT
                  ![c] = [idle |-> IF p \in {"body", "out"} \/ PhaseAt(c) # conn[c].phaseAt
                                     THEN 0 ELSE hist[c].idle,
                          input |-> 0]]
    /\ UNCHANGED <<clockVars, at, place>>

(* EVENT_READ during the TLS handshake; at its end the first request has   *)
(* its time for itself.                                                    *)
Handshake(c, p) ==
    /\ at = "dispatch"
    /\ conn[c].input
    /\ conn[c].phase = "tls"
    /\ conn' = [conn EXCEPT
                  ![c] = [conn[c] EXCEPT !.phase = p, !.rx = now, !.input = FALSE,
                                         !.phaseAt = IF p = "first" THEN now ELSE conn[c].phaseAt]]
    /\ hist' = [hist EXCEPT
                  ![c] = [idle |-> IF p = "first" THEN 0 ELSE hist[c].idle, input |-> 0]]
    /\ UNCHANGED <<clockVars, at, place>>

(* EVENT_WRITE: a part of the response, or all of it.  What is left in the *)
(* header buffer is then the beginning of the next header.                 *)
Write(c, p) ==
    /\ at = "dispatch"
    /\ conn[c].phase = "out"
    /\ p \in {"out", IF conn[c].rest THEN "header" ELSE "keep"}
    /\ conn' = [conn EXCEPT ![c] = [conn[c] EXCEPT !.phase = p, !.tx = now]]
    /\ hist' = [hist EXCEPT ![c] = IF p = "header" THEN [idle |-> hist[c].input, input |-> 0]
                                   ELSE [hist[c] EXCEPT !.idle = 0]]
    /\ UNCHANGED <<clockVars, at, place>>

\* The connections of S leave the list; cs is what is left on the others.
Closed(S, cs) ==
    /\ conn' = [c \in Conns |-> IF c \in S THEN NoConn ELSE cs[c]]
    /\ hist' = [c \in Conns |-> IF c \in S THEN NoHist ELSE hist[c]]
    /\ place' = [c \in Conns |-> IF c \in S THEN 0
                                 ELSE place[c] - Cardinality({x \in S : place[x] < place[c]})]

(* The peer is gone, or the response was the last.                         *)
PeerGone(c) ==
    /\ at = "dispatch"
    /\ c \in Open
    /\ Closed({c}, conn)
    /\ UNCHANGED <<clockVars, at>>

-----------------------------------------------------------------------------
(* The sweep.                                                              *)

(* conn_timeout_action(): the stamp and the limit that apply.              *)
Since(c) ==
    CASE conn[c].phase \in {"tls", "first", "header"} -> conn[c].phaseAt
      [] conn[c].phase = "body"                       -> conn[c].rx
      [] conn[c].phase \in {"out", "keep"}            -> conn[c].tx

Limit(c) ==
    CASE conn[c].phase \in {"tls", "first", "header"} -> HeaderTime
      [] conn[c].phase = "body"                       -> ReceiveIdle
      [] conn[c].phase = "out"                        -> SendIdle
      [] conn[c].phase = "keep"                       -> KeepAlive

conn_expired(c) == Limit(c) > 0 /\ Since(c) # 0 /\ now - Since(c) >= Limit(c)

IfIdle(c) == conn[c].phase # "out"

\* Spared for its input a short while ago: not collected.
RecentlySpared(c) ==
    IfIdle(c) /\ conn[c].spared # 0 /\ now - conn[c].spared < 2

Due == {c \in Open : conn_expired(c) /\ ~RecentlySpared(c)}

(* The walk ends at the first one that has no place in close_list.         *)
Visited == {c \in Open : Cardinality({x \in Due : place[x] <= place[c]}) <= SweepMax}

Collected == Due \cap Visited

(* Faulty: input is spared again and again.                                *)
SparesAlways(c) == IfIdle(c) /\ conn[c].input

Spares(c) == IfIdle(c) /\ conn[c].spared = 0 /\ conn[c].input

SparedAt(c) ==
    IF c \in Collected THEN now
    ELSE IF c \in Visited /\ ~conn_expired(c) THEN 0 ELSE conn[c].spared

Swept ==
    Closed({c \in Collected : ~Spares(c)},
           [c \in Conns |-> [conn[c] EXCEPT !.spared = SparedAt(c)]])

eventLoopAfterDispatch ==
    /\ at = "dispatch"
    /\ at' = "wait"
    /\ IF now # swept \/ more
         THEN swept' = now /\ more' = (Cardinality(Due) > SweepMax) /\ Swept
         ELSE UNCHANGED <<swept, more, place, conn, hist>>
    /\ UNCHANGED <<mono, stall, returned, now>>

Done == mono = MaxTime /\ UNCHANGED vars

-----------------------------------------------------------------------------
Init ==
    /\ mono = 1 /\ stall = 0 /\ returned = 1 /\ now = 1
    /\ swept = 0 /\ more = FALSE
    /\ at = "wait"
    /\ place = [c \in Conns |-> 0]
    /\ conn = [c \in Conns |-> NoConn]
    /\ hist = [c \in Conns |-> NoHist]

Next ==
    \/ \E d \in 0 .. 1 : Wait(d)
    \/ \E d \in 1 .. MaxBlock : Block(d)
    \/ \E c \in Conns :
          \/ \E p \in {"tls", "first"} : Accept(c, p) \/ Handshake(c, p)
          \/ \E p \in Phases, rest \in BOOLEAN : Read(c, p, rest)
          \/ \E p \in Phases : Write(c, p)
          \/ Arrive(c) \/ PeerGone(c)
    \/ eventLoopAfterDispatch
    \/ Done

Spec == Init /\ [][Next]_vars

-----------------------------------------------------------------------------
(* Properties.                                                             *)

\* What the sweep, and only the sweep, closes.
SweptAway(c) == at = "dispatch" /\ at' = "wait" /\ c \in Open /\ conn'[c].phase = "none"

\* The header of a further request, as far as it came in the segment of the
\* request before: phase_at is still that of the request before.
Pipelined(c) == conn[c].phase = "header" /\ ~conn[c].started

(* The sweep closes nobody too early: the connection's own unblocked time, *)
(* at most one second of every round spent in handlers included, has       *)
(* reached the limit (FurtherHeaderTimed is about the one that has not),   *)
(* and a request that has come in is not thrown away at the moment its     *)
(* connection expires: between requests and within a body input that has   *)
(* been waiting for less than two seconds keeps it.  (Of limits below      *)
(* three seconds this is not true: the clock can move on by two between    *)
(* two sweeps, and spared_at is then not cleared in between; nor when so   *)
(* many expire at once that the sweeps end early for longer than a limit:  *)
(* those behind the end of the walk keep their spared_at.)                 *)
SweptForReason ==
    [][\A c \in Conns : SweptAway(c) =>
          /\ hist[c].idle >= Limit(c) \/ Pipelined(c)
          /\ conn[c].input /\ conn[c].phase \in {"keep", "body"} => hist[c].input >= 2]_vars

(* The comment in handleClientHeaderData(): a further request's header has *)
(* timeout_request_header.  So the sweep closes none whose first bytes     *)
(* have come less than that ago.  The code does not set phase_at when they *)
(* come in the segment of the request before.                              *)
FurtherHeaderTimed ==
    at = "dispatch" /\ now # swept =>
       \A c \in Collected : Pipelined(c) /\ ~Spares(c) => hist[c].idle >= HeaderTime

(* No connection outlives its time, whatever trickles in and however many  *)
(* expire at once: when connTimeoutSweep() has been through the list nobody *)
(* is overdue by more than sparing buys and than the rounds take which a   *)
(* list of expired connections is worked off in.  A header that begins in  *)
(* the previous request's segment is counted from that response's end.     *)
NoneOverdue ==
    at = "wait" /\ ~more /\ swept = now =>
       \A c \in Open :
          LET since == IF conn[c].phase = "header" /\ conn[c].rest
                         THEN conn[c].tx ELSE Since(c)
          IN  now - since < Limit(c) + 2 + Cardinality(Conns) \div SweepMax
=============================================================================
