------------------------- MODULE ConnTimeoutProofs -------------------------
(***************************************************************************)
(* Proofs about ConnTimeout: the sweep closes nobody before its time, for  *)
(* any number of connections, any limits and any length of close_list, and *)
(* input that has just come keeps its connection, as long as no sweep ends *)
(* early.                                                                  *)
(***************************************************************************)
EXTENDS ConnTimeout, FiniteSetTheorems, TLAPS

-----------------------------------------------------------------------------
(* Ages.                                                                   *)

(* The smaller of two numbers.                                             *)
LEMMA MinIs ==
    ASSUME NEW a \in Int, NEW b \in Int
    PROVE  Min({a, b}) = IF a <= b THEN a ELSE b
<1> DEFINE m == IF a <= b THEN a ELSE b
<1>1. m \in {a, b} /\ \A y \in {a, b} : m <= y
  OBVIOUS
<1>2. \A x \in {a, b} : (\A y \in {a, b} : x <= y) => x = m
  OBVIOUS
<1> QED
  BY <1>1, <1>2 DEF Min

(* No limit is beyond what ages are told apart to.                         *)
LEMMA CapIs ==
    Cap \in Nat /\ Cap >= 2 /\ \A n \in {HeaderTime, KeepAlive, ReceiveIdle, SendIdle} : n <= Cap
<1> DEFINE D == {HeaderTime, KeepAlive, ReceiveIdle, SendIdle, 2}
           P(x) == \A y \in D : x >= y
<1>1. D \subseteq Nat
  BY ConnTimeoutAssumption
<1>2. \E x \in D : P(x)
  <2> DEFINE big(a, b) == IF a >= b THEN a ELSE b
             x == big(big(big(HeaderTime, KeepAlive), big(ReceiveIdle, SendIdle)), 2)
  <2>1. HeaderTime \in Nat /\ KeepAlive \in Nat /\ ReceiveIdle \in Nat /\ SendIdle \in Nat
    BY ConnTimeoutAssumption
  <2>2. x \in D /\ P(x)
    BY <2>1
  <2> QED
    BY <2>2
<1>3. Cap = CHOOSE x \in D : P(x)
  BY DEF Cap, Max
<1>4. Cap \in D /\ P(Cap)
  BY <1>2, <1>3
<1> QED
  BY <1>1, <1>4

(* An age that has grown.                                                  *)
LEMMA OlderIs ==
    ASSUME NEW age \in Nat, NEW d \in Nat
    PROVE  /\ Older(age, d) \in Nat
           /\ Older(age, d) = IF age + d <= Cap THEN age + d ELSE Cap
<1>1. Cap \in Nat
  BY CapIs
<1> HIDE DEF Cap
<1> QED
  BY <1>1, MinIs DEF Older

-----------------------------------------------------------------------------
(* The invariants.                                                         *)

ConnType ==
    [phase : Phases, phaseAt : Nat, rx : Nat, tx : Nat, spared : Nat,
     started : BOOLEAN, rest : BOOLEAN, input : BOOLEAN]

HistType == [idle : Nat, input : Nat]

(* The stamp that applies to a connection k.                               *)
SinceOf(k) ==
    IF k.phase \in {"tls", "first", "header"} THEN k.phaseAt
    ELSE IF k.phase = "body" THEN k.rx ELSE k.tx

(* A header whose first bytes came behind the request before.              *)
Behind(k) == k.phase = "header" /\ ~k.started

(* A connection k with the history h at time n: its stamps are of the past *)
(* and its unblocked time is at least what they say, unless they are the   *)
(* request's before; the header of the next request has not been begun     *)
(* while a response is sent.                                               *)
Timed(k, h, n) ==
    /\ k.phase # "none" => /\ {k.phaseAt, k.rx, k.tx} \subseteq 1 .. n
                           /\ k.spared <= n
                           /\ h.idle >= n - SinceOf(k) \/ h.idle >= Cap \/ Behind(k)
    /\ k.phase \in {"out", "keep"} => ~k.started

(* The clock of the loop is the time outside the handlers.                 *)
ClockOK ==
    /\ {mono, stall, returned, now, swept} \subseteq Nat
    /\ now = returned - stall /\ now >= 1 /\ mono >= returned /\ swept <= now
    /\ at \in {"wait", "dispatch"}

TimeInv ==
    /\ ClockOK
    /\ conn \in [Conns -> ConnType] /\ hist \in [Conns -> HistType]
    /\ \A c \in Conns : Timed(conn[c], hist[c], now)

(* A connection that was spared, between requests or within a body: its    *)
(* input has been waiting since, or it has been read since the last sweep. *)
SparedFor(k, h, n, sw) ==
    k.phase \in {"keep", "body"} /\ k.spared # 0 =>
       \/ k.input /\ (h.input >= n - k.spared \/ h.input >= 2)
       \/ SinceOf(k) >= sw

SparedInv ==
    /\ at = "wait" => swept = now \/ (swept = 0 /\ now = 1 /\ mono = returned)
    /\ at = "dispatch" => now - swept <= 2
    /\ \A c \in Conns : SparedFor(conn[c], hist[c], now, swept)

(* Limits that are longer than the clock may move between two sweeps.      *)
LimitsLong == \A n \in {KeepAlive, ReceiveIdle} : n = 0 \/ n >= 3

-----------------------------------------------------------------------------
(* Steps of one connection.                                                *)

(* What holds of the new state of the connection holds of all.             *)
LEMMA OneConn ==
    ASSUME TimeInv, NEW c \in Conns, NEW k \in ConnType, NEW h \in HistType,
           conn' = [conn EXCEPT ![c] = k], hist' = [hist EXCEPT ![c] = h],
           UNCHANGED <<clockVars, at>>, Timed(k, h, now),
           SparedFor(conn[c], hist[c], now, swept) => SparedFor(k, h, now, swept)
    PROVE  TimeInv' /\ (SparedInv => SparedInv')
<1>1. UNCHANGED <<mono, stall, returned, now, swept, at>>
  BY DEF clockVars
<1>2. /\ conn \in [Conns -> ConnType] /\ hist \in [Conns -> HistType]
      /\ \A x \in Conns : Timed(conn[x], hist[x], now)
  BY DEF TimeInv
<1>3. /\ conn' \in [Conns -> ConnType] /\ hist' \in [Conns -> HistType]
      /\ \A x \in Conns : /\ conn'[x] = IF x = c THEN k ELSE conn[x]
                          /\ hist'[x] = IF x = c THEN h ELSE hist[x]
  BY <1>2
<1>4. \A x \in Conns : Timed(conn'[x], hist'[x], now')
  <2> TAKE x \in Conns
  <2>1. CASE x = c
    BY <1>1, <1>3, <2>1
  <2>2. CASE x # c
    BY <1>1, <1>2, <1>3, <2>2
  <2> QED
    BY <2>1, <2>2
<1>5. ClockOK'
  BY <1>1 DEF TimeInv, ClockOK
<1>6. TimeInv'
  BY <1>3, <1>4, <1>5 DEF TimeInv
<1>7. ASSUME SparedInv PROVE SparedInv'
  <2>1. \A x \in Conns : SparedFor(conn'[x], hist'[x], now', swept')
    <3> TAKE x \in Conns
    <3>1. CASE x = c
      BY <1>1, <1>3, <1>7, <3>1 DEF SparedInv
    <3>2. CASE x # c
      BY <1>1, <1>3, <1>7, <3>2 DEF SparedInv
    <3> QED
      BY <3>1, <3>2
  <2> QED
    BY <1>1, <1>7, <2>1 DEF SparedInv
<1> QED
  BY <1>6, <1>7

(* addClientSocket().                                                      *)
LEMMA AcceptStep ==
    ASSUME TimeInv, NEW c \in Conns, NEW p \in {"tls", "first"}, Accept(c, p)
    PROVE  TimeInv' /\ (SparedInv => SparedInv')
<1> DEFINE k == [NoConn EXCEPT !.phase = p, !.phaseAt = now, !.rx = now, !.tx = now]
<1>1. now \in Nat /\ now >= 1 /\ p \in Phases
  BY DEF TimeInv, ClockOK, Phases
<1>2. conn' = [conn EXCEPT ![c] = k] /\ hist' = [hist EXCEPT ![c] = NoHist] /\ UNCHANGED <<clockVars, at>>
  BY DEF Accept
<1>3. /\ k \in ConnType /\ k.phase = p /\ k.phaseAt = now /\ k.rx = now /\ k.tx = now
      /\ k.spared = 0
  <2>1. NoConn \in ConnType /\ NoConn.spared = 0
    BY DEF NoConn, ConnType, Phases
  <2> HIDE DEF NoConn
  <2> QED
    BY <1>1, <2>1 DEF ConnType
<1>4. NoHist \in HistType /\ NoHist.idle = 0
  BY DEF HistType, NoHist
<1> HIDE DEF k
<1>5. Timed(k, NoHist, now)
  BY <1>1, <1>3, <1>4 DEF Timed, SinceOf
<1>6. SparedFor(k, NoHist, now, swept)
  BY <1>3 DEF SparedFor
<1> QED
  BY <1>2, <1>3, <1>4, <1>5, <1>6, OneConn

(* Input arrives.                                                          *)
LEMMA ArriveStep ==
    ASSUME TimeInv, NEW c \in Conns, Arrive(c)
    PROVE  TimeInv' /\ (SparedInv => SparedInv')
<1> DEFINE o == conn[c]
           k == [o EXCEPT !.input = TRUE]
           h == [hist[c] EXCEPT !.input = 0]
<1>1. /\ conn \in [Conns -> ConnType] /\ hist \in [Conns -> HistType] /\ Timed(o, hist[c], now)
      /\ o \in ConnType /\ hist[c] \in HistType
  BY DEF TimeInv
<1>2. conn' = [conn EXCEPT ![c] = k] /\ hist' = [hist EXCEPT ![c] = h] /\ UNCHANGED <<clockVars, at>>
  BY <1>1 DEF Arrive
<1>3. /\ k \in ConnType /\ h \in HistType /\ h.idle = hist[c].idle
      /\ k.phase = o.phase /\ k.phaseAt = o.phaseAt /\ k.rx = o.rx /\ k.tx = o.tx
      /\ k.spared = o.spared /\ k.started = o.started
  BY <1>1 DEF ConnType, HistType
<1>4. ~o.input
  BY DEF Arrive
<1> HIDE DEF o, k, h
<1>5. SinceOf(k) = SinceOf(o)
  BY <1>3 DEF SinceOf
<1>6. Timed(k, h, now)
  BY <1>1, <1>3, <1>5 DEF Timed, Behind
<1>7. SparedFor(o, hist[c], now, swept) => SparedFor(k, h, now, swept)
  BY <1>3, <1>4, <1>5 DEF SparedFor
<1> QED
  BY <1>2, <1>3, <1>6, <1>7, OneConn DEF o

(* EVENT_READ on the plain connection.                                     *)
LEMMA ReadStep ==
    ASSUME TimeInv, NEW c \in Conns, NEW p \in Phases, NEW rest \in BOOLEAN, Read(c, p, rest)
    PROVE  TimeInv' /\ (SparedInv => SparedInv')
<1> DEFINE o == conn[c]
           a == PhaseAt(c)
           i == IF p \in {"body", "out"} \/ a # o.phaseAt THEN 0 ELSE hist[c].idle
           x == IF p = "out" THEN now ELSE o.tx
           k == [phase |-> p, phaseAt |-> a, rx |-> now, tx |-> x, spared |-> o.spared,
                 started |-> p # "out", rest |-> rest, input |-> FALSE]
           h == [idle |-> i, input |-> 0]
<1>1. /\ o \in ConnType /\ hist[c] \in HistType /\ Timed(o, hist[c], now) /\ ClockOK
  BY DEF TimeInv
<1>2. /\ o.phase \in {"first", "header", "body", "keep"}
      /\ p \in {"first", "header", "body", "out"}
      /\ p = "first" => o.phase = "first"
      /\ p = "header" => o.phase \in {"header", "keep"}
  BY <1>1 DEF Read
<1>3. conn' = [conn EXCEPT ![c] = k] /\ hist' = [hist EXCEPT ![c] = h] /\ UNCHANGED <<clockVars, at>>
  BY DEF Read
<1>4. /\ now \in Nat /\ now >= 1 /\ swept \in Nat /\ swept <= now
      /\ o.phaseAt \in 1 .. now /\ o.tx \in 1 .. now /\ o.spared \in Nat /\ o.spared <= now
      /\ o.rx \in 1 .. now /\ hist[c].idle \in Nat
  BY <1>1, <1>2 DEF Timed, ClockOK, ConnType, HistType
<1>5. a = IF o.phase \in {"first", "tls"} \/ o.started THEN o.phaseAt ELSE now
  BY DEF PhaseAt
<1> HIDE DEF o, a
<1>6. /\ a \in 1 .. now /\ x \in 1 .. now /\ i \in Nat
      /\ p \in {"first", "header"} => \/ a = now
                                      \/ a = SinceOf(o) /\ i = hist[c].idle /\ ~Behind(o)
  <2>1. a \in 1 .. now /\ x \in 1 .. now /\ i \in Nat
    BY <1>4, <1>5
  <2>2. ASSUME p \in {"first", "header"}, a # now
        PROVE  a = SinceOf(o) /\ i = hist[c].idle /\ ~Behind(o)
    <3>1. a = o.phaseAt /\ (o.phase = "first" \/ o.phase = "tls" \/ o.started)
      BY <1>5, <2>2
    <3>2. o.phase # "keep"
      BY <1>1, <3>1 DEF Timed
    <3>3. o.phase \in {"first", "header"}
      BY <1>2, <2>2, <3>2
    <3> QED
      BY <2>2, <3>1, <3>3 DEF SinceOf, Behind
  <2> QED
    BY <2>1, <2>2
<1> HIDE DEF i, x
<1>7. k \in ConnType /\ h \in HistType
  BY <1>4, <1>6 DEF ConnType, HistType
<1>8. /\ k.phase = p /\ k.phaseAt = a /\ k.rx = now /\ k.tx = x /\ k.spared = o.spared
      /\ h.idle = i
  OBVIOUS
<1>9. (p = "out" => x = now) /\ (k.started => p # "out")
  BY DEF x
<1> HIDE DEF k, h
<1>10. /\ p \in {"first", "header"} => SinceOf(k) = a
       /\ p \in {"body", "out"} => SinceOf(k) = now
  BY <1>8, <1>9 DEF SinceOf
<1>11. i >= now - SinceOf(k) \/ i >= Cap
  <2>1. CASE SinceOf(k) = now
    BY <1>4, <1>6, <2>1
  <2>2. CASE SinceOf(k) = SinceOf(o) /\ i = hist[c].idle /\ ~Behind(o)
    BY <1>1, <1>2, <2>2 DEF Timed
  <2> QED
    BY <1>2, <1>6, <1>10, <2>1, <2>2
<1>12. Timed(k, h, now)
  <2>1. k.phase \in {"out", "keep"} => ~k.started
    BY <1>2, <1>8, <1>9
  <2>2. {k.phaseAt, k.rx, k.tx} \subseteq 1 .. now /\ k.spared <= now
    BY <1>4, <1>6, <1>8
  <2> QED
    BY <1>8, <1>11, <2>1, <2>2 DEF Timed
<1>13. SparedFor(k, h, now, swept)
  BY <1>2, <1>4, <1>8, <1>10 DEF SparedFor
<1> QED
  BY <1>3, <1>7, <1>12, <1>13, OneConn

(* EVENT_READ during the handshake.                                        *)
LEMMA HandshakeStep ==
    ASSUME TimeInv, NEW c \in Conns, NEW p \in {"tls", "first"}, Handshake(c, p)
    PROVE  TimeInv' /\ (SparedInv => SparedInv')
<1> DEFINE o == conn[c]
           a == IF p = "first" THEN now ELSE o.phaseAt
           i == IF p = "first" THEN 0 ELSE hist[c].idle
           k == [o EXCEPT !.phase = p, !.rx = now, !.input = FALSE, !.phaseAt = a]
           h == [idle |-> i, input |-> 0]
<1>1. /\ o \in ConnType /\ hist[c] \in HistType /\ Timed(o, hist[c], now) /\ ClockOK
  BY DEF TimeInv
<1>2. o.phase = "tls"
  BY DEF Handshake
<1>3. conn' = [conn EXCEPT ![c] = k] /\ hist' = [hist EXCEPT ![c] = h] /\ UNCHANGED <<clockVars, at>>
  BY DEF Handshake
<1>4. /\ now \in Nat /\ now >= 1 /\ o.spared <= now
      /\ o.phaseAt \in 1 .. now /\ o.tx \in 1 .. now /\ hist[c].idle \in Nat
  BY <1>1, <1>2 DEF Timed, ClockOK, HistType
<1>5. a \in 1 .. now /\ i \in Nat /\ (i >= now - a \/ i >= Cap)
  <2>1. hist[c].idle >= now - o.phaseAt \/ hist[c].idle >= Cap
    BY <1>1, <1>2 DEF Timed, SinceOf, Behind
  <2> QED
    BY <1>4, <2>1
<1> HIDE DEF o, a, i
<1>6. k \in ConnType /\ h \in HistType
  <2>1. p \in Phases
    BY DEF Phases
  <2>2. a \in Nat
    BY <1>4, <1>5
  <2>3. k \in ConnType
    BY <1>1, <1>4, <2>1, <2>2 DEF ConnType
  <2>4. h \in HistType
    BY <1>5 DEF HistType
  <2> QED
    BY <2>3, <2>4
<1>7. k.phase = p /\ k.phaseAt = a /\ k.rx = now /\ k.tx = o.tx /\ k.spared = o.spared /\ h.idle = i
  BY <1>1 DEF ConnType
<1> HIDE DEF k, h
<1>8. Timed(k, h, now)
  BY <1>4, <1>5, <1>7 DEF Timed, SinceOf
<1>9. SparedFor(k, h, now, swept)
  BY <1>7 DEF SparedFor
<1> QED
  BY <1>3, <1>6, <1>8, <1>9, OneConn

(* EVENT_WRITE.                                                            *)
LEMMA WriteStep ==
    ASSUME TimeInv, NEW c \in Conns, NEW p \in Phases, Write(c, p)
    PROVE  TimeInv' /\ (SparedInv => SparedInv')
<1> DEFINE o == conn[c]
           g == hist[c]
           k == [o EXCEPT !.phase = p, !.tx = now]
           h == IF p = "header" THEN [idle |-> g.input, input |-> 0] ELSE [g EXCEPT !.idle = 0]
<1>1. o \in ConnType /\ g \in HistType /\ Timed(o, g, now) /\ ClockOK
  BY DEF TimeInv
<1>2. o.phase = "out" /\ p \in {"out", "header", "keep"}
  BY DEF Write
<1>3. conn' = [conn EXCEPT ![c] = k] /\ hist' = [hist EXCEPT ![c] = h] /\ UNCHANGED <<clockVars, at>>
  BY DEF Write
<1>4. /\ now \in Nat /\ now >= 1 /\ o.spared <= now /\ swept \in Nat /\ swept <= now /\ ~o.started
      /\ o.phaseAt \in 1 .. now /\ o.rx \in 1 .. now
  BY <1>1, <1>2 DEF Timed, ClockOK
<1> HIDE DEF o, g
<1>5. h \in HistType /\ (p # "header" => h.idle = 0)
  BY <1>1 DEF HistType
<1>6. k \in ConnType
  BY <1>1, <1>2, <1>4 DEF ConnType
<1>7. /\ k.phase = p /\ k.phaseAt = o.phaseAt /\ k.rx = o.rx /\ k.tx = now /\ k.spared = o.spared
      /\ k.started = o.started
  BY <1>1 DEF ConnType
<1> HIDE DEF k, h
<1>8. p # "header" => SinceOf(k) = now
  BY <1>2, <1>7 DEF SinceOf
<1>9. p = "header" => Behind(k)
  BY <1>4, <1>7 DEF Behind
<1>10. Timed(k, h, now)
  BY <1>2, <1>4, <1>5, <1>7, <1>8, <1>9 DEF Timed
<1>11. SparedFor(k, h, now, swept)
  BY <1>2, <1>4, <1>7, <1>8 DEF SparedFor
<1> QED
  BY <1>3, <1>5, <1>6, <1>10, <1>11, OneConn

-----------------------------------------------------------------------------
(* The clock.                                                              *)

(* A wait of d seconds moves the clock of the loop by d and by at most one *)
(* second of what the handlers took.                                       *)
LEMMA WaitStep ==
    ASSUME TimeInv, NEW d \in 0 .. 1, Wait(d)
    PROVE  TimeInv' /\ (SparedInv => SparedInv')
<1> DEFINE m == Min({Busy, 1})
           e == d + m
<1>1. /\ ClockOK /\ conn \in [Conns -> ConnType] /\ hist \in [Conns -> HistType]
      /\ {mono, stall, returned, now, swept} \subseteq Nat
      /\ \A c \in Conns : Timed(conn[c], hist[c], now)
  BY DEF TimeInv, ClockOK
<1>2. Busy \in Nat /\ mono = returned + Busy
  BY <1>1 DEF Busy, ClockOK
<1>3. m \in 0 .. 1 /\ StallOf(Busy) \in Nat /\ StallOf(Busy) + m = Busy /\ m <= Busy
  <2> HIDE DEF Busy
  <2>1. m = IF Busy <= 1 THEN Busy ELSE 1
    BY <1>2, MinIs
  <2> HIDE DEF m
  <2> QED
    BY <1>2, <2>1 DEF StallOf
<1>4. /\ at = "wait" /\ at' = "dispatch" /\ conn' = conn /\ swept' = swept
      /\ stall' = stall + StallOf(Busy) /\ mono' = mono + d /\ returned' = mono'
      /\ now' = mono' - stall'
  BY DEF Wait
<1>5. hist' = [c \in Conns |->
                 [idle  |-> IF c \in Open THEN Older(hist[c].idle, e) ELSE 0,
                  input |-> IF conn[c].input \/ (conn[c].phase = "out" /\ conn[c].rest)
                              THEN Older(hist[c].input, e) ELSE 0]]
  BY DEF Wait
<1> HIDE DEF Busy, m
<1>6. /\ e \in 0 .. 2 /\ e \in Nat /\ now' = now + e /\ {mono, stall, returned, now, swept}' \subseteq Nat
      /\ e <= 1 + Busy
  BY <1>1, <1>2, <1>3, <1>4 DEF ClockOK
<1> HIDE DEF e
<1>7. ClockOK'
  BY <1>1, <1>4, <1>6 DEF ClockOK
<1>8. Cap \in Nat /\ Cap >= 2
  BY CapIs
<1>9. ASSUME NEW c \in Conns
      PROVE  /\ hist'[c] \in HistType
             /\ Timed(conn'[c], hist'[c], now')
             /\ SparedFor(conn[c], hist[c], now, swept) => SparedFor(conn'[c], hist'[c], now', swept')
  <2> DEFINE k == conn[c]
             h == hist[c]
             a == IF c \in Open THEN Older(h.idle, e) ELSE 0
             b == IF k.input \/ (k.phase = "out" /\ k.rest) THEN Older(h.input, e) ELSE 0
  <2>1. k \in ConnType /\ h \in HistType /\ h.idle \in Nat /\ h.input \in Nat /\ Timed(k, h, now)
    BY <1>1 DEF HistType
  <2>2. /\ Older(h.idle, e) \in Nat /\ Older(h.input, e) \in Nat
        /\ Older(h.idle, e) = IF h.idle + e <= Cap THEN h.idle + e ELSE Cap
        /\ Older(h.input, e) = IF h.input + e <= Cap THEN h.input + e ELSE Cap
    <3> HIDE DEF h
    <3> QED
      BY <1>6, <2>1, OlderIs
  <2>3. hist'[c] = [idle |-> a, input |-> b]
    BY <1>5
  <2>4. a \in Nat /\ b \in Nat
    BY <2>2
  <2>5. /\ k.phase # "none" => a = IF h.idle + e <= Cap THEN h.idle + e ELSE Cap
        /\ k.input => b = IF h.input + e <= Cap THEN h.input + e ELSE Cap
    BY <2>2 DEF Open
  <2> HIDE DEF k, h, a, b
  <2>6. hist'[c] \in HistType /\ hist'[c].idle = a /\ hist'[c].input = b
    BY <2>3, <2>4 DEF HistType
  <2>7. conn'[c] = k
    BY <1>4 DEF k
  <2>8. Timed(k, hist'[c], now')
    <3>1. k.phase # "none" => SinceOf(k) \in Nat
      BY <2>1 DEF SinceOf, ConnType
    <3>2. ASSUME k.phase # "none"
          PROVE  /\ {k.phaseAt, k.rx, k.tx} \subseteq 1 .. now' /\ k.spared <= now'
                 /\ a >= now' - SinceOf(k) \/ a >= Cap \/ Behind(k)
      <4>1. /\ {k.phaseAt, k.rx, k.tx} \subseteq 1 .. now /\ k.spared <= now
            /\ h.idle >= now - SinceOf(k) \/ h.idle >= Cap \/ Behind(k)
        BY <2>1, <3>2 DEF Timed
      <4>2. k.spared \in Nat /\ now \in Nat
        BY <1>1, <2>1 DEF ConnType
      <4>3. {k.phaseAt, k.rx, k.tx} \subseteq 1 .. now' /\ k.spared <= now'
        BY <1>6, <4>1, <4>2
      <4>4. a >= now' - SinceOf(k) \/ a >= Cap \/ Behind(k)
        BY <1>6, <1>8, <2>1, <2>5, <3>1, <3>2, <4>1, <4>2
      <4> QED
        BY <4>3, <4>4
    <3> QED
      BY <2>1, <2>6, <3>2 DEF Timed
  <2>9. SparedFor(k, h, now, swept) => SparedFor(k, hist'[c], now', swept')
    <3> SUFFICES ASSUME SparedFor(k, h, now, swept), k.phase \in {"keep", "body"}, k.spared # 0,
                        ~(SinceOf(k) >= swept)
                 PROVE  k.input /\ (b >= now' - k.spared \/ b >= 2)
      BY <1>4, <2>6 DEF SparedFor
    <3>1. k.input /\ (h.input >= now - k.spared \/ h.input >= 2) /\ k.spared \in Nat /\ now \in Nat
      BY <1>1, <2>1 DEF SparedFor, ConnType
    <3> QED
      BY <1>6, <1>8, <2>1, <2>5, <3>1
  <2> QED
    BY <2>6, <2>7, <2>8, <2>9 DEF k, h
<1>10. TimeInv'
  <2>1. hist' \in [Conns -> HistType]
    <3>1. hist' = [c \in Conns |-> hist'[c]]
      BY <1>5
    <3> QED
      BY <1>9, <3>1
  <2> QED
    BY <1>1, <1>4, <1>7, <1>9, <2>1 DEF TimeInv
<1>11. ASSUME SparedInv PROVE SparedInv'
  <2>1. now' - swept' <= 2
    <3>1. swept = now \/ (swept = 0 /\ now = 1 /\ mono = returned)
      BY <1>4, <1>11 DEF SparedInv
    <3>2. mono = returned => Busy = 0
      BY <1>1, <1>2
    <3> QED
      BY <1>1, <1>4, <1>6, <3>1, <3>2, <1>2
  <2> QED
    BY <1>4, <1>9, <1>11, <2>1 DEF SparedInv
<1> QED
  BY <1>10, <1>11

(* A handler that blocks moves the time and nothing else.                  *)
LEMMA BlockStep ==
    ASSUME TimeInv, NEW d \in 1 .. MaxBlock, Block(d)
    PROVE  TimeInv' /\ (SparedInv => SparedInv')
<1>1. /\ mono' = mono + d /\ UNCHANGED <<stall, returned, now, swept, at, conn, hist>>
      /\ at = "dispatch" /\ d \in Nat
  BY ConnTimeoutAssumption DEF Block
<1>2. ClockOK'
  BY <1>1 DEF TimeInv, ClockOK
<1> QED
  BY <1>1, <1>2 DEF TimeInv, SparedInv

-----------------------------------------------------------------------------
(* Closing.                                                                *)

(* Connections leave, the others keep their stamps.                        *)
LEMMA ClosedStep ==
    ASSUME TimeInv, NEW S, NEW cs, Closed(S, cs),
           \A c \in Conns : cs[c] \in ConnType /\ Timed(cs[c], hist[c], now),
           UNCHANGED <<mono, stall, returned, now>>, swept' \in {swept, now},
           at' \in {"wait", "dispatch"}
    PROVE  /\ TimeInv'
           /\ \A c \in Conns : /\ conn'[c] = IF c \in S THEN NoConn ELSE cs[c]
                               /\ c \notin S => hist'[c] = hist[c]
<1>1. /\ conn' = [c \in Conns |-> IF c \in S THEN NoConn ELSE cs[c]]
      /\ hist' = [c \in Conns |-> IF c \in S THEN NoHist ELSE hist[c]]
  BY DEF Closed
<1>2. NoConn \in ConnType /\ NoConn.phase = "none" /\ NoHist \in HistType
  BY DEF NoConn, NoHist, ConnType, HistType, Phases
<1>3. Timed(NoConn, NoHist, now)
  BY <1>2 DEF Timed
<1>4. conn' \in [Conns -> ConnType] /\ hist' \in [Conns -> HistType]
  BY <1>1, <1>2 DEF TimeInv
<1>5. \A c \in Conns : Timed(conn'[c], hist'[c], now')
  BY <1>1, <1>3
<1>6. ClockOK'
  BY DEF TimeInv, ClockOK
<1> QED
  BY <1>1, <1>4, <1>5, <1>6 DEF TimeInv

(* The peer is gone.                                                       *)
LEMMA GoneStep ==
    ASSUME TimeInv, NEW c \in Conns, PeerGone(c)
    PROVE  TimeInv' /\ (SparedInv => SparedInv')
<1>1. Closed({c}, conn) /\ UNCHANGED <<mono, stall, returned, now, swept, at>>
  BY DEF PeerGone, clockVars
<1>2. \A x \in Conns : conn[x] \in ConnType /\ Timed(conn[x], hist[x], now)
  BY DEF TimeInv
<1>3. at' \in {"wait", "dispatch"} /\ swept' \in {swept, now}
  BY <1>1 DEF TimeInv, ClockOK
<1>4. /\ TimeInv'
      /\ \A x \in Conns : /\ conn'[x] = IF x \in {c} THEN NoConn ELSE conn[x]
                          /\ x \notin {c} => hist'[x] = hist[x]
  BY <1>1, <1>2, <1>3, ClosedStep
<1>5. ASSUME SparedInv, NEW x \in Conns PROVE SparedFor(conn'[x], hist'[x], now', swept')
  <2>1. CASE x = c
    BY <1>4, <2>1 DEF SparedFor, NoConn
  <2>2. CASE x # c
    BY <1>1, <1>4, <1>5, <2>2 DEF SparedInv
  <2> QED
    BY <2>1, <2>2
<1> QED
  BY <1>1, <1>4, <1>5 DEF SparedInv

-----------------------------------------------------------------------------
(* The sweep.                                                              *)

(* conn_timeout_action() looks at the stamp that SinceOf names and at one  *)
(* of the limits.                                                          *)
LEMMA SinceIs ==
    ASSUME TimeInv, NEW c \in Open
    PROVE  /\ Since(c) = SinceOf(conn[c])
           /\ Limit(c) \in {HeaderTime, KeepAlive, ReceiveIdle, SendIdle}
           /\ conn[c].phase = "keep" => Limit(c) = KeepAlive
           /\ conn[c].phase = "body" => Limit(c) = ReceiveIdle
           /\ c \in Conns /\ conn[c].phase # "none"
           /\ Since(c) \in Nat /\ Limit(c) \in Nat
<1>1. c \in Conns /\ conn[c].phase # "none"
  BY DEF Open
<1>2. conn[c] \in ConnType
  BY <1>1 DEF TimeInv
<1>3. conn[c].phase \in {"tls", "first", "header", "body", "out", "keep"}
  BY <1>1, <1>2 DEF ConnType, Phases
<1>4. Since(c) = SinceOf(conn[c])
  BY <1>3 DEF Since, SinceOf
<1>5. /\ Limit(c) \in {HeaderTime, KeepAlive, ReceiveIdle, SendIdle}
      /\ conn[c].phase = "keep" => Limit(c) = KeepAlive
      /\ conn[c].phase = "body" => Limit(c) = ReceiveIdle
  BY <1>3 DEF Limit
<1>6. SinceOf(conn[c]) \in Nat
  BY <1>2 DEF SinceOf, ConnType
<1> QED
  BY <1>1, <1>4, <1>5, <1>6, ConnTimeoutAssumption

(* When close_list has room for all that are due the walk reaches the end. *)
LEMMA VisitedAll ==
    ASSUME Cardinality(Due) <= SweepMax
    PROVE  Open \subseteq Visited
<1> SUFFICES ASSUME NEW c \in Open PROVE c \in Visited
  OBVIOUS
<1> DEFINE D == {x \in Due : place[x] <= place[c]}
<1>1. IsFiniteSet(Due)
  BY ConnTimeoutAssumption, FS_Subset DEF Due, Open
<1>2. D \subseteq Due /\ IsFiniteSet(D) /\ Cardinality(D) <= Cardinality(Due)
  BY <1>1, FS_Subset
<1>3. Cardinality(D) \in Nat /\ Cardinality(Due) \in Nat /\ SweepMax \in Nat
  BY <1>1, <1>2, FS_CardinalityType, ConnTimeoutAssumption
<1>4. Cardinality(D) <= SweepMax
  <2> HIDE DEF D
  <2> QED
    BY <1>2, <1>3
<1> QED
  BY <1>4 DEF Visited

(* A connection that is past its limit has not been read since the last    *)
(* sweep.                                                                  *)
LEMMA ExpiredOld ==
    ASSUME TimeInv, LimitsLong, NEW c \in Open, conn_expired(c), now - swept <= 2,
           conn[c].phase \in {"keep", "body"}
    PROVE  ~(SinceOf(conn[c]) >= swept)
<1>1. /\ Since(c) = SinceOf(conn[c]) /\ Since(c) \in Nat
      /\ Limit(c) \in {KeepAlive, ReceiveIdle} /\ Limit(c) \in Nat
  BY SinceIs
<1>2. Limit(c) >= 3 /\ now - Since(c) >= Limit(c)
  BY <1>1 DEF LimitsLong, conn_expired
<1>3. now \in Nat /\ swept \in Nat
  BY DEF TimeInv, ClockOK
<1> QED
  BY <1>1, <1>2, <1>3

(* eventLoopAfterDispatch(): a sweep that reaches the end of the list      *)
(* leaves spared_at only where input waits.                                *)
LEMMA SweepStep ==
    ASSUME TimeInv, eventLoopAfterDispatch
    PROVE  TimeInv' /\ (SparedInv /\ LimitsLong /\ ~more' => SparedInv')
<1>1. /\ at = "dispatch" /\ at' = "wait" /\ UNCHANGED <<mono, stall, returned, now>>
  BY DEF eventLoopAfterDispatch
<1>2. CASE ~(now # swept \/ more)
  <2>1. now = swept /\ UNCHANGED <<swept, conn, hist>>
    BY <1>2 DEF eventLoopAfterDispatch
  <2>2. ClockOK'
    BY <1>1, <2>1 DEF TimeInv, ClockOK
  <2> QED
    BY <1>1, <2>1, <2>2 DEF TimeInv, SparedInv
<1>3. CASE now # swept \/ more
  <2> DEFINE S == {c \in Collected : ~Spares(c)}
             cs == [c \in Conns |-> [conn[c] EXCEPT !.spared = SparedAt(c)]]
  <2>1. swept' = now /\ Closed(S, cs)
    BY <1>3 DEF eventLoopAfterDispatch, Swept
  <2>2. Cardinality(Due) > SweepMax => more'
    BY <1>3, Zenon DEF eventLoopAfterDispatch
  <2>3. ASSUME NEW c \in Conns
        PROVE  LET k == conn[c]
                   n == cs[c]
               IN  /\ n \in ConnType /\ n.spared = SparedAt(c)
                   /\ n.phase = k.phase /\ n.phaseAt = k.phaseAt /\ n.rx = k.rx /\ n.tx = k.tx
                   /\ n.started = k.started /\ n.input = k.input
                   /\ SinceOf(n) = SinceOf(k)
                   /\ Timed(n, hist[c], now)
    <3> DEFINE k == conn[c]
               s == SparedAt(c)
               n == [k EXCEPT !.spared = s]
    <3>1. cs[c] = n
      OBVIOUS
    <3>2. k \in ConnType /\ Timed(k, hist[c], now) /\ now \in Nat
      BY DEF TimeInv, ClockOK
    <3>3. s \in Nat /\ (k.phase # "none" => s <= now)
      <4>1. s \in {now, 0, k.spared}
        BY DEF SparedAt
      <4>2. k.spared \in Nat /\ (k.phase # "none" => k.spared <= now)
        BY <3>2 DEF ConnType, Timed
      <4> HIDE DEF s, k
      <4> QED
        BY <3>2, <4>1, <4>2
    <3> HIDE DEF k, s
    <3>4. /\ n \in ConnType /\ n.spared = s
          /\ n.phase = k.phase /\ n.phaseAt = k.phaseAt /\ n.rx = k.rx /\ n.tx = k.tx
          /\ n.started = k.started /\ n.input = k.input
      BY <3>2, <3>3 DEF ConnType
    <3> HIDE DEF n
    <3>5. SinceOf(n) = SinceOf(k)
      BY <3>4 DEF SinceOf
    <3>6. Timed(n, hist[c], now)
      BY <3>2, <3>3, <3>4, <3>5 DEF Timed, Behind
    <3>7. cs[c] = n /\ conn[c] = k /\ SparedAt(c) = s
      BY <3>1 DEF k, s
    <3> HIDE DEF cs
    <3> QED
      BY <3>4, <3>5, <3>6, <3>7
  <2> HIDE DEF S, cs
  <2>4. /\ TimeInv'
        /\ \A c \in Conns : /\ conn'[c] = IF c \in S THEN NoConn ELSE cs[c]
                            /\ c \notin S => hist'[c] = hist[c]
    BY <1>1, <2>1, <2>3, ClosedStep
  <2>5. ASSUME SparedInv, LimitsLong, ~more', NEW c \in Conns
        PROVE  SparedFor(conn'[c], hist'[c], now', swept')
    <3>1. CASE c \in S
      BY <2>4, <3>1 DEF SparedFor, NoConn
    <3>2. CASE c \notin S
      <4> DEFINE k == conn[c]
      <4>1. /\ conn'[c] = cs[c] /\ hist'[c] = hist[c]
            /\ cs[c].phase = k.phase /\ cs[c].spared = SparedAt(c) /\ (k.input => cs[c].input)
        BY <2>3, <2>4, <3>2
      <4> SUFFICES ASSUME k.phase \in {"keep", "body"}, SparedAt(c) # 0
                   PROVE  k.input /\ (hist[c].input >= now - SparedAt(c) \/ hist[c].input >= 2)
        BY <1>1, <4>1 DEF SparedFor
      <4>2. c \in Open
        BY DEF Open
      <4>3. now \in Nat /\ hist[c] \in HistType /\ hist[c].input \in Nat
        BY DEF TimeInv, ClockOK, HistType
      <4>4. c \in Visited
        <5>1. Cardinality(Due) \in Nat
          BY ConnTimeoutAssumption, FS_Subset, FS_CardinalityType DEF Due, Open
        <5>2. Cardinality(Due) <= SweepMax
          BY <2>5, <2>2, <5>1, ConnTimeoutAssumption
        <5> QED
          BY <4>2, <5>2, VisitedAll
      <4>5. CASE c \in Collected
        <5>1. Spares(c) /\ SparedAt(c) = now
          BY <3>2, <4>5 DEF S, SparedAt
        <5> QED
          BY <4>3, <5>1 DEF Spares
      <4>6. CASE c \notin Collected
        <5>1. conn_expired(c) /\ SparedAt(c) = k.spared
          BY <4>4, <4>6 DEF SparedAt
        <5>2. SparedFor(k, hist[c], now, swept) /\ now - swept <= 2
          BY <1>1, <2>5 DEF SparedInv
        <5>3. ~(SinceOf(k) >= swept)
          BY <2>5, <4>2, <5>1, <5>2, ExpiredOld
        <5> QED
          BY <5>1, <5>2, <5>3 DEF SparedFor
      <4> QED
        BY <4>5, <4>6
    <3> QED
      BY <3>1, <3>2
  <2> QED
    BY <1>1, <2>1, <2>4, <2>5 DEF SparedInv
<1> QED
  BY <1>2, <1>3

-----------------------------------------------------------------------------
(* The invariants hold.                                                    *)

(* They hold at the start.                                                 *)
LEMMA TimeInit == Init => TimeInv /\ SparedInv
<1> SUFFICES ASSUME Init PROVE TimeInv /\ SparedInv
  OBVIOUS
<1>1. NoConn \in ConnType /\ NoConn.phase = "none" /\ NoHist \in HistType
  BY DEF NoConn, NoHist, ConnType, HistType, Phases
<1>2. \A c \in Conns : conn[c] = NoConn /\ hist[c] = NoHist
  BY DEF Init
<1>3. ClockOK
  BY DEF Init, ClockOK
<1>4. Timed(NoConn, NoHist, now) /\ SparedFor(NoConn, NoHist, now, swept)
  BY <1>1 DEF Timed, SparedFor
<1>5. conn \in [Conns -> ConnType] /\ hist \in [Conns -> HistType]
  BY <1>1 DEF Init
<1>6. /\ at = "wait" => swept = now \/ (swept = 0 /\ now = 1 /\ mono = returned)
      /\ at = "dispatch" => now - swept <= 2
  BY DEF Init
<1> QED
  BY <1>2, <1>3, <1>4, <1>5, <1>6 DEF TimeInv, SparedInv

(* And every step of the loop, of a connection and of the time keeps them, *)
(* the second one as long as the sweep is complete.                        *)
LEMMA TimeStep ==
    ASSUME TimeInv, [Next]_vars
    PROVE  TimeInv' /\ (SparedInv /\ LimitsLong /\ ~more' => SparedInv')
<1> DEFINE Goal == TimeInv' /\ (SparedInv /\ LimitsLong /\ ~more' => SparedInv')
<1>1. CASE UNCHANGED vars
  <2>1. UNCHANGED <<mono, stall, returned, now, swept, at, conn, hist>>
    BY <1>1 DEF vars
  <2>2. ClockOK'
    BY <2>1 DEF TimeInv, ClockOK
  <2> QED
    BY <2>1, <2>2 DEF TimeInv, SparedInv
<1>2. CASE \E d \in 0 .. 1 : Wait(d)
  BY <1>2, WaitStep
<1>3. CASE \E d \in 1 .. MaxBlock : Block(d)
  BY <1>3, BlockStep
<1>4. ASSUME NEW c \in Conns, NEW p \in {"tls", "first"}, Accept(c, p) \/ Handshake(c, p)
      PROVE  Goal
  BY <1>4, AcceptStep, HandshakeStep
<1>5. ASSUME NEW c \in Conns, NEW p \in Phases, NEW rest \in BOOLEAN, Read(c, p, rest)
      PROVE  Goal
  BY <1>5, ReadStep
<1>6. ASSUME NEW c \in Conns, NEW p \in Phases, Write(c, p)
      PROVE  Goal
  BY <1>6, WriteStep
<1>7. ASSUME NEW c \in Conns, Arrive(c) \/ PeerGone(c)
      PROVE  Goal
  BY <1>7, ArriveStep, GoneStep
<1>8. CASE eventLoopAfterDispatch
  BY <1>8, SweepStep
<1>9. CASE Done
  BY <1>1, <1>9 DEF Done
<1> HIDE DEF Goal
<1>10. Goal
  BY <1>1, <1>2, <1>3, <1>4, <1>5, <1>6, <1>7, <1>8, <1>9 DEF Next, Goal
<1> QED
  BY <1>10 DEF Goal

-----------------------------------------------------------------------------
(* What the sweep closes.                                                  *)

(* An HTTP connection that is gone after the sweep was due and not spared. *)
LEMMA SweptAwayIs ==
    ASSUME TimeInv, [Next]_vars, NEW c \in Conns, SweptAway(c)
    PROVE  c \in Open /\ conn_expired(c) /\ ~RecentlySpared(c) /\ ~Spares(c)
<1>1. at = "dispatch" /\ at' = "wait" /\ c \in Open /\ conn'[c].phase = "none"
  BY DEF SweptAway
<1>2. eventLoopAfterDispatch
  <2>1. at' # at
    BY <1>1
  <2>2. ~(UNCHANGED vars) /\ ~Done
    BY <2>1 DEF vars, Done
  <2>3. \A d \in 0 .. 1 : ~Wait(d)
    BY <1>1 DEF Wait
  <2>4. \A d \in 1 .. MaxBlock : ~Block(d)
    BY <2>1 DEF Block
  <2>5. \A x \in Conns, p \in {"tls", "first"} : ~Accept(x, p) /\ ~Handshake(x, p)
    BY <2>1 DEF Accept, Handshake
  <2>6. \A x \in Conns, p \in Phases, rest \in BOOLEAN : ~Read(x, p, rest)
    BY <2>1 DEF Read
  <2>7. \A x \in Conns, p \in Phases : ~Write(x, p)
    BY <2>1 DEF Write
  <2>8. \A x \in Conns : ~Arrive(x) /\ ~PeerGone(x)
    BY <2>1 DEF Arrive, PeerGone
  <2> QED
    BY <2>2, <2>3, <2>4, <2>5, <2>6, <2>7, <2>8 DEF Next
<1>3. conn[c] \in ConnType /\ conn[c].phase # "none"
  BY <1>1 DEF Open, TimeInv
<1>4. Swept
  BY <1>1, <1>2, <1>3 DEF eventLoopAfterDispatch
<1> DEFINE S == {x \in Collected : ~Spares(x)}
           cs == [x \in Conns |-> [conn[x] EXCEPT !.spared = SparedAt(x)]]
<1>5. conn'[c] = IF c \in S THEN NoConn ELSE cs[c]
  BY <1>4 DEF Swept, Closed
<1>6. cs[c].phase = conn[c].phase
  BY <1>3 DEF ConnType
<1>7. c \in S
  <2> HIDE DEF S, cs
  <2> QED
    BY <1>1, <1>3, <1>5, <1>6
<1> QED
  BY <1>1, <1>7 DEF Collected, Due

(* A connection that has expired has been idle for its limit: what the     *)
(* stamps say is never more than the unblocked time, but for a header that *)
(* began behind the request before.                                        *)
LEMMA ExpiredIdle ==
    ASSUME TimeInv, NEW c \in Open, conn_expired(c)
    PROVE  hist[c].idle >= Limit(c) \/ Pipelined(c)
<1>1. /\ Since(c) = SinceOf(conn[c]) /\ Since(c) \in Nat /\ Limit(c) \in Nat
      /\ Limit(c) \in {HeaderTime, KeepAlive, ReceiveIdle, SendIdle}
      /\ c \in Conns /\ conn[c].phase # "none"
  BY SinceIs
<1>2. Timed(conn[c], hist[c], now) /\ hist[c] \in HistType /\ now \in Nat
  BY <1>1 DEF TimeInv, ClockOK
<1>3. /\ hist[c].idle \in Nat
      /\ hist[c].idle >= now - Since(c) \/ hist[c].idle >= Cap \/ Pipelined(c)
  BY <1>1, <1>2 DEF Timed, HistType, Behind, Pipelined
<1>4. Limit(c) <= Cap /\ Cap \in Nat
  BY <1>1, CapIs
<1> QED
  BY <1>1, <1>2, <1>3, <1>4 DEF conn_expired

(* A connection between requests or within a body whose input has just     *)
(* come is spared.                                                         *)
LEMMA FreshIsSpared ==
    ASSUME TimeInv, SparedInv, LimitsLong, at = "dispatch", NEW c \in Open, conn_expired(c),
           ~RecentlySpared(c), ~Spares(c), conn[c].input, conn[c].phase \in {"keep", "body"}
    PROVE  hist[c].input >= 2
<1>1. c \in Conns
  BY DEF Open
<1>2. conn[c] \in ConnType /\ hist[c] \in HistType /\ now \in Nat
  BY <1>1 DEF TimeInv, ClockOK
<1>3. conn[c].spared \in Nat /\ hist[c].input \in Nat
  BY <1>2 DEF ConnType, HistType
<1>4. conn[c].spared # 0 /\ now - conn[c].spared >= 2
  BY <1>2, <1>3 DEF Spares, RecentlySpared, IfIdle
<1>5. SparedFor(conn[c], hist[c], now, swept) /\ now - swept <= 2
  BY <1>1 DEF SparedInv
<1>6. ~(SinceOf(conn[c]) >= swept)
  BY <1>5, ExpiredOld
<1> QED
  BY <1>2, <1>3, <1>4, <1>5, <1>6 DEF SparedFor

\* The first half of SweptForReason.
NotBeforeTime ==
    [][\A c \in Conns : SweptAway(c) => hist[c].idle >= Limit(c) \/ Pipelined(c)]_vars

(* connTimeoutSweep() closes no connection before its own time is up: for  *)
(* any limits, any number of connections and any length of close_list, the *)
(* unblocked seconds since the stamp that applies have reached the limit.  *)
(* The exception is a header of which only what came behind the request    *)
(* before has been received, for which phase_at is not set.                *)
THEOREM NoneTooEarly == Spec => NotBeforeTime
<1>1. Init => TimeInv
  BY TimeInit
<1>2. TimeInv /\ [Next]_vars => TimeInv'
  BY TimeStep
<1>3. TimeInv /\ [Next]_vars =>
         [\A c \in Conns : SweptAway(c) => hist[c].idle >= Limit(c) \/ Pipelined(c)]_vars
  BY SweptAwayIs, ExpiredIdle
<1> QED
  BY <1>1, <1>2, <1>3, PTL DEF Spec, NotBeforeTime

\* Every sweep has reached the end of the list.
SweepsComplete == [](more = FALSE)

(* With limits of at least three seconds, and as long as no sweep ends     *)
(* early, input that has been waiting for less than two seconds keeps its  *)
(* connection when connTimeoutSweep() finds it expired.                    *)
THEOREM FreshInputKept ==
    ASSUME LimitsLong
    PROVE  Spec /\ SweepsComplete => SweptForReason
<1> DEFINE A == \A c \in Conns : SweptAway(c) =>
                   /\ hist[c].idle >= Limit(c) \/ Pipelined(c)
                   /\ conn[c].input /\ conn[c].phase \in {"keep", "body"} => hist[c].input >= 2
<1>1. Init => TimeInv /\ SparedInv
  BY TimeInit
<1>2. TimeInv /\ SparedInv /\ [Next]_vars /\ (more = FALSE)' => (TimeInv /\ SparedInv)'
  BY TimeStep
<1>3. TimeInv /\ SparedInv /\ [Next]_vars => [A]_vars
  <2> SUFFICES ASSUME TimeInv, SparedInv, [Next]_vars, NEW c \in Conns, SweptAway(c)
               PROVE  /\ hist[c].idle >= Limit(c) \/ Pipelined(c)
                      /\ conn[c].input /\ conn[c].phase \in {"keep", "body"} => hist[c].input >= 2
    OBVIOUS
  <2>1. c \in Open /\ conn_expired(c) /\ ~RecentlySpared(c) /\ ~Spares(c)
    BY SweptAwayIs
  <2>2. at = "dispatch"
    BY DEF SweptAway
  <2> QED
    BY <2>1, <2>2, ExpiredIdle, FreshIsSpared
<1>4. [][A]_vars => SweptForReason
  BY DEF SweptForReason
<1> HIDE DEF A
<1> QED
  BY <1>1, <1>2, <1>3, <1>4, PTL DEF Spec, SweepsComplete
=============================================================================
