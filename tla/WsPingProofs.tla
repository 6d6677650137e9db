--------------------------- MODULE WsPingProofs ---------------------------
(***************************************************************************)
(* Proofs about WsPing, for any sizes of chunks and frames and any limits: *)
(* the sweep knows exactly when its ping is out, it closes a websocket for *)
(* a reason only, and with the timeouts switched on it closes a silent one *)
(* in time.                                                                *)
(***************************************************************************)
EXTENDS WsPing, TLAPS

-----------------------------------------------------------------------------
(* Numbers.                                                                *)

(* The smaller of two numbers.                                             *)
LEMMA MinIs ==
    ASSUME NEW a \in Int, NEW b \in Int
    PROVE  Min({a, b}) = IF a <= b THEN a ELSE b
<1> DEFINE m == IF a <= b THEN a ELSE b
<1>1. m \in {a, b} /\ \A y \in {a, b} : m <= y
  OBVIOUS
<1>2. \A x \in {a, b} : (\A y \in {a, b} : x <= y) => x = m
  OBVIOUS
<1> QED
  BY <1>1, <1>2 DEF Min

(* The larger of two numbers.                                              *)
LEMMA MaxIs ==
    ASSUME NEW a \in Int, NEW b \in Int
    PROVE  Max({a, b}) = IF a >= b THEN a ELSE b
<1> DEFINE m == IF a >= b THEN a ELSE b
<1>1. m \in {a, b} /\ \A y \in {a, b} : m >= y
  OBVIOUS
<1>2. \A x \in {a, b} : (\A y \in {a, b} : x >= y) => x = m
  OBVIOUS
<1> QED
  BY <1>1, <1>2 DEF Max

(* As many chunks as it takes, and no more.                                *)
LEMMA ChunksNeeded ==
    ASSUME NEW r \in Nat, NEW e, e = (r + ChunkSize - 1) \div ChunkSize
    PROVE  /\ e \in Nat /\ r <= e * ChunkSize
           /\ r = 0 => e = 0
           /\ r > 0 => e >= 1 /\ (e - 1) * ChunkSize < r
<1> DEFINE C == ChunkSize
           x == r + C - 1
<1>1. C \in Nat /\ C > 0
  BY WsPingAssumption
<1>2. x \in Nat /\ e = x \div C
  BY <1>1
<1> HIDE DEF C, x
<1>3. e \in Int /\ e * C <= x /\ x < e * C + C
  <2>1. x \div C \in Int
    BY <1>1, <1>2
  <2>2. (x \div C) * C <= x
    BY <1>1, <1>2
  <2>3. x < (x \div C) * C + C
    BY <1>1, <1>2
  <2> QED
    BY <1>2, <2>1, <2>2, <2>3
<1>4. (e - 1) * C = e * C - C
  BY <1>1, <1>3
<1>5. e * C \in Int /\ x = r + C - 1
  BY <1>1, <1>3 DEF x
<1>6. e >= 0
  <2> SUFFICES ASSUME e <= -1 PROVE FALSE
    BY <1>3
  <2>1. e * C <= -C
    BY <1>1, <1>3
  <2> QED
    BY <1>1, <1>2, <1>3, <1>5, <2>1
<1>7. r <= e * C
  BY <1>1, <1>3, <1>5
<1>8. r = 0 => e = 0
  <2> SUFFICES ASSUME r = 0, e >= 1 PROVE FALSE
    BY <1>3, <1>6
  <2>1. e * C >= C
    BY <1>1, <1>3
  <2> QED
    BY <1>1, <1>3, <1>5, <2>1
<1>9. r > 0 => e >= 1 /\ (e - 1) * C < r
  <2> SUFFICES ASSUME r > 0 PROVE e # 0 /\ (e - 1) * C < r
    BY <1>3, <1>6
  <2>1. e = 0 => e * C = 0
    BY <1>1
  <2> QED
    BY <1>1, <1>3, <1>4, <1>5, <2>1
<1> QED
  BY <1>3, <1>6, <1>7, <1>8, <1>9 DEF C

-----------------------------------------------------------------------------
(* The invariants.                                                         *)

HistType == [queued : Nat, sent : Nat, pingPos : Nat, pingOut : Nat, waiting : Nat]

PingType == [at : Nat, sentAt : Nat, seq : Nat, end : Nat]

ChunkType == [from : Nat, to : Nat]

WsTypeOK ==
    /\ {loopNow, sweptAt, pos, rx, tx, outSince, count} \subseteq Nat
    /\ toPing \in BOOLEAN /\ closing \in BOOLEAN
    /\ past \in HistType /\ ping \in PingType
    /\ chunks \in Seq(ChunkType)

(* Chunks hold something and follow each other without gaps.               *)
Chained(list) ==
    /\ \A i \in 1 .. Len(list) : list[i].from < list[i].to
    /\ \A i \in 2 .. Len(list) : list[i].from = list[i - 1].to
    /\ \A i, j \in 1 .. Len(list) : i < j => list[i].to <= list[j].from

(* They hold the bytes that are queued and not sent.                       *)
ListOK ==
    /\ Chained(chunks)
    /\ chunks = <<>> => pos = 0 /\ past.sent = past.queued
    /\ chunks # <<>> => /\ past.sent = chunks[1].from + pos
                        /\ pos < Size(chunks[1])
                        /\ chunks[Len(chunks)].to = past.queued

(* The chunk that the ping ends in, and where in it, while it is in the    *)
(* list; then the ping has been sent.                                      *)
PingPlaced ==
    ping.at # 0 =>
       /\ past.pingPos <= past.queued
       /\ ping.seq > count =>
             /\ ping.seq - count <= Len(chunks) /\ ping.end > 0
             /\ chunks[ping.seq - count].from + ping.end = past.pingPos
             /\ past.pingPos <= chunks[ping.seq - count].to
       /\ ping.seq <= count => past.sent >= past.pingPos

ByteInv == WsTypeOK /\ ListOK /\ PingPlaced

(* Stamps are of the past.  What the sweep has noted of the output may be  *)
(* of output long taken, but then that was since the last sweep, so that   *)
(* what waits now is at most a round younger than the last send.           *)
StampsOK ==
    /\ loopNow >= 1 /\ sweptAt <= loopNow /\ {rx, tx} \subseteq 1 .. loopNow /\ outSince <= loopNow
    /\ toPing => sweptAt = loopNow /\ state = "open"
    /\ chunks # <<>> => past.waiting <= loopNow
    /\ chunks # <<>> /\ outSince # 0 => past.waiting <= outSince + 2 \/ past.waiting <= tx + 2
    /\ chunks = <<>> /\ outSince # 0 /\ state = "open" =>
          loopNow <= tx + 2 /\ (sweptAt = loopNow => tx = loopNow)

PingTimed ==
    ping.at # 0 =>
       /\ ping.at <= loopNow /\ past.pingOut <= loopNow
       /\ past.sent >= past.pingPos => ping.at <= past.pingOut
       /\ past.sent >= past.pingPos => past.pingOut <= tx
       /\ ping.sentAt # 0 => past.sent >= past.pingPos /\ past.pingOut <= ping.sentAt

ReasonInv == ByteInv /\ StampsOK /\ PingTimed

\* The timeouts are switched on.
TimeoutsOn == OutputIdle > 0 /\ PingIdle >= 2 /\ Pong > 0

(* What has been received before the ping answers nothing; the sweep that  *)
(* clears a ping is the first one behind the answer.                       *)
IdleTimed ==
    /\ toPing => ping.at = 0 /\ rx < loopNow
    /\ ping.at # 0 /\ rx >= ping.at => loopNow - rx <= 2 /\ (sweptAt = loopNow => rx = loopNow)
    /\ ping.at = 0 => \/ sweptAt = loopNow /\ ~toPing /\ loopNow - rx <= PingIdle
                      \/ (sweptAt # loopNow \/ toPing) /\ loopNow - rx <= PingIdle + 2
    /\ ping.at # 0 /\ rx < ping.at => ping.at - rx <= PingIdle + 2

(* The ping is on the wire: the first sweep behind that has noted it, and  *)
(* none since has found the answer overdue.                                *)
AnswerTimed ==
    ping.at # 0 /\ rx < ping.at /\ past.sent >= past.pingPos =>
       \/ ping.sentAt = 0 /\ loopNow - past.pingOut <= 2 /\ (sweptAt = loopNow => past.pingOut = loopNow)
       \/ /\ ping.sentAt # 0 /\ ping.sentAt - past.pingOut <= 2
          /\ loopNow - ping.sentAt < Pong + 2 /\ (sweptAt = loopNow => loopNow - ping.sentAt < Pong)

(* The ping waits behind other output: so does the output, and no sweep    *)
(* has found it stuck.                                                     *)
OutputTimed ==
    ping.at # 0 /\ rx < ping.at /\ past.sent < past.pingPos =>
       \/ sweptAt = loopNow /\ loopNow = ping.at
       \/ sweptAt # loopNow /\ loopNow - ping.at <= 2
       \/ /\ outSince # 0 /\ outSince <= ping.at + 2
          /\ sweptAt = loopNow => loopNow - outSince < OutputIdle \/ loopNow - tx < OutputIdle

SilentInv == state = "open" /\ ~closing => IdleTimed /\ AnswerTimed /\ OutputTimed

-----------------------------------------------------------------------------
(* writeChunk().                                                           *)

(* What a list of chunks is.                                               *)
LEMMA ChunksAre ==
    ASSUME NEW list \in Seq(ChunkType)
    PROVE  /\ Len(list) \in Nat
           /\ \A i \in 1 .. Len(list) : list[i] \in ChunkType /\ list[i].from \in Nat /\ list[i].to \in Nat
           /\ list # <<>> => Len(list) > 0
           /\ Len(list) > 0 => list # <<>>
<1>1. Len(list) \in Nat /\ \A i \in 1 .. Len(list) : list[i] \in ChunkType
  OBVIOUS
<1>2. \A k \in ChunkType : k.from \in Nat /\ k.to \in Nat
  BY DEF ChunkType
<1>3. (list # <<>> => Len(list) > 0) /\ (Len(list) > 0 => list # <<>>)
  OBVIOUS
<1> QED
  BY <1>1, <1>2, <1>3

(* New chunks hold the bytes from a to b, chained.                         *)
LEMMA NewAre ==
    ASSUME NEW a \in Nat, NEW b \in Nat, a <= b
    PROVE  LET list == NewChunks(a, b)
           IN  /\ list \in Seq(ChunkType) /\ Chained(list)
               /\ \A i \in 1 .. Len(list) : a <= list[i].from
               /\ a = b => list = <<>>
               /\ a < b => list # <<>> /\ list[1].from = a /\ list[Len(list)].to = b
<1> DEFINE C == ChunkSize
           e == (b - a + C - 1) \div C
           F(i) == a + (i - 1) * C
           T(i) == Min({a + i * C, b})
           list == [i \in 1 .. e |-> [from |-> F(i), to |-> T(i)]]
<1>1. C \in Nat /\ C > 0 /\ b - a \in Nat
  BY WsPingAssumption
<1>2. NewChunks(a, b) = list
  BY DEF NewChunks
<1>3. /\ e \in Nat /\ b - a <= e * C
      /\ b - a = 0 => e = 0
      /\ b - a > 0 => e >= 1 /\ (e - 1) * C < b - a
  BY <1>1, ChunksNeeded
<1> HIDE DEF C, e
<1>4. ASSUME NEW i \in 1 .. e
      PROVE  /\ i * C \in Nat /\ (i - 1) * C \in Nat /\ i * C = (i - 1) * C + C
             /\ i < e => i * C <= (e - 1) * C
             /\ (i - 1) * C <= (e - 1) * C
             /\ \A j \in 1 .. e : i < j => i * C <= (j - 1) * C
  <2>1. \A u, v \in Nat : u <= v => u * C \in Nat /\ u * C <= v * C
    BY <1>1
  <2>2. i * C = (i - 1) * C + C
    BY <1>1
  <2>3. i \in Nat /\ i - 1 \in Nat /\ e - 1 \in Nat
    BY <1>3
  <2> QED
    BY <1>3, <2>1, <2>2, <2>3
<1>5. ASSUME NEW i \in 1 .. e
      PROVE  /\ F(i) \in Nat /\ T(i) \in Nat /\ a <= F(i) /\ F(i) < T(i)
             /\ T(i) <= a + i * C
             /\ i < e => T(i) = a + i * C
             /\ i = e => T(i) = b
  <2> DEFINE u == a + i * C
  <2>1. u \in Nat /\ i * C \in Nat /\ (i - 1) * C \in Nat /\ i * C = (i - 1) * C + C
    BY <1>4
  <2>2. T(i) = IF u <= b THEN u ELSE b
    <3> HIDE DEF u
    <3>1. Min({u, b}) = IF u <= b THEN u ELSE b
      BY <2>1, MinIs
    <3> QED
      BY <3>1 DEF u
  <2>3. b - a > 0 /\ (e - 1) * C < b - a
    BY <1>1, <1>3
  <2>4. (e - 1) * C \in Nat
    BY <1>1, <1>3, <1>4
  <2>5. F(i) < b
    BY <1>4, <2>1, <2>3, <2>4
  <2>6. i < e => u <= b
    BY <1>4, <2>1, <2>3, <2>4
  <2>7. i = e => b <= u
    BY <1>3, <2>1
  <2> HIDE DEF T
  <2> QED
    BY <1>1, <2>1, <2>2, <2>5, <2>6, <2>7
<1> HIDE DEF F, T
<1>6. list \in Seq(ChunkType) /\ Len(list) = e
  BY <1>3, <1>5 DEF ChunkType
<1>7. \A i \in 1 .. e : list[i].from = F(i) /\ list[i].to = T(i)
  OBVIOUS
<1>8. \A i, j \in 1 .. e : i < j => T(i) <= F(j)
  BY <1>4, <1>5 DEF F
<1>9. \A i \in 2 .. e : F(i) = T(i - 1)
  <2> TAKE i \in 2 .. e
  <2>1. i - 1 \in 1 .. e /\ i - 1 < e
    BY <1>3
  <2>2. T(i - 1) = a + (i - 1) * C
    BY <1>5, <2>1
  <2> QED
    BY <2>2 DEF F
<1> HIDE DEF list
<1>10. Chained(list)
  <2>1. \A i \in 2 .. e : i - 1 \in 1 .. e /\ i \in 1 .. e
    BY <1>3
  <2> QED
    BY <1>5, <1>6, <1>7, <1>8, <1>9, <2>1 DEF Chained
<1>11. a = b => list = <<>>
  BY <1>3, <1>6
<1>12. a < b => list # <<>> /\ list[1].from = a /\ list[Len(list)].to = b
  <2> SUFFICES ASSUME a < b PROVE list # <<>> /\ list[1].from = a /\ list[Len(list)].to = b
    OBVIOUS
  <2>1. e >= 1 /\ 1 \in 1 .. e /\ e \in 1 .. e
    BY <1>3
  <2>2. F(1) = a
    BY <1>1 DEF F
  <2> QED
    BY <1>5, <1>6, <1>7, <2>1, <2>2
<1> QED
  BY <1>2, <1>5, <1>6, <1>7, <1>10, <1>11, <1>12

(* Two chained lists, the second of which begins where the first ends.     *)
LEMMA ChainedConcat ==
    ASSUME NEW H \in Seq(ChunkType), NEW N \in Seq(ChunkType),
           Chained(H), Chained(N),
           H # <<>> => \A i \in 1 .. Len(N) : H[Len(H)].to <= N[i].from,
           H # <<>> /\ N # <<>> => N[1].from = H[Len(H)].to
    PROVE  Chained(H \o N)
<1> DEFINE L == H \o N
           h == Len(H)
           n == Len(N)
<1>1. /\ h \in Nat /\ n \in Nat /\ Len(L) = h + n
      /\ \A i \in 1 .. h : L[i] = H[i] /\ H[i].from \in Nat /\ H[i].to \in Nat
      /\ \A i \in 1 .. n : L[h + i] = N[i] /\ N[i].from \in Nat /\ N[i].to \in Nat
  <2>1. /\ h \in Nat /\ n \in Nat
        /\ \A i \in 1 .. h : H[i].from \in Nat /\ H[i].to \in Nat
        /\ \A i \in 1 .. n : N[i].from \in Nat /\ N[i].to \in Nat
    BY ChunksAre
  <2>2. Len(L) = h + n
    OBVIOUS
  <2>3. \A i \in 1 .. h : L[i] = H[i]
    BY <2>1
  <2>4. \A i \in 1 .. n : L[h + i] = N[i]
    BY <2>1
  <2> QED
    BY <2>1, <2>2, <2>3, <2>4
<1>2. \A i \in 1 .. h + n : i \notin 1 .. h => i - h \in 1 .. n /\ L[i] = N[i - h]
  BY <1>1
<1>3. \A i \in 1 .. h : H[i].to <= H[h].to
  <2> TAKE i \in 1 .. h
  <2>1. h \in 1 .. h
    BY <1>1
  <2>2. i < h => H[i].to <= H[h].from
    BY <2>1 DEF Chained
  <2>3. H[h].from < H[h].to
    BY <2>1 DEF Chained
  <2>4. i < h \/ i = h
    BY <1>1
  <2>5. H[i].to \in Nat /\ H[h].from \in Nat /\ H[h].to \in Nat
    BY <1>1, <2>1
  <2> HIDE DEF h
  <2> QED
    BY <2>2, <2>3, <2>4, <2>5
<1>4. (h > 0 => H # <<>>) /\ (n > 0 => N # <<>>)
  OBVIOUS
<1> HIDE DEF L, h, n
<1>5. \A i \in 1 .. h + n : L[i].from < L[i].to
  BY <1>1, <1>2 DEF Chained, h, n
<1>6. \A i \in 2 .. h + n : L[i].from = L[i - 1].to
  <2> TAKE i \in 2 .. h + n
  <2>1. CASE i \in 1 .. h
    <3>1. i \in 2 .. h /\ i - 1 \in 1 .. h
      BY <1>1, <2>1
    <3> QED
      BY <1>1, <2>1, <3>1 DEF Chained, h
  <2>2. CASE i = h + 1
    <3>1. 1 \in 1 .. n /\ h \in 1 .. h /\ i - 1 = h /\ L[i] = N[1]
      BY <1>1, <2>2
    <3>2. N[1].from = H[h].to
      BY <1>1, <1>4, <3>1 DEF h
    <3> QED
      BY <1>1, <3>1, <3>2
  <2>3. CASE i > h + 1
    <3>1. /\ i - h \in 2 .. n /\ i \in 1 .. h + n /\ i \notin 1 .. h
          /\ i - 1 \in 1 .. h + n /\ i - 1 \notin 1 .. h /\ (i - 1) - h = (i - h) - 1
      BY <1>1, <2>3
    <3>2. N[i - h].from = N[(i - h) - 1].to
      BY <3>1 DEF Chained, n
    <3> QED
      BY <1>2, <3>1, <3>2
  <2> QED
    BY <1>1, <2>1, <2>2, <2>3
<1>7. \A i, j \in 1 .. h + n : i < j => L[i].to <= L[j].from
  <2> SUFFICES ASSUME NEW i \in 1 .. h + n, NEW j \in 1 .. h + n, i < j
               PROVE  L[i].to <= L[j].from
    OBVIOUS
  <2>1. CASE j \in 1 .. h
    <3>1. i \in 1 .. h
      BY <1>1, <2>1
    <3> QED
      BY <1>1, <2>1, <3>1 DEF Chained, h
  <2>2. CASE j \notin 1 .. h /\ i \in 1 .. h
    <3>1. j - h \in 1 .. n /\ L[j] = N[j - h]
      BY <1>2, <2>2
    <3>3. h > 0 /\ h \in 1 .. h
      BY <1>1, <2>2
    <3>2. H[h].to <= N[j - h].from
      BY <1>4, <3>1, <3>3 DEF h, n
    <3>4. L[i].to = H[i].to /\ H[i].to <= H[h].to
      BY <1>1, <1>3, <2>2
    <3>5. {H[i].to, H[h].to, N[j - h].from} \subseteq Nat
      BY <1>1, <2>2, <3>1, <3>3
    <3> QED
      BY <3>1, <3>2, <3>4, <3>5, SMTT(30)
  <2>3. CASE i \notin 1 .. h
    <3>1. j \notin 1 .. h /\ i - h < j - h /\ i - h \in 1 .. n /\ j - h \in 1 .. n
      BY <1>1, <1>2, <2>3
    <3>2. N[i - h].to <= N[j - h].from
      BY <3>1 DEF Chained, n
    <3> QED
      BY <1>2, <2>3, <3>1, <3>2
  <2> QED
    BY <2>1, <2>2, <2>3
<1> QED
  BY <1>1, <1>5, <1>6, <1>7 DEF Chained, L

(* Chunks in the list keep where they begin and get longer at most, and    *)
(* the bytes written are the last ones.                                    *)
LEMMA Written ==
    ASSUME WsTypeOK, ListOK, NEW n \in Nat, n > 0
    PROVE  LET list == writeChunk(chunks, n)
           IN  /\ list \in Seq(ChunkType) /\ Chained(list) /\ list # <<>>
               /\ Len(chunks) <= Len(list)
               /\ \A i \in 1 .. Len(chunks) : /\ list[i].from = chunks[i].from
                                              /\ chunks[i].to <= list[i].to
               /\ chunks = <<>> => list[1].from = past.queued
               /\ list[Len(list)].to = past.queued + n
<1> DEFINE q == past.queued
           l == Len(chunks)
           room == Room(chunks)
           fill == Min({n, room})
           start == q + fill
           H == IF fill > 0 THEN [chunks EXCEPT ![l].to = start] ELSE chunks
           N == NewChunks(start, q + n)
           R == H \o N
<1>1. /\ chunks \in Seq(ChunkType) /\ Chained(chunks) /\ q \in Nat /\ l \in Nat
      /\ chunks # <<>> => chunks[l].to = q
      /\ \A i \in 1 .. l : chunks[i].from \in Nat /\ chunks[i].to \in Nat
  <2>1. chunks \in Seq(ChunkType) /\ Chained(chunks) /\ q \in Nat
    BY DEF WsTypeOK, ListOK, HistType
  <2>2. chunks # <<>> => chunks[l].to = q
    BY DEF ListOK
  <2> QED
    BY <2>1, <2>2, ChunksAre
<1>2. writeChunk(chunks, n) = R
  BY DEF writeChunk
<1>3. room \in Nat /\ (room > 0 => chunks # <<>>)
  BY <1>1, WsPingAssumption DEF Room, Size
<1>4. fill \in Nat /\ fill <= n /\ (fill > 0 => chunks # <<>>)
  <2> HIDE DEF room
  <2>1. fill = IF n <= room THEN n ELSE room
    BY <1>3, MinIs
  <2> HIDE DEF fill
  <2> QED
    BY <1>3, <2>1
<1> HIDE DEF room, fill
<1>5. start \in Nat /\ q <= start /\ start <= q + n /\ (fill = 0 => start = q)
  BY <1>1, <1>4
<1> HIDE DEF start, q
<1>6. /\ H \in Seq(ChunkType) /\ Len(H) = l
      /\ \A i \in 1 .. l : /\ H[i].from = chunks[i].from /\ chunks[i].to <= H[i].to
                           /\ i < l => H[i].to = chunks[i].to
      /\ chunks # <<>> => H[l].to = start
  <2>1. CASE fill > 0
    <3>1. chunks # <<>> /\ l \in 1 .. l /\ H = [chunks EXCEPT ![l].to = start]
      BY <1>1, <1>4, <2>1
    <3>2. chunks[l].to <= start
      BY <1>1, <1>5, <3>1
    <3> DEFINE k == [chunks[l] EXCEPT !.to = start]
    <3>3. H = [chunks EXCEPT ![l] = k]
      BY <1>1, <3>1
    <3>4. k \in ChunkType /\ k.from = chunks[l].from /\ k.to = start
      <4>1. chunks[l] \in ChunkType
        BY <1>1, <3>1, ChunksAre
      <4> QED
        BY <1>5, <4>1 DEF ChunkType
    <3> HIDE DEF k, H
    <3>5. H \in Seq(ChunkType) /\ Len(H) = l
      BY <1>1, <3>1, <3>3, <3>4
    <3>6. \A i \in 1 .. l : H[i] = IF i = l THEN k ELSE chunks[i]
      BY <1>1, <3>3
    <3> HIDE DEF l
    <3> QED
      BY <1>1, <3>1, <3>2, <3>4, <3>5, <3>6
  <2>2. CASE ~(fill > 0)
    <3>1. H = chunks /\ start = q
      BY <1>4, <1>5, <2>2
    <3> HIDE DEF H
    <3>2. Len(H) = l
      BY <3>1
    <3> HIDE DEF l
    <3> QED
      BY <1>1, <3>1, <3>2
  <2> QED
    BY <2>1, <2>2
<1> HIDE DEF H
<1>7. Chained(H)
  <2>1. \A i \in 1 .. l : H[i].from < H[i].to
    <3> TAKE i \in 1 .. l
    <3>1. chunks[i].from < chunks[i].to
      BY <1>1 DEF Chained
    <3>2. {H[i].from, H[i].to, chunks[i].from, chunks[i].to} \subseteq Nat
      BY <1>1, <1>6, ChunksAre
    <3>3. H[i].from = chunks[i].from /\ chunks[i].to <= H[i].to
      BY <1>6
    <3> QED
      BY <3>1, <3>2, <3>3
  <2>2. \A i \in 2 .. l : H[i].from = H[i - 1].to
    <3> TAKE i \in 2 .. l
    <3>1. i \in 1 .. l /\ i - 1 \in 1 .. l /\ i - 1 < l
      BY <1>1
    <3> QED
      BY <1>1, <1>6, <3>1 DEF Chained
  <2>3. \A i, j \in 1 .. l : i < j => H[i].to <= H[j].from
    <3> SUFFICES ASSUME NEW i \in 1 .. l, NEW j \in 1 .. l, i < j PROVE H[i].to <= H[j].from
      OBVIOUS
    <3>1. i < l
      BY <1>1
    <3> QED
      BY <1>1, <1>6, <3>1 DEF Chained
  <2> QED
    BY <1>6, <2>1, <2>2, <2>3 DEF Chained
<1>8. /\ N \in Seq(ChunkType) /\ Chained(N)
      /\ \A i \in 1 .. Len(N) : start <= N[i].from
      /\ start = q + n => N = <<>>
      /\ start < q + n => N # <<>> /\ N[1].from = start /\ N[Len(N)].to = q + n
  <2>1. q + n \in Nat
    BY <1>1
  <2> QED
    BY <1>5, <2>1, NewAre DEF N
<1> HIDE DEF N
<1>9. (H # <<>> => chunks # <<>>) /\ (N # <<>> => start < q + n) /\ (chunks # <<>> => H # <<>>)
  <2>1. (H # <<>> => Len(H) > 0) /\ (Len(H) > 0 => H # <<>>)
    BY <1>6, ChunksAre
  <2>2. (chunks # <<>> => l > 0) /\ (l > 0 => chunks # <<>>)
    BY <1>1, ChunksAre
  <2>3. N # <<>> => start < q + n
    BY <1>1, <1>5, <1>8
  <2> QED
    BY <1>6, <2>1, <2>2, <2>3
<1>10. Chained(R)
  <2>1. H # <<>> => H[Len(H)].to = start
    BY <1>6, <1>9
  <2> QED
    BY <1>6, <1>7, <1>8, <1>9, <2>1, ChainedConcat
<1>11. /\ R \in Seq(ChunkType) /\ Len(R) = l + Len(N) /\ Len(N) \in Nat
       /\ \A i \in 1 .. l : R[i] = H[i]
       /\ \A i \in 1 .. Len(N) : R[l + i] = N[i]
  <2>1. R \in Seq(ChunkType) /\ Len(R) = Len(H) + Len(N) /\ Len(N) \in Nat /\ Len(H) \in Nat
    <3>1. H \in Seq(ChunkType) /\ N \in Seq(ChunkType)
      BY <1>6, <1>8
    <3> QED
      BY <3>1
  <2>2. \A i \in 1 .. Len(H) : R[i] = H[i]
    BY <1>6, <1>8
  <2>3. \A i \in 1 .. Len(N) : R[Len(H) + i] = N[i]
    BY <1>6, <1>8
  <2> QED
    BY <1>6, <2>1, <2>2, <2>3
<1> HIDE DEF R
<1>12. CASE N = <<>>
  <2>1. start = q + n /\ Len(R) = l
    BY <1>1, <1>5, <1>8, <1>11, <1>12
  <2>2. fill > 0
    BY <1>1, <1>4, <2>1 DEF start
  <2>3. chunks # <<>> /\ l \in 1 .. l /\ R # <<>>
    BY <1>1, <1>4, <1>11, <2>1, <2>2, ChunksAre
  <2>4. R[Len(R)].to = q + n
    BY <1>6, <1>11, <2>1, <2>3
  <2>5. l <= Len(R)
    BY <1>1, <2>1
  <2>6. \A i \in 1 .. l : R[i].from = chunks[i].from /\ chunks[i].to <= R[i].to
    BY <1>6, <1>11
  <2> QED
    BY <1>2, <1>10, <1>11, <2>3, <2>4, <2>5, <2>6 DEF q
<1>13. CASE N # <<>>
  <2>1. Len(N) \in 1 .. Len(N) /\ 1 \in 1 .. Len(N)
    BY <1>8, <1>13
  <2>2. R[Len(R)].to = q + n /\ Len(R) > 0 /\ l <= Len(R)
    <3>1. N[Len(N)].to = q + n
      BY <1>8, <1>9, <1>13
    <3>2. Len(R) = l + Len(N) /\ R[l + Len(N)] = N[Len(N)]
      BY <1>11, <2>1
    <3>3. Len(R) > 0 /\ l <= Len(R)
      BY <1>1, <1>11, <2>1
    <3> QED
      BY <3>1, <3>2, <3>3
  <2>3. chunks = <<>> => R[1].from = q
    <3> SUFFICES ASSUME chunks = <<>> PROVE R[1].from = q
      OBVIOUS
    <3>1. l = 0 /\ fill = 0 /\ R[1] = N[1]
      BY <1>4, <1>11, <2>1
    <3> QED
      BY <1>5, <1>8, <1>9, <1>13, <3>1
  <2> QED
    BY <1>1, <1>2, <1>6, <1>10, <1>11, <2>2, <2>3 DEF q, l
<1> QED
  BY <1>12, <1>13

-----------------------------------------------------------------------------
(* Bytes.                                                                  *)

(* What is queued is at the end of the list.                               *)
LEMMA QueuedBytes ==
    ASSUME ByteInv, NEW n \in Nat, n > 0, chunks' = writeChunk(chunks, n), pos' = pos,
           past'.queued = past.queued + n, past'.sent = past.sent
    PROVE  /\ chunks' \in Seq(ChunkType) /\ chunks' # <<>> /\ ListOK'
           /\ Len(chunks) <= Len(chunks')
           /\ \A i \in 1 .. Len(chunks) : /\ chunks'[i].from = chunks[i].from
                                          /\ chunks[i].to <= chunks'[i].to
<1>1. /\ chunks' \in Seq(ChunkType) /\ Chained(chunks') /\ chunks' # <<>>
      /\ Len(chunks) <= Len(chunks')
      /\ \A i \in 1 .. Len(chunks) : chunks'[i].from = chunks[i].from /\ chunks[i].to <= chunks'[i].to
      /\ chunks = <<>> => chunks'[1].from = past.queued
      /\ chunks'[Len(chunks')].to = past.queued + n
  BY Written DEF ByteInv
<1>2. 1 \in 1 .. Len(chunks') /\ chunks'[1].from \in Nat /\ chunks'[1].to \in Nat
  BY <1>1, ChunksAre
<1>3. chunks'[1].from < chunks'[1].to
  BY <1>1, <1>2 DEF Chained
<1>4. past.sent = chunks'[1].from + pos /\ pos < Size(chunks'[1])
  <2>1. CASE chunks = <<>>
    BY <1>1, <1>2, <1>3, <2>1 DEF ByteInv, ListOK, Size
  <2>2. CASE chunks # <<>>
    <3>1. 1 \in 1 .. Len(chunks) /\ chunks[1].from \in Nat /\ chunks[1].to \in Nat
      BY <2>2, ChunksAre DEF ByteInv, WsTypeOK
    <3>2. past.sent = chunks[1].from + pos /\ pos < Size(chunks[1]) /\ pos \in Nat
      BY <2>2 DEF ByteInv, ListOK, WsTypeOK
    <3> QED
      BY <1>1, <1>2, <3>1, <3>2, SMTT(30) DEF Size
  <2> QED
    BY <2>1, <2>2
<1>5. ListOK'
  BY <1>1, <1>4 DEF ListOK, Size
<1> QED
  BY <1>1, <1>5

(* Neither moves the ping.                                                 *)
LEMMA QueuedPlaced ==
    ASSUME ByteInv, NEW n \in Nat, n > 0, chunks' = writeChunk(chunks, n), pos' = pos,
           past'.queued = past.queued + n, past'.sent = past.sent,
           past'.pingPos = past.pingPos, UNCHANGED <<ping, count>>
    PROVE  PingPlaced'
<1> SUFFICES ASSUME ping.at # 0 PROVE PingPlaced'
  BY DEF PingPlaced
<1> DEFINE i == ping.seq - count
<1>1. /\ chunks' \in Seq(ChunkType) /\ Len(chunks) <= Len(chunks')
      /\ \A j \in 1 .. Len(chunks) : chunks'[j].from = chunks[j].from /\ chunks[j].to <= chunks'[j].to
  BY QueuedBytes
<1>2. /\ past.pingPos <= past.queued
      /\ ping.seq > count => /\ i <= Len(chunks) /\ ping.end > 0
                             /\ chunks[i].from + ping.end = past.pingPos
                             /\ past.pingPos <= chunks[i].to
      /\ ping.seq <= count => past.sent >= past.pingPos
  BY DEF ByteInv, PingPlaced
<1>3. /\ {ping.seq, ping.end, count, past.pingPos, past.queued, past.sent} \subseteq Nat
      /\ chunks \in Seq(ChunkType)
  BY DEF ByteInv, WsTypeOK, HistType, PingType
<1>4. Len(chunks) \in Nat /\ Len(chunks') \in Nat
  BY <1>1, <1>3, ChunksAre
<1>5. ASSUME ping.seq > count
      PROVE  /\ i <= Len(chunks') /\ chunks'[i].from + ping.end = past.pingPos
             /\ past.pingPos <= chunks'[i].to
  <2>1. i \in 1 .. Len(chunks) /\ i \in 1 .. Len(chunks')
    BY <1>1, <1>2, <1>3, <1>4, <1>5
  <2>2. {chunks[i].from, chunks[i].to, chunks'[i].from, chunks'[i].to} \subseteq Nat
    BY <1>1, <1>3, <2>1, ChunksAre
  <2> HIDE DEF i
  <2>3. chunks'[i].from = chunks[i].from /\ chunks[i].to <= chunks'[i].to /\ i <= Len(chunks')
    BY <1>1, <1>4, <2>1
  <2>4. chunks[i].from + ping.end = past.pingPos /\ past.pingPos <= chunks[i].to
    BY <1>2, <1>5
  <2>5. past.pingPos \in Nat
    BY <1>3
  <2> QED
    BY <2>2, <2>3, <2>4, <2>5
<1> QED
  BY <1>2, <1>3, <1>5 DEF PingPlaced

(* EVENT_WRITE: the first bytes of the list go.                            *)
LEMMA WriteBytes ==
    ASSUME ByteInv, NEW m \in Nat, NEW k \in Nat, WriteEvent(m, k)
    PROVE  /\ chunks' \in Seq(ChunkType) /\ pos' \in Nat /\ Left(m) \in Nat
           /\ past' \in HistType
           /\ past'.sent = past.sent + (Left(m) + k) /\ past'.queued = past.queued
           /\ past'.pingPos = past.pingPos /\ past'.waiting = past.waiting
           /\ past'.pingOut = IF past.sent < past.pingPos /\ past'.sent >= past.pingPos
                                THEN loopNow ELSE past.pingOut
           /\ ListOK' /\ PingPlaced'
<1> DEFINE l == Len(chunks)
<1>1. /\ chunks \in Seq(ChunkType) /\ pos \in Nat /\ past \in HistType /\ count \in Nat
      /\ past.sent \in Nat /\ past.queued \in Nat /\ past.pingPos \in Nat
      /\ Chained(chunks) /\ l \in Nat /\ loopNow \in Nat
      /\ \A i \in 1 .. l : chunks[i].from \in Nat /\ chunks[i].to \in Nat
  BY ChunksAre DEF ByteInv, WsTypeOK, ListOK, HistType
<1>num. {pos, count, past.sent, past.queued, past.pingPos, l, loopNow, m, k} \subseteq Nat
  BY <1>1
<1>2. /\ m <= l
      /\ m = l => k = 0
      /\ m < l => k <= Size(chunks[m + 1]) - (IF m = 0 THEN pos ELSE 0) - 1
      /\ chunks' = SubSeq(chunks, m + 1, l)
      /\ pos' = IF m = 0 THEN pos + k ELSE k
      /\ count' = count + m /\ ping' = ping
  BY <1>1 DEF WriteEvent
<1>3. past' = [past EXCEPT !.sent = @ + (Left(m) + k),
                           !.pingOut = IF past.sent < past.pingPos
                                          /\ past.sent + (Left(m) + k) >= past.pingPos
                                         THEN loopNow ELSE @]
  BY DEF WriteEvent, Sent
<1>4. /\ chunks = <<>> => l = 0 /\ pos = 0 /\ past.sent = past.queued
      /\ l > 0 => /\ past.sent = chunks[1].from + pos /\ pos < Size(chunks[1])
                  /\ chunks[l].to = past.queued
      /\ l = 0 => chunks = <<>>
  BY <1>1, ChunksAre DEF ByteInv, ListOK
<1>5. \A i \in 1 .. l : /\ chunks[i].from < chunks[i].to
                        /\ i > 1 => chunks[i].from = chunks[i - 1].to
                        /\ \A j \in 1 .. l : i < j => chunks[i].to <= chunks[j].from
  <2>1. \A i \in 1 .. l : i > 1 => i \in 2 .. l
    BY <1>1
  <2> QED
    BY <1>1, <2>1 DEF Chained
<1>6. /\ chunks' \in Seq(ChunkType) /\ Len(chunks') = l - m
      /\ \A i \in 1 .. l - m : chunks'[i] = chunks[m + i] /\ m + i \in 1 .. l
  <2>1. chunks' \in Seq(ChunkType) /\ Len(chunks') = l - m
    BY <1>1, <1>2
  <2>2. \A i \in 1 .. l - m : m + i \in 1 .. l
    BY <1>1, <1>2
  <2>3. \A i \in 1 .. l - m : chunks'[i] = chunks[m + i]
    BY <1>1, <1>2
  <2> QED
    BY <2>1, <2>2, <2>3
<1> HIDE DEF l
<1>7. Chained(chunks')
  <2>1. \A i \in 1 .. l - m : chunks'[i].from < chunks'[i].to
    BY <1>5, <1>6
  <2>2. \A i \in 2 .. l - m : chunks'[i].from = chunks'[i - 1].to
    <3> TAKE i \in 2 .. l - m
    <3>1. i \in 1 .. l - m /\ i - 1 \in 1 .. l - m /\ m + (i - 1) = (m + i) - 1 /\ m + i > 1
      BY <1>1, <1>2
    <3> QED
      BY <1>5, <1>6, <3>1
  <2>3. \A i, j \in 1 .. l - m : i < j => chunks'[i].to <= chunks'[j].from
    <3> SUFFICES ASSUME NEW i \in 1 .. l - m, NEW j \in 1 .. l - m, i < j
                 PROVE  chunks'[i].to <= chunks'[j].from
      OBVIOUS
    <3>1. m + i < m + j
      BY <1>1, <1>2
    <3> QED
      BY <1>5, <1>6, <3>1
  <2> QED
    BY <1>6, <2>1, <2>2, <2>3 DEF Chained
<1>8. ASSUME m > 0
      PROVE  /\ m \in 1 .. l /\ 1 \in 1 .. l /\ Left(m) \in Nat
             /\ past.sent + Left(m) = chunks[m].to
  <2>1. m \in 1 .. l /\ 1 \in 1 .. l /\ l > 0
    BY <1>1, <1>2, <1>8
  <2>2. Left(m) = chunks[m].to - chunks[1].from - pos
    BY <1>8 DEF Left
  <2>3. m > 1 => chunks[1].to <= chunks[m].from /\ chunks[m].from < chunks[m].to
    BY <1>5, <2>1
  <2>4. m = 1 \/ m > 1
    BY <1>8
  <2>5. {chunks[1].from, chunks[1].to, chunks[m].from, chunks[m].to} \subseteq Nat
    BY <1>1, <2>1
  <2>6. chunks[1].to <= chunks[m].to
    BY <2>3, <2>4, <2>5
  <2>7. past.sent = chunks[1].from + pos /\ pos < chunks[1].to - chunks[1].from
    BY <1>4, <2>1 DEF Size
  <2> QED
    BY <1>num, <2>1, <2>2, <2>5, <2>6, <2>7
<1>9. Left(m) \in Nat /\ (m = 0 => Left(m) = 0)
  BY <1>8 DEF Left
<1> DEFINE s == past.sent + (Left(m) + k)
<1>10. s \in Nat /\ s >= past.sent
  BY <1>1, <1>9
<1>11. /\ past' \in HistType /\ past'.sent = s /\ past'.queued = past.queued
       /\ past'.pingPos = past.pingPos /\ past'.waiting = past.waiting
       /\ past'.pingOut = IF past.sent < past.pingPos /\ s >= past.pingPos
                            THEN loopNow ELSE past.pingOut
  <2> DEFINE o == IF past.sent < past.pingPos /\ s >= past.pingPos THEN loopNow ELSE past.pingOut
  <2>1. o \in Nat
    BY <1>1 DEF HistType
  <2>2. past' = [past EXCEPT !.sent = s, !.pingOut = o]
    BY <1>1, <1>3 DEF HistType
  <2>3. /\ past' \in HistType /\ past'.sent = s /\ past'.queued = past.queued
        /\ past'.pingPos = past.pingPos /\ past'.waiting = past.waiting /\ past'.pingOut = o
    <3> HIDE DEF s, o
    <3> QED
      BY <1>1, <1>10, <2>1, <2>2 DEF HistType
  <2> HIDE DEF s
  <2> QED
    BY <2>3
<1>12. m < l => /\ s = chunks[m + 1].from + pos' /\ pos' < Size(chunks[m + 1])
                /\ m + 1 \in 1 .. l
  <2> SUFFICES ASSUME m < l
               PROVE  /\ s = chunks[m + 1].from + pos' /\ pos' < Size(chunks[m + 1])
                      /\ m + 1 \in 1 .. l
    OBVIOUS
  <2>1. m + 1 \in 1 .. l /\ l > 0
    BY <1>1
  <2>2. chunks[m + 1].from \in Nat /\ chunks[m + 1].to \in Nat
    BY <1>1, <2>1
  <2>3. CASE m = 0
    <3>1. pos' = pos + k /\ Left(m) = 0 /\ k <= Size(chunks[1]) - pos - 1 /\ m + 1 = 1
      BY <1>2, <1>9, <2>3
    <3>2. past.sent = chunks[1].from + pos
      BY <1>4, <2>1
    <3> QED
      BY <1>num, <2>1, <2>2, <3>1, <3>2 DEF Size
  <2>4. CASE m > 0
    <3>1. pos' = k /\ k <= Size(chunks[m + 1]) - 1 /\ past.sent + Left(m) = chunks[m].to
      BY <1>1, <1>2, <1>8, <2>2, <2>4, SMTT(30) DEF Size
    <3>2. chunks[m + 1].from = chunks[m].to
      <4>1. (m + 1) - 1 = m /\ m + 1 > 1
        BY <2>4
      <4> QED
        BY <1>5, <2>1, <4>1
    <3> QED
      BY <1>num, <1>9, <2>1, <2>2, <3>1, <3>2 DEF Size
  <2> QED
    BY <2>3, <2>4
<1>13. m = l => s = past.queued /\ pos' = 0
  <2> SUFFICES ASSUME m = l PROVE s = past.queued /\ pos' = 0
    OBVIOUS
  <2>1. k = 0
    BY <1>2
  <2>2. CASE m = 0
    <3>1. pos = 0 /\ past.sent = past.queued /\ pos' = pos + k /\ Left(m) = 0
      BY <1>2, <1>4, <1>9, <2>2
    <3> QED
      BY <1>num, <2>1, <3>1
  <2>3. CASE m > 0
    BY <1>1, <1>2, <1>4, <1>8, <1>9, <2>1, <2>3
  <2> QED
    BY <2>2, <2>3
<1>14. ListOK'
  <2>1. CASE m = l
    <3>1. chunks' = <<>>
      BY <1>1, <1>6, <2>1, ChunksAre
    <3> QED
      BY <1>7, <1>11, <1>13, <2>1, <3>1 DEF ListOK
  <2>2. CASE m < l
    <3>1. 1 \in 1 .. l - m /\ l - m \in 1 .. l - m /\ m + (l - m) = l /\ l > 0
      BY <1>1, <2>2
    <3>2. chunks'[1] = chunks[m + 1] /\ chunks'[l - m] = chunks[l] /\ chunks' # <<>>
      BY <1>6, <3>1, ChunksAre
    <3>3. chunks[l].to = past.queued
      BY <1>4, <3>1
    <3> QED
      BY <1>6, <1>7, <1>11, <1>12, <2>2, <3>2, <3>3 DEF ListOK, Size
  <2> QED
    BY <1>1, <1>2, <2>1, <2>2
<1>15. PingPlaced'
  <2> SUFFICES ASSUME ping.at # 0 PROVE PingPlaced'
    BY <1>2 DEF PingPlaced
  <2> DEFINE i == ping.seq - count
  <2>1. /\ past.pingPos <= past.queued
        /\ ping.seq > count => /\ i <= l /\ ping.end > 0
                               /\ chunks[i].from + ping.end = past.pingPos
                               /\ past.pingPos <= chunks[i].to
        /\ ping.seq <= count => past.sent >= past.pingPos
    BY DEF ByteInv, PingPlaced, l
  <2>2. ping.seq \in Nat /\ ping.end \in Nat
    BY DEF ByteInv, WsTypeOK, PingType
  <2>3. ASSUME ping.seq > count + m
        PROVE  /\ ping.seq - (count + m) <= l - m /\ ping.end > 0
               /\ chunks'[ping.seq - (count + m)].from + ping.end = past.pingPos
               /\ past.pingPos <= chunks'[ping.seq - (count + m)].to
    <3>1. ping.seq > count /\ i - m \in 1 .. l - m /\ ping.seq - (count + m) = i - m /\ m + (i - m) = i
      <4>1. ping.seq > count
        BY <1>num, <2>2, <2>3
      <4>2. i <= l
        BY <2>1, <4>1
      <4> QED
        BY <1>num, <2>2, <2>3, <4>1, <4>2
    <3>2. chunks'[i - m] = chunks[i]
      BY <1>6, <3>1
    <3>3. i - m <= l - m
      BY <1>1, <1>2, <3>1
    <3> HIDE DEF i
    <3> QED
      BY <2>1, <3>1, <3>2, <3>3
  <2>4. ASSUME ping.seq <= count + m PROVE s >= past.pingPos
    <3>1. CASE ping.seq <= count
      BY <1>1, <1>10, <2>1, <3>1
    <3>2. CASE ping.seq > count
      <4>1. i \in 1 .. l /\ i <= m /\ m > 0 /\ m \in 1 .. l
        <5>1. i <= l /\ m <= l
          BY <1>2, <2>1, <3>2
        <5> QED
          BY <1>num, <2>2, <2>4, <3>2, <5>1
      <4>2. i = m \/ (i < m /\ chunks[i].to <= chunks[m].from /\ chunks[m].from < chunks[m].to)
        <5>1. i = m \/ i < m
          BY <1>num, <4>1
        <5> HIDE DEF i
        <5> QED
          BY <1>5, <4>1, <5>1
      <4>3. {chunks[i].to, chunks[m].from, chunks[m].to} \subseteq Nat
        BY <1>1, <4>1
      <4>4. past.pingPos <= chunks[m].to
        <5> HIDE DEF i
        <5> QED
          BY <1>1, <2>1, <3>2, <4>2, <4>3, SMTT(30)
      <4>5. past.sent + Left(m) = chunks[m].to
        BY <1>8, <4>1
      <4> QED
        BY <1>1, <1>9, <4>3, <4>4, <4>5, SMTT(30)
    <3> QED
      BY <1>1, <2>2, <3>1, <3>2
  <2> HIDE DEF s, i
  <2> QED
    BY <1>2, <1>6, <1>11, <2>1, <2>3, <2>4 DEF PingPlaced
<1>16. pos' \in Nat
  BY <1>1, <1>2
<1> QED
  BY <1>6, <1>9, <1>11, <1>14, <1>15, <1>16

(* The ping is out, by chunks and position, when its last byte is sent.    *)
LEMMA PingOutIs ==
    ASSUME ByteInv, ping.at # 0
    PROVE  ping_out <=> past.sent >= past.pingPos
<1> DEFINE i == ping.seq - count
           l == Len(chunks)
<1>1. /\ {ping.seq, ping.end, count, pos, past.pingPos, past.sent, l} \subseteq Nat
      /\ chunks \in Seq(ChunkType) /\ Chained(chunks)
      /\ \A j \in 1 .. l : chunks[j].from \in Nat /\ chunks[j].to \in Nat
  BY ChunksAre DEF ByteInv, WsTypeOK, ListOK, HistType, PingType
<1>2. /\ ping.seq > count => /\ i <= l /\ ping.end > 0
                             /\ chunks[i].from + ping.end = past.pingPos
      /\ ping.seq <= count => past.sent >= past.pingPos
  BY DEF ByteInv, PingPlaced
<1>3. CASE ping.seq <= count
  BY <1>1, <1>2, <1>3 DEF ping_out
<1>4. CASE ping.seq > count
  <2>1. i \in 1 .. l /\ 1 \in 1 .. l
    <3>1. i <= l
      BY <1>2, <1>4
    <3> QED
      BY <1>1, <1>4, <3>1
  <2>2. past.sent = chunks[1].from + pos /\ pos < chunks[1].to - chunks[1].from
    <3>1. chunks # <<>>
      BY <1>1, <2>1, ChunksAre
    <3> QED
      BY <3>1 DEF ByteInv, ListOK, Size
  <2>3. {chunks[1].from, chunks[1].to, chunks[i].from, chunks[i].to} \subseteq Nat
    BY <1>1, <2>1
  <2>4. chunks[i].from + ping.end = past.pingPos /\ ping.end > 0
    BY <1>2, <1>4
  <2>5. CASE i = 1
    <3>1. count + 1 = ping.seq /\ ~(count >= ping.seq)
      BY <1>1, <1>4, <2>5
    <3>2. ping_out <=> pos >= ping.end
      BY <3>1 DEF ping_out
    <3>3. chunks[1].from + ping.end = past.pingPos
      BY <2>4, <2>5
    <3> QED
      BY <1>1, <2>2, <2>3, <3>2, <3>3, SMTT(30)
  <2>6. CASE i > 1
    <3>1. chunks[1].to <= chunks[i].from
      BY <1>1, <2>1, <2>6 DEF Chained
    <3>2. ~ping_out
      BY <1>1, <1>4, <2>6 DEF ping_out
    <3> HIDE DEF i
    <3> QED
      BY <1>1, <2>2, <2>3, <2>4, <3>1, <3>2, SMTT(30)
  <2> QED
    BY <2>1, <2>5, <2>6
<1> QED
  BY <1>1, <1>3, <1>4

(* What the list holds and what the sweep reads from it.                   *)
LEMMA ExactFromBytes == ByteInv => PingOutExact
<1> SUFFICES ASSUME ByteInv PROVE PingOutExact
  OBVIOUS
<1>1. past.queued - past.sent = Left(Len(chunks))
  <2>1. /\ chunks \in Seq(ChunkType) /\ {past.queued, past.sent, pos, Len(chunks)} \subseteq Nat
    BY ChunksAre DEF ByteInv, WsTypeOK, HistType
  <2>2. CASE chunks = <<>>
    BY <2>1, <2>2 DEF ByteInv, ListOK, Left
  <2>3. CASE chunks # <<>>
    <3>1. Len(chunks) > 0 /\ chunks[1].from \in Nat /\ chunks[Len(chunks)].to \in Nat
      BY <2>1, <2>3, ChunksAre
    <3>2. past.sent = chunks[1].from + pos /\ chunks[Len(chunks)].to = past.queued
      BY <2>3 DEF ByteInv, ListOK
    <3> QED
      BY <2>1, <3>1, <3>2 DEF Left
  <2> QED
    BY <2>2, <2>3
<1>2. \A i \in 2 .. Len(chunks) : chunks[i].from = chunks[i - 1].to
  BY DEF ByteInv, ListOK, Chained
<1> QED
  BY <1>1, <1>2, PingOutIs DEF PingOutExact

-----------------------------------------------------------------------------
(* The steps.                                                              *)

(* The numbers of a state.                                                 *)
LEMMA Numbers ==
    ASSUME WsTypeOK
    PROVE  /\ {loopNow, sweptAt, pos, rx, tx, outSince, count} \subseteq Nat
           /\ {past.queued, past.sent, past.pingPos, past.pingOut, past.waiting} \subseteq Nat
           /\ {ping.at, ping.sentAt, ping.seq, ping.end} \subseteq Nat
           /\ {OutputIdle, ClosingTime, PingIdle, Pong} \subseteq Nat
BY WsPingAssumption DEF WsTypeOK, HistType, PingType

(* The output thread appends a frame.                                      *)
LEMMA FrameStep ==
    ASSUME ReasonInv, NEW n \in FrameLens, sendWebsocketFrameReal(n)
    PROVE  ReasonInv' /\ (SilentInv => SilentInv')
<1>1. n \in Nat /\ n > 0
  BY WsPingAssumption
<1> DEFINE w == IF chunks = <<>> THEN loopNow ELSE past.waiting
           q == past.queued + n
<1>2. /\ state = "open" /\ chunks' = writeChunk(chunks, n)
      /\ UNCHANGED <<loopNow, sweptAt, toPing, state, closing, pos, rx, tx, outSince, ping, count>>
  BY DEF sendWebsocketFrameReal, Queue, pingClock
<1>3. WsTypeOK /\ past \in HistType /\ ByteInv
  BY DEF ReasonInv, ByteInv, WsTypeOK
<1>4. {loopNow, past.queued, past.waiting, rx, tx, outSince} \subseteq Nat
  BY <1>3, Numbers
<1>5. past' = [past EXCEPT !.queued = q, !.waiting = w]
  BY <1>3 DEF sendWebsocketFrameReal, Queue, HistType
<1>6. q \in Nat /\ w \in Nat
  BY <1>1, <1>4
<1>7. w <= loopNow \/ (chunks # <<>> /\ w = past.waiting)
  BY <1>4
<1> HIDE DEF w
<1>8. /\ past' \in HistType /\ past'.queued = past.queued + n /\ past'.waiting = w
      /\ past'.sent = past.sent /\ past'.pingPos = past.pingPos /\ past'.pingOut = past.pingOut
  <2>1. /\ past' \in HistType /\ past'.queued = q /\ past'.waiting = w
        /\ past'.sent = past.sent /\ past'.pingPos = past.pingPos /\ past'.pingOut = past.pingOut
    <3> HIDE DEF q
    <3> QED
      BY <1>3, <1>5, <1>6 DEF HistType
  <2> QED
    BY <2>1
<1>9. chunks' \in Seq(ChunkType) /\ chunks' # <<>> /\ ListOK'
  BY <1>1, <1>2, <1>3, <1>8, QueuedBytes
<1>10. PingPlaced'
  BY <1>1, <1>2, <1>3, <1>8, QueuedPlaced
<1>11. ByteInv'
  BY <1>2, <1>3, <1>8, <1>9, <1>10 DEF ByteInv, WsTypeOK
<1>12. StampsOK'
  <2>1. w <= loopNow /\ (outSince # 0 => w <= outSince + 2 \/ w <= tx + 2)
    <3>1. CASE chunks = <<>>
      <4>1. w = loopNow /\ (outSince # 0 => loopNow <= tx + 2)
        BY <1>2, <3>1 DEF w, ReasonInv, StampsOK
      <4> QED
        BY <1>4, <4>1
    <3>2. CASE chunks # <<>>
      BY <3>2 DEF w, ReasonInv, StampsOK
    <3> QED
      BY <3>1, <3>2
  <2> QED
    BY <1>2, <1>8, <1>9, <2>1 DEF ReasonInv, StampsOK
<1>13. PingTimed'
  BY <1>2, <1>8 DEF ReasonInv, PingTimed
<1>14. SilentInv => SilentInv'
  BY <1>2, <1>8 DEF SilentInv, IdleTimed, AnswerTimed, OutputTimed
<1> QED
  BY <1>11, <1>12, <1>13, <1>14 DEF ReasonInv

(* The socket is marked, freed, or nothing happens.                        *)
LEMMA EndStep ==
    ASSUME ReasonInv,
           UNCHANGED <<loopNow, sweptAt, toPing, chunks, pos, rx, tx, outSince, ping, count, past>>,
           \/ UNCHANGED <<state, closing>>
           \/ state' = state /\ closing' = TRUE
           \/ state' # "open" /\ ~toPing /\ closing' = closing
    PROVE  ReasonInv' /\ (SilentInv => SilentInv')
<1>1. ByteInv'
  BY DEF ReasonInv, ByteInv, WsTypeOK, ListOK, PingPlaced
<1>2. StampsOK'
  BY DEF ReasonInv, StampsOK
<1>3. PingTimed'
  BY DEF ReasonInv, PingTimed
<1>4. SilentInv => SilentInv'
  BY DEF SilentInv, IdleTimed, AnswerTimed, OutputTimed
<1> QED
  BY <1>1, <1>2, <1>3, <1>4 DEF ReasonInv

(* EVENT_READ.                                                             *)
LEMMA ReadStep ==
    ASSUME ReasonInv, ReadEvent
    PROVE  ReasonInv' /\ (TimeoutsOn /\ SilentInv => SilentInv')
<1>1. /\ rx' = loopNow /\ ~toPing
      /\ UNCHANGED <<loopNow, sweptAt, toPing, state, closing, chunks, pos, tx, outSince, ping, count, past>>
  BY DEF ReadEvent, pingClock
<1>2. {loopNow, rx, ping.at, PingIdle} \subseteq Nat /\ loopNow >= 1
  BY Numbers DEF ReasonInv, ByteInv, StampsOK
<1>3. ByteInv'
  BY <1>1, <1>2 DEF ReasonInv, ByteInv, WsTypeOK, ListOK, PingPlaced
<1>4. StampsOK'
  BY <1>1, <1>2 DEF ReasonInv, StampsOK
<1>5. PingTimed' /\ (ping.at # 0 => ping.at <= loopNow)
  BY <1>1 DEF ReasonInv, PingTimed
<1>6. TimeoutsOn /\ SilentInv => SilentInv'
  BY <1>1, <1>2, <1>5 DEF TimeoutsOn, SilentInv, IdleTimed, AnswerTimed, OutputTimed
<1> QED
  BY <1>3, <1>4, <1>5, <1>6 DEF ReasonInv

(* EVENT_WRITE.                                                            *)
LEMMA WriteStep ==
    ASSUME ReasonInv, NEW m \in Nat, NEW k \in Nat, WriteEvent(m, k)
    PROVE  ReasonInv' /\ (SilentInv => SilentInv')
<1>1. /\ ~toPing /\ state = "open"
      /\ tx' = IF m + k > 0 THEN loopNow ELSE tx
      /\ count' = count + m
      /\ UNCHANGED <<loopNow, sweptAt, toPing, state, closing, rx, outSince, ping>>
  BY DEF WriteEvent, pingClock
<1>2. /\ chunks' \in Seq(ChunkType) /\ pos' \in Nat /\ Left(m) \in Nat /\ past' \in HistType
      /\ past'.sent = past.sent + (Left(m) + k) /\ past'.queued = past.queued
      /\ past'.pingPos = past.pingPos /\ past'.waiting = past.waiting
      /\ past'.pingOut = IF past.sent < past.pingPos /\ past'.sent >= past.pingPos
                           THEN loopNow ELSE past.pingOut
      /\ ListOK' /\ PingPlaced'
  BY WriteBytes DEF ReasonInv
<1>sent. /\ Left(m) \in Nat /\ past'.sent = past.sent + (Left(m) + k)
         /\ past'.pingPos = past.pingPos
         /\ ~(past.sent < past.pingPos) => past'.pingOut = past.pingOut
  BY <1>2
<1>3. /\ {loopNow, sweptAt, tx, rx, outSince, count} \subseteq Nat
      /\ {past.sent, past.pingPos, past.pingOut, past.waiting} \subseteq Nat
      /\ {ping.at, ping.sentAt} \subseteq Nat
  BY Numbers DEF ReasonInv, ByteInv
<1>4. tx \in 1 .. loopNow /\ tx' \in 1 .. loopNow /\ tx <= tx' /\ tx' \in Nat
  BY <1>1, <1>3, SMTT(30) DEF ReasonInv, StampsOK
<1>5. past'.sent \in Nat /\ past.sent <= past'.sent /\ (past.sent # past'.sent => tx' = loopNow)
  <2>1. m + k = 0 => Left(m) + k = 0
    BY DEF Left
  <2>2. m + k > 0 \/ m + k = 0
    OBVIOUS
  <2>3. m + k > 0 => tx' = loopNow
    BY <1>1
  <2>4. past.sent \in Nat
    BY <1>3
  <2> QED
    BY <1>sent, <2>1, <2>2, <2>3, <2>4
<1>6. ByteInv'
  <2>1. {loopNow, sweptAt, pos, rx, tx, outSince, count}' \subseteq Nat
    <3>1. pos' \in Nat
      BY <1>2
    <3>2. count' \in Nat
      BY <1>1, <1>3
    <3> QED
      BY <1>1, <1>3, <1>4, <3>1, <3>2
  <2>2. toPing' \in BOOLEAN /\ closing' \in BOOLEAN /\ ping' \in PingType
    BY <1>1 DEF ReasonInv, ByteInv, WsTypeOK
  <2>3. WsTypeOK'
    BY <1>2, <2>1, <2>2 DEF WsTypeOK
  <2> QED
    BY <1>2, <2>3 DEF ByteInv
<1>7. chunks' = <<>> /\ chunks # <<>> => tx' = loopNow
  <2> SUFFICES ASSUME chunks' = <<>>, chunks # <<>> PROVE m > 0
    BY <1>1
  <2>1. chunks \in Seq(ChunkType) /\ m \in 0 .. Len(chunks) /\ chunks' = SubSeq(chunks, m + 1, Len(chunks))
    BY DEF ReasonInv, ByteInv, WsTypeOK, WriteEvent
  <2>2. m = 0 => chunks' = chunks
    BY <2>1
  <2> QED
    BY <2>2
<1>8. chunks = <<>> => chunks' = <<>>
  <2>1. chunks \in Seq(ChunkType) /\ m \in 0 .. Len(chunks) /\ chunks' = SubSeq(chunks, m + 1, Len(chunks))
    BY DEF ReasonInv, ByteInv, WsTypeOK, WriteEvent
  <2> QED
    BY <2>1
<1>9. StampsOK'
  <2>1. chunks' # <<>> => past'.waiting <= loopNow
    BY <1>2, <1>8 DEF ReasonInv, StampsOK
  <2>2. chunks' # <<>> /\ outSince # 0 => past'.waiting <= outSince + 2 \/ past'.waiting <= tx' + 2
    <3>1. chunks' # <<>> /\ outSince # 0 => past.waiting <= outSince + 2 \/ past.waiting <= tx + 2
      BY <1>8 DEF ReasonInv, StampsOK
    <3>2. past'.waiting = past.waiting
      BY <1>2
    <3>3. {past.waiting, outSince, tx, tx'} \subseteq Nat /\ tx <= tx'
      BY <1>3, <1>4
    <3> QED
      BY <3>1, <3>2, <3>3
  <2>3. chunks' = <<>> /\ outSince # 0 => loopNow <= tx' + 2 /\ (sweptAt = loopNow => tx' = loopNow)
    <3>1. chunks = <<>> /\ outSince # 0 => loopNow <= tx + 2 /\ (sweptAt = loopNow => tx = loopNow)
      BY <1>1 DEF ReasonInv, StampsOK
    <3>2. tx' = loopNow \/ tx' = tx
      BY <1>1
    <3> QED
      BY <1>3, <1>7, <3>1, <3>2
  <2> QED
    BY <1>1, <1>4, <2>1, <2>2, <2>3 DEF ReasonInv, StampsOK
<1>10. PingTimed'
  <2> SUFFICES ASSUME ping.at # 0 PROVE PingTimed'
    BY <1>1 DEF PingTimed
  <2>1. /\ ping.at <= loopNow /\ past.pingOut <= loopNow
        /\ past.sent >= past.pingPos => ping.at <= past.pingOut /\ past.pingOut <= tx
        /\ ping.sentAt # 0 => past.sent >= past.pingPos /\ past.pingOut <= ping.sentAt
    BY DEF ReasonInv, PingTimed
  <2>2. CASE past.sent >= past.pingPos
    <3>1. past'.sent >= past.pingPos /\ past'.pingOut = past.pingOut
      BY <1>sent, <1>3, <1>5, <2>2
    <3> QED
      BY <1>1, <1>2, <1>3, <1>4, <2>1, <2>2, <3>1 DEF PingTimed
  <2>3. CASE past.sent < past.pingPos
    <3>1. ping.sentAt = 0
      BY <1>3, <2>1, <2>3
    <3>2. past'.sent >= past.pingPos => past'.pingOut = loopNow /\ tx' = loopNow
      BY <1>2, <1>3, <1>5, <2>3, SMTT(30)
    <3>3. past'.pingOut <= loopNow
      BY <1>2, <1>3, <2>1
    <3> QED
      BY <1>1, <1>2, <1>3, <2>1, <3>1, <3>2, <3>3 DEF PingTimed
  <2> QED
    BY <1>3, <2>2, <2>3
<1>11. SilentInv => SilentInv'
  <2> SUFFICES ASSUME state = "open", ~closing, IdleTimed, AnswerTimed, OutputTimed
               PROVE  IdleTimed' /\ AnswerTimed' /\ OutputTimed'
    BY <1>1 DEF SilentInv
  <2>1. IdleTimed'
    BY <1>1 DEF IdleTimed
  <2>2. AnswerTimed'
    <3>1. CASE past.sent >= past.pingPos
      <4>1. past'.pingOut = past.pingOut
        BY <1>2, <1>3, <3>1, SMTT(30)
      <4> QED
        BY <1>1, <1>2, <3>1, <4>1 DEF AnswerTimed
    <3>2. CASE past.sent < past.pingPos
      <4> SUFFICES ASSUME ping.at # 0, rx < ping.at, past'.sent >= past.pingPos
                   PROVE  ping.sentAt = 0 /\ past'.pingOut = loopNow
        <5>1. past'.pingOut = loopNow => loopNow - past'.pingOut <= 2
          BY <1>3
        <5> QED
          BY <1>1, <1>2, <5>1 DEF AnswerTimed
      <4>1. ping.sentAt = 0
        BY <1>3, <3>2 DEF ReasonInv, PingTimed
      <4> QED
        BY <1>2, <3>2, <4>1
    <3> QED
      BY <1>3, <3>1, <3>2
  <2>3. OutputTimed'
    <3>1. past'.sent < past'.pingPos => past.sent < past.pingPos
      BY <1>sent, <1>3, <1>5
    <3>2. OutputIdle \in Nat /\ (loopNow - tx < OutputIdle => loopNow - tx' < OutputIdle)
      BY <1>3, <1>4, WsPingAssumption
    <3> QED
      BY <1>1, <3>1, <3>2 DEF OutputTimed
  <2> QED
    BY <2>1, <2>2, <2>3
<1> QED
  BY <1>6, <1>9, <1>10, <1>11 DEF ReasonInv

(* The next wait is over.                                                  *)
LEMMA TickStep ==
    ASSUME ReasonInv, NEW d \in 1 .. 2, Tick(d)
    PROVE  ReasonInv' /\ (SilentInv => SilentInv')
<1>1. /\ sweptAt = loopNow /\ ~toPing /\ state = "open" /\ loopNow' = loopNow + d
      /\ UNCHANGED <<sweptAt, toPing, state, closing, chunks, pos, rx, tx, outSince, ping, count, past>>
  BY DEF Tick
<1>2. /\ {loopNow, sweptAt, tx, rx, outSince, count} \subseteq Nat
      /\ {past.sent, past.pingPos, past.pingOut, past.waiting} \subseteq Nat
      /\ {ping.at, ping.sentAt} \subseteq Nat
      /\ {OutputIdle, PingIdle, Pong} \subseteq Nat
  BY Numbers DEF ReasonInv, ByteInv
<1>3. ByteInv'
  BY <1>1, <1>2, SMTT(30) DEF ReasonInv, ByteInv, WsTypeOK, ListOK, PingPlaced
<1>4. StampsOK'
  <2>1. chunks = <<>> /\ outSince # 0 => tx = loopNow
    BY <1>1 DEF ReasonInv, StampsOK
  <2>2. /\ loopNow >= 1 /\ {rx, tx} \subseteq 1 .. loopNow /\ outSince <= loopNow
        /\ chunks # <<>> => past.waiting <= loopNow
        /\ chunks # <<>> /\ outSince # 0 => past.waiting <= outSince + 2 \/ past.waiting <= tx + 2
    BY DEF ReasonInv, StampsOK
  <2>3. /\ loopNow' >= 1 /\ {rx, tx} \subseteq 1 .. loopNow' /\ outSince <= loopNow' /\ sweptAt <= loopNow'
        /\ chunks # <<>> => past.waiting <= loopNow'
        /\ loopNow' <= loopNow + 2 /\ sweptAt # loopNow'
    BY <1>1, <1>2, <2>2, SMTT(30)
  <2> QED
    BY <1>1, <2>1, <2>2, <2>3 DEF StampsOK
<1>5. PingTimed'
  BY <1>1, <1>2 DEF ReasonInv, PingTimed
<1>6. SilentInv => SilentInv'
  <2> SUFFICES ASSUME state = "open", ~closing, IdleTimed, AnswerTimed, OutputTimed
               PROVE  IdleTimed' /\ AnswerTimed' /\ OutputTimed'
    BY <1>1 DEF SilentInv
  <2>1. IdleTimed'
    BY <1>1, <1>2 DEF IdleTimed
  <2>2. AnswerTimed'
    BY <1>1, <1>2 DEF AnswerTimed
  <2>3. OutputTimed'
    BY <1>1, <1>2 DEF OutputTimed
  <2> QED
    BY <2>1, <2>2, <2>3
<1> QED
  BY <1>3, <1>4, <1>5, <1>6 DEF ReasonInv

(* Nothing is sent before it is queued.                                    *)
LEMMA SentQueued ==
    ASSUME ByteInv
    PROVE  /\ past.sent <= past.queued
           /\ past.sent < past.queued => chunks # <<>>
<1>1. /\ chunks \in Seq(ChunkType) /\ {past.queued, past.sent, pos, Len(chunks)} \subseteq Nat
      /\ Chained(chunks)
  BY ChunksAre DEF ByteInv, WsTypeOK, HistType, ListOK
<1>2. CASE chunks = <<>>
  BY <1>1, <1>2 DEF ByteInv, ListOK
<1>3. CASE chunks # <<>>
  <2> DEFINE l == Len(chunks)
  <2>1. l \in Nat /\ l > 0 /\ 1 \in 1 .. l /\ l \in 1 .. l
    BY <1>1, <1>3, ChunksAre
  <2>2. {chunks[1].from, chunks[1].to, chunks[l].from, chunks[l].to} \subseteq Nat
    BY <1>1, <2>1, ChunksAre
  <2>3. past.sent = chunks[1].from + pos /\ pos < chunks[1].to - chunks[1].from /\ chunks[l].to = past.queued
    BY <1>3 DEF ByteInv, ListOK, Size
  <2>4. l > 1 => chunks[1].to <= chunks[l].from
    BY <1>1, <2>1 DEF Chained
  <2>5. chunks[l].from < chunks[l].to
    BY <1>1, <2>1 DEF Chained
  <2>6. l = 1 \/ l > 1
    BY <2>1
  <2>7. chunks[1].to <= chunks[l].to
    <3> HIDE DEF l
    <3> QED
      BY <2>2, <2>4, <2>5, <2>6
  <2> QED
    BY <1>1, <1>3, <2>2, <2>3, <2>7
<1> QED
  BY <1>2, <1>3

(* Behind the walk the ping is appended.                                   *)
LEMMA PingStep ==
    ASSUME ReasonInv, conn_send_ping
    PROVE  ReasonInv' /\ (SilentInv => SilentInv')
<1>1. /\ toPing /\ toPing' = FALSE
      /\ UNCHANGED <<loopNow, sweptAt, state, closing, pos, rx, tx, outSince, count>>
  BY DEF conn_send_ping
<1>2. sweptAt = loopNow /\ state = "open" /\ WsTypeOK /\ ByteInv
  BY <1>1 DEF ReasonInv, StampsOK, ByteInv
<1>3. CASE closing
  <2>1. UNCHANGED <<chunks, ping, past>>
    BY <1>3 DEF conn_send_ping
  <2>2. ByteInv'
    BY <1>1, <2>1 DEF ReasonInv, ByteInv, WsTypeOK, ListOK, PingPlaced
  <2>3. StampsOK'
    BY <1>1, <2>1 DEF ReasonInv, StampsOK
  <2>4. PingTimed'
    BY <1>1, <2>1 DEF ReasonInv, PingTimed
  <2>5. SilentInv'
    BY <1>1, <1>3 DEF SilentInv
  <2> QED
    BY <2>2, <2>3, <2>4, <2>5 DEF ReasonInv
<1>4. CASE ~closing
  <2> DEFINE w == IF chunks = <<>> THEN loopNow ELSE past.waiting
             q == past.queued + PingLen
             l == Len(chunks')
             e == Size(chunks'[l])
  <2>1. /\ chunks' = writeChunk(chunks, PingLen)
        /\ ping' = [at |-> loopNow, sentAt |-> 0, seq |-> count + l, end |-> e]
    BY <1>4 DEF conn_send_ping
  <2>2. /\ {loopNow, rx, tx, outSince, count, PingIdle} \subseteq Nat
        /\ {past.queued, past.sent, past.waiting} \subseteq Nat
        /\ PingLen \in Nat /\ PingLen > 0
    BY <1>2, Numbers DEF PingLen
  <2>3. past' = [past EXCEPT !.queued = q, !.pingPos = q, !.pingOut = 0, !.waiting = w]
    BY <1>2, <1>4 DEF conn_send_ping, WsTypeOK, HistType
  <2>4. q \in Nat /\ w \in Nat /\ q = past.queued + PingLen
    BY <2>2
  <2>5. /\ past' \in HistType /\ past'.queued = q /\ past'.pingPos = q /\ past'.pingOut = 0
        /\ past'.waiting = w /\ past'.sent = past.sent
    <3>1. past \in HistType
      BY <1>2 DEF WsTypeOK
    <3> HIDE DEF q, w
    <3> QED
      BY <2>3, <2>4, <3>1 DEF HistType
  <2>6. chunks' \in Seq(ChunkType) /\ chunks' # <<>> /\ ListOK'
    BY <1>1, <1>2, <2>1, <2>2, <2>5, QueuedBytes
  <2>7. /\ l \in Nat /\ l > 0 /\ l \in 1 .. l
        /\ chunks'[l].from \in Nat /\ chunks'[l].to \in Nat
    BY <2>6, ChunksAre
  <2>8. chunks'[l].from < chunks'[l].to /\ chunks'[l].to = q
    BY <2>5, <2>6, <2>7 DEF ListOK, Chained
  <2> HIDE DEF l, q, w
  <2>9. e \in Nat /\ e > 0 /\ chunks'[l].from + e = q
    BY <2>7, <2>8 DEF Size
  <2> HIDE DEF e
  <2>10. /\ ping' \in PingType /\ ping'.at = loopNow /\ ping'.sentAt = 0 /\ ping'.seq = count + l
         /\ ping'.end = e
    BY <2>1, <2>2, <2>7, <2>9 DEF PingType
  <2>11. PingPlaced'
    <3>1. ping'.seq - count' = l /\ ping'.seq > count' /\ ~(ping'.seq <= count')
      BY <1>1, <2>2, <2>7, <2>10
    <3>2. q <= chunks'[l].to /\ l <= Len(chunks') /\ q <= past'.queued
      BY <2>4, <2>5, <2>7, <2>8 DEF l
    <3> QED
      BY <2>5, <2>9, <2>10, <3>1, <3>2 DEF PingPlaced
  <2>12. ByteInv'
    <3>1. WsTypeOK'
      BY <1>1, <1>2, <2>5, <2>6, <2>10 DEF WsTypeOK
    <3> QED
      BY <2>6, <2>11, <3>1 DEF ByteInv
  <2>13. StampsOK'
    <3>1. w <= loopNow /\ (outSince # 0 => w <= outSince + 2 \/ w <= tx + 2)
      <4>1. CASE chunks = <<>>
        <5>1. w = loopNow /\ (outSince # 0 => loopNow <= tx + 2)
          BY <1>2, <4>1 DEF w, ReasonInv, StampsOK
        <5> QED
          BY <2>2, <5>1
      <4>2. CASE chunks # <<>>
        BY <4>2 DEF w, ReasonInv, StampsOK
      <4> QED
        BY <4>1, <4>2
    <3> QED
      BY <1>1, <2>5, <2>6, <3>1 DEF ReasonInv, StampsOK
  <2>14. past'.sent < past'.pingPos /\ loopNow >= 1
    <3>1. past.sent <= past.queued /\ loopNow >= 1
      BY <1>2, SentQueued DEF ReasonInv, StampsOK
    <3> QED
      BY <2>2, <2>4, <2>5, <3>1
  <2>15. PingTimed'
    <3>1. past'.sent \in Nat /\ past'.pingPos \in Nat
      BY <2>2, <2>4, <2>5
    <3> QED
      BY <1>1, <2>2, <2>5, <2>10, <2>14, <3>1 DEF PingTimed
  <2>16. SilentInv => SilentInv'
    <3> SUFFICES ASSUME IdleTimed PROVE IdleTimed' /\ AnswerTimed' /\ OutputTimed'
      BY <1>2, <1>4 DEF SilentInv
    <3>1. rx < loopNow /\ loopNow - rx <= PingIdle + 2
      BY <1>1 DEF IdleTimed
    <3>2. IdleTimed'
      BY <1>1, <1>2, <2>2, <2>10, <2>14, <3>1 DEF IdleTimed
    <3>3. past'.sent \in Nat /\ past'.pingPos \in Nat
      BY <2>2, <2>4, <2>5
    <3>4. AnswerTimed'
      BY <2>14, <3>3 DEF AnswerTimed
    <3>5. OutputTimed'
      BY <1>1, <1>2, <2>10 DEF OutputTimed
    <3> QED
      BY <3>2, <3>4, <3>5
  <2> QED
    BY <2>12, <2>13, <2>15, <2>16 DEF ReasonInv
<1> QED
  BY <1>3, <1>4

(* The sweep.                                                              *)
LEMMA SweepStep ==
    ASSUME ReasonInv, Sweep
    PROVE  ReasonInv' /\ (TimeoutsOn /\ SilentInv => SilentInv')
<1>1. /\ sweptAt # loopNow /\ ~toPing /\ state = "open" /\ sweptAt' = loopNow
      /\ outSince' = IF chunks = <<>> THEN 0 ELSE IF outSince = 0 THEN loopNow ELSE outSince
      /\ UNCHANGED <<loopNow, closing, chunks, pos, rx, tx, count, past>>
  BY DEF Sweep, Waiting
<1>2. WsTypeOK /\ ByteInv /\ StampsOK /\ PingTimed
  BY DEF ReasonInv, ByteInv
<1>3. /\ {loopNow, sweptAt, tx, rx, outSince, count} \subseteq Nat
      /\ {past.sent, past.queued, past.pingPos, past.pingOut, past.waiting} \subseteq Nat
      /\ {ping.at, ping.sentAt} \subseteq Nat
      /\ {OutputIdle, PingIdle, Pong} \subseteq Nat
  BY <1>2, Numbers
<1>4. /\ outSince' \in Nat /\ outSince' <= loopNow
      /\ chunks = <<>> => outSince' = 0
      /\ chunks # <<>> /\ outSince' # 0 => past.waiting <= outSince' + 2 \/ past.waiting <= tx + 2
  BY <1>1, <1>2, <1>3, SMTT(30) DEF StampsOK
<1>5. ASSUME ping' \in PingType, toPing' \in BOOLEAN, toPing' => state' = "open",
             PingPlaced', PingTimed'
      PROVE  ReasonInv'
  <2>1. ByteInv'
    BY <1>1, <1>2, <1>3, <1>4, <1>5 DEF ByteInv, WsTypeOK, ListOK
  <2>2. StampsOK'
    BY <1>1, <1>2, <1>3, <1>4, <1>5 DEF StampsOK
  <2> QED
    BY <1>5, <2>1, <2>2 DEF ReasonInv
<1>6. CASE NotTaken \/ Overdue
  <2>1. state' = "expired" /\ UNCHANGED <<ping, toPing>>
    BY <1>6 DEF Sweep
  <2>2. ReasonInv'
    BY <1>1, <1>2, <1>5, <2>1 DEF WsTypeOK, ByteInv, PingPlaced, PingTimed
  <2>3. SilentInv'
    BY <2>1 DEF SilentInv
  <2> QED
    BY <2>2, <2>3
<1>7. CASE ~(NotTaken \/ Overdue)
  <2>1. /\ state' = state
        /\ ping' = IF closing \/ ping.at = 0 THEN ping ELSE PingSeen
        /\ toPing' = (~closing /\ ping.at = 0 /\ ws_expired(rx, PingIdle))
    BY <1>7 DEF Sweep
  <2>2. ping \in PingType
    BY <1>2 DEF WsTypeOK
  <2>3. \/ ping' = ping /\ (closing \/ ping.at = 0 \/ (rx < ping.at /\ ~(ping.sentAt = 0 /\ ping_out)))
        \/ /\ ping.at # 0 /\ rx >= ping.at /\ ping' \in PingType /\ ping'.at = 0
        \/ /\ ping.at # 0 /\ rx < ping.at /\ ping.sentAt = 0 /\ ping_out
           /\ ping' \in PingType /\ ping'.sentAt = loopNow /\ ping'.at = ping.at
           /\ ping'.seq = ping.seq /\ ping'.end = ping.end
    <3> DEFINE c == [ping EXCEPT !.at = 0, !.sentAt = 0]
               o == [ping EXCEPT !.sentAt = loopNow]
    <3>1. c \in PingType /\ c.at = 0
      BY <2>2 DEF PingType
    <3>2. /\ o \in PingType /\ o.sentAt = loopNow /\ o.at = ping.at
          /\ o.seq = ping.seq /\ o.end = ping.end
      BY <1>3, <2>2 DEF PingType
    <3>3. PingSeen = IF rx >= ping.at THEN c ELSE IF ping.sentAt = 0 /\ ping_out THEN o ELSE ping
      BY DEF PingSeen
    <3>4. rx >= ping.at \/ rx < ping.at
      BY <1>3
    <3> HIDE DEF c, o
    <3>5. CASE closing \/ ping.at = 0
      BY <2>1, <3>5
    <3>6. CASE ~(closing \/ ping.at = 0)
      <4>1. ping' = PingSeen
        BY <2>1, <3>6
      <4>2. CASE rx >= ping.at
        BY <3>1, <3>3, <3>6, <4>1, <4>2
      <4>3. CASE rx < ping.at
        <5>1. ~(rx >= ping.at)
          BY <1>3, <4>3
        <5> QED
          BY <3>2, <3>3, <3>6, <4>1, <4>3, <5>1
      <4> QED
        BY <3>4, <4>2, <4>3
    <3> QED
      BY <3>5, <3>6
  <2>4. ping' \in PingType
    BY <2>2, <2>3
  <2>5. PingPlaced'
    BY <1>1, <1>2, <2>3 DEF ByteInv, PingPlaced
  <2>6. PingTimed'
    <3>1. CASE ping' = ping
      BY <1>1, <1>2, <3>1 DEF PingTimed
    <3>2. CASE ping'.at = 0
      BY <3>2 DEF PingTimed
    <3>3. CASE ping.at # 0 /\ ping_out /\ ping'.sentAt = loopNow /\ ping'.at = ping.at
      <4>1. past.sent >= past.pingPos
        BY <1>2, <3>3, PingOutIs
      <4> QED
        BY <1>1, <1>2, <3>3, <4>1 DEF PingTimed
    <3> QED
      BY <2>3, <3>1, <3>2, <3>3
  <2>7. ReasonInv'
    BY <1>1, <1>5, <2>1, <2>4, <2>5, <2>6
  <2>8. ASSUME TimeoutsOn, ~closing, IdleTimed, AnswerTimed, OutputTimed
        PROVE  IdleTimed' /\ AnswerTimed' /\ OutputTimed'
    <3>1. rx >= 1 /\ rx <= loopNow
      BY <1>2 DEF StampsOK
    <3>2. IdleTimed'
      <4>1. toPing' => ping.at = 0 /\ ping' = ping /\ rx < loopNow
        <5>1. toPing' => ping.at = 0 /\ ws_expired(rx, PingIdle)
          BY <2>1, Zenon
        <5>2. ws_expired(rx, PingIdle) => rx < loopNow
          BY <1>3, <2>8 DEF ws_expired, TimeoutsOn
        <5>3. ping.at = 0 => ping' = ping
          BY <2>1
        <5> QED
          BY <5>1, <5>2, <5>3
      <4>2. ping'.at # 0 => ping.at # 0 /\ ping'.at = ping.at /\ rx < ping.at
        BY <2>3, <2>8
      <4>3. ping'.at = 0 => \/ sweptAt' = loopNow /\ ~toPing' /\ loopNow - rx <= PingIdle
                            \/ toPing' /\ loopNow - rx <= PingIdle + 2
        <5>1. CASE ping.at = 0 /\ ws_expired(rx, PingIdle)
          <6>1. toPing'
            BY <2>1, <2>8, <5>1
          <6> QED
            BY <1>1, <2>8, <5>1, <6>1 DEF IdleTimed
        <5>2. CASE ping.at = 0 /\ ~ws_expired(rx, PingIdle)
          <6>1. ~toPing'
            BY <2>1, <5>2
          <6> QED
            BY <1>1, <1>3, <2>8, <3>1, <5>2, <6>1 DEF ws_expired, TimeoutsOn
        <5>3. CASE ping.at # 0 /\ ping'.at = 0
          <6>1. rx >= ping.at /\ ~toPing'
            BY <2>1, <2>3, <5>3
          <6>2. loopNow - rx <= 2
            BY <2>8, <5>3, <6>1 DEF IdleTimed
          <6> QED
            BY <1>1, <1>3, <2>8, <6>1, <6>2 DEF TimeoutsOn
        <5> QED
          BY <5>1, <5>2, <5>3
      <4>4. ping.at # 0 /\ rx < ping.at => ping.at - rx <= PingIdle + 2
        BY <2>8 DEF IdleTimed
      <4>5. ping'.at # 0 => ~(rx >= ping'.at) /\ ping'.at - rx <= PingIdle + 2
        BY <1>3, <4>2, <4>4
      <4> QED
        BY <1>1, <4>1, <4>2, <4>3, <4>5 DEF IdleTimed
    <3>3. AnswerTimed'
      <4> SUFFICES ASSUME ping'.at # 0, rx < ping'.at, past.sent >= past.pingPos
                   PROVE  /\ ping'.sentAt # 0 /\ ping'.sentAt - past.pingOut <= 2
                          /\ loopNow - ping'.sentAt < Pong /\ loopNow - ping'.sentAt < Pong + 2
        BY <1>1 DEF AnswerTimed
      <4>1. ping.at # 0 /\ ping'.at = ping.at /\ rx < ping.at
        BY <2>3, <2>8
      <4>2. ping_out
        BY <1>2, <4>1, PingOutIs
      <4>3. CASE ping.sentAt = 0
        <5>1. ping'.sentAt = loopNow
          BY <1>3, <2>3, <2>8, <4>1, <4>2, <4>3
        <5>2. loopNow - past.pingOut <= 2 /\ loopNow >= 1
          BY <1>2, <2>8, <4>1, <4>3 DEF AnswerTimed, StampsOK
        <5> QED
          BY <1>3, <2>8, <5>1, <5>2 DEF TimeoutsOn
      <4>4. CASE ping.sentAt # 0
        <5>1. ping'.sentAt = ping.sentAt
          BY <1>3, <2>3, <4>1, <4>4
        <5>2. ping.sentAt - past.pingOut <= 2
          BY <2>8, <4>1, <4>4 DEF AnswerTimed
        <5>3. ~PongMissed
          BY <1>7, <2>8 DEF Overdue
        <5>4. loopNow - ping.sentAt < Pong
          BY <1>3, <2>8, <4>1, <4>4, <5>3 DEF PongMissed, ws_expired, TimeoutsOn
        <5> QED
          BY <1>3, <4>4, <5>1, <5>2, <5>4
      <4> QED
        BY <4>3, <4>4
    <3>4. OutputTimed'
      <4> SUFFICES ASSUME ping'.at # 0, rx < ping'.at, past.sent < past.pingPos
                   PROVE  /\ outSince' # 0 /\ outSince' <= ping'.at + 2
                          /\ loopNow - outSince' < OutputIdle \/ loopNow - tx < OutputIdle
        BY <1>1 DEF OutputTimed
      <4>1. ping.at # 0 /\ ping'.at = ping.at /\ rx < ping.at
        BY <2>3, <2>8
      <4>2. chunks # <<>>
        <5>1. past.pingPos <= past.queued
          BY <1>2, <4>1 DEF ByteInv, PingPlaced
        <5>2. past.sent < past.queued
          BY <1>3, <5>1
        <5> QED
          BY <1>2, <5>2, SentQueued
      <4>3. loopNow - ping.at <= 2 \/ (outSince # 0 /\ outSince <= ping.at + 2)
        BY <1>1, <2>8, <4>1 DEF OutputTimed
      <4>4. CASE outSince = 0
        BY <1>1, <1>2, <1>3, <2>8, <4>1, <4>2, <4>3, <4>4, SMTT(30) DEF TimeoutsOn, StampsOK
      <4>5. CASE outSince # 0
        <5>1. outSince' = outSince /\ outSince <= loopNow
          BY <1>1, <1>2, <4>2, <4>5 DEF StampsOK
        <5>2. outSince <= ping.at + 2
          BY <1>3, <4>3, <5>1
        <5>3. ~NotTaken
          BY <1>7
        <5>4. ~ws_expired(Max({outSince, tx}), OutputIdle)
          BY <4>2, <4>5, <5>3 DEF NotTaken, Waiting
        <5>5. Max({outSince, tx}) = IF outSince >= tx THEN outSince ELSE tx
          BY <1>3, MaxIs
        <5>6. tx >= 1
          BY <1>2 DEF StampsOK
        <5>7. loopNow - outSince < OutputIdle \/ loopNow - tx < OutputIdle
          BY <1>3, <2>8, <4>5, <5>4, <5>5, <5>6 DEF ws_expired, TimeoutsOn
        <5> QED
          BY <4>1, <4>5, <5>1, <5>2, <5>7
      <4> QED
        BY <4>4, <4>5
    <3> QED
      BY <3>2, <3>3, <3>4
  <2>9. TimeoutsOn /\ SilentInv => SilentInv'
    BY <1>1, <2>1, <2>8 DEF SilentInv
  <2> QED
    BY <2>7, <2>9
<1> QED
  BY <1>6, <1>7

-----------------------------------------------------------------------------
(* The results.                                                            *)

(* The invariants hold at the start.                                       *)
LEMMA PingInit == WsPingInit => ReasonInv /\ (TimeoutsOn => SilentInv)
<1> SUFFICES ASSUME WsPingInit PROVE ReasonInv /\ (TimeoutsOn => SilentInv)
  OBVIOUS
<1>1. /\ loopNow = 1 /\ sweptAt = 1 /\ toPing = FALSE /\ state = "open" /\ closing = FALSE
      /\ chunks = <<>> /\ pos = 0 /\ rx = 1 /\ tx = 1 /\ outSince = 0 /\ count = 0
      /\ ping = [at |-> 0, sentAt |-> 0, seq |-> 0, end |-> 0]
      /\ past = [queued |-> 0, sent |-> 0, pingPos |-> 0, pingOut |-> 0, waiting |-> 0]
  BY DEF WsPingInit
<1>2. ping \in PingType /\ ping.at = 0
  BY <1>1 DEF PingType
<1>3. past \in HistType /\ past.sent = 0 /\ past.queued = 0
  BY <1>1 DEF HistType
<1>4. chunks \in Seq(ChunkType) /\ Len(chunks) = 0
  BY <1>1
<1>5. Chained(chunks)
  BY <1>4 DEF Chained
<1>6. ByteInv
  <2>1. {loopNow, sweptAt, pos, rx, tx, outSince, count} \subseteq Nat
    BY <1>1
  <2>2. WsTypeOK
    BY <1>1, <1>2, <1>3, <1>4, <2>1 DEF WsTypeOK
  <2>3. ListOK
    BY <1>1, <1>3, <1>5 DEF ListOK
  <2>4. PingPlaced
    BY <1>2 DEF PingPlaced
  <2> QED
    BY <2>2, <2>3, <2>4 DEF ByteInv
<1>7. StampsOK
  BY <1>1 DEF StampsOK
<1>8. PingTimed
  BY <1>2 DEF PingTimed
<1>9. TimeoutsOn => IdleTimed
  BY <1>1, <1>2, WsPingAssumption DEF TimeoutsOn, IdleTimed
<1>10. AnswerTimed /\ OutputTimed
  BY <1>2 DEF AnswerTimed, OutputTimed
<1> QED
  BY <1>6, <1>7, <1>8, <1>9, <1>10 DEF ReasonInv, SilentInv

(* And every step keeps them.                                              *)
LEMMA PingNext ==
    ASSUME ReasonInv, [WsPingNext]_pingVars
    PROVE  ReasonInv' /\ (TimeoutsOn /\ SilentInv => SilentInv')
<1> DEFINE Goal == ReasonInv' /\ (TimeoutsOn /\ SilentInv => SilentInv')
<1>0. MaxBytes \in Nat /\ PingLen \in Nat /\ ChunkSize \in Nat
  BY WsPingAssumption DEF PingLen
<1>1. CASE UNCHANGED pingVars
  BY <1>1, EndStep DEF pingVars
<1>2. ASSUME NEW n \in FrameLens, sendWebsocketFrameReal(n) PROVE Goal
  BY <1>2, FrameStep
<1>3. CASE closeWebsocket
  BY <1>3, EndStep DEF closeWebsocket, pingClock
<1>4. ASSUME NEW m \in 0 .. MaxBytes + PingLen, NEW k \in 0 .. ChunkSize, WriteEvent(m, k) PROVE Goal
  BY <1>0, <1>4, WriteStep
<1>5. ASSUME NEW m \in 0 .. MaxBytes + PingLen, NEW why \in {"bufferFull", "sendError"},
             WriteFails(m, why)
      PROVE  Goal
  BY <1>5, EndStep DEF WriteFails, pingClock
<1>6. CASE ReadEvent
  BY <1>6, ReadStep
<1>7. CASE CloseMarked
  BY <1>7, EndStep DEF CloseMarked, pingClock
<1>8. CASE Sweep
  BY <1>8, SweepStep
<1>9. CASE conn_send_ping
  BY <1>9, PingStep
<1>10. ASSUME NEW d \in 1 .. MaxRound, Tick(d) PROVE Goal
  BY <1>10, TickStep DEF MaxRound
<1>11. CASE WsPingDone
  BY <1>1, <1>11 DEF WsPingDone
<1> HIDE DEF Goal
<1>12. Goal
  BY <1>1, <1>2, <1>3, <1>4, <1>5, <1>6, <1>7, <1>8, <1>9, <1>10, <1>11 DEF WsPingNext, Goal
<1> QED
  BY <1>12 DEF Goal

(* Only the sweep expires a websocket, and then for one of two reasons     *)
(* unless it is closing.                                                   *)
LEMMA ExpiredWhy ==
    ASSUME ReasonInv, WsPingNext, ~(UNCHANGED pingVars), state' = "expired", ~closing
    PROVE  NotTaken \/ PongMissed
<1>1. CASE Sweep
  BY <1>1 DEF Sweep, Overdue
<1>2. CASE ~Sweep
  <2>1. state = "expired"
    <3>1. ASSUME NEW m, NEW why \in {"bufferFull", "sendError"} PROVE ~WriteFails(m, why)
      BY DEF WriteFails
    <3>2. ~CloseMarked
      BY DEF CloseMarked
    <3>3. ~Sweep
      BY <1>2
    <3> QED
      BY <3>1, <3>2, <3>3
         DEF WsPingNext, sendWebsocketFrameReal, closeWebsocket, WriteEvent, ReadEvent, conn_send_ping, Tick, WsPingDone, pingVars
  <2>2. ~toPing
    BY <2>1 DEF ReasonInv, StampsOK
  <2> QED
    BY <1>2, <2>1, <2>2
       DEF WsPingNext, sendWebsocketFrameReal, closeWebsocket, WriteEvent, WriteFails, ReadEvent, CloseMarked,
           conn_send_ping, Tick, WsPingDone
<1> QED
  BY <1>1, <1>2

(* With the timeouts on, a state after a sweep is in time.                 *)
LEMMA InTime ==
    ASSUME ReasonInv, SilentInv, TimeoutsOn
    PROVE  SilentIsClosed
<1> SUFFICES ASSUME state = "open", sweptAt = loopNow, ~closing
             PROVE  /\ ping.at # 0 /\ past.sent >= past.pingPos /\ rx < ping.at =>
                          loopNow - past.pingOut < Pong + 2
                    /\ loopNow - Max({rx, tx}) < PingIdle + Max({OutputIdle, Pong}) + 4
  BY DEF SilentIsClosed
<1>1. IdleTimed /\ AnswerTimed /\ OutputTimed
  BY DEF SilentInv
<1>2. /\ {loopNow, tx, rx, outSince} \subseteq Nat /\ {past.sent, past.pingPos, past.pingOut} \subseteq Nat
      /\ {ping.at, ping.sentAt} \subseteq Nat /\ {OutputIdle, PingIdle, Pong} \subseteq Nat
  BY Numbers DEF ReasonInv, ByteInv
<1>3. ping.at # 0 /\ past.sent >= past.pingPos /\ rx < ping.at => loopNow - past.pingOut < Pong + 2
  BY <1>1, <1>2, SMTT(30) DEF AnswerTimed, TimeoutsOn
<1> DEFINE M == Max({rx, tx})
           L == Max({OutputIdle, Pong})
<1>4. M \in Nat /\ rx <= M /\ tx <= M
  <2>1. M = IF rx >= tx THEN rx ELSE tx
    BY <1>2, MaxIs
  <2> HIDE DEF M
  <2> QED
    BY <1>2, <2>1
<1>5. L \in Nat /\ OutputIdle <= L /\ Pong <= L
  <2>1. L = IF OutputIdle >= Pong THEN OutputIdle ELSE Pong
    BY <1>2, MaxIs
  <2> HIDE DEF L
  <2> QED
    BY <1>2, <2>1
<1> HIDE DEF M, L
<1>6. loopNow - M < PingIdle + L + 4
  <2>1. CASE ping.at = 0
    <3>1. loopNow - rx <= PingIdle + 2
      BY <1>1, <1>2, <2>1 DEF IdleTimed
    <3> QED
      BY <1>2, <1>4, <1>5, <3>1
  <2>2. CASE ping.at # 0
    <3>1. CASE rx >= ping.at
      BY <1>1, <1>2, <1>4, <1>5, <2>2, <3>1 DEF IdleTimed
    <3>2. CASE rx < ping.at /\ past.sent >= past.pingPos
      <4>1. loopNow - past.pingOut < Pong + 2 /\ past.pingOut <= tx
        BY <1>3, <2>2, <3>2 DEF ReasonInv, PingTimed
      <4> QED
        BY <1>2, <1>4, <1>5, <4>1
    <3>3. CASE rx < ping.at /\ past.sent < past.pingPos
      <4>1. \/ loopNow = ping.at
            \/ outSince <= ping.at + 2 /\ (loopNow - outSince < OutputIdle \/ loopNow - tx < OutputIdle)
        BY <1>1, <2>2, <3>3 DEF OutputTimed
      <4>2. ping.at - rx <= PingIdle + 2
        BY <1>1, <2>2, <3>3 DEF IdleTimed
      <4> QED
        BY <1>2, <1>4, <1>5, <4>1, <4>2
    <3> QED
      BY <1>2, <3>1, <3>2, <3>3
  <2> QED
    BY <2>1, <2>2
<1>7. ping.at # 0 /\ past.sent >= past.pingPos /\ rx < ping.at => loopNow - past.pingOut < Pong + 2
  BY <1>3
<1> QED
  BY <1>6, <1>7 DEF M, L

(* The chunk list of a websocket holds what is queued and not yet sent,    *)
(* and the sweep's ping_out, from ws_chunks_sent and websocket_send_pos,   *)
(* is true exactly when the last byte of the ping has been sent: for       *)
(* chunks and frames of any size, in any order of queueing and sending.    *)
THEOREM PingExact == WsPingSpec => []PingOutExact
<1>1. WsPingInit => ReasonInv
  BY PingInit
<1>2. ReasonInv /\ [WsPingNext]_pingVars => ReasonInv'
  BY PingNext
<1>3. ReasonInv => PingOutExact
  BY ExactFromBytes DEF ReasonInv
<1> QED
  BY <1>1, <1>2, <1>3, PTL DEF WsPingSpec

(* conn_timeout_websocket() closes an open websocket only if it has taken  *)
(* nothing for to_send_idle and output has waited for all of that time but *)
(* a round, or if it has been silent for to_ws_pong since the ping was on  *)
(* the wire: for any limits, and with events before and behind the sweep   *)
(* of a second.                                                            *)
THEOREM ReasonToClose == WsPingSpec => ClosedForReason
<1> DEFINE A == state' = "expired" /\ ~closing =>
                  \/ /\ Waiting /\ loopNow - tx >= OutputIdle
                     /\ loopNow - past.waiting >= OutputIdle - MaxRound
                  \/ /\ past.sent >= past.pingPos
                     /\ loopNow - past.pingOut >= Pong
                     /\ rx < past.pingOut
<1>1. WsPingInit => ReasonInv
  BY PingInit
<1>2. ReasonInv /\ [WsPingNext]_pingVars => ReasonInv'
  BY PingNext
<1>3. ReasonInv /\ [WsPingNext]_pingVars => [A]_pingVars
  <2> SUFFICES ASSUME ReasonInv, WsPingNext, ~(UNCHANGED pingVars), state' = "expired", ~closing PROVE A
    OBVIOUS
  <2>1. /\ {loopNow, tx, rx, outSince, past.waiting} \subseteq Nat
        /\ {past.sent, past.pingPos, past.pingOut} \subseteq Nat
        /\ {ping.at, ping.sentAt} \subseteq Nat /\ {OutputIdle, Pong} \subseteq Nat
    BY Numbers DEF ReasonInv, ByteInv
  <2>2. CASE NotTaken
    <3>1. /\ Waiting /\ outSince # 0 /\ loopNow - Max({outSince, tx}) >= OutputIdle
      BY <2>2 DEF NotTaken, ws_expired
    <3>2. past.waiting <= outSince + 2 \/ past.waiting <= tx + 2
      BY <3>1 DEF ReasonInv, StampsOK, Waiting
    <3>3. Max({outSince, tx}) = IF outSince >= tx THEN outSince ELSE tx
      BY <2>1, MaxIs
    <3>4. loopNow - tx >= OutputIdle /\ loopNow - outSince >= OutputIdle
      BY <2>1, <3>1, <3>3
    <3>5. loopNow - past.waiting >= OutputIdle - MaxRound
      BY <2>1, <3>2, <3>4 DEF MaxRound
    <3> QED
      BY <3>1, <3>4, <3>5
  <2>3. CASE PongMissed
    <3>1. ping.at # 0 /\ rx < ping.at /\ ping.sentAt # 0 /\ loopNow - ping.sentAt >= Pong
      BY <2>3 DEF PongMissed, ws_expired
    <3>2. /\ past.sent >= past.pingPos /\ past.pingOut <= ping.sentAt /\ ping.at <= past.pingOut
      BY <3>1 DEF ReasonInv, PingTimed
    <3> QED
      BY <2>1, <3>1, <3>2
  <2> QED
    BY <2>2, <2>3, ExpiredWhy
<1>4. [][A]_pingVars => ClosedForReason
  BY DEF ClosedForReason
<1> HIDE DEF A
<1> QED
  BY <1>1, <1>2, <1>3, <1>4, PTL DEF WsPingSpec

(* With the timeouts switched on (to_ws_ping_idle is two seconds or more), *)
(* a client that does not answer its ping is closed within two rounds of   *)
(* to_ws_pong, and one that neither sends nor takes anything within the    *)
(* idle time, the time to answer and the rounds in between, whatever the   *)
(* sizes and limits are.                                                   *)
THEOREM SilentGone ==
    ASSUME TimeoutsOn
    PROVE  WsPingSpec => []SilentIsClosed
<1>1. WsPingInit => ReasonInv /\ SilentInv
  BY PingInit
<1>2. (ReasonInv /\ SilentInv) /\ [WsPingNext]_pingVars => (ReasonInv /\ SilentInv)'
  BY PingNext
<1>3. ReasonInv /\ SilentInv => SilentIsClosed
  BY InTime
<1> QED
  BY <1>1, <1>2, <1>3, PTL DEF WsPingSpec
=============================================================================
