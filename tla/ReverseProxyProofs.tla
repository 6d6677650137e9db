------------------------- MODULE ReverseProxyProofs -------------------------
(***************************************************************************)
(* Proofs about ReverseProxy, for any requests and responses and any sizes *)
(* of the buffers and of the sockets' windows.                             *)
(***************************************************************************)
EXTENDS ReverseProxy, SequenceTheorems, WellFoundedInduction, TLAPS

Alphabet == STRING \cup {"F", "C", "400", "411", "413", "431", "502"}
Units == Seq(Alphabet)
Events == {"none", "read", "readonce", "write", "readwrite", "peerclose"}
States == {"IDLE", "RECV_REQ_HEADER", "RECV_REQ_BODY", "CONNECT", "SEND", "RECV_RES_HEADER", "STREAMING",
           "WAIT_WRITE", "TUNNEL", "DONE", "ERROR", "RELEASED"}
Modes == {"none", "length", "chunked", "close"}
ChunkStates == {"SIZE_START", "SIZE", "EXT", "SIZE_LF", "DATA", "DATA_CR", "DATA_LF", "TRAILER",
                "TRAILER_LF", "TRAILER_LINE", "TRAILER_LINE_LF", "DONE", "ERROR"}
Chunk == [state : ChunkStates, size : Int]
Sock == [todo : Units, kin : Units, pend : Nat, known : BOOLEAN, got : Units, read : Nat,
         fin : BOOLEAN, gone : BOOLEAN, shut : BOOLEAN, ev : Events, close : BOOLEAN,
         handle : BOOLEAN, open : BOOLEAN, tls : BOOLEAN]
Proxy(x) ==
  [state : States, ended : States \cup {""}, req : Units, reqEnd : Nat, reqLength : Nat, reqSize : Nat,
   reqLines : {x.req.lines, WithClose(x.req.lines)}, sendPos : Nat, res : Units, resEnd : Nat,
   resLength : Nat, resSize : Nat, mode : Modes, bodySent : Nat, upgrade : BOOLEAN,
   headerSent : BOOLEAN, chunk : Chunk, c2b : Units, b2c : Units]
Worlds(x) == [p : Proxy(x), c : Sock, b : Sock, x : {x}]

SockOK(s) ==
  /\ s.pend <= Len(s.kin) /\ s.read <= Len(s.got) /\ Len(s.got) - s.read <= Window

(* Sequences by their parts.                                               *)
Cat(a, b) == a \o b
Take(s, n) == SubSeq(s, 1, n)
Drop(s, n) == SubSeq(s, n + 1, Len(s))
Part(s, m, n) == SubSeq(s, m + 1, n)

(* What has yet to come from the peer, and what of the response has yet to *)
(* be sent.                                                                *)
Coming(s) == Cat(s.kin, s.todo)
Unsent(p) == Drop(p.res, p.sendPos)
Whole(x) == Rewritten(x, Len(x.res.units))
Announced(x) ==
  LET length == proxy_parse_content_length(x.req.lines) IN IF length > 0 THEN length ELSE 0

(* The request on its way, mid between client and backend.                 *)
Passing(w, mid) ==
  IF IsUpgrade(w.x) THEN Cat(Cat(w.b.got, mid), Coming(w.c)) = Forwarded(w.x)
  ELSE Cat(w.b.got, mid) = Forwarded(w.x)

Safe(w) ==
  /\ IsPrefixOf(w.b.got, Forwarded(w.x))
  /\ IsPrefixOf(w.c.got, Whole(w.x)) \/ w.c.got \in ErrorPages
  /\ w.b.got # <<>> => IsUpgrade(w.x) \/ w.p.reqLines = WithClose(w.x.req.lines)

Base(w) ==
  /\ w \in Worlds(w.x) /\ w.x \in Exchanges /\ SockOK(w.c) /\ SockOK(w.b) /\ w.b.pend = 0
  /\ w.p.reqSize >= BufferSize /\ w.p.resSize >= BufferSize
  /\ w.p.upgrade => IsUpgrade(w.x)
  /\ Safe(w)

(* Where the bytes are, in each state of the proxy.                        *)
Unanswered(w) ==
  w.c.got = <<>> /\ Cat(w.p.res, Coming(w.b)) = w.x.res.units /\ ~w.p.headerSent
Collects(w) ==
  /\ w.b.got = <<>> /\ Cat(w.p.req, Coming(w.c)) = w.x.req.units /\ Len(w.p.req) <= w.p.reqSize
  /\ w.p.reqLines = w.x.req.lines /\ w.p.sendPos = 0 /\ w.p.res = <<>> /\ Unanswered(w)
HasHeader(w) ==
  w.p.reqEnd = w.x.req.hdr /\ w.p.reqEnd <= Len(w.p.req) /\ w.p.reqLength = Announced(w.x)
Sends(w) ==
  /\ w.p.sendPos <= Len(w.p.req) /\ Passing(w, Drop(w.p.req, w.p.sendPos))
  /\ IsUpgrade(w.x) \/ w.p.reqLines = WithClose(w.x.req.lines)
  /\ w.p.res = <<>> /\ Unanswered(w)
Awaits(w) ==
  Passing(w, <<>>) /\ w.p.sendPos = 0 /\ Unanswered(w)
Streams(w) ==
  /\ Passing(w, <<>>) /\ w.p.sendPos <= Len(w.p.res)
  /\ Cat(Cat(w.c.got, Unsent(w.p)), Coming(w.b)) = Whole(w.x)
  /\ ~w.p.headerSent => w.p.sendPos <= w.p.resEnd /\ w.p.resEnd <= Len(w.p.res)
Tunnels(w) ==
  /\ IsUpgrade(w.x) /\ Passing(w, w.p.c2b) /\ w.p.headerSent
  /\ Cat(Cat(w.c.got, w.p.b2c), Coming(w.b)) = Whole(w.x)

InState(w) ==
  /\ w.p.state = "IDLE" => w.p.req = <<>>
  /\ w.p.state \in {"IDLE", "RECV_REQ_HEADER", "RECV_REQ_BODY"} => Collects(w)
  /\ w.p.state = "RECV_REQ_BODY" => HasHeader(w)
  /\ w.p.state = "SEND" => Sends(w)
  /\ w.p.state = "RECV_RES_HEADER" => Awaits(w)
  /\ w.p.state \in {"STREAMING", "WAIT_WRITE"} => Streams(w)
  /\ w.p.state = "STREAMING" => w.p.headerSent
  /\ w.p.state = "TUNNEL" => Tunnels(w)

Begun(w) == w.p.headerSent
In(w, st) == w.p.state = st

(* A connection that is in use is held by its handler or is being closed.  *)
Held(w) == w.c.handle \/ w.c.close
BytesOK(w) ==
  Base(w) /\ (Held(w) \/ w.p.state \in {"IDLE", "RELEASED"}) /\ InState(w)
BytesInv == BytesOK(W)

(* v differs from w only in what is registered and in the proxy's state.   *)
SameSock(s, t) ==
  /\ t \in Sock /\ t.todo = s.todo /\ t.kin = s.kin /\ t.pend = s.pend
  /\ t.got = s.got /\ t.read = s.read
SameProxy(p, q) ==
  /\ q.req = p.req /\ q.reqEnd = p.reqEnd /\ q.reqLength = p.reqLength /\ q.reqSize = p.reqSize
  /\ q.reqLines = p.reqLines /\ q.sendPos = p.sendPos /\ q.res = p.res /\ q.resEnd = p.resEnd
  /\ q.resSize = p.resSize /\ q.upgrade = p.upgrade /\ q.headerSent = p.headerSent
  /\ q.c2b = p.c2b /\ q.b2c = p.b2c
Still(w, v) ==
  v \in Worlds(w.x) /\ v.x = w.x /\ SameProxy(w.p, v.p) /\ SameSock(w.c, v.c) /\ SameSock(w.b, v.b)

---------------------------------------------------------------------------
(* Sequences.                                                              *)

(* A sequence is its first k elements and the rest.                        *)
LEMMA SeqCut ==
    ASSUME NEW s \in Units, NEW k \in 0 .. Len(s)
    PROVE  /\ SubSeq(s, 1, k) \in Units /\ SubSeq(s, k + 1, Len(s)) \in Units
           /\ Len(SubSeq(s, 1, k)) = k /\ Len(SubSeq(s, k + 1, Len(s))) = Len(s) - k
           /\ SubSeq(s, 1, k) \o SubSeq(s, k + 1, Len(s)) = s
<1>1. Len(s) \in Nat /\ k \in Nat /\ k <= Len(s)
  BY LenProperties DEF Units
<1>2. /\ SubSeq(s, 1, k) \in Units
      /\ SubSeq(s, k + 1, Len(s)) \in Units
  BY <1>1, SubSeqProperties DEF Units
<1>3. SubSeq(s, 1, k) \o SubSeq(s, k + 1, Len(s)) = SubSeq(s, 1, Len(s))
  <2>1. 1 \in 1 .. Len(s) + 1 /\ k \in 1 - 1 .. Len(s) /\ Len(s) \in k .. Len(s)
    BY <1>1
  <2> QED
    BY <2>1, ConcatAdjacentSubSeq DEF Units
<1>4. SubSeq(s, 1, Len(s)) = s
  BY <1>1, SubSeqFull DEF Units
<1>5. Len(SubSeq(s, 1, k)) = k /\ Len(SubSeq(s, k + 1, Len(s))) = Len(s) - k
  BY <1>1, SubSeqProperties DEF Units
<1> QED
  BY <1>2, <1>3, <1>4, <1>5

LEMMA SeqBasics ==
    ASSUME NEW a \in Units, NEW b \in Units
    PROVE  /\ a \o b \in Units /\ Len(a \o b) = Len(a) + Len(b) /\ Len(a) \in Nat
           /\ <<>> \in Units /\ Len(<<>>) = 0 /\ a \o <<>> = a /\ <<>> \o a = a
           /\ (a = <<>> <=> Len(a) = 0)
  BY ConcatProperties, ConcatEmptySeq, LenProperties, EmptySeq DEF Units

(* Concatenation and the cutting of sequences by their laws.               *)

LEMMA CatUnits ==
    \A a, b \in Units : Cat(a, b) \in Units
  BY DEF Units, Cat

LEMMA CatAssoc ==
    \A a, b, c \in Units : Cat(Cat(a, b), c) = Cat(a, Cat(b, c))
  BY SMTT(30) DEF Units, Cat

LEMMA SeqAssoc ==
    \A a, b, c \in Units : (a \o b) \o c = a \o (b \o c)
  BY CatAssoc, Zenon DEF Cat

(* A front part is a prefix.                                               *)
LEMMA FrontIsPrefix ==
    ASSUME NEW a \in Units, NEW b \in Units
    PROVE  IsPrefixOf(a, a \o b)
<1>1. Len(a) \in Nat /\ Len(b) \in Nat /\ Len(a \o b) = Len(a) + Len(b)
  BY SeqBasics
<1>2. SubSeq(a \o b, 1, Len(a)) = a
  BY <1>1, SubSeqOfConcat1, SubSeqFull DEF Units
<1> QED
  BY <1>1, <1>2 DEF IsPrefixOf

LEMMA FrontOfThree ==
    ASSUME NEW a \in Units, NEW b \in Units, NEW c \in Units
    PROVE  IsPrefixOf(a, (a \o b) \o c)
<1>1. (a \o b) \o c = a \o (b \o c) /\ b \o c \in Units
  BY SeqAssoc, SeqBasics
<1> QED
  BY <1>1, FrontIsPrefix

LEMMA OneUnit ==
    ASSUME NEW S, NEW u \in S
    PROVE  <<u>> \in Seq(S) /\ Len(<<u>>) = 1
  OBVIOUS

(* A unit inserted into the front part.                                    *)
LEMMA InsertFront ==
    ASSUME NEW a \in Units, NEW b \in Units, NEW u \in Alphabet, NEW h \in 1 .. Len(a)
    PROVE  /\ InsertBefore(a, h, u) \in Units /\ Len(InsertBefore(a, h, u)) = Len(a) + 1
           /\ InsertBefore(a \o b, h, u) = InsertBefore(a, h, u) \o b
<1> DEFINE f == SubSeq(a, 1, h - 1)
           r == SubSeq(a, h, Len(a))
           n == Len(a \o b)
<1>1. /\ Len(a) \in Nat /\ Len(b) \in Nat /\ n = Len(a) + Len(b) /\ h \in Nat
      /\ a \o b \in Units /\ 1 <= h /\ h <= Len(a)
  BY SeqBasics
<1>2. /\ f \in Units /\ Len(f) = h - 1 /\ r \in Units /\ Len(r) = Len(a) - (h - 1)
  <2>1. h - 1 \in 0 .. Len(a) /\ (h - 1) + 1 = h
    BY <1>1
  <2> QED
    BY <2>1, SeqCut
<1>3. SubSeq(a \o b, 1, h - 1) = f
  BY <1>1, SubSeqOfConcat1 DEF Units
<1>4. SubSeq(a \o b, h, n) = r \o b
  <2> HIDE DEF n
  <2>1. /\ SubSeq(a \o b, h, Len(a)) = r
    BY <1>1, SubSeqOfConcat1 DEF Units
  <2>2. SubSeq(a \o b, Len(a) + 1, n) = b
    <3>1. SubSeq(a \o b, Len(a) + 1, Len(a) + Len(b)) = SubSeq(b, 1, Len(b))
      BY <1>1, SubSeqOfConcat2 DEF Units
    <3> QED
      BY <1>1, <3>1, SubSeqFull DEF Units
  <2>3. SubSeq(a \o b, h, Len(a)) \o SubSeq(a \o b, Len(a) + 1, n) = SubSeq(a \o b, h, n)
    <3>1. h \in 1 .. Len(a \o b) + 1 /\ Len(a) \in h - 1 .. Len(a \o b) /\ n \in Len(a) .. Len(a \o b)
      BY <1>1 DEF n
    <3> QED
      BY <1>1, <3>1, ConcatAdjacentSubSeq DEF Units
  <2> QED
    BY <2>1, <2>2, <2>3
<1> HIDE DEF f, r
<1>5. <<u>> \in Units /\ Len(<<u>>) = 1
  BY OneUnit, Zenon DEF Units
<1>6. f \o <<u>> \in Units /\ Len(f \o <<u>>) = h
  BY <1>1, <1>2, <1>5, SeqBasics
<1>7. ((f \o <<u>>) \o r) \o b = (f \o <<u>>) \o (r \o b)
  <2> DEFINE fu == f \o <<u>>
  <2>1. fu \in Units /\ r \in Units
    BY <1>2, <1>6
  <2> HIDE DEF fu
  <2>2. (fu \o r) \o b = fu \o (r \o b)
    BY <2>1, SeqAssoc, ZenonT(60)
  <2> QED
    BY <2>2 DEF fu
<1>8. (f \o <<u>>) \o r \in Units /\ Len((f \o <<u>>) \o r) = Len(a) + 1
  <2> DEFINE fu == f \o <<u>>
  <2>1. fu \in Units /\ Len(fu) = h
    BY <1>6
  <2> HIDE DEF fu
  <2>2. fu \o r \in Units /\ Len(fu \o r) = Len(fu) + Len(r)
    BY <1>2, <2>1, SeqBasics
  <2>3. Len(fu \o r) = Len(a) + 1
    BY <1>1, <1>2, <2>1, <2>2
  <2> QED
    BY <2>2, <2>3 DEF fu
<1> QED
  BY <1>3, <1>4, <1>7, <1>8 DEF InsertBefore, f, r

(* Parts of the unsent rest.                                               *)
LEMMA RestOfRest ==
    ASSUME NEW s \in Units, NEW p \in Nat, NEW e \in Nat, NEW n \in Nat,
           p <= e, e <= Len(s), n <= e - p
    PROVE  LET rest == SubSeq(s, p + 1, Len(s))
               part == SubSeq(s, p + 1, e)
           IN  /\ rest \in Units /\ Len(rest) = Len(s) - p
               /\ part \in Units /\ Len(part) = e - p
               /\ SubSeq(part, 1, n) = SubSeq(rest, 1, n)
               /\ SubSeq(s, p + n + 1, Len(s)) = SubSeq(rest, n + 1, Len(rest))
<1> DEFINE rest == SubSeq(s, p + 1, Len(s))
           part == SubSeq(s, p + 1, e)
<1>1. Len(s) \in Nat
  BY LenProperties DEF Units
<1>2. /\ rest \in Units /\ Len(rest) = Len(s) - p
      /\ part \in Units /\ Len(part) = e - p
      /\ \A i \in 1 .. Len(rest) : rest[i] = s[p + i]
      /\ \A i \in 1 .. Len(part) : part[i] = s[p + i]
  <2>1. /\ rest \in Units /\ Len(rest) = Len(s) - p
        /\ part \in Units /\ Len(part) = e - p
    BY <1>1, SubSeqProperties DEF Units
  <2>2. \A i \in 1 .. Len(rest) : rest[i] = s[p + i]
    BY <1>1, <2>1, SubSeqProperties DEF Units
  <2>3. \A i \in 1 .. Len(part) : part[i] = s[p + i]
    BY <1>1, <2>1, SubSeqProperties DEF Units
  <2> QED
    BY <2>1, <2>2, <2>3
<1> HIDE DEF rest, part
<1> DEFINE a == SubSeq(part, 1, n)
           b == SubSeq(rest, 1, n)
           c == SubSeq(rest, n + 1, Len(rest))
           d == SubSeq(s, p + n + 1, Len(s))
<1>3. a \in Units /\ b \in Units /\ c \in Units /\ d \in Units
  BY <1>1, <1>2, SubSeqProperties DEF Units
<1>4. a = b
  <2>1. Len(a) = n /\ Len(b) = n /\ \A i \in 1 .. n : a[i] = part[i] /\ b[i] = rest[i]
    BY <1>1, <1>2, SubSeqProperties DEF Units
  <2>2. \A i \in 1 .. n : a[i] = b[i]
    BY <1>1, <1>2, <2>1
  <2> QED
    BY <1>3, <2>1, <2>2, SeqEqual DEF Units
<1>5. c = d
  <2>1. Len(c) = Len(s) - p - n /\ Len(d) = Len(s) - p - n
    BY <1>1, <1>2, SubSeqProperties DEF Units
  <2>2. \A i \in 1 .. Len(c) : c[i] = rest[n + i]
    BY <1>1, <1>2, <2>1, SubSeqProperties DEF Units
  <2>3. \A i \in 1 .. Len(c) : d[i] = s[p + n + i]
    BY <1>1, <1>2, <2>1, SubSeqProperties DEF Units
  <2>4. \A i \in 1 .. Len(c) : c[i] = d[i]
    <3> SUFFICES ASSUME NEW i \in 1 .. Len(c) PROVE c[i] = d[i]
      OBVIOUS
    <3>1. n + i \in 1 .. Len(rest) /\ p + (n + i) = p + n + i
      BY <1>1, <1>2, <2>1
    <3> QED
      BY <1>2, <2>2, <2>3, <3>1
  <2> QED
    BY <1>3, <2>1, <2>4, SeqEqual DEF Units
<1> QED
  BY <1>2, <1>4, <1>5 DEF rest, part

LEMMA CatBasics ==
    ASSUME NEW a \in Units, NEW b \in Units
    PROVE  /\ Cat(a, b) \in Units /\ Len(Cat(a, b)) = Len(a) + Len(b) /\ Len(a) \in Nat
           /\ <<>> \in Units /\ Cat(a, <<>>) = a /\ Cat(<<>>, a) = a
  BY SeqBasics DEF Cat

LEMMA Cutting ==
    ASSUME NEW s \in Units, NEW k \in 0 .. Len(s)
    PROVE  /\ Take(s, k) \in Units /\ Drop(s, k) \in Units
           /\ Len(Take(s, k)) = k /\ Len(Drop(s, k)) = Len(s) - k
           /\ Cat(Take(s, k), Drop(s, k)) = s
  BY SeqCut DEF Cat, Take, Drop

LEMMA CutAtEnds ==
    ASSUME NEW s \in Units
    PROVE  /\ Drop(s, 0) = s /\ Drop(s, Len(s)) = <<>> /\ Take(s, 0) = <<>> /\ Take(s, Len(s)) = s
<1>1. Len(s) \in Nat
  BY SeqBasics
<1>2. Take(s, Len(s)) = s /\ Drop(s, 0) = s
  BY <1>1, SubSeqFull DEF Units, Take, Drop
<1>3. Drop(s, Len(s)) = <<>> /\ Take(s, 0) = <<>>
  BY <1>1, SubSeqEmpty DEF Units, Take, Drop
<1> QED
  BY <1>2, <1>3

(* Sending the first k units of the middle.                                *)
LEMMA SendFront ==
    ASSUME NEW a \in Units, NEW m \in Units, NEW k \in 0 .. Len(m)
    PROVE  Cat(Cat(a, Take(m, k)), Drop(m, k)) = Cat(a, m)
  BY Cutting, CatAssoc

(* Reading the first k units of what is to come.                           *)
LEMMA ReadFront ==
    ASSUME NEW a \in Units, NEW m \in Units, NEW s \in Units, NEW t \in Units, NEW k \in 0 .. Len(s)
    PROVE  /\ Cat(Cat(a, Cat(m, Take(s, k))), Cat(Drop(s, k), t)) = Cat(Cat(a, m), Cat(s, t))
           /\ Cat(Cat(m, Take(s, k)), Cat(Drop(s, k), t)) = Cat(m, Cat(s, t))
<1>1. Take(s, k) \in Units /\ Drop(s, k) \in Units /\ Cat(Take(s, k), Drop(s, k)) = s
  BY Cutting
<1> QED
  BY <1>1, CatAssoc, CatUnits

LEMMA FrontOfCat ==
    ASSUME NEW a \in Units, NEW b \in Units, NEW c \in Units
    PROVE  IsPrefixOf(a, Cat(a, b)) /\ IsPrefixOf(a, Cat(Cat(a, b), c))
  BY FrontIsPrefix, FrontOfThree DEF Cat

LEMMA Inserting ==
    ASSUME NEW a \in Units, NEW b \in Units, NEW u \in Alphabet, NEW h \in 1 .. Len(a)
    PROVE  /\ InsertBefore(a, h, u) \in Units /\ Len(InsertBefore(a, h, u)) = Len(a) + 1
           /\ InsertBefore(Cat(a, b), h, u) = Cat(InsertBefore(a, h, u), b)
  BY InsertFront DEF Cat

(* Sending the first n units of the part of s that begins behind p.        *)
LEMMA SendOfPart ==
    ASSUME NEW g \in Units, NEW s \in Units, NEW p \in Nat, NEW e \in Nat, NEW n \in Nat,
           p <= e, e <= Len(s), n <= e - p
    PROVE  /\ Part(s, p, e) \in Units /\ Len(Part(s, p, e)) = e - p
           /\ Drop(s, p + n) \in Units
           /\ Cat(Cat(g, Take(Part(s, p, e), n)), Drop(s, p + n)) = Cat(g, Drop(s, p))
<1> DEFINE rest == Drop(s, p)
           part == Part(s, p, e)
<1>1. /\ rest \in Units /\ Len(rest) = Len(s) - p
      /\ part \in Units /\ Len(part) = e - p
      /\ Take(part, n) = Take(rest, n) /\ Drop(s, p + n) = Drop(rest, n)
  BY RestOfRest, ZenonT(60) DEF Take, Drop, Part
<1> HIDE DEF rest, part
<1>2. n \in 0 .. Len(rest)
  <2>1. Len(s) \in Nat
    BY SeqBasics
  <2> QED
    BY <1>1, <2>1
<1>3. Drop(rest, n) \in Units
  BY <1>1, <1>2, Cutting
<1>4. Cat(Cat(g, Take(rest, n)), Drop(rest, n)) = Cat(g, rest)
  BY <1>1, <1>2, SendFront
<1> QED
  BY <1>1, <1>3, <1>4 DEF rest, part

---------------------------------------------------------------------------
(* Loops.                                                                  *)

(* A nonempty set of naturals has a least element.                         *)
LEMMA LeastOf ==
    ASSUME NEW D, D \subseteq Nat, D # {}
    PROVE  \E n \in D : \A m \in D : n <= m
<1> DEFINE Less == OpToRel(<, Nat)
<1>1. IsWellFoundedOn(Less, Nat)
  BY NatLessThanWellFounded
<1>2. ASSUME NEW m \in Nat, NEW n \in Nat, m < n PROVE <<m, n>> \in Less
  <2>1. <<m, n>> \in Nat \X Nat /\ <<m, n>>[1] < <<m, n>>[2]
    BY <1>2
  <2> QED
    BY <2>1 DEF OpToRel
<1> HIDE DEF Less
<1>3. PICK n \in D : \A m \in D : ~(<<m, n>> \in Less)
  BY <1>1, WFMin
<1>4. \A m \in D : ~(m < n)
  BY <1>2, <1>3, Zenon
<1>5. \A m \in D : n <= m
  BY <1>4
<1> QED
  BY <1>5

(* What holds at the start and is kept by each step holds to the end.      *)
LEMMA StaysIn ==
    ASSUME NEW S, NEW g, NEW N \in Nat, g[0] \in S,
           \A i \in 1 .. N : g[i - 1] \in S => g[i] \in S
    PROVE  \A i \in 0 .. N : g[i] \in S
<1> SUFFICES ASSUME \E i \in 0 .. N : g[i] \notin S PROVE FALSE
  OBVIOUS
<1> DEFINE D == {i \in 0 .. N : g[i] \notin S}
<1>1. D \subseteq Nat /\ D # {}
  OBVIOUS
<1> HIDE DEF D
<1>2. PICK n \in D : \A m \in D : n <= m
  BY <1>1, LeastOf
<1>3. n \in 0 .. N /\ g[n] \notin S
  BY <1>2 DEF D
<1>4. n \in 1 .. N /\ n - 1 \in 0 .. N
  BY <1>3
<1>5. g[n - 1] \in S
  BY <1>2, <1>4 DEF D
<1> QED
  BY <1>3, <1>4, <1>5

(* A step that stays within S can be repeated N times, and what is said of *)
(* a function that repeats it determines that function.                    *)
Steps(N, S) == [1 .. N -> [S -> S]]
Runs(N, S) == [0 .. N -> S]
RunOf(f, x, F, N) == f[0] = x /\ \A i \in 1 .. N : f[i] = F[i][f[i - 1]]

LEMMA Repeats ==
    ASSUME NEW N \in Nat, NEW S, NEW x \in S, NEW F \in Steps(N, S)
    PROVE  \E f \in Runs(N, S) : RunOf(f, x, F, N)
<1> USE DEF Steps, Runs, RunOf
<1> DEFINE D == {n \in 0 .. N : ~\E f \in [0 .. n -> S] :
                                  f[0] = x /\ \A i \in 1 .. n : f[i] = F[i][f[i - 1]]}
<1> SUFFICES ASSUME N \in D PROVE FALSE
  OBVIOUS
<1>1. D \subseteq Nat /\ D # {}
  OBVIOUS
<1> HIDE DEF D
<1>2. PICK n \in D : \A m \in D : n <= m
  BY <1>1, LeastOf
<1>3. n \in 0 .. N /\ ~\E f \in [0 .. n -> S] :
                         f[0] = x /\ \A i \in 1 .. n : f[i] = F[i][f[i - 1]]
  BY <1>2 DEF D
<1>4. CASE n = 0
  <2>1. [i \in 0 .. n |-> x] \in [0 .. n -> S]
    OBVIOUS
  <2>2. [i \in 0 .. n |-> x][0] = x /\ \A i \in 1 .. n : FALSE
    BY <1>4
  <2> QED
    BY <1>3, <2>1, <2>2
<1>5. CASE n # 0
  <2>1. n - 1 \in 0 .. N /\ n - 1 \notin D /\ n \in 1 .. N
    BY <1>2, <1>3, <1>5
  <2>2. PICK f \in [0 .. n - 1 -> S] :
           f[0] = x /\ \A i \in 1 .. n - 1 : f[i] = F[i][f[i - 1]]
    BY <2>1 DEF D
  <2> DEFINE g == [i \in 0 .. n |-> IF i = n THEN F[n][f[n - 1]] ELSE f[i]]
  <2>3. g \in [0 .. n -> S]
    <3>1. F[n] \in [S -> S] /\ f[n - 1] \in S
      BY <2>1, <2>2
    <3> QED
      BY <2>1, <2>2, <3>1
  <2>4. g[0] = x
    BY <1>5, <2>1, <2>2
  <2>5. ASSUME NEW i \in 1 .. n PROVE g[i] = F[i][g[i - 1]]
    BY <2>1, <2>2
  <2> QED
    BY <1>3, <2>3, <2>4, <2>5
<1> QED
  BY <1>4, <1>5

---------------------------------------------------------------------------
(* Sockets.                                                                *)

LEMMA SockFields ==
    ASSUME NEW s \in Sock
    PROVE  /\ s.todo \in Units /\ s.kin \in Units /\ s.pend \in Nat /\ s.got \in Units /\ s.read \in Nat
           /\ Len(s.kin) \in Nat /\ Len(s.got) \in Nat /\ Coming(s) \in Units
<1>1. s.todo \in Units /\ s.kin \in Units /\ s.pend \in Nat /\ s.got \in Units /\ s.read \in Nat
  BY DEF Sock
<1> QED
  BY <1>1, SeqBasics, CatBasics DEF Coming

LEMMA ProxyFields ==
    ASSUME NEW x, NEW p \in Proxy(x)
    PROVE  /\ p.req \in Units /\ p.res \in Units /\ p.c2b \in Units /\ p.b2c \in Units
           /\ p.reqEnd \in Nat /\ p.reqLength \in Nat /\ p.reqSize \in Nat /\ p.sendPos \in Nat
           /\ p.resEnd \in Nat /\ p.resSize \in Nat /\ p.bodySent \in Nat
           /\ p.state \in States /\ p.headerSent \in BOOLEAN /\ p.upgrade \in BOOLEAN /\ p.chunk \in Chunk
           /\ p.reqLines \in {x.req.lines, WithClose(x.req.lines)}
           /\ Len(p.req) \in Nat /\ Len(p.res) \in Nat /\ Len(p.c2b) \in Nat /\ Len(p.b2c) \in Nat
<1>1. /\ p.req \in Units /\ p.res \in Units /\ p.c2b \in Units /\ p.b2c \in Units
      /\ p.reqEnd \in Nat /\ p.reqLength \in Nat /\ p.reqSize \in Nat /\ p.sendPos \in Nat
      /\ p.resEnd \in Nat /\ p.resSize \in Nat /\ p.bodySent \in Nat
      /\ p.state \in States /\ p.headerSent \in BOOLEAN /\ p.upgrade \in BOOLEAN /\ p.chunk \in Chunk
      /\ p.reqLines \in {x.req.lines, WithClose(x.req.lines)}
  BY DEF Proxy
<1> QED
  BY <1>1, SeqBasics

(* A send takes a front part of what it is given.                          *)
LEMMA Sending ==
    ASSUME NEW s \in Sock, SockOK(s), NEW u \in Units
    PROVE  /\ BytesSent(s, u) \in 0 .. Len(u) /\ BytesSent(s, u) \in Nat
           /\ Send(s, u) \in Sock /\ SockOK(Send(s, u))
           /\ Send(s, u).got = Cat(s.got, Take(u, BytesSent(s, u)))
           /\ Send(s, u).kin = s.kin /\ Send(s, u).todo = s.todo /\ Coming(Send(s, u)) = Coming(s)
           /\ Send(s, u).handle = s.handle /\ Send(s, u).close = s.close /\ Send(s, u).pend = s.pend
           /\ Send(s, u).gone = s.gone
<1> DEFINE n == BytesSent(s, u)
           f == Take(u, n)
           g == Cat(s.got, f)
<1>1. /\ s.got \in Units /\ s.read \in Nat /\ Len(s.got) \in Nat /\ Len(u) \in Nat
  BY SockFields, SeqBasics
<1>2. Room(s) \in Nat
  BY <1>1, WindowAssumption DEF Room, SockOK
<1>3. n \in 0 .. Len(u) /\ n \in Nat /\ n <= Room(s)
  BY <1>1, <1>2 DEF BytesSent, Least
<1> HIDE DEF n
<1>4. f \in Units /\ Len(f) = n
  BY <1>3, Cutting
<1> HIDE DEF f
<1>5. g \in Units /\ Len(g) = Len(s.got) + n
  BY <1>1, <1>4, CatBasics
<1>6. Send(s, u) = [s EXCEPT !.got = g]
  BY DEF Send, g, f, n, Cat, Take
<1> HIDE DEF g
<1>7. /\ Send(s, u) \in Sock /\ Send(s, u).got = g /\ Send(s, u).kin = s.kin /\ Send(s, u).todo = s.todo
      /\ Send(s, u).handle = s.handle /\ Send(s, u).close = s.close /\ Send(s, u).pend = s.pend
      /\ Send(s, u).read = s.read /\ Send(s, u).gone = s.gone
  BY <1>5, <1>6 DEF Sock
<1>8. SockOK(Send(s, u))
  BY <1>1, <1>2, <1>3, <1>5, <1>7, WindowAssumption DEF SockOK, Room
<1> QED
  BY <1>3, <1>7, <1>8 DEF Coming, g, f, n

(* A read takes a front part of what has arrived.                          *)
LEMMA Reading ==
    ASSUME NEW s \in Sock, SockOK(s), NEW space \in Nat, NEW n \in Nat
    PROVE  LET t == WebserverRecv(s, space, n)
               k == Taken(s, space)
           IN  /\ k \in 0 .. Len(s.kin) /\ k <= space
               /\ t \in Sock /\ SockOK(t) /\ t.kin = Drop(s.kin, k) /\ t.todo = s.todo
               /\ t.got = s.got /\ t.read = s.read /\ t.handle = s.handle /\ t.close = s.close
               /\ t.gone = s.gone
<1> DEFINE t == WebserverRecv(s, space, n)
           k == Taken(s, space)
           r == Drop(s.kin, k)
           d == IF ~s.tls THEN 0 ELSE IF k <= s.pend THEN s.pend - k ELSE Least(n, Len(s.kin) - k)
           e == s.known /\ s.pend > 0
<1>1. /\ s.kin \in Units /\ s.pend \in Nat /\ Len(s.kin) \in Nat /\ s.pend <= Len(s.kin)
      /\ s.got \in Units /\ s.read \in Nat /\ Len(s.got) \in Nat
  BY SockFields DEF SockOK
<1>2. k \in Nat /\ k <= Len(s.kin) /\ k <= space
  BY <1>1 DEF Taken, Least
<1> HIDE DEF k
<1>3. r \in Units /\ Len(r) = Len(s.kin) - k
  <2>1. k \in 0 .. Len(s.kin)
    BY <1>1, <1>2
  <2> QED
    BY <1>1, <2>1, Cutting
<1>4. d \in Nat /\ d <= Len(r)
  BY <1>1, <1>2, <1>3 DEF Least
<1>5. e \in BOOLEAN
  OBVIOUS
<1>6. t = [s EXCEPT !.kin = r, !.pend = d, !.known = e]
  BY DEF WebserverRecv, k, Drop
<1> HIDE DEF r, d, e, t
<1>7. /\ t \in Sock /\ t.kin = r /\ t.pend = d /\ t.todo = s.todo /\ t.got = s.got /\ t.read = s.read
      /\ t.handle = s.handle /\ t.close = s.close /\ t.gone = s.gone
  BY <1>3, <1>4, <1>5, <1>6 DEF Sock
<1>8. SockOK(t)
  BY <1>1, <1>4, <1>7 DEF SockOK
<1> QED
  BY <1>2, <1>7, <1>8 DEF t, k, r

LEMMA PendingSame ==
    ASSUME NEW s \in Sock
    PROVE  /\ SameSock(s, WebserverSSLPending(s)) /\ WebserverSSLPending(s).handle = s.handle
           /\ WebserverSSLPending(s).close = s.close
<1>1. (s.pend > 0) \in BOOLEAN
  OBVIOUS
<1> DEFINE e == s.pend > 0
<1>2. WebserverSSLPending(s) = [s EXCEPT !.known = e]
  BY DEF WebserverSSLPending
<1> HIDE DEF e
<1>3. e \in BOOLEAN
  BY <1>1 DEF e
<1> QED
  BY <1>2, <1>3 DEF Sock, SameSock

---------------------------------------------------------------------------
(* What holds of w holds of v, when only the registrations differ.         *)

LEMMA StillKeeps ==
    ASSUME NEW w, NEW v, Still(w, v)
    PROVE  /\ Base(w) => Base(v)
           /\ Collects(w) => Collects(v)
           /\ HasHeader(w) => HasHeader(v)
           /\ Sends(w) => Sends(v)
           /\ Awaits(w) => Awaits(v)
           /\ Streams(w) => Streams(v)
           /\ Tunnels(w) => Tunnels(v)
<1>1. v.x = w.x /\ Coming(v.c) = Coming(w.c) /\ Coming(v.b) = Coming(w.b)
  BY DEF Still, SameSock, Coming
<1>2. \A mid : Passing(w, mid) => Passing(v, mid)
  BY <1>1 DEF Still, SameSock, Passing
<1>3. Base(w) => Base(v)
  BY DEF Still, SameSock, SameProxy, Base, Safe, SockOK
<1>4. Unanswered(w) => Unanswered(v)
  BY <1>1 DEF Still, SameSock, SameProxy, Unanswered
<1>5. Collects(w) => Collects(v)
  BY <1>1, <1>4 DEF Still, SameSock, SameProxy, Collects
<1>6. HasHeader(w) => HasHeader(v)
  BY <1>1 DEF Still, SameProxy, HasHeader
<1>7. Sends(w) => Sends(v)
  BY <1>1, <1>2, <1>4 DEF Still, SameProxy, Sends
<1>8. Awaits(w) => Awaits(v)
  BY <1>2, <1>4 DEF Still, SameProxy, Awaits
<1>9. Streams(w) => Streams(v)
  BY <1>1, <1>2 DEF Still, SameSock, SameProxy, Streams, Unsent
<1>10. Tunnels(w) => Tunnels(v)
  BY <1>1, <1>2 DEF Still, SameSock, SameProxy, Tunnels
<1> QED
  BY <1>3, <1>5, <1>6, <1>7, <1>8, <1>9, <1>10

LEMMA StillBytes ==
    ASSUME NEW w, NEW v, Still(w, v), BytesOK(w), v.p.state = w.p.state,
           Held(w) => Held(v)
    PROVE  BytesOK(v)
<1>1. Base(v) /\ (Held(v) \/ v.p.state \in {"IDLE", "RELEASED"})
  BY StillKeeps DEF BytesOK
<1>2. v.p.req = w.p.req /\ v.p.headerSent = w.p.headerSent
  BY DEF Still, SameProxy
<1>3. InState(v)
  BY <1>2, StillKeeps DEF BytesOK, InState
<1> QED
  BY <1>1, <1>3 DEF BytesOK

LEMMA Ended ==
    ASSUME NEW w, NEW v, Base(w), Still(w, v),
           \/ v.p.state \in {"DONE", "ERROR"} /\ v.c.close
           \/ v.p.state = "RELEASED"
    PROVE  BytesOK(v)
<1>1. Base(v)
  BY StillKeeps
<1>2. Held(v) \/ v.p.state \in {"IDLE", "RELEASED"}
  BY DEF Held
<1>3. InState(v)
  BY DEF InState
<1> QED
  BY <1>1, <1>2, <1>3 DEF BytesOK

---------------------------------------------------------------------------
(* The end of an exchange.                                                 *)

LEMMA WorldFields ==
    ASSUME NEW x, NEW w \in Worlds(x)
    PROVE  w.p \in Proxy(x) /\ w.c \in Sock /\ w.b \in Sock /\ w.x = x
  BY DEF Worlds

LEMMA FinishStill ==
    ASSUME NEW w, w \in Worlds(w.x), NEW st \in States
    PROVE  LET v == Finish(w, st)
           IN  Still(w, v) /\ v.p.state = st /\ v.c.close = TRUE
<1> DEFINE v == Finish(w, st)
           T == TRUE
           F == FALSE
           N == "none"
           R == "readonce"
<1>1. w.p \in Proxy(w.x) /\ w.c \in Sock /\ w.b \in Sock
  BY WorldFields
<1>2. /\ v.p = [w.p EXCEPT !.state = st, !.ended = st]
      /\ v.c = [w.c EXCEPT !.shut = T, !.close = T, !.handle = F, !.ev = R]
      /\ v.b = [w.b EXCEPT !.ev = N]
      /\ v.x = w.x
  BY DEF Finish, proxy_shutdown_client, Worlds
<1>3. T \in BOOLEAN /\ F \in BOOLEAN /\ N \in Events /\ R \in Events
  <2>1. N \in Events
    BY DEF Events
  <2>2. R \in Events
    BY DEF Events
  <2> QED
    BY <2>1, <2>2, Zenon
<1>4. v.p \in Proxy(w.x) /\ SameProxy(w.p, v.p) /\ v.p.state = st
  BY <1>1, <1>2, ZenonT(60) DEF Proxy, SameProxy
<1> HIDE DEF T, F, N, R
<1>5. SameSock(w.c, v.c) /\ v.c.close = T
  BY <1>1, <1>2, <1>3, ZenonT(60) DEF Sock, SameSock
<1>6. SameSock(w.b, v.b)
  BY <1>1, <1>2, <1>3 DEF Sock, SameSock
<1>7. v \in Worlds(w.x)
  <2>1. v.c \in Sock /\ v.b \in Sock
    BY <1>5, <1>6 DEF SameSock
  <2> QED
    BY <1>2, <1>4, <2>1 DEF Worlds, Finish, proxy_shutdown_client
<1> QED
  BY <1>2, <1>4, <1>5, <1>6, <1>7 DEF Still, T

LEMMA FinishOK ==
    ASSUME NEW w, Base(w), NEW st \in States, st = "DONE" \/ st = "ERROR"
    PROVE  BytesOK(Finish(w, st))
<1>1. w \in Worlds(w.x)
  BY DEF Base
<1>2. /\ Still(w, Finish(w, st)) /\ Finish(w, st).p.state = st /\ Finish(w, st).c.close = TRUE
  BY <1>1, FinishStill
<1> QED
  BY <1>2, Ended

LEMMA DoneOK ==
    ASSUME NEW w, Base(w)
    PROVE  BytesOK(Done(w))
  BY FinishOK DEF Done, States

LEMMA NoneIsPrefix ==
    ASSUME NEW s \in Units
    PROVE  IsPrefixOf(<<>>, s)
<1>1. Cat(<<>>, s) = s /\ <<>> \in Units
  BY CatBasics
<1> QED
  BY <1>1, FrontOfCat

(* A client that has got nothing yet gets the error page or nothing of it. *)
LEMMA PageOK ==
    ASSUME NEW w, Base(w), w.c.got = <<>> \/ w.c.gone,
           NEW code \in Alphabet, <<code>> \in ErrorPages
    PROVE  LET v == proxy_send_error_response(w, code)
           IN  Base(v) /\ v.x = w.x /\ v.p = w.p
<1> DEFINE v == proxy_send_error_response(w, code)
           u == <<code>>
           n == BytesSent(w.c, u)
<1>1. CASE w.c.gone
  BY <1>1 DEF proxy_send_error_response
<1>2. CASE ~w.c.gone
  <2>1. w \in Worlds(w.x) /\ w.p \in Proxy(w.x) /\ w.c \in Sock /\ w.b \in Sock /\ SockOK(w.c)
    BY WorldFields DEF Base
  <2>2. u \in Units /\ Len(u) = 1
    BY OneUnit, Zenon DEF Units
  <2> HIDE DEF u
  <2>3. v = [w EXCEPT !.c = Send(w.c, u)]
    BY <1>2 DEF proxy_send_error_response, u
  <2>4. /\ n \in 0 .. 1 /\ Send(w.c, u) \in Sock /\ SockOK(Send(w.c, u))
        /\ Send(w.c, u).got = Cat(w.c.got, Take(u, n))
    BY <2>1, <2>2, Sending
  <2>5. v.p = w.p /\ v.c = Send(w.c, u) /\ v.b = w.b /\ v.x = w.x /\ v \in Worlds(w.x)
    BY <2>1, <2>3, <2>4 DEF Worlds
  <2> HIDE DEF n, v
  <2>6. v.c.got = Take(u, n)
    <3>1. Take(u, n) \in Units
      BY <2>2, <2>4, Cutting
    <3> QED
      BY <1>2, <2>4, <2>5, <3>1, CatBasics
  <2>7. v.c.got = <<>> \/ v.c.got = <<code>>
    <3>1. CASE n = 0
      BY <2>2, <2>6, <3>1, CutAtEnds
    <3>2. CASE n = 1
      BY <2>2, <2>6, <3>2, CutAtEnds DEF u
    <3> QED
      BY <2>4, <3>1, <3>2
  <2>8. IsPrefixOf(v.c.got, Whole(v.x)) \/ v.c.got \in ErrorPages
    <3>1. CASE v.c.got = <<>>
      BY <1>2, <2>5, <3>1 DEF Base, Safe, ErrorPages
    <3>2. CASE v.c.got = <<code>>
      BY <3>2
    <3> QED
      BY <2>7, <3>1, <3>2
  <2>9. Safe(v)
    BY <2>5, <2>8 DEF Base, Safe
  <2> QED
    BY <2>4, <2>5, <2>9 DEF Base, v
<1> QED
  BY <1>1, <1>2

LEMMA FailOK ==
    ASSUME NEW w, Base(w), w.p.headerSent \/ w.c.got = <<>> \/ w.c.gone
    PROVE  BytesOK(Fail(w))
<1> DEFINE v == IF w.p.headerSent THEN w ELSE proxy_send_error_response(w, "502")
<1>1. Base(v)
  <2>1. "502" \in Alphabet /\ <<"502">> \in ErrorPages
    BY DEF ErrorPages, Alphabet
  <2> QED
    BY <2>1, PageOK
<1> HIDE DEF v
<1>2. BytesOK(Finish(v, "ERROR"))
  BY <1>1, FinishOK DEF States
<1> QED
  BY <1>2 DEF Fail, v

LEMMA RejectOK ==
    ASSUME NEW w, Base(w), w.c.got = <<>>, NEW code \in Alphabet, <<code>> \in ErrorPages
    PROVE  BytesOK(Reject(w, code))
<1> DEFINE u == proxy_send_error_response(w, code)
           T == TRUE
           v == [u EXCEPT !.p.headerSent = T]
<1>1. Base(u) /\ u.x = w.x
  BY PageOK
<1>2. u \in Worlds(u.x) /\ u.p \in Proxy(u.x)
  BY <1>1, WorldFields DEF Base
<1>3. Reject(w, code) = Fail(v)
  BY DEF Reject
<1> HIDE DEF u
<1>4. T \in BOOLEAN /\ v.p = [u.p EXCEPT !.headerSent = T] /\ v.c = u.c /\ v.b = u.b /\ v.x = u.x
  BY <1>2 DEF Worlds
<1> HIDE DEF v, T
<1>5. /\ v.p \in Proxy(u.x) /\ v.p.headerSent = T /\ v.p.reqSize = u.p.reqSize
      /\ v.p.resSize = u.p.resSize /\ v.p.upgrade = u.p.upgrade /\ v.p.reqLines = u.p.reqLines
  BY <1>2, <1>4 DEF Proxy
<1>6. v \in Worlds(v.x)
  BY <1>2, <1>4, <1>5 DEF Worlds, v
<1>7. Base(v)
  BY <1>1, <1>4, <1>5, <1>6 DEF Base, Safe
<1>8. BytesOK(Fail(v))
  BY <1>5, <1>7, FailOK DEF T
<1> QED
  BY <1>3, <1>8

---------------------------------------------------------------------------
(* Registrations and the proxy's state.                                    *)

LEMMA EvSame ==
    ASSUME NEW s \in Sock, NEW e \in Events
    PROVE  LET t == [s EXCEPT !.ev = e]
           IN  SameSock(s, t) /\ t.handle = s.handle /\ t.close = s.close /\ t.gone = s.gone
  BY DEF Sock, SameSock

LEMMA StateSame ==
    ASSUME NEW x, NEW p \in Proxy(x), NEW st \in States
    PROVE  LET q == [p EXCEPT !.state = st]
           IN  q \in Proxy(x) /\ SameProxy(p, q) /\ q.state = st
  BY DEF Proxy, SameProxy

LEMMA NoneChanged ==
    ASSUME NEW x, NEW w \in Worlds(x)
    PROVE  SameProxy(w.p, w.p) /\ SameSock(w.c, w.c) /\ SameSock(w.b, w.b)
  BY WorldFields DEF SameProxy, SameSock

LEMMA TunnelEvents ==
    ASSUME NEW w, w \in Worlds(w.x)
    PROVE  LET v == proxy_tunnel_update_events(w)
           IN  Still(w, v) /\ v.p = w.p /\ (Held(w) => Held(v))
<1> DEFINE v == proxy_tunnel_update_events(w)
           Ev(read, write) == IF read THEN (IF write THEN "readwrite" ELSE "read")
                              ELSE (IF write THEN "write" ELSE "none")
           toB == w.p.c2b # <<>>
           toC == w.p.b2c # <<>>
           e == Ev(~toB, toC)
           f == Ev(~toC, toB)
<1>1. w.p \in Proxy(w.x) /\ w.c \in Sock /\ w.b \in Sock
  BY WorldFields
<1>2. e \in Events /\ f \in Events
  BY DEF Events
<1>3. v = [w EXCEPT !.c.ev = e, !.b.ev = f]
  BY DEF proxy_tunnel_update_events
<1> HIDE DEF e, f, v
<1>4. v.p = w.p /\ v.c = [w.c EXCEPT !.ev = e] /\ v.b = [w.b EXCEPT !.ev = f] /\ v.x = w.x
  BY <1>3 DEF Worlds
<1>5. SameSock(w.c, v.c) /\ v.c.handle = w.c.handle /\ v.c.close = w.c.close
  BY <1>1, <1>2, <1>4, EvSame
<1>6. SameSock(w.b, v.b)
  BY <1>1, <1>2, <1>4, EvSame
<1>7. v \in Worlds(w.x)
  <2>1. v.c \in Sock /\ v.b \in Sock
    BY <1>5, <1>6 DEF SameSock
  <2> QED
    BY <1>1, <1>3, <1>4, <2>1 DEF Worlds
<1> QED
  BY <1>4, <1>5, <1>6, <1>7, NoneChanged DEF Still, Held, v

LEMMA WaitWriteStill ==
    ASSUME NEW w, w \in Worlds(w.x)
    PROVE  LET v == WaitWrite(w)
           IN  Still(w, v) /\ v.p.state = "WAIT_WRITE" /\ (Held(w) => Held(v))
<1> DEFINE v == WaitWrite(w)
           e == "write"
           f == "none"
           st == "WAIT_WRITE"
<1>1. w.p \in Proxy(w.x) /\ w.c \in Sock /\ w.b \in Sock
  BY WorldFields
<1>2. e \in Events /\ f \in Events /\ st \in States
  BY DEF Events, States
<1>3. v = [w EXCEPT !.p.state = st, !.b.ev = f, !.c.ev = e]
  BY DEF WaitWrite
<1> HIDE DEF e, f, st, v
<1>4. /\ v.p = [w.p EXCEPT !.state = st] /\ v.c = [w.c EXCEPT !.ev = e]
      /\ v.b = [w.b EXCEPT !.ev = f] /\ v.x = w.x
  BY <1>3 DEF Worlds
<1>5. SameSock(w.c, v.c) /\ v.c.handle = w.c.handle /\ v.c.close = w.c.close
  BY <1>1, <1>2, <1>4, EvSame
<1>6. SameSock(w.b, v.b)
  BY <1>1, <1>2, <1>4, EvSame
<1>7. v.p \in Proxy(w.x) /\ SameProxy(w.p, v.p) /\ v.p.state = st
  BY <1>1, <1>2, <1>4, StateSame
<1>8. v \in Worlds(w.x)
  <2>1. v.c \in Sock /\ v.b \in Sock
    BY <1>5, <1>6 DEF SameSock
  <2> QED
    BY <1>3, <1>4, <1>7, <2>1 DEF Worlds
<1> QED
  BY <1>4, <1>5, <1>6, <1>7, <1>8 DEF Still, Held, v, st

---------------------------------------------------------------------------
(* The tunnel.                                                             *)

LEMMA MessageUnits ==
    ASSUME NEW x \in Exchanges
    PROVE  /\ x.req.units \in Units /\ x.res.units \in Units
           /\ x.req.hdr \in 1 .. Len(x.req.units) /\ x.res.hdr \in 1 .. Len(x.res.units)
           /\ \A i \in 1 .. x.req.hdr : x.req.units[i] = "H" <=> i = x.req.hdr
           /\ \A i \in 1 .. x.res.hdr : x.res.units[i] = "H" <=> i = x.res.hdr
<1>1. ASSUME NEW m, Message(m)
      PROVE  /\ m.units \in Units /\ m.hdr \in 1 .. Len(m.units)
             /\ \A i \in 1 .. m.hdr : m.units[i] = "H" <=> i = m.hdr
  <2>1. m.units \in Seq(STRING) /\ STRING \subseteq Alphabet
    BY <1>1 DEF Message, Alphabet
  <2>2. m.units \in Units
    BY <2>1, SeqMonotonic DEF Units
  <2>3. DOMAIN m.units = 1 .. Len(m.units)
    BY <2>2, LenProperties DEF Units
  <2> QED
    BY <1>1, <2>2, <2>3 DEF Message
<1>2. Message(x.req) /\ Message(x.res)
  BY ExchangesAre
<1> QED
  BY <1>1, <1>2

LEMMA FlushC2B ==
    ASSUME NEW w, Base(w), Tunnels(w), Held(w)
    PROVE  LET v == proxy_tunnel_flush_c2b(w)
           IN  Base(v) /\ Tunnels(v) /\ Held(v) /\ v.x = w.x /\ v.p.state = w.p.state
<1> DEFINE v == proxy_tunnel_flush_c2b(w)
           n == BytesSent(w.b, w.p.c2b)
           r == Drop(w.p.c2b, n)
           s == Send(w.b, w.p.c2b)
<1>1. /\ w \in Worlds(w.x) /\ w.p \in Proxy(w.x) /\ w.c \in Sock /\ w.b \in Sock
      /\ SockOK(w.b) /\ w.p.c2b \in Units
  BY WorldFields, ProxyFields DEF Base
<1>2. /\ n \in 0 .. Len(w.p.c2b) /\ s \in Sock /\ SockOK(s)
      /\ s.got = Cat(w.b.got, Take(w.p.c2b, n)) /\ Coming(s) = Coming(w.b) /\ s.pend = w.b.pend
  BY <1>1, Sending
<1>3. r \in Units /\ Take(w.p.c2b, n) \in Units
  BY <1>1, <1>2, Cutting
<1>4. v = [w EXCEPT !.b = s, !.p.c2b = r]
  BY DEF proxy_tunnel_flush_c2b, Drop
<1> HIDE DEF r, s, v
<1>5. v.p = [w.p EXCEPT !.c2b = r] /\ v.c = w.c /\ v.b = s /\ v.x = w.x
  BY <1>4 DEF Worlds
<1>6. /\ v.p \in Proxy(w.x) /\ v.p.c2b = r /\ v.p.b2c = w.p.b2c /\ v.p.headerSent = w.p.headerSent
      /\ v.p.reqSize = w.p.reqSize /\ v.p.resSize = w.p.resSize /\ v.p.upgrade = w.p.upgrade
      /\ v.p.reqLines = w.p.reqLines /\ v.p.state = w.p.state
  BY <1>1, <1>3, <1>5, ZenonT(60) DEF Proxy
<1>7. v \in Worlds(v.x)
  BY <1>1, <1>2, <1>4, <1>5, <1>6 DEF Worlds
<1>8. Passing(v, r)
  <2>1. w.b.got \in Units
    BY <1>1, SockFields
  <2>2. Cat(s.got, r) = Cat(w.b.got, w.p.c2b)
    BY <1>1, <1>2, <2>1, SendFront DEF r
  <2> QED
    BY <1>5, <2>2 DEF Passing, Tunnels
<1>9. Tunnels(v)
  BY <1>2, <1>5, <1>6, <1>8 DEF Tunnels
<1>10. IsPrefixOf(v.b.got, Forwarded(v.x))
  <2>1. v.b.got \in Units /\ Coming(v.c) \in Units
    BY <1>1, <1>2, <1>5, SockFields
  <2>2. Cat(Cat(v.b.got, r), Coming(v.c)) = Forwarded(v.x)
    BY <1>8, <1>9 DEF Passing, Tunnels
  <2> QED
    BY <1>3, <2>1, <2>2, FrontOfCat
<1>11. Base(v)
  BY <1>2, <1>5, <1>6, <1>7, <1>9, <1>10 DEF Base, Safe, Tunnels
<1> QED
  BY <1>5, <1>6, <1>9, <1>11 DEF v, Held

LEMMA FlushB2C ==
    ASSUME NEW w, Base(w), Tunnels(w), Held(w)
    PROVE  LET v == proxy_tunnel_flush_b2c(w)
           IN  /\ Base(v) /\ Tunnels(v) /\ Held(v) /\ v.x = w.x /\ v.p.state = w.p.state
               /\ v.p.c2b = w.p.c2b
<1> DEFINE v == proxy_tunnel_flush_b2c(w)
           n == BytesSent(w.c, w.p.b2c)
           r == Drop(w.p.b2c, n)
           s == Send(w.c, w.p.b2c)
<1>1. /\ w \in Worlds(w.x) /\ w.p \in Proxy(w.x) /\ w.c \in Sock /\ w.b \in Sock
      /\ SockOK(w.c) /\ w.p.b2c \in Units
  BY WorldFields, ProxyFields DEF Base
<1>2. /\ n \in 0 .. Len(w.p.b2c) /\ s \in Sock /\ SockOK(s)
      /\ s.got = Cat(w.c.got, Take(w.p.b2c, n)) /\ Coming(s) = Coming(w.c)
      /\ s.handle = w.c.handle /\ s.close = w.c.close
  BY <1>1, Sending
<1>3. r \in Units /\ Take(w.p.b2c, n) \in Units
  BY <1>1, <1>2, Cutting
<1>4. v = [w EXCEPT !.c = s, !.p.b2c = r]
  BY DEF proxy_tunnel_flush_b2c, Drop
<1> HIDE DEF r, s, v
<1>5. v.p = [w.p EXCEPT !.b2c = r] /\ v.c = s /\ v.b = w.b /\ v.x = w.x
  BY <1>4 DEF Worlds
<1>6. /\ v.p \in Proxy(w.x) /\ v.p.b2c = r /\ v.p.c2b = w.p.c2b /\ v.p.headerSent = w.p.headerSent
      /\ v.p.reqSize = w.p.reqSize /\ v.p.resSize = w.p.resSize /\ v.p.upgrade = w.p.upgrade
      /\ v.p.reqLines = w.p.reqLines /\ v.p.state = w.p.state
  BY <1>1, <1>3, <1>5 DEF Proxy
<1>7. v \in Worlds(v.x)
  BY <1>1, <1>2, <1>4, <1>5, <1>6 DEF Worlds
<1>8. Cat(Cat(v.c.got, r), Coming(v.b)) = Whole(v.x)
  <2>1. w.c.got \in Units
    BY <1>1, SockFields
  <2>2. Cat(s.got, r) = Cat(w.c.got, w.p.b2c)
    BY <1>1, <1>2, <2>1, SendFront DEF r
  <2> QED
    BY <1>5, <2>2 DEF Tunnels
<1>9. Tunnels(v)
  BY <1>2, <1>5, <1>6, <1>8 DEF Tunnels, Passing
<1>10. IsPrefixOf(v.c.got, Whole(v.x))
  <2>1. v.c.got \in Units /\ Coming(v.b) \in Units
    BY <1>1, <1>2, <1>5, SockFields
  <2> QED
    BY <1>3, <1>8, <2>1, FrontOfCat
<1>11. Base(v)
  BY <1>2, <1>5, <1>6, <1>7, <1>9, <1>10 DEF Base, Safe, Tunnels
<1> QED
  BY <1>2, <1>5, <1>6, <1>9, <1>11 DEF v, Held

(* A tunnel whose events are registered anew.                              *)
LEMMA TunnelOK ==
    ASSUME NEW w, Base(w), Tunnels(w), Held(w), w.p.state = "TUNNEL"
    PROVE  BytesOK(w) /\ BytesOK(proxy_tunnel_update_events(w))
<1>1. BytesOK(w)
  BY DEF BytesOK, InState
<1>2. w \in Worlds(w.x)
  BY DEF Base
<1>3. LET v == proxy_tunnel_update_events(w)
      IN  Still(w, v) /\ v.p = w.p /\ (Held(w) => Held(v))
  BY <1>2, TunnelEvents
<1> QED
  BY <1>1, <1>3, StillBytes

LEMMA EnterTunnelOK ==
    ASSUME NEW w, Base(w), Streams(w), Held(w), Begun(w), IsUpgrade(w.x)
    PROVE  BytesOK(EnterTunnel(w))
<1> DEFINE st == "TUNNEL"
           e == <<>>
           u == Drop(w.p.res, w.p.sendPos)
           v == [w EXCEPT !.p.state = st, !.p.c2b = e, !.p.b2c = u]
<1>1. w \in Worlds(w.x) /\ w.p \in Proxy(w.x) /\ w.c \in Sock /\ w.b \in Sock
  BY WorldFields DEF Base
<1>2. st \in States /\ e \in Units /\ u \in Units
  <2>1. w.p.res \in Units /\ w.p.sendPos \in 0 .. Len(w.p.res)
    BY <1>1, ProxyFields DEF Streams
  <2>2. u \in Units
    BY <2>1, Cutting
  <2>3. e \in Units
    BY EmptySeq DEF Units
  <2>4. st \in States
    BY DEF States
  <2> HIDE DEF st, e, u
  <2> QED
    BY <2>2, <2>3, <2>4
<1>3. Unsent(w.p) = u
  BY DEF Unsent
<1>4. EnterTunnel(w) = IF v.p.b2c # <<>> /\ w.c.gone THEN Fail(v)
                       ELSE proxy_tunnel_update_events(proxy_tunnel_flush_b2c(v))
  BY DEF EnterTunnel, Drop
<1> HIDE DEF st, e, u
<1>5. v.p = [w.p EXCEPT !.state = st, !.c2b = e, !.b2c = u] /\ v.c = w.c /\ v.b = w.b /\ v.x = w.x
  BY <1>1 DEF Worlds
<1> HIDE DEF v
<1>6. /\ v.p \in Proxy(w.x) /\ v.p.state = st /\ v.p.b2c = u /\ v.p.c2b = e /\ v.p.headerSent = w.p.headerSent
      /\ v.p.reqSize = w.p.reqSize /\ v.p.resSize = w.p.resSize /\ v.p.upgrade = w.p.upgrade
      /\ v.p.reqLines = w.p.reqLines
  <2> DEFINE q == [w.p EXCEPT !.state = st, !.c2b = e]
  <2>1. /\ q \in Proxy(w.x) /\ q.state = st /\ q.c2b = e /\ q.headerSent = w.p.headerSent
        /\ q.reqSize = w.p.reqSize /\ q.resSize = w.p.resSize /\ q.upgrade = w.p.upgrade
        /\ q.reqLines = w.p.reqLines
    BY <1>1, <1>2 DEF Proxy
  <2>2. v.p = [q EXCEPT !.b2c = u]
    BY <1>5
  <2> HIDE DEF q
  <2>3. /\ v.p \in Proxy(w.x) /\ v.p.state = q.state /\ v.p.b2c = u /\ v.p.c2b = q.c2b
        /\ v.p.headerSent = q.headerSent /\ v.p.reqSize = q.reqSize /\ v.p.resSize = q.resSize
        /\ v.p.upgrade = q.upgrade /\ v.p.reqLines = q.reqLines
    <3>1. q \in Proxy(w.x)
      BY <2>1
    <3> QED
      BY <1>2, <2>2, <3>1 DEF Proxy
  <2> QED
    BY <2>1, <2>3
<1>7. v \in Worlds(v.x)
  BY <1>1, <1>5, <1>6 DEF Worlds, v
<1>8. Base(v)
  BY <1>5, <1>6, <1>7 DEF Base, Safe
<1>9. Tunnels(v)
  BY <1>3, <1>5, <1>6 DEF Streams, Tunnels, Passing, e, Begun
<1>10. v.p.state = "TUNNEL" /\ Held(v) /\ v.p.headerSent
  BY <1>5, <1>6 DEF st, Held, Begun
<1>11. BytesOK(Fail(v))
  BY <1>8, <1>10, FailOK
<1>12. BytesOK(proxy_tunnel_update_events(proxy_tunnel_flush_b2c(v)))
  <2> DEFINE f == proxy_tunnel_flush_b2c(v)
  <2>1. Base(f) /\ Tunnels(f) /\ Held(f) /\ f.p.state = "TUNNEL"
    BY <1>8, <1>9, <1>10, FlushB2C
  <2> HIDE DEF f
  <2>2. BytesOK(proxy_tunnel_update_events(f))
    BY <2>1, TunnelOK
  <2> QED
    BY <2>2 DEF f
<1> QED
  BY <1>4, <1>11, <1>12

---------------------------------------------------------------------------
(* The response on its way to the client.                                  *)

SameRest(p, q) ==
  /\ q.res = p.res /\ q.resEnd = p.resEnd /\ q.headerSent = p.headerSent /\ q.reqSize = p.reqSize
  /\ q.resSize = p.resSize /\ q.upgrade = p.upgrade /\ q.reqLines = p.reqLines /\ q.state = p.state

(* A part of the response has been sent, up to e at most.                  *)
Advanced(w, v, e) ==
  /\ v \in Worlds(w.x) /\ v.x = w.x /\ v.b = w.b /\ SameRest(w.p, v.p)
  /\ w.p.sendPos <= e /\ e <= Len(w.p.res) /\ (Begun(w) \/ e = w.p.resEnd)
  /\ v.c = Send(w.c, Part(w.p.res, w.p.sendPos, e))
  /\ v.p.sendPos = w.p.sendPos + BytesSent(w.c, Part(w.p.res, w.p.sendPos, e))

LEMMA Advance ==
    ASSUME NEW w, Base(w), Streams(w), Held(w), NEW e \in Nat, NEW v, Advanced(w, v, e)
    PROVE  /\ Base(v) /\ Streams(v) /\ Held(v)
           /\ Len(Part(w.p.res, w.p.sendPos, e)) = e - w.p.sendPos
           /\ BytesSent(w.c, Part(w.p.res, w.p.sendPos, e)) \in 0 .. e - w.p.sendPos
<1> DEFINE res == w.p.res
           pos == w.p.sendPos
           g == w.c.got
           part == Part(res, pos, e)
           n == BytesSent(w.c, part)
<1>1. /\ w.p \in Proxy(w.x) /\ w.c \in Sock /\ w.b \in Sock /\ SockOK(w.c)
      /\ res \in Units /\ pos \in Nat /\ w.p.resEnd \in Nat /\ Len(res) \in Nat
      /\ g \in Units /\ Coming(w.b) \in Units
  BY WorldFields, ProxyFields, SockFields DEF Base
<1>2. pos <= e /\ e <= Len(res) /\ v.c = Send(w.c, part) /\ v.p.sendPos = pos + n /\ v.p.res = res
  BY DEF Advanced, SameRest
<1>3. Unsent(w.p) = Drop(res, pos) /\ Unsent(v.p) = Drop(res, pos + n)
  BY <1>2 DEF Unsent
<1>4. /\ (Begun(w) \/ e = w.p.resEnd) /\ SameRest(w.p, v.p)
      /\ v \in Worlds(w.x) /\ v.x = w.x /\ v.b = w.b
  BY DEF Advanced
<1> HIDE DEF res, pos, g, n
<1>5. part \in Units /\ Len(part) = e - pos
  <2>1. 0 \in Nat /\ 0 <= e - pos
    BY <1>1, <1>2
  <2> QED
    BY <1>1, <1>2, <2>1, SendOfPart
<1> HIDE DEF part
<1>6. /\ n \in 0 .. Len(part) /\ SockOK(v.c)
      /\ v.c.got = Cat(g, Take(part, n)) /\ Coming(v.c) = Coming(w.c)
      /\ v.c.handle = w.c.handle /\ v.c.close = w.c.close
  <2>1. w.c.got = g /\ n = BytesSent(w.c, part)
    BY DEF g, n
  <2> QED
    <3> DEFINE S == Send(w.c, part)
    <3>1. /\ n \in 0 .. Len(part) /\ SockOK(S) /\ S.got = Cat(g, Take(part, n)) /\ Coming(S) = Coming(w.c)
          /\ S.handle = w.c.handle /\ S.close = w.c.close
      BY <1>1, <1>5, <2>1, Sending
    <3>2. v.c = S
      BY <1>2
    <3> HIDE DEF S
    <3> QED
      BY <3>1, <3>2
<1>7. n \in Nat /\ n <= e - pos
  BY <1>1, <1>2, <1>5, <1>6
<1>8. Unsent(v.p) \in Units /\ Cat(v.c.got, Unsent(v.p)) = Cat(g, Unsent(w.p))
  <2>1. /\ Drop(res, pos + n) \in Units
        /\ Cat(Cat(g, Take(part, n)), Drop(res, pos + n)) = Cat(g, Drop(res, pos))
    BY <1>1, <1>2, <1>7, SendOfPart DEF part
  <2> QED
    BY <1>3, <1>6, <2>1
<1>9. Cat(Cat(v.c.got, Unsent(v.p)), Coming(v.b)) = Whole(v.x)
  BY <1>4, <1>8 DEF Streams, g
<1>10. v.p.sendPos <= e /\ v.p.sendPos <= Len(v.p.res)
  BY <1>1, <1>2, <1>7
<1>11. ~v.p.headerSent => v.p.sendPos <= v.p.resEnd /\ v.p.resEnd <= Len(v.p.res)
  <2>1. ~v.p.headerSent => e = w.p.resEnd
    BY <1>4 DEF SameRest, Begun
  <2>2. v.p.resEnd = w.p.resEnd
    BY <1>4 DEF SameRest
  <2> QED
    BY <1>2, <1>10, <2>1, <2>2
<1>12. Held(v)
  BY <1>6 DEF Held
<1>13. Streams(v)
  BY <1>4, <1>6, <1>9, <1>10, <1>11 DEF Streams, Passing
<1>14. IsPrefixOf(v.c.got, Whole(v.x))
  <2>1. v.c.got \in Units
    BY <1>4, WorldFields, SockFields
  <2> QED
    BY <1>1, <1>4, <1>8, <1>9, <2>1, FrontOfCat
<1>15. Base(v)
  BY <1>4, <1>6, <1>14 DEF Base, Safe, SameRest
<1> QED
  BY <1>5, <1>6, <1>12, <1>13, <1>15 DEF part, n, res, pos

LEMMA WaitWriteOK ==
    ASSUME NEW w, Base(w), Streams(w), Held(w)
    PROVE  BytesOK(WaitWrite(w))
<1> DEFINE v == WaitWrite(w)
<1>1. Still(w, v) /\ v.p.state = "WAIT_WRITE" /\ Held(v)
  BY WaitWriteStill DEF Base
<1>2. Base(v) /\ Streams(v)
  BY <1>1, StillKeeps
<1> QED
  BY <1>1, <1>2 DEF BytesOK, InState

LEMMA StreamBodyOK ==
    ASSUME NEW w, Base(w), Streams(w), Held(w), Begun(w), In(w, "STREAMING")
    PROVE  BytesOK(StreamBody(w))
<1> DEFINE rest == Drop(w.p.res, w.p.sendPos)
           n == BytesSent(w.c, rest)
           s == Send(w.c, rest)
           i == w.p.sendPos + n
           j == w.p.bodySent + n
           v == [w EXCEPT !.c = s, !.p.sendPos = i, !.p.bodySent = j]
           E == <<>>
           z == 0
           u == [v EXCEPT !.p.res = E, !.p.sendPos = z]
<1>1. /\ w \in Worlds(w.x) /\ w.p \in Proxy(w.x) /\ w.c \in Sock /\ w.b \in Sock /\ SockOK(w.c)
      /\ w.p.res \in Units /\ w.p.sendPos \in Nat /\ w.p.bodySent \in Nat /\ Len(w.p.res) \in Nat
      /\ w.p.sendPos <= Len(w.p.res)
  BY WorldFields, ProxyFields DEF Base, Streams
<1>2. StreamBody(w) = IF rest # <<>> /\ w.c.gone THEN Fail(w)
                      ELSE IF n < Len(rest) THEN WaitWrite(v) ELSE EndIfComplete(u)
  BY DEF StreamBody, Drop
<1>3. rest \in Units
  BY <1>1, Cutting
<1>4. n \in Nat /\ s \in Sock
  BY <1>1, <1>3, Sending
<1> HIDE DEF rest, n, s
<1>5. i \in Nat /\ j \in Nat
  BY <1>1, <1>4
<1> HIDE DEF i, j
<1>6. v.p = [w.p EXCEPT !.sendPos = i, !.bodySent = j] /\ v.c = s /\ v.b = w.b /\ v.x = w.x
  BY <1>1 DEF Worlds
<1> HIDE DEF v
<1>7. v.p \in Proxy(w.x) /\ SameRest(w.p, v.p) /\ v.p.sendPos = i
  BY <1>1, <1>5, <1>6, ZenonT(60) DEF Proxy, SameRest
<1>8. v \in Worlds(w.x)
  BY <1>1, <1>4, <1>6, <1>7 DEF Worlds, v
<1>9. Base(v) /\ Streams(v) /\ Held(v) /\ Len(rest) = Len(w.p.res) - w.p.sendPos
  <2> DEFINE e == Len(w.p.res)
  <2>1. Part(w.p.res, w.p.sendPos, e) = rest
    BY DEF rest, Part, Drop
  <2>2. e \in Nat /\ Advanced(w, v, e)
    BY <1>1, <1>6, <1>7, <1>8, <2>1 DEF Advanced, n, s, i
  <2>3. /\ Base(v) /\ Streams(v) /\ Held(v)
        /\ Len(Part(w.p.res, w.p.sendPos, e)) = e - w.p.sendPos
    BY <2>2, Advance
  <2> QED
    BY <2>1, <2>3
<1>10. BytesOK(WaitWrite(v))
  BY <1>9, WaitWriteOK
<1>11. BytesOK(Fail(w))
  BY FailOK DEF Begun
<1>12. ASSUME ~(n < Len(rest))
       PROVE  BytesOK(EndIfComplete(u))
  <2>1. n = Len(rest)
    BY <1>1, <1>3, <1>4, <1>12, Sending DEF n
  <2>2. v.p.sendPos = Len(w.p.res) /\ v.p.res = w.p.res
    BY <1>1, <1>7, <1>9, <2>1 DEF i, SameRest
  <2>3. Unsent(v.p) = E
    BY <1>1, <2>2, CutAtEnds DEF Unsent
  <2>4. E \in Units /\ z \in Nat /\ Len(E) = 0
    BY EmptySeq DEF Units
  <2>5. u.p = [v.p EXCEPT !.res = E, !.sendPos = z] /\ u.c = v.c /\ u.b = v.b /\ u.x = v.x
    BY <1>8 DEF Worlds
  <2> HIDE DEF E, z, u
  <2>6. /\ u.p \in Proxy(w.x) /\ u.p.res = E /\ u.p.sendPos = z /\ u.p.headerSent = v.p.headerSent
        /\ u.p.reqSize = v.p.reqSize /\ u.p.resSize = v.p.resSize /\ u.p.upgrade = v.p.upgrade
        /\ u.p.reqLines = v.p.reqLines /\ u.p.state = v.p.state
    BY <1>7, <2>4, <2>5, ZenonT(60) DEF Proxy
  <2>7. u \in Worlds(u.x)
    BY <1>6, <1>8, <2>5, <2>6 DEF Worlds, u
  <2>8. Base(u)
    BY <1>9, <2>5, <2>6, <2>7 DEF Base, Safe
  <2>9. Begun(u) /\ Held(u) /\ u.p.state = "STREAMING"
    BY <1>7, <1>9, <2>5, <2>6 DEF Begun, Held, SameRest, In
  <2>10. Unsent(u.p) = E
    BY <2>4, <2>6, CutAtEnds DEF Unsent, z
  <2>11. Streams(u)
    BY <1>9, <2>3, <2>4, <2>5, <2>6, <2>9, <2>10 DEF Streams, Begun, Passing, z
  <2>12. BytesOK(u)
    BY <2>8, <2>9, <2>11 DEF BytesOK, InState, Begun
  <2>13. BytesOK(Done(u))
    BY <2>8, DoneOK
  <2> QED
    BY <2>12, <2>13 DEF EndIfComplete
<1> QED
  BY <1>2, <1>10, <1>11, <1>12

LEMMA StateStill ==
    ASSUME NEW w, w \in Worlds(w.x), NEW st \in States
    PROVE  LET v == [w EXCEPT !.p.state = st]
           IN  Still(w, v) /\ v.p.state = st /\ (Held(w) => Held(v))
<1> DEFINE v == [w EXCEPT !.p.state = st]
<1>1. w.p \in Proxy(w.x) /\ w.c \in Sock /\ w.b \in Sock
  BY WorldFields
<1>2. v.p = [w.p EXCEPT !.state = st] /\ v.c = w.c /\ v.b = w.b /\ v.x = w.x
  BY DEF Worlds
<1> HIDE DEF v
<1>3. v.p \in Proxy(w.x) /\ SameProxy(w.p, v.p) /\ v.p.state = st
  BY <1>1, <1>2, StateSame
<1>4. v \in Worlds(w.x)
  BY <1>1, <1>2, <1>3 DEF Worlds, v
<1> QED
  BY <1>2, <1>3, <1>4, NoneChanged DEF Still, Held, v

(* The header is out: the body follows, or the tunnel.                     *)
LEMMA HeaderOutOK ==
    ASSUME NEW w, Base(w), Streams(w), Held(w), In(w, "STREAMING")
    PROVE  LET u == [w EXCEPT !.p.headerSent = TRUE]
           IN  BytesOK(IF w.p.upgrade THEN EnterTunnel(u) ELSE StreamBody(u))
<1> DEFINE T == TRUE
           u == [w EXCEPT !.p.headerSent = T]
<1>1. w \in Worlds(w.x) /\ w.p \in Proxy(w.x) /\ w.c \in Sock /\ w.b \in Sock
  BY WorldFields DEF Base
<1>2. T \in BOOLEAN /\ T
  OBVIOUS
<1>3. u.p = [w.p EXCEPT !.headerSent = T] /\ u.c = w.c /\ u.b = w.b /\ u.x = w.x
  BY <1>1 DEF Worlds
<1> HIDE DEF T, u
<1>4. /\ u.p \in Proxy(w.x) /\ u.p.headerSent = T /\ u.p.res = w.p.res /\ u.p.sendPos = w.p.sendPos
      /\ u.p.reqSize = w.p.reqSize /\ u.p.resSize = w.p.resSize /\ u.p.upgrade = w.p.upgrade
      /\ u.p.reqLines = w.p.reqLines /\ u.p.state = w.p.state
  BY <1>1, <1>2, <1>3 DEF Proxy
<1>5. u \in Worlds(u.x)
  BY <1>1, <1>3, <1>4 DEF Worlds, u
<1>6. Base(u)
  BY <1>3, <1>4, <1>5 DEF Base, Safe
<1>7. Begun(u) /\ Held(u) /\ In(u, "STREAMING")
  BY <1>2, <1>3, <1>4 DEF Begun, Held, In
<1>8. Streams(u)
  BY <1>3, <1>4, <1>7 DEF Streams, Begun, Passing, Unsent
<1>9. BytesOK(StreamBody(u))
  BY <1>6, <1>7, <1>8, StreamBodyOK
<1>10. w.p.upgrade => BytesOK(EnterTunnel(u))
  <2> SUFFICES ASSUME w.p.upgrade PROVE BytesOK(EnterTunnel(u))
    OBVIOUS
  <2>1. IsUpgrade(u.x)
    BY <1>3 DEF Base
  <2> QED
    BY <1>6, <1>7, <1>8, <2>1, EnterTunnelOK
<1> QED
  BY <1>9, <1>10 DEF u, T

LEMMA StreamFromOK ==
    ASSUME NEW w, Base(w), Streams(w), Held(w), In(w, "STREAMING")
    PROVE  BytesOK(StreamFrom(w, Part(w.p.res, w.p.sendPos, w.p.resEnd)))
<1> DEFINE e == w.p.resEnd
           rest == Part(w.p.res, w.p.sendPos, e)
           n == BytesSent(w.c, rest)
           s == Send(w.c, rest)
           i == w.p.sendPos + n
           v == [w EXCEPT !.c = s, !.p.sendPos = i]
<1>1. CASE Begun(w)
  BY <1>1, StreamBodyOK DEF StreamFrom, Begun
<1>2. CASE ~Begun(w)
  <2>1. /\ w \in Worlds(w.x) /\ w.p \in Proxy(w.x) /\ w.c \in Sock /\ w.b \in Sock /\ SockOK(w.c)
        /\ w.p.res \in Units /\ w.p.sendPos \in Nat /\ e \in Nat /\ Len(w.p.res) \in Nat
    BY WorldFields, ProxyFields DEF Base
  <2>2. w.p.sendPos <= e /\ e <= Len(w.p.res)
    BY <1>2 DEF Streams, Begun
  <2>3. rest \in Units
    <3>1. 0 \in Nat /\ 0 <= e - w.p.sendPos
      BY <2>1, <2>2
    <3> HIDE DEF e
    <3> QED
      BY <2>1, <2>2, <3>1, SendOfPart
  <2>4. n \in Nat /\ s \in Sock
    BY <2>1, <2>3, Sending
  <2>5. StreamFrom(w, rest) = IF rest # <<>> /\ w.c.gone THEN Fail(w) ELSE HeaderSent(v, n, rest)
    BY <1>2 DEF StreamFrom, Begun
  <2>6. BytesOK(Fail(w)) \/ ~w.c.gone
    BY FailOK
  <2> HIDE DEF rest, n, s
  <2>7. i \in Nat
    BY <2>1, <2>4
  <2> HIDE DEF i
  <2>8. v.p = [w.p EXCEPT !.sendPos = i] /\ v.c = s /\ v.b = w.b /\ v.x = w.x
    BY <2>1 DEF Worlds
  <2> HIDE DEF v
  <2>9. v.p \in Proxy(w.x) /\ SameRest(w.p, v.p) /\ v.p.sendPos = i
    BY <2>1, <2>7, <2>8, ZenonT(60) DEF Proxy, SameRest
  <2>10. v \in Worlds(w.x)
    BY <2>1, <2>4, <2>8, <2>9 DEF Worlds, v
  <2>11. Advanced(w, v, e)
    BY <2>2, <2>8, <2>9, <2>10 DEF Advanced, rest, n, s, i
  <2>12. Base(v) /\ Streams(v) /\ Held(v)
    BY <2>1, <2>11, Advance
  <2>13. In(v, "STREAMING")
    BY <2>9 DEF In, SameRest
  <2>14. BytesOK(WaitWrite(v))
    BY <2>12, WaitWriteOK
  <2>15. BytesOK(IF v.p.upgrade THEN EnterTunnel([v EXCEPT !.p.headerSent = TRUE])
                 ELSE StreamBody([v EXCEPT !.p.headerSent = TRUE]))
    BY <2>12, <2>13, HeaderOutOK
  <2>16. BytesOK(HeaderSent(v, n, rest))
    BY <2>14, <2>15 DEF HeaderSent
  <2>17. BytesOK(StreamFrom(w, rest))
    BY <2>5, <2>6, <2>16
  <2> QED
    BY <2>17 DEF rest
<1> QED
  BY <1>1, <1>2

LEMMA StreamingOK ==
    ASSUME NEW w, Base(w), Streams(w), Held(w)
    PROVE  BytesOK(Streaming(w))
<1> DEFINE st == "STREAMING"
           v == [w EXCEPT !.p.state = st]
<1>1. w \in Worlds(w.x) /\ st \in States
  BY DEF Base, States
<1>2. Streaming(w) = StreamFrom(v, Part(w.p.res, w.p.sendPos, w.p.resEnd))
  BY DEF Streaming, Part
<1> HIDE DEF st
<1>3. Still(w, v) /\ v.p.state = st /\ Held(v)
  BY <1>1, StateStill
<1> HIDE DEF v
<1>4. Base(v) /\ Streams(v)
  BY <1>3, StillKeeps
<1>5. v.p.res = w.p.res /\ v.p.sendPos = w.p.sendPos /\ v.p.resEnd = w.p.resEnd
  BY <1>3 DEF Still, SameProxy
<1>6. In(v, "STREAMING")
  BY <1>3 DEF In, st
<1>7. BytesOK(StreamFrom(v, Part(v.p.res, v.p.sendPos, v.p.resEnd)))
  BY <1>3, <1>4, <1>6, StreamFromOK
<1> QED
  BY <1>2, <1>5, <1>7

---------------------------------------------------------------------------
(* The header of a message, and the scan of a chunked body.                *)

LEMMA FirstHeader ==
    ASSUME NEW buf \in Units, NEW rest \in Units, NEW m \in Units, NEW h \in 1 .. Len(m), Cat(buf, rest) = m,
           \A i \in 1 .. h : m[i] = "H" <=> i = h
    PROVE  \/ proxy_find_header_end(buf) = 0 /\ Len(buf) < h
           \/ proxy_find_header_end(buf) = h /\ h <= Len(buf)
<1> DEFINE ends == {i \in DOMAIN buf : buf[i] = "H"}
           first == CHOOSE i \in ends : \A j \in ends : i <= j
<1>1. Len(buf) \in Nat /\ Len(m) \in Nat /\ Len(buf) <= Len(m)
  BY CatBasics
<1>2. DOMAIN buf = 1 .. Len(buf)
  BY LenProperties DEF Units
<1>3. \A i \in 1 .. Len(buf) : m[i] = buf[i]
  BY <1>1, ConcatProperties DEF Units, Cat
<1>4. \A i \in ends : h <= i
  BY <1>1, <1>2, <1>3
<1>5. h <= Len(buf) => h \in ends
  BY <1>1, <1>2, <1>3
<1>6. proxy_find_header_end(buf) = IF ends = {} THEN 0 ELSE first
  BY DEF proxy_find_header_end
<1>7. CASE h <= Len(buf)
  <2>1. h \in ends /\ \A j \in ends : h <= j
    BY <1>4, <1>5, <1>7
  <2>2. first \in ends /\ \A j \in ends : first <= j
    BY <2>1
  <2>3. ends \subseteq Nat
    BY <1>1, <1>2
  <2> HIDE DEF ends, first
  <2>4. first = h
    BY <2>1, <2>2, <2>3
  <2> QED
    BY <1>6, <1>7, <2>1, <2>4
<1>8. CASE ~(h <= Len(buf))
  <2>1. ends = {}
    BY <1>1, <1>2, <1>4, <1>8
  <2>2. Len(buf) < h
    BY <1>1, <1>8
  <2> QED
    BY <1>6, <2>1, <2>2
<1> QED
  BY <1>7, <1>8

LEMMA ScanUnitChunk ==
    ASSUME NEW k \in Chunk, NEW u
    PROVE  ScanUnit(k, u) \in Chunk
<1>1. k.size \in Int
  BY DEF Chunk
<1>2. u \in DOMAIN Digits => Digits[u] \in Int
  BY DEF Digits
<1>3. \A st \in ChunkStates : [k EXCEPT !.state = st] \in Chunk
  BY DEF Chunk
<1>4. \A n \in Int : [k EXCEPT !.size = n] \in Chunk
  BY DEF Chunk
<1>5. \A st \in ChunkStates, n \in Int : [state |-> st, size |-> n] \in Chunk
  BY DEF Chunk
<1>6. /\ "SIZE" \in ChunkStates /\ "ERROR" \in ChunkStates /\ "EXT" \in ChunkStates
      /\ "SIZE_LF" \in ChunkStates /\ "TRAILER" \in ChunkStates /\ "DATA" \in ChunkStates
      /\ "DATA_CR" \in ChunkStates /\ "DATA_LF" \in ChunkStates /\ "SIZE_START" \in ChunkStates
      /\ "TRAILER_LF" \in ChunkStates /\ "TRAILER_LINE" \in ChunkStates /\ "DONE" \in ChunkStates
      /\ "TRAILER_LINE_LF" \in ChunkStates
  BY DEF ChunkStates
<1>7. CASE k.state = "SIZE_START"
  <2>1. CASE u \in DOMAIN Digits
    <3>1. ScanUnit(k, u) = [state |-> "SIZE", size |-> Digits[u]]
      BY <1>7, <2>1 DEF ScanUnit
    <3> QED
      BY <1>2, <1>5, <1>6, <2>1, <3>1
  <2>2. CASE u \notin DOMAIN Digits
    <3>1. ScanUnit(k, u) = [k EXCEPT !.state = "ERROR"]
      BY <1>7, <2>2 DEF ScanUnit
    <3> QED
      BY <1>3, <1>6, <3>1
  <2> QED
    BY <2>1, <2>2
<1>8. CASE k.state = "SIZE"
  <2>1. CASE u \in DOMAIN Digits
    <3> DEFINE n == k.size * 16 + Digits[u]
    <3>1. n \in Int
      BY <1>1, <1>2, <2>1
    <3>2. ScanUnit(k, u) = [k EXCEPT !.state = "ERROR"] \/ ScanUnit(k, u) = [k EXCEPT !.size = n]
      BY <1>8, <2>1 DEF ScanUnit
    <3> HIDE DEF n
    <3> QED
      BY <1>3, <1>4, <1>6, <3>1, <3>2
  <2>2. CASE u \notin DOMAIN Digits
    <3>1. \/ ScanUnit(k, u) = [k EXCEPT !.state = "EXT"] \/ ScanUnit(k, u) = [k EXCEPT !.state = "SIZE_LF"]
          \/ ScanUnit(k, u) = [k EXCEPT !.state = "ERROR"]
      BY <1>8, <2>2 DEF ScanUnit
    <3> QED
      BY <1>3, <1>6, <3>1
  <2> QED
    BY <2>1, <2>2
<1>9. CASE k.state = "EXT"
  BY <1>1, <1>2, <1>3, <1>4, <1>5, <1>6, <1>9, SMTT(30) DEF ScanUnit
<1>10. CASE k.state = "SIZE_LF"
  BY <1>1, <1>2, <1>3, <1>4, <1>5, <1>6, <1>10, SMTT(30) DEF ScanUnit
<1>11. CASE k.state = "DATA"
  BY <1>1, <1>2, <1>3, <1>4, <1>5, <1>6, <1>11, SMTT(30) DEF ScanUnit
<1>12. CASE k.state = "DATA_CR"
  BY <1>1, <1>2, <1>3, <1>4, <1>5, <1>6, <1>12, SMTT(30) DEF ScanUnit
<1>13. CASE k.state = "DATA_LF"
  BY <1>1, <1>2, <1>3, <1>4, <1>5, <1>6, <1>13, SMTT(30) DEF ScanUnit
<1>14. CASE k.state = "TRAILER"
  BY <1>1, <1>2, <1>3, <1>4, <1>5, <1>6, <1>14, SMTT(30) DEF ScanUnit
<1>15. CASE k.state = "TRAILER_LF"
  BY <1>1, <1>2, <1>3, <1>4, <1>5, <1>6, <1>15, SMTT(30) DEF ScanUnit
<1>16. CASE k.state = "TRAILER_LINE"
  BY <1>1, <1>2, <1>3, <1>4, <1>5, <1>6, <1>16, SMTT(30) DEF ScanUnit
<1>17. CASE k.state = "TRAILER_LINE_LF"
  BY <1>1, <1>2, <1>3, <1>4, <1>5, <1>6, <1>17, SMTT(30) DEF ScanUnit
<1>18. CASE k.state \notin ChunkStates \ {"DONE", "ERROR"}
  BY <1>18 DEF ScanUnit, ChunkStates
<1> QED
  BY <1>7, <1>8, <1>9, <1>10, <1>11, <1>12, <1>13, <1>14, <1>15, <1>16, <1>17, <1>18 DEF ChunkStates

LEMMA ScanChunk ==
    ASSUME NEW k \in Chunk, NEW units \in Units
    PROVE  proxy_chunked_scan(k, units) \in Chunk
<1> DEFINE N == Len(units)
           F == [i \in 1 .. N |-> [c \in Chunk |-> ScanUnit(c, units[i])]]
           g == CHOOSE g : g = [i \in 0 .. N |-> IF i = 0 THEN k ELSE ScanUnit(g[i - 1], units[i])]
<1>1. N \in Nat
  BY SeqBasics
<1>2. proxy_chunked_scan(k, units) = g[N]
  BY DEF proxy_chunked_scan
<1> HIDE DEF N
<1>3. F \in Steps(N, Chunk)
  BY ScanUnitChunk DEF Steps
<1>4. PICK f \in Runs(N, Chunk) : RunOf(f, k, F, N)
  <2> HIDE DEF F
  <2> QED
    BY <1>1, <1>3, Repeats
<1>5. \A i \in 1 .. N : f[i] = ScanUnit(f[i - 1], units[i])
  <2> SUFFICES ASSUME NEW i \in 1 .. N PROVE f[i] = ScanUnit(f[i - 1], units[i])
    OBVIOUS
  <2>1. f[i - 1] \in Chunk
    BY <1>1, <1>4 DEF Runs
  <2>2. f[i] = F[i][f[i - 1]]
    BY <1>4 DEF RunOf
  <2>3. \A c \in Chunk : F[i][c] = ScanUnit(c, units[i])
    OBVIOUS
  <2> QED
    BY <2>1, <2>2, <2>3
<1>6. f = [i \in 0 .. N |-> IF i = 0 THEN k ELSE ScanUnit(f[i - 1], units[i])]
  BY <1>1, <1>4, <1>5 DEF Runs, RunOf
<1>7. g = [i \in 0 .. N |-> IF i = 0 THEN k ELSE ScanUnit(g[i - 1], units[i])]
  BY <1>6
<1> HIDE DEF g, F
<1>8. g[0] = k /\ \A i \in 1 .. N : g[i] = ScanUnit(g[i - 1], units[i])
  BY <1>1, <1>7
<1>9. \A i \in 0 .. N : g[i] \in Chunk
  BY <1>1, <1>8, ScanUnitChunk, StaysIn
<1> QED
  BY <1>1, <1>2, <1>9

---------------------------------------------------------------------------
(* The header of the response.                                             *)

LEMMA WholeIs ==
    ASSUME NEW x \in Exchanges
    PROVE  Whole(x) = IF x.res.status = 101 \/ proxy_force_connection_close(x.res.lines) # 0 THEN x.res.units
                      ELSE InsertBefore(x.res.units, x.res.hdr, "C")
<1> DEFINE u == x.res.units
           n == Len(u)
<1>1. u \in Units /\ x.res.hdr \in 1 .. n /\ n \in Nat
  BY MessageUnits, SeqBasics
<1>2. SubSeq(u, 1, n) = u /\ ~(n < x.res.hdr)
  BY <1>1, CutAtEnds DEF Take
<1> QED
  BY <1>2 DEF Whole, Rewritten

(* The header is there as it is to go out, and nothing of it has gone.     *)
Answered(v) ==
  /\ Base(v) /\ Held(v) /\ Passing(v, <<>>) /\ v.c.got = <<>> /\ v.p.sendPos = 0
  /\ v.p.resEnd <= Len(v.p.res) /\ Cat(v.p.res, Coming(v.b)) = Whole(v.x)

LEMMA AnsweredStreams ==
    ASSUME NEW v, Answered(v)
    PROVE  Base(v) /\ Held(v) /\ Streams(v)
<1>1. Base(v) /\ Held(v)
  BY DEF Answered
<1>2. v.p.res \in Units /\ v.p.resEnd \in Nat /\ Len(v.p.res) \in Nat
  BY <1>1, WorldFields, ProxyFields DEF Base
<1>3. v.p.sendPos = 0 /\ v.c.got = <<>>
  BY DEF Answered
<1>4. Unsent(v.p) = v.p.res
  BY <1>2, <1>3, CutAtEnds DEF Unsent
<1>5. Cat(v.c.got, Unsent(v.p)) = v.p.res
  BY <1>2, <1>3, <1>4, CatBasics
<1>6. v.p.sendPos <= Len(v.p.res) /\ v.p.sendPos <= v.p.resEnd
  BY <1>2, <1>3
<1> QED
  BY <1>1, <1>5, <1>6 DEF Answered, Streams

Rewrites(w, v) ==
  /\ v \in Worlds(w.x) /\ v.x = w.x /\ v.c = w.c /\ v.b = w.b
  /\ v.p.reqSize = w.p.reqSize /\ v.p.reqLines = w.p.reqLines /\ v.p.headerSent = w.p.headerSent
  /\ v.p.sendPos = w.p.sendPos /\ v.p.resSize >= BufferSize /\ (v.p.upgrade => IsUpgrade(w.x))

LEMMA RewritesBase ==
    ASSUME NEW w, Base(w), NEW v, Rewrites(w, v)
    PROVE  Base(v)
  BY DEF Base, Safe, Rewrites

LEMMA RewritesAnswered ==
    ASSUME NEW w, Base(w), Held(w), Awaits(w), NEW v, Rewrites(w, v), v.p.resEnd <= Len(v.p.res),
           Cat(v.p.res, Coming(v.b)) = Whole(v.x)
    PROVE  Answered(v)
<1>1. Base(v)
  BY RewritesBase
<1>2. Held(v) /\ Passing(v, <<>>) /\ v.c.got = <<>> /\ v.p.sendPos = 0
  BY DEF Rewrites, Held, Awaits, Passing, Unanswered
<1> QED
  BY <1>1, <1>2 DEF Answered

(* The header's end is found, and it is an upgrade.                        *)
LEMMA EndFound ==
    ASSUME NEW w, Base(w), Held(w), Awaits(w), NEW e \in Nat
    PROVE  LET v == [w EXCEPT !.p.resEnd = e]
           IN  Rewrites(w, v) /\ v.p.resEnd = e /\ v.p.res = w.p.res
<1> DEFINE v == [w EXCEPT !.p.resEnd = e]
<1>1. w \in Worlds(w.x) /\ w.p \in Proxy(w.x) /\ w.c \in Sock /\ w.b \in Sock
  BY WorldFields DEF Base
<1>2. v.p = [w.p EXCEPT !.resEnd = e] /\ v.c = w.c /\ v.b = w.b /\ v.x = w.x
  BY <1>1 DEF Worlds
<1> HIDE DEF v
<1>3. /\ v.p \in Proxy(w.x) /\ v.p.resEnd = e /\ v.p.res = w.p.res /\ v.p.reqSize = w.p.reqSize
      /\ v.p.reqLines = w.p.reqLines /\ v.p.headerSent = w.p.headerSent /\ v.p.sendPos = w.p.sendPos
      /\ v.p.resSize = w.p.resSize /\ v.p.upgrade = w.p.upgrade
  BY <1>1, <1>2 DEF Proxy
<1>4. v \in Worlds(w.x)
  BY <1>1, <1>2, <1>3 DEF Worlds, v
<1> QED
  BY <1>2, <1>3, <1>4 DEF Rewrites, Base, v

LEMMA Upgraded ==
    ASSUME NEW w, Base(w), Held(w), Awaits(w), NEW v, Rewrites(w, v), IsUpgrade(w.x)
    PROVE  LET u == [v EXCEPT !.p.upgrade = TRUE]
           IN  Rewrites(w, u) /\ u.p.resEnd = v.p.resEnd /\ u.p.res = v.p.res
<1> DEFINE T == TRUE
           u == [v EXCEPT !.p.upgrade = T]
<1>1. v \in Worlds(w.x) /\ v.p \in Proxy(w.x) /\ v.c \in Sock /\ v.b \in Sock /\ T \in BOOLEAN
  BY WorldFields DEF Rewrites
<1>2. u.p = [v.p EXCEPT !.upgrade = T] /\ u.c = v.c /\ u.b = v.b /\ u.x = v.x
  BY <1>1 DEF Worlds
<1> HIDE DEF u, T
<1>3. /\ u.p \in Proxy(w.x) /\ u.p.resEnd = v.p.resEnd /\ u.p.res = v.p.res /\ u.p.reqSize = v.p.reqSize
      /\ u.p.reqLines = v.p.reqLines /\ u.p.headerSent = v.p.headerSent /\ u.p.sendPos = v.p.sendPos
      /\ u.p.resSize = v.p.resSize
  BY <1>1, <1>2 DEF Proxy
<1>4. u \in Worlds(w.x)
  BY <1>1, <1>2, <1>3 DEF Worlds, u
<1> QED
  BY <1>2, <1>3, <1>4 DEF Rewrites, u, T

Grown(w, r, f, z) == [w EXCEPT !.p.res = r, !.p.resEnd = f, !.p.resSize = z]

LEMMA Inserted ==
    ASSUME NEW w, w \in Worlds(w.x), NEW r \in Units, NEW f \in Nat, NEW z \in Nat
    PROVE  LET v == Grown(w, r, f, z)
           IN  /\ v \in Worlds(w.x) /\ v.x = w.x /\ v.c = w.c /\ v.b = w.b
               /\ v.p.resEnd = f /\ v.p.res = r /\ v.p.resSize = z /\ v.p.reqSize = w.p.reqSize
               /\ v.p.reqLines = w.p.reqLines /\ v.p.headerSent = w.p.headerSent
               /\ v.p.sendPos = w.p.sendPos /\ v.p.upgrade = w.p.upgrade
<1> USE DEF Grown
<1> DEFINE v == Grown(w, r, f, z)
           p == w.p
           q == v.p
<1>1. p \in Proxy(w.x) /\ w.c \in Sock /\ w.b \in Sock
  BY WorldFields
<1>2. q = [p EXCEPT !.res = r, !.resEnd = f, !.resSize = z] /\ v.c = w.c /\ v.b = w.b /\ v.x = w.x
  BY DEF Worlds
<1> HIDE DEF p, q
<1>3. /\ q \in Proxy(w.x) /\ q.resEnd = f /\ q.res = r /\ q.resSize = z /\ q.reqSize = p.reqSize
      /\ q.reqLines = p.reqLines /\ q.headerSent = p.headerSent /\ q.sendPos = p.sendPos
      /\ q.upgrade = p.upgrade
  <2>1. p \in Proxy(w.x) /\ q = [p EXCEPT !.res = r, !.resEnd = f, !.resSize = z]
    BY <1>1, <1>2
  <2>2. q \in Proxy(w.x)
    BY <2>1 DEF Proxy
  <2>3. q.resEnd = f /\ q.res = r /\ q.resSize = z
    BY <2>1 DEF Proxy
  <2>4. /\ q.reqSize = p.reqSize /\ q.reqLines = p.reqLines /\ q.headerSent = p.headerSent
        /\ q.sendPos = p.sendPos /\ q.upgrade = p.upgrade
    BY <2>1 DEF Proxy
  <2> QED
    BY <2>2, <2>3, <2>4
<1>4. v \in Worlds(w.x)
  BY <1>1, <1>2, <1>3 DEF Worlds, q
<1> QED
  BY <1>2, <1>3, <1>4 DEF p, q

(* A line is inserted, or one is overwritten.                              *)
LEMMA InjectOK ==
    ASSUME NEW w, Base(w), Held(w), Awaits(w), NEW e, e = w.x.res.hdr, e <= Len(w.p.res),
           w.x.res.status # 101
    PROVE  Answered(proxy_inject_connection_close(w, e))
<1> DEFINE x == w.x
           res == w.p.res
           rest == Coming(w.b)
           force == proxy_force_connection_close(x.res.lines)
<1>1. /\ w \in Worlds(x) /\ w.p \in Proxy(x) /\ w.c \in Sock /\ w.b \in Sock /\ x \in Exchanges
      /\ res \in Units /\ rest \in Units /\ w.p.resSize \in Nat /\ Len(res) \in Nat /\ w.p.resSize >= BufferSize
  BY WorldFields, ProxyFields, SockFields DEF Base
<1>2. e \in 1 .. Len(x.res.units) /\ x.res.units \in Units /\ e \in Nat /\ 1 <= e
  BY <1>1, MessageUnits, SeqBasics
<1>3. Cat(res, rest) = x.res.units
  BY DEF Awaits, Unanswered
<1>4. CASE force # 0
  <2> DEFINE v == [w EXCEPT !.p.resEnd = e]
  <2>1. proxy_inject_connection_close(w, e) = v
    BY <1>4 DEF proxy_inject_connection_close
  <2>2. Rewrites(w, v) /\ v.p.resEnd = e /\ v.p.res = res
    BY <1>2, EndFound
  <2> HIDE DEF v
  <2>3. Whole(x) = x.res.units
    BY <1>1, <1>4, WholeIs
  <2>4. v.p.resEnd <= Len(v.p.res) /\ Cat(v.p.res, Coming(v.b)) = Whole(v.x)
    BY <1>3, <2>2, <2>3 DEF Rewrites
  <2> QED
    BY <2>1, <2>2, <2>4, RewritesAnswered
<1>5. CASE force = 0
  <2> DEFINE r == InsertBefore(res, e, "C")
             f == e + 1
             z == IF Len(res) + 1 > w.p.resSize THEN Len(res) + 2 ELSE w.p.resSize
             v == Grown(w, r, f, z)
  <2>1. proxy_inject_connection_close(w, e) = v
    BY <1>5 DEF proxy_inject_connection_close, Grown
  <2>2. e \in 1 .. Len(res) /\ "C" \in Alphabet
    BY <1>1, <1>2 DEF Alphabet
  <2>3. r \in Units /\ Len(r) = Len(res) + 1 /\ InsertBefore(Cat(res, rest), e, "C") = Cat(r, rest)
    <3> DEFINE U == "C"
    <3>1. U \in Alphabet
      BY <2>2
    <3> HIDE DEF U, res, rest
    <3>2. /\ InsertBefore(res, e, U) \in Units /\ Len(InsertBefore(res, e, U)) = Len(res) + 1
          /\ InsertBefore(Cat(res, rest), e, U) = Cat(InsertBefore(res, e, U), rest)
      BY <1>1, <2>2, <3>1, Inserting
    <3> QED
      BY <3>2 DEF U
  <2>4. f \in Nat /\ f <= Len(r) /\ z \in Nat /\ z >= BufferSize
    <3>1. BufferSize \in Nat
      BY Sizes
    <3> HIDE DEF r
    <3> QED
      BY <1>1, <1>2, <2>2, <2>3, <3>1, SMTT(30)
  <2> HIDE DEF r, f, z
  <2>5. /\ v \in Worlds(x) /\ v.x = x /\ v.c = w.c /\ v.b = w.b
        /\ v.p.resEnd = f /\ v.p.res = r /\ v.p.resSize = z /\ v.p.reqSize = w.p.reqSize
        /\ v.p.reqLines = w.p.reqLines /\ v.p.headerSent = w.p.headerSent
        /\ v.p.sendPos = w.p.sendPos /\ v.p.upgrade = w.p.upgrade
    <3>1. w \in Worlds(w.x) /\ r \in Units /\ f \in Nat /\ z \in Nat
      BY <1>1, <2>3, <2>4
    <3> QED
      BY <3>1, Inserted
  <2> HIDE DEF v
  <2>8. Rewrites(w, v)
    BY <2>4, <2>5 DEF Rewrites, Base
  <2>9. Whole(x) = InsertBefore(x.res.units, e, "C")
    BY <1>1, <1>5, WholeIs
  <2>10. v.p.resEnd <= Len(v.p.res) /\ Cat(v.p.res, Coming(v.b)) = Whole(v.x)
    BY <1>3, <2>3, <2>4, <2>5, <2>9
  <2> QED
    BY <2>1, <2>8, <2>10, RewritesAnswered
<1> QED
  BY <1>4, <1>5

LEMMA ContentLength ==
    ASSUME NEW lines
    PROVE  /\ proxy_parse_content_length(lines) \in Int
           /\ proxy_parse_content_length(lines) \in Nat \/ proxy_parse_content_length(lines) \in {Missing, Invalid}
<1> DEFINE cls == LinesOf(lines, "Content-Length")
           a == cls[1].value[1]
<1>1. proxy_parse_content_length(lines) = CASE cls = <<>> -> Missing
        [] cls # <<>> /\ (a \notin Nat \/ Len(cls) > 1) -> Invalid
        [] OTHER -> a
  BY DEF proxy_parse_content_length
<1> HIDE DEF cls, a
<1> QED
  BY <1>1 DEF Missing, Invalid

LEMMA BodyModeIs ==
    ASSUME NEW w
    PROVE  BodyMode(w) \in Modes
  BY DEF BodyMode, Modes

LEMMA BeginBodyOK ==
    ASSUME NEW w, Answered(w), NEW body \in Units, NEW length \in Int
    PROVE  Answered(BeginBody(w, body, length))
<1> DEFINE v == BeginBody(w, body, length)
           m == BodyMode(w)
           z == 0
           n == IF w.x.res.status \in {204, 304} \/ length < 0 THEN 0 ELSE length
           k == IF m = "chunked" THEN proxy_chunked_scan(w.p.chunk, body) ELSE w.p.chunk
           q == [w.p EXCEPT !.mode = m, !.sendPos = z]
           r == [q EXCEPT !.resLength = n, !.chunk = k]
<1>1. Base(w) /\ w \in Worlds(w.x) /\ w.p \in Proxy(w.x) /\ w.c \in Sock /\ w.b \in Sock
  BY WorldFields DEF Base, Answered
<1>2. m \in Modes /\ z \in Nat /\ n \in Nat
  BY BodyModeIs
<1>3. k \in Chunk
  BY <1>1, ProxyFields, ScanChunk
<1>4. v = [w EXCEPT !.p.mode = m, !.p.sendPos = z, !.p.resLength = n, !.p.chunk = k]
  BY DEF BeginBody
<1> HIDE DEF m, n, k, v, z
<1>5. v.p = r /\ v.c = w.c /\ v.b = w.b /\ v.x = w.x
  BY <1>1, <1>4 DEF Worlds
<1>6. /\ q \in Proxy(w.x) /\ q.resEnd = w.p.resEnd /\ q.res = w.p.res /\ q.reqSize = w.p.reqSize
      /\ q.reqLines = w.p.reqLines /\ q.headerSent = w.p.headerSent /\ q.sendPos = z
      /\ q.resSize = w.p.resSize /\ q.upgrade = w.p.upgrade
  BY <1>1, <1>2 DEF Proxy
<1> HIDE DEF q
<1>7. /\ r \in Proxy(w.x) /\ r.resEnd = q.resEnd /\ r.res = q.res /\ r.reqSize = q.reqSize
      /\ r.reqLines = q.reqLines /\ r.headerSent = q.headerSent /\ r.sendPos = q.sendPos
      /\ r.resSize = q.resSize /\ r.upgrade = q.upgrade
  <2>1. q \in Proxy(w.x)
    BY <1>6
  <2> QED
    BY <1>2, <1>3, <2>1 DEF Proxy
<1> HIDE DEF r
<1>8. v \in Worlds(w.x)
  BY <1>1, <1>4, <1>5, <1>7 DEF Worlds
<1>9. Rewrites(w, v)
  BY <1>1, <1>5, <1>6, <1>7, <1>8 DEF Rewrites, Answered, Base, z
<1>10. Base(v)
  BY <1>1, <1>9, RewritesBase
<1>11. v.p.resEnd = w.p.resEnd /\ v.p.res = w.p.res /\ v.p.sendPos = 0
  BY <1>5, <1>6, <1>7 DEF z
<1> QED
  BY <1>5, <1>10, <1>11 DEF Answered, Held, Passing, v

LEMMA PauseStill ==
    ASSUME NEW w, w \in Worlds(w.x), NEW body
    PROVE  LET v == PauseIfWhole(w, body)
           IN  Still(w, v) /\ (Held(w) => Held(v))
<1> DEFINE e == "none"
           v == [w EXCEPT !.b.ev = e]
<1>1. w.p \in Proxy(w.x) /\ w.c \in Sock /\ w.b \in Sock
  BY WorldFields
<1>2. e \in Events
  BY DEF Events
<1>3. PauseIfWhole(w, body) = v \/ PauseIfWhole(w, body) = w
  BY DEF PauseIfWhole
<1> HIDE DEF e
<1>4. v.p = w.p /\ v.c = w.c /\ v.b = [w.b EXCEPT !.ev = e] /\ v.x = w.x
  BY DEF Worlds
<1> HIDE DEF v
<1>5. SameSock(w.b, v.b)
  BY <1>1, <1>2, <1>4, EvSame
<1>6. v.b \in Sock
  BY <1>5 DEF SameSock
<1>7. v \in Worlds(w.x)
  BY <1>1, <1>4, <1>6 DEF Worlds, v
<1>8. Still(w, v) /\ (Held(w) => Held(v))
  BY <1>4, <1>5, <1>7, NoneChanged DEF Still, Held
<1>9. Still(w, w)
  BY NoneChanged DEF Still
<1> QED
  BY <1>3, <1>8, <1>9

LEMMA HeaderRewrittenOK ==
    ASSUME NEW w0, Base(w0), w0.c.got = <<>>, NEW w, Answered(w), NEW length \in Int, NEW outcome
    PROVE  BytesOK(HeaderRewritten(w0, w, length, outcome))
<1> DEFINE body == SubSeq(w.p.res, w.p.resEnd + 1, Len(w.p.res))
           v == BeginBody(w, body, length)
           u == PauseIfWhole(v, body)
<1>1. BytesOK(Fail(w0))
  BY FailOK
<1>2. BytesOK(Fail(w))
  BY FailOK DEF Answered
<1>3. body \in Units
  <2>1. w.p.res \in Units /\ w.p.resEnd \in Nat /\ Len(w.p.res) \in Nat /\ w.p.resEnd <= Len(w.p.res)
    BY WorldFields, ProxyFields DEF Answered, Base
  <2>2. w.p.resEnd \in 0 .. Len(w.p.res)
    BY <2>1
  <2> QED
    BY <2>1, <2>2, Cutting DEF Drop
<1>4. HeaderRewritten(w0, w, length, outcome) \in {Fail(w0), Fail(w), Streaming(u)}
  BY DEF HeaderRewritten
<1> HIDE DEF body
<1>5. Answered(v)
  BY <1>3, BeginBodyOK
<1> HIDE DEF v
<1>6. Base(v) /\ Held(v) /\ Streams(v) /\ v \in Worlds(v.x)
  BY <1>5, AnsweredStreams DEF Base
<1>7. Still(v, u) /\ Held(u)
  BY <1>6, PauseStill
<1> HIDE DEF u
<1>8. Base(u) /\ Streams(u)
  BY <1>6, <1>7, StillKeeps
<1>9. BytesOK(Streaming(u))
  BY <1>7, <1>8, StreamingOK
<1> QED
  BY <1>1, <1>2, <1>4, <1>9

LEMMA ResponseHeader ==
    ASSUME NEW w, Base(w), Unanswered(w)
    PROVE  LET e == proxy_find_header_end(w.p.res)
           IN  e = 0 \/ (e = w.x.res.hdr /\ w.x.res.hdr <= Len(w.p.res))
<1> DEFINE m == w.x.res.units
           h == w.x.res.hdr
           buf == w.p.res
           rest == Coming(w.b)
<1>1. m \in Units /\ h \in 1 .. Len(m) /\ \A j \in 1 .. h : m[j] = "H" <=> j = h
  BY MessageUnits DEF Base
<1>2. buf \in Units /\ rest \in Units /\ Cat(buf, rest) = m
  BY WorldFields, ProxyFields, SockFields DEF Base, Unanswered
<1> HIDE DEF m, h, buf, rest
<1>3. proxy_find_header_end(buf) = 0 \/ (proxy_find_header_end(buf) = h /\ h <= Len(buf))
  BY <1>1, <1>2, FirstHeader
<1> QED
  BY <1>3 DEF h, buf

LEMMA RecvBackendHeaderOK ==
    ASSUME NEW w, Base(w), Held(w), Awaits(w), In(w, "RECV_RES_HEADER"), NEW outcome
    PROVE  BytesOK(RecvBackendHeader(w, outcome))
<1> DEFINE e == proxy_find_header_end(w.p.res)
           v == [w EXCEPT !.p.resEnd = e]
           u == [v EXCEPT !.p.upgrade = TRUE]
           length == proxy_parse_content_length(w.x.res.lines)
           i == proxy_inject_connection_close(w, e)
<1>1. w.x \in Exchanges /\ w.p.res \in Units /\ Coming(w.b) \in Units /\ Cat(w.p.res, Coming(w.b)) = w.x.res.units
  BY WorldFields, ProxyFields, SockFields DEF Base, Awaits, Unanswered
<1>2. \/ e = 0
      \/ e = w.x.res.hdr /\ w.x.res.hdr <= Len(w.p.res)
  BY ResponseHeader DEF Awaits
<1>3. RecvBackendHeader(w, outcome) = IF e = 0 THEN w ELSE IF w.x.res.status = 101
        THEN (IF UpgradeAllowed(w) THEN Streaming(u) ELSE Fail(v)) ELSE HeaderRewritten(v, i, length, outcome)
  BY DEF RecvBackendHeader
<1>4. length \in Int
  BY ContentLength
<1>5. w.c.got = <<>>
  BY DEF Awaits, Unanswered
<1> HIDE DEF e, length
<1>6. CASE e = 0
  BY <1>3, <1>6 DEF BytesOK, InState, In
<1>7. CASE e # 0
  <2>1. e = w.x.res.hdr /\ e <= Len(w.p.res) /\ e \in Nat
    BY <1>1, <1>2, <1>7, MessageUnits
  <2>2. Rewrites(w, v) /\ v.p.resEnd = e /\ v.p.res = w.p.res
    BY <2>1, EndFound
  <2>3. Base(v) /\ v.c.got = <<>>
    BY <1>5, <2>2, RewritesBase DEF Rewrites
  <2>4. BytesOK(Fail(v))
    BY <2>3, FailOK
  <2>5. CASE w.x.res.status # 101
    <3>1. Answered(i)
      BY <2>1, <2>5, InjectOK
    <3> HIDE DEF v, i
    <3>2. BytesOK(HeaderRewritten(v, i, length, outcome))
      BY <1>4, <2>3, <3>1, HeaderRewrittenOK
    <3> QED
      BY <1>3, <1>7, <2>5, <3>2
  <2>6. CASE w.x.res.status = 101 /\ UpgradeAllowed(w)
    <3>1. IsUpgrade(w.x)
      BY <2>6 DEF UpgradeAllowed, IsUpgrade
    <3> HIDE DEF v
    <3>2. Rewrites(w, u) /\ u.p.resEnd = e /\ u.p.res = w.p.res
      BY <2>2, <3>1, Upgraded
    <3>3. Whole(w.x) = w.x.res.units
      BY <1>1, <2>6, WholeIs
    <3> HIDE DEF u
    <3>4. u.p.resEnd <= Len(u.p.res) /\ Cat(u.p.res, Coming(u.b)) = Whole(u.x)
      BY <1>1, <2>1, <3>2, <3>3 DEF Rewrites
    <3>5. Answered(u)
      BY <3>2, <3>4, RewritesAnswered
    <3>6. Base(u) /\ Held(u) /\ Streams(u)
      BY <3>5, AnsweredStreams
    <3>7. BytesOK(Streaming(u))
      BY <3>6, StreamingOK
    <3> QED
      BY <1>3, <1>7, <2>6, <3>7
  <2> HIDE DEF v, u, i
  <2> QED
    BY <1>3, <1>7, <2>4, <2>5, <2>6
<1> QED
  BY <1>6, <1>7

---------------------------------------------------------------------------
(* The request on its way to the backend.                                  *)

LEMMA HandleSame ==
    ASSUME NEW s \in Sock, NEW h \in BOOLEAN, NEW t, t = [s EXCEPT !.handle = h]
    PROVE  SameSock(s, t)
  BY DEF Sock, SameSock

SentOn(w, i) ==
  [w EXCEPT !.p.state = "SEND", !.b = Send(@, Drop(w.p.req, w.p.sendPos)), !.b.handle = TRUE, !.p.sendPos = i]

LEMMA SentOnShape ==
    ASSUME NEW w, w \in Worlds(w.x), NEW i \in Nat, NEW s \in Sock, s = Send(w.b, Drop(w.p.req, w.p.sendPos))
    PROVE  LET v == SentOn(w, i)
           IN  /\ v \in Worlds(w.x) /\ v.x = w.x /\ v.c = w.c /\ SameSock(s, v.b)
               /\ v.p.state = "SEND" /\ v.p.sendPos = i /\ v.p.req = w.p.req /\ v.p.reqLines = w.p.reqLines
               /\ v.p.reqSize = w.p.reqSize /\ v.p.resSize = w.p.resSize /\ v.p.upgrade = w.p.upgrade
               /\ v.p.res = w.p.res /\ v.p.headerSent = w.p.headerSent
<1> DEFINE v == SentOn(w, i)
           T == TRUE
           st == "SEND"
           p == w.p
           q == v.p
<1>1. p \in Proxy(w.x) /\ w.c \in Sock /\ w.b \in Sock
  BY WorldFields
<1>2. st \in States /\ T \in BOOLEAN
  BY DEF States
<1>3. q = [p EXCEPT !.state = st, !.sendPos = i] /\ v.c = w.c /\ v.b = [s EXCEPT !.handle = T] /\ v.x = w.x
  BY DEF Worlds, SentOn
<1> HIDE DEF p, q, st, T
<1>4. /\ q \in Proxy(w.x) /\ q.state = st /\ q.sendPos = i /\ q.req = p.req /\ q.reqLines = p.reqLines
      /\ q.reqSize = p.reqSize /\ q.resSize = p.resSize /\ q.upgrade = p.upgrade
      /\ q.res = p.res /\ q.headerSent = p.headerSent
  BY <1>1, <1>2, <1>3 DEF Proxy
<1>5. SameSock(s, v.b)
  BY <1>2, <1>3, HandleSame
<1>6. v \in Worlds(w.x)
  <2>1. v.b \in Sock
    BY <1>5 DEF SameSock
  <2> QED
    BY <1>1, <1>3, <1>4, <2>1 DEF Worlds, SentOn, q
<1> QED
  BY <1>3, <1>4, <1>5, <1>6 DEF p, q, st

LEMMA SentOnOK ==
    ASSUME NEW w, Base(w), Held(w), Sends(w)
    PROVE  LET rest == Drop(w.p.req, w.p.sendPos)
               n == BytesSent(w.b, rest)
               v == SentOn(w, w.p.sendPos + n)
           IN  /\ Base(v) /\ Held(v) /\ Sends(v) /\ In(v, "SEND") /\ v.x = w.x
               /\ ~(n < Len(rest)) => v.p.sendPos = Len(v.p.req)
<1> DEFINE req == w.p.req
           pos == w.p.sendPos
           rest == Drop(req, pos)
           n == BytesSent(w.b, rest)
           i == pos + n
           s == Send(w.b, rest)
           v == SentOn(w, i)
           got == w.b.got
<1>1. /\ w \in Worlds(w.x) /\ w.p \in Proxy(w.x) /\ w.c \in Sock /\ w.b \in Sock /\ SockOK(w.b)
      /\ req \in Units /\ pos \in Nat /\ Len(req) \in Nat /\ got \in Units /\ Coming(w.c) \in Units
      /\ pos <= Len(req)
  BY WorldFields, ProxyFields, SockFields DEF Base, Sends
<1>2. Passing(w, rest) /\ (IsUpgrade(w.x) \/ w.p.reqLines = WithClose(w.x.req.lines)) /\ w.p.res = <<>> /\ Unanswered(w)
  BY DEF Sends
<1> HIDE DEF req, pos
<1>3. rest \in Units /\ Len(rest) = Len(req) - pos
  BY <1>1, Cutting
<1>4. /\ n \in 0 .. Len(rest) /\ n \in Nat /\ s \in Sock /\ SockOK(s)
      /\ s.got = Cat(got, Take(rest, n)) /\ Coming(s) = Coming(w.b) /\ s.pend = w.b.pend
  BY <1>1, <1>3, Sending
<1>5. i \in Nat /\ i <= Len(req) /\ (~(n < Len(rest)) => i = Len(req))
  <2> HIDE DEF n, rest
  <2> QED
    BY <1>1, <1>3, <1>4
<1>6. Drop(req, i) \in Units /\ Cat(s.got, Drop(req, i)) = Cat(got, rest)
  <2> DEFINE e == Len(req)
             g == got
  <2>1. Part(req, pos, e) = rest
    BY DEF Part, Drop
  <2>2. g \in Units /\ e \in Nat /\ n \in Nat /\ n <= e - pos /\ pos <= e /\ e <= Len(req) /\ req \in Units /\ pos \in Nat
    <3> HIDE DEF n, rest
    <3> QED
      BY <1>1, <1>3, <1>4
  <2>3. s.got = Cat(g, Take(rest, n))
    BY <1>4
  <2> HIDE DEF n, rest, got, s, e, g
  <2>4. Drop(req, pos + n) \in Units /\ Cat(Cat(g, Take(Part(req, pos, e), n)), Drop(req, pos + n)) = Cat(g, Drop(req, pos))
    BY <2>2, SendOfPart
  <2> QED
    BY <2>1, <2>3, <2>4 DEF rest, g
<1>7. /\ v \in Worlds(w.x) /\ v.x = w.x /\ v.c = w.c /\ SameSock(s, v.b)
      /\ v.p.state = "SEND" /\ v.p.sendPos = i /\ v.p.req = w.p.req /\ v.p.reqLines = w.p.reqLines
      /\ v.p.reqSize = w.p.reqSize /\ v.p.resSize = w.p.resSize /\ v.p.upgrade = w.p.upgrade
      /\ v.p.res = w.p.res /\ v.p.headerSent = w.p.headerSent
  <2>1. s = Send(w.b, Drop(w.p.req, w.p.sendPos))
    BY DEF req, pos
  <2> HIDE DEF s, i
  <2> QED
    BY <1>1, <1>4, <1>5, <2>1, SentOnShape
<1> HIDE DEF v, s, i, n, rest
<1>8. v.b.got = s.got /\ Coming(v.b) = Coming(w.b) /\ SockOK(v.b) /\ v.b.pend = w.b.pend
  BY <1>4, <1>7 DEF SameSock, Coming, SockOK
<1>9. Passing(v, Drop(v.p.req, v.p.sendPos))
  BY <1>2, <1>6, <1>7, <1>8 DEF Passing, req, got
<1>10. Unanswered(v)
  BY <1>2, <1>7, <1>8 DEF Unanswered
<1>11. Sends(v)
  BY <1>2, <1>5, <1>7, <1>9, <1>10 DEF Sends, req
<1>12. IsPrefixOf(v.b.got, Forwarded(v.x))
  <2>1. v.b.got \in Units
    BY <1>7, WorldFields, SockFields
  <2>2. Drop(v.p.req, v.p.sendPos) \in Units /\ Coming(v.c) \in Units
    BY <1>1, <1>6, <1>7 DEF req
  <2> QED
    BY <1>9, <2>1, <2>2, FrontOfCat DEF Passing
<1>13. Base(v)
  BY <1>2, <1>7, <1>8, <1>12 DEF Base, Safe
<1> QED
  BY <1>5, <1>7, <1>11, <1>13 DEF v, i, n, rest, req, pos, Held, In

LEMMA SendToBackendOK ==
    ASSUME NEW w, Base(w), Held(w), Sends(w), NEW outcome
    PROVE  BytesOK(SendToBackend(w, outcome))
<1> DEFINE rest == Drop(w.p.req, w.p.sendPos)
           n == BytesSent(w.b, rest)
           v == SentOn(w, w.p.sendPos + n)
           a == [w EXCEPT !.p.state = "SEND"]
           b == [w EXCEPT !.b.handle = TRUE]
           c == [v EXCEPT !.b.ev = "write"]
           d == [v EXCEPT !.p.sendPos = 0, !.p.state = "RECV_RES_HEADER", !.b.ev = "read"]
<1>1. SendToBackend(w, outcome) = IF w.p.sendPos = 0 /\ outcome = "late" THEN Fail(a)
        ELSE IF w.b.gone THEN Fail(b) ELSE IF n < Len(rest) THEN c ELSE d
  BY DEF SendToBackend, SentOn, Drop
<1>2. w \in Worlds(w.x) /\ w.c.got = <<>>
  BY DEF Base, Sends, Unanswered
<1>3. BytesOK(Fail(a))
  <2> DEFINE st == "SEND"
             a1 == [w EXCEPT !.p.state = st]
  <2>1. st \in States
    BY DEF States
  <2> HIDE DEF st
  <2>2. Still(w, a1)
    BY <1>2, <2>1, StateStill
  <2>3. Base(a1) /\ a1.c.got = <<>>
    BY <1>2, <2>2, StillKeeps DEF Still, SameSock
  <2> HIDE DEF a1
  <2>4. BytesOK(Fail(a1))
    BY <2>3, FailOK
  <2> QED
    BY <2>4 DEF a1, st
<1>4. BytesOK(Fail(b))
  <2> DEFINE T == TRUE
             b1 == [w EXCEPT !.b.handle = T]
  <2>1. w.p \in Proxy(w.x) /\ w.c \in Sock /\ w.b \in Sock /\ T \in BOOLEAN
    BY <1>2, WorldFields
  <2>2. b1.p = w.p /\ b1.c = w.c /\ b1.b = [w.b EXCEPT !.handle = T] /\ b1.x = w.x
    BY <1>2 DEF Worlds
  <2> HIDE DEF T, b1
  <2>3. SameSock(w.b, b1.b)
    BY <2>1, <2>2, HandleSame
  <2>4. b1 \in Worlds(w.x)
    BY <1>2, <2>1, <2>2, <2>3 DEF Worlds, SameSock, b1
  <2>5. Still(w, b1)
    BY <1>2, <2>2, <2>3, <2>4, NoneChanged DEF Still
  <2>6. Base(b1) /\ b1.c.got = <<>>
    BY <1>2, <2>5, StillKeeps DEF Still, SameSock
  <2>7. BytesOK(Fail(b1))
    BY <2>6, FailOK
  <2> QED
    BY <2>7 DEF b1, T
<1>5. /\ Base(v) /\ Held(v) /\ Sends(v) /\ In(v, "SEND")
      /\ ~(n < Len(rest)) => v.p.sendPos = Len(v.p.req)
  BY SentOnOK
<1> HIDE DEF v
<1>6. v \in Worlds(v.x) /\ v.p \in Proxy(v.x) /\ v.c \in Sock /\ v.b \in Sock
  BY <1>5, WorldFields DEF Base
<1>7. BytesOK(c)
  <2> DEFINE e == "write"
             c1 == [v EXCEPT !.b.ev = e]
  <2>1. e \in Events
    BY DEF Events
  <2> HIDE DEF e
  <2>2. c1.p = v.p /\ c1.c = v.c /\ c1.b = [v.b EXCEPT !.ev = e] /\ c1.x = v.x
    BY <1>6 DEF Worlds
  <2> HIDE DEF c1
  <2>3. SameSock(v.b, c1.b)
    BY <1>6, <2>1, <2>2, EvSame
  <2>4. c1 \in Worlds(v.x)
    BY <1>6, <2>2, <2>3 DEF Worlds, SameSock, c1
  <2>5. Still(v, c1)
    BY <1>6, <2>2, <2>3, <2>4, NoneChanged DEF Still
  <2>6. BytesOK(v)
    BY <1>5 DEF BytesOK, InState, In
  <2>7. BytesOK(c1)
    BY <2>2, <2>5, <2>6, StillBytes DEF Held
  <2> QED
    BY <2>7 DEF c1, e
<1>8. ~(n < Len(rest)) => BytesOK(d)
  <2> SUFFICES ASSUME ~(n < Len(rest)) PROVE BytesOK(d)
    OBVIOUS
  <2> DEFINE e == "read"
             st == "RECV_RES_HEADER"
             z == 0
             d1 == [v EXCEPT !.p.sendPos = z, !.p.state = st, !.b.ev = e]
             p == v.p
             q == d1.p
  <2>1. e \in Events /\ st \in States /\ z \in Nat
    BY DEF Events, States
  <2> HIDE DEF e, st, z
  <2>2. q = [p EXCEPT !.sendPos = z, !.state = st] /\ d1.c = v.c /\ d1.b = [v.b EXCEPT !.ev = e] /\ d1.x = v.x
    BY <1>6 DEF Worlds
  <2>3. p \in Proxy(v.x)
    BY <1>6
  <2> HIDE DEF d1, p, q
  <2>4. SameSock(v.b, d1.b)
    BY <1>6, <2>1, <2>2, EvSame
  <2>5. /\ q \in Proxy(v.x) /\ q.state = st /\ q.sendPos = z /\ q.reqLines = p.reqLines /\ q.reqSize = p.reqSize
        /\ q.resSize = p.resSize /\ q.upgrade = p.upgrade /\ q.res = p.res /\ q.headerSent = p.headerSent
    BY <2>1, <2>2, <2>3 DEF Proxy
  <2>6. d1 \in Worlds(d1.x)
    BY <1>6, <2>2, <2>4, <2>5 DEF Worlds, SameSock, d1, q
  <2>7. Base(d1) /\ Held(d1)
    BY <1>5, <2>2, <2>4, <2>5, <2>6 DEF Base, Safe, SockOK, SameSock, Held, p, q
  <2>8. Passing(v, <<>>)
    <3>1. v.p.req \in Units
      BY <1>6, ProxyFields
    <3>2. Drop(v.p.req, v.p.sendPos) = <<>>
      BY <1>5, <3>1, CutAtEnds
    <3> QED
      BY <1>5, <3>2 DEF Sends
  <2>9. Passing(d1, <<>>)
    BY <2>2, <2>4, <2>8 DEF Passing, SameSock
  <2>10. Unanswered(d1)
    BY <1>5, <2>2, <2>4, <2>5 DEF Unanswered, Sends, SameSock, Coming, p, q
  <2>11. d1.p.sendPos = 0 /\ d1.p.state = "RECV_RES_HEADER"
    BY <2>5 DEF q, z, st
  <2>12. Awaits(d1)
    BY <2>9, <2>10, <2>11 DEF Awaits
  <2>13. BytesOK(d1)
    BY <2>7, <2>11, <2>12 DEF BytesOK, InState
  <2> QED
    BY <2>13 DEF d1, e, st, z
<1> HIDE DEF a, b, c, d
<1> QED
  BY <1>1, <1>3, <1>4, <1>7, <1>8

---------------------------------------------------------------------------
(* The request is complete: it is cut, rewritten and sent.                 *)

LEMMA TakeOfCat ==
    ASSUME NEW a \in Units, NEW b \in Units, NEW k \in Nat, k <= Len(a)
    PROVE  Take(Cat(a, b), k) = Take(a, k)
<1>1. Len(a) \in Nat /\ Len(b) \in Nat
  BY SeqBasics
<1>2. SubSeq(a \o b, 1, k) = SubSeq(a, 1, k)
  BY <1>1, SubSeqOfConcat1 DEF Units
<1> QED
  BY <1>2 DEF Take, Cat

(* What is to be forwarded, in terms of what of the request is announced.  *)
LEMMA ForwardedIs ==
    ASSUME NEW x \in Exchanges
    PROVE  /\ Announced(x) \in Nat /\ x.req.hdr + Announced(x) <= Len(x.req.units)
           /\ IsUpgrade(x) => Forwarded(x) = InsertBefore(x.req.units, x.req.hdr, "F")
           /\ ~IsUpgrade(x) => Forwarded(x) = InsertBefore(Take(x.req.units, x.req.hdr + Announced(x)), x.req.hdr, "F")
<1> DEFINE length == proxy_parse_content_length(x.req.lines)
           n == Len(x.req.units)
           h == x.req.hdr
<1>1. x.req.units \in Units /\ n \in Nat /\ h \in 1 .. n
  BY MessageUnits, SeqBasics
<1>2. length \in Int /\ h + length <= n
  BY ContentLength, ExchangesAre
<1>3. Take(x.req.units, n) = x.req.units
  BY <1>1, CutAtEnds
<1>4. IsUpgrade(x) => Forwarded(x) = InsertBefore(Take(x.req.units, n), h, "F")
  BY DEF Forwarded, Take
<1>5. ~IsUpgrade(x) => Forwarded(x) = InsertBefore(Take(x.req.units, h + Announced(x)), h, "F")
  BY DEF Forwarded, Take, Announced
<1>6. Announced(x) = IF length > 0 THEN length ELSE 0
  BY DEF Announced
<1> HIDE DEF n, h, length
<1>7. Announced(x) \in Nat /\ h + Announced(x) <= n
  BY <1>1, <1>2, <1>6
<1> QED
  BY <1>3, <1>4, <1>5, <1>7 DEF n, h

Prepared(w, r) == [w EXCEPT !.p.state = "CONNECT", !.c.ev = "peerclose", !.p.req = r]
Prepares(w, v, r) ==
  /\ v \in Worlds(w.x) /\ v.x = w.x /\ SameSock(w.c, v.c) /\ SameSock(w.b, v.b) /\ (Held(w) => Held(v))
  /\ v.p.req = r /\ v.p.reqEnd = w.p.reqEnd /\ v.p.reqLines = w.p.reqLines /\ v.p.reqSize = w.p.reqSize
  /\ v.p.resSize = w.p.resSize /\ v.p.upgrade = w.p.upgrade /\ v.p.res = w.p.res
  /\ v.p.headerSent = w.p.headerSent /\ v.p.sendPos = w.p.sendPos

LEMMA PreparedIs ==
    ASSUME NEW w, w \in Worlds(w.x), NEW r \in Units
    PROVE  Prepares(w, Prepared(w, r), r)
<1> DEFINE v == Prepared(w, r)
           st == "CONNECT"
           e == "peerclose"
           p == w.p
           q == v.p
<1>1. p \in Proxy(w.x) /\ w.c \in Sock /\ w.b \in Sock
  BY WorldFields
<1>2. st \in States /\ e \in Events
  BY DEF States, Events
<1>3. q = [p EXCEPT !.state = st, !.req = r] /\ v.c = [w.c EXCEPT !.ev = e] /\ v.b = w.b /\ v.x = w.x
  BY DEF Worlds, Prepared
<1> HIDE DEF p, q, st, e
<1>4. /\ q \in Proxy(w.x) /\ q.req = r /\ q.reqEnd = p.reqEnd /\ q.reqLines = p.reqLines
      /\ q.reqSize = p.reqSize /\ q.resSize = p.resSize /\ q.upgrade = p.upgrade
      /\ q.res = p.res /\ q.headerSent = p.headerSent /\ q.sendPos = p.sendPos
  BY <1>1, <1>2, <1>3 DEF Proxy
<1>5. SameSock(w.c, v.c) /\ v.c.handle = w.c.handle /\ v.c.close = w.c.close
  BY <1>1, <1>2, <1>3, EvSame
<1>6. v \in Worlds(w.x)
  <2>1. v.c \in Sock
    BY <1>5 DEF SameSock
  <2> QED
    BY <1>1, <1>3, <1>4, <2>1 DEF Worlds, Prepared, q
<1>7. SameSock(w.b, v.b)
  BY <1>3, NoneChanged
<1> HIDE DEF v
<1>8. Prepares(w, v, r)
  BY <1>3, <1>4, <1>5, <1>6, <1>7 DEF Prepares, Held, p, q
<1> QED
  BY <1>8 DEF v

LEMMA ConnectedIs ==
    ASSUME NEW w, NEW u, NEW r \in Units, Prepares(w, u, r)
    PROVE  Prepares(w, proxy_connect_backend(u), r)
<1> DEFINE T == TRUE
           v == [u EXCEPT !.b.open = T]
<1>1. u \in Worlds(w.x) /\ u.p \in Proxy(w.x) /\ u.c \in Sock /\ u.b \in Sock /\ T \in BOOLEAN
  BY WorldFields DEF Prepares
<1>2. proxy_connect_backend(u) = v
  BY DEF proxy_connect_backend
<1>3. v.p = u.p /\ v.c = u.c /\ v.b = [u.b EXCEPT !.open = T] /\ v.x = u.x
  BY <1>1 DEF Worlds
<1> HIDE DEF T, v
<1>4. SameSock(u.b, v.b)
  BY <1>1, <1>3 DEF Sock, SameSock
<1>5. v \in Worlds(w.x)
  BY <1>1, <1>3, <1>4 DEF Worlds, SameSock, v
<1>6. Prepares(w, v, r)
  BY <1>3, <1>4, <1>5 DEF Prepares, Held, SameSock
<1> QED
  BY <1>2, <1>6

LEMMA PreparesBase ==
    ASSUME NEW w, NEW v, NEW r, Base(w), Prepares(w, v, r)
    PROVE  Base(v)
  BY DEF Base, Safe, SockOK, SameSock, Prepares

(* The lines that go to the backend.                                       *)
Lines(x) == IF IsUpgrade(x) THEN x.req.lines ELSE WithClose(x.req.lines)

LEMMA InjectedIs ==
    ASSUME NEW u, u \in Worlds(u.x), u.p.reqLines = u.x.req.lines, NEW r \in Units,
           r = InsertBefore(u.p.req, u.p.reqEnd, "F")
    PROVE  LET v == proxy_inject_forwarded_headers(u)
           IN  /\ v \in Worlds(u.x) /\ v.x = u.x /\ v.c = u.c /\ v.b = u.b
               /\ v.p.req = r /\ v.p.reqLines = Lines(u.x) /\ v.p.reqSize = u.p.reqSize
               /\ v.p.resSize = u.p.resSize /\ v.p.upgrade = u.p.upgrade /\ v.p.res = u.p.res
               /\ v.p.headerSent = u.p.headerSent /\ v.p.sendPos = u.p.sendPos
<1> DEFINE v == proxy_inject_forwarded_headers(u)
           p == u.p
           e == p.reqEnd + 1
           l == Lines(u.x)
           q == v.p
<1>1. p \in Proxy(u.x) /\ u.c \in Sock /\ u.b \in Sock /\ p.reqEnd \in Nat
  BY WorldFields, ProxyFields
<1>2. e \in Nat /\ l \in {u.x.req.lines, WithClose(u.x.req.lines)}
  BY <1>1 DEF Lines
<1>3. q = [p EXCEPT !.req = r, !.reqEnd = e, !.reqLines = l] /\ v.c = u.c /\ v.b = u.b /\ v.x = u.x
  BY DEF Worlds, proxy_inject_forwarded_headers, Lines, IsUpgrade
<1> HIDE DEF p, q, e, l
<1> DEFINE q1 == [p EXCEPT !.req = r, !.reqEnd = e]
<1>4. /\ q1 \in Proxy(u.x) /\ q1.req = r
      /\ q1.reqSize = p.reqSize /\ q1.resSize = p.resSize /\ q1.upgrade = p.upgrade
      /\ q1.res = p.res /\ q1.headerSent = p.headerSent /\ q1.sendPos = p.sendPos
  BY <1>1, <1>2 DEF Proxy
<1>5. q = [q1 EXCEPT !.reqLines = l]
  BY <1>3
<1> HIDE DEF q1
<1>6. /\ q \in Proxy(u.x) /\ q.req = q1.req /\ q.reqLines = l
      /\ q.reqSize = q1.reqSize /\ q.resSize = q1.resSize /\ q.upgrade = q1.upgrade
      /\ q.res = q1.res /\ q.headerSent = q1.headerSent /\ q.sendPos = q1.sendPos
  <2>1. q1 \in Proxy(u.x)
    BY <1>4
  <2> QED
    BY <1>2, <1>5, <2>1 DEF Proxy
<1>7. v \in Worlds(u.x)
  BY <1>1, <1>3, <1>6 DEF Worlds, proxy_inject_forwarded_headers, q
<1> HIDE DEF v
<1>8. /\ v \in Worlds(u.x) /\ v.x = u.x /\ v.c = u.c /\ v.b = u.b
      /\ v.p.req = r /\ v.p.reqLines = Lines(u.x) /\ v.p.reqSize = u.p.reqSize
      /\ v.p.resSize = u.p.resSize /\ v.p.upgrade = u.p.upgrade /\ v.p.res = u.p.res
      /\ v.p.headerSent = u.p.headerSent /\ v.p.sendPos = u.p.sendPos
  BY <1>3, <1>4, <1>6, <1>7 DEF p, q, l
<1> QED
  BY <1>8 DEF v

(* The bytes of the rewritten request.                                     *)
LEMMA RequestBytes ==
    ASSUME NEW x \in Exchanges, NEW req \in Units, NEW rest \in Units, Cat(req, rest) = x.req.units,
           NEW cut, x.req.hdr + Announced(x) <= Len(req),
           cut = IF IsUpgrade(x) THEN req ELSE Take(req, x.req.hdr + Announced(x))
    PROVE  LET r == InsertBefore(cut, x.req.hdr, "F")
           IN  /\ cut \in Units /\ r \in Units
               /\ IsUpgrade(x) => Cat(r, rest) = Forwarded(x)
               /\ ~IsUpgrade(x) => r = Forwarded(x)
<1> DEFINE h == x.req.hdr
           want == h + Announced(x)
           F == "F"
<1>1. F \in Alphabet
  BY DEF Alphabet
<1>2. h \in 1 .. Len(x.req.units) /\ Len(x.req.units) \in Nat /\ Len(req) \in Nat
  BY MessageUnits, SeqBasics
<1>3. /\ Announced(x) \in Nat
      /\ IsUpgrade(x) => Forwarded(x) = InsertBefore(x.req.units, h, F)
      /\ ~IsUpgrade(x) => Forwarded(x) = InsertBefore(Take(x.req.units, want), h, F)
  BY ForwardedIs
<1> HIDE DEF F
<1>4. want \in Nat /\ want \in 0 .. Len(req) /\ h \in 1 .. want /\ h \in 1 .. Len(req)
  BY <1>2, <1>3
<1>5. CASE IsUpgrade(x)
  <2>1. InsertBefore(req, h, F) \in Units /\ InsertBefore(Cat(req, rest), h, F) = Cat(InsertBefore(req, h, F), rest)
    <3> HIDE DEF h
    <3> QED
      BY <1>1, <1>4, Inserting
  <2> QED
    BY <1>3, <1>5, <2>1 DEF F
<1>6. CASE ~IsUpgrade(x)
  <2> HIDE DEF want, h
  <2>1. Take(req, want) \in Units /\ Len(Take(req, want)) = want
    BY <1>4, Cutting
  <2>2. cut = Take(req, want)
    BY <1>6 DEF want, h
  <2>3. Take(x.req.units, want) = cut
    BY <1>4, <2>2, TakeOfCat
  <2>4. InsertBefore(cut, h, F) \in Units
    <3>1. cut \in Units /\ h \in 1 .. Len(cut)
      BY <1>4, <2>1, <2>2
    <3> QED
      BY <1>1, <3>1, Inserting
  <2> QED
    BY <1>3, <1>6, <2>1, <2>2, <2>3, <2>4 DEF F, h
<1> QED
  BY <1>5, <1>6

LEMMA ConnectBackendOK ==
    ASSUME NEW w, Base(w), Held(w), Collects(w), HasHeader(w), Len(w.p.req) - w.p.reqEnd >= w.p.reqLength, NEW outcome
    PROVE  BytesOK(ConnectBackend(w, outcome))
<1> DEFINE x == w.x
           req == w.p.req
           rest == Coming(w.c)
           want == w.p.reqEnd + w.p.reqLength
           cut == IF IsUpgrade(x) THEN req ELSE Take(req, want)
           a == Prepared(w, cut)
           b == proxy_connect_backend(a)
           v == proxy_inject_forwarded_headers(b)
           r == InsertBefore(cut, x.req.hdr, "F")
<1>1. /\ w \in Worlds(w.x) /\ x \in Exchanges /\ req \in Units /\ Len(req) \in Nat /\ rest \in Units
      /\ w.p.reqEnd \in Nat /\ w.p.reqLength \in Nat
  BY WorldFields, ProxyFields, SockFields DEF Base
<1>2. want <= Len(req) /\ want = x.req.hdr + Announced(x) /\ w.p.reqEnd = x.req.hdr
  BY <1>1 DEF HasHeader
<1>3. /\ Cat(req, rest) = x.req.units /\ w.b.got = <<>> /\ w.c.got = <<>> /\ w.p.reqLines = x.req.lines
      /\ w.p.sendPos = 0 /\ w.p.res = <<>> /\ Unanswered(w)
  BY DEF Collects, Unanswered
<1>4. /\ cut \in Units /\ r \in Units
      /\ IsUpgrade(x) => Cat(r, rest) = Forwarded(x)
      /\ ~IsUpgrade(x) => r = Forwarded(x)
  <2> HIDE DEF req, rest, x
  <2> QED
    BY <1>1, <1>2, <1>3, RequestBytes
<1>5. Least(Len(req), want) = want
  BY <1>1, <1>2 DEF Least
<1>6. ConnectBackend(w, outcome) = IF outcome = "fail" THEN Fail(a) ELSE IF outcome = "nomem" THEN Fail(b)
                                   ELSE SendToBackend(v, outcome)
  <2>1. cut = IF proxy_request_is_upgrade(w.x.req.lines) THEN w.p.req
              ELSE SubSeq(w.p.req, 1, Least(Len(w.p.req), w.p.reqEnd + w.p.reqLength))
    BY <1>5 DEF IsUpgrade, Take
  <2> HIDE DEF cut
  <2> QED
    BY <2>1 DEF ConnectBackend, Prepared
<1> HIDE DEF cut, r
<1>7. Prepares(w, a, cut)
  BY <1>1, <1>4, PreparedIs
<1> HIDE DEF a
<1>8. Prepares(w, b, cut)
  BY <1>4, <1>7, ConnectedIs
<1> HIDE DEF b
<1>9. Base(a) /\ Base(b) /\ a.c.got = <<>> /\ b.c.got = <<>>
  BY <1>3, <1>7, <1>8, PreparesBase DEF Prepares, SameSock
<1>10. BytesOK(Fail(a)) /\ BytesOK(Fail(b))
  BY <1>9, FailOK
<1>11. b \in Worlds(b.x) /\ b.x = w.x /\ b.p.reqLines = b.x.req.lines /\ r = InsertBefore(b.p.req, b.p.reqEnd, "F")
  BY <1>2, <1>3, <1>8 DEF Prepares, r
<1>12. /\ v \in Worlds(b.x) /\ v.x = b.x /\ v.c = b.c /\ v.b = b.b
       /\ v.p.req = r /\ v.p.reqLines = Lines(b.x) /\ v.p.reqSize = b.p.reqSize
       /\ v.p.resSize = b.p.resSize /\ v.p.upgrade = b.p.upgrade /\ v.p.res = b.p.res
       /\ v.p.headerSent = b.p.headerSent /\ v.p.sendPos = b.p.sendPos
  BY <1>4, <1>11, InjectedIs
<1> HIDE DEF v, x
<1>13. v.b.got = <<>> /\ Coming(v.c) = rest /\ v.p.sendPos = 0 /\ v.x = w.x
  BY <1>3, <1>8, <1>11, <1>12 DEF Prepares, SameSock, Coming
<1>14. Base(v) /\ Held(v)
  <2>1. IsPrefixOf(v.b.got, Forwarded(v.x)) /\ (IsPrefixOf(v.c.got, Whole(v.x)) \/ v.c.got \in ErrorPages)
    BY <1>9, <1>12 DEF Base, Safe
  <2>2. Safe(v)
    BY <1>13, <2>1 DEF Safe
  <2>3. Held(v)
    BY <1>8, <1>12 DEF Prepares, Held
  <2> QED
    BY <1>9, <1>12, <2>2, <2>3 DEF Base
<1>15. Unanswered(v) /\ v.p.res = <<>>
  BY <1>3, <1>8, <1>12 DEF Unanswered, Prepares, SameSock, Coming
<1>16. Drop(v.p.req, v.p.sendPos) = r
  BY <1>4, <1>12, <1>13, CutAtEnds
<1>17. Passing(v, r)
  <2>1. Cat(<<>>, r) = r
    BY <1>4, CatBasics
  <2> QED
    BY <1>4, <1>13, <2>1 DEF Passing, x
<1>18. v.p.sendPos <= Len(v.p.req)
  <2>1. Len(r) \in Nat
    BY <1>4, SeqBasics
  <2> QED
    BY <1>12, <1>13, <2>1
<1>19. IsUpgrade(v.x) \/ v.p.reqLines = WithClose(v.x.req.lines)
  BY <1>12 DEF Lines
<1>20. Sends(v)
  BY <1>15, <1>16, <1>17, <1>18, <1>19 DEF Sends
<1>21. BytesOK(SendToBackend(v, outcome))
  BY <1>14, <1>20, SendToBackendOK
<1> QED
  BY <1>6, <1>10, <1>21
---------------------------------------------------------------------------
(* The request is being collected.                                         *)

(* v is w with the header's end and the body's length found.               *)
Grows(w, v) ==
  /\ v \in Worlds(w.x) /\ v.x = w.x /\ v.c = w.c /\ v.b = w.b
  /\ v.p.req = w.p.req /\ v.p.reqLines = w.p.reqLines /\ v.p.reqSize >= w.p.reqSize
  /\ v.p.resSize = w.p.resSize /\ v.p.upgrade = w.p.upgrade /\ v.p.res = w.p.res
  /\ v.p.headerSent = w.p.headerSent /\ v.p.sendPos = w.p.sendPos

LEMMA GrowsKeeps ==
    ASSUME NEW w, NEW v, Base(w), Held(w), Collects(w), Grows(w, v)
    PROVE  Base(v) /\ Held(v) /\ Collects(v) /\ v.c.got = <<>>
<1>1. /\ w.p.reqSize \in Nat /\ Len(w.p.req) \in Nat /\ Len(w.p.req) <= w.p.reqSize
      /\ v.p.reqSize \in Nat /\ BufferSize \in Nat
  BY WorldFields, ProxyFields, Sizes DEF Base, Grows, Collects
<1>2. v.p.reqSize >= w.p.reqSize /\ w.p.reqSize >= BufferSize
  BY DEF Grows, Base
<1>3. Len(v.p.req) <= v.p.reqSize /\ v.p.reqSize >= BufferSize
  <2>1. v.p.req = w.p.req
    BY DEF Grows
  <2> QED
    BY <1>1, <1>2, <2>1
<1>4. Unanswered(v) /\ v.c.got = <<>>
  BY DEF Grows, Collects, Unanswered
<1>5. Collects(v)
  BY <1>3, <1>4 DEF Grows, Collects
<1>6. Base(v)
  BY <1>3 DEF Grows, Base, Safe
<1>7. Held(v)
  BY DEF Grows, Held
<1> QED
  BY <1>4, <1>5, <1>6, <1>7

LEMMA EndNoted ==
    ASSUME NEW w, w \in Worlds(w.x), NEW e \in Nat
    PROVE  Grows(w, [w EXCEPT !.p.reqEnd = e])
<1> DEFINE v == [w EXCEPT !.p.reqEnd = e]
           p == w.p
           q == v.p
<1>1. p \in Proxy(w.x) /\ w.c \in Sock /\ w.b \in Sock /\ p.reqSize \in Nat
  BY WorldFields, ProxyFields
<1>2. q = [p EXCEPT !.reqEnd = e] /\ v.c = w.c /\ v.b = w.b /\ v.x = w.x
  BY DEF Worlds
<1> HIDE DEF v, p, q
<1>3. /\ q \in Proxy(w.x) /\ q.req = p.req /\ q.reqLines = p.reqLines /\ q.reqSize = p.reqSize
      /\ q.resSize = p.resSize /\ q.upgrade = p.upgrade /\ q.res = p.res
      /\ q.headerSent = p.headerSent /\ q.sendPos = p.sendPos
  BY <1>1, <1>2 DEF Proxy
<1>4. v \in Worlds(w.x)
  BY <1>1, <1>2, <1>3 DEF Worlds, v, q
<1>5. q.reqSize >= p.reqSize
  BY <1>1, <1>3
<1>6. Grows(w, v)
  BY <1>2, <1>3, <1>4, <1>5 DEF Grows, p, q
<1> QED
  BY <1>6 DEF v

LEMMA LengthNoted ==
    ASSUME NEW w, w \in Worlds(w.x), NEW e \in Nat, NEW l \in Nat
    PROVE  LET v == [w EXCEPT !.p.reqEnd = e, !.p.reqLength = l]
           IN  Grows(w, v) /\ v.p.reqEnd = e /\ v.p.reqLength = l /\ v.p.reqSize = w.p.reqSize
<1> DEFINE v == [w EXCEPT !.p.reqEnd = e, !.p.reqLength = l]
           p == w.p
           q == v.p
<1>1. p \in Proxy(w.x) /\ w.c \in Sock /\ w.b \in Sock /\ p.reqSize \in Nat
  BY WorldFields, ProxyFields
<1>2. q = [p EXCEPT !.reqEnd = e, !.reqLength = l] /\ v.c = w.c /\ v.b = w.b /\ v.x = w.x
  BY DEF Worlds
<1> HIDE DEF v, p, q
<1>3. /\ q \in Proxy(w.x) /\ q.req = p.req /\ q.reqLines = p.reqLines /\ q.reqSize = p.reqSize
      /\ q.resSize = p.resSize /\ q.upgrade = p.upgrade /\ q.res = p.res /\ q.reqEnd = e /\ q.reqLength = l
      /\ q.headerSent = p.headerSent /\ q.sendPos = p.sendPos
  BY <1>1, <1>2 DEF Proxy
<1>4. v \in Worlds(w.x)
  BY <1>1, <1>2, <1>3 DEF Worlds, v, q
<1>5. q.reqSize >= p.reqSize
  BY <1>1, <1>3
<1>6. Grows(w, v) /\ v.p.reqEnd = e /\ v.p.reqLength = l /\ v.p.reqSize = w.p.reqSize
  BY <1>2, <1>3, <1>4, <1>5 DEF Grows, p, q
<1> QED
  BY <1>6 DEF v

LEMMA BufferGrown ==
    ASSUME NEW w, w \in Worlds(w.x), NEW z \in Nat, z >= w.p.reqSize
    PROVE  LET v == [w EXCEPT !.p.reqSize = z]
           IN  Grows(w, v) /\ v.p.reqEnd = w.p.reqEnd /\ v.p.reqLength = w.p.reqLength
<1> DEFINE v == [w EXCEPT !.p.reqSize = z]
           p == w.p
           q == v.p
<1>1. p \in Proxy(w.x) /\ w.c \in Sock /\ w.b \in Sock
  BY WorldFields
<1>2. q = [p EXCEPT !.reqSize = z] /\ v.c = w.c /\ v.b = w.b /\ v.x = w.x
  BY DEF Worlds
<1>3. z >= p.reqSize
  OBVIOUS
<1> HIDE DEF v, p, q
<1>4. /\ q \in Proxy(w.x) /\ q.req = p.req /\ q.reqLines = p.reqLines /\ q.reqSize = z
      /\ q.resSize = p.resSize /\ q.upgrade = p.upgrade /\ q.res = p.res /\ q.reqEnd = p.reqEnd
      /\ q.reqLength = p.reqLength /\ q.headerSent = p.headerSent /\ q.sendPos = p.sendPos
  BY <1>1, <1>2 DEF Proxy
<1>5. v \in Worlds(w.x)
  BY <1>1, <1>2, <1>4 DEF Worlds, v, q
<1>6. Grows(w, v) /\ v.p.reqEnd = w.p.reqEnd /\ v.p.reqLength = w.p.reqLength
  BY <1>2, <1>3, <1>4, <1>5 DEF Grows, p, q
<1> QED
  BY <1>6 DEF v

LEMMA Codes ==
    \A code \in {"400", "411", "413", "431", "502"} : code \in Alphabet /\ <<code>> \in ErrorPages
  BY DEF Alphabet, ErrorPages

LEMMA RecvClientBodyOK ==
    ASSUME NEW w, Base(w), Held(w), Collects(w), HasHeader(w), In(w, "RECV_REQ_BODY"), NEW outcome
    PROVE  BytesOK(RecvClientBody(w, outcome))
<1>1. BytesOK(Reject(w, "413"))
  <2> DEFINE code == "413"
  <2>1. code \in Alphabet /\ <<code>> \in ErrorPages
    BY Codes
  <2>2. w.c.got = <<>>
    BY DEF Collects, Unanswered
  <2> HIDE DEF code
  <2>3. BytesOK(Reject(w, code))
    BY <2>1, <2>2, RejectOK
  <2> QED
    BY <2>3 DEF code
<1>2. BytesOK(w)
  BY DEF BytesOK, InState, In
<1> QED
  BY <1>1, <1>2, ConnectBackendOK DEF RecvClientBody

(* The header's end in what has been collected so far.                     *)
LEMMA RequestHeader ==
    ASSUME NEW w, Base(w), Collects(w)
    PROVE  LET end == proxy_find_header_end(w.p.req)
           IN  /\ end \in Nat
               /\ end # 0 => end = w.x.req.hdr /\ end <= Len(w.p.req)
<1> DEFINE req == w.p.req
           rest == Coming(w.c)
           m == w.x.req.units
           h == w.x.req.hdr
<1>1. w.x \in Exchanges /\ req \in Units /\ rest \in Units /\ Cat(req, rest) = m
  BY WorldFields, ProxyFields, SockFields DEF Base, Collects
<1>2. m \in Units /\ h \in 1 .. Len(m) /\ \A i \in 1 .. h : m[i] = "H" <=> i = h
  BY <1>1, MessageUnits
<1> HIDE DEF rest, m, h, req
<1>3. \/ proxy_find_header_end(req) = 0 /\ Len(req) < h
      \/ proxy_find_header_end(req) = h /\ h <= Len(req)
  BY <1>1, <1>2, FirstHeader
<1>4. h \in Nat
  BY <1>2
<1> QED
  BY <1>3, <1>4 DEF req, h

LEMMA RecvClientHeaderOK ==
    ASSUME NEW w, Base(w), Held(w), Collects(w), In(w, "RECV_REQ_HEADER"), NEW outcome
    PROVE  BytesOK(RecvClientHeader(w, outcome))
<1> DEFINE end == proxy_find_header_end(w.p.req)
           length == proxy_parse_content_length(w.x.req.lines)
           te == proxy_check_transfer_encoding(w.x.req.lines)
           needed == Least(end + length + 1, BodyCap)
           l == IF length > 0 THEN length ELSE 0
           w1 == [w EXCEPT !.p.reqEnd = end, !.p.reqLength = l]
           z == IF needed > w1.p.reqSize THEN needed ELSE w1.p.reqSize
           w2 == [w1 EXCEPT !.p.reqSize = z]
           w3 == [w2 EXCEPT !.p.state = "RECV_REQ_BODY"]
           u == [w EXCEPT !.p.reqEnd = end]
<1>1. RecvClientHeader(w, outcome) =
        IF end > MaxHeader \/ (end = 0 /\ Len(w.p.req) > MaxHeader) THEN Reject(w, "431")
        ELSE IF end = 0 THEN w
        ELSE IF (length >= 0 /\ te # "none") \/ te = "other" \/ length = Invalid THEN Reject(u, "400")
        ELSE IF te = "chunked" THEN Reject(u, "411")
        ELSE IF length <= 0 THEN ConnectBackend(w1, outcome)
        ELSE IF needed > w.p.reqSize /\ outcome = "nomem" THEN Fail(w1)
        ELSE IF Len(w.p.req) - end < length THEN w3
        ELSE ConnectBackend(w2, outcome)
  BY DEF RecvClientHeader
<1>2. w \in Worlds(w.x) /\ w.p.reqSize \in Nat /\ Len(w.p.req) \in Nat /\ w.c.got = <<>>
  BY WorldFields, ProxyFields DEF Base, Collects, Unanswered
<1>3. end \in Nat /\ (end # 0 => end = w.x.req.hdr /\ end <= Len(w.p.req))
  BY RequestHeader
<1>4. length \in Int /\ Announced(w.x) = l
  BY ContentLength DEF Announced
<1> HIDE DEF end, length, te
<1>5. l \in Nat /\ (length <= 0 => l = 0) /\ (length > 0 => l = length)
  BY <1>4
<1> HIDE DEF l
<1>6. Grows(w, w1) /\ w1.p.reqEnd = end /\ w1.p.reqLength = l /\ w1.p.reqSize = w.p.reqSize
  BY <1>2, <1>3, <1>5, LengthNoted, ZenonT(60)
<1>7. Grows(w, u)
  BY <1>2, <1>3, EndNoted
<1> HIDE DEF w1, u
<1>8. /\ Base(w1) /\ Held(w1) /\ Collects(w1) /\ w1.c.got = <<>> /\ Base(u) /\ u.c.got = <<>>
      /\ w1.p.req = w.p.req /\ w1.x = w.x
  BY <1>6, <1>7, GrowsKeeps DEF Grows
<1>9. BytesOK(Reject(w, "431"))
  <2> DEFINE code == "431"
  <2>1. code \in Alphabet /\ <<code>> \in ErrorPages
    BY Codes
  <2> HIDE DEF code
  <2>2. BytesOK(Reject(w, code))
    BY <1>2, <2>1, RejectOK
  <2> QED
    BY <2>2 DEF code
<1>10. BytesOK(Reject(u, "400"))
  <2> DEFINE code == "400"
  <2>1. code \in Alphabet /\ <<code>> \in ErrorPages
    BY Codes
  <2> HIDE DEF code
  <2>2. BytesOK(Reject(u, code))
    BY <1>8, <2>1, RejectOK
  <2> QED
    BY <2>2 DEF code
<1>11. BytesOK(Reject(u, "411"))
  <2> DEFINE code == "411"
  <2>1. code \in Alphabet /\ <<code>> \in ErrorPages
    BY Codes
  <2> HIDE DEF code
  <2>2. BytesOK(Reject(u, code))
    BY <1>8, <2>1, RejectOK
  <2> QED
    BY <2>2 DEF code
<1>12. BytesOK(w)
  BY DEF BytesOK, InState, In
<1>13. BytesOK(Fail(w1))
  BY <1>8, FailOK
<1>14. end # 0 => HasHeader(w1)
  BY <1>3, <1>4, <1>6, <1>8 DEF HasHeader
<1>15. end # 0 /\ length <= 0 => BytesOK(ConnectBackend(w1, outcome))
  <2> SUFFICES ASSUME end # 0, length <= 0 PROVE BytesOK(ConnectBackend(w1, outcome))
    OBVIOUS
  <2>1. Len(w1.p.req) - w1.p.reqEnd >= w1.p.reqLength
    BY <1>2, <1>3, <1>5, <1>6, <1>8
  <2> QED
    BY <1>8, <1>14, <2>1, ConnectBackendOK
<1>16. z \in Nat /\ z >= w1.p.reqSize
  <2>1. needed \in Int
    BY <1>3, <1>4, Sizes DEF Least
  <2> HIDE DEF needed
  <2> QED
    BY <1>2, <1>6, <2>1
<1>17. w1 \in Worlds(w1.x)
  BY <1>8 DEF Base
<1> HIDE DEF z
<1>18. Grows(w1, w2) /\ w2.p.reqEnd = w1.p.reqEnd /\ w2.p.reqLength = w1.p.reqLength
  BY <1>16, <1>17, BufferGrown
<1> HIDE DEF w2
<1>19. Base(w2) /\ Held(w2) /\ Collects(w2) /\ w2.p.req = w.p.req /\ w2.x = w.x
  BY <1>8, <1>18, GrowsKeeps DEF Grows
<1>20. end # 0 => HasHeader(w2)
  BY <1>3, <1>4, <1>6, <1>18, <1>19 DEF HasHeader
<1>21. end # 0 /\ length > 0 /\ ~(Len(w.p.req) - end < length) => BytesOK(ConnectBackend(w2, outcome))
  <2> SUFFICES ASSUME end # 0, length > 0, ~(Len(w.p.req) - end < length)
               PROVE BytesOK(ConnectBackend(w2, outcome))
    OBVIOUS
  <2>1. Len(w2.p.req) - w2.p.reqEnd >= w2.p.reqLength
    BY <1>2, <1>3, <1>4, <1>5, <1>6, <1>18, <1>19
  <2> QED
    BY <1>19, <1>20, <2>1, ConnectBackendOK
<1>22. end # 0 => BytesOK(w3)
  <2> SUFFICES ASSUME end # 0 PROVE BytesOK(w3)
    OBVIOUS
  <2> DEFINE st == "RECV_REQ_BODY"
             v == [w2 EXCEPT !.p.state = st]
  <2>1. w2 \in Worlds(w2.x) /\ st \in States
    BY <1>19 DEF Base, States
  <2> HIDE DEF st
  <2>2. Still(w2, v) /\ v.p.state = st /\ Held(v)
    BY <1>19, <2>1, StateStill
  <2> HIDE DEF v
  <2>3. Base(v) /\ Collects(v) /\ HasHeader(v)
    BY <1>19, <1>20, <2>2, StillKeeps
  <2>4. In(v, "RECV_REQ_BODY")
    BY <2>2 DEF In, st
  <2>5. BytesOK(v)
    BY <2>2, <2>3, <2>4 DEF BytesOK, InState, In
  <2> QED
    BY <2>5 DEF v, st
<1> HIDE DEF needed, w3
<1>23. length <= 0 \/ length > 0
  BY <1>4
<1> QED
  BY <1>1, <1>9, <1>10, <1>11, <1>12, <1>13, <1>15, <1>21, <1>22, <1>23

(* What the state of the proxy says.                                       *)
LEMMA ByState ==
    ASSUME NEW w, BytesOK(w)
    PROVE  /\ Base(w)
           /\ w.p.state \notin {"IDLE", "RELEASED"} => Held(w)
           /\ w.p.state = "IDLE" => Collects(w) /\ w.p.req = <<>>
           /\ w.p.state = "RECV_REQ_HEADER" => Collects(w) /\ In(w, "RECV_REQ_HEADER")
           /\ w.p.state = "RECV_REQ_BODY" => Collects(w) /\ HasHeader(w) /\ In(w, "RECV_REQ_BODY")
           /\ w.p.state = "SEND" => Sends(w)
           /\ w.p.state = "RECV_RES_HEADER" => Awaits(w) /\ In(w, "RECV_RES_HEADER")
           /\ w.p.state \in {"STREAMING", "WAIT_WRITE"} => Streams(w)
           /\ w.p.state = "STREAMING" => Begun(w)
           /\ w.p.state = "TUNNEL" => Tunnels(w) /\ In(w, "TUNNEL")
  BY DEF BytesOK, InState, In, Begun

LEMMA ProcessOK ==
    ASSUME NEW w, BytesOK(w), NEW outcome
    PROVE  BytesOK(proxy_process_state(w, outcome))
<1>1. CASE w.p.state = "RECV_REQ_HEADER"
  BY <1>1, ByState, RecvClientHeaderOK DEF proxy_process_state
<1>2. CASE w.p.state = "RECV_REQ_BODY"
  BY <1>2, ByState, RecvClientBodyOK DEF proxy_process_state
<1>3. CASE w.p.state = "SEND"
  BY <1>3, ByState, SendToBackendOK DEF proxy_process_state
<1>4. CASE w.p.state = "RECV_RES_HEADER"
  BY <1>4, ByState, RecvBackendHeaderOK DEF proxy_process_state
<1>5. CASE w.p.state = "STREAMING"
  BY <1>5, ByState, StreamingOK DEF proxy_process_state
<1>6. CASE w.p.state \notin {"RECV_REQ_HEADER", "RECV_REQ_BODY", "SEND", "RECV_RES_HEADER", "STREAMING"}
  BY <1>6 DEF proxy_process_state
<1> QED
  BY <1>1, <1>2, <1>3, <1>4, <1>5, <1>6
---------------------------------------------------------------------------
(* No step of the proxy touches the exchange.                              *)
Of(w, x) == "x" \in DOMAIN w /\ w.x = x

LEMMA FinishOf ==
    ASSUME NEW x, NEW w, Of(w, x), NEW st
    PROVE  Of(Finish(w, st), x)
  BY DEF Of, Finish, proxy_shutdown_client

LEMMA PageOf ==
    ASSUME NEW x, NEW w, Of(w, x), NEW code
    PROVE  Of(proxy_send_error_response(w, code), x)
  BY DEF Of, proxy_send_error_response

LEMMA FailOf ==
    ASSUME NEW x, NEW w, Of(w, x)
    PROVE  Of(Fail(w), x) /\ Of(Done(w), x)
  BY FinishOf, PageOf DEF Fail, Done

LEMMA RejectOf ==
    ASSUME NEW x, NEW w, Of(w, x), NEW code
    PROVE  Of(Reject(w, code), x)
<1> DEFINE u == proxy_send_error_response(w, code)
           v == [u EXCEPT !.p.headerSent = TRUE]
<1>1. Of(u, x)
  BY PageOf
<1> HIDE DEF u
<1>2. Of(v, x)
  BY <1>1 DEF Of
<1> HIDE DEF v
<1>3. Of(Fail(v), x)
  BY <1>2, FailOf
<1> QED
  BY <1>3 DEF Reject, u, v

LEMMA TunnelOf ==
    ASSUME NEW x, NEW w, Of(w, x)
    PROVE  /\ Of(proxy_tunnel_update_events(w), x)
           /\ Of(proxy_tunnel_flush_b2c(w), x) /\ Of(proxy_tunnel_flush_c2b(w), x)
<1>1. Of(proxy_tunnel_update_events(w), x)
  BY DEF Of, proxy_tunnel_update_events
<1>2. Of(proxy_tunnel_flush_b2c(w), x)
  BY DEF Of, proxy_tunnel_flush_b2c
<1>3. Of(proxy_tunnel_flush_c2b(w), x)
  BY DEF Of, proxy_tunnel_flush_c2b
<1> QED
  BY <1>1, <1>2, <1>3

LEMMA EnterTunnelOf ==
    ASSUME NEW x, NEW w, Of(w, x)
    PROVE  Of(EnterTunnel(w), x)
<1> DEFINE v == [w EXCEPT !.p.state = "TUNNEL", !.p.c2b = <<>>,
                          !.p.b2c = SubSeq(w.p.res, w.p.sendPos + 1, Len(w.p.res))]
<1>1. Of(v, x)
  BY DEF Of
<1>2. EnterTunnel(w) \in {Fail(v), proxy_tunnel_update_events(proxy_tunnel_flush_b2c(v))}
  BY DEF EnterTunnel
<1> HIDE DEF v
<1> QED
  BY <1>1, <1>2, FailOf, TunnelOf

LEMMA WaitWriteOf ==
    ASSUME NEW x, NEW w, Of(w, x)
    PROVE  Of(WaitWrite(w), x)
  BY DEF Of, WaitWrite

LEMMA StreamBodyOf ==
    ASSUME NEW x, NEW w, Of(w, x)
    PROVE  Of(StreamBody(w), x)
<1> DEFINE rest == SubSeq(w.p.res, w.p.sendPos + 1, Len(w.p.res))
           n == BytesSent(w.c, rest)
           v == [w EXCEPT !.c = Send(@, rest), !.p.sendPos = @ + n, !.p.bodySent = @ + n]
           u == [v EXCEPT !.p.res = <<>>, !.p.sendPos = 0]
<1>1. StreamBody(w) \in {Fail(w), WaitWrite(v), EndIfComplete(u)}
  BY DEF StreamBody
<1>2. Of(v, x)
  BY DEF Of
<1> HIDE DEF v
<1>3. Of(u, x)
  BY <1>2 DEF Of
<1> HIDE DEF u
<1> QED
  BY <1>1, <1>2, <1>3, FailOf, WaitWriteOf DEF EndIfComplete

LEMMA StreamingOf ==
    ASSUME NEW x, NEW w, Of(w, x)
    PROVE  Of(Streaming(w), x)
<1> DEFINE rest == SubSeq(w.p.res, w.p.sendPos + 1, w.p.resEnd)
           v == [w EXCEPT !.p.state = "STREAMING"]
           n == BytesSent(v.c, rest)
           u == [v EXCEPT !.c = Send(@, rest), !.p.sendPos = @ + n]
           t == [u EXCEPT !.p.headerSent = TRUE]
<1>1. Streaming(w) \in {StreamBody(v), Fail(v), HeaderSent(u, n, rest)}
  BY DEF Streaming, StreamFrom
<1>2. HeaderSent(u, n, rest) \in {WaitWrite(u), EnterTunnel(t), StreamBody(t)}
  BY DEF HeaderSent
<1>3. Of(v, x)
  BY DEF Of
<1> HIDE DEF v
<1>4. Of(u, x)
  BY <1>3 DEF Of
<1> HIDE DEF u
<1>5. Of(t, x)
  BY <1>4 DEF Of
<1> HIDE DEF t, n
<1> QED
  BY <1>1, <1>2, <1>3, <1>4, <1>5, FailOf, WaitWriteOf, EnterTunnelOf, StreamBodyOf

LEMMA AnswerOf ==
    ASSUME NEW x, NEW w, Of(w, x), NEW e, NEW body, NEW length
    PROVE  /\ Of(proxy_inject_connection_close(w, e), x)
           /\ Of(BeginBody(w, body, length), x) /\ Of(PauseIfWhole(w, body), x)
<1>1. Of(proxy_inject_connection_close(w, e), x)
  BY DEF Of, proxy_inject_connection_close
<1>2. Of(BeginBody(w, body, length), x)
  BY DEF Of, BeginBody
<1>3. Of(PauseIfWhole(w, body), x)
  BY DEF Of, PauseIfWhole
<1> QED
  BY <1>1, <1>2, <1>3

LEMMA RewrittenOf ==
    ASSUME NEW x, NEW w, Of(w, x), NEW v, Of(v, x), NEW length, NEW outcome
    PROVE  Of(HeaderRewritten(w, v, length, outcome), x)
<1> DEFINE body == SubSeq(v.p.res, v.p.resEnd + 1, Len(v.p.res))
           u == BeginBody(v, body, length)
           t == PauseIfWhole(u, body)
<1>1. HeaderRewritten(w, v, length, outcome) \in {Fail(w), Fail(v), Streaming(t)}
  BY DEF HeaderRewritten
<1> HIDE DEF body
<1>2. Of(u, x)
  BY AnswerOf
<1> HIDE DEF u
<1>3. Of(t, x)
  BY <1>2, AnswerOf
<1> HIDE DEF t
<1> QED
  BY <1>1, <1>3, FailOf, StreamingOf

LEMMA RecvBackendHeaderOf ==
    ASSUME NEW x, NEW w, Of(w, x), NEW outcome
    PROVE  Of(RecvBackendHeader(w, outcome), x)
<1> DEFINE e == proxy_find_header_end(w.p.res)
           v == [w EXCEPT !.p.resEnd = e]
           u == [v EXCEPT !.p.upgrade = TRUE]
           i == proxy_inject_connection_close(w, e)
           l == proxy_parse_content_length(w.x.res.lines)
<1>1. RecvBackendHeader(w, outcome) \in {w, Streaming(u), Fail(v), HeaderRewritten(v, i, l, outcome)}
  BY DEF RecvBackendHeader
<1> HIDE DEF e, l
<1>2. Of(v, x)
  BY DEF Of
<1> HIDE DEF v
<1>3. Of(u, x)
  BY <1>2 DEF Of
<1> HIDE DEF u
<1>4. Of(i, x)
  BY AnswerOf
<1> HIDE DEF i
<1> QED
  BY <1>1, <1>2, <1>3, <1>4, FailOf, StreamingOf, RewrittenOf

LEMMA SendToBackendOf ==
    ASSUME NEW x, NEW w, Of(w, x), NEW outcome
    PROVE  Of(SendToBackend(w, outcome), x)
<1> DEFINE rest == SubSeq(w.p.req, w.p.sendPos + 1, Len(w.p.req))
           n == BytesSent(w.b, rest)
           v == [w EXCEPT !.p.state = "SEND", !.b = Send(@, rest), !.b.handle = TRUE, !.p.sendPos = @ + n]
           a == [w EXCEPT !.p.state = "SEND"]
           b == [w EXCEPT !.b.handle = TRUE]
           c == [v EXCEPT !.b.ev = "write"]
           d == [v EXCEPT !.p.sendPos = 0, !.p.state = "RECV_RES_HEADER", !.b.ev = "read"]
<1>1. SendToBackend(w, outcome) \in {Fail(a), Fail(b), c, d}
  BY DEF SendToBackend
<1>2. Of(v, x) /\ Of(a, x) /\ Of(b, x)
  BY DEF Of
<1> HIDE DEF v, a, b
<1>3. Of(c, x) /\ Of(d, x)
  BY <1>2 DEF Of
<1> HIDE DEF c, d
<1> QED
  BY <1>1, <1>2, <1>3, FailOf

LEMMA ConnectBackendOf ==
    ASSUME NEW x, NEW w, Of(w, x), NEW outcome
    PROVE  Of(ConnectBackend(w, outcome), x)
<1> DEFINE r == IF proxy_request_is_upgrade(w.x.req.lines) THEN w.p.req
                ELSE SubSeq(w.p.req, 1, Least(Len(w.p.req), w.p.reqEnd + w.p.reqLength))
           a == [w EXCEPT !.p.state = "CONNECT", !.c.ev = "peerclose", !.p.req = r]
           b == proxy_connect_backend(a)
           c == proxy_inject_forwarded_headers(b)
<1>1. ConnectBackend(w, outcome) \in {Fail(a), Fail(b), SendToBackend(c, outcome)}
  BY DEF ConnectBackend
<1> HIDE DEF r
<1>2. Of(a, x)
  BY DEF Of
<1> HIDE DEF a
<1>3. Of(b, x)
  BY <1>2 DEF Of, proxy_connect_backend
<1> HIDE DEF b
<1>4. Of(c, x)
  BY <1>3 DEF Of, proxy_inject_forwarded_headers
<1> HIDE DEF c
<1> QED
  BY <1>1, <1>2, <1>3, <1>4, FailOf, SendToBackendOf

LEMMA RecvClientHeaderOf ==
    ASSUME NEW x, NEW w, Of(w, x), NEW outcome
    PROVE  Of(RecvClientHeader(w, outcome), x)
<1> DEFINE end == proxy_find_header_end(w.p.req)
           length == proxy_parse_content_length(w.x.req.lines)
           needed == Least(end + length + 1, BodyCap)
           l == IF length > 0 THEN length ELSE 0
           u == [w EXCEPT !.p.reqEnd = end]
           w1 == [w EXCEPT !.p.reqEnd = end, !.p.reqLength = l]
           w2 == [w1 EXCEPT !.p.reqSize = IF needed > @ THEN needed ELSE @]
           w3 == [w2 EXCEPT !.p.state = "RECV_REQ_BODY"]
<1>1. RecvClientHeader(w, outcome) \in
        {Reject(w, "431"), w, Reject(u, "400"), Reject(u, "411"), ConnectBackend(w1, outcome), Fail(w1),
         w3, ConnectBackend(w2, outcome)}
  BY DEF RecvClientHeader
<1> HIDE DEF end, needed, l
<1>2. Of(u, x) /\ Of(w1, x)
  BY DEF Of
<1> HIDE DEF u, w1
<1>3. Of(w2, x)
  BY <1>2 DEF Of
<1> HIDE DEF w2
<1>4. Of(w3, x)
  BY <1>3 DEF Of
<1> HIDE DEF w3
<1> QED
  BY <1>1, <1>2, <1>3, <1>4, FailOf, RejectOf, ConnectBackendOf

LEMMA ProcessOf ==
    ASSUME NEW x, NEW w, Of(w, x), NEW outcome
    PROVE  Of(proxy_process_state(w, outcome), x)
<1>1. Of(RecvClientBody(w, outcome), x)
  BY ConnectBackendOf, RejectOf DEF RecvClientBody
<1> QED
  BY <1>1, RecvClientHeaderOf, SendToBackendOf, RecvBackendHeaderOf, StreamingOf DEF proxy_process_state

LEMMA Append2ReqOf ==
    ASSUME NEW x, NEW w, Of(w, x), NEW n
    PROVE  Of(Append2Req(w, n), x)
  BY DEF Of, Append2Req

LEMMA TunnelReadOf ==
    ASSUME NEW x, NEW w, Of(w, x), NEW n
    PROVE  Of(TunnelRead(w, n), x)
<1> DEFINE v == [w EXCEPT !.p.c2b = SubSeq(w.c.kin, 1, Taken(w.c, w.p.reqSize)),
                          !.c = WebserverRecv(@, w.p.reqSize, n)]
           f == proxy_tunnel_flush_c2b(v)
           g == [f EXCEPT !.c = WebserverSSLPending(@)]
<1>1. TunnelRead(w, n) \in {Done(w), v, Fail(v), g}
  BY DEF TunnelRead
<1>2. Of(v, x)
  BY DEF Of
<1> HIDE DEF v
<1>3. Of(f, x)
  BY <1>2, TunnelOf
<1> HIDE DEF f
<1>4. Of(g, x)
  BY <1>3 DEF Of
<1> HIDE DEF g
<1> QED
  BY <1>1, <1>2, <1>4, FailOf

LEMMA RecvHeaderOf ==
    ASSUME NEW x, NEW w, Of(w, x), NEW outcome
    PROVE  Of(RecvHeader(w, outcome), x)
<1> DEFINE k == Least(w.p.resSize - Len(w.p.res), Len(w.b.kin))
           v == [w EXCEPT !.p.res = @ \o SubSeq(w.b.kin, 1, k), !.b.kin = SubSeq(@, k + 1, Len(@))]
<1>1. RecvHeader(w, outcome) \in {Fail(w), w, RecvBackendHeader(v, outcome)}
  BY DEF RecvHeader
<1>2. Of(v, x)
  BY DEF Of
<1> HIDE DEF v
<1> QED
  BY <1>1, <1>2, FailOf, RecvBackendHeaderOf

LEMMA RecvStreamOf ==
    ASSUME NEW x, NEW w, Of(w, x)
    PROVE  Of(RecvStream(w), x)
<1> DEFINE k == Least(w.p.resSize, Len(w.b.kin))
           data == SubSeq(w.b.kin, 1, k)
           v == [w EXCEPT !.p.res = <<>>, !.p.sendPos = 0]
           u == [v EXCEPT !.p.res = data, !.b.kin = SubSeq(@, k + 1, Len(@)),
                          !.p.chunk = IF w.p.mode = "chunked" THEN proxy_chunked_scan(@, data) ELSE @]
<1>1. RecvStream(w) \in {Streaming(w), Done(w), Streaming(u), v, Done(v), Fail(v)}
  BY DEF RecvStream
<1>2. Of(v, x)
  BY DEF Of
<1> HIDE DEF v
<1>3. Of(u, x)
  BY <1>2 DEF Of
<1> HIDE DEF u
<1> QED
  BY <1>1, <1>2, <1>3, FailOf, StreamingOf

LEMMA CleanupOf ==
    ASSUME NEW x, NEW w, Of(w, x)
    PROVE  Of(proxy_cleanup_connection(w), x)
  BY DEF Of, proxy_cleanup_connection

LEMMA CreateOf ==
    ASSUME NEW x, NEW w, Of(w, x), NEW n
    PROVE  Of(proxy_create_connection(w, n), x) /\ Of(AwaitRequest(w), x)
<1>1. Of(proxy_create_connection(w, n), x)
  BY DEF Of, proxy_create_connection
<1>2. Of(AwaitRequest(w), x)
  BY DEF Of, AwaitRequest
<1> QED
  BY <1>1, <1>2
---------------------------------------------------------------------------
(* The handler of the client's events.                                     *)

Collecting(w) == w.p.state \in {"RECV_REQ_HEADER", "RECV_REQ_BODY"}

LEMMA Append2ReqOK ==
    ASSUME NEW w, BytesOK(w), Collecting(w), NEW n \in Nat
    PROVE  BytesOK(Append2Req(w, n))
<1> DEFINE req == w.p.req
           kin == w.c.kin
           todo == w.c.todo
           space == w.p.reqSize - Len(req)
           k == Taken(w.c, space)
           s == WebserverRecv(w.c, space, n)
           t == WebserverSSLPending(s)
           d == Take(kin, k)
           r == Cat(req, d)
           v == [w EXCEPT !.p.req = r, !.c = t]
           p == w.p
           q == v.p
<1>1. /\ Base(w) /\ Held(w) /\ Collects(w) /\ (In(w, "RECV_REQ_BODY") => HasHeader(w))
      /\ In(w, "RECV_REQ_HEADER") \/ In(w, "RECV_REQ_BODY")
  BY ByState DEF Collecting, In
<1>2. /\ w \in Worlds(w.x) /\ p \in Proxy(w.x) /\ w.c \in Sock /\ w.b \in Sock /\ SockOK(w.c)
      /\ req \in Units /\ kin \in Units /\ todo \in Units /\ Len(req) \in Nat /\ p.reqSize \in Nat
  BY <1>1, WorldFields, ProxyFields, SockFields DEF Base
<1>3. Len(req) <= p.reqSize /\ Cat(req, Cat(kin, todo)) = w.x.req.units
  BY <1>1 DEF Collects, Coming
<1>4. Append2Req(w, n) = w \/ Append2Req(w, n) = v
  BY DEF Append2Req, Cat, Take
<1>5. space \in Nat
  BY <1>2, <1>3
<1> HIDE DEF req, kin, todo, space
<1>6. /\ k \in 0 .. Len(kin) /\ k <= space /\ s \in Sock /\ SockOK(s) /\ s.kin = Drop(kin, k) /\ s.todo = todo
      /\ s.got = w.c.got /\ s.handle = w.c.handle /\ s.close = w.c.close
  <2>1. w.c \in Sock /\ SockOK(w.c)
    BY <1>2
  <2> QED
    BY <1>5, <2>1, Reading DEF kin, todo
<1> HIDE DEF k, s
<1>7. SameSock(s, t) /\ t.handle = s.handle /\ t.close = s.close
  BY <1>6, PendingSame
<1>8. t \in Sock /\ SockOK(t) /\ Coming(t) = Cat(Drop(kin, k), todo) /\ t.got = w.c.got
  BY <1>6, <1>7 DEF SameSock, SockOK, Coming
<1>9. d \in Units /\ Len(d) = k
  BY <1>2, <1>6, Cutting
<1> HIDE DEF t, d
<1>10. r \in Units /\ Len(r) = Len(req) + k
  BY <1>2, <1>9, CatBasics
<1>11. Cat(r, Coming(t)) = w.x.req.units
  BY <1>2, <1>3, <1>6, <1>8, ReadFront DEF d
<1> HIDE DEF r
<1>12. q = [p EXCEPT !.req = r] /\ v.c = t /\ v.b = w.b /\ v.x = w.x
  BY <1>2 DEF Worlds
<1> HIDE DEF v, p, q
<1>13. /\ q \in Proxy(w.x) /\ q.req = r /\ q.reqLines = p.reqLines /\ q.reqSize = p.reqSize
       /\ q.resSize = p.resSize /\ q.upgrade = p.upgrade /\ q.res = p.res
       /\ q.headerSent = p.headerSent /\ q.sendPos = p.sendPos /\ q.state = p.state
  BY <1>2, <1>10, <1>12 DEF Proxy
<1>14. q.reqEnd = p.reqEnd /\ q.reqLength = p.reqLength
  BY <1>2, <1>12 DEF Proxy
<1>15. v \in Worlds(v.x)
  BY <1>2, <1>8, <1>12, <1>13 DEF Worlds, v, q
<1>16. Base(v) /\ Held(v)
  BY <1>1, <1>6, <1>7, <1>8, <1>12, <1>13, <1>15 DEF Base, Safe, Held, p, q
<1>17. Len(v.p.req) <= v.p.reqSize
  <2>1. k \in Nat /\ k <= p.reqSize - Len(req)
    BY <1>6 DEF space, p
  <2>2. Len(r) <= p.reqSize
    BY <1>2, <1>10, <2>1
  <2> QED
    BY <1>13, <2>2 DEF q
<1>18. Unanswered(v)
  BY <1>1, <1>8, <1>12, <1>13 DEF Collects, Unanswered, p, q
<1>19. Collects(v)
  BY <1>1, <1>11, <1>12, <1>13, <1>17, <1>18 DEF Collects, p, q
<1>20. In(w, "RECV_REQ_BODY") => HasHeader(v)
  <2> SUFFICES ASSUME In(w, "RECV_REQ_BODY") PROVE HasHeader(v)
    OBVIOUS
  <2>1. HasHeader(w)
    BY <1>1
  <2>2. p.reqEnd \in Nat /\ p.reqEnd <= Len(req) /\ k \in Nat
    BY <1>2, <1>6, <2>1, ProxyFields DEF HasHeader, p, req
  <2>3. p.reqEnd <= Len(r)
    BY <1>2, <1>10, <2>2
  <2> QED
    BY <1>12, <1>13, <1>14, <2>1, <2>3 DEF HasHeader, p, q
<1>21. BytesOK(v)
  BY <1>1, <1>13, <1>16, <1>19, <1>20 DEF BytesOK, InState, In, p, q
<1> QED
  BY <1>4, <1>21

(* What is read from the client lies in the tunnel towards the backend.    *)
LEMMA TunnelTaken ==
    ASSUME NEW w, Base(w), Tunnels(w), Held(w), In(w, "TUNNEL"), w.p.c2b = <<>>, NEW n \in Nat
    PROVE  LET v == [w EXCEPT !.p.c2b = SubSeq(w.c.kin, 1, Taken(w.c, w.p.reqSize)),
                              !.c = WebserverRecv(@, w.p.reqSize, n)]
           IN  Base(v) /\ Tunnels(v) /\ Held(v) /\ In(v, "TUNNEL")
<1> DEFINE kin == w.c.kin
           todo == w.c.todo
           got == w.b.got
           space == w.p.reqSize
           k == Taken(w.c, space)
           s == WebserverRecv(w.c, space, n)
           d == Take(kin, k)
           v == [w EXCEPT !.p.c2b = d, !.c = s]
           p == w.p
           q == v.p
<1>1. v = [w EXCEPT !.p.c2b = SubSeq(w.c.kin, 1, Taken(w.c, w.p.reqSize)), !.c = WebserverRecv(@, w.p.reqSize, n)]
  BY DEF Take
<1>2. /\ w \in Worlds(w.x) /\ p \in Proxy(w.x) /\ w.c \in Sock /\ w.b \in Sock /\ SockOK(w.c) /\ space \in Nat
      /\ kin \in Units /\ todo \in Units /\ got \in Units
  BY WorldFields, ProxyFields, SockFields DEF Base
<1>3. IsUpgrade(w.x) /\ Cat(Cat(got, <<>>), Cat(kin, todo)) = Forwarded(w.x)
  BY DEF Tunnels, Passing, Coming
<1> HIDE DEF kin, todo, got, space
<1>4. /\ k \in 0 .. Len(kin) /\ s \in Sock /\ SockOK(s) /\ s.kin = Drop(kin, k) /\ s.todo = todo
      /\ s.got = w.c.got /\ s.handle = w.c.handle /\ s.close = w.c.close
  BY <1>2, Reading DEF kin, todo
<1> HIDE DEF k, s
<1>5. d \in Units
  BY <1>2, <1>4, Cutting
<1>6. Cat(Cat(got, d), Coming(s)) = Forwarded(w.x)
  <2> DEFINE none == <<>>
  <2>1. none \in Units /\ Cat(none, d) = d
    BY <1>5, CatBasics
  <2>2. Cat(Cat(got, none), Cat(kin, todo)) = Forwarded(w.x)
    BY <1>3
  <2> HIDE DEF none
  <2>3. Cat(Cat(got, Cat(none, Take(kin, k))), Cat(Drop(kin, k), todo)) = Cat(Cat(got, none), Cat(kin, todo))
    BY <1>2, <1>4, <2>1, ReadFront
  <2> QED
    BY <1>4, <2>1, <2>2, <2>3 DEF d, Coming
<1> HIDE DEF d
<1>7. q = [p EXCEPT !.c2b = d] /\ v.c = s /\ v.b = w.b /\ v.x = w.x
  BY <1>2 DEF Worlds
<1> HIDE DEF v, p, q
<1>8. /\ q \in Proxy(w.x) /\ q.c2b = d /\ q.b2c = p.b2c /\ q.reqLines = p.reqLines /\ q.reqSize = p.reqSize
      /\ q.resSize = p.resSize /\ q.upgrade = p.upgrade /\ q.headerSent = p.headerSent /\ q.state = p.state
  BY <1>2, <1>5, <1>7 DEF Proxy
<1>9. v \in Worlds(v.x)
  BY <1>2, <1>4, <1>7, <1>8 DEF Worlds, v, q
<1>10. Base(v) /\ Held(v) /\ In(v, "TUNNEL")
  BY <1>4, <1>7, <1>8, <1>9 DEF Base, Safe, Held, In, p, q
<1>11. Passing(v, v.p.c2b)
  BY <1>3, <1>6, <1>7, <1>8 DEF Passing, got, q
<1>12. Tunnels(v)
  BY <1>4, <1>7, <1>8, <1>11 DEF Tunnels, p, q
<1> QED
  BY <1>1, <1>10, <1>12

LEMMA PendingStill ==
    ASSUME NEW w, w \in Worlds(w.x)
    PROVE  LET v == [w EXCEPT !.c = WebserverSSLPending(@)]
           IN  Still(w, v) /\ v.p = w.p /\ (Held(w) => Held(v))
<1> DEFINE t == WebserverSSLPending(w.c)
           v == [w EXCEPT !.c = t]
<1>1. w.p \in Proxy(w.x) /\ w.c \in Sock /\ w.b \in Sock
  BY WorldFields
<1>2. SameSock(w.c, t) /\ t.handle = w.c.handle /\ t.close = w.c.close
  BY <1>1, PendingSame
<1> HIDE DEF t
<1>3. v.p = w.p /\ v.c = t /\ v.b = w.b /\ v.x = w.x
  BY DEF Worlds
<1>4. v \in Worlds(w.x)
  BY <1>1, <1>2, <1>3 DEF Worlds, SameSock
<1> HIDE DEF v
<1>5. Still(w, v) /\ v.p = w.p /\ (Held(w) => Held(v))
  BY <1>1, <1>2, <1>3, <1>4, NoneChanged DEF Still, Held
<1> QED
  BY <1>5 DEF v, t

LEMMA PendingOK ==
    ASSUME NEW w, BytesOK(w)
    PROVE  BytesOK([w EXCEPT !.c = WebserverSSLPending(@)])
<1> DEFINE v == [w EXCEPT !.c = WebserverSSLPending(@)]
<1>1. w \in Worlds(w.x)
  BY DEF BytesOK, Base
<1>2. Still(w, v) /\ v.p = w.p /\ (Held(w) => Held(v))
  BY <1>1, PendingStill
<1> HIDE DEF v
<1>3. BytesOK(v)
  BY <1>2, StillBytes
<1> QED
  BY <1>3 DEF v

(* The tunnel takes data from the client.                                  *)
Open(w) == w.p.state = "TUNNEL" /\ w.p.c2b = <<>>

LEMMA TunnelReadOK ==
    ASSUME NEW w, BytesOK(w), Open(w), NEW n \in Nat
    PROVE  BytesOK(TunnelRead(w, n))
<1> DEFINE v == [w EXCEPT !.p.c2b = SubSeq(w.c.kin, 1, Taken(w.c, w.p.reqSize)),
                          !.c = WebserverRecv(@, w.p.reqSize, n)]
           f == proxy_tunnel_flush_c2b(v)
           g == [f EXCEPT !.c = WebserverSSLPending(@)]
<1>1. TunnelRead(w, n) \in {Done(w), v, Fail(v), g}
  BY DEF TunnelRead
<1>2. Base(w) /\ Tunnels(w) /\ Held(w) /\ In(w, "TUNNEL") /\ w.p.c2b = <<>>
  BY ByState DEF Open
<1>3. Base(v) /\ Tunnels(v) /\ Held(v) /\ In(v, "TUNNEL")
  BY <1>2, TunnelTaken
<1> HIDE DEF v
<1>4. BytesOK(v)
  BY <1>3, TunnelOK DEF In
<1>5. BytesOK(Fail(v))
  BY <1>3, FailOK DEF Tunnels
<1>6. Base(f) /\ Tunnels(f) /\ Held(f) /\ In(f, "TUNNEL")
  BY <1>3, FlushC2B DEF In
<1> HIDE DEF f
<1>7. BytesOK(f)
  BY <1>6, TunnelOK DEF In
<1>8. BytesOK(g)
  BY <1>7, PendingOK
<1>9. BytesOK(Done(w))
  BY <1>2, DoneOK
<1> HIDE DEF g
<1> QED
  BY <1>1, <1>4, <1>5, <1>8, <1>9

(* The states of the loop that reads, and of the one that calls.           *)
Rounds(x) == [w : Worlds(x), more : BOOLEAN]
Reads(x) == {r \in Rounds(x) : BytesOK(r.w) /\ (r.more => Open(r.w))}

LEMMA RoundOf ==
    ASSUME NEW x, NEW v, NEW m \in BOOLEAN, BytesOK(v), v.x = x
    PROVE  LET r == [w |-> v, more |-> m]
           IN  r \in Rounds(x) /\ r.w = v /\ r.more = m
<1>1. v \in Worlds(x)
  BY DEF BytesOK, Base
<1> QED
  BY <1>1 DEF Rounds

LEMMA ReadOnIn ==
    ASSUME NEW x, NEW v, BytesOK(v), v.x = x
    PROVE  ReadOn(v) \in Reads(x)
<1> DEFINE m == v.p.state = "TUNNEL" /\ v.p.c2b = <<>> /\ v.c.pend > 0
<1>1. m \in BOOLEAN /\ (m => Open(v))
  BY DEF Open
<1>2. ReadOn(v) = [w |-> v, more |-> m]
  BY DEF ReadOn
<1> HIDE DEF m
<1>3. ReadOn(v) \in Rounds(x) /\ ReadOn(v).w = v /\ ReadOn(v).more = m
  BY <1>1, <1>2, RoundOf
<1> QED
  BY <1>1, <1>3 DEF Reads

ReadStep(r, n) == IF r.more THEN ReadOn(TunnelRead(r.w, n)) ELSE r

LEMMA ReadStepIn ==
    ASSUME NEW x, NEW r \in Reads(x), NEW n \in Nat
    PROVE  ReadStep(r, n) \in Reads(x)
<1>1. CASE r.more
  <2> DEFINE w == r.w
             v == TunnelRead(w, n)
  <2>1. BytesOK(w) /\ Open(w) /\ w \in Worlds(x)
    BY <1>1 DEF Reads, Rounds
  <2> HIDE DEF w
  <2>2. BytesOK(v)
    BY <2>1, TunnelReadOK
  <2>3. Of(w, x)
    BY <2>1 DEF Of, Worlds
  <2>4. Of(v, x)
    BY <2>3, TunnelReadOf
  <2> HIDE DEF v
  <2>5. ReadOn(v) \in Reads(x)
    BY <2>2, <2>4, ReadOnIn DEF Of
  <2> QED
    BY <1>1, <2>5 DEF ReadStep, v, w
<1>2. CASE ~r.more
  BY <1>2 DEF ReadStep
<1> QED
  BY <1>1, <1>2

(* A step that stays within S can be repeated.                             *)
LEMMA Loops ==
    ASSUME NEW S, NEW H \in [S -> S], NEW a \in S, NEW N \in Nat
    PROVE  \E f \in Runs(N, S) : f[0] = a /\ \A i \in 1 .. N : f[i - 1] \in S /\ f[i] = H[f[i - 1]]
<1> DEFINE F == [i \in 1 .. N |-> H]
<1>1. F \in Steps(N, S) /\ \A i \in 1 .. N : F[i] = H
  BY DEF Steps
<1> HIDE DEF F
<1>2. PICK f \in Runs(N, S) : RunOf(f, a, F, N)
  BY <1>1, Repeats
<1>3. \A i \in 1 .. N : f[i - 1] \in S
  BY <1>2 DEF Runs
<1> QED
  BY <1>1, <1>2, <1>3 DEF RunOf

(* The loop, round by round.                                               *)
ReadRound(w, n, N, g) ==
  /\ g[0] = [w |-> w, more |-> w.p.c2b = <<>>]
  /\ \A i \in 1 .. N : g[i] = ReadStep(g[i - 1], n)
  /\ \A i \in 0 .. N : g[i] \in Reads(w.x)
  /\ TunnelReads(w, n) = g[N].w

LEMMA TunnelRounds ==
    ASSUME NEW w, BytesOK(w), In(w, "TUNNEL"), NEW n \in Nat
    PROVE  \E g : ReadRound(w, n, Len(w.c.kin) + 1, g)
<1> DEFINE N == Len(w.c.kin) + 1
           m == w.p.c2b = <<>>
           a == [w |-> w, more |-> m]
           S == Reads(w.x)
           H == [r \in S |-> ReadStep(r, n)]
           g == CHOOSE g : g = [i \in 0 .. N |-> IF i = 0 THEN a ELSE ReadStep(g[i - 1], n)]
<1>1. N \in Nat
  BY WorldFields, SockFields DEF BytesOK, Base
<1>2. TunnelReads(w, n) = g[N].w
  BY DEF TunnelReads, ReadStep
<1>3. m \in BOOLEAN /\ (m => Open(w))
  BY DEF Open, In
<1>14. a = [w |-> w, more |-> w.p.c2b = <<>>]
  OBVIOUS
<1> HIDE DEF m
<1>4. a \in S
  <2>1. a \in Rounds(w.x) /\ a.w = w /\ a.more = m
    BY <1>3, RoundOf
  <2> QED
    BY <1>3, <2>1 DEF Reads
<1> HIDE DEF a, S, N
<1>5. \A r \in S : ReadStep(r, n) \in S
  BY ReadStepIn DEF S
<1>6. H \in [S -> S] /\ \A r \in S : H[r] = ReadStep(r, n)
  BY <1>5
<1> HIDE DEF H
<1>7. PICK f \in Runs(N, S) : f[0] = a /\ \A i \in 1 .. N : f[i - 1] \in S /\ f[i] = H[f[i - 1]]
  <2> HIDE DEF g
  <2>1. H \in [S -> S]
    BY <1>6
  <2> QED
    BY <1>1, <1>4, <2>1, Loops
<1>8. \A i \in 1 .. N : f[i] = ReadStep(f[i - 1], n)
  BY <1>6, <1>7
<1>9. f = [i \in 0 .. N |-> IF i = 0 THEN a ELSE ReadStep(f[i - 1], n)]
  BY <1>1, <1>7, <1>8 DEF Runs
<1>10. g = [i \in 0 .. N |-> IF i = 0 THEN a ELSE ReadStep(g[i - 1], n)]
  BY <1>9
<1> HIDE DEF g
<1>11. g[0] = a /\ \A i \in 1 .. N : g[i] = ReadStep(g[i - 1], n)
  BY <1>1, <1>10
<1>12. \A i \in 0 .. N : g[i] \in S
  BY <1>1, <1>4, <1>5, <1>11, StaysIn
<1> QED
  BY <1>2, <1>14, <1>11, <1>12 DEF S, N, ReadRound

LEMMA TunnelReadsOK ==
    ASSUME NEW w, BytesOK(w), In(w, "TUNNEL"), NEW n \in Nat
    PROVE  BytesOK(TunnelReads(w, n)) /\ Of(TunnelReads(w, n), w.x)
<1> DEFINE N == Len(w.c.kin) + 1
<1>1. N \in 0 .. N
  BY WorldFields, SockFields DEF BytesOK, Base
<1>2. PICK g : ReadRound(w, n, N, g)
  BY TunnelRounds
<1> HIDE DEF N
<1>3. BytesOK(g[N].w) /\ g[N].w \in Worlds(w.x)
  BY <1>1, <1>2 DEF ReadRound, Reads, Rounds
<1>4. Of(g[N].w, w.x)
  BY <1>3 DEF Of, Worlds
<1> QED
  BY <1>2, <1>3, <1>4 DEF ReadRound

LEMMA RearmOK ==
    ASSUME NEW x, NEW w, BytesOK(w), Of(w, x)
    PROVE  BytesOK(Rearm(w)) /\ Of(Rearm(w), x)
<1>1. CASE w.p.state # "TUNNEL"
  BY <1>1 DEF Rearm
<1>2. CASE w.p.state = "TUNNEL"
  <2>1. Base(w) /\ Held(w) /\ Tunnels(w)
    BY <1>2, ByState
  <2> QED
    BY <1>2, <2>1, TunnelOK, TunnelOf DEF Rearm
<1> QED
  BY <1>1, <1>2

LEMMA TunnelClientOK ==
    ASSUME NEW x, NEW w, Base(w), Tunnels(w), Held(w), In(w, "TUNNEL"), Of(w, x), NEW n \in Nat
    PROVE  BytesOK(TunnelClient(w, n)) /\ Of(TunnelClient(w, n), x)
<1> DEFINE v == proxy_tunnel_flush_b2c(w)
           u == TunnelReads(v, n)
<1>1. TunnelClient(w, n) \in {Done(w), Rearm(u)}
  BY DEF TunnelClient
<1>2. Base(v) /\ Tunnels(v) /\ Held(v) /\ In(v, "TUNNEL") /\ v.x = w.x
  BY FlushB2C DEF In
<1> HIDE DEF v
<1>3. BytesOK(v)
  BY <1>2, TunnelOK DEF In
<1>4. BytesOK(u) /\ Of(u, x)
  <2>1. v.x = x
    BY <1>2 DEF Of
  <2> QED
    BY <1>2, <1>3, <2>1, TunnelReadsOK
<1> HIDE DEF u
<1>5. BytesOK(Rearm(u)) /\ Of(Rearm(u), x)
  BY <1>4, RearmOK
<1>6. BytesOK(Done(w)) /\ Of(Done(w), x)
  BY DoneOK, FailOf
<1> QED
  BY <1>1, <1>5, <1>6

LEMMA ResumeStill ==
    ASSUME NEW w, w \in Worlds(w.x)
    PROVE  LET v == [w EXCEPT !.c.ev = "peerclose", !.b.ev = "read"]
           IN  Still(w, v) /\ (Held(w) => Held(v))
<1> DEFINE e == "peerclose"
           f == "read"
           v == [w EXCEPT !.c.ev = e, !.b.ev = f]
<1>1. w.p \in Proxy(w.x) /\ w.c \in Sock /\ w.b \in Sock
  BY WorldFields
<1>2. e \in Events /\ f \in Events
  BY DEF Events
<1> HIDE DEF e, f
<1>3. v.p = w.p /\ v.c = [w.c EXCEPT !.ev = e] /\ v.b = [w.b EXCEPT !.ev = f] /\ v.x = w.x
  BY DEF Worlds
<1> HIDE DEF v
<1>4. SameSock(w.c, v.c) /\ v.c.handle = w.c.handle /\ v.c.close = w.c.close
  BY <1>1, <1>2, <1>3, EvSame
<1>5. SameSock(w.b, v.b)
  BY <1>1, <1>2, <1>3, EvSame
<1>6. v \in Worlds(w.x)
  BY <1>1, <1>3, <1>4, <1>5 DEF Worlds, SameSock, v
<1>7. Still(w, v) /\ (Held(w) => Held(v))
  BY <1>1, <1>3, <1>4, <1>5, <1>6, NoneChanged DEF Still, Held
<1> QED
  BY <1>7 DEF v, e, f

LEMMA ClientHandlerOK ==
    ASSUME NEW x, NEW w, BytesOK(w), Of(w, x), NEW n \in Nat, NEW outcome
    PROVE  LET v == reverse_proxy_client_handler(w, n, outcome)
           IN  BytesOK(v) /\ Of(v, x)
<1> DEFINE a == Append2Req(w, n)
           b == proxy_process_state(a, outcome)
           r == [w EXCEPT !.c.ev = "peerclose", !.b.ev = "read"]
<1>1. Base(w)
  BY ByState
<1>2. CASE Collecting(w)
  <2>1. reverse_proxy_client_handler(w, n, outcome) \in {Fail(w), b}
    BY <1>2 DEF reverse_proxy_client_handler, Collecting
  <2>2. BytesOK(a) /\ Of(a, x)
    BY <1>2, Append2ReqOK, Append2ReqOf
  <2> HIDE DEF a
  <2>3. BytesOK(b) /\ Of(b, x)
    BY <2>2, ProcessOK, ProcessOf
  <2>4. w.c.got = <<>>
    BY <1>2, ByState DEF Collecting, Collects, Unanswered
  <2>5. BytesOK(Fail(w)) /\ Of(Fail(w), x)
    BY <1>1, <2>4, FailOK, FailOf
  <2> QED
    BY <2>1, <2>3, <2>5
<1>3. CASE w.p.state = "WAIT_WRITE"
  <2>1. Streams(w) /\ Held(w) /\ w \in Worlds(w.x)
    BY <1>3, ByState DEF Base
  <2>2. Still(w, r) /\ Held(r)
    BY <2>1, ResumeStill
  <2>3. Of(r, x)
    BY DEF Of
  <2>4. reverse_proxy_client_handler(w, n, outcome) = Streaming(r)
    BY <1>3 DEF reverse_proxy_client_handler
  <2> HIDE DEF r
  <2>5. Base(r) /\ Streams(r)
    BY <1>1, <2>1, <2>2, StillKeeps
  <2> QED
    BY <2>2, <2>3, <2>4, <2>5, StreamingOK, StreamingOf
<1>4. CASE w.p.state = "TUNNEL"
  <2>1. Tunnels(w) /\ In(w, "TUNNEL") /\ Held(w)
    BY <1>4, ByState
  <2>2. reverse_proxy_client_handler(w, n, outcome) = TunnelClient(w, n)
    BY <1>4 DEF reverse_proxy_client_handler
  <2> QED
    BY <1>1, <2>1, <2>2, TunnelClientOK
<1>5. CASE ~Collecting(w) /\ w.p.state \notin {"WAIT_WRITE", "TUNNEL"}
  <2>1. reverse_proxy_client_handler(w, n, outcome) \in {Done(w), w}
    BY <1>5 DEF reverse_proxy_client_handler, Collecting
  <2> QED
    BY <1>1, <2>1, DoneOK, FailOf
<1> QED
  BY <1>2, <1>3, <1>4, <1>5

---------------------------------------------------------------------------
(* The handler of the backend's events.                                    *)

(* What is read from the backend while its header is awaited.              *)
HeaderFilled(w, k) == [w EXCEPT !.p.res = Cat(w.p.res, Take(w.b.kin, k)), !.b.kin = Drop(w.b.kin, k)]

LEMMA HeaderFilledOK ==
    ASSUME NEW w, Base(w), Held(w), Awaits(w), In(w, "RECV_RES_HEADER"), NEW k \in 0 .. Len(w.b.kin)
    PROVE  LET v == HeaderFilled(w, k)
           IN  Base(v) /\ Held(v) /\ Awaits(v) /\ In(v, "RECV_RES_HEADER")
<1> DEFINE res == w.p.res
           kin == w.b.kin
           todo == w.b.todo
           r == Cat(res, Take(kin, k))
           d == Drop(kin, k)
           v == HeaderFilled(w, k)
           p == w.p
           q == v.p
<1>1. w.c.got = <<>> /\ ~w.p.headerSent /\ Cat(res, Cat(kin, todo)) = w.x.res.units
  BY DEF Awaits, Unanswered, Coming
<1>2. /\ w \in Worlds(w.x) /\ p \in Proxy(w.x) /\ w.c \in Sock /\ w.b \in Sock /\ SockOK(w.b)
      /\ res \in Units /\ kin \in Units /\ todo \in Units /\ Len(res) \in Nat /\ Len(kin) \in Nat
  BY WorldFields, ProxyFields, SockFields DEF Base
<1>3. k \in 0 .. Len(kin)
  OBVIOUS
<1>4. q = [p EXCEPT !.res = r] /\ v.c = w.c /\ v.b = [w.b EXCEPT !.kin = d] /\ v.x = w.x
  BY <1>2 DEF Worlds, HeaderFilled
<1> HIDE DEF kin, res, todo
<1>5. Take(kin, k) \in Units /\ d \in Units /\ Len(d) = Len(kin) - k
  BY <1>2, <1>3, Cutting
<1>6. r \in Units
  BY <1>2, <1>5, CatBasics
<1>7. Cat(r, Cat(d, todo)) = w.x.res.units
  BY <1>1, <1>2, <1>3, ReadFront
<1> HIDE DEF r, d, p, q
<1>8. /\ v.b \in Sock /\ v.b.kin = d /\ v.b.todo = w.b.todo /\ v.b.got = w.b.got /\ v.b.read = w.b.read
      /\ v.b.pend = w.b.pend
  <2> HIDE DEF v
  <2> QED
    BY <1>2, <1>4, <1>5 DEF Sock
<1>9. /\ q \in Proxy(w.x) /\ q.res = r /\ q.reqLines = p.reqLines /\ q.reqSize = p.reqSize
      /\ q.resSize = p.resSize /\ q.upgrade = p.upgrade /\ q.headerSent = p.headerSent
      /\ q.sendPos = p.sendPos /\ q.state = p.state
  BY <1>2, <1>4, <1>6 DEF Proxy
<1>10. v \in Worlds(v.x)
  BY <1>2, <1>4, <1>8, <1>9 DEF Worlds, HeaderFilled, q
<1> HIDE DEF v
<1>11. SockOK(v.b) /\ v.b.pend = 0
  <2>1. w.b.pend = 0 /\ SockOK(w.b)
    BY DEF Base
  <2>2. Len(v.b.kin) \in Nat
    BY <1>8, SockFields
  <2> QED
    BY <1>8, <2>1, <2>2 DEF SockOK
<1>12. Base(v) /\ Held(v) /\ In(v, "RECV_RES_HEADER")
  BY <1>4, <1>8, <1>9, <1>10, <1>11 DEF Base, Safe, Held, In, p, q
<1>13. Passing(v, <<>>)
  BY <1>4, <1>8 DEF Awaits, Passing
<1>14. Unanswered(v)
  BY <1>1, <1>4, <1>7, <1>8, <1>9 DEF Unanswered, Coming, todo, p, q
<1>15. Awaits(v)
  BY <1>9, <1>13, <1>14 DEF Awaits, p, q
<1> QED
  BY <1>12, <1>15 DEF v

LEMMA RecvHeaderOK ==
    ASSUME NEW w, Base(w), Held(w), Awaits(w), In(w, "RECV_RES_HEADER"), NEW outcome
    PROVE  BytesOK(RecvHeader(w, outcome))
<1> DEFINE k == Least(w.p.resSize - Len(w.p.res), Len(w.b.kin))
           v == HeaderFilled(w, k)
<1>1. RecvHeader(w, outcome) = IF Len(w.p.res) >= w.p.resSize THEN Fail(w)
                               ELSE IF k = 0 THEN (IF w.b.gone THEN Fail(w) ELSE w)
                               ELSE RecvBackendHeader(v, outcome)
  BY DEF RecvHeader, HeaderFilled, Cat, Take, Drop
<1>2. w.c.got = <<>> /\ ~w.p.headerSent
  BY DEF Awaits, Unanswered
<1>3. BytesOK(Fail(w)) /\ BytesOK(w)
  BY <1>2, FailOK DEF BytesOK, InState, In
<1>4. CASE Len(w.p.res) >= w.p.resSize
  BY <1>1, <1>3, <1>4
<1>5. CASE ~(Len(w.p.res) >= w.p.resSize)
  <2>1. Len(w.p.res) \in Nat /\ w.p.resSize \in Nat /\ Len(w.b.kin) \in Nat
    BY WorldFields, ProxyFields, SockFields DEF Base
  <2>2. k \in 0 .. Len(w.b.kin)
    BY <1>5, <2>1 DEF Least
  <2> HIDE DEF k
  <2>3. Base(v) /\ Held(v) /\ Awaits(v) /\ In(v, "RECV_RES_HEADER")
    BY <2>2, HeaderFilledOK
  <2> HIDE DEF v
  <2>4. BytesOK(RecvBackendHeader(v, outcome))
    BY <2>3, RecvBackendHeaderOK
  <2> QED
    BY <1>1, <1>3, <1>5, <2>4
<1> QED
  BY <1>4, <1>5

(* The buffer is empty, the next part of the body is read into it.         *)
LEMMA Emptied ==
    ASSUME NEW w, Base(w), Held(w), Streams(w), Begun(w), In(w, "STREAMING"), ~(Len(w.p.res) > w.p.sendPos)
    PROVE  LET v == [w EXCEPT !.p.res = <<>>, !.p.sendPos = 0]
           IN  /\ Base(v) /\ Held(v) /\ Streams(v) /\ Begun(v) /\ In(v, "STREAMING")
               /\ v.p.res = <<>> /\ v.p.sendPos = 0 /\ v.b = w.b /\ v.p.chunk = w.p.chunk
<1> DEFINE e == <<>>
           z == 0
           v == [w EXCEPT !.p.res = e, !.p.sendPos = z]
           p == w.p
           q == v.p
<1>1. /\ w \in Worlds(w.x) /\ p \in Proxy(w.x) /\ w.c \in Sock /\ w.b \in Sock
      /\ p.res \in Units /\ Len(p.res) \in Nat /\ p.sendPos \in Nat /\ p.sendPos <= Len(p.res)
  BY WorldFields, ProxyFields DEF Base, Streams
<1>2. e \in Units /\ z \in Nat
  BY EmptySeq DEF Units
<1>3. Unsent(p) = <<>>
  <2>1. p.sendPos = Len(p.res)
    BY <1>1
  <2> HIDE DEF p
  <2> QED
    BY <1>1, <2>1, CutAtEnds DEF Unsent
<1> HIDE DEF e, z
<1>4. q = [p EXCEPT !.res = e, !.sendPos = z] /\ v.c = w.c /\ v.b = w.b /\ v.x = w.x
  BY <1>1 DEF Worlds
<1> HIDE DEF v, p, q
<1>5. /\ q \in Proxy(w.x) /\ q.res = e /\ q.sendPos = z /\ q.reqLines = p.reqLines /\ q.reqSize = p.reqSize
      /\ q.resSize = p.resSize /\ q.upgrade = p.upgrade /\ q.headerSent = p.headerSent /\ q.state = p.state
  BY <1>1, <1>2, <1>4 DEF Proxy
<1>6. q.chunk = p.chunk
  BY <1>1, <1>4 DEF Proxy
<1>7. v \in Worlds(v.x)
  BY <1>1, <1>4, <1>5 DEF Worlds, v, q
<1>8. Base(v) /\ Held(v) /\ Begun(v) /\ In(v, "STREAMING")
  BY <1>4, <1>5, <1>7 DEF Base, Safe, Held, Begun, In, p, q
<1>9. Unsent(v.p) = <<>> /\ v.p.sendPos <= Len(v.p.res)
  <2>1. Len(e) = 0 /\ Drop(e, z) = e
    BY <1>2, CutAtEnds, SeqBasics DEF e, z
  <2> QED
    BY <1>5, <2>1 DEF Unsent, q, e, z
<1>10. Streams(v)
  BY <1>3, <1>4, <1>8, <1>9 DEF Streams, Passing, Begun, p
<1> QED
  BY <1>4, <1>5, <1>6, <1>8, <1>10 DEF v, q, p, e, z

Filled(w, k, c) == [w EXCEPT !.p.res = Take(w.b.kin, k), !.b.kin = Drop(w.b.kin, k), !.p.chunk = c]

LEMMA FilledOK ==
    ASSUME NEW w, Base(w), Held(w), Streams(w), Begun(w), w.p.res = <<>>, w.p.sendPos = 0,
           NEW k \in 0 .. Len(w.b.kin), NEW c \in Chunk
    PROVE  LET v == Filled(w, k, c) IN Base(v) /\ Held(v) /\ Streams(v)
<1> DEFINE kin == w.b.kin
           todo == w.b.todo
           got == w.c.got
           r == Take(kin, k)
           d == Drop(kin, k)
           v == Filled(w, k, c)
           p == w.p
           q == v.p
<1>1. /\ w \in Worlds(w.x) /\ p \in Proxy(w.x) /\ w.c \in Sock /\ w.b \in Sock
      /\ kin \in Units /\ todo \in Units /\ got \in Units /\ Len(kin) \in Nat
  BY WorldFields, SockFields DEF Base
<1>2. k \in 0 .. Len(kin)
  OBVIOUS
<1>3. Cat(Cat(got, <<>>), Cat(kin, todo)) = Whole(w.x)
  <2>1. Unsent(w.p) = <<>>
    <3>1. <<>> \in Units
      BY EmptySeq DEF Units
    <3> QED
      BY <3>1, CutAtEnds DEF Unsent
  <2> QED
    BY <2>1 DEF Streams, Coming
<1>4. q = [p EXCEPT !.res = r, !.chunk = c] /\ v.c = w.c /\ v.b = [w.b EXCEPT !.kin = d] /\ v.x = w.x
  BY <1>1 DEF Worlds, Filled
<1> HIDE DEF kin, todo, got
<1>5. r \in Units /\ d \in Units /\ Len(d) = Len(kin) - k
  BY <1>1, <1>2, Cutting
<1>6. Cat(Cat(got, r), Cat(d, todo)) = Whole(w.x)
  <2> DEFINE none == <<>>
  <2>1. none \in Units /\ Cat(none, r) = r
    BY <1>5, CatBasics
  <2>2. Cat(Cat(got, none), Cat(kin, todo)) = Whole(w.x)
    BY <1>3
  <2> HIDE DEF none
  <2>3. Cat(Cat(got, Cat(none, Take(kin, k))), Cat(Drop(kin, k), todo)) = Cat(Cat(got, none), Cat(kin, todo))
    BY <1>1, <1>2, <2>1, ReadFront
  <2> QED
    BY <2>1, <2>2, <2>3
<1> HIDE DEF r, d, p, q
<1>7. /\ q \in Proxy(w.x) /\ q.res = r /\ q.sendPos = p.sendPos /\ q.reqLines = p.reqLines
      /\ q.reqSize = p.reqSize /\ q.resSize = p.resSize /\ q.upgrade = p.upgrade
      /\ q.headerSent = p.headerSent /\ q.state = p.state
  BY <1>1, <1>4, <1>5 DEF Proxy
<1>8. /\ v.b \in Sock /\ v.b.kin = d /\ v.b.todo = w.b.todo /\ v.b.got = w.b.got /\ v.b.read = w.b.read
      /\ v.b.pend = w.b.pend
  <2> HIDE DEF v
  <2> QED
    BY <1>1, <1>4, <1>5 DEF Sock
<1>9. v \in Worlds(v.x)
  BY <1>1, <1>4, <1>7, <1>8 DEF Worlds, Filled, q
<1> HIDE DEF v
<1>10. SockOK(v.b) /\ v.b.pend = 0
  <2>1. w.b.pend = 0 /\ SockOK(w.b)
    BY DEF Base
  <2>2. Len(v.b.kin) \in Nat
    BY <1>8, SockFields
  <2> QED
    BY <1>8, <2>1, <2>2 DEF SockOK
<1>11. Base(v) /\ Held(v) /\ Begun(v)
  BY <1>4, <1>7, <1>8, <1>9, <1>10 DEF Base, Safe, Held, Begun, p, q
<1>12. Unsent(v.p) = r /\ v.p.sendPos <= Len(v.p.res)
  <2>1. Drop(r, 0) = r /\ Len(r) \in Nat
    BY <1>5, CutAtEnds, SeqBasics
  <2>2. q.sendPos = 0
    BY <1>7 DEF p
  <2> QED
    BY <1>7, <2>1, <2>2 DEF Unsent, q
<1>13. Passing(v, <<>>)
  BY <1>4, <1>8 DEF Streams, Passing
<1>14. Cat(Cat(v.c.got, Unsent(v.p)), Coming(v.b)) = Whole(v.x)
  BY <1>4, <1>6, <1>8, <1>12 DEF Coming, got, todo
<1>15. Streams(v)
  BY <1>11, <1>12, <1>13, <1>14 DEF Streams, Begun
<1> QED
  BY <1>11, <1>15 DEF v

LEMMA RecvStreamOK ==
    ASSUME NEW w, Base(w), Held(w), Streams(w), Begun(w), In(w, "STREAMING")
    PROVE  BytesOK(RecvStream(w))
<1> DEFINE k == Least(w.p.resSize, Len(w.b.kin))
           v == [w EXCEPT !.p.res = <<>>, !.p.sendPos = 0]
           c == IF w.p.mode = "chunked" THEN proxy_chunked_scan(v.p.chunk, Take(w.b.kin, k)) ELSE v.p.chunk
           u == [v EXCEPT !.p.res = Take(w.b.kin, k), !.b.kin = Drop(v.b.kin, k), !.p.chunk = c]
<1>1. RecvStream(w) = IF Len(w.p.res) > w.p.sendPos THEN Streaming(w)
                      ELSE IF w.p.mode = "length" /\ w.p.bodySent >= w.p.resLength THEN Done(w)
                      ELSE IF k > 0 THEN Streaming(u)
                      ELSE IF ~w.b.gone THEN v
                      ELSE IF w.b.fin /\ (w.p.mode \in {"chunked", "close"} \/ w.p.bodySent >= w.p.resLength)
                      THEN Done(v) ELSE Fail(v)
  BY DEF RecvStream, Take, Drop
<1>2. BytesOK(Streaming(w)) /\ BytesOK(Done(w))
  BY StreamingOK, DoneOK
<1>3. CASE Len(w.p.res) > w.p.sendPos
  BY <1>1, <1>2, <1>3
<1>4. CASE ~(Len(w.p.res) > w.p.sendPos)
  <2>1. /\ Base(v) /\ Held(v) /\ Streams(v) /\ Begun(v) /\ In(v, "STREAMING")
        /\ v.p.res = <<>> /\ v.p.sendPos = 0 /\ v.b = w.b /\ v.p.chunk = w.p.chunk
    BY <1>4, Emptied
  <2> HIDE DEF v
  <2>2. /\ w.b.kin \in Units /\ Len(w.b.kin) \in Nat /\ w.p.resSize \in Nat /\ w.p.chunk \in Chunk
    BY WorldFields, ProxyFields, SockFields DEF Base
  <2>3. k \in 0 .. Len(w.b.kin)
    BY <2>2 DEF Least
  <2> HIDE DEF k
  <2>4. c \in Chunk
    <3>1. Take(w.b.kin, k) \in Units /\ v.p.chunk \in Chunk
      BY <2>1, <2>2, <2>3, Cutting
    <3> QED
      BY <3>1, ScanChunk
  <2> HIDE DEF c
  <2>5. u = Filled(v, k, c)
    BY <2>1 DEF Filled
  <2> HIDE DEF u
  <2>6. Base(u) /\ Held(u) /\ Streams(u)
    BY <2>1, <2>3, <2>4, <2>5, FilledOK
  <2>7. BytesOK(Streaming(u))
    BY <2>6, StreamingOK
  <2>8. BytesOK(Done(v)) /\ BytesOK(Fail(v)) /\ BytesOK(v)
    BY <2>1, DoneOK, FailOK DEF Begun, BytesOK, InState, In
  <2> QED
    BY <1>1, <1>2, <1>4, <2>7, <2>8
<1> QED
  BY <1>3, <1>4

(* What is read from the backend lies in the tunnel towards the client.    *)
TunnelFilled(w, k) == [w EXCEPT !.p.b2c = Take(w.b.kin, k), !.b.kin = Drop(w.b.kin, k)]

LEMMA TunnelFilledOK ==
    ASSUME NEW w, Base(w), Held(w), Tunnels(w), In(w, "TUNNEL"), w.p.b2c = <<>>, NEW k \in 0 .. Len(w.b.kin)
    PROVE  LET v == TunnelFilled(w, k) IN Base(v) /\ Held(v) /\ Tunnels(v) /\ In(v, "TUNNEL")
<1> DEFINE kin == w.b.kin
           todo == w.b.todo
           got == w.c.got
           r == Take(kin, k)
           d == Drop(kin, k)
           v == TunnelFilled(w, k)
           p == w.p
           q == v.p
<1>1. /\ w \in Worlds(w.x) /\ p \in Proxy(w.x) /\ w.c \in Sock /\ w.b \in Sock
      /\ kin \in Units /\ todo \in Units /\ got \in Units /\ Len(kin) \in Nat
  BY WorldFields, SockFields DEF Base
<1>2. k \in 0 .. Len(kin)
  OBVIOUS
<1>3. Cat(Cat(got, <<>>), Cat(kin, todo)) = Whole(w.x)
  BY DEF Tunnels, Coming
<1>4. q = [p EXCEPT !.b2c = r] /\ v.c = w.c /\ v.b = [w.b EXCEPT !.kin = d] /\ v.x = w.x
  BY <1>1 DEF Worlds, TunnelFilled
<1> HIDE DEF kin, todo, got
<1>5. r \in Units /\ d \in Units /\ Len(d) = Len(kin) - k
  BY <1>1, <1>2, Cutting
<1>6. Cat(Cat(got, r), Cat(d, todo)) = Whole(w.x)
  <2> DEFINE none == <<>>
  <2>1. none \in Units /\ Cat(none, r) = r
    BY <1>5, CatBasics
  <2>2. Cat(Cat(got, none), Cat(kin, todo)) = Whole(w.x)
    BY <1>3
  <2> HIDE DEF none
  <2>3. Cat(Cat(got, Cat(none, Take(kin, k))), Cat(Drop(kin, k), todo)) = Cat(Cat(got, none), Cat(kin, todo))
    BY <1>1, <1>2, <2>1, ReadFront
  <2> QED
    BY <2>1, <2>2, <2>3
<1> HIDE DEF r, d, p, q
<1>7. /\ q \in Proxy(w.x) /\ q.b2c = r /\ q.c2b = p.c2b /\ q.reqLines = p.reqLines
      /\ q.reqSize = p.reqSize /\ q.resSize = p.resSize /\ q.upgrade = p.upgrade
      /\ q.headerSent = p.headerSent /\ q.state = p.state
  BY <1>1, <1>4, <1>5 DEF Proxy
<1>8. /\ v.b \in Sock /\ v.b.kin = d /\ v.b.todo = w.b.todo /\ v.b.got = w.b.got /\ v.b.read = w.b.read
      /\ v.b.pend = w.b.pend
  <2> HIDE DEF v
  <2> QED
    BY <1>1, <1>4, <1>5 DEF Sock
<1>9. v \in Worlds(v.x)
  BY <1>1, <1>4, <1>7, <1>8 DEF Worlds, TunnelFilled, q
<1> HIDE DEF v
<1>10. SockOK(v.b) /\ v.b.pend = 0
  <2>1. w.b.pend = 0 /\ SockOK(w.b)
    BY DEF Base
  <2>2. Len(v.b.kin) \in Nat
    BY <1>8, SockFields
  <2> QED
    BY <1>8, <2>1, <2>2 DEF SockOK
<1>11. Base(v) /\ Held(v) /\ In(v, "TUNNEL")
  BY <1>4, <1>7, <1>8, <1>9, <1>10 DEF Base, Safe, Held, In, p, q
<1>12. Passing(v, v.p.c2b)
  BY <1>4, <1>7, <1>8 DEF Tunnels, Passing, p, q
<1>13. Cat(Cat(v.c.got, v.p.b2c), Coming(v.b)) = Whole(v.x)
  BY <1>4, <1>6, <1>7, <1>8 DEF Coming, got, todo, q
<1>14. Tunnels(v)
  BY <1>4, <1>7, <1>12, <1>13 DEF Tunnels, p, q
<1> QED
  BY <1>11, <1>14 DEF v

LEMMA TunnelFlushedOK ==
    ASSUME NEW x, NEW w, NEW v, Base(v), Held(v), Tunnels(v), In(v, "TUNNEL"), Of(v, x), NEW n \in Nat,
           w.p.resSize \in Nat
    PROVE  BytesOK(TunnelFlushed(w, v, n)) /\ Of(TunnelFlushed(w, v, n), x)
<1> DEFINE k == Least(w.p.resSize, Len(v.b.kin))
           u == TunnelFilled(v, k)
           f == proxy_tunnel_flush_b2c(u)
<1>1. TunnelFlushed(w, v, n) =
        IF w.p.c2b # <<>> /\ v.p.c2b = <<>> /\ v.c.pend > 0 THEN TunnelClient(v, n)
        ELSE IF v.p.b2c # <<>> THEN proxy_tunnel_update_events(v)
        ELSE IF k = 0 THEN (IF w.b.gone THEN Done(v) ELSE proxy_tunnel_update_events(v))
        ELSE IF w.c.gone THEN Fail(u)
        ELSE proxy_tunnel_update_events(f)
  BY DEF TunnelFlushed, TunnelFilled, Take, Drop
<1>2. BytesOK(TunnelClient(v, n)) /\ Of(TunnelClient(v, n), x)
  BY TunnelClientOK
<1>3. BytesOK(proxy_tunnel_update_events(v)) /\ Of(proxy_tunnel_update_events(v), x)
  BY TunnelOK, TunnelOf DEF In
<1>4. BytesOK(Done(v)) /\ Of(Done(v), x)
  BY DoneOK, FailOf
<1>5. CASE v.p.b2c # <<>>
  BY <1>1, <1>2, <1>3, <1>5
<1>6. CASE v.p.b2c = <<>>
  <2>1. Len(v.b.kin) \in Nat
    BY WorldFields, SockFields DEF Base
  <2>2. k \in 0 .. Len(v.b.kin)
    BY <2>1 DEF Least
  <2> HIDE DEF k
  <2>3. Base(u) /\ Held(u) /\ Tunnels(u) /\ In(u, "TUNNEL")
    BY <1>6, <2>2, TunnelFilledOK
  <2>4. Of(u, x)
    BY DEF Of, TunnelFilled
  <2> HIDE DEF u
  <2>5. BytesOK(Fail(u)) /\ Of(Fail(u), x)
    BY <2>3, <2>4, FailOK, FailOf DEF Tunnels
  <2>6. Base(f) /\ Held(f) /\ Tunnels(f) /\ In(f, "TUNNEL") /\ Of(f, x)
    BY <2>3, <2>4, FlushB2C, TunnelOf DEF In
  <2> HIDE DEF f
  <2>7. BytesOK(proxy_tunnel_update_events(f)) /\ Of(proxy_tunnel_update_events(f), x)
    BY <2>6, TunnelOK, TunnelOf DEF In
  <2> QED
    BY <1>1, <1>2, <1>3, <1>4, <2>5, <2>7
<1> QED
  BY <1>5, <1>6

LEMMA BackendHandlerOK ==
    ASSUME NEW x, NEW w, BytesOK(w), Of(w, x), NEW n \in Nat, NEW outcome
    PROVE  LET v == reverse_proxy_backend_handler(w, n, outcome)
           IN  BytesOK(v) /\ Of(v, x)
<1>1. CASE w.p.state = "SEND"
  <2>1. Base(w) /\ Held(w) /\ Sends(w)
    BY <1>1, ByState
  <2> QED
    BY <1>1, <2>1, SendToBackendOK, SendToBackendOf DEF reverse_proxy_backend_handler
<1>2. CASE w.p.state = "RECV_RES_HEADER"
  <2>1. Base(w) /\ Held(w) /\ Awaits(w) /\ In(w, "RECV_RES_HEADER")
    BY <1>2, ByState
  <2> QED
    BY <1>2, <2>1, RecvHeaderOK, RecvHeaderOf DEF reverse_proxy_backend_handler
<1>3. CASE w.p.state = "STREAMING"
  <2>1. Base(w) /\ Held(w) /\ Streams(w) /\ Begun(w) /\ In(w, "STREAMING")
    BY <1>3, ByState DEF In
  <2> QED
    BY <1>3, <2>1, RecvStreamOK, RecvStreamOf DEF reverse_proxy_backend_handler
<1>4. CASE w.p.state = "TUNNEL"
  <2> DEFINE v == proxy_tunnel_flush_c2b(w)
  <2>1. Base(w) /\ Held(w) /\ Tunnels(w) /\ In(w, "TUNNEL")
    BY <1>4, ByState
  <2>2. reverse_proxy_backend_handler(w, n, outcome) \in {Fail(w), TunnelFlushed(w, v, n)}
    BY <1>4 DEF reverse_proxy_backend_handler, TunnelBackend
  <2>3. Base(v) /\ Held(v) /\ Tunnels(v) /\ In(v, "TUNNEL") /\ Of(v, x)
    BY <2>1, FlushC2B, TunnelOf DEF In
  <2> HIDE DEF v
  <2>4. w.p.resSize \in Nat
    BY <2>1, WorldFields, ProxyFields DEF Base
  <2>5. BytesOK(TunnelFlushed(w, v, n)) /\ Of(TunnelFlushed(w, v, n), x)
    BY <2>3, <2>4, TunnelFlushedOK
  <2>6. BytesOK(Fail(w)) /\ Of(Fail(w), x)
    BY <2>1, FailOK, FailOf DEF Tunnels
  <2> QED
    BY <2>2, <2>5, <2>6
<1>5. CASE w.p.state \notin {"SEND", "RECV_RES_HEADER", "STREAMING", "TUNNEL"}
  BY <1>5 DEF reverse_proxy_backend_handler
<1> QED
  BY <1>1, <1>2, <1>3, <1>4, <1>5
---------------------------------------------------------------------------
(* The dispatch of events.                                                 *)

LEMMA CleanupStill ==
    ASSUME NEW w, w \in Worlds(w.x)
    PROVE  LET v == proxy_cleanup_connection(w)
           IN  Still(w, v) /\ v.p.state = "RELEASED"
<1> DEFINE v == proxy_cleanup_connection(w)
           F == FALSE
           e == "none"
           st == "RELEASED"
<1>1. w.p \in Proxy(w.x) /\ w.c \in Sock /\ w.b \in Sock
  BY WorldFields
<1>2. F \in BOOLEAN /\ e \in Events /\ st \in States
  <2>1. e \in Events /\ st \in States
    BY DEF Events, States
  <2> QED
    BY <2>1, Zenon
<1>3. /\ v.p = [w.p EXCEPT !.state = st] /\ v.c = [w.c EXCEPT !.ev = e, !.handle = F, !.open = F]
      /\ v.b = [w.b EXCEPT !.ev = e, !.open = F] /\ v.x = w.x
  BY DEF proxy_cleanup_connection, Worlds
<1> HIDE DEF F, e, st
<1>4. v.p \in Proxy(w.x) /\ SameProxy(w.p, v.p) /\ v.p.state = st
  BY <1>1, <1>2, <1>3, StateSame
<1>5. SameSock(w.c, v.c)
  BY <1>1, <1>2, <1>3, ZenonT(60) DEF Sock, SameSock
<1>6. SameSock(w.b, v.b)
  BY <1>1, <1>2, <1>3 DEF Sock, SameSock
<1>7. v \in Worlds(w.x)
  <2>1. v.c \in Sock /\ v.b \in Sock
    BY <1>5, <1>6 DEF SameSock
  <2> QED
    BY <1>3, <1>4, <2>1 DEF Worlds, proxy_cleanup_connection
<1> QED
  BY <1>3, <1>4, <1>5, <1>6, <1>7 DEF Still, st

LEMMA CleanupOK ==
    ASSUME NEW w, BytesOK(w)
    PROVE  BytesOK(proxy_cleanup_connection(w))
<1>1. Base(w) /\ w \in Worlds(w.x)
  BY DEF BytesOK, Base
<1>2. LET v == proxy_cleanup_connection(w)
      IN  Still(w, v) /\ v.p.state = "RELEASED"
  BY <1>1, CleanupStill
<1> QED
  BY <1>1, <1>2, Ended

Calls(x) == {r \in Rounds(x) : BytesOK(r.w)}

LEMMA CalledIn ==
    ASSUME NEW x, NEW w, NEW v, BytesOK(v), Of(v, x)
    PROVE  Called(w, v) \in Calls(x)
<1> DEFINE read == Len(v.c.kin) < Len(w.c.kin) /\ v.c.handle
           m == read /\ ~v.c.close /\ v.c.pend > 0
           a == proxy_cleanup_connection(v)
           b == [v EXCEPT !.c = WebserverSSLPending(@)]
           u == IF v.c.close THEN a ELSE IF read THEN b ELSE v
<1>1. Called(w, v) = [w |-> u, more |-> m]
  BY DEF Called
<1>2. m \in BOOLEAN
  OBVIOUS
<1>3. BytesOK(a) /\ Of(a, x)
  BY CleanupOK, CleanupOf
<1>4. BytesOK(b) /\ Of(b, x)
  <2>1. Of(b, x)
    BY DEF Of
  <2> QED
    BY <2>1, PendingOK
<1> HIDE DEF a, b, m
<1>5. BytesOK(u) /\ Of(u, x)
  BY <1>3, <1>4
<1> HIDE DEF u
<1>6. u.x = x
  BY <1>5 DEF Of
<1>7. Called(w, v) \in Rounds(x) /\ Called(w, v).w = u
  BY <1>1, <1>2, <1>5, <1>6, RoundOf
<1> QED
  BY <1>5, <1>7 DEF Calls

CallStep(r, n, outcome) == IF r.more THEN Called(r.w, reverse_proxy_client_handler(r.w, n, outcome)) ELSE r

LEMMA CallStepIn ==
    ASSUME NEW x, NEW r \in Calls(x), NEW n \in Nat, NEW outcome
    PROVE  CallStep(r, n, outcome) \in Calls(x)
<1>1. CASE r.more
  <2> DEFINE w == r.w
             v == reverse_proxy_client_handler(w, n, outcome)
  <2>1. BytesOK(w) /\ w \in Worlds(x)
    BY DEF Calls, Rounds
  <2> HIDE DEF w
  <2>2. Of(w, x)
    BY <2>1 DEF Of, Worlds
  <2>3. BytesOK(v) /\ Of(v, x)
    BY <2>1, <2>2, ClientHandlerOK
  <2> HIDE DEF v
  <2>4. Called(w, v) \in Calls(x)
    BY <2>3, CalledIn
  <2> QED
    BY <1>1, <2>4 DEF CallStep, v, w
<1>2. CASE ~r.more
  BY <1>2 DEF CallStep
<1> QED
  BY <1>1, <1>2

(* The loop of run_extern_handler(), round by round.                       *)
CallRound(w, n, outcome, N, g) ==
  /\ g[0] = [w |-> w, more |-> TRUE]
  /\ \A i \in 1 .. N : g[i] = CallStep(g[i - 1], n, outcome)
  /\ \A i \in 0 .. N : g[i] \in Calls(w.x)
  /\ run_extern_handler(w, n, outcome) = g[N].w

LEMMA CallRounds ==
    ASSUME NEW w, BytesOK(w), NEW n \in Nat, NEW outcome
    PROVE  \E g : CallRound(w, n, outcome, Len(w.c.kin) + 1, g)
<1> DEFINE N == Len(w.c.kin) + 1
           m == TRUE
           a == [w |-> w, more |-> m]
           S == Calls(w.x)
           H == [r \in S |-> CallStep(r, n, outcome)]
           g == CHOOSE g : g = [i \in 0 .. N |-> IF i = 0 THEN a ELSE CallStep(g[i - 1], n, outcome)]
<1>1. N \in Nat
  BY WorldFields, SockFields DEF BytesOK, Base
<1>2. run_extern_handler(w, n, outcome) = g[N].w
  BY DEF run_extern_handler, CallStep
<1>3. m \in BOOLEAN
  OBVIOUS
<1>4. a = [w |-> w, more |-> TRUE]
  OBVIOUS
<1> HIDE DEF m
<1>5. a \in S
  <2>1. a \in Rounds(w.x) /\ a.w = w /\ a.more = m
    BY <1>3, RoundOf
  <2> QED
    BY <2>1 DEF Calls
<1> HIDE DEF a, S, N
<1>6. \A r \in S : CallStep(r, n, outcome) \in S
  BY CallStepIn DEF S
<1>7. H \in [S -> S] /\ \A r \in S : H[r] = CallStep(r, n, outcome)
  BY <1>6
<1> HIDE DEF H
<1>8. PICK f \in Runs(N, S) : f[0] = a /\ \A i \in 1 .. N : f[i - 1] \in S /\ f[i] = H[f[i - 1]]
  <2> HIDE DEF g
  <2>1. H \in [S -> S]
    BY <1>7
  <2> QED
    BY <1>1, <1>5, <2>1, Loops
<1>9. \A i \in 1 .. N : f[i] = CallStep(f[i - 1], n, outcome)
  BY <1>7, <1>8
<1>10. f = [i \in 0 .. N |-> IF i = 0 THEN a ELSE CallStep(f[i - 1], n, outcome)]
  BY <1>1, <1>8, <1>9 DEF Runs
<1>11. g = [i \in 0 .. N |-> IF i = 0 THEN a ELSE CallStep(g[i - 1], n, outcome)]
  BY <1>10
<1> HIDE DEF g
<1>12. g[0] = a /\ \A i \in 1 .. N : g[i] = CallStep(g[i - 1], n, outcome)
  BY <1>1, <1>11
<1>13. \A i \in 0 .. N : g[i] \in S
  BY <1>1, <1>5, <1>6, <1>12, StaysIn
<1> QED
  BY <1>2, <1>4, <1>12, <1>13 DEF S, N, CallRound

LEMMA ExternHandlerOK ==
    ASSUME NEW w, BytesOK(w), NEW n \in Nat, NEW outcome
    PROVE  BytesOK(run_extern_handler(w, n, outcome)) /\ Of(run_extern_handler(w, n, outcome), w.x)
<1> DEFINE N == Len(w.c.kin) + 1
<1>1. N \in 0 .. N
  BY WorldFields, SockFields DEF BytesOK, Base
<1>2. PICK g : CallRound(w, n, outcome, N, g)
  BY CallRounds
<1> HIDE DEF N
<1>3. BytesOK(g[N].w) /\ g[N].w \in Worlds(w.x)
  BY <1>1, <1>2 DEF CallRound, Calls, Rounds
<1>4. Of(g[N].w, w.x)
  BY <1>3 DEF Of, Worlds
<1> QED
  BY <1>2, <1>3, <1>4 DEF CallRound

LEMMA CreateOK ==
    ASSUME NEW w, BytesOK(w), In(w, "IDLE"), NEW n \in Nat
    PROVE  BytesOK(proxy_create_connection(w, n))
<1> DEFINE kin == w.c.kin
           todo == w.c.todo
           space == HeaderBuf
           k == Taken(w.c, space)
           s == WebserverRecv(w.c, space, n)
           T == TRUE
           t == [s EXCEPT !.handle = T]
           r == Take(kin, k)
           st == "RECV_REQ_HEADER"
           v == [w EXCEPT !.p.state = st, !.p.req = r, !.c = t]
           p == w.p
           q == v.p
<1>1. proxy_create_connection(w, n) = v
  BY DEF proxy_create_connection, Take
<1>2. Base(w) /\ Collects(w) /\ w.p.req = <<>>
  BY ByState DEF In
<1>3. /\ w \in Worlds(w.x) /\ p \in Proxy(w.x) /\ w.c \in Sock /\ w.b \in Sock /\ SockOK(w.c)
      /\ kin \in Units /\ todo \in Units /\ Len(kin) \in Nat
  BY <1>2, WorldFields, SockFields DEF Base
<1>4. space \in Nat /\ space < BufferSize /\ BufferSize \in Nat
  BY Sizes
<1>5. Cat(kin, todo) = w.x.req.units
  <2>1. Cat(<<>>, Coming(w.c)) = w.x.req.units /\ Coming(w.c) \in Units
    BY <1>2, <1>3, SockFields DEF Collects
  <2> QED
    BY <2>1, CatBasics DEF Coming
<1>6. T \in BOOLEAN /\ st \in States
  BY DEF States
<1> HIDE DEF kin, todo, space, T, st
<1>7. /\ k \in 0 .. Len(kin) /\ k <= space /\ s \in Sock /\ SockOK(s) /\ s.kin = Drop(kin, k) /\ s.todo = todo
      /\ s.got = w.c.got /\ s.handle = w.c.handle /\ s.close = w.c.close
  <2>1. w.c \in Sock /\ SockOK(w.c)
    BY <1>3
  <2> QED
    BY <1>4, <2>1, Reading, ZenonT(60) DEF kin, todo
<1> HIDE DEF k, s
<1>8. SameSock(s, t) /\ t.handle = T
  BY <1>6, <1>7 DEF Sock, SameSock
<1>9. t \in Sock /\ SockOK(t) /\ Coming(t) = Cat(Drop(kin, k), todo) /\ t.got = w.c.got
  BY <1>7, <1>8 DEF SameSock, SockOK, Coming
<1>10. r \in Units /\ Len(r) = k
  BY <1>3, <1>7, Cutting
<1> HIDE DEF t
<1>11. Cat(r, Coming(t)) = w.x.req.units
  <2>1. r \in Units /\ Drop(kin, k) \in Units /\ Cat(r, Drop(kin, k)) = kin
    BY <1>3, <1>7, Cutting
  <2>2. Cat(r, Cat(Drop(kin, k), todo)) = Cat(Cat(r, Drop(kin, k)), todo)
    <3> HIDE DEF r
    <3> QED
      BY <1>3, <2>1, CatAssoc
  <2> QED
    BY <1>5, <1>9, <2>1, <2>2
<1> HIDE DEF r
<1>12. q = [p EXCEPT !.state = st, !.req = r] /\ v.c = t /\ v.b = w.b /\ v.x = w.x
  BY <1>3 DEF Worlds
<1> HIDE DEF v, p, q
<1>13. /\ q \in Proxy(w.x) /\ q.req = r /\ q.state = st /\ q.reqLines = p.reqLines /\ q.reqSize = p.reqSize
       /\ q.resSize = p.resSize /\ q.upgrade = p.upgrade /\ q.res = p.res
       /\ q.headerSent = p.headerSent /\ q.sendPos = p.sendPos
  BY <1>3, <1>6, <1>10, <1>12 DEF Proxy
<1>14. v \in Worlds(v.x)
  BY <1>3, <1>9, <1>12, <1>13 DEF Worlds, v, q
<1>15. Base(v)
  BY <1>2, <1>9, <1>12, <1>13, <1>14 DEF Base, Safe, p, q
<1>16. Held(v) /\ In(v, "RECV_REQ_HEADER")
  BY <1>8, <1>12, <1>13 DEF Held, In, T, st, q
<1>17. Len(v.p.req) <= v.p.reqSize
  <2>1. v.p.reqSize \in Nat /\ v.p.reqSize >= BufferSize
    BY <1>15, WorldFields, ProxyFields DEF Base
  <2>2. Len(v.p.req) = k /\ k \in Nat
    BY <1>7, <1>10, <1>13 DEF q
  <2> QED
    BY <1>4, <1>7, <2>1, <2>2
<1>18. Unanswered(v)
  BY <1>2, <1>9, <1>12, <1>13 DEF Collects, Unanswered, p, q
<1>19. Collects(v)
  BY <1>2, <1>11, <1>12, <1>13, <1>17, <1>18 DEF Collects, p, q
<1>20. BytesOK(v)
  BY <1>15, <1>16, <1>19 DEF BytesOK, InState, In
<1> QED
  BY <1>1, <1>20

LEMMA EvOK ==
    ASSUME NEW w, BytesOK(w), NEW e \in Events
    PROVE  LET v == [w EXCEPT !.c.ev = e] IN BytesOK(v) /\ v.p = w.p /\ Of(v, w.x)
<1> DEFINE v == [w EXCEPT !.c.ev = e]
<1>1. w \in Worlds(w.x) /\ w.p \in Proxy(w.x) /\ w.c \in Sock /\ w.b \in Sock
  BY WorldFields DEF BytesOK, Base
<1>2. v.p = w.p /\ v.c = [w.c EXCEPT !.ev = e] /\ v.b = w.b /\ v.x = w.x
  BY <1>1 DEF Worlds
<1> HIDE DEF v
<1>3. SameSock(w.c, v.c) /\ v.c.handle = w.c.handle /\ v.c.close = w.c.close
  BY <1>1, <1>2, EvSame
<1>4. v \in Worlds(w.x)
  BY <1>1, <1>2, <1>3 DEF Worlds, SameSock, v
<1>5. Still(w, v)
  BY <1>1, <1>2, <1>3, <1>4, NoneChanged DEF Still
<1>6. BytesOK(v)
  BY <1>2, <1>3, <1>5, StillBytes DEF Held
<1>7. Of(v, w.x)
  BY <1>4 DEF Of, Worlds
<1> QED
  BY <1>2, <1>6, <1>7 DEF v

LEMMA CheckOK ==
    ASSUME NEW x, NEW w, BytesOK(w), In(w, "IDLE"), Of(w, x), NEW n \in Nat, NEW outcome
    PROVE  BytesOK(checkReverseProxy(w, n, outcome)) /\ Of(checkReverseProxy(w, n, outcome), x)
<1> DEFINE a == proxy_create_connection(w, n)
           b == proxy_process_state(a, outcome)
           c == AwaitRequest(b)
           d == [c EXCEPT !.c = WebserverSSLPending(@)]
           e == run_extern_handler(d, n, outcome)
<1>1. checkReverseProxy(w, n, outcome) \in {d, e}
  BY DEF checkReverseProxy, HandlePending
<1>2. BytesOK(a) /\ Of(a, x)
  BY CreateOK, CreateOf
<1> HIDE DEF a
<1>3. BytesOK(b) /\ Of(b, x)
  BY <1>2, ProcessOK, ProcessOf
<1> HIDE DEF b
<1>4. BytesOK(c) /\ Of(c, x)
  <2> DEFINE f == "read"
             b1 == [b EXCEPT !.c.ev = f]
  <2>1. f \in Events
    BY DEF Events
  <2>2. c \in {b, b1}
    BY DEF AwaitRequest
  <2> HIDE DEF f, c
  <2>3. BytesOK(b1)
    BY <1>3, <2>1, EvOK
  <2>4. Of(c, x)
    BY <1>3, CreateOf DEF c
  <2> QED
    BY <1>3, <2>2, <2>3, <2>4
<1> HIDE DEF c
<1>5. BytesOK(d)
  BY <1>4, PendingOK
<1>6. Of(d, x)
  BY <1>4 DEF Of
<1> HIDE DEF d
<1>7. BytesOK(e) /\ Of(e, x)
  <2>1. d.x = x
    BY <1>6 DEF Of
  <2> QED
    BY <1>5, <2>1, ExternHandlerOK
<1> HIDE DEF e
<1> QED
  BY <1>1, <1>5, <1>6, <1>7

LEMMA DispatchClientOK ==
    ASSUME NEW x, NEW w, BytesOK(w), Of(w, x), NEW n \in Nat, NEW outcome
    PROVE  BytesOK(DispatchClient(w, n, outcome)) /\ Of(DispatchClient(w, n, outcome), x)
<1> DEFINE none == "none"
           v == [w EXCEPT !.c.ev = none]
           a == run_extern_handler(w, n, outcome)
           b == proxy_cleanup_connection(w)
<1>1. w.x = x
  BY DEF Of
<1>2. BytesOK(a) /\ Of(a, x)
  BY <1>1, ExternHandlerOK
<1>3. BytesOK(b) /\ Of(b, x)
  BY CleanupOK, CleanupOf
<1>4. CASE w.p.state # "RELEASED" /\ ~w.c.handle /\ ~w.c.close
  <2>1. In(w, "IDLE")
    BY <1>4 DEF BytesOK, Held, In
  <2>2. none \in Events
    BY DEF Events
  <2>3. DispatchClient(w, n, outcome) \in {b, checkReverseProxy(v, n, outcome)}
    BY <1>4 DEF DispatchClient
  <2> HIDE DEF none
  <2>4. BytesOK(v) /\ v.p = w.p /\ Of(v, x)
    BY <1>1, <2>2, EvOK
  <2> HIDE DEF v, b
  <2>5. In(v, "IDLE")
    BY <2>1, <2>4 DEF In
  <2>6. BytesOK(checkReverseProxy(v, n, outcome)) /\ Of(checkReverseProxy(v, n, outcome), x)
    BY <2>4, <2>5, CheckOK
  <2> QED
    BY <1>3, <2>3, <2>6
<1>5. CASE ~(w.p.state # "RELEASED" /\ ~w.c.handle /\ ~w.c.close)
  <2>1. DispatchClient(w, n, outcome) \in {w, a, b}
    BY <1>5 DEF DispatchClient
  <2> HIDE DEF a, b
  <2> QED
    BY <1>2, <1>3, <2>1
<1> QED
  BY <1>4, <1>5

LEMMA DispatchBackendOK ==
    ASSUME NEW x, NEW w, BytesOK(w), Of(w, x), NEW n \in Nat, NEW outcome
    PROVE  BytesOK(DispatchBackend(w, n, outcome)) /\ Of(DispatchBackend(w, n, outcome), x)
  BY BackendHandlerOK DEF DispatchBackend
---------------------------------------------------------------------------
(* The peers, and the theorem.                                             *)

(* What a peer does to its socket: sends, reads, leaves.                   *)
Peered(s, t) ==
  /\ t \in Sock /\ SockOK(t) /\ Coming(t) = Coming(s) /\ t.got = s.got /\ t.pend = s.pend
  /\ t.handle = s.handle /\ t.close = s.close

LEMMA PeersKeep ==
    ASSUME NEW w, NEW v, BytesOK(w), v \in Worlds(w.x), v.p = w.p, Peered(w.c, v.c), Peered(w.b, v.b)
    PROVE  BytesOK(v)
<1>1. v.x = w.x
  BY WorldFields
<1>2. Base(v)
  BY <1>1 DEF BytesOK, Base, Safe, Peered
<1>3. Held(v) <=> Held(w)
  BY DEF Held, Peered
<1>4. \A mid : Passing(w, mid) => Passing(v, mid)
  BY <1>1 DEF Passing, Peered
<1>5. Unanswered(w) => Unanswered(v)
  BY <1>1 DEF Unanswered, Peered
<1>6. Collects(w) => Collects(v)
  BY <1>1, <1>5 DEF Collects, Peered
<1>7. HasHeader(w) => HasHeader(v)
  BY <1>1 DEF HasHeader
<1>8. Sends(w) => Sends(v)
  BY <1>1, <1>4, <1>5 DEF Sends
<1>9. Awaits(w) => Awaits(v)
  BY <1>4, <1>5 DEF Awaits
<1>10. Streams(w) => Streams(v)
  BY <1>1, <1>4 DEF Streams, Peered
<1>11. Tunnels(w) => Tunnels(v)
  BY <1>1, <1>4 DEF Tunnels, Peered
<1>12. InState(v)
  BY <1>6, <1>7, <1>8, <1>9, <1>10, <1>11 DEF BytesOK, InState
<1> QED
  BY <1>2, <1>3, <1>12 DEF BytesOK

LEMMA PeerSends ==
    ASSUME NEW s \in Sock, SockOK(s), NEW n \in Some(Len(s.todo)),
           NEW t, t = [s EXCEPT !.kin = @ \o SubSeq(s.todo, 1, n), !.todo = SubSeq(@, n + 1, Len(@))]
    PROVE  Peered(s, t)
<1> DEFINE kin == s.kin
           todo == s.todo
           r == Cat(kin, Take(todo, n))
           d == Drop(todo, n)
<1>1. kin \in Units /\ todo \in Units /\ Len(kin) \in Nat /\ Len(todo) \in Nat /\ s.pend \in Nat
  BY SockFields, SeqBasics
<1>2. n \in 0 .. Len(todo)
  BY <1>1 DEF Some
<1>3. t = [s EXCEPT !.kin = r, !.todo = d]
  BY DEF Cat, Take, Drop
<1> HIDE DEF kin, todo
<1>4. Take(todo, n) \in Units /\ d \in Units /\ Cat(Take(todo, n), d) = todo
  BY <1>1, <1>2, Cutting
<1>5. r \in Units /\ Len(r) = Len(kin) + Len(Take(todo, n)) /\ Len(Take(todo, n)) \in Nat
  BY <1>1, <1>4, CatBasics
<1>6. Cat(r, d) = Cat(kin, todo)
  BY <1>1, <1>2, SendFront
<1> HIDE DEF r, d
<1>7. /\ t \in Sock /\ t.kin = r /\ t.todo = d /\ t.got = s.got /\ t.pend = s.pend /\ t.read = s.read
      /\ t.handle = s.handle /\ t.close = s.close
  BY <1>3, <1>4, <1>5 DEF Sock
<1>8. Coming(t) = Coming(s)
  BY <1>6, <1>7 DEF Coming, kin, todo
<1>9. SockOK(t)
  <2>1. s.pend <= Len(kin)
    BY DEF SockOK, kin
  <2>2. s.pend <= Len(r)
    <3> DEFINE i == s.pend
               j == Len(kin)
               l == Len(Take(todo, n))
    <3>1. i \in Nat /\ j \in Nat /\ l \in Nat /\ i <= j /\ Len(r) = j + l
      BY <1>1, <1>5, <2>1
    <3> HIDE DEF i, j, l
    <3>2. i <= Len(r)
      BY <3>1
    <3> QED
      BY <3>2 DEF i
  <2>3. t.pend <= Len(t.kin)
    BY <1>7, <2>2
  <2> QED
    BY <1>7, <2>3 DEF SockOK
<1> QED
  BY <1>7, <1>8, <1>9 DEF Peered

LEMMA PeerReads ==
    ASSUME NEW s \in Sock, SockOK(s), NEW t, t = [s EXCEPT !.read = Len(s.got)]
    PROVE  Peered(s, t)
<1> DEFINE l == Len(s.got)
<1>1. l \in Nat
  BY SockFields
<1>2. t = [s EXCEPT !.read = l]
  OBVIOUS
<1> HIDE DEF l
<1>3. /\ t \in Sock /\ t.kin = s.kin /\ t.todo = s.todo /\ t.got = s.got /\ t.pend = s.pend /\ t.read = l
      /\ t.handle = s.handle /\ t.close = s.close
  BY <1>1, <1>2 DEF Sock
<1>4. SockOK(t)
  <2>1. Len(t.got) = l
    BY <1>3 DEF l
  <2> QED
    BY <1>1, <1>3, <2>1, WindowAssumption DEF SockOK
<1> QED
  BY <1>3, <1>4 DEF Peered, Coming

LEMMA PeerLeaves ==
    ASSUME NEW s \in Sock, SockOK(s), NEW g \in BOOLEAN, NEW f \in BOOLEAN, NEW t,
           t = [s EXCEPT !.gone = g, !.fin = f] \/ t = [s EXCEPT !.gone = g] \/ t = [s EXCEPT !.fin = f] \/ t = s
    PROVE  Peered(s, t)
<1>1. /\ t \in Sock /\ t.kin = s.kin /\ t.todo = s.todo /\ t.got = s.got /\ t.pend = s.pend /\ t.read = s.read
      /\ t.handle = s.handle /\ t.close = s.close
  <2>1. CASE t = [s EXCEPT !.gone = g, !.fin = f]
    BY <2>1 DEF Sock
  <2>2. CASE t = [s EXCEPT !.gone = g]
    BY <2>2 DEF Sock
  <2>3. CASE t = [s EXCEPT !.fin = f]
    BY <2>3 DEF Sock
  <2>4. CASE t = s
    BY <2>4
  <2> QED
    BY <2>1, <2>2, <2>3, <2>4
<1> QED
  BY <1>1 DEF Peered, Coming, SockOK

LEMMA WorldRecord ==
    ASSUME NEW x, NEW v \in Worlds(x)
    PROVE  v = [p |-> v.p, c |-> v.c, b |-> v.b, x |-> v.x]
  BY DEF Worlds

LEMMA ToCome ==
    ASSUME NEW x \in Exchanges
    PROVE  Whole(x) \in Units /\ Forwarded(x) \in Units
<1> DEFINE req == x.req.units
           res == x.res.units
           i == x.req.hdr
           j == x.res.hdr
           n == i + Announced(x)
           F == "F"
           C == "C"
<1>1. req \in Units /\ res \in Units /\ i \in 1 .. Len(req) /\ j \in 1 .. Len(res) /\ Len(req) \in Nat
  BY MessageUnits, SeqBasics
<1>2. F \in Alphabet /\ C \in Alphabet
  BY DEF Alphabet
<1>3. Whole(x) \in {res, InsertBefore(res, j, C)}
  BY WholeIs
<1>4. /\ Announced(x) \in Nat /\ n <= Len(req)
      /\ Forwarded(x) \in {InsertBefore(req, i, F), InsertBefore(Take(req, n), i, F)}
  BY ForwardedIs
<1> HIDE DEF F, C, req, res, i, j
<1>5. InsertBefore(res, j, C) \in Units /\ InsertBefore(req, i, F) \in Units
  BY <1>1, <1>2, Inserting
<1>6. n \in 0 .. Len(req) /\ i \in 1 .. n
  BY <1>1, <1>4
<1> HIDE DEF n
<1>7. Take(req, n) \in Units /\ Len(Take(req, n)) = n
  BY <1>1, <1>6, Cutting
<1>8. InsertBefore(Take(req, n), i, F) \in Units
  <2> DEFINE f == Take(req, n)
  <2>1. f \in Units /\ i \in 1 .. Len(f)
    BY <1>6, <1>7
  <2> HIDE DEF f
  <2>2. InsertBefore(f, i, F) \in Units
    BY <1>2, <2>1, Inserting
  <2> QED
    BY <2>2 DEF f
<1> QED
  BY <1>1, <1>3, <1>4, <1>5, <1>8

LEMMA InitBytes ==
    ASSUME Init
    PROVE  BytesInv
<1> DEFINE x == exchange
           none == "none"
           once == "readonce"
           F == FALSE
           T == TRUE
           e == <<>>
<1>1. x \in Exchanges /\ x.req.units \in Units /\ x.res.units \in Units /\ x.tls \in BOOLEAN
  BY MessageUnits, ExchangesAre DEF Init
<1>2. none \in Events /\ once \in Events
  BY DEF Events
<1>3. F \in BOOLEAN /\ T \in BOOLEAN /\ e \in Units
  <2>1. e \in Units
    BY EmptySeq DEF Units
  <2> QED
    BY <2>1, Zenon
<1>4. /\ client = [todo |-> x.req.units, kin |-> e, pend |-> 0, known |-> F, got |-> e, read |-> 0, fin |-> F,
                   gone |-> F, shut |-> F, ev |-> once, close |-> F, handle |-> F, open |-> T, tls |-> x.tls]
  BY DEF Init, Socket
<1>5. /\ backend = [todo |-> x.res.units, kin |-> e, pend |-> 0, known |-> F, got |-> e, read |-> 0, fin |-> F,
                    gone |-> F, shut |-> F, ev |-> none, close |-> F, handle |-> F, open |-> F, tls |-> F]
  BY DEF Init, Socket
<1> HIDE DEF none, once, F, T
<1>6. client \in Sock /\ backend \in Sock
  <2> HIDE DEF e, x
  <2>1. client \in Sock
    BY <1>1, <1>2, <1>3, <1>4 DEF Sock
  <2>2. backend \in Sock
    BY <1>1, <1>2, <1>3, <1>5 DEF Sock
  <2> QED
    BY <2>1, <2>2
<1>7. /\ client.got = <<>> /\ client.kin = <<>> /\ client.pend = 0 /\ client.read = 0 /\ client.todo = x.req.units
      /\ backend.got = <<>> /\ backend.kin = <<>> /\ backend.pend = 0 /\ backend.read = 0
      /\ backend.todo = x.res.units
  BY <1>4, <1>5
<1>8. SockOK(client) /\ SockOK(backend)
  BY <1>7, WindowAssumption DEF SockOK
<1>9. Coming(client) = x.req.units /\ Coming(backend) = x.res.units
  BY <1>1, <1>7, CatBasics DEF Coming
<1> DEFINE st == "IDLE"
           un == ""
           md == "none"
           cs == "SIZE_START"
           k == [state |-> cs, size |-> 0]
           L == x.req.lines
<1>10. st \in States /\ un \in States \cup {""} /\ md \in Modes
  BY DEF States, Modes
<1>11. k \in Chunk
  <2>1. cs \in ChunkStates
    BY DEF ChunkStates
  <2> HIDE DEF cs
  <2> QED
    BY <2>1 DEF Chunk
<1>12. proxy = [state |-> st, ended |-> un, req |-> e, reqEnd |-> 0, reqLength |-> 0,
                reqSize |-> BufferSize, reqLines |-> L, sendPos |-> 0,
                res |-> e, resEnd |-> 0, resLength |-> 0, resSize |-> BufferSize,
                mode |-> md, bodySent |-> 0, upgrade |-> F, headerSent |-> F,
                chunk |-> k, c2b |-> e, b2c |-> e]
  BY DEF Init, F
<1>13. BufferSize \in Nat /\ L \in {x.req.lines, WithClose(x.req.lines)}
  BY Sizes
<1>14. proxy \in Proxy(x)
  <2> HIDE DEF e, x, st, un, md, k, L
  <2> QED
    BY <1>3, <1>10, <1>11, <1>12, <1>13 DEF Proxy
<1>15. /\ proxy.state = "IDLE" /\ proxy.req = <<>> /\ proxy.reqSize = BufferSize /\ proxy.resSize = BufferSize
       /\ proxy.reqLines = x.req.lines /\ proxy.sendPos = 0 /\ proxy.res = <<>> /\ proxy.upgrade = F
       /\ proxy.headerSent = F
  BY <1>12
<1>16. W.p = proxy /\ W.c = client /\ W.b = backend /\ W.x = x /\ W \in Worlds(x)
  BY <1>6, <1>14 DEF W, Worlds
<1> HIDE DEF x
<1>17. Safe(W)
  <2>1. Whole(x) \in Units /\ Forwarded(x) \in Units
    BY <1>1, ToCome
  <2> QED
    BY <1>7, <1>16, <2>1, NoneIsPrefix DEF Safe
<1>18. Base(W)
  BY <1>1, <1>7, <1>8, <1>13, <1>15, <1>16, <1>17 DEF Base, F
<1>19. Collects(W)
  <2>1. Unanswered(W)
    BY <1>1, <1>7, <1>9, <1>15, <1>16, CatBasics DEF Unanswered, F
  <2>2. Len(<<>>) = 0 /\ Cat(<<>>, x.req.units) = x.req.units
    BY <1>1, CatBasics
  <2> QED
    BY <1>7, <1>9, <1>13, <1>15, <1>16, <2>1, <2>2 DEF Collects
<1>20. InState(W)
  BY <1>15, <1>16, <1>19 DEF InState
<1> QED
  BY <1>15, <1>16, <1>18, <1>20 DEF BytesInv, BytesOK

LEMMA PeerStep ==
    ASSUME BytesInv, proxy' = proxy, exchange' = exchange,
           client' = client \/ Peered(client, client'), backend' = backend \/ Peered(backend, backend')
    PROVE  BytesInv'
<1> DEFINE v == [p |-> proxy, c |-> client', b |-> backend', x |-> exchange]
<1>1. /\ W \in Worlds(W.x) /\ W.x = exchange /\ W.p = proxy /\ W.c = client /\ W.b = backend
      /\ SockOK(client) /\ SockOK(backend) /\ client \in Sock /\ backend \in Sock /\ proxy \in Proxy(W.x)
  <2>1. W.x = exchange /\ W.p = proxy /\ W.c = client /\ W.b = backend
    BY DEF W
  <2> QED
    BY <2>1, WorldFields DEF BytesInv, BytesOK, Base
<1>2. Peered(client, client') /\ Peered(backend, backend')
  <2>1. Peered(client, client) /\ Peered(backend, backend)
    BY <1>1 DEF Peered
  <2> QED
    BY <2>1
<1>3. v.p = W.p /\ v.c = client' /\ v.b = backend' /\ v.x = W.x /\ v \in Worlds(W.x)
  <2>1. client' \in Sock /\ backend' \in Sock
    BY <1>2 DEF Peered
  <2> QED
    BY <1>1, <2>1 DEF Worlds
<1>4. W' = v
  BY DEF W
<1> HIDE DEF v
<1>5. Peered(W.c, v.c) /\ Peered(W.b, v.b)
  BY <1>1, <1>2, <1>3
<1>6. BytesOK(v)
  BY <1>3, <1>5, PeersKeep DEF BytesInv
<1> QED
  BY <1>4, <1>6 DEF BytesInv

LEMMA DispatchStep ==
    ASSUME BytesInv, NEW w, BytesOK(w), Of(w, exchange), Become(w)
    PROVE  BytesInv'
<1>1. w \in Worlds(w.x) /\ w.x = exchange
  BY DEF BytesOK, Base, Of
<1>2. w = [p |-> w.p, c |-> w.c, b |-> w.b, x |-> w.x]
  BY <1>1, WorldRecord
<1>3. W' = [p |-> w.p, c |-> w.c, b |-> w.b, x |-> w.x]
  BY <1>1 DEF W, Become
<1>4. W' = w
  BY <1>2, <1>3
<1> QED
  BY <1>4 DEF BytesInv

LEMMA RecordsNat ==
    Records \subseteq Nat
  BY Sizes DEF Records

LEMMA NextBytes ==
    ASSUME BytesInv, [Next]_vars
    PROVE  BytesInv'
<1>1. /\ BytesOK(W) /\ Of(W, exchange) /\ client \in Sock /\ backend \in Sock
      /\ SockOK(client) /\ SockOK(backend)
  <2>1. W.c = client /\ W.b = backend /\ Of(W, exchange)
    BY DEF W, Of
  <2> QED
    BY <2>1, WorldFields DEF BytesInv, BytesOK, Base
<1>2. CASE ClientSends
  <2>1. PICK n \in Some(Len(client.todo)) :
           client' = [client EXCEPT !.kin = @ \o SubSeq(client.todo, 1, n), !.todo = SubSeq(@, n + 1, Len(@))]
    BY <1>2 DEF ClientSends
  <2>2. Peered(client, client')
    BY <1>1, <2>1, PeerSends
  <2>3. proxy' = proxy /\ exchange' = exchange /\ backend' = backend
    BY <1>2 DEF ClientSends
  <2> QED
    BY <2>2, <2>3, PeerStep
<1>3. CASE ClientReads
  <2>1. client' = [client EXCEPT !.read = Len(client.got)]
    BY <1>3 DEF ClientReads
  <2>2. Peered(client, client')
    BY <1>1, <2>1, PeerReads
  <2>3. proxy' = proxy /\ exchange' = exchange /\ backend' = backend
    BY <1>3 DEF ClientReads
  <2> QED
    BY <2>2, <2>3, PeerStep
<1>4. CASE ClientLeaves
  <2> DEFINE T == TRUE
  <2>1. client' = [client EXCEPT !.gone = T] \/ client' = [client EXCEPT !.fin = T]
    BY <1>4 DEF ClientLeaves
  <2>2. T \in BOOLEAN
    OBVIOUS
  <2> HIDE DEF T
  <2>3. Peered(client, client')
    BY <1>1, <2>1, <2>2, PeerLeaves
  <2>4. proxy' = proxy /\ exchange' = exchange /\ backend' = backend
    BY <1>4 DEF ClientLeaves
  <2> QED
    BY <2>3, <2>4, PeerStep
<1>5. CASE BackendReads
  <2>1. backend' = [backend EXCEPT !.read = Len(backend.got)]
    BY <1>5 DEF BackendReads
  <2>2. Peered(backend, backend')
    BY <1>1, <2>1, PeerReads
  <2>3. proxy' = proxy /\ exchange' = exchange /\ client' = client
    BY <1>5 DEF BackendReads
  <2> QED
    BY <2>2, <2>3, PeerStep
<1>6. CASE BackendAnswers
  <2>1. PICK n \in Some(Len(backend.todo)) :
           backend' = [backend EXCEPT !.kin = @ \o SubSeq(backend.todo, 1, n), !.todo = SubSeq(@, n + 1, Len(@))]
    BY <1>6 DEF BackendAnswers
  <2>2. Peered(backend, backend')
    BY <1>1, <2>1, PeerSends
  <2>3. proxy' = proxy /\ exchange' = exchange /\ client' = client
    BY <1>6 DEF BackendAnswers
  <2> QED
    BY <2>2, <2>3, PeerStep
<1>7. CASE BackendCloses
  <2> DEFINE T == TRUE
             f == backend.read = Len(backend.got)
  <2>1. backend' = [backend EXCEPT !.gone = T, !.fin = f]
    BY <1>7 DEF BackendCloses
  <2>2. T \in BOOLEAN /\ f \in BOOLEAN
    OBVIOUS
  <2> HIDE DEF T, f
  <2>3. Peered(backend, backend')
    BY <1>1, <2>1, <2>2, PeerLeaves
  <2>4. proxy' = proxy /\ exchange' = exchange /\ client' = client
    BY <1>7 DEF BackendCloses
  <2> QED
    BY <2>3, <2>4, PeerStep
<1>8. CASE EpollWait
  <2>1. proxy' = proxy /\ exchange' = exchange /\ client' = client /\ backend' = backend
    BY <1>8 DEF EpollWait
  <2> QED
    BY <2>1, PeerStep
<1>9. CASE HandleClient
  <2>1. PICK n \in Records, o \in Outcomes : \E w \in {DispatchClient(W, n, o)} : Become(w)
    BY <1>9 DEF HandleClient
  <2> DEFINE w == DispatchClient(W, n, o)
  <2>2. Become(w)
    BY <2>1
  <2>3. n \in Nat
    BY RecordsNat
  <2>4. BytesOK(w) /\ Of(w, exchange)
    BY <1>1, <2>3, DispatchClientOK
  <2> HIDE DEF w
  <2> QED
    BY <2>2, <2>4, DispatchStep
<1>10. CASE HandleBackend
  <2>1. PICK n \in Records, o \in Outcomes : \E w \in {DispatchBackend(W, n, o)} : Become(w)
    BY <1>10 DEF HandleBackend
  <2> DEFINE w == DispatchBackend(W, n, o)
  <2>2. Become(w)
    BY <2>1
  <2>3. n \in Nat
    BY RecordsNat
  <2>4. BytesOK(w) /\ Of(w, exchange)
    BY <1>1, <2>3, DispatchBackendOK
  <2> HIDE DEF w
  <2> QED
    BY <2>2, <2>4, DispatchStep
<1>11. CASE Expire
  <2> DEFINE w == proxy_cleanup_connection(W)
  <2>1. Become(w)
    BY <1>11 DEF Expire
  <2>2. BytesOK(w) /\ Of(w, exchange)
    BY <1>1, CleanupOK, CleanupOf
  <2> HIDE DEF w
  <2> QED
    BY <2>1, <2>2, DispatchStep
<1>12. CASE UNCHANGED vars
  <2>1. proxy' = proxy /\ exchange' = exchange /\ client' = client /\ backend' = backend
    BY <1>12 DEF vars
  <2> QED
    BY <2>1, PeerStep
<1> QED
  BY <1>2, <1>3, <1>4, <1>5, <1>6, <1>7, <1>8, <1>9, <1>10, <1>11, <1>12 DEF Next

(* The invariant: at every moment each unit of the request and of the      *)
(* response is at exactly one place of its way (with the peer that has yet *)
(* to send it, in the kernel, in the buffer of the proxy's state, behind   *)
(* the position sent so far, or with the receiver), in order; and a        *)
(* connection that is in use has its handler set or is being closed.       *)
THEOREM BytesAccounted == Spec => []BytesInv
<1>1. Init => BytesInv
  BY InitBytes
<1>2. BytesInv /\ [Next]_vars => BytesInv'
  BY NextBytes
<1> QED
  BY <1>1, <1>2, PTL DEF Spec

---------------------------------------------------------------------------
(* The rewritten lines say Connection: close.                              *)
CloseLine == [name |-> "Connection", value |-> <<"close">>]

LEMMA CloseSaid ==
    ASSUME NEW S, NEW lines \in Seq(S)
    PROVE  \E i \in DOMAIN WithClose(lines) : WithClose(lines)[i] = CloseLine
<1> DEFINE cs == {i \in DOMAIN lines : lines[i].name = "Connection"}
           first == CHOOSE i \in cs : \A j \in cs : i <= j
           k == proxy_force_connection_close(lines)
<1>1. WithClose(lines) = IF k = 0 THEN Append(lines, CloseLine) ELSE [lines EXCEPT ![k] = CloseLine]
  BY DEF WithClose, CloseLine
<1>2. k = IF cs = {} \/ lines[first].value = <<"x">> THEN 0 ELSE first
  BY DEF proxy_force_connection_close
<1> HIDE DEF k
<1>3. DOMAIN lines = 1 .. Len(lines) /\ Len(lines) \in Nat
  BY LenProperties
<1>4. CASE k = 0
  <2> DEFINE c == CloseLine
             T == S \cup {c}
  <2>1. lines \in Seq(T) /\ c \in T
    BY SeqMonotonic
  <2> HIDE DEF c, T
  <2>2. Len(lines) + 1 \in DOMAIN Append(lines, c) /\ Append(lines, c)[Len(lines) + 1] = c
    BY <1>3, <2>1, AppendProperties
  <2> QED
    BY <1>1, <1>4, <2>2 DEF c
<1>5. CASE k # 0
  <2>1. cs # {} /\ k = first
    BY <1>2, <1>5
  <2>2. cs \subseteq Nat
    BY <1>3
  <2>3. \E i \in cs : \A j \in cs : i <= j
    <3> HIDE DEF cs
    <3> QED
      BY <2>1, <2>2, LeastOf
  <2>4. first \in cs
    BY <2>3
  <2>5. k \in DOMAIN lines
    BY <2>1, <2>4
  <2> HIDE DEF cs, first
  <2>6. k \in DOMAIN [lines EXCEPT ![k] = CloseLine] /\ [lines EXCEPT ![k] = CloseLine][k] = CloseLine
    BY <2>5
  <2> QED
    BY <1>1, <1>5, <2>6
<1> QED
  BY <1>4, <1>5

(* ForwardedOnce (reverse_proxy.c): whatever the exchange, the sizes of    *)
(* the buffers, the cuts of the data by the sockets and the order of the   *)
(* events, the backend gets a front part of the one rewritten request and  *)
(* the client one of the one rewritten response, or one error page.        *)
THEOREM ForwardedOnceHolds == Spec => []ForwardedOnce
<1>1. BytesInv => ForwardedOnce
  <2> SUFFICES ASSUME BytesInv PROVE ForwardedOnce
    OBVIOUS
  <2>1. W.p = proxy /\ W.c = client /\ W.b = backend /\ W.x = exchange
    BY DEF W
  <2>2. Safe(W) /\ exchange \in Exchanges
    BY <2>1 DEF BytesInv, BytesOK, Base
  <2>3. /\ IsPrefixOf(backend.got, Forwarded(exchange))
        /\ IsPrefixOf(client.got, Whole(exchange)) \/ client.got \in ErrorPages
        /\ backend.got # <<>> => IsUpgrade(exchange) \/ proxy.reqLines = WithClose(exchange.req.lines)
    BY <2>1, <2>2 DEF Safe
  <2>4. \E i \in DOMAIN WithClose(exchange.req.lines) : WithClose(exchange.req.lines)[i] = CloseLine
    <3> DEFINE lines == exchange.req.lines
               S == {lines[i] : i \in DOMAIN lines}
    <3>1. lines \in Seq(S)
      BY <2>2, ExchangesAre DEF Message
    <3> HIDE DEF lines, S
    <3>2. \E i \in DOMAIN WithClose(lines) : WithClose(lines)[i] = CloseLine
      BY <3>1, CloseSaid
    <3> QED
      BY <3>2 DEF lines
  <2>5. backend.got # <<>> /\ ~IsUpgrade(exchange) =>
          \E i \in DOMAIN proxy.reqLines : proxy.reqLines[i] = CloseLine
    BY <2>3, <2>4
  <2> QED
    BY <2>3, <2>5 DEF ForwardedOnce, Whole, CloseLine
<1> QED
  BY <1>1, BytesAccounted, PTL

---------------------------------------------------------------------------
(* The events that are registered.                                         *)

PNames == {"state", "ended", "req", "reqEnd", "reqLength", "reqSize", "reqLines", "sendPos", "res", "resEnd",
           "resLength", "resSize", "mode", "bodySent", "upgrade", "headerSent", "chunk", "c2b", "b2c"}
SNames == {"todo", "kin", "pend", "known", "got", "read", "fin", "gone", "shut", "ev", "close", "handle",
           "open", "tls"}
Shaped(w) ==
  DOMAIN w = {"p", "c", "b", "x"} /\ DOMAIN w.p = PNames /\ DOMAIN w.c = SNames /\ DOMAIN w.b = SNames

(* The backend is never shut down; the client is not while it has its      *)
(* handler, and then what is known to be pending is pending.               *)
Calm(w) == ~w.b.shut /\ (w.b.fin => w.b.gone)
Clear(w) == w.c.handle => ~w.c.shut /\ ~w.c.close /\ (w.c.known => w.c.pend > 0)

(* Something of the response is left to be sent.                           *)
Waits(p) == IF p.headerSent THEN p.sendPos < Len(p.res) ELSE p.sendPos < p.resEnd

TunnelEvent(read, write) ==
  IF read THEN (IF write THEN "readwrite" ELSE "read") ELSE (IF write THEN "write" ELSE "none")
Both(w) ==
  /\ w.c.ev = TunnelEvent(w.p.c2b = <<>>, w.p.b2c # <<>>)
  /\ w.b.ev = TunnelEvent(w.p.b2c = <<>>, w.p.c2b # <<>>)

(* In each state of the proxy, who is waited for, and that what is waited  *)
(* for makes the handler do something.                                     *)
Unwatched == {"IDLE", "RECV_REQ_HEADER", "RECV_REQ_BODY", "WAIT_WRITE", "DONE", "ERROR", "RELEASED"}
Unhandled == {"IDLE", "DONE", "ERROR", "RELEASED"}
Armed(w) ==
  /\ w.p.state # "CONNECT"
  /\ w.p.state \in Unwatched => w.b.ev = "none"
  /\ w.p.state \in Unhandled => ~w.c.handle
  /\ w.p.state \notin Unhandled => w.c.handle
  /\ w.p.state = "IDLE" => ~w.c.known /\ ~w.c.shut /\ w.c.ev \in {"none", "readonce"}
  /\ w.p.state = "RELEASED" => w.c.ev = "none"
  /\ w.p.state = "SEND" => w.b.ev = "write" /\ w.p.sendPos < Len(w.p.req)
  /\ w.p.state = "RECV_RES_HEADER" => w.b.ev = "read"
  /\ w.p.state = "STREAMING" => w.b.ev \in {"read", "none"} /\ w.p.res = <<>> /\ w.p.sendPos = 0
  /\ w.p.state = "WAIT_WRITE" => w.c.ev = "write" /\ Waits(w.p)
  /\ w.p.state = "TUNNEL" => Both(w)
ReadsRequest(w) == w.p.state \in {"RECV_REQ_HEADER", "RECV_REQ_BODY"} => w.c.ev = "read"

(* What the steps of proxy_process_state() leave alone, all of them and    *)
(* those that do not end the exchange.                                     *)
Same(w, v) ==
  /\ Shaped(v)
  /\ v.c.kin = w.c.kin /\ v.c.pend = w.c.pend /\ v.c.known = w.c.known
  /\ v.c.gone = w.c.gone /\ v.c.fin = w.c.fin /\ v.c.tls = w.c.tls
  /\ v.b.kin = w.b.kin /\ v.b.fin = w.b.fin /\ v.b.gone = w.b.gone /\ v.b.shut = w.b.shut
Live(w, v) ==
  Same(w, v) /\ v.c.handle = w.c.handle /\ v.c.shut = w.c.shut /\ v.c.close = w.c.close
Running(w) == Shaped(w) /\ Calm(w) /\ Clear(w) /\ w.c.handle
Settles(w, v) == Same(w, v) /\ Calm(v) /\ Clear(v) /\ Armed(v)

LEMMA ShapedWorld ==
    ASSUME NEW x, NEW w \in Worlds(x)
    PROVE  Shaped(w)
<1>1. DOMAIN w = {"p", "c", "b", "x"} /\ w.p \in Proxy(x) /\ w.c \in Sock /\ w.b \in Sock
  BY DEF Worlds
<1>2. DOMAIN w.p = PNames
  BY <1>1 DEF Proxy, PNames
<1>3. DOMAIN w.c = SNames /\ DOMAIN w.b = SNames
  BY <1>1 DEF Sock, SNames
<1> QED
  BY <1>1, <1>2, <1>3 DEF Shaped

LEMMA SameSame ==
    ASSUME NEW w, NEW u, NEW v, Same(w, u)
    PROVE  /\ Same(u, v) => Same(w, v)
           /\ Settles(u, v) => Settles(w, v)
           /\ Live(w, u) /\ Live(u, v) => Live(w, v)
<1>1. Same(u, v) => Same(w, v)
  BY DEF Same
<1> QED
  BY <1>1 DEF Settles, Live

LEMMA LiveRuns ==
    ASSUME NEW w, NEW v, Live(w, v), Running(w)
    PROVE  Running(v)
<1>1. Shaped(v)
  BY DEF Live, Same
<1>2. Calm(v)
  BY DEF Live, Same, Running, Calm
<1>3. v.c.handle
  BY DEF Live, Running
<1>4. Clear(v)
  BY DEF Live, Same, Running, Clear
<1> QED
  BY <1>1, <1>2, <1>3, <1>4 DEF Running

LEMMA FinishEv ==
    ASSUME NEW w, Shaped(w), Calm(w), NEW st \in {"DONE", "ERROR"}
    PROVE  LET v == Finish(w, st) IN Settles(w, v) /\ v.p.state = st /\ v.c.close
<1> DEFINE T == TRUE
           F == FALSE
           N == "none"
           R == "readonce"
           v == Finish(w, st)
<1>1. /\ v = [[w EXCEPT !.c.shut = T] EXCEPT !.p.state = st, !.p.ended = st, !.c.close = T, !.c.handle = F,
                                             !.b.ev = N, !.c.ev = R]
      /\ T /\ ~F /\ N = "none"
  BY Zenon DEF Finish, proxy_shutdown_client
<1> HIDE DEF T, F, N, R, v
<1>2. /\ v.p = [w.p EXCEPT !.state = st, !.ended = st] /\ v.b = [w.b EXCEPT !.ev = N]
      /\ v.c = [w.c EXCEPT !.shut = T, !.close = T, !.handle = F, !.ev = R]
      /\ DOMAIN v = {"p", "c", "b", "x"}
  BY <1>1 DEF Shaped
<1>3. Same(w, v)
  BY <1>2 DEF Same, Shaped, PNames, SNames
<1>4. v.p.state = st /\ v.c.close = T /\ v.c.handle = F /\ v.b.ev = N
  BY <1>2 DEF Shaped, PNames, SNames
<1>5. Calm(v) /\ Clear(v)
  <2>1. Calm(v)
    BY <1>3 DEF Same, Calm
  <2> QED
    BY <1>1, <1>4, <2>1 DEF Clear
<1>6. Armed(v)
  <2>1. ~v.c.handle /\ v.b.ev = "none"
    BY <1>1, <1>4
  <2> QED
    BY <1>4, <2>1 DEF Armed, Unwatched, Unhandled
<1> QED
  BY <1>1, <1>3, <1>4, <1>5, <1>6 DEF Settles, v

LEMMA DoneEv ==
    ASSUME NEW w, Shaped(w), Calm(w)
    PROVE  Settles(w, Done(w)) /\ Done(w).p.state = "DONE" /\ Done(w).c.close
  BY FinishEv DEF Done

LEMMA PageEv ==
    ASSUME NEW w, Shaped(w), NEW code
    PROVE  LET v == proxy_send_error_response(w, code) IN Live(w, v) /\ v.p = w.p
<1> DEFINE v == proxy_send_error_response(w, code)
           g == w.c.got \o SubSeq(<<code>>, 1, BytesSent(w.c, <<code>>))
<1>1. CASE w.c.gone
  BY <1>1 DEF proxy_send_error_response, Live, Same
<1>2. CASE ~w.c.gone
  <2>1. v = [w EXCEPT !.c = [w.c EXCEPT !.got = g]]
    BY <1>2 DEF proxy_send_error_response, Send
  <2> HIDE DEF g, v
  <2>2. Live(w, v) /\ v.p = w.p
    BY <2>1 DEF Shaped, SNames, Live, Same
  <2> QED
    BY <2>2 DEF v
<1> QED
  BY <1>1, <1>2

LEMMA FailEv ==
    ASSUME NEW w, Shaped(w), Calm(w)
    PROVE  Settles(w, Fail(w)) /\ Fail(w).p.state = "ERROR" /\ Fail(w).c.close
<1> DEFINE u == IF w.p.headerSent THEN w ELSE proxy_send_error_response(w, "502")
           st == "ERROR"
<1>1. Live(w, u)
  BY PageEv DEF Live, Same
<1>2. Fail(w) = Finish(u, st)
  BY DEF Fail
<1> HIDE DEF u
<1>3. Shaped(u) /\ Same(w, u)
  BY <1>1 DEF Live, Same
<1>4. Calm(u)
  BY <1>3 DEF Same, Calm
<1>5. Settles(u, Finish(u, st)) /\ Finish(u, st).p.state = st /\ Finish(u, st).c.close
  BY <1>3, <1>4, FinishEv
<1> QED
  BY <1>2, <1>3, <1>5, SameSame

LEMMA RejectEv ==
    ASSUME NEW w, Shaped(w), Calm(w), NEW code
    PROVE  Settles(w, Reject(w, code)) /\ Reject(w, code).p.state = "ERROR" /\ Reject(w, code).c.close
<1> DEFINE T == TRUE
           u == proxy_send_error_response(w, code)
           v == [u EXCEPT !.p.headerSent = T]
<1>1. Live(w, u)
  BY PageEv
<1>2. Reject(w, code) = Fail(v)
  BY DEF Reject
<1> HIDE DEF T, u
<1>3. Live(w, v)
  BY <1>1 DEF Live, Same, Shaped, PNames
<1> HIDE DEF v
<1>4. Shaped(v) /\ Same(w, v)
  BY <1>3 DEF Live, Same
<1>5. Calm(v)
  BY <1>4 DEF Same, Calm
<1>6. Settles(v, Fail(v)) /\ Fail(v).p.state = "ERROR" /\ Fail(v).c.close
  BY <1>4, <1>5, FailEv
<1> QED
  BY <1>2, <1>4, <1>6, SameSame

LEMMA TunnelEv ==
    ASSUME NEW w, Running(w), In(w, "TUNNEL")
    PROVE  LET v == proxy_tunnel_update_events(w) IN Settles(w, v) /\ v.p = w.p
<1> DEFINE v == proxy_tunnel_update_events(w)
           e == TunnelEvent(w.p.c2b = <<>>, w.p.b2c # <<>>)
           f == TunnelEvent(w.p.b2c = <<>>, w.p.c2b # <<>>)
<1>1. v = [w EXCEPT !.c.ev = e, !.b.ev = f]
  <2>1. CASE w.p.c2b = <<>> /\ w.p.b2c = <<>>
    BY <2>1 DEF proxy_tunnel_update_events, TunnelEvent
  <2>2. CASE w.p.c2b = <<>> /\ w.p.b2c # <<>>
    BY <2>2 DEF proxy_tunnel_update_events, TunnelEvent
  <2>3. CASE w.p.c2b # <<>> /\ w.p.b2c = <<>>
    BY <2>3 DEF proxy_tunnel_update_events, TunnelEvent
  <2>4. CASE w.p.c2b # <<>> /\ w.p.b2c # <<>>
    BY <2>4 DEF proxy_tunnel_update_events, TunnelEvent
  <2> QED
    BY <2>1, <2>2, <2>3, <2>4
<1> HIDE DEF e, f, v
<1>2. Live(w, v) /\ v.p = w.p /\ v.c.ev = e /\ v.b.ev = f
  BY <1>1 DEF Shaped, SNames, Live, Same, Running
<1>3. Running(v)
  BY <1>2, LiveRuns
<1>4. Both(v)
  BY <1>2 DEF Both, e, f
<1>5. Armed(v)
  BY <1>2, <1>3, <1>4 DEF Armed, Running, Unwatched, Unhandled, In
<1> QED
  BY <1>2, <1>3, <1>5 DEF Settles, Live, Running, v

(* A socket that has sent something is otherwise as it was.                *)
LEMMA FlushEv ==
    ASSUME NEW w, Running(w)
    PROVE  /\ LET v == proxy_tunnel_flush_b2c(w)
              IN  Live(w, v) /\ v.p.state = w.p.state /\ v.p.c2b = w.p.c2b /\ v.b = w.b
           /\ LET v == proxy_tunnel_flush_c2b(w)
              IN  Live(w, v) /\ v.p.state = w.p.state /\ v.p.b2c = w.p.b2c /\ v.c = w.c
<1> DEFINE v == proxy_tunnel_flush_b2c(w)
           u == proxy_tunnel_flush_c2b(w)
           g == w.c.got \o SubSeq(w.p.b2c, 1, BytesSent(w.c, w.p.b2c))
           h == w.b.got \o SubSeq(w.p.c2b, 1, BytesSent(w.b, w.p.c2b))
           r == SubSeq(w.p.b2c, BytesSent(w.c, w.p.b2c) + 1, Len(w.p.b2c))
           s == SubSeq(w.p.c2b, BytesSent(w.b, w.p.c2b) + 1, Len(w.p.c2b))
<1>1. /\ v = [w EXCEPT !.c = [w.c EXCEPT !.got = g], !.p.b2c = r]
      /\ u = [w EXCEPT !.b = [w.b EXCEPT !.got = h], !.p.c2b = s]
  BY DEF proxy_tunnel_flush_b2c, proxy_tunnel_flush_c2b, Send, Shaped, Running, PNames
<1> HIDE DEF g, h, r, s, u, v
<1>2. Live(w, v) /\ v.p.state = w.p.state /\ v.p.c2b = w.p.c2b /\ v.b = w.b
  BY <1>1 DEF Shaped, PNames, SNames, Live, Same, Running
<1>3. Live(w, u) /\ u.p.state = w.p.state /\ u.p.b2c = w.p.b2c /\ u.c = w.c
  BY <1>1 DEF Shaped, PNames, SNames, Live, Same, Running
<1> QED
  BY <1>2, <1>3 DEF u, v

LEMMA EnterTunnelEv ==
    ASSUME NEW w, Running(w)
    PROVE  LET v == EnterTunnel(w) IN Settles(w, v) /\ v.p.state \in {"TUNNEL", "ERROR"}
<1> DEFINE r == SubSeq(w.p.res, w.p.sendPos + 1, Len(w.p.res))
           u == [w EXCEPT !.p.state = "TUNNEL", !.p.c2b = <<>>, !.p.b2c = r]
           t == proxy_tunnel_flush_b2c(u)
<1>1. EnterTunnel(w) \in {Fail(u), proxy_tunnel_update_events(t)}
  BY DEF EnterTunnel
<1> HIDE DEF r
<1>2. Live(w, u) /\ u.p.state = "TUNNEL"
  BY DEF Shaped, PNames, Live, Same, Running
<1> HIDE DEF u
<1>3. Running(u) /\ Same(w, u)
  BY <1>2, LiveRuns DEF Live
<1>4. Settles(u, Fail(u)) /\ Fail(u).p.state = "ERROR"
  BY <1>3, FailEv DEF Running
<1>5. Live(u, t) /\ In(t, "TUNNEL")
  BY <1>2, <1>3, FlushEv DEF In
<1> HIDE DEF t
<1>6. Running(t) /\ Same(u, t)
  BY <1>3, <1>5, LiveRuns DEF Live
<1> DEFINE q == proxy_tunnel_update_events(t)
<1>7. Settles(t, q) /\ q.p.state = "TUNNEL"
  BY <1>5, <1>6, TunnelEv DEF In
<1>8. Settles(w, q)
  BY <1>3, <1>6, <1>7, SameSame
<1>9. Settles(w, Fail(u))
  BY <1>3, <1>4, SameSame
<1> HIDE DEF q
<1> QED
  BY <1>1, <1>4, <1>7, <1>8, <1>9 DEF q

LEMMA WaitWriteEv ==
    ASSUME NEW w, Running(w), Waits(w.p)
    PROVE  LET v == WaitWrite(w)
           IN  Settles(w, v) /\ v.p.state = "WAIT_WRITE" /\ v.p.sendPos = w.p.sendPos /\ v.p.headerSent = w.p.headerSent
<1> DEFINE v == WaitWrite(w)
<1>1. /\ Live(w, v) /\ v.p.state = "WAIT_WRITE" /\ v.b.ev = "none" /\ v.c.ev = "write"
      /\ v.p.sendPos = w.p.sendPos /\ v.p.headerSent = w.p.headerSent /\ v.p.res = w.p.res /\ v.p.resEnd = w.p.resEnd
  BY DEF WaitWrite, Shaped, PNames, SNames, Live, Same, Running
<1> HIDE DEF v
<1>2. Running(v)
  BY <1>1, LiveRuns
<1>3. Waits(v.p)
  BY <1>1 DEF Waits
<1>4. Armed(v)
  BY <1>1, <1>2, <1>3 DEF Armed, Running, Unwatched, Unhandled
<1> QED
  BY <1>1, <1>2, <1>4 DEF Settles, Live, Running, v

(* The positions of the response lie in its buffer.                        *)
Fits(w) ==
  /\ w.c \in Sock /\ SockOK(w.c) /\ w.p.res \in Units /\ w.p.sendPos \in Nat /\ w.p.resEnd \in Nat
  /\ w.p.sendPos <= Len(w.p.res)
  /\ ~w.p.headerSent => w.p.sendPos <= w.p.resEnd /\ w.p.resEnd <= Len(w.p.res)
Pulls(w) == w.b.ev \in {"read", "none"}

LEMMA StreamsFit ==
    ASSUME NEW w, Base(w), Streams(w)
    PROVE  Fits(w)
  BY WorldFields, ProxyFields DEF Base, Streams, Fits

(* What is sent of the response up to e.                                   *)
SendsTo(w, v, e) ==
  LET rest == Part(w.p.res, w.p.sendPos, e)
      n == BytesSent(w.c, rest)
  IN  \/ v = [w EXCEPT !.c = Send(w.c, rest), !.p.sendPos = w.p.sendPos + n]
      \/ v = [w EXCEPT !.c = Send(w.c, rest), !.p.sendPos = w.p.sendPos + n, !.p.bodySent = w.p.bodySent + n]
LEMMA SendsUpTo ==
    ASSUME NEW w, Running(w), Fits(w), NEW e \in Nat, w.p.sendPos <= e, e <= Len(w.p.res),
           NEW v, SendsTo(w, v, e)
    PROVE  LET rest == Part(w.p.res, w.p.sendPos, e)
               n == BytesSent(w.c, rest)
           IN  /\ rest \in Units /\ Len(rest) = e - w.p.sendPos /\ n \in 0 .. Len(rest)
               /\ Live(w, v) /\ v.c \in Sock /\ SockOK(v.c) /\ v.b = w.b
               /\ v.p.sendPos = w.p.sendPos + n /\ v.p.res = w.p.res /\ v.p.resEnd = w.p.resEnd
               /\ v.p.headerSent = w.p.headerSent /\ v.p.state = w.p.state /\ v.p.upgrade = w.p.upgrade
<1> DEFINE rest == Part(w.p.res, w.p.sendPos, e)
           n == BytesSent(w.c, rest)
           s == Send(w.c, rest)
           i == w.p.sendPos + n
           j == w.p.bodySent + n
           g == w.c.got \o SubSeq(rest, 1, n)
<1>1. w.c \in Sock /\ SockOK(w.c) /\ w.p.res \in Units /\ w.p.sendPos \in Nat /\ Len(w.p.res) \in Nat
  BY SeqBasics DEF Fits
<1>2. rest \in Units /\ Len(rest) = e - w.p.sendPos
  <2>1. 0 \in Nat /\ 0 <= e - w.p.sendPos
    BY <1>1
  <2> QED
    BY <1>1, <2>1, SendOfPart
<1>3. n \in 0 .. Len(rest) /\ s \in Sock /\ SockOK(s)
  BY <1>1, <1>2, Sending
<1>4. s = [w.c EXCEPT !.got = g]
  BY DEF Send
<1>5. v = [w EXCEPT !.c = s, !.p.sendPos = i] \/ v = [w EXCEPT !.c = s, !.p.sendPos = i, !.p.bodySent = j]
  BY DEF SendsTo
<1> HIDE DEF rest, n, s, i, j, g
<1>6. /\ v.c = s /\ v.b = w.b /\ DOMAIN v = DOMAIN w
      /\ v.p = [w.p EXCEPT !.sendPos = i] \/ v.p = [w.p EXCEPT !.sendPos = i, !.bodySent = j]
  <2>1. CASE v = [w EXCEPT !.c = s, !.p.sendPos = i]
    BY <2>1 DEF Shaped, Running
  <2>2. CASE v = [w EXCEPT !.c = s, !.p.sendPos = i, !.p.bodySent = j]
    BY <2>2 DEF Shaped, Running
  <2> QED
    BY <1>5, <2>1, <2>2
<1>7. /\ v.p.sendPos = i /\ v.p.res = w.p.res /\ v.p.resEnd = w.p.resEnd /\ DOMAIN v.p = DOMAIN w.p
      /\ v.p.headerSent = w.p.headerSent /\ v.p.state = w.p.state /\ v.p.upgrade = w.p.upgrade
  <2>1. CASE v.p = [w.p EXCEPT !.sendPos = i]
    BY <2>1 DEF Shaped, PNames, Running
  <2>2. CASE v.p = [w.p EXCEPT !.sendPos = i, !.bodySent = j]
    BY <2>2 DEF Shaped, PNames, Running
  <2> QED
    BY <1>6, <2>1, <2>2
<1>8. Live(w, v)
  <2>1. v.c = [w.c EXCEPT !.got = g] /\ v.b = w.b /\ DOMAIN v = DOMAIN w /\ DOMAIN v.p = DOMAIN w.p
    BY <1>4, <1>6, <1>7
  <2>2. Shaped(w)
    BY DEF Running
  <2>3. /\ DOMAIN v.c = SNames /\ v.c.kin = w.c.kin /\ v.c.pend = w.c.pend /\ v.c.known = w.c.known
        /\ v.c.gone = w.c.gone /\ v.c.fin = w.c.fin /\ v.c.tls = w.c.tls /\ v.c.handle = w.c.handle
        /\ v.c.shut = w.c.shut /\ v.c.close = w.c.close
    BY <2>1, <2>2 DEF Shaped, SNames
  <2>4. Shaped(v)
    BY <2>1, <2>2, <2>3 DEF Shaped
  <2> QED
    BY <2>1, <2>3, <2>4 DEF Live, Same
<1> QED
  BY <1>2, <1>3, <1>6, <1>7, <1>8 DEF rest, n, i

(* What a send of the rest of the header, or of the body, takes.           *)
RestOf(p) == IF p.headerSent THEN Drop(p.res, p.sendPos) ELSE Part(p.res, p.sendPos, p.resEnd)

LEMMA StreamBodyEv ==
    ASSUME NEW w, Running(w), Fits(w), Begun(w), In(w, "STREAMING"), Pulls(w)
    PROVE  LET v == StreamBody(w)
           IN  /\ Settles(w, v) /\ v.p.state \in {"STREAMING", "WAIT_WRITE", "DONE", "ERROR"}
               /\ In(v, "WAIT_WRITE") => Begun(v) /\ ~w.c.gone /\ v.p.sendPos = w.p.sendPos + BytesSent(w.c, RestOf(w.p))
<1> DEFINE e == Len(w.p.res)
           rest == Part(w.p.res, w.p.sendPos, e)
           n == BytesSent(w.c, rest)
           v == [w EXCEPT !.c = Send(w.c, rest), !.p.sendPos = w.p.sendPos + n, !.p.bodySent = w.p.bodySent + n]
           u == [v EXCEPT !.p.res = <<>>, !.p.sendPos = 0]
<1>1. StreamBody(w) = IF rest # <<>> /\ w.c.gone THEN Fail(w)
                      ELSE IF n < Len(rest) THEN WaitWrite(v) ELSE EndIfComplete(u)
  BY DEF StreamBody, Part, Shaped, Running, PNames
<1>2. e \in Nat /\ w.p.sendPos <= e /\ w.p.sendPos \in Nat
  BY SeqBasics DEF Fits
<1>3. SendsTo(w, v, e)
  BY DEF SendsTo
<1>4. RestOf(w.p) = rest
  BY DEF RestOf, Begun, Drop, Part
<1> HIDE DEF e, v
<1>5. /\ Len(rest) = e - w.p.sendPos /\ n \in 0 .. Len(rest)
      /\ Live(w, v) /\ v.b = w.b /\ v.p.sendPos = w.p.sendPos + n /\ v.p.res = w.p.res
      /\ v.p.headerSent = w.p.headerSent /\ v.p.state = w.p.state
  BY <1>2, <1>3, SendsUpTo DEF e
<1> HIDE DEF n, rest
<1>6. Running(v) /\ Same(w, v)
  BY <1>5, LiveRuns DEF Live
<1>7. Settles(w, Fail(w)) /\ Fail(w).p.state = "ERROR"
  BY FailEv DEF Running
<1>8. ASSUME n < Len(rest)
      PROVE  /\ Settles(w, WaitWrite(v)) /\ WaitWrite(v).p.state = "WAIT_WRITE"
             /\ WaitWrite(v).p.headerSent = w.p.headerSent /\ WaitWrite(v).p.sendPos = w.p.sendPos + n
  <2>1. v.p.sendPos < Len(v.p.res)
    BY <1>2, <1>5, <1>8 DEF e
  <2>2. v.p.headerSent
    BY <1>5 DEF Begun
  <2>3. Waits(v.p)
    BY <2>1, <2>2 DEF Waits
  <2> QED
    BY <1>5, <1>6, <2>3, WaitWriteEv, SameSame
<1>9. /\ Settles(w, EndIfComplete(u)) /\ EndIfComplete(u).p.state \in {"STREAMING", "DONE"}
  <2>1. /\ Live(v, u) /\ u.b = v.b /\ u.p.res = <<>> /\ u.p.sendPos = 0 /\ u.p.state = v.p.state
    BY <1>6 DEF Running, Shaped, PNames, Live, Same
  <2> HIDE DEF u
  <2>2. Running(u) /\ Same(w, u)
    BY <1>6, <2>1, LiveRuns, SameSame DEF Live
  <2>3. Settles(u, Done(u)) /\ Done(u).p.state = "DONE"
    BY <2>2, DoneEv DEF Running
  <2>4. u.p.state = "STREAMING" /\ u.b.ev \in {"read", "none"}
    BY <1>5, <2>1 DEF In, Pulls
  <2>5. Armed(u)
    BY <2>1, <2>2, <2>4 DEF Armed, Running, Unwatched, Unhandled
  <2>6. Settles(w, u) /\ Settles(w, Done(u))
    BY <2>2, <2>3, <2>5, SameSame DEF Settles, Running
  <2> QED
    BY <2>3, <2>4, <2>6 DEF EndIfComplete
<1> HIDE DEF u
<1>10. CASE rest # <<>> /\ w.c.gone
  BY <1>1, <1>7, <1>10 DEF In
<1>11. CASE ~(rest # <<>> /\ w.c.gone) /\ n < Len(rest)
  <2>1. rest # <<>>
    BY <1>5, <1>11
  <2> QED
    BY <1>1, <1>4, <1>8, <1>11, <2>1 DEF In, Begun, n
<1>12. CASE ~(rest # <<>> /\ w.c.gone) /\ ~(n < Len(rest))
  BY <1>1, <1>9, <1>12 DEF In
<1> QED
  BY <1>10, <1>11, <1>12

LEMMA StreamingEv ==
    ASSUME NEW w, Running(w), Fits(w), Pulls(w)
    PROVE  LET v == Streaming(w)
           IN  /\ Settles(w, v) /\ v.p.state \in {"STREAMING", "WAIT_WRITE", "TUNNEL", "DONE", "ERROR"}
               /\ In(v, "WAIT_WRITE") /\ v.p.headerSent = w.p.headerSent
                    => ~w.c.gone /\ v.p.sendPos = w.p.sendPos + BytesSent(w.c, RestOf(w.p))
<1> DEFINE e == w.p.resEnd
           rest == Part(w.p.res, w.p.sendPos, e)
           u == [w EXCEPT !.p.state = "STREAMING"]
           n == BytesSent(u.c, rest)
           v == [u EXCEPT !.c = Send(u.c, rest), !.p.sendPos = u.p.sendPos + n]
           T == TRUE
           t == [v EXCEPT !.p.headerSent = T]
<1>1. Streaming(w) = IF u.p.headerSent THEN StreamBody(u)
                     ELSE IF rest # <<>> /\ u.c.gone THEN Fail(u) ELSE HeaderSent(v, n, rest)
  BY DEF Streaming, StreamFrom, Part, Shaped, Running, PNames
<1>2. HeaderSent(v, n, rest) = IF n < Len(rest) THEN WaitWrite(v)
                               ELSE IF v.p.upgrade THEN EnterTunnel(t) ELSE StreamBody(t)
  BY DEF HeaderSent
<1>3. /\ Live(w, u) /\ u.c = w.c /\ u.b = w.b /\ u.p.state = "STREAMING" /\ u.p.sendPos = w.p.sendPos
      /\ u.p.res = w.p.res /\ u.p.resEnd = w.p.resEnd /\ u.p.headerSent = w.p.headerSent
  BY DEF Running, Shaped, PNames, Live, Same
<1> HIDE DEF u
<1>4. Running(u) /\ Same(w, u) /\ Fits(u) /\ Pulls(u) /\ In(u, "STREAMING")
  BY <1>3, LiveRuns DEF Live, Fits, Pulls, In
<1>5. Settles(w, Fail(u)) /\ Fail(u).p.state = "ERROR"
  BY <1>4, FailEv, SameSame DEF Running
<1>6. CASE w.p.headerSent
  <2>1. Begun(u) /\ RestOf(u.p) = RestOf(w.p)
    BY <1>3, <1>6 DEF Begun, RestOf
  <2>2. /\ Settles(u, StreamBody(u)) /\ StreamBody(u).p.state \in {"STREAMING", "WAIT_WRITE", "DONE", "ERROR"}
        /\ In(StreamBody(u), "WAIT_WRITE") => ~u.c.gone /\ StreamBody(u).p.sendPos = u.p.sendPos + BytesSent(u.c, RestOf(u.p))
    BY <1>4, <2>1, StreamBodyEv
  <2>3. Settles(w, StreamBody(u))
    BY <1>4, <2>2, SameSame
  <2>4. Streaming(w) = StreamBody(u)
    BY <1>1, <1>3, <1>6
  <2> QED
    BY <1>3, <2>1, <2>2, <2>3, <2>4
<1>7. CASE ~w.p.headerSent
  <2>1. e \in Nat /\ u.p.sendPos <= e /\ e <= Len(u.p.res) /\ rest = Part(u.p.res, u.p.sendPos, e) /\ u.p.sendPos \in Nat
        /\ e = u.p.resEnd
    BY <1>3, <1>4, <1>7 DEF Fits
  <2>2. SendsTo(u, v, e)
    BY <2>1 DEF SendsTo
  <2> HIDE DEF e, v
  <2>3. /\ rest \in Units /\ Len(rest) = e - u.p.sendPos /\ n \in 0 .. Len(rest)
        /\ Live(u, v) /\ v.c \in Sock /\ SockOK(v.c) /\ v.b = u.b
        /\ v.p.sendPos = u.p.sendPos + n /\ v.p.res = u.p.res /\ v.p.resEnd = u.p.resEnd
        /\ v.p.headerSent = u.p.headerSent /\ v.p.state = u.p.state
    BY <1>4, <2>1, <2>2, SendsUpTo
  <2>4. RestOf(w.p) = rest /\ n = BytesSent(w.c, rest)
    BY <1>3, <1>7 DEF RestOf, e
  <2> HIDE DEF rest, n
  <2>5. Running(v) /\ Same(w, v)
    BY <1>4, <2>3, LiveRuns, SameSame DEF Live
  <2>6. ASSUME n < Len(rest)
        PROVE  /\ Settles(w, WaitWrite(v)) /\ WaitWrite(v).p.state = "WAIT_WRITE"
               /\ WaitWrite(v).p.sendPos = w.p.sendPos + n
    <3>1. v.p.sendPos < v.p.resEnd /\ ~v.p.headerSent
      BY <1>3, <1>7, <2>1, <2>3, <2>6
    <3>2. Waits(v.p)
      BY <3>1 DEF Waits
    <3> QED
      BY <1>3, <2>3, <2>5, <3>2, WaitWriteEv, SameSame
  <2>7. T = TRUE
    BY DEF T
  <2> HIDE DEF T
  <2>8. /\ Live(v, t) /\ t.c = v.c /\ t.b = v.b /\ t.p.state = v.p.state /\ t.p.sendPos = v.p.sendPos
        /\ t.p.res = v.p.res /\ t.p.resEnd = v.p.resEnd /\ t.p.headerSent = T
    BY <2>5 DEF Running, Shaped, PNames, Live, Same
  <2> HIDE DEF t
  <2>9. Running(t) /\ Same(w, t) /\ Begun(t)
    BY <2>5, <2>7, <2>8, LiveRuns, SameSame DEF Live, Begun
  <2>10. Settles(w, EnterTunnel(t)) /\ EnterTunnel(t).p.state \in {"TUNNEL", "ERROR"}
    BY <2>9, EnterTunnelEv, SameSame
  <2>11. /\ Settles(w, StreamBody(t)) /\ StreamBody(t).p.state \in {"STREAMING", "WAIT_WRITE", "DONE", "ERROR"}
         /\ In(StreamBody(t), "WAIT_WRITE") => Begun(StreamBody(t))
    <3>1. t.p.sendPos \in Nat /\ t.p.sendPos <= Len(t.p.res) /\ t.p.res \in Units /\ t.p.resEnd \in Nat
      <4>1. Len(t.p.res) \in Nat /\ t.p.res \in Units
        BY <1>4, <2>3, <2>8, SeqBasics DEF Fits
      <4> QED
        BY <4>1, <2>1, <2>3, <2>8
    <3>2. Fits(t)
      BY <2>3, <2>8, <2>9, <3>1 DEF Fits, Begun
    <3>3. In(t, "STREAMING") /\ Pulls(t)
      BY <1>4, <2>3, <2>8 DEF In, Pulls
    <3> QED
      BY <2>9, <3>2, <3>3, StreamBodyEv, SameSame
  <2>12. Streaming(w) = IF rest # <<>> /\ u.c.gone THEN Fail(u)
                        ELSE IF n < Len(rest) THEN WaitWrite(v)
                        ELSE IF v.p.upgrade THEN EnterTunnel(t) ELSE StreamBody(t)
    BY <1>1, <1>2, <1>3, <1>7
  <2>13. CASE rest # <<>> /\ u.c.gone
    BY <1>5, <2>12, <2>13 DEF In
  <2>14. CASE ~(rest # <<>> /\ u.c.gone) /\ n < Len(rest)
    <3>1. rest # <<>>
      BY <2>3, <2>14
    <3> QED
      BY <1>3, <2>4, <2>6, <2>12, <2>14, <3>1 DEF In
  <2>15. CASE ~(rest # <<>> /\ u.c.gone) /\ ~(n < Len(rest)) /\ v.p.upgrade
    BY <2>10, <2>12, <2>15 DEF In
  <2>16. CASE ~(rest # <<>> /\ u.c.gone) /\ ~(n < Len(rest)) /\ ~v.p.upgrade
    BY <1>7, <2>11, <2>12, <2>16 DEF In, Begun
  <2> QED
    BY <2>13, <2>14, <2>15, <2>16
<1> QED
  BY <1>6, <1>7

LEMMA ProxyOnly ==
    ASSUME NEW w, Running(w), NEW v, DOMAIN v = DOMAIN w, DOMAIN v.p = DOMAIN w.p, v.c = w.c, v.b = w.b
    PROVE  Live(w, v) /\ Running(v) /\ Same(w, v)
<1>1. Live(w, v)
  BY DEF Live, Same, Running, Shaped
<1> QED
  BY <1>1, LiveRuns DEF Live

LEMMA HeaderRewrittenEv ==
    ASSUME NEW w0, Running(w0), NEW w, Answered(w), Running(w), Live(w0, w), Pulls(w), NEW length \in Int, NEW outcome
    PROVE  LET v == HeaderRewritten(w0, w, length, outcome)
           IN  Settles(w0, v) /\ v.p.state \in {"STREAMING", "WAIT_WRITE", "TUNNEL", "DONE", "ERROR"}
<1> DEFINE body == SubSeq(w.p.res, w.p.resEnd + 1, Len(w.p.res))
           m == BodyMode(w)
           n == IF w.x.res.status \in {204, 304} \/ length < 0 THEN 0 ELSE length
           k == IF m = "chunked" THEN proxy_chunked_scan(w.p.chunk, body) ELSE w.p.chunk
           v == BeginBody(w, body, length)
           u == PauseIfWhole(v, body)
<1>1. HeaderRewritten(w0, w, length, outcome) \in {Fail(w0), Fail(w), Streaming(u)}
  BY DEF HeaderRewritten
<1>2. Settles(w0, Fail(w0)) /\ Fail(w0).p.state = "ERROR"
  BY FailEv DEF Running
<1>3. Settles(w0, Fail(w)) /\ Fail(w).p.state = "ERROR"
  BY FailEv, SameSame DEF Running, Live
<1>4. body \in Units
  <2>1. w.p.res \in Units /\ w.p.resEnd \in Nat /\ Len(w.p.res) \in Nat /\ w.p.resEnd <= Len(w.p.res)
    BY WorldFields, ProxyFields DEF Answered, Base
  <2>2. w.p.resEnd \in 0 .. Len(w.p.res)
    BY <2>1
  <2> QED
    BY <2>1, <2>2, Cutting DEF Drop
<1>5. v = [w EXCEPT !.p.mode = m, !.p.sendPos = 0, !.p.resLength = n, !.p.chunk = k]
  BY DEF BeginBody, Running, Shaped, PNames
<1>6. Answered(v)
  <2> HIDE DEF body
  <2> QED
    BY <1>4, BeginBodyOK
<1> HIDE DEF body, m, n, k, v
<1>7. Live(w, v) /\ Running(v) /\ v.b = w.b
  <2>1. DOMAIN v = DOMAIN w /\ DOMAIN v.p = DOMAIN w.p /\ v.c = w.c /\ v.b = w.b
    BY <1>5 DEF Running, Shaped, PNames
  <2> QED
    BY <2>1, ProxyOnly
<1>8. Base(v) /\ Held(v) /\ Streams(v) /\ v \in Worlds(v.x)
  BY <1>6, AnsweredStreams DEF Base
<1>9. Still(v, u)
  BY <1>8, PauseStill
<1>10. Base(u) /\ Streams(u)
  BY <1>8, <1>9, StillKeeps
<1>11. Fits(u)
  BY <1>10, StreamsFit
<1>12. Live(v, u) /\ Pulls(u)
  <2>1. u = v \/ u = [v EXCEPT !.b.ev = "none"]
    BY DEF PauseIfWhole
  <2>2. Running(v) /\ Pulls(v)
    BY <1>7 DEF Pulls
  <2> HIDE DEF u
  <2>3. CASE u = v
    BY <2>2, <2>3 DEF Live, Same, Running
  <2>4. CASE u = [v EXCEPT !.b.ev = "none"]
    BY <2>2, <2>4 DEF Live, Same, Running, Shaped, SNames, Pulls
  <2> QED
    BY <2>1, <2>3, <2>4
<1> HIDE DEF u
<1>13. Running(u) /\ Same(w0, u)
  BY <1>7, <1>12, LiveRuns, SameSame DEF Live
<1>14. Settles(w0, Streaming(u)) /\ Streaming(u).p.state \in {"STREAMING", "WAIT_WRITE", "TUNNEL", "DONE", "ERROR"}
  BY <1>11, <1>12, <1>13, StreamingEv, SameSame
<1> QED
  BY <1>1, <1>2, <1>3, <1>14

LEMMA RecvBackendHeaderEv ==
    ASSUME NEW w, Base(w), Awaits(w), In(w, "RECV_RES_HEADER"), Running(w), w.b.ev = "read", NEW outcome
    PROVE  LET v == RecvBackendHeader(w, outcome)
           IN  Settles(w, v) /\ v.p.state \in {"RECV_RES_HEADER", "STREAMING", "WAIT_WRITE", "TUNNEL", "DONE", "ERROR"}
<1> DEFINE e == proxy_find_header_end(w.p.res)
           T == TRUE
           v == [w EXCEPT !.p.resEnd = e]
           u == [v EXCEPT !.p.upgrade = T]
           length == proxy_parse_content_length(w.x.res.lines)
           i == proxy_inject_connection_close(w, e)
           r == RecvBackendHeader(w, outcome)
<1>1. w.x \in Exchanges /\ w.p.res \in Units /\ Coming(w.b) \in Units /\ Cat(w.p.res, Coming(w.b)) = w.x.res.units
  BY WorldFields, ProxyFields, SockFields DEF Base, Awaits, Unanswered
<1>2. \/ e = 0
      \/ e = w.x.res.hdr /\ w.x.res.hdr <= Len(w.p.res)
  BY ResponseHeader DEF Awaits
<1>3. r = IF e = 0 THEN w ELSE IF w.x.res.status = 101
        THEN (IF UpgradeAllowed(w) THEN Streaming(u) ELSE Fail(v)) ELSE HeaderRewritten(v, i, length, outcome)
  BY DEF RecvBackendHeader
<1>4. length \in Int /\ Held(w) /\ Pulls(w)
  BY ContentLength DEF Held, Running, Pulls
<1> HIDE DEF e, length, T, r
<1>5. CASE e = 0
  <2>1. Armed(w) /\ Same(w, w)
    BY DEF Armed, Running, In, Unwatched, Unhandled, Same
  <2> QED
    BY <1>3, <1>5, <2>1 DEF Settles, Running, In, r
<1>6. CASE e # 0
  <2>1. e = w.x.res.hdr /\ e <= Len(w.p.res) /\ e \in Nat
    BY <1>1, <1>2, <1>6, MessageUnits
  <2>2. Rewrites(w, v) /\ v.p.resEnd = e /\ v.p.res = w.p.res
    BY <1>4, <2>1, EndFound
  <2>3. DOMAIN v = DOMAIN w /\ DOMAIN v.p = DOMAIN w.p /\ v.c = w.c /\ v.b = w.b
    BY DEF Running, Shaped, PNames
  <2> HIDE DEF v
  <2>4. Live(w, v) /\ Running(v) /\ Same(w, v)
    BY <2>3, ProxyOnly
  <2>5. Settles(w, Fail(v)) /\ Fail(v).p.state = "ERROR"
    BY <2>4, FailEv, SameSame DEF Running
  <2>6. CASE w.x.res.status # 101
    <3>1. Answered(i)
      BY <1>4, <2>1, <2>6, InjectOK
    <3>2. DOMAIN i = DOMAIN w /\ DOMAIN i.p = DOMAIN w.p /\ i.c = w.c /\ i.b = w.b
      <4> DEFINE a == InsertBefore(w.p.res, e, "C")
                 z == IF Len(w.p.res) + 1 > w.p.resSize THEN Len(w.p.res) + 2 ELSE w.p.resSize
      <4>1. \/ i = [w EXCEPT !.p.resEnd = e]
            \/ i = [w EXCEPT !.p.res = a, !.p.resEnd = e + 1, !.p.resSize = z]
        BY DEF proxy_inject_connection_close, Running, Shaped, PNames
      <4> HIDE DEF a, z, i
      <4>2. CASE i = [w EXCEPT !.p.resEnd = e]
        BY <4>2 DEF Running, Shaped, PNames
      <4>3. CASE i = [w EXCEPT !.p.res = a, !.p.resEnd = e + 1, !.p.resSize = z]
        BY <4>3 DEF Running, Shaped, PNames
      <4> QED
        BY <4>1, <4>2, <4>3
    <3> HIDE DEF i
    <3>3. Live(w, i) /\ Running(i)
      BY <3>2, ProxyOnly
    <3>4. Live(v, i) /\ Pulls(i)
      BY <1>4, <2>3, <3>2, <3>3 DEF Live, Same, Pulls
    <3>5. /\ Settles(v, HeaderRewritten(v, i, length, outcome))
          /\ HeaderRewritten(v, i, length, outcome).p.state \in {"STREAMING", "WAIT_WRITE", "TUNNEL", "DONE", "ERROR"}
      BY <1>4, <2>4, <3>1, <3>3, <3>4, HeaderRewrittenEv
    <3>6. r = HeaderRewritten(v, i, length, outcome)
      BY <1>3, <1>6, <2>6
    <3> QED
      BY <2>4, <3>5, <3>6, SameSame DEF r
  <2>7. CASE w.x.res.status = 101 /\ UpgradeAllowed(w)
    <3>1. IsUpgrade(w.x)
      BY <2>7 DEF UpgradeAllowed, IsUpgrade
    <3>2. Rewrites(w, u) /\ u.p.resEnd = e /\ u.p.res = w.p.res
      BY <1>4, <2>2, <3>1, Upgraded DEF T
    <3>3. Whole(w.x) = w.x.res.units
      BY <1>1, <2>7, WholeIs
    <3>4. DOMAIN u = DOMAIN v /\ DOMAIN u.p = DOMAIN v.p /\ u.c = v.c /\ u.b = v.b
      BY <2>4 DEF Running, Shaped, PNames
    <3> HIDE DEF u
    <3>5. u.p.resEnd <= Len(u.p.res) /\ Cat(u.p.res, Coming(u.b)) = Whole(u.x)
      BY <1>1, <2>1, <3>2, <3>3 DEF Rewrites
    <3>6. Answered(u)
      BY <1>4, <3>2, <3>5, RewritesAnswered
    <3>7. Fits(u)
      BY <3>6, AnsweredStreams, StreamsFit
    <3>8. Running(u) /\ Same(w, u) /\ Pulls(u)
      <4>1. Live(v, u) /\ Running(u)
        BY <2>4, <3>4, ProxyOnly
      <4> QED
        BY <1>4, <2>3, <2>4, <3>4, <4>1, SameSame DEF Live, Pulls
    <3>9. Settles(w, Streaming(u)) /\ Streaming(u).p.state \in {"STREAMING", "WAIT_WRITE", "TUNNEL", "DONE", "ERROR"}
      BY <3>7, <3>8, StreamingEv, SameSame
    <3>10. r = Streaming(u)
      BY <1>3, <1>6, <2>7
    <3> QED
      BY <3>9, <3>10 DEF r
  <2>8. CASE w.x.res.status = 101 /\ ~UpgradeAllowed(w)
    <3>1. r = Fail(v)
      BY <1>3, <1>6, <2>8
    <3> QED
      BY <2>5, <3>1 DEF r
  <2> QED
    BY <2>6, <2>7, <2>8
<1> QED
  BY <1>5, <1>6

(* The request lies in its buffer, and so does the position in it.         *)
Forwards(w) ==
  /\ w.b \in Sock /\ SockOK(w.b) /\ w.p.req \in Units /\ w.p.sendPos \in Nat /\ w.p.sendPos <= Len(w.p.req)

LEMMA SendToBackendEv ==
    ASSUME NEW w, Running(w), Forwards(w), NEW outcome
    PROVE  LET v == SendToBackend(w, outcome)
           IN  /\ Settles(w, v) /\ v.p.state \in {"SEND", "RECV_RES_HEADER", "ERROR"}
               /\ In(v, "SEND") => ~w.b.gone /\ v.p.sendPos = w.p.sendPos + BytesSent(w.b, Drop(w.p.req, w.p.sendPos))
<1> DEFINE rest == Drop(w.p.req, w.p.sendPos)
           n == BytesSent(w.b, rest)
           i == w.p.sendPos + n
           T == TRUE
           s == Send(w.b, rest)
           g == w.b.got \o SubSeq(rest, 1, n)
           v == [w EXCEPT !.p.state = "SEND", !.b = [s EXCEPT !.handle = T], !.p.sendPos = i]
           a == [w EXCEPT !.p.state = "SEND"]
           b == [w EXCEPT !.b.handle = T]
           c == [v EXCEPT !.b.ev = "write"]
           d == [v EXCEPT !.p.sendPos = 0, !.p.state = "RECV_RES_HEADER", !.b.ev = "read"]
           r == SendToBackend(w, outcome)
<1>1. r = IF w.p.sendPos = 0 /\ outcome = "late" THEN Fail(a)
          ELSE IF w.b.gone THEN Fail(b) ELSE IF n < Len(rest) THEN c ELSE d
  <2> DEFINE n1 == BytesSent(w.b, SubSeq(w.p.req, w.p.sendPos + 1, Len(w.p.req)))
  <2>1. n1 = n /\ rest = SubSeq(w.p.req, w.p.sendPos + 1, Len(w.p.req))
    BY DEF Drop
  <2> DEFINE u == [w EXCEPT !.p.state = "SEND", !.b = s, !.b.handle = T, !.p.sendPos = @ + n]
  <2>2. r = IF w.p.sendPos = 0 /\ outcome = "late" THEN Fail(a)
            ELSE IF w.b.gone THEN Fail(b)
            ELSE IF n < Len(rest) THEN [u EXCEPT !.b.ev = "write"]
            ELSE [u EXCEPT !.p.sendPos = 0, !.p.state = "RECV_RES_HEADER", !.b.ev = "read"]
    BY <2>1 DEF SendToBackend
  <2> HIDE DEF n, rest, s, T, r, a, b
  <2>3. u = v
    BY DEF Running, Shaped, PNames
  <2> HIDE DEF u, v
  <2> QED
    BY <2>2, <2>3
<1>2. s = [w.b EXCEPT !.got = g]
  BY DEF Send
<1>3. w.p.req \in Units /\ w.p.sendPos \in Nat /\ w.p.sendPos <= Len(w.p.req) /\ Len(w.p.req) \in Nat
  BY SeqBasics DEF Forwards
<1>4. rest \in Units /\ Len(rest) = Len(w.p.req) - w.p.sendPos /\ Len(rest) \in Nat
  <2>1. w.p.sendPos \in 0 .. Len(w.p.req)
    BY <1>3
  <2> QED
    BY <1>3, <2>1, Cutting, SeqBasics
<1>5. n \in 0 .. Len(rest)
  BY <1>4, Sending DEF Forwards
<1> HIDE DEF rest, n, i, T, s, g, r
<1>6. Settles(w, Fail(a)) /\ Fail(a).p.state = "ERROR"
  <2>1. DOMAIN a = DOMAIN w /\ DOMAIN a.p = DOMAIN w.p /\ a.c = w.c /\ a.b = w.b
    BY DEF Running, Shaped, PNames
  <2> HIDE DEF a
  <2> QED
    BY <2>1, ProxyOnly, FailEv, SameSame DEF Running
<1>7. Settles(w, Fail(b)) /\ Fail(b).p.state = "ERROR"
  <2>1. Live(w, b)
    BY DEF Running, Shaped, SNames, Live, Same
  <2> HIDE DEF b
  <2> QED
    BY <2>1, LiveRuns, FailEv, SameSame DEF Running, Live
<1>8. Live(w, v) /\ v.p.req = w.p.req /\ v.p.sendPos = i /\ v.p.state = "SEND"
  BY <1>2 DEF Running, Shaped, PNames, SNames, Live, Same
<1> HIDE DEF v
<1>9. Running(v) /\ Same(w, v)
  BY <1>8, LiveRuns DEF Live
<1>10. ASSUME n < Len(rest)
       PROVE  Settles(w, c) /\ c.p.state = "SEND" /\ c.p.sendPos = i
  <2>1. Live(v, c) /\ c.p = v.p /\ c.b.ev = "write"
    BY <1>9 DEF Running, Shaped, SNames, Live, Same
  <2> HIDE DEF c
  <2>2. Running(c) /\ Same(w, c)
    BY <1>9, <2>1, LiveRuns, SameSame DEF Live
  <2>3. c.p.sendPos < Len(c.p.req)
    BY <1>3, <1>4, <1>5, <1>8, <1>10, <2>1 DEF i
  <2>4. Armed(c)
    BY <1>8, <2>1, <2>2, <2>3 DEF Armed, Running, Unwatched, Unhandled
  <2> QED
    BY <1>8, <2>1, <2>2, <2>4 DEF Settles, Running
<1>11. Settles(w, d) /\ d.p.state = "RECV_RES_HEADER"
  <2>1. Live(v, d) /\ d.p.state = "RECV_RES_HEADER" /\ d.b.ev = "read"
    BY <1>9 DEF Running, Shaped, PNames, SNames, Live, Same
  <2> HIDE DEF d
  <2>2. Running(d) /\ Same(w, d)
    BY <1>9, <2>1, LiveRuns, SameSame DEF Live
  <2>3. Armed(d)
    BY <2>1, <2>2 DEF Armed, Running, Unwatched, Unhandled
  <2> QED
    BY <2>1, <2>2, <2>3 DEF Settles, Running
<1> HIDE DEF a, b, c, d
<1>12. CASE w.p.sendPos = 0 /\ outcome = "late"
  BY <1>1, <1>6, <1>12 DEF In, r
<1>13. CASE ~(w.p.sendPos = 0 /\ outcome = "late") /\ w.b.gone
  BY <1>1, <1>7, <1>13 DEF In, r
<1>14. CASE ~(w.p.sendPos = 0 /\ outcome = "late") /\ ~w.b.gone /\ n < Len(rest)
  BY <1>1, <1>10, <1>14 DEF In, r, i, n, rest
<1>15. CASE ~(w.p.sendPos = 0 /\ outcome = "late") /\ ~w.b.gone /\ ~(n < Len(rest))
  BY <1>1, <1>11, <1>15 DEF In, r
<1> QED
  BY <1>12, <1>13, <1>14, <1>15

(* The request is there as far as it was announced.                        *)
Complete(w) ==
  /\ w.b \in Sock /\ SockOK(w.b) /\ w.p.req \in Units /\ w.p.sendPos = 0
  /\ w.p.reqEnd \in Nat \ {0} /\ w.p.reqLength \in Nat /\ w.p.reqEnd + w.p.reqLength <= Len(w.p.req)

LEMMA ConnectBackendEv ==
    ASSUME NEW w, Running(w), Complete(w), NEW outcome
    PROVE  LET v == ConnectBackend(w, outcome)
           IN  Settles(w, v) /\ v.p.state \in {"SEND", "RECV_RES_HEADER", "ERROR"}
<1> DEFINE want == w.p.reqEnd + w.p.reqLength
           cut == IF proxy_request_is_upgrade(w.x.req.lines) THEN w.p.req
                  ELSE SubSeq(w.p.req, 1, Least(Len(w.p.req), want))
           F == "F"
           T == TRUE
           a == [w EXCEPT !.p.state = "CONNECT", !.c.ev = "peerclose", !.p.req = cut]
           b == [a EXCEPT !.b.open = T]
           q == InsertBefore(b.p.req, b.p.reqEnd, F)
           l == IF proxy_request_is_upgrade(b.p.reqLines) THEN b.p.reqLines ELSE WithClose(b.p.reqLines)
           j == b.p.reqEnd + 1
           v == [b EXCEPT !.p.req = q, !.p.reqEnd = j, !.p.reqLines = l]
           r == ConnectBackend(w, outcome)
<1>1. r = IF outcome = "fail" THEN Fail(a) ELSE IF outcome = "nomem" THEN Fail(b) ELSE SendToBackend(v, outcome)
  <2>1. r = IF outcome = "fail" THEN Fail(a) ELSE IF outcome = "nomem" THEN Fail(b)
            ELSE SendToBackend(proxy_inject_forwarded_headers(b), outcome)
    BY DEF ConnectBackend, proxy_connect_backend, Running, Shaped, PNames
  <2>2. Live(w, b)
    <3> HIDE DEF cut, T
    <3> QED
      BY DEF Running, Shaped, PNames, SNames, Live, Same
  <2>3. proxy_inject_forwarded_headers(b) = v
    <3> HIDE DEF b
    <3> QED
      BY <2>2 DEF proxy_inject_forwarded_headers, Live, Same, Shaped, PNames
  <2> QED
    BY <2>1, <2>3
<1>2. /\ w.b \in Sock /\ SockOK(w.b) /\ w.p.req \in Units /\ w.p.sendPos = 0 /\ Len(w.p.req) \in Nat
      /\ w.p.reqEnd \in Nat \ {0} /\ w.p.reqLength \in Nat /\ w.p.reqEnd + w.p.reqLength <= Len(w.p.req)
  BY SeqBasics DEF Complete
<1>3. cut \in Units /\ w.p.reqEnd \in 1 .. Len(cut)
  <2>1. Least(Len(w.p.req), want) = want /\ want \in 0 .. Len(w.p.req)
    BY <1>2 DEF Least
  <2>2. Take(w.p.req, want) \in Units /\ Len(Take(w.p.req, want)) = want
    BY <1>2, <2>1, Cutting
  <2>3. cut = w.p.req \/ cut = Take(w.p.req, want)
    BY <2>1 DEF Take
  <2> HIDE DEF cut
  <2>4. CASE cut = w.p.req
    BY <1>2, <2>4
  <2>5. CASE cut = Take(w.p.req, want)
    BY <1>2, <2>2, <2>5
  <2> QED
    BY <2>3, <2>4, <2>5
<1> HIDE DEF cut, F, T, l, j, r
<1>4. Live(w, a) /\ a.p.req = cut /\ a.p.reqEnd = w.p.reqEnd /\ a.p.sendPos = w.p.sendPos /\ a.b = w.b
  BY DEF Running, Shaped, PNames, SNames, Live, Same
<1> HIDE DEF a
<1>5. Running(a) /\ Same(w, a)
  BY <1>4, LiveRuns DEF Live
<1>6. Live(a, b) /\ b.p = a.p /\ b.b = [a.b EXCEPT !.open = T]
  BY <1>5 DEF Running, Shaped, SNames, Live, Same
<1> HIDE DEF b
<1>7. Running(b) /\ Same(w, b)
  BY <1>5, <1>6, LiveRuns, SameSame DEF Live
<1>8. q \in Units /\ Len(q) \in Nat
  <2>1. F \in Alphabet
    BY DEF F, Alphabet
  <2>2. b.p.req = cut /\ b.p.reqEnd \in 1 .. Len(cut)
    BY <1>3, <1>4, <1>6
  <2> QED
    BY <1>3, <2>1, <2>2, Inserting, SeqBasics
<1> HIDE DEF q
<1>9. DOMAIN v = DOMAIN b /\ DOMAIN v.p = DOMAIN b.p /\ v.c = b.c /\ v.b = b.b /\ v.p.req = q /\ v.p.sendPos = b.p.sendPos
  BY <1>7 DEF Running, Shaped, PNames
<1> HIDE DEF v
<1>10. Running(v) /\ Same(w, v)
  BY <1>7, <1>9, ProxyOnly, SameSame
<1>11. v.b \in Sock /\ SockOK(v.b)
  <2>1. v.b = [w.b EXCEPT !.open = T] /\ T \in BOOLEAN
    BY <1>4, <1>6, <1>9 DEF T
  <2> QED
    BY <1>2, <2>1 DEF Sock, SockOK
<1>12. Forwards(v)
  BY <1>2, <1>4, <1>6, <1>8, <1>9, <1>11 DEF Forwards
<1>13. Settles(w, SendToBackend(v, outcome)) /\ SendToBackend(v, outcome).p.state \in {"SEND", "RECV_RES_HEADER", "ERROR"}
  BY <1>10, <1>12, SendToBackendEv, SameSame
<1>14. Settles(w, Fail(a)) /\ Fail(a).p.state = "ERROR" /\ Settles(w, Fail(b)) /\ Fail(b).p.state = "ERROR"
  BY <1>5, <1>7, FailEv, SameSame DEF Running
<1> QED
  BY <1>1, <1>13, <1>14 DEF r

(* The request goes on being collected only while it has room.             *)
Collected(w, v) ==
  /\ Settles(w, v) /\ v.p.state # "IDLE"
  /\ Collecting(v) => v.c = w.c
  /\ v.p.state = w.p.state => v = w /\ Len(w.p.req) < w.p.reqSize

LEMMA EndsCollected ==
    ASSUME NEW w, Collecting(w), NEW v, Settles(w, v), v.p.state \in {"SEND", "RECV_RES_HEADER", "ERROR"}
    PROVE  Collected(w, v)
  BY DEF Collected, Collecting

LEMMA RecvClientBodyEv ==
    ASSUME NEW w, Running(w), Base(w), Collects(w), HasHeader(w), In(w, "RECV_REQ_BODY"), w.b.ev = "none", NEW outcome
    PROVE  Collected(w, RecvClientBody(w, outcome))
<1>1. /\ w.b \in Sock /\ SockOK(w.b) /\ w.p.req \in Units /\ w.p.sendPos = 0 /\ Len(w.p.req) \in Nat
      /\ w.p.reqEnd \in Nat \ {0} /\ w.p.reqLength \in Nat /\ w.p.reqSize \in Nat
  <2>1. w.x.req.hdr \in 1 .. Len(w.x.req.units)
    BY MessageUnits DEF Base
  <2>2. w.p.reqEnd = w.x.req.hdr
    BY DEF HasHeader
  <2> QED
    BY <2>1, <2>2, WorldFields, ProxyFields DEF Base, Collects
<1>2. Collecting(w)
  BY DEF Collecting, In
<1>3. CASE Len(w.p.req) - w.p.reqEnd >= w.p.reqLength
  <2>1. Complete(w)
    BY <1>1, <1>3 DEF Complete
  <2>2. RecvClientBody(w, outcome) = ConnectBackend(w, outcome)
    BY <1>3 DEF RecvClientBody
  <2> QED
    BY <1>2, <2>1, <2>2, ConnectBackendEv, EndsCollected
<1>4. CASE ~(Len(w.p.req) - w.p.reqEnd >= w.p.reqLength) /\ Len(w.p.req) >= w.p.reqSize
  <2>1. RecvClientBody(w, outcome) = Reject(w, "413")
    BY <1>4 DEF RecvClientBody
  <2> QED
    BY <1>2, <2>1, RejectEv, EndsCollected DEF Running
<1>5. CASE ~(Len(w.p.req) - w.p.reqEnd >= w.p.reqLength) /\ ~(Len(w.p.req) >= w.p.reqSize)
  <2>1. RecvClientBody(w, outcome) = w
    BY <1>5 DEF RecvClientBody
  <2>2. Len(w.p.req) < w.p.reqSize
    BY <1>1, <1>5
  <2>3. Armed(w) /\ Same(w, w)
    BY DEF Armed, Running, In, Unwatched, Unhandled, Same
  <2> QED
    BY <2>1, <2>2, <2>3 DEF Collected, Settles, Running, In
<1> QED
  BY <1>3, <1>4, <1>5

LEMMA RecvClientHeaderEv ==
    ASSUME NEW w, Running(w), Base(w), Collects(w), In(w, "RECV_REQ_HEADER"), w.b.ev = "none", NEW outcome
    PROVE  Collected(w, RecvClientHeader(w, outcome))
<1> DEFINE end == proxy_find_header_end(w.p.req)
           length == proxy_parse_content_length(w.x.req.lines)
           te == proxy_check_transfer_encoding(w.x.req.lines)
           needed == Least(end + length + 1, BodyCap)
           l == IF length > 0 THEN length ELSE 0
           w1 == [w EXCEPT !.p.reqEnd = end, !.p.reqLength = l]
           z == IF needed > w1.p.reqSize THEN needed ELSE w1.p.reqSize
           w2 == [w1 EXCEPT !.p.reqSize = z]
           w3 == [w2 EXCEPT !.p.state = "RECV_REQ_BODY"]
           u == [w EXCEPT !.p.reqEnd = end]
           r == RecvClientHeader(w, outcome)
<1>1. r =
        IF end > MaxHeader \/ (end = 0 /\ Len(w.p.req) > MaxHeader) THEN Reject(w, "431")
        ELSE IF end = 0 THEN w
        ELSE IF (length >= 0 /\ te # "none") \/ te = "other" \/ length = Invalid THEN Reject(u, "400")
        ELSE IF te = "chunked" THEN Reject(u, "411")
        ELSE IF length <= 0 THEN ConnectBackend(w1, outcome)
        ELSE IF needed > w.p.reqSize /\ outcome = "nomem" THEN Fail(w1)
        ELSE IF Len(w.p.req) - end < length THEN w3
        ELSE ConnectBackend(w2, outcome)
  BY DEF RecvClientHeader
<1>2. /\ w.p.reqSize \in Nat /\ Len(w.p.req) \in Nat /\ w.p.req \in Units /\ w.p.sendPos = 0
      /\ w.b \in Sock /\ SockOK(w.b) /\ w.p.reqSize >= BufferSize
  BY WorldFields, ProxyFields DEF Base, Collects
<1>3. end \in Nat /\ (end # 0 => end <= Len(w.p.req))
  BY RequestHeader
<1>4. length \in Int
  BY ContentLength
<1>5. Collecting(w)
  BY DEF Collecting, In
<1> HIDE DEF end, length, te, needed, r
<1>6. l \in Nat /\ (length <= 0 => l = 0) /\ (length > 0 => l = length)
  BY <1>4
<1> HIDE DEF l
<1>7. /\ DOMAIN w1 = DOMAIN w /\ DOMAIN w1.p = DOMAIN w.p /\ w1.c = w.c /\ w1.b = w.b
      /\ w1.p.reqEnd = end /\ w1.p.reqLength = l /\ w1.p.req = w.p.req /\ w1.p.sendPos = w.p.sendPos
  BY DEF Running, Shaped, PNames
<1>8. /\ DOMAIN u = DOMAIN w /\ DOMAIN u.p = DOMAIN w.p /\ u.c = w.c /\ u.b = w.b
  BY DEF Running, Shaped, PNames
<1> HIDE DEF w1, u, z
<1>9. Running(w1) /\ Same(w, w1) /\ Running(u) /\ Same(w, u)
  BY <1>7, <1>8, ProxyOnly
<1>10. /\ DOMAIN w2 = DOMAIN w1 /\ DOMAIN w2.p = DOMAIN w1.p /\ w2.c = w1.c /\ w2.b = w1.b
       /\ w2.p.reqEnd = end /\ w2.p.reqLength = l /\ w2.p.req = w.p.req /\ w2.p.sendPos = w.p.sendPos
  BY <1>7, <1>9 DEF Running, Shaped, PNames
<1> HIDE DEF w2
<1>11. Running(w2) /\ Same(w, w2)
  BY <1>9, <1>10, ProxyOnly, SameSame
<1>12. /\ DOMAIN w3 = DOMAIN w2 /\ DOMAIN w3.p = DOMAIN w2.p /\ w3.c = w2.c /\ w3.b = w2.b /\ w3.p.state = "RECV_REQ_BODY"
  BY <1>11 DEF Running, Shaped, PNames
<1> HIDE DEF w3
<1>13. Running(w3) /\ Same(w, w3)
  BY <1>11, <1>12, ProxyOnly, SameSame
<1>14. Collected(w, Reject(w, "431"))
  BY <1>5, RejectEv, EndsCollected DEF Running
<1>15. Collected(w, Reject(u, "400")) /\ Collected(w, Reject(u, "411"))
  BY <1>5, <1>9, RejectEv, SameSame, EndsCollected DEF Running
<1>16. Collected(w, Fail(w1))
  BY <1>5, <1>9, FailEv, SameSame, EndsCollected DEF Running
<1>17. CASE end > MaxHeader \/ (end = 0 /\ Len(w.p.req) > MaxHeader)
  BY <1>1, <1>14, <1>17 DEF r
<1>18. CASE ~(end > MaxHeader \/ (end = 0 /\ Len(w.p.req) > MaxHeader)) /\ end = 0
  <2>1. r = w
    BY <1>1, <1>18
  <2>2. Len(w.p.req) < w.p.reqSize
    BY <1>2, <1>18, Sizes
  <2>3. Armed(w) /\ Same(w, w)
    BY DEF Armed, Running, In, Unwatched, Unhandled, Same
  <2> QED
    BY <2>1, <2>2, <2>3 DEF Collected, Settles, Running, r, In
<1>19. CASE end # 0
  <2>1. ASSUME length <= 0 PROVE Collected(w, ConnectBackend(w1, outcome))
    <3>1. Complete(w1)
      BY <1>2, <1>3, <1>6, <1>7, <1>19, <2>1 DEF Complete
    <3> QED
      BY <1>5, <1>9, <3>1, ConnectBackendEv, SameSame, EndsCollected
  <2>2. ASSUME length > 0, ~(Len(w.p.req) - end < length) PROVE Collected(w, ConnectBackend(w2, outcome))
    <3>1. Complete(w2)
      BY <1>2, <1>3, <1>4, <1>6, <1>7, <1>10, <1>19, <2>2 DEF Complete
    <3> QED
      BY <1>5, <1>11, <3>1, ConnectBackendEv, SameSame, EndsCollected
  <2>3. Collected(w, w3)
    <3>1. w3.b.ev = "none"
      BY <1>7, <1>10, <1>12
    <3>2. Armed(w3)
      BY <1>12, <1>13, <3>1 DEF Armed, Running, Unwatched, Unhandled
    <3>3. w3.c = w.c /\ w3.p.state # w.p.state
      BY <1>7, <1>10, <1>12 DEF In
    <3> QED
      BY <1>12, <1>13, <3>2, <3>3 DEF Collected, Settles, Running
  <2>4. length <= 0 \/ length > 0
    BY <1>4
  <2> QED
    BY <1>1, <1>14, <1>15, <1>16, <1>19, <2>1, <2>2, <2>3, <2>4 DEF r
<1> QED
  BY <1>17, <1>18, <1>19

LEMMA CollectEv ==
    ASSUME NEW w, BytesOK(w), Collecting(w), Running(w), w.b.ev = "none", NEW outcome
    PROVE  Collected(w, proxy_process_state(w, outcome))
<1>1. CASE w.p.state = "RECV_REQ_HEADER"
  BY <1>1, ByState, RecvClientHeaderEv DEF proxy_process_state
<1>2. CASE w.p.state = "RECV_REQ_BODY"
  BY <1>2, ByState, RecvClientBodyEv DEF proxy_process_state
<1> QED
  BY <1>1, <1>2 DEF Collecting

(* The events that are registered, and what the handlers leave of them.    *)
EventsOK(w) == Shaped(w) /\ Calm(w) /\ Clear(w) /\ Armed(w) /\ ReadsRequest(w)

(* A read, what it leaves alone, and that it takes something.              *)
LEMMA RecvEv ==
    ASSUME NEW s \in Sock, SockOK(s), NEW space \in Nat, NEW n \in Nat
    PROVE  LET t == WebserverRecv(s, space, n)
               k == Taken(s, space)
           IN  /\ k \in 0 .. Len(s.kin) /\ Len(t.kin) = Len(s.kin) - k
               /\ DOMAIN t = SNames /\ t.fin = s.fin /\ t.gone = s.gone /\ t.shut = s.shut /\ t.ev = s.ev
               /\ t.close = s.close /\ t.handle = s.handle /\ t.tls = s.tls
               /\ space > 0 /\ s.kin # <<>> /\ (s.known => s.pend > 0) => k > 0
<1> DEFINE t == WebserverRecv(s, space, n)
           k == Taken(s, space)
           d == SubSeq(s.kin, k + 1, Len(s.kin))
           e == IF ~s.tls THEN 0 ELSE IF k <= s.pend THEN s.pend - k ELSE Least(n, Len(s.kin) - k)
           f == s.known /\ s.pend > 0
<1>1. s.kin \in Units /\ Len(s.kin) \in Nat /\ s.pend \in Nat /\ s.pend <= Len(s.kin)
  BY SockFields DEF SockOK
<1>2. k \in 0 .. Len(s.kin) /\ t.kin = Drop(s.kin, k)
  BY Reading
<1>3. Len(t.kin) = Len(s.kin) - k
  BY <1>1, <1>2, Cutting
<1>4. t = [s EXCEPT !.kin = d, !.pend = e, !.known = f]
  BY DEF WebserverRecv
<1>5. space > 0 /\ s.kin # <<>> /\ (s.known => s.pend > 0) => k > 0
  <2>1. s.kin # <<>> => Len(s.kin) > 0
    BY <1>1
  <2> QED
    BY <1>1, <2>1 DEF Taken, OnlyPending, Least
<1> HIDE DEF t, k, d, e, f
<1>6. DOMAIN s = SNames
  BY DEF Sock, SNames
<1>7. /\ DOMAIN t = SNames /\ t.fin = s.fin /\ t.gone = s.gone /\ t.shut = s.shut /\ t.ev = s.ev
      /\ t.close = s.close /\ t.handle = s.handle /\ t.tls = s.tls
  BY <1>4, <1>6 DEF SNames
<1> QED
  BY <1>2, <1>3, <1>5, <1>7 DEF t, k

LEMMA PendingEv ==
    ASSUME NEW s, DOMAIN s = SNames
    PROVE  LET t == WebserverSSLPending(s)
           IN  /\ DOMAIN t = SNames /\ t.fin = s.fin /\ t.gone = s.gone /\ t.shut = s.shut /\ t.ev = s.ev
               /\ t.close = s.close /\ t.handle = s.handle /\ t.tls = s.tls /\ t.kin = s.kin /\ t.pend = s.pend
               /\ t.known => t.pend > 0
<1> DEFINE t == WebserverSSLPending(s)
           f == s.pend > 0
<1>1. t = [s EXCEPT !.known = f]
  BY DEF WebserverSSLPending
<1> HIDE DEF f, t
<1>2. /\ DOMAIN t = SNames /\ t.fin = s.fin /\ t.gone = s.gone /\ t.shut = s.shut /\ t.ev = s.ev
      /\ t.close = s.close /\ t.handle = s.handle /\ t.tls = s.tls /\ t.kin = s.kin /\ t.pend = s.pend
      /\ t.known = f
  BY <1>1 DEF SNames
<1>3. t.known => t.pend > 0
  BY <1>2 DEF f
<1> QED
  BY <1>2, <1>3 DEF t

LEMMA Append2ReqEv ==
    ASSUME NEW w, BytesOK(w), Collecting(w), Running(w), NEW n \in Nat
    PROVE  LET v == Append2Req(w, n)
           IN  /\ Running(v) /\ v.b = w.b /\ v.p.state = w.p.state /\ v.c.ev = w.c.ev
               /\ Len(v.c.kin) \in Nat /\ Len(v.c.kin) <= Len(w.c.kin)
               /\ Len(w.p.req) >= w.p.reqSize => v = w
               /\ Len(w.p.req) < w.p.reqSize /\ w.c.kin # <<>> => Len(v.c.kin) < Len(w.c.kin)
<1> DEFINE space == w.p.reqSize - Len(w.p.req)
           s == WebserverRecv(w.c, space, n)
           t == WebserverSSLPending(s)
           k == Taken(w.c, space)
           r == w.p.req \o SubSeq(w.c.kin, 1, Taken(w.c, space))
           v == [w EXCEPT !.p.req = r, !.c = t]
<1>1. Append2Req(w, n) = IF space = 0 THEN w ELSE v
  BY DEF Append2Req, Running, Shaped, PNames
<1>2. /\ w.p.reqSize \in Nat /\ Len(w.p.req) \in Nat /\ Len(w.p.req) <= w.p.reqSize
      /\ w.c \in Sock /\ SockOK(w.c) /\ Len(w.c.kin) \in Nat
  <2>1. Base(w) /\ Collects(w)
    BY ByState DEF Collecting
  <2> QED
    BY <2>1, WorldFields, ProxyFields, SockFields DEF Base, Collects
<1>3. space \in Nat
  BY <1>2
<1>4. CASE space = 0
  BY <1>1, <1>2, <1>4
<1>5. CASE space # 0
  <2>1. space > 0 /\ Len(w.p.req) < w.p.reqSize
    BY <1>2, <1>5
  <2> HIDE DEF space
  <2>2. /\ k \in 0 .. Len(w.c.kin) /\ Len(s.kin) = Len(w.c.kin) - k
        /\ DOMAIN s = SNames /\ s.fin = w.c.fin /\ s.gone = w.c.gone /\ s.shut = w.c.shut /\ s.ev = w.c.ev
        /\ s.close = w.c.close /\ s.handle = w.c.handle /\ s.tls = w.c.tls
        /\ space > 0 /\ w.c.kin # <<>> /\ (w.c.known => w.c.pend > 0) => k > 0
    BY <1>2, <1>3, RecvEv
  <2> HIDE DEF s, k
  <2>3. /\ DOMAIN t = SNames /\ t.fin = s.fin /\ t.gone = s.gone /\ t.shut = s.shut /\ t.ev = s.ev
        /\ t.close = s.close /\ t.handle = s.handle /\ t.tls = s.tls /\ t.kin = s.kin /\ t.pend = s.pend
        /\ t.known => t.pend > 0
    BY <2>2, PendingEv
  <2> HIDE DEF t, r
  <2>4. Shaped(v) /\ v.b = w.b /\ v.c = t /\ v.p.state = w.p.state
    BY <2>3 DEF Running, Shaped, PNames
  <2> HIDE DEF v
  <2>5. Calm(v) /\ Clear(v) /\ v.c.handle
    BY <2>2, <2>3, <2>4 DEF Running, Calm, Clear
  <2>6. Running(v)
    BY <2>4, <2>5 DEF Running
  <2>7. Len(v.c.kin) = Len(w.c.kin) - k /\ v.c.ev = w.c.ev
    BY <2>2, <2>3, <2>4
  <2>8. w.c.kin # <<>> => k > 0
    BY <2>1, <2>2 DEF Running, Clear
  <2>9. Append2Req(w, n) = v
    BY <1>1, <1>5
  <2> QED
    BY <1>2, <2>1, <2>2, <2>4, <2>6, <2>7, <2>8, <2>9
<1> QED
  BY <1>4, <1>5

(* What has become readable is there to be read, or the peer is gone.      *)
LEMMA ReadyToRead ==
    ASSUME NEW s \in Sock, SockOK(s), ~s.shut, s.known => s.pend > 0, Readable(s) \/ s.gone, ~Disconnected(s)
    PROVE  s.kin # <<>>
<1>1. s.kin \in Units /\ Len(s.kin) \in Nat /\ s.pend \in Nat /\ s.pend <= Len(s.kin)
  BY SockFields DEF SockOK
<1>2. Len(s.kin) > 0 => s.kin # <<>>
  BY <1>1
<1>3. s.pend > 0 => Len(s.kin) > 0
  BY <1>1
<1>4. CASE Len(s.kin) > s.pend
  BY <1>1, <1>2, <1>4
<1>5. CASE s.fin \/ s.gone
  BY <1>2, <1>3, <1>5 DEF Disconnected, OnlyPending
<1> QED
  BY <1>4, <1>5 DEF Readable

LEMMA ClientCollects ==
    ASSUME NEW w, BytesOK(w), EventsOK(w), Collecting(w), NEW n \in Nat, NEW outcome
    PROVE  LET v == reverse_proxy_client_handler(w, n, outcome)
           IN  EventsOK(v) /\ Len(v.c.kin) \in Nat /\ Len(v.c.kin) <= Len(w.c.kin) /\ (Ready(w.c) => v # w)
<1> DEFINE a == Append2Req(w, n)
           v == proxy_process_state(a, outcome)
           r == reverse_proxy_client_handler(w, n, outcome)
<1>1. r = IF Len(w.p.req) < w.p.reqSize /\ Disconnected(w.c) THEN Fail(w) ELSE v
  BY DEF reverse_proxy_client_handler, Collecting
<1>2. /\ w.p.reqSize \in Nat /\ Len(w.p.req) \in Nat /\ w.c \in Sock /\ SockOK(w.c) /\ Len(w.c.kin) \in Nat
  <2>1. Base(w)
    BY ByState
  <2> QED
    BY <2>1, WorldFields, ProxyFields, SockFields DEF Base
<1>3. Running(w) /\ w.b.ev = "none" /\ w.c.ev = "read"
  BY DEF EventsOK, Armed, Collecting, Running, Unwatched, Unhandled, ReadsRequest
<1> HIDE DEF r
<1>4. CASE Len(w.p.req) < w.p.reqSize /\ Disconnected(w.c)
  <2>1. Settles(w, Fail(w)) /\ Fail(w).p.state = "ERROR"
    BY <1>3, FailEv DEF Running
  <2>2. EventsOK(Fail(w)) /\ Fail(w).c.kin = w.c.kin
    BY <2>1 DEF EventsOK, Settles, Same, ReadsRequest
  <2>3. w.p.state # "ERROR"
    BY DEF Collecting
  <2> QED
    BY <1>1, <1>2, <1>4, <2>1, <2>2, <2>3 DEF r
<1>5. CASE ~(Len(w.p.req) < w.p.reqSize /\ Disconnected(w.c))
  <2>1. /\ Running(a) /\ a.b = w.b /\ a.p.state = w.p.state /\ a.c.ev = w.c.ev
        /\ Len(a.c.kin) \in Nat /\ Len(a.c.kin) <= Len(w.c.kin)
        /\ Len(w.p.req) >= w.p.reqSize => a = w
        /\ Len(w.p.req) < w.p.reqSize /\ w.c.kin # <<>> => Len(a.c.kin) < Len(w.c.kin)
    BY <1>3, Append2ReqEv
  <2>2. BytesOK(a)
    BY Append2ReqOK
  <2> HIDE DEF a
  <2>3. Collecting(a)
    BY <2>1 DEF Collecting
  <2>4. Collected(a, v)
    BY <1>3, <2>1, <2>2, <2>3, CollectEv
  <2> HIDE DEF v
  <2>5. Settles(a, v) /\ v.c.kin = a.c.kin
    BY <2>4 DEF Collected, Settles, Same
  <2>6. ReadsRequest(v)
    BY <1>3, <2>1, <2>4 DEF Collected, ReadsRequest, Collecting
  <2>7. EventsOK(v)
    BY <2>5, <2>6 DEF EventsOK, Settles, Same
  <2>8. Ready(w.c) => v # w
    <3>1. CASE Len(w.p.req) >= w.p.reqSize
      BY <1>2, <2>1, <2>4, <3>1 DEF Collected
    <3>2. CASE Len(w.p.req) < w.p.reqSize
      <4>1. Ready(w.c) => Readable(w.c) \/ w.c.gone
        BY <1>3 DEF Ready
      <4>2. ~w.c.shut /\ (w.c.known => w.c.pend > 0)
        BY <1>3 DEF Running, Clear
      <4>3. Ready(w.c) => w.c.kin # <<>>
        BY <1>2, <1>5, <3>2, <4>1, <4>2, ReadyToRead
      <4>4. Ready(w.c) => Len(v.c.kin) < Len(w.c.kin)
        BY <2>1, <2>5, <3>2, <4>3
      <4> QED
        BY <1>2, <4>4
    <3> QED
      BY <1>2, <3>1, <3>2
  <2>9. r = v
    BY <1>1, <1>5
  <2> QED
    BY <2>1, <2>5, <2>7, <2>8, <2>9 DEF r
<1> QED
  BY <1>4, <1>5

(* A tunnel is open, or it has come to its end.                            *)
Settled(w) == Shaped(w) /\ Calm(w) /\ Clear(w) /\ Armed(w)
Ends(w) == Settled(w) /\ w.p.state \in {"DONE", "ERROR"}
OpenOrEnded(w) == (In(w, "TUNNEL") /\ Running(w)) \/ Ends(w)

LEMMA EndOf ==
    ASSUME NEW w, Shaped(w), Calm(w)
    PROVE  /\ Ends(Done(w)) /\ Ends(Fail(w))
           /\ Done(w).c.kin = w.c.kin /\ Fail(w).c.kin = w.c.kin
           /\ Done(w).p.state # "TUNNEL" /\ Fail(w).p.state # "TUNNEL"
  BY DoneEv, FailEv DEF Ends, Settled, Settles, Same

(* What a read does, that finds something or finds the client gone.        *)
Took(w, v) == v.p.state # "TUNNEL" \/ Len(v.c.kin) < Len(w.c.kin)
Finds(s) == Disconnected(s) \/ s.kin # <<>>

LEMMA TunnelReadEv ==
    ASSUME NEW w, BytesOK(w), Open(w), Running(w), NEW n \in Nat
    PROVE  LET v == TunnelRead(w, n)
           IN  /\ OpenOrEnded(v) /\ Len(v.c.kin) \in Nat /\ Len(v.c.kin) <= Len(w.c.kin)
               /\ In(v, "TUNNEL") => v.p.b2c = w.p.b2c
               /\ Finds(w.c) => Took(w, v)
<1> DEFINE s == WebserverRecv(w.c, w.p.reqSize, n)
           k == Taken(w.c, w.p.reqSize)
           d == SubSeq(w.c.kin, 1, k)
           u == [w EXCEPT !.p.c2b = d, !.c = s]
           f == proxy_tunnel_flush_c2b(u)
           t == WebserverSSLPending(f.c)
           g == [f EXCEPT !.c = t]
           r == TunnelRead(w, n)
<1>1. r = IF Disconnected(w.c) THEN Done(w) ELSE IF u.p.c2b = <<>> THEN u ELSE IF w.b.gone THEN Fail(u) ELSE g
  BY DEF TunnelRead, Running, Shaped, PNames
<1>2. /\ w.c \in Sock /\ SockOK(w.c) /\ Len(w.c.kin) \in Nat /\ w.p.reqSize \in Nat /\ w.p.reqSize > 0
      /\ w.c.kin \in Units /\ w.c.pend \in Nat /\ w.c.pend <= Len(w.c.kin)
  <2>1. Base(w) /\ w.p.reqSize >= BufferSize
    BY ByState DEF Base
  <2>2. w.c \in Sock /\ SockOK(w.c) /\ w.p.reqSize \in Nat
    BY <2>1, WorldFields, ProxyFields DEF Base
  <2> QED
    BY <2>1, <2>2, SockFields, Sizes DEF SockOK
<1>3. /\ k \in 0 .. Len(w.c.kin) /\ Len(s.kin) = Len(w.c.kin) - k
      /\ DOMAIN s = SNames /\ s.fin = w.c.fin /\ s.gone = w.c.gone /\ s.shut = w.c.shut /\ s.ev = w.c.ev
      /\ s.close = w.c.close /\ s.handle = w.c.handle /\ s.tls = w.c.tls
      /\ w.p.reqSize > 0 /\ w.c.kin # <<>> /\ (w.c.known => w.c.pend > 0) => k > 0
  BY <1>2, RecvEv
<1>4. w.c.kin # <<>> => k > 0
  BY <1>2, <1>3 DEF Running, Clear
<1>5. d = <<>> => k = 0
  <2>1. d \in Units /\ Len(d) = k
    BY <1>2, <1>3, Cutting DEF Take
  <2> HIDE DEF d, k
  <2> QED
    BY <2>1
<1>6. s.known => w.c.known /\ w.c.pend > 0
  <2> DEFINE e == SubSeq(w.c.kin, k + 1, Len(w.c.kin))
             h == IF ~w.c.tls THEN 0 ELSE IF k <= w.c.pend THEN w.c.pend - k ELSE Least(n, Len(w.c.kin) - k)
             j == w.c.known /\ w.c.pend > 0
  <2>1. s = [w.c EXCEPT !.kin = e, !.pend = h, !.known = j]
    BY DEF WebserverRecv
  <2> HIDE DEF s, k, e, h, j
  <2>2. s.known = j
    BY <2>1 DEF Running, Shaped, SNames
  <2> QED
    BY <2>2 DEF j
<1> HIDE DEF s, k, d, r
<1>7. Shaped(u) /\ u.p.state = "TUNNEL" /\ u.p.c2b = d /\ u.p.b2c = w.p.b2c /\ u.c = s /\ u.b = w.b
  BY <1>3 DEF Running, Shaped, PNames, Open
<1> HIDE DEF u
<1>8. Calm(u)
  BY <1>7 DEF Running, Calm
<1>9. Ends(Done(w)) /\ Done(w).c.kin = w.c.kin /\ Ends(Fail(u)) /\ Fail(u).c.kin = u.c.kin
      /\ Done(w).p.state # "TUNNEL" /\ Fail(u).p.state # "TUNNEL"
  BY <1>7, <1>8, EndOf DEF Running
<1>10. Len(u.c.kin) \in Nat /\ Len(u.c.kin) <= Len(w.c.kin) /\ (w.c.kin # <<>> => Len(u.c.kin) < Len(w.c.kin))
  BY <1>2, <1>3, <1>4, <1>7
<1>11. CASE Disconnected(w.c)
  BY <1>1, <1>2, <1>9, <1>11 DEF OpenOrEnded, Took, r, In
<1>12. CASE ~Disconnected(w.c) /\ u.p.c2b = <<>>
  <2>1. w.c.kin = <<>>
    BY <1>4, <1>5, <1>7, <1>12
  <2>2. ~(w.c.pend > 0)
    BY <1>2, <2>1
  <2>3. ~s.known
    BY <1>6, <2>2
  <2>4. Clear(u) /\ u.c.handle
    BY <1>3, <1>7, <2>3 DEF Clear, Running
  <2>5. OpenOrEnded(u)
    BY <1>7, <1>8, <2>4 DEF OpenOrEnded, Running, In
  <2>6. ~Finds(w.c)
    BY <1>12, <2>1 DEF Finds
  <2> QED
    BY <1>1, <1>7, <1>10, <1>12, <2>5, <2>6 DEF r
<1>13. CASE ~Disconnected(w.c) /\ u.p.c2b # <<>> /\ w.b.gone
  BY <1>1, <1>9, <1>10, <1>13 DEF OpenOrEnded, Took, r, In
<1>14. CASE ~Disconnected(w.c) /\ u.p.c2b # <<>> /\ ~w.b.gone
  <2> DEFINE h == u.b.got \o SubSeq(u.p.c2b, 1, BytesSent(u.b, u.p.c2b))
             j == SubSeq(u.p.c2b, BytesSent(u.b, u.p.c2b) + 1, Len(u.p.c2b))
  <2>1. f = [u EXCEPT !.b = [u.b EXCEPT !.got = h], !.p.c2b = j]
    BY <1>7 DEF proxy_tunnel_flush_c2b, Send, Shaped, PNames
  <2> HIDE DEF f, h, j
  <2>2. /\ Shaped(f) /\ f.c = u.c /\ f.p.state = u.p.state /\ f.p.b2c = u.p.b2c
        /\ f.b.shut = u.b.shut /\ f.b.fin = u.b.fin /\ f.b.gone = u.b.gone
    BY <1>7, <2>1 DEF Shaped, PNames, SNames
  <2>3. /\ DOMAIN t = SNames /\ t.shut = f.c.shut /\ t.close = f.c.close /\ t.handle = f.c.handle /\ t.kin = f.c.kin
        /\ t.known => t.pend > 0
    BY <2>2, PendingEv DEF Shaped
  <2> HIDE DEF t
  <2>4. Shaped(g) /\ g.p = f.p /\ g.b = f.b /\ g.c = t
    BY <2>2, <2>3 DEF Shaped
  <2> HIDE DEF g
  <2>5. Calm(g)
    BY <1>8, <2>2, <2>4 DEF Calm
  <2>6. Clear(g) /\ g.c.handle
    BY <1>3, <1>7, <2>2, <2>3, <2>4 DEF Clear, Running
  <2>7. OpenOrEnded(g) /\ g.c.kin = u.c.kin /\ g.p.b2c = w.p.b2c
    BY <1>7, <2>2, <2>3, <2>4, <2>5, <2>6 DEF OpenOrEnded, Running, In
  <2> QED
    BY <1>1, <1>10, <1>14, <2>7 DEF r, Finds, Took
<1> QED
  BY <1>11, <1>12, <1>13, <1>14

(* The rounds that come behind the first one of the world w.               *)
ReadsOn(w, r) ==
  /\ OpenOrEnded(r.w) /\ Len(r.w.c.kin) \in Nat /\ Len(r.w.c.kin) <= Len(w.c.kin)
  /\ In(r.w, "TUNNEL") => r.w.p.b2c = w.p.b2c
Behind(w, r) == ReadsOn(w, r) /\ (Open(w) /\ Finds(w.c) => Took(w, r.w))

LEMMA ReadStepEv ==
    ASSUME NEW w, Len(w.c.kin) \in Nat, NEW r \in Reads(w.x), NEW n \in Nat,
           Behind(w, r) \/ (ReadsOn(w, r) /\ r.w = w /\ (Open(w) => r.more))
    PROVE  Behind(w, ReadStep(r, n))
<1> DEFINE v == TunnelRead(r.w, n)
           q == ReadOn(v)
<1>1. ReadsOn(w, r)
  BY DEF Behind
<1>2. CASE r.more
  <2>1. BytesOK(r.w) /\ Open(r.w)
    BY <1>2 DEF Reads
  <2>2. Running(r.w)
    BY <1>1, <2>1 DEF ReadsOn, OpenOrEnded, Ends, Open
  <2>3. /\ OpenOrEnded(v) /\ Len(v.c.kin) \in Nat /\ Len(v.c.kin) <= Len(r.w.c.kin)
        /\ In(v, "TUNNEL") => v.p.b2c = r.w.p.b2c
        /\ Finds(r.w.c) => Took(r.w, v)
    BY <2>1, <2>2, TunnelReadEv
  <2>4. q.w = v /\ ReadStep(r, n) = q
    BY <1>2 DEF ReadOn, ReadStep
  <2> HIDE DEF v, q
  <2>5. ReadsOn(w, q)
    <3>1. Len(v.c.kin) <= Len(w.c.kin)
      <4> DEFINE i == Len(v.c.kin)
                 j == Len(r.w.c.kin)
                 k == Len(w.c.kin)
      <4>1. i \in Nat /\ j \in Nat /\ k \in Nat /\ i <= j /\ j <= k
        BY <1>1, <2>3 DEF ReadsOn
      <4> HIDE DEF i, j, k
      <4>2. i <= k
        BY <4>1
      <4> QED
        BY <4>2 DEF i, k
    <3>2. In(v, "TUNNEL") => v.p.b2c = w.p.b2c
      BY <1>1, <2>1, <2>3 DEF ReadsOn, Open, In
    <3> QED
      BY <2>3, <2>4, <3>1, <3>2 DEF ReadsOn
  <2>6. ASSUME Open(w), Finds(w.c) PROVE Took(w, v)
    <3>1. CASE r.w = w
      BY <2>3, <2>6, <3>1
    <3>2. CASE r.w # w
      <4>1. Took(w, r.w)
        BY <2>6, <3>2 DEF Behind
      <4>2. Len(r.w.c.kin) < Len(w.c.kin)
        BY <2>1, <4>1 DEF Took, Open
      <4>3. Len(r.w.c.kin) \in Nat
        BY <1>1 DEF ReadsOn
      <4>4. Len(v.c.kin) < Len(w.c.kin)
        <5> DEFINE i == Len(v.c.kin)
                   j == Len(r.w.c.kin)
                   k == Len(w.c.kin)
        <5>1. i \in Nat /\ j \in Nat /\ k \in Nat /\ i <= j /\ j < k
          BY <2>3, <4>2, <4>3
        <5> HIDE DEF i, j, k
        <5>2. i < k
          BY <5>1
        <5> QED
          BY <5>2 DEF i, k
      <4> QED
        BY <4>4 DEF Took
    <3> QED
      BY <3>1, <3>2
  <2> QED
    BY <2>4, <2>5, <2>6 DEF Behind
<1>3. CASE ~r.more
  <2>1. ReadStep(r, n) = r
    BY <1>3 DEF ReadStep
  <2> QED
    BY <1>3, <2>1 DEF Behind
<1> QED
  BY <1>2, <1>3

LEMMA TunnelReadsEv ==
    ASSUME NEW w, BytesOK(w), In(w, "TUNNEL"), Running(w), NEW n \in Nat
    PROVE  LET v == TunnelReads(w, n)
           IN  /\ OpenOrEnded(v) /\ Len(v.c.kin) \in Nat /\ Len(v.c.kin) <= Len(w.c.kin)
               /\ In(v, "TUNNEL") => v.p.b2c = w.p.b2c
               /\ Open(w) /\ Finds(w.c) => Took(w, v)
<1> DEFINE N == Len(w.c.kin) + 1
           a == [w |-> w, more |-> w.p.c2b = <<>>]
           S == {r \in Reads(w.x) : Behind(w, r) \/ (ReadsOn(w, r) /\ r.w = w /\ (Open(w) => r.more))}
<1>1. Len(w.c.kin) \in Nat
  BY WorldFields, SockFields DEF BytesOK, Base
<1>2. PICK g : ReadRound(w, n, N, g)
  BY TunnelRounds
<1>3. N \in Nat \ {0} /\ N - 1 \in 0 .. N /\ N \in 1 .. N /\ 0 \in 0 .. N
  BY <1>1
<1>4. a.w = w /\ (Open(w) => a.more) /\ g[0] = a
  BY <1>2 DEF Open, ReadRound
<1> HIDE DEF a, N
<1>5. ReadsOn(w, a)
  BY <1>1, <1>4 DEF ReadsOn, OpenOrEnded
<1>6. \A r \in S : Behind(w, ReadStep(r, n))
  BY <1>1, ReadStepEv
<1>7. g[0] \in S
  BY <1>2, <1>3, <1>4, <1>5 DEF ReadRound
<1>8. \A i \in 1 .. N : g[i - 1] \in S => g[i] \in S
  <2> SUFFICES ASSUME NEW i \in 1 .. N, g[i - 1] \in S PROVE g[i] \in S
    OBVIOUS
  <2>1. i \in 0 .. N
    OBVIOUS
  <2> HIDE DEF S
  <2>2. Behind(w, g[i]) /\ g[i] \in Reads(w.x)
    BY <1>2, <1>6, <2>1 DEF ReadRound
  <2> QED
    BY <2>2 DEF S
<1> HIDE DEF S
<1>9. \A i \in 0 .. N : g[i] \in S
  BY <1>3, <1>7, <1>8, StaysIn
<1>10. g[N] = ReadStep(g[N - 1], n) /\ g[N - 1] \in S
  BY <1>2, <1>3, <1>9 DEF ReadRound
<1>11. Behind(w, g[N])
  BY <1>6, <1>10
<1> QED
  BY <1>2, <1>11 DEF Behind, ReadsOn, ReadRound

LEMMA RearmEv ==
    ASSUME NEW w, OpenOrEnded(w)
    PROVE  LET v == Rearm(w)
           IN  EventsOK(v) /\ v.p = w.p /\ v.c.kin = w.c.kin /\ v.p.state \in {"TUNNEL", "DONE", "ERROR"}
<1>1. CASE In(w, "TUNNEL") /\ Running(w)
  <2> DEFINE v == proxy_tunnel_update_events(w)
  <2>1. Settles(w, v) /\ v.p = w.p
    BY <1>1, TunnelEv
  <2>2. Rearm(w) = v
    BY <1>1 DEF Rearm, In
  <2> HIDE DEF v
  <2>3. EventsOK(v) /\ v.c.kin = w.c.kin
    BY <1>1, <2>1 DEF EventsOK, Settles, Same, ReadsRequest, In
  <2> QED
    BY <1>1, <2>1, <2>2, <2>3 DEF In
<1>2. CASE Ends(w)
  BY <1>2 DEF Ends, Settled, EventsOK, ReadsRequest, Rearm
<1> QED
  BY <1>1, <1>2 DEF OpenOrEnded

LEMMA TunnelClientEv ==
    ASSUME NEW w, Base(w), Tunnels(w), In(w, "TUNNEL"), Running(w), NEW n \in Nat
    PROVE  LET v == TunnelClient(w, n)
           IN  /\ EventsOK(v) /\ v.p.state \in {"TUNNEL", "DONE", "ERROR"}
               /\ Len(v.c.kin) \in Nat /\ Len(v.c.kin) <= Len(w.c.kin)
               /\ Open(w) /\ Finds(w.c) => Took(w, v)
               /\ w.p.b2c # <<>> /\ (Room(w.c) > 0 \/ w.c.gone) => v.p.state # "TUNNEL" \/ v.p.b2c # w.p.b2c
<1> DEFINE f == proxy_tunnel_flush_b2c(w)
           u == TunnelReads(f, n)
           v == Rearm(u)
           r == TunnelClient(w, n)
<1>1. r = IF w.p.b2c # <<>> /\ w.c.gone THEN Done(w) ELSE v
  BY DEF TunnelClient
<1>2. w.c \in Sock /\ SockOK(w.c) /\ Len(w.c.kin) \in Nat /\ w.p.b2c \in Units /\ Len(w.p.b2c) \in Nat
  BY WorldFields, ProxyFields, SockFields DEF Base
<1> HIDE DEF r
<1>3. CASE w.p.b2c # <<>> /\ w.c.gone
  <2>1. Ends(Done(w)) /\ Done(w).c.kin = w.c.kin /\ Done(w).p.state # "TUNNEL"
    BY EndOf DEF Running
  <2>2. EventsOK(Done(w)) /\ Done(w).p.state \in {"TUNNEL", "DONE", "ERROR"}
    BY <2>1 DEF Ends, Settled, EventsOK, ReadsRequest
  <2> QED
    BY <1>1, <1>2, <1>3, <2>1, <2>2 DEF r, Took
<1>4. CASE ~(w.p.b2c # <<>> /\ w.c.gone)
  <2>1. Base(f) /\ Tunnels(f) /\ Held(f) /\ In(f, "TUNNEL")
    BY FlushB2C DEF In, Held, Running
  <2>2. BytesOK(f)
    BY <2>1, TunnelOK DEF In
  <2>3. Live(w, f) /\ f.p.c2b = w.p.c2b
    BY FlushEv
  <2>4. w.p.b2c # <<>> /\ Room(w.c) > 0 => f.p.b2c # w.p.b2c
    <3> DEFINE j == BytesSent(w.c, w.p.b2c)
    <3>1. f.p.b2c = Drop(w.p.b2c, j)
      <4> DEFINE h == w.c.got \o SubSeq(w.p.b2c, 1, j)
                 q == SubSeq(w.p.b2c, j + 1, Len(w.p.b2c))
      <4>1. f = [w EXCEPT !.c = [w.c EXCEPT !.got = h], !.p.b2c = q]
        BY DEF proxy_tunnel_flush_b2c, Send, Shaped, PNames, Running
      <4> HIDE DEF f, h, q
      <4>2. f.p.b2c = q
        BY <4>1 DEF Shaped, PNames, Running
      <4> QED
        BY <4>2 DEF q, Drop
    <3>2. j \in 0 .. Len(w.p.b2c)
      BY <1>2, Sending
    <3>3. Room(w.c) \in Int
      BY <1>2, SockFields, WindowAssumption DEF Room
    <3>4. w.p.b2c # <<>> /\ Room(w.c) > 0 => j > 0
      BY <1>2, <3>3 DEF BytesSent, Least
    <3> HIDE DEF j
    <3>5. Len(f.p.b2c) = Len(w.p.b2c) - j
      BY <1>2, <3>1, <3>2, Cutting
    <3> QED
      BY <1>2, <3>2, <3>4, <3>5
  <2> HIDE DEF f
  <2>5. Running(f)
    BY <2>3, LiveRuns
  <2>6. /\ OpenOrEnded(u) /\ Len(u.c.kin) \in Nat /\ Len(u.c.kin) <= Len(f.c.kin)
        /\ In(u, "TUNNEL") => u.p.b2c = f.p.b2c
        /\ Open(f) /\ Finds(f.c) => Took(f, u)
    BY <2>1, <2>2, <2>5, TunnelReadsEv
  <2>7. f.c.kin = w.c.kin /\ (Open(w) => Open(f)) /\ (Finds(w.c) => Finds(f.c))
    BY <2>1, <2>3 DEF Live, Same, Open, In, Finds, Disconnected, OnlyPending
  <2> HIDE DEF u
  <2>8. EventsOK(v) /\ v.p = u.p /\ v.c.kin = u.c.kin /\ v.p.state \in {"TUNNEL", "DONE", "ERROR"}
    BY <2>6, RearmEv
  <2> HIDE DEF v
  <2>9. Open(w) /\ Finds(w.c) => Took(w, v)
    BY <2>6, <2>7, <2>8 DEF Took
  <2>10. w.p.b2c # <<>> /\ (Room(w.c) > 0 \/ w.c.gone) => v.p.state # "TUNNEL" \/ v.p.b2c # w.p.b2c
    BY <1>4, <2>4, <2>6, <2>8 DEF In
  <2>11. r = v
    BY <1>1, <1>4
  <2>12. Len(v.c.kin) \in Nat /\ Len(v.c.kin) <= Len(w.c.kin)
    BY <2>6, <2>7, <2>8
  <2> QED
    BY <2>8, <2>9, <2>10, <2>11, <2>12 DEF r
<1> QED
  BY <1>3, <1>4

LEMMA RestWaits ==
    ASSUME NEW w, Fits(w), Waits(w.p), Room(w.c) > 0
    PROVE  BytesSent(w.c, RestOf(w.p)) \in Nat \ {0}
<1>1. /\ w.p.res \in Units /\ w.p.sendPos \in Nat /\ w.p.resEnd \in Nat /\ Len(w.p.res) \in Nat
      /\ w.p.sendPos <= Len(w.p.res) /\ w.c \in Sock /\ SockOK(w.c)
  BY SeqBasics DEF Fits
<1>2. Room(w.c) \in Int
  BY <1>1, SockFields, WindowAssumption DEF Room
<1>3. RestOf(w.p) \in Units /\ Len(RestOf(w.p)) > 0 /\ Len(RestOf(w.p)) \in Nat
  <2>1. CASE w.p.headerSent
    <3>1. w.p.sendPos \in 0 .. Len(w.p.res) /\ w.p.sendPos < Len(w.p.res)
      BY <1>1, <2>1 DEF Waits
    <3>2. Drop(w.p.res, w.p.sendPos) \in Units /\ Len(Drop(w.p.res, w.p.sendPos)) = Len(w.p.res) - w.p.sendPos
      BY <1>1, <3>1, Cutting
    <3>3. RestOf(w.p) = Drop(w.p.res, w.p.sendPos)
      BY <2>1 DEF RestOf
    <3> QED
      BY <1>1, <3>1, <3>2, <3>3
  <2>2. CASE ~w.p.headerSent
    <3> DEFINE e == w.p.resEnd
               q == Part(w.p.res, w.p.sendPos, e)
    <3>1. w.p.sendPos < e /\ e <= Len(w.p.res)
      BY <1>1, <2>2 DEF Waits, Fits
    <3>2. 0 \in Nat /\ 0 <= e - w.p.sendPos /\ w.p.sendPos <= e /\ e \in Nat
      BY <1>1, <3>1
    <3>3. q \in Units /\ Len(q) = e - w.p.sendPos
      BY <1>1, <3>1, <3>2, SendOfPart
    <3>4. RestOf(w.p) = q
      BY <2>2 DEF RestOf
    <3> HIDE DEF q
    <3> QED
      BY <1>1, <3>1, <3>2, <3>3, <3>4
  <2> QED
    BY <2>1, <2>2
<1> QED
  BY <1>2, <1>3 DEF BytesSent, Least

LEMMA ClientWaits ==
    ASSUME NEW w, BytesOK(w), EventsOK(w), In(w, "WAIT_WRITE"), NEW n \in Nat, NEW outcome
    PROVE  LET v == reverse_proxy_client_handler(w, n, outcome)
           IN  EventsOK(v) /\ Len(v.c.kin) \in Nat /\ Len(v.c.kin) <= Len(w.c.kin) /\ (Ready(w.c) => v # w)
<1> DEFINE e == "peerclose"
           f == "read"
           r == [w EXCEPT !.c.ev = e, !.b.ev = f]
           v == Streaming(r)
<1>1. reverse_proxy_client_handler(w, n, outcome) = v
  BY DEF reverse_proxy_client_handler, In
<1>2. Running(w) /\ w.c.ev = "write" /\ Waits(w.p)
  BY DEF EventsOK, Armed, Running, In, Unhandled
<1>3. Base(w) /\ Streams(w) /\ w \in Worlds(w.x) /\ Len(w.c.kin) \in Nat
  <2>1. Base(w) /\ Streams(w)
    BY ByState DEF In
  <2> QED
    BY <2>1, WorldFields, SockFields DEF Base
<1>4. Base(r) /\ Streams(r)
  <2>1. Still(w, r)
    BY <1>3, ResumeStill
  <2> HIDE DEF r
  <2> QED
    BY <1>3, <2>1, StillKeeps
<1>5. Fits(r) /\ Fits(w)
  BY <1>3, <1>4, StreamsFit
<1> HIDE DEF e
<1>6. Live(w, r) /\ r.b.ev = f /\ r.p = w.p /\ r.c = [w.c EXCEPT !.ev = e]
  BY <1>2 DEF Running, Shaped, SNames, Live, Same
<1>7. Pulls(r)
  BY <1>6 DEF Pulls
<1> HIDE DEF f, r
<1>8. Running(r) /\ Same(w, r)
  BY <1>2, <1>6, LiveRuns DEF Live
<1>9. /\ Settles(r, v) /\ v.p.state \in {"STREAMING", "WAIT_WRITE", "TUNNEL", "DONE", "ERROR"}
      /\ In(v, "WAIT_WRITE") /\ v.p.headerSent = r.p.headerSent
           => ~r.c.gone /\ v.p.sendPos = r.p.sendPos + BytesSent(r.c, RestOf(r.p))
  BY <1>5, <1>7, <1>8, StreamingEv
<1> HIDE DEF v
<1>10. Settles(w, v)
  BY <1>8, <1>9, SameSame
<1>11. EventsOK(v) /\ v.c.kin = w.c.kin
  BY <1>9, <1>10 DEF EventsOK, Settles, Same, ReadsRequest
<1>12. ASSUME Ready(w.c), v = w PROVE FALSE
  <2>1. ~w.c.gone /\ w.p.sendPos = w.p.sendPos + BytesSent(r.c, RestOf(w.p))
    BY <1>6, <1>8, <1>9, <1>12 DEF Same
  <2>2. Room(w.c) > 0
    BY <1>2, <1>12, <2>1 DEF Ready, Writable, Running, Clear
  <2>3. BytesSent(r.c, RestOf(w.p)) = BytesSent(w.c, RestOf(w.p))
    <3>1. r.c.got = w.c.got /\ r.c.read = w.c.read
      BY <1>2, <1>6 DEF Running, Shaped, SNames
    <3> QED
      BY <3>1 DEF BytesSent, Room
  <2>4. BytesSent(w.c, RestOf(w.p)) \in Nat \ {0}
    BY <1>2, <1>5, <2>2, RestWaits
  <2>5. w.p.sendPos \in Nat
    BY <1>5 DEF Fits
  <2> QED
    BY <2>1, <2>3, <2>4, <2>5
<1> QED
  BY <1>1, <1>3, <1>11, <1>12

LEMMA ClientTunnels ==
    ASSUME NEW w, BytesOK(w), EventsOK(w), In(w, "TUNNEL"), NEW n \in Nat, NEW outcome
    PROVE  LET v == reverse_proxy_client_handler(w, n, outcome)
           IN  EventsOK(v) /\ Len(v.c.kin) \in Nat /\ Len(v.c.kin) <= Len(w.c.kin) /\ (Ready(w.c) => v # w)
<1> DEFINE v == TunnelClient(w, n)
<1>1. reverse_proxy_client_handler(w, n, outcome) = v
  BY DEF reverse_proxy_client_handler, In
<1>2. Running(w) /\ Both(w)
  BY DEF EventsOK, Armed, Running, In, Unhandled
<1>3. Base(w) /\ Tunnels(w) /\ w.c \in Sock /\ SockOK(w.c) /\ Len(w.c.kin) \in Nat
  <2>1. Base(w) /\ Tunnels(w)
    BY ByState DEF In
  <2> QED
    BY <2>1, WorldFields, SockFields DEF Base
<1>4. /\ EventsOK(v) /\ Len(v.c.kin) \in Nat /\ Len(v.c.kin) <= Len(w.c.kin)
      /\ Open(w) /\ Finds(w.c) => Took(w, v)
      /\ w.p.b2c # <<>> /\ (Room(w.c) > 0 \/ w.c.gone) => v.p.state # "TUNNEL" \/ v.p.b2c # w.p.b2c
  BY <1>2, <1>3, TunnelClientEv
<1> HIDE DEF v
<1>5. ASSUME Ready(w.c) PROVE v # w
  <2>1. ~w.c.shut /\ (w.c.known => w.c.pend > 0)
    BY <1>2 DEF Running, Clear
  <2>2. Readable(w.c) \/ w.c.gone => Finds(w.c)
    BY <1>3, <2>1, ReadyToRead DEF Finds
  <2>3. CASE w.p.c2b = <<>> /\ (Readable(w.c) \/ w.c.gone)
    <3>1. Took(w, v)
      BY <1>4, <2>2, <2>3 DEF Open, In
    <3> QED
      BY <1>3, <3>1 DEF Took, In
  <2>4. CASE w.p.b2c # <<>> /\ (Writable(w.c) \/ w.c.gone)
    <3>1. Room(w.c) > 0 \/ w.c.gone
      BY <2>1, <2>4 DEF Writable
    <3> QED
      BY <1>4, <2>4, <3>1 DEF In
  <2>5. w.c.ev = TunnelEvent(w.p.c2b = <<>>, w.p.b2c # <<>>)
    BY <1>2 DEF Both
  <2> QED
    BY <1>5, <2>3, <2>4, <2>5 DEF Ready, TunnelEvent
<1> QED
  BY <1>1, <1>4, <1>5

LEMMA ClientHandlerEv ==
    ASSUME NEW w, BytesOK(w), EventsOK(w), w.c.handle, NEW n \in Nat, NEW outcome
    PROVE  LET v == reverse_proxy_client_handler(w, n, outcome)
           IN  EventsOK(v) /\ Len(v.c.kin) \in Nat /\ Len(v.c.kin) <= Len(w.c.kin) /\ (Ready(w.c) => v # w)
<1>1. CASE Collecting(w)
  BY <1>1, ClientCollects
<1>2. CASE In(w, "WAIT_WRITE")
  BY <1>2, ClientWaits
<1>3. CASE In(w, "TUNNEL")
  BY <1>3, ClientTunnels
<1>4. CASE w.p.state \in {"SEND", "RECV_RES_HEADER", "STREAMING"}
  <2>1. reverse_proxy_client_handler(w, n, outcome) = Done(w)
    BY <1>4 DEF reverse_proxy_client_handler
  <2>2. Settles(w, Done(w)) /\ Done(w).p.state = "DONE"
    BY DoneEv DEF EventsOK
  <2>3. EventsOK(Done(w)) /\ Done(w).c.kin = w.c.kin
    BY <2>2 DEF EventsOK, Settles, Same, ReadsRequest
  <2>4. Len(w.c.kin) \in Nat
    BY ByState, WorldFields, SockFields DEF Base
  <2> QED
    BY <1>4, <2>1, <2>2, <2>3, <2>4
<1>5. w.p.state \in States
  BY ByState, WorldFields, ProxyFields DEF Base
<1>6. w.p.state \notin Unhandled /\ w.p.state # "CONNECT"
  BY DEF EventsOK, Armed
<1> QED
  BY <1>1, <1>2, <1>3, <1>4, <1>5, <1>6 DEF States, Unhandled, Collecting, In

LEMMA CleanupEv ==
    ASSUME NEW w, Shaped(w), Calm(w)
    PROVE  LET v == proxy_cleanup_connection(w)
           IN  EventsOK(v) /\ v.p.state = "RELEASED" /\ v.c.kin = w.c.kin
<1> DEFINE F == FALSE
           N == "none"
           R == "RELEASED"
           v == proxy_cleanup_connection(w)
<1>1. /\ v = [w EXCEPT !.p.state = R, !.c.ev = N, !.b.ev = N, !.c.handle = F, !.c.open = F, !.b.open = F]
      /\ ~F /\ N = "none" /\ R = "RELEASED"
  BY Zenon DEF proxy_cleanup_connection
<1> HIDE DEF F, N, R, v
<1>2. /\ v.p = [w.p EXCEPT !.state = R] /\ v.b = [w.b EXCEPT !.ev = N, !.open = F]
      /\ v.c = [w.c EXCEPT !.ev = N, !.handle = F, !.open = F]
      /\ DOMAIN v = {"p", "c", "b", "x"}
  BY <1>1 DEF Shaped
<1>3. /\ Shaped(v) /\ v.p.state = R /\ v.c.handle = F /\ v.b.ev = N /\ v.c.ev = N /\ v.c.kin = w.c.kin
      /\ v.b.shut = w.b.shut /\ v.b.fin = w.b.fin /\ v.b.gone = w.b.gone
  BY <1>2 DEF Shaped, PNames, SNames
<1>4. Calm(v) /\ ~v.c.handle
  BY <1>1, <1>3 DEF Calm
<1>5. Clear(v)
  BY <1>4 DEF Clear
<1>6. Armed(v) /\ ReadsRequest(v)
  BY <1>1, <1>3, <1>4 DEF Armed, ReadsRequest, Unwatched, Unhandled
<1> QED
  BY <1>1, <1>3, <1>4, <1>5, <1>6 DEF EventsOK, v

LEMMA PendEvents ==
    ASSUME NEW w, EventsOK(w), w.p.state # "IDLE"
    PROVE  LET v == [w EXCEPT !.c = WebserverSSLPending(@)]
           IN  EventsOK(v) /\ v.p = w.p /\ v.c.kin = w.c.kin /\ v.c.handle = w.c.handle /\ v.c.pend = w.c.pend
<1> DEFINE t == WebserverSSLPending(w.c)
           v == [w EXCEPT !.c = t]
<1>1. /\ DOMAIN t = SNames /\ t.shut = w.c.shut /\ t.ev = w.c.ev /\ t.close = w.c.close /\ t.handle = w.c.handle
      /\ t.kin = w.c.kin /\ t.pend = w.c.pend /\ (t.known => t.pend > 0)
  BY PendingEv DEF EventsOK, Shaped
<1> HIDE DEF t
<1>2. v.p = w.p /\ v.b = w.b /\ v.c = t /\ Shaped(v)
  BY <1>1 DEF EventsOK, Shaped
<1> HIDE DEF v
<1>3. Calm(v) /\ Clear(v)
  BY <1>1, <1>2 DEF EventsOK, Calm, Clear
<1>4. Armed(v) /\ ReadsRequest(v)
  BY <1>1, <1>2 DEF EventsOK, Armed, ReadsRequest, Both
<1> QED
  BY <1>1, <1>2, <1>3, <1>4 DEF EventsOK, v, t

(* The rounds that come behind the first call for the world w.             *)
Calling(w, r) ==
  /\ EventsOK(r.w) /\ Len(r.w.c.kin) \in Nat /\ Len(r.w.c.kin) <= Len(w.c.kin) /\ (r.more => r.w.c.handle)
Moved(w, r) == Len(r.w.c.kin) < Len(w.c.kin) \/ (~r.more /\ r.w # w)
HasMoved(w, r) == Calling(w, r) /\ (Ready(w.c) => Moved(w, r))

LEMMA CalledEv ==
    ASSUME NEW w, NEW v, EventsOK(w), w.c.handle, EventsOK(v), Len(w.c.kin) \in Nat, Len(v.c.kin) \in Nat,
           Len(v.c.kin) <= Len(w.c.kin), Ready(w.c) => v # w
    PROVE  HasMoved(w, Called(w, v))
<1> DEFINE read == Len(v.c.kin) < Len(w.c.kin) /\ v.c.handle
           m == read /\ ~v.c.close /\ v.c.pend > 0
           a == proxy_cleanup_connection(v)
           b == [v EXCEPT !.c = WebserverSSLPending(@)]
           q == Called(w, v)
<1>1. q = [w |-> IF v.c.close THEN a ELSE IF read THEN b ELSE v, more |-> m]
  BY DEF Called
<1>2. w.p.state # "RELEASED"
  BY DEF EventsOK, Armed, Unhandled
<1>3. EventsOK(a) /\ a.p.state = "RELEASED" /\ a.c.kin = v.c.kin
  BY CleanupEv DEF EventsOK
<1>4. ASSUME v.c.handle PROVE EventsOK(b) /\ b.c.kin = v.c.kin /\ b.c.handle
  <2>1. v.p.state # "IDLE"
    BY <1>4 DEF EventsOK, Armed, Unhandled
  <2> QED
    BY <1>4, <2>1, PendEvents
<1> HIDE DEF a, b, q
<1>5. CASE v.c.close
  <2>1. q.w = a /\ ~q.more
    BY <1>1, <1>5
  <2>2. a # w
    BY <1>2, <1>3
  <2> QED
    BY <1>3, <2>1, <2>2 DEF HasMoved, Calling, Moved, q
<1>6. CASE ~v.c.close /\ read
  <2>1. q.w = b
    BY <1>1, <1>6
  <2> QED
    BY <1>4, <1>6, <2>1 DEF HasMoved, Calling, Moved, q
<1>7. CASE ~v.c.close /\ ~read
  <2>1. q.w = v /\ ~q.more
    BY <1>1, <1>7
  <2> QED
    BY <2>1 DEF HasMoved, Calling, Moved, q
<1> QED
  BY <1>5, <1>6, <1>7

LEMMA CallStepEv ==
    ASSUME NEW w, Len(w.c.kin) \in Nat, NEW r \in Calls(w.x), NEW n \in Nat, NEW outcome,
           HasMoved(w, r) \/ (Calling(w, r) /\ r.w = w /\ r.more)
    PROVE  HasMoved(w, CallStep(r, n, outcome))
<1>1. CASE ~r.more
  BY <1>1 DEF CallStep
<1>2. CASE r.more
  <2> DEFINE u == r.w
             v == reverse_proxy_client_handler(u, n, outcome)
             q == Called(u, v)
  <2>1. BytesOK(u) /\ EventsOK(u) /\ u.c.handle /\ Len(u.c.kin) \in Nat /\ Len(u.c.kin) <= Len(w.c.kin)
    BY <1>2 DEF HasMoved, Calling, Calls
  <2>2. u = w \/ (Ready(w.c) => Len(u.c.kin) < Len(w.c.kin))
    BY <1>2 DEF HasMoved, Moved
  <2>3. CallStep(r, n, outcome) = q
    BY <1>2 DEF CallStep
  <2> HIDE DEF u
  <2>4. EventsOK(v) /\ Len(v.c.kin) \in Nat /\ Len(v.c.kin) <= Len(u.c.kin) /\ (Ready(u.c) => v # u)
    BY <2>1, ClientHandlerEv
  <2> HIDE DEF v
  <2>5. HasMoved(u, q)
    BY <2>1, <2>4, CalledEv
  <2> HIDE DEF q
  <2>6. HasMoved(w, q)
    <3>1. CASE u = w
      BY <2>5, <3>1
    <3>2. CASE Ready(w.c) => Len(u.c.kin) < Len(w.c.kin)
      <4>1. Calling(u, q)
        BY <2>5 DEF HasMoved
      <4>2. /\ Len(q.w.c.kin) \in Nat /\ Len(q.w.c.kin) <= Len(w.c.kin)
            /\ Ready(w.c) => Len(q.w.c.kin) < Len(w.c.kin)
        <5> DEFINE i == Len(q.w.c.kin)
                   j == Len(u.c.kin)
                   k == Len(w.c.kin)
        <5>1. i \in Nat /\ j \in Nat /\ k \in Nat /\ i <= j /\ j <= k /\ (Ready(w.c) => j < k)
          BY <2>1, <3>2, <4>1 DEF Calling
        <5> HIDE DEF i, j, k
        <5>2. i \in Nat /\ i <= k /\ (Ready(w.c) => i < k)
          BY <5>1
        <5> QED
          BY <5>2 DEF i, k
      <4> QED
        BY <4>1, <4>2 DEF HasMoved, Calling, Moved
    <3> QED
      BY <2>2, <3>1, <3>2
  <2> QED
    BY <2>3, <2>6
<1> QED
  BY <1>1, <1>2

LEMMA ExternHandlerEv ==
    ASSUME NEW w, BytesOK(w), EventsOK(w), w.c.handle, NEW n \in Nat, NEW outcome
    PROVE  LET v == run_extern_handler(w, n, outcome)
           IN  EventsOK(v) /\ Len(v.c.kin) \in Nat /\ Len(v.c.kin) <= Len(w.c.kin) /\ (Ready(w.c) => v # w)
<1> DEFINE N == Len(w.c.kin) + 1
           m == TRUE
           a == [w |-> w, more |-> m]
           S == {r \in Calls(w.x) : HasMoved(w, r) \/ (Calling(w, r) /\ r.w = w /\ r.more)}
<1>1. Len(w.c.kin) \in Nat
  BY WorldFields, SockFields DEF BytesOK, Base
<1>2. PICK g : CallRound(w, n, outcome, N, g)
  BY CallRounds
<1>3. N \in Nat \ {0} /\ N - 1 \in 0 .. N /\ N \in 1 .. N /\ 0 \in 0 .. N
  BY <1>1
<1>4. a.w = w /\ a.more /\ g[0] = a
  BY <1>2 DEF CallRound
<1> HIDE DEF a, N
<1>5. Calling(w, a)
  BY <1>1, <1>4 DEF Calling
<1>6. \A r \in S : HasMoved(w, CallStep(r, n, outcome))
  BY <1>1, CallStepEv
<1>7. g[0] \in S
  BY <1>2, <1>3, <1>4, <1>5 DEF CallRound
<1>8. \A i \in 1 .. N : g[i - 1] \in S => g[i] \in S
  <2> SUFFICES ASSUME NEW i \in 1 .. N, g[i - 1] \in S PROVE g[i] \in S
    OBVIOUS
  <2>1. i \in 0 .. N
    OBVIOUS
  <2> HIDE DEF S
  <2>2. HasMoved(w, g[i]) /\ g[i] \in Calls(w.x)
    BY <1>2, <1>6, <2>1 DEF CallRound
  <2> QED
    BY <2>2 DEF S
<1> HIDE DEF S
<1>9. \A i \in 0 .. N : g[i] \in S
  BY <1>3, <1>7, <1>8, StaysIn
<1>10. g[N] = CallStep(g[N - 1], n, outcome) /\ g[N - 1] \in S
  BY <1>2, <1>3, <1>9 DEF CallRound
<1>11. HasMoved(w, g[N])
  BY <1>6, <1>10
<1>12. Ready(w.c) => g[N].w # w
  BY <1>1, <1>11 DEF HasMoved, Calling, Moved
<1> QED
  BY <1>2, <1>11, <1>12 DEF HasMoved, Calling, CallRound

LEMMA CreateEv ==
    ASSUME NEW w, BytesOK(w), EventsOK(w), In(w, "IDLE"), ~w.c.close, NEW n \in Nat
    PROVE  LET v == proxy_create_connection(w, n)
           IN  /\ Running(v) /\ Collecting(v) /\ v.b = w.b
               /\ Len(v.c.kin) \in Nat /\ Len(v.c.kin) <= Len(w.c.kin)
               /\ w.c.kin # <<>> => Len(v.c.kin) < Len(w.c.kin)
<1> DEFINE s == WebserverRecv(w.c, HeaderBuf, n)
           k == Taken(w.c, HeaderBuf)
           T == TRUE
           R == "RECV_REQ_HEADER"
           t == [s EXCEPT !.handle = T]
           r == SubSeq(w.c.kin, 1, k)
           v == [w EXCEPT !.p.state = R, !.p.req = r, !.c = t]
<1>1. proxy_create_connection(w, n) = v
  BY DEF proxy_create_connection
<1>2. Shaped(w) /\ Calm(w) /\ ~w.c.known /\ ~w.c.shut
  BY DEF EventsOK, Armed, In
<1>3. w.c \in Sock /\ SockOK(w.c) /\ Len(w.c.kin) \in Nat
  BY WorldFields, SockFields DEF BytesOK, Base
<1>4. HeaderBuf \in Nat /\ HeaderBuf > 0
  BY Sizes
<1>5. /\ k \in 0 .. Len(w.c.kin) /\ Len(s.kin) = Len(w.c.kin) - k
      /\ DOMAIN s = SNames /\ s.shut = w.c.shut /\ s.close = w.c.close
      /\ w.c.kin # <<>> => k > 0
  BY <1>2, <1>3, <1>4, RecvEv
<1>6. ~s.known
  <2> DEFINE f == w.c.known /\ w.c.pend > 0
             d == SubSeq(w.c.kin, k + 1, Len(w.c.kin))
             e == IF ~w.c.tls THEN 0 ELSE IF k <= w.c.pend THEN w.c.pend - k ELSE Least(n, Len(w.c.kin) - k)
  <2>1. s = [w.c EXCEPT !.kin = d, !.pend = e, !.known = f] /\ ~f
    BY <1>2 DEF WebserverRecv
  <2> HIDE DEF s, f, d, e
  <2>2. s.known = f
    BY <1>2, <2>1 DEF Shaped, SNames
  <2> QED
    BY <2>1, <2>2
<1>7. T
  OBVIOUS
<1> HIDE DEF s, k, T, r
<1>8. DOMAIN t = SNames /\ t.shut = s.shut /\ t.close = s.close /\ t.known = s.known /\ t.handle = T /\ t.kin = s.kin
  BY <1>5 DEF SNames
<1> HIDE DEF t
<1>9. Shaped(v) /\ v.c = t /\ v.b = w.b /\ v.p.state = R
  BY <1>2, <1>8 DEF Shaped, PNames
<1> HIDE DEF v
<1>10. Clear(v) /\ Calm(v) /\ v.c.handle
  BY <1>2, <1>5, <1>6, <1>7, <1>8, <1>9 DEF Clear, Calm
<1>11. Running(v) /\ Collecting(v)
  BY <1>9, <1>10 DEF Running, Collecting
<1>12. /\ Len(v.c.kin) \in Nat /\ Len(v.c.kin) <= Len(w.c.kin)
       /\ w.c.kin # <<>> => Len(v.c.kin) < Len(w.c.kin)
  <2> DEFINE i == Len(v.c.kin)
             j == Len(w.c.kin)
  <2>1. i = j - k /\ k \in 0 .. j /\ j \in Nat /\ (w.c.kin # <<>> => k > 0)
    BY <1>3, <1>5, <1>8, <1>9
  <2> HIDE DEF i, j
  <2>2. i \in Nat /\ i <= j /\ (w.c.kin # <<>> => i < j)
    BY <2>1
  <2> QED
    BY <2>2 DEF i, j
<1> QED
  BY <1>1, <1>9, <1>11, <1>12

LEMMA AwaitEv ==
    ASSUME NEW w, Settled(w)
    PROVE  LET v == AwaitRequest(w) IN EventsOK(v) /\ v.p = w.p /\ v.c.kin = w.c.kin
<1>1. CASE ~Collecting(w)
  <2>1. AwaitRequest(w) = w
    BY <1>1 DEF AwaitRequest, Collecting
  <2> QED
    BY <1>1, <2>1 DEF EventsOK, Settled, ReadsRequest, Collecting
<1>2. CASE Collecting(w)
  <2> DEFINE e == "read"
             v == [w EXCEPT !.c.ev = e]
  <2>1. AwaitRequest(w) = v
    BY <1>2 DEF AwaitRequest, Collecting
  <2>2. Shaped(w)
    BY DEF Settled
  <2> HIDE DEF e
  <2>3. v.p = w.p /\ v.b = w.b /\ v.c = [w.c EXCEPT !.ev = e] /\ Shaped(v)
    BY <2>2 DEF Shaped, SNames
  <2> HIDE DEF v
  <2>4. /\ v.c.ev = e /\ v.c.kin = w.c.kin /\ v.c.shut = w.c.shut /\ v.c.close = w.c.close
        /\ v.c.handle = w.c.handle /\ v.c.known = w.c.known /\ v.c.pend = w.c.pend
    BY <2>2, <2>3 DEF Shaped, SNames
  <2>5. Calm(v) /\ Clear(v)
    BY <2>3, <2>4 DEF Settled, Calm, Clear
  <2>6. Armed(v) /\ ReadsRequest(v)
    BY <1>2, <2>3, <2>4 DEF Settled, Armed, ReadsRequest, Collecting, e
  <2> QED
    BY <2>1, <2>3, <2>4, <2>5, <2>6 DEF EventsOK
<1> QED
  BY <1>1, <1>2

LEMMA AwaitOK ==
    ASSUME NEW w, BytesOK(w)
    PROVE  BytesOK(AwaitRequest(w))
<1> DEFINE f == "read"
           v == [w EXCEPT !.c.ev = f]
<1>1. f \in Events
  BY DEF Events
<1>2. AwaitRequest(w) \in {w, v}
  BY DEF AwaitRequest
<1> HIDE DEF f
<1>3. BytesOK(v)
  BY <1>1, EvOK
<1> HIDE DEF v
<1> QED
  BY <1>2, <1>3

LEMMA CheckEv ==
    ASSUME NEW w, BytesOK(w), EventsOK(w), In(w, "IDLE"), ~w.c.close, NEW n \in Nat, NEW outcome
    PROVE  LET v == checkReverseProxy(w, n, outcome)
           IN  EventsOK(v) /\ (w.c.kin # <<>> => Len(v.c.kin) # Len(w.c.kin))
<1> DEFINE a == proxy_create_connection(w, n)
           b == proxy_process_state(a, outcome)
           c == AwaitRequest(b)
           d == [c EXCEPT !.c = WebserverSSLPending(@)]
           e == run_extern_handler(d, n, outcome)
           z == checkReverseProxy(w, n, outcome)
<1>1. z = d \/ (z = e /\ d.c.handle)
  BY DEF checkReverseProxy, HandlePending
<1>2. /\ Running(a) /\ Collecting(a) /\ a.b = w.b /\ Len(a.c.kin) \in Nat /\ BytesOK(a)
      /\ w.c.kin # <<>> => Len(a.c.kin) < Len(w.c.kin)
  BY CreateEv, CreateOK
<1>3. a.b.ev = "none"
  BY <1>2 DEF EventsOK, Armed, In, Unwatched
<1> HIDE DEF a, z
<1>4. Collected(a, b) /\ BytesOK(b)
  BY <1>2, <1>3, CollectEv, ProcessOK
<1> HIDE DEF b
<1>5. Settled(b) /\ b.p.state # "IDLE" /\ b.c.kin = a.c.kin
  BY <1>4 DEF Collected, Settles, Same, Settled
<1>6. EventsOK(c) /\ c.p = b.p /\ c.c.kin = a.c.kin /\ BytesOK(c)
  BY <1>4, <1>5, AwaitEv, AwaitOK
<1> HIDE DEF c
<1>7. EventsOK(d) /\ d.c.kin = a.c.kin /\ BytesOK(d)
  BY <1>5, <1>6, PendEvents, PendingOK
<1> HIDE DEF d
<1>8. CASE z = d
  BY <1>2, <1>7, <1>8 DEF z
<1>9. CASE z = e /\ d.c.handle
  <2>1. EventsOK(e) /\ Len(e.c.kin) \in Nat /\ Len(e.c.kin) <= Len(d.c.kin)
    BY <1>7, <1>9, ExternHandlerEv
  <2> HIDE DEF e
  <2> DEFINE i == Len(e.c.kin)
             j == Len(a.c.kin)
             k == Len(w.c.kin)
  <2>2. i \in Nat /\ j \in Nat /\ k \in Nat /\ i <= j /\ (w.c.kin # <<>> => j < k)
    <3>1. k \in Nat
      BY WorldFields, SockFields DEF BytesOK, Base
    <3> QED
      BY <1>2, <1>7, <2>1, <3>1
  <2> HIDE DEF i, j, k
  <2>3. w.c.kin # <<>> => i # k
    BY <2>2
  <2> QED
    BY <1>9, <2>1, <2>3 DEF z, i, k
<1> QED
  BY <1>1, <1>8, <1>9

LEMMA DispatchClientEv ==
    ASSUME NEW w, BytesOK(w), EventsOK(w), NEW n \in Nat, NEW outcome
    PROVE  LET v == DispatchClient(w, n, outcome) IN EventsOK(v) /\ (Ready(w.c) => v # w)
<1>1. CASE w.p.state = "RELEASED"
  <2>1. w.c.ev = "none"
    BY <1>1 DEF EventsOK, Armed
  <2>2. ~Ready(w.c)
    BY <2>1 DEF Ready
  <2> QED
    BY <1>1, <2>2 DEF DispatchClient
<1>2. CASE w.p.state # "RELEASED" /\ w.c.handle
  <2>1. DispatchClient(w, n, outcome) = run_extern_handler(w, n, outcome)
    BY <1>2 DEF DispatchClient
  <2> QED
    BY <1>2, <2>1, ExternHandlerEv
<1>3. CASE w.p.state # "RELEASED" /\ ~w.c.handle /\ (w.c.close \/ Disconnected(w.c))
  <2>1. DispatchClient(w, n, outcome) = proxy_cleanup_connection(w)
    BY <1>3 DEF DispatchClient
  <2> QED
    BY <1>3, <2>1, CleanupEv DEF EventsOK
<1>4. CASE w.p.state # "RELEASED" /\ ~w.c.handle /\ ~(w.c.close \/ Disconnected(w.c))
  <2> DEFINE none == "none"
             v == [w EXCEPT !.c.ev = none]
             z == checkReverseProxy(v, n, outcome)
  <2>1. In(w, "IDLE")
    BY <1>4 DEF BytesOK, Held, In
  <2>2. DispatchClient(w, n, outcome) = z
    BY <1>4 DEF DispatchClient
  <2>3. none \in Events
    BY DEF Events
  <2>4. Shaped(w) /\ Calm(w) /\ ~w.c.known /\ ~w.c.shut /\ w.b.ev = "none"
    BY <2>1 DEF EventsOK, Armed, In, Unwatched
  <2> HIDE DEF none
  <2>5. BytesOK(v) /\ v.p = w.p
    BY <2>3, EvOK
  <2>6. v.c = [w.c EXCEPT !.ev = none] /\ v.b = w.b /\ Shaped(v)
    BY <2>4 DEF Shaped, SNames
  <2> HIDE DEF v
  <2>7. v.c.ev = none /\ v.c.handle = w.c.handle /\ v.c.known = w.c.known
      /\ v.c.shut = w.c.shut /\ v.c.close = w.c.close /\ v.c.kin = w.c.kin
    BY <2>4, <2>6 DEF Shaped, SNames
  <2>8. EventsOK(v) /\ In(v, "IDLE") /\ ~v.c.close
    BY <1>4, <2>1, <2>4, <2>5, <2>6, <2>7
       DEF EventsOK, Calm, Clear, Armed, ReadsRequest, In, Unwatched, Unhandled, none
  <2>9. EventsOK(z) /\ (w.c.kin # <<>> => Len(z.c.kin) # Len(w.c.kin))
    BY <2>5, <2>7, <2>8, CheckEv
  <2> HIDE DEF z
  <2>10. Ready(w.c) => w.c.kin # <<>>
    <3>1. w.c \in Sock /\ SockOK(w.c)
      BY WorldFields DEF BytesOK, Base
    <3>2. w.c.ev \notin {"write", "readwrite", "peerclose"}
      BY <1>4, <2>1 DEF EventsOK, Armed, In
    <3>3. Ready(w.c) => Readable(w.c) \/ w.c.gone
      BY <3>2 DEF Ready
    <3> QED
      BY <1>4, <2>4, <3>1, <3>3, ReadyToRead
  <2> QED
    BY <2>2, <2>9, <2>10
<1> QED
  BY <1>1, <1>2, <1>3, <1>4

(* A read from the backend leaves less behind.                             *)
Drained(w, v) == Len(v.b.kin) \in Nat /\ Len(v.b.kin) < Len(w.b.kin)

LEMMA BackendRead ==
    ASSUME NEW w, Running(w), w.b.kin \in Units, NEW k \in 1 .. Len(w.b.kin), NEW v, DOMAIN v = DOMAIN w,
           DOMAIN v.p = DOMAIN w.p, v.c = w.c, v.b = [w.b EXCEPT !.kin = Drop(w.b.kin, k)]
    PROVE  Running(v) /\ v.b.ev = w.b.ev /\ Drained(w, v)
<1> DEFINE d == Drop(w.b.kin, k)
<1>1. Len(d) \in Nat /\ Len(d) < Len(w.b.kin)
  <2> DEFINE s == w.b.kin
  <2>1. s \in Units /\ k \in 0 .. Len(s) /\ k \in 1 .. Len(s) /\ Len(s) \in Nat
    BY SeqBasics
  <2> HIDE DEF s
  <2>2. Len(Drop(s, k)) = Len(s) - k
    BY <2>1, Cutting
  <2>3. Len(Drop(s, k)) \in Nat /\ Len(Drop(s, k)) < Len(s)
    BY <2>1, <2>2
  <2> QED
    BY <2>3 DEF s
<1>2. v.b = [w.b EXCEPT !.kin = d] /\ Shaped(w) /\ Calm(w) /\ Clear(w) /\ w.c.handle
  BY DEF Running
<1> HIDE DEF d
<1>3. /\ DOMAIN v.b = SNames /\ v.b.kin = d /\ v.b.ev = w.b.ev /\ v.b.shut = w.b.shut
      /\ v.b.fin = w.b.fin /\ v.b.gone = w.b.gone
  BY <1>2 DEF Shaped, SNames
<1>4. Shaped(v) /\ Calm(v) /\ Clear(v)
  BY <1>2, <1>3 DEF Shaped, Calm, Clear
<1> QED
  BY <1>1, <1>2, <1>3, <1>4 DEF Running, Drained

LEMMA BackendReadable ==
    ASSUME NEW w, Base(w), Calm(w), Readable(w.b) \/ w.b.gone
    PROVE  Len(w.b.kin) > 0 \/ w.b.gone
  BY DEF Base, Calm, Readable

LEMMA EndedEv ==
    ASSUME NEW w, Shaped(w), Calm(w), w.p.state \notin {"DONE", "ERROR"}
    PROVE  EventsOK(Done(w)) /\ EventsOK(Fail(w)) /\ Done(w) # w /\ Fail(w) # w
           /\ Done(w).p.state = "DONE" /\ Fail(w).p.state = "ERROR"
<1>1. Settles(w, Done(w)) /\ Done(w).p.state = "DONE"
  BY DoneEv
<1>2. Settles(w, Fail(w)) /\ Fail(w).p.state = "ERROR"
  BY FailEv
<1> QED
  BY <1>1, <1>2 DEF Settles, Same, EventsOK, ReadsRequest

LEMMA RoomLeft ==
    ASSUME NEW i \in Nat, NEW j \in Nat, NEW k \in Nat, ~(j >= i)
    PROVE  Least(i - j, k) \in 0 .. k /\ (Least(i - j, k) = 0 => k = 0)
  BY DEF Least

LEMMA RecvHeaderEv ==
    ASSUME NEW w, Base(w), Awaits(w), In(w, "RECV_RES_HEADER"), EventsOK(w), NEW outcome
    PROVE  LET v == RecvHeader(w, outcome) IN EventsOK(v) /\ (Ready(w.b) => v # w)
<1> DEFINE k == Least(w.p.resSize - Len(w.p.res), Len(w.b.kin))
           u == HeaderFilled(w, k)
           v == RecvBackendHeader(u, outcome)
           z == RecvHeader(w, outcome)
<1>1. z = IF Len(w.p.res) >= w.p.resSize THEN Fail(w)
          ELSE IF k = 0 THEN (IF w.b.gone THEN Fail(w) ELSE w)
          ELSE v
  BY DEF RecvHeader, HeaderFilled, Cat, Take, Drop
<1>2. Running(w) /\ w.b.ev = "read"
  BY DEF EventsOK, Armed, Running, In, Unhandled
<1>3. EventsOK(Fail(w)) /\ Fail(w) # w
  BY <1>2, EndedEv DEF Running, In
<1>4. w.b.kin \in Units /\ Len(w.b.kin) \in Nat /\ Len(w.p.res) \in Nat /\ w.p.resSize \in Nat
  BY WorldFields, ProxyFields, SockFields DEF Base
<1> HIDE DEF z
<1>5. CASE Len(w.p.res) >= w.p.resSize
  BY <1>1, <1>3, <1>5 DEF z
<1>6. CASE ~(Len(w.p.res) >= w.p.resSize)
  <2>1. k \in 0 .. Len(w.b.kin) /\ (k = 0 => Len(w.b.kin) = 0)
    BY <1>4, <1>6, RoomLeft
  <2> HIDE DEF k, u
  <2>2. CASE k = 0 /\ w.b.gone
    BY <1>1, <1>3, <1>6, <2>2 DEF z
  <2>3. CASE k = 0 /\ ~w.b.gone
    <3>1. ~Readable(w.b)
      BY <1>2, <2>1, <2>3, BackendReadable DEF Running
    <3>2. ~Ready(w.b)
      BY <1>2, <2>3, <3>1 DEF Ready
    <3> QED
      BY <1>1, <1>6, <2>3, <3>2 DEF z
  <2>4. CASE k # 0
    <3>1. k \in 1 .. Len(w.b.kin)
      BY <1>4, <2>1, <2>4
    <3>2. Base(u) /\ Awaits(u) /\ In(u, "RECV_RES_HEADER")
      BY <1>2, <2>1, HeaderFilledOK DEF u, Held, Running
    <3>3. DOMAIN u = DOMAIN w /\ DOMAIN u.p = DOMAIN w.p /\ u.c = w.c /\ u.b = [w.b EXCEPT !.kin = Drop(w.b.kin, k)]
      BY <1>2 DEF u, HeaderFilled, Running, Shaped
    <3>4. Running(u) /\ u.b.ev = "read" /\ Drained(w, u)
      BY <1>2, <1>4, <3>1, <3>3, BackendRead
    <3>5. Settles(u, v) /\ v.p.state \in {"RECV_RES_HEADER", "STREAMING", "WAIT_WRITE", "TUNNEL", "DONE", "ERROR"}
      BY <3>2, <3>4, RecvBackendHeaderEv
    <3> HIDE DEF v
    <3>6. EventsOK(v)
      BY <3>5 DEF Settles, Same, EventsOK, ReadsRequest
    <3>7. v # w
      BY <1>4, <3>4, <3>5 DEF Settles, Same, Drained
    <3> QED
      BY <1>1, <1>6, <2>4, <3>6, <3>7 DEF z
  <2> QED
    BY <2>2, <2>3, <2>4
<1> QED
  BY <1>5, <1>6

LEMMA RecvStreamEv ==
    ASSUME NEW w, Base(w), Streams(w), Begun(w), In(w, "STREAMING"), EventsOK(w)
    PROVE  LET v == RecvStream(w) IN EventsOK(v) /\ (Ready(w.b) => v # w)
<1> DEFINE k == Least(w.p.resSize, Len(w.b.kin))
           v == [w EXCEPT !.p.res = <<>>, !.p.sendPos = 0]
           c == IF w.p.mode = "chunked" THEN proxy_chunked_scan(v.p.chunk, Take(w.b.kin, k)) ELSE v.p.chunk
           u == [v EXCEPT !.p.res = Take(w.b.kin, k), !.b.kin = Drop(v.b.kin, k), !.p.chunk = c]
           z == RecvStream(w)
<1>1. z = IF Len(w.p.res) > w.p.sendPos THEN Streaming(w)
          ELSE IF w.p.mode = "length" /\ w.p.bodySent >= w.p.resLength THEN Done(w)
          ELSE IF k > 0 THEN Streaming(u)
          ELSE IF ~w.b.gone THEN v
          ELSE IF w.b.fin /\ (w.p.mode \in {"chunked", "close"} \/ w.p.bodySent >= w.p.resLength)
          THEN Done(v) ELSE Fail(v)
  BY DEF RecvStream, Take, Drop
<1>2. Running(w) /\ Held(w) /\ w.b.ev \in {"read", "none"} /\ w.p.res = <<>> /\ w.p.sendPos = 0
  BY DEF EventsOK, Armed, Running, In, Unhandled, Held
<1>3. EventsOK(Done(w)) /\ Done(w) # w
  BY <1>2, EndedEv DEF Running, In
<1>4. w.b.kin \in Units /\ Len(w.b.kin) \in Nat /\ w.p.resSize \in Nat /\ w.p.resSize > 0 /\ w.p.chunk \in Chunk
  BY WorldFields, ProxyFields, SockFields, Sizes DEF Base
<1>5. ~(Len(w.p.res) > w.p.sendPos)
  BY <1>2
<1>6. /\ Base(v) /\ Held(v) /\ Streams(v) /\ Begun(v) /\ In(v, "STREAMING")
      /\ v.p.res = <<>> /\ v.p.sendPos = 0 /\ v.b = w.b /\ v.p.chunk = w.p.chunk
  BY <1>2, <1>5, Emptied
<1>7. DOMAIN v = DOMAIN w /\ DOMAIN v.p = DOMAIN w.p /\ v.c = w.c /\ v.b = w.b
  BY <1>2 DEF Running, Shaped
<1> HIDE DEF v, z
<1>8. Running(v)
  BY <1>2, <1>7, ProxyOnly
<1>9. EventsOK(v)
  <2>1. v.c.handle /\ v.p.state = "STREAMING" /\ v.b.ev \in {"read", "none"}
    BY <1>2, <1>6, <1>8 DEF Running, In
  <2> QED
    BY <1>6, <1>8, <2>1 DEF Running, EventsOK, Armed, ReadsRequest, Unwatched, Unhandled
<1>10. /\ EventsOK(Done(v)) /\ EventsOK(Fail(v)) /\ Done(v).p.state = "DONE" /\ Fail(v).p.state = "ERROR"
  BY <1>6, <1>8, EndedEv DEF Running, In
<1>11. k \in 0 .. Len(w.b.kin) /\ (~(k > 0) => Len(w.b.kin) = 0)
  BY <1>4 DEF Least
<1> HIDE DEF k
<1>12. CASE w.p.mode = "length" /\ w.p.bodySent >= w.p.resLength
  BY <1>1, <1>3, <1>5, <1>12 DEF z
<1>13. CASE ~(w.p.mode = "length" /\ w.p.bodySent >= w.p.resLength) /\ k > 0
  <2>1. k \in 1 .. Len(w.b.kin)
    BY <1>4, <1>11, <1>13
  <2>2. c \in Chunk
    <3>1. Take(w.b.kin, k) \in Units /\ v.p.chunk \in Chunk
      BY <1>4, <1>6, <1>11, Cutting
    <3> QED
      BY <3>1, ScanChunk
  <2> HIDE DEF c
  <2>3. u = Filled(v, k, c)
    BY <1>6 DEF Filled
  <2>4. DOMAIN u = DOMAIN v /\ DOMAIN u.p = DOMAIN v.p /\ u.c = v.c /\ u.b = [v.b EXCEPT !.kin = Drop(v.b.kin, k)]
    BY <1>8 DEF Running, Shaped
  <2> HIDE DEF u
  <2>5. Base(u) /\ Streams(u)
    BY <1>6, <1>11, <2>2, <2>3, FilledOK
  <2>6. Running(u) /\ u.b.ev = w.b.ev /\ Drained(w, u)
    <3>1. v.b.kin \in Units /\ k \in 1 .. Len(v.b.kin)
      BY <1>4, <1>6, <2>1
    <3>2. Running(u) /\ u.b.ev = v.b.ev /\ Drained(v, u)
      BY <1>8, <2>4, <3>1, BackendRead
    <3> QED
      BY <1>6, <3>2 DEF Drained
  <2>7. Fits(u) /\ Pulls(u)
    BY <1>2, <2>5, <2>6, StreamsFit DEF Pulls
  <2> DEFINE r == Streaming(u)
  <2>8. Settles(u, r) /\ r.p.state \in {"STREAMING", "WAIT_WRITE", "TUNNEL", "DONE", "ERROR"}
    BY <2>6, <2>7, StreamingEv
  <2>9. z = r
    BY <1>1, <1>5, <1>13
  <2> HIDE DEF r
  <2>10. EventsOK(r)
    BY <2>8 DEF Settles, Same, EventsOK, ReadsRequest
  <2>11. r # w
    BY <1>4, <2>6, <2>8 DEF Settles, Same, Drained
  <2> QED
    BY <2>9, <2>10, <2>11 DEF z
<1>14. CASE ~(w.p.mode = "length" /\ w.p.bodySent >= w.p.resLength) /\ ~(k > 0) /\ ~w.b.gone
  <2>1. ~Readable(w.b)
    BY <1>2, <1>11, <1>14, BackendReadable DEF Running
  <2>2. ~Ready(w.b)
    BY <1>2, <1>14, <2>1 DEF Ready
  <2> QED
    BY <1>1, <1>5, <1>9, <1>14, <2>2 DEF z
<1>15. CASE ~(w.p.mode = "length" /\ w.p.bodySent >= w.p.resLength) /\ ~(k > 0) /\ w.b.gone
  <2>1. z \in {Done(v), Fail(v)}
    BY <1>1, <1>5, <1>15
  <2>2. EventsOK(z) /\ z.p.state # w.p.state
    BY <1>10, <2>1 DEF In
  <2> QED
    BY <2>2 DEF z
<1> QED
  BY <1>12, <1>13, <1>14, <1>15

LEMMA SendEv ==
    ASSUME NEW w, Base(w), Sends(w), In(w, "SEND"), EventsOK(w), NEW outcome
    PROVE  LET v == SendToBackend(w, outcome) IN EventsOK(v) /\ (Ready(w.b) => v # w)
<1> DEFINE v == SendToBackend(w, outcome)
           rest == Drop(w.p.req, w.p.sendPos)
           n == BytesSent(w.b, rest)
<1>1. Running(w) /\ w.b.ev = "write" /\ w.p.sendPos < Len(w.p.req)
  BY DEF EventsOK, Armed, Running, In, Unhandled
<1>2. /\ w.b \in Sock /\ SockOK(w.b) /\ w.p.req \in Units /\ w.p.sendPos \in Nat /\ Len(w.p.req) \in Nat
      /\ w.p.sendPos <= Len(w.p.req)
  BY WorldFields, ProxyFields, SeqBasics DEF Base, Sends
<1>3. /\ Settles(w, v) /\ v.p.state \in {"SEND", "RECV_RES_HEADER", "ERROR"}
      /\ In(v, "SEND") => ~w.b.gone /\ v.p.sendPos = w.p.sendPos + n
  BY <1>1, <1>2, SendToBackendEv DEF Forwards
<1> HIDE DEF v
<1>4. EventsOK(v)
  BY <1>3 DEF Settles, Same, EventsOK, ReadsRequest
<1>5. ASSUME Ready(w.b), v = w PROVE FALSE
  <2>1. ~w.b.gone /\ w.p.sendPos = w.p.sendPos + n
    BY <1>3, <1>5
  <2>2. Room(w.b) > 0
    BY <1>1, <1>5, <2>1 DEF Ready, Writable, Running, Calm
  <2>3. Room(w.b) \in Int
    BY <1>2, SockFields, WindowAssumption DEF Room
  <2>4. Len(rest) \in Nat /\ Len(rest) > 0
    <3> DEFINE i == w.p.sendPos
               s == w.p.req
    <3>1. s \in Units /\ i \in 0 .. Len(s) /\ i < Len(s) /\ Len(s) \in Nat
      BY <1>1, <1>2
    <3> HIDE DEF i, s
    <3>2. Len(Drop(s, i)) = Len(s) - i
      BY <3>1, Cutting
    <3>3. Len(Drop(s, i)) \in Nat /\ Len(Drop(s, i)) > 0
      BY <3>1, <3>2
    <3> QED
      BY <3>3 DEF i, s
  <2> HIDE DEF rest
  <2>5. n \in Nat /\ n > 0
    BY <2>2, <2>3, <2>4 DEF BytesSent, Least
  <2> QED
    BY <1>2, <2>1, <2>5
<1> QED
  BY <1>4, <1>5 DEF v

(* A backlog that the backend takes something of becomes shorter.          *)
LEMMA FlushesC2B ==
    ASSUME NEW w, Base(w), Running(w), w.p.c2b # <<>>, Room(w.b) > 0
    PROVE  proxy_tunnel_flush_c2b(w).p.c2b # w.p.c2b
<1> DEFINE j == BytesSent(w.b, w.p.c2b)
           f == proxy_tunnel_flush_c2b(w)
<1>1. w.b \in Sock /\ SockOK(w.b) /\ w.p.c2b \in Units /\ Len(w.p.c2b) \in Nat
  BY WorldFields, ProxyFields, SeqBasics DEF Base
<1>2. f.p.c2b = Drop(w.p.c2b, j)
  <2> DEFINE h == w.b.got \o SubSeq(w.p.c2b, 1, j)
             q == SubSeq(w.p.c2b, j + 1, Len(w.p.c2b))
  <2>1. f = [w EXCEPT !.b = [w.b EXCEPT !.got = h], !.p.c2b = q]
    BY DEF proxy_tunnel_flush_c2b, Send, Shaped, PNames, Running
  <2> HIDE DEF f, h, q
  <2>2. f.p.c2b = q
    BY <2>1 DEF Shaped, PNames, Running
  <2> QED
    BY <2>2 DEF q, Drop
<1>3. j \in 0 .. Len(w.p.c2b)
  BY <1>1, Sending
<1>4. Room(w.b) \in Int
  BY <1>1, SockFields, WindowAssumption DEF Room
<1>5. j > 0
  BY <1>1, <1>4 DEF BytesSent, Least
<1> HIDE DEF j
<1>6. Len(f.p.c2b) = Len(w.p.c2b) - j
  BY <1>1, <1>2, <1>3, Cutting
<1> QED
  BY <1>1, <1>3, <1>5, <1>6

(* What the tunnel's backend side is called for.                           *)
LEMMA BackendReady ==
    ASSUME NEW w, Base(w), Calm(w), Both(w), Ready(w.b)
    PROVE  \/ w.p.b2c = <<>> /\ (Len(w.b.kin) > 0 \/ w.b.gone)
           \/ w.p.c2b # <<>> /\ (Room(w.b) > 0 \/ w.b.gone)
<1>1. w.b.ev = TunnelEvent(w.p.b2c = <<>>, w.p.c2b # <<>>)
  BY DEF Both
<1>2. Readable(w.b) \/ w.b.gone => Len(w.b.kin) > 0 \/ w.b.gone
  BY BackendReadable
<1>3. Writable(w.b) => Room(w.b) > 0 \/ w.b.gone
  BY DEF Writable, Calm
<1>4. CASE w.p.b2c = <<>> /\ (Readable(w.b) \/ w.b.gone)
  BY <1>2, <1>4
<1>5. CASE w.p.c2b # <<>> /\ (Writable(w.b) \/ w.b.gone)
  BY <1>3, <1>5
<1> QED
  BY <1>1, <1>4, <1>5 DEF Ready, TunnelEvent

LEMMA RearmedEv ==
    ASSUME NEW w, Running(w), In(w, "TUNNEL")
    PROVE  LET v == proxy_tunnel_update_events(w) IN EventsOK(v) /\ v.p = w.p /\ v.b.kin = w.b.kin
<1>1. LET v == proxy_tunnel_update_events(w) IN Settles(w, v) /\ v.p = w.p
  BY TunnelEv
<1> QED
  BY <1>1 DEF Settles, Same, EventsOK, ReadsRequest, In

LEMMA TunnelFlushedEv ==
    ASSUME NEW w, BytesOK(w), EventsOK(w), In(w, "TUNNEL"), NEW v, v = proxy_tunnel_flush_c2b(w),
           ~(w.p.c2b # <<>> /\ w.b.gone), NEW n \in Nat
    PROVE  LET z == TunnelFlushed(w, v, n) IN EventsOK(z) /\ (Ready(w.b) => z # w)
<1> DEFINE k == Least(w.p.resSize, Len(v.b.kin))
           u == TunnelFilled(v, k)
           f == proxy_tunnel_flush_b2c(u)
           e == proxy_tunnel_update_events(v)
           z == TunnelFlushed(w, v, n)
<1>1. z = IF w.p.c2b # <<>> /\ v.p.c2b = <<>> /\ v.c.pend > 0 THEN TunnelClient(v, n)
          ELSE IF v.p.b2c # <<>> THEN e
          ELSE IF k = 0 THEN (IF w.b.gone THEN Done(v) ELSE e)
          ELSE IF w.c.gone THEN Fail(u)
          ELSE proxy_tunnel_update_events(f)
  BY DEF TunnelFlushed, TunnelFilled, Take, Drop
<1>2. Running(w) /\ Both(w) /\ Held(w)
  BY DEF EventsOK, Armed, Running, In, Unhandled, Held
<1>3. Base(w) /\ Tunnels(w)
  BY ByState DEF In
<1>4. Base(v) /\ Tunnels(v) /\ Held(v) /\ In(v, "TUNNEL")
  BY <1>2, <1>3, FlushC2B DEF In
<1>5. Live(w, v) /\ v.p.b2c = w.p.b2c /\ v.c = w.c
  BY <1>2, FlushEv
<1>6. Running(v) /\ v.b.kin = w.b.kin /\ v.c.kin = w.c.kin
  BY <1>2, <1>5, LiveRuns DEF Live, Same
<1>7. /\ w.c \in Sock /\ SockOK(w.c) /\ w.c.pend \in Nat /\ Len(w.c.kin) \in Nat
      /\ w.b.kin \in Units /\ Len(w.b.kin) \in Nat /\ w.p.resSize \in Nat /\ w.p.resSize > 0
  BY <1>3, WorldFields, ProxyFields, SockFields, Sizes DEF Base
<1>8. EventsOK(e) /\ e.p = v.p
  BY <1>4, <1>6, RearmedEv
<1>9. k \in 0 .. Len(w.b.kin) /\ (k = 0 => Len(w.b.kin) = 0)
  BY <1>6, <1>7 DEF Least
<1>10. w.p.c2b # <<>> /\ Room(w.b) > 0 => v.p.c2b # w.p.c2b
  BY <1>2, <1>3, FlushesC2B
<1>11. Ready(w.b) => \/ w.p.b2c = <<>> /\ (Len(w.b.kin) > 0 \/ w.b.gone)
                     \/ w.p.c2b # <<>> /\ Room(w.b) > 0
  BY <1>2, <1>3, BackendReady DEF Running
<1> HIDE DEF z, k, e, u
<1>12. CASE w.p.c2b # <<>> /\ v.p.c2b = <<>> /\ v.c.pend > 0
  <2> DEFINE r == TunnelClient(v, n)
  <2>1. EventsOK(r) /\ Len(r.c.kin) \in Nat /\ (Open(v) /\ Finds(v.c) => Took(v, r))
    BY <1>4, <1>6, TunnelClientEv
  <2>2. z = r
    BY <1>1, <1>12
  <2> HIDE DEF r
  <2>3. Open(v) /\ v.c.kin # <<>>
    <3>1. Len(v.c.kin) > 0
      BY <1>5, <1>7, <1>12 DEF SockOK
    <3> QED
      BY <1>4, <1>12, <3>1 DEF Open, In
  <2>4. Took(v, r)
    BY <2>1, <2>3 DEF Finds
  <2>5. r # w
    BY <1>6, <1>7, <2>1, <2>4 DEF Took, In
  <2> QED
    BY <2>1, <2>2, <2>5 DEF z
<1>13. CASE ~(w.p.c2b # <<>> /\ v.p.c2b = <<>> /\ v.c.pend > 0) /\ (v.p.b2c # <<>> \/ (k = 0 /\ ~w.b.gone))
  <2>1. z = e
    BY <1>1, <1>13
  <2>2. Ready(w.b) => v.p.c2b # w.p.c2b
    BY <1>5, <1>9, <1>10, <1>11, <1>13
  <2>3. Ready(w.b) => e # w
    BY <1>8, <2>2
  <2> QED
    BY <1>8, <2>1, <2>3 DEF z
<1>14. CASE ~(w.p.c2b # <<>> /\ v.p.c2b = <<>> /\ v.c.pend > 0) /\ v.p.b2c = <<>> /\ k = 0 /\ w.b.gone
  <2>1. z = Done(v)
    BY <1>1, <1>14
  <2>2. EventsOK(Done(v)) /\ Done(v).p.state = "DONE"
    BY <1>4, <1>6, EndedEv DEF Running, In
  <2> QED
    BY <2>1, <2>2 DEF z, In
<1>15. CASE ~(w.p.c2b # <<>> /\ v.p.c2b = <<>> /\ v.c.pend > 0) /\ v.p.b2c = <<>> /\ k # 0
  <2>1. k \in 1 .. Len(v.b.kin) /\ v.b.kin \in Units
    BY <1>6, <1>7, <1>9, <1>15
  <2>2. DOMAIN u = DOMAIN v /\ DOMAIN u.p = DOMAIN v.p /\ u.c = v.c /\ u.b = [v.b EXCEPT !.kin = Drop(v.b.kin, k)]
        /\ u.p.state = v.p.state
    BY <1>6 DEF u, TunnelFilled, Running, Shaped, PNames
  <2>3. Running(u) /\ Drained(w, u) /\ In(u, "TUNNEL")
    <3>1. Running(u) /\ Drained(v, u)
      BY <1>6, <2>1, <2>2, BackendRead
    <3> QED
      BY <1>4, <1>6, <2>2, <3>1 DEF Drained, In
  <2>4. CASE w.c.gone
    <3>1. z = Fail(u)
      BY <1>1, <1>15, <2>4
    <3>2. EventsOK(Fail(u)) /\ Fail(u).p.state = "ERROR"
      BY <2>3, EndedEv DEF Running, In
    <3> QED
      BY <3>1, <3>2 DEF z, In
  <2>5. CASE ~w.c.gone
    <3> DEFINE r == proxy_tunnel_update_events(f)
    <3>1. z = r
      BY <1>1, <1>15, <2>5
    <3>2. Live(u, f) /\ In(f, "TUNNEL")
      BY <2>3, FlushEv DEF In
    <3> HIDE DEF f
    <3>3. Running(f) /\ f.b.kin = u.b.kin
      BY <2>3, <3>2, LiveRuns DEF Live, Same
    <3>4. EventsOK(r) /\ r.b.kin = u.b.kin
      BY <3>2, <3>3, RearmedEv
    <3> HIDE DEF r
    <3>5. r # w
      BY <1>7, <2>3, <3>4 DEF Drained
    <3> QED
      BY <3>1, <3>4, <3>5 DEF z
  <2> QED
    BY <2>4, <2>5
<1> QED
  BY <1>12, <1>13, <1>14, <1>15

LEMMA DispatchBackendEv ==
    ASSUME NEW w, BytesOK(w), EventsOK(w), NEW n \in Nat, NEW outcome
    PROVE  LET v == DispatchBackend(w, n, outcome) IN EventsOK(v) /\ (Ready(w.b) => v # w)
<1> DEFINE v == DispatchBackend(w, n, outcome)
<1>1. CASE w.p.state = "SEND"
  <2>1. v = SendToBackend(w, outcome)
    BY <1>1 DEF DispatchBackend, reverse_proxy_backend_handler
  <2>2. Base(w) /\ Sends(w) /\ In(w, "SEND")
    BY <1>1, ByState DEF In
  <2> QED
    BY <2>1, <2>2, SendEv
<1>2. CASE w.p.state = "RECV_RES_HEADER"
  <2>1. v = RecvHeader(w, outcome)
    BY <1>2 DEF DispatchBackend, reverse_proxy_backend_handler
  <2>2. Base(w) /\ Awaits(w) /\ In(w, "RECV_RES_HEADER")
    BY <1>2, ByState
  <2> QED
    BY <2>1, <2>2, RecvHeaderEv
<1>3. CASE w.p.state = "STREAMING"
  <2>1. v = RecvStream(w)
    BY <1>3 DEF DispatchBackend, reverse_proxy_backend_handler
  <2>2. Base(w) /\ Streams(w) /\ Begun(w) /\ In(w, "STREAMING")
    BY <1>3, ByState DEF In
  <2> QED
    BY <2>1, <2>2, RecvStreamEv
<1>4. CASE w.p.state = "TUNNEL"
  <2>1. v = TunnelBackend(w, n)
    BY <1>4 DEF DispatchBackend, reverse_proxy_backend_handler
  <2>2. In(w, "TUNNEL") /\ Running(w)
    BY <1>4 DEF EventsOK, Armed, Running, In, Unhandled
  <2>3. CASE w.p.c2b # <<>> /\ w.b.gone
    <3>1. v = Fail(w)
      BY <2>1, <2>3 DEF TunnelBackend
    <3>2. EventsOK(Fail(w)) /\ Fail(w) # w
      BY <2>2, EndedEv DEF Running, In
    <3> QED
      BY <3>1, <3>2
  <2>4. CASE ~(w.p.c2b # <<>> /\ w.b.gone)
    <3>1. v = TunnelFlushed(w, proxy_tunnel_flush_c2b(w), n)
      BY <2>1, <2>4 DEF TunnelBackend
    <3> QED
      BY <2>2, <2>4, <3>1, TunnelFlushedEv
  <2> QED
    BY <2>3, <2>4
<1>5. CASE w.p.state \notin {"SEND", "RECV_RES_HEADER", "STREAMING", "TUNNEL"}
  <2>1. v = w
    BY <1>5 DEF DispatchBackend, reverse_proxy_backend_handler
  <2>2. w.p.state \in States
    BY WorldFields, ProxyFields DEF BytesOK, Base
  <2>3. w.b.ev = "none"
    BY <1>5, <2>2 DEF EventsOK, Armed, States, Unwatched
  <2>4. ~Ready(w.b)
    BY <2>3 DEF Ready
  <2> QED
    BY <2>1, <2>4
<1> QED
  BY <1>1, <1>2, <1>3, <1>4, <1>5

(* What NoSpin needs beside where the bytes are (BytesInv): in each state   *)
(* of the proxy, which events its two descriptors are registered for.       *)
EventsInv == EventsOK(W)

(* What a peer leaves alone of its socket.                                 *)
Watched(s, t) ==
  /\ DOMAIN t = SNames /\ t.shut = s.shut /\ t.ev = s.ev /\ t.close = s.close /\ t.handle = s.handle
  /\ t.known = s.known /\ t.pend = s.pend

LEMMA PeersWatched ==
    ASSUME NEW s, DOMAIN s = SNames, NEW a, NEW b, NEW t,
           \/ t = s \/ t = [s EXCEPT !.kin = a, !.todo = b] \/ t = [s EXCEPT !.read = a]
           \/ t = [s EXCEPT !.fin = a] \/ t = [s EXCEPT !.gone = a] \/ t = [s EXCEPT !.gone = a, !.fin = b]
    PROVE  Watched(s, t)
<1>1. CASE t = s
  BY <1>1 DEF Watched
<1>2. CASE t = [s EXCEPT !.kin = a, !.todo = b]
  BY <1>2 DEF Watched, SNames
<1>3. CASE t = [s EXCEPT !.read = a]
  BY <1>3 DEF Watched, SNames
<1>4. CASE t = [s EXCEPT !.fin = a]
  BY <1>4 DEF Watched, SNames
<1>5. CASE t = [s EXCEPT !.gone = a]
  BY <1>5 DEF Watched, SNames
<1>6. CASE t = [s EXCEPT !.gone = a, !.fin = b]
  BY <1>6 DEF Watched, SNames
<1> QED
  BY <1>1, <1>2, <1>3, <1>4, <1>5, <1>6

LEMMA WatchedStep ==
    ASSUME EventsInv, proxy' = proxy, exchange' = exchange, Watched(client, client'), Watched(backend, backend'),
           backend'.fin => backend'.gone
    PROVE  EventsInv'
<1> DEFINE w == W
           v == [p |-> proxy, c |-> client', b |-> backend', x |-> exchange]
<1>1. W' = v /\ v.p = proxy /\ v.c = client' /\ v.b = backend' /\ DOMAIN v = {"p", "c", "b", "x"}
  BY DEF W
<1>2. w.p = proxy /\ w.c = client /\ w.b = backend
  BY DEF W
<1>3. EventsOK(w)
  BY DEF EventsInv
<1> HIDE DEF v, w
<1>4. v.p = w.p /\ Watched(w.c, v.c) /\ Watched(w.b, v.b) /\ (v.b.fin => v.b.gone)
  BY <1>1, <1>2
<1>5. Shaped(v) /\ Calm(v) /\ Clear(v)
  BY <1>1, <1>3, <1>4 DEF EventsOK, Shaped, Calm, Clear, Watched
<1>6. Armed(v) /\ ReadsRequest(v)
  BY <1>3, <1>4 DEF EventsOK, Armed, ReadsRequest, Both, Watched
<1> QED
  BY <1>1, <1>5, <1>6 DEF EventsInv, EventsOK

LEMMA InitEvents ==
    ASSUME Init
    PROVE  EventsInv
<1> DEFINE F == FALSE
           T == TRUE
           once == "readonce"
           none == "none"
           st == "IDLE"
<1>1. W \in Worlds(W.x) /\ W.p = proxy /\ W.c = client /\ W.b = backend
  BY InitBytes DEF BytesInv, BytesOK, Base, W
<1>2. Shaped(W)
  BY <1>1, ShapedWorld
<1>3. client = [todo |-> exchange.req.units, kin |-> <<>>, pend |-> 0, known |-> F, got |-> <<>>, read |-> 0, fin |-> F,
                gone |-> F, shut |-> F, ev |-> once, close |-> F, handle |-> F, open |-> T, tls |-> exchange.tls]
  BY DEF Init, Socket
<1>4. backend = [todo |-> exchange.res.units, kin |-> <<>>, pend |-> 0, known |-> F, got |-> <<>>, read |-> 0, fin |-> F,
                 gone |-> F, shut |-> F, ev |-> none, close |-> F, handle |-> F, open |-> F, tls |-> F]
  BY DEF Init, Socket
<1>5. proxy.state = st
  BY DEF Init
<1>6. ~F
  OBVIOUS
<1> HIDE DEF F, T, once, none, st
<1>7. client.known = F /\ client.shut = F /\ client.ev = once /\ client.handle = F
  BY <1>3
<1>8. backend.shut = F /\ backend.fin = F /\ backend.ev = none
  BY <1>4
<1>9. Calm(W) /\ Clear(W)
  BY <1>1, <1>6, <1>7, <1>8 DEF Calm, Clear
<1>10. Armed(W) /\ ReadsRequest(W)
  BY <1>1, <1>5, <1>6, <1>7, <1>8 DEF Armed, ReadsRequest, Unwatched, Unhandled, once, none, st
<1> QED
  BY <1>2, <1>9, <1>10 DEF EventsInv, EventsOK

LEMMA DispatchedStep ==
    ASSUME NEW w, EventsOK(w), BytesOK(w), Of(w, exchange), Become(w)
    PROVE  EventsInv'
<1>1. w \in Worlds(w.x) /\ w.x = exchange
  BY DEF BytesOK, Base, Of
<1>2. w = [p |-> w.p, c |-> w.c, b |-> w.b, x |-> w.x]
  BY <1>1, WorldRecord
<1>3. W' = [p |-> w.p, c |-> w.c, b |-> w.b, x |-> w.x]
  BY <1>1 DEF W, Become
<1>4. W' = w
  BY <1>2, <1>3
<1> QED
  BY <1>4 DEF EventsInv

LEMMA NextEvents ==
    ASSUME BytesInv, EventsInv, [Next]_vars
    PROVE  EventsInv'
<1>1. /\ BytesOK(W) /\ EventsOK(W) /\ Of(W, exchange) /\ Shaped(W) /\ Calm(W)
      /\ DOMAIN client = SNames /\ DOMAIN backend = SNames /\ (backend.fin => backend.gone)
  <2>1. W.c = client /\ W.b = backend /\ Of(W, exchange)
    BY DEF W, Of
  <2> QED
    BY <2>1 DEF BytesInv, EventsInv, EventsOK, Shaped, Calm
<1>2. Watched(client, client) /\ Watched(backend, backend)
  BY <1>1 DEF Watched
<1>3. CASE ClientSends \/ ClientReads \/ ClientLeaves
  <2>1. proxy' = proxy /\ exchange' = exchange /\ backend' = backend
    BY <1>3 DEF ClientSends, ClientReads, ClientLeaves
  <2>2. Watched(client, client')
    <3>1. CASE ClientSends
      <4>1. PICK n \in Some(Len(client.todo)) :
               client' = [client EXCEPT !.kin = @ \o SubSeq(client.todo, 1, n), !.todo = SubSeq(@, n + 1, Len(@))]
        BY <3>1 DEF ClientSends
      <4> DEFINE a == client.kin \o SubSeq(client.todo, 1, n)
                 b == SubSeq(client.todo, n + 1, Len(client.todo))
      <4>2. client' = [client EXCEPT !.kin = a, !.todo = b]
        BY <4>1
      <4> HIDE DEF a, b
      <4> QED
        BY <1>1, <4>2, PeersWatched
    <3>2. CASE ClientReads
      <4> DEFINE a == Len(client.got)
      <4>1. client' = [client EXCEPT !.read = a]
        BY <3>2 DEF ClientReads
      <4> HIDE DEF a
      <4> QED
        BY <1>1, <4>1, PeersWatched
    <3>3. CASE ClientLeaves
      <4> DEFINE a == TRUE
      <4>1. client' = [client EXCEPT !.fin = a] \/ client' = [client EXCEPT !.gone = a]
        BY <3>3 DEF ClientLeaves
      <4> HIDE DEF a
      <4> QED
        BY <1>1, <4>1, PeersWatched
    <3> QED
      BY <1>3, <3>1, <3>2, <3>3
  <2> QED
    BY <1>1, <1>2, <2>1, <2>2, WatchedStep
<1>4. CASE BackendReads \/ BackendAnswers \/ BackendCloses
  <2>1. proxy' = proxy /\ exchange' = exchange /\ client' = client
    BY <1>4 DEF BackendReads, BackendAnswers, BackendCloses
  <2>2. Watched(backend, backend') /\ (backend'.fin => backend'.gone)
    <3>1. CASE BackendAnswers
      <4>1. PICK n \in Some(Len(backend.todo)) :
               backend' = [backend EXCEPT !.kin = @ \o SubSeq(backend.todo, 1, n), !.todo = SubSeq(@, n + 1, Len(@))]
        BY <3>1 DEF BackendAnswers
      <4> DEFINE a == backend.kin \o SubSeq(backend.todo, 1, n)
                 b == SubSeq(backend.todo, n + 1, Len(backend.todo))
      <4>2. backend' = [backend EXCEPT !.kin = a, !.todo = b]
        BY <4>1
      <4> HIDE DEF a, b
      <4>3. backend'.fin = backend.fin /\ backend'.gone = backend.gone
        BY <1>1, <4>2 DEF SNames
      <4> QED
        BY <1>1, <4>2, <4>3, PeersWatched
    <3>2. CASE BackendReads
      <4> DEFINE a == Len(backend.got)
      <4>1. backend' = [backend EXCEPT !.read = a]
        BY <3>2 DEF BackendReads
      <4> HIDE DEF a
      <4>2. backend'.fin = backend.fin /\ backend'.gone = backend.gone
        BY <1>1, <4>1 DEF SNames
      <4> QED
        BY <1>1, <4>1, <4>2, PeersWatched
    <3>3. CASE BackendCloses
      <4> DEFINE a == TRUE
                 b == (backend.read = Len(backend.got))
      <4>1. backend' = [backend EXCEPT !.gone = a, !.fin = b] /\ a
        BY <3>3 DEF BackendCloses
      <4> HIDE DEF a, b
      <4>2. backend'.gone = a
        BY <1>1, <4>1 DEF SNames
      <4> QED
        BY <1>1, <4>1, <4>2, PeersWatched
    <3> QED
      BY <1>4, <3>1, <3>2, <3>3
  <2> QED
    BY <1>1, <1>2, <2>1, <2>2, WatchedStep
<1>5. CASE EpollWait \/ UNCHANGED vars
  <2>1. proxy' = proxy /\ exchange' = exchange /\ client' = client /\ backend' = backend
    BY <1>5 DEF EpollWait, vars
  <2> QED
    BY <1>1, <1>2, <2>1, WatchedStep
<1>6. CASE HandleClient
  <2>1. PICK n \in Records, o \in Outcomes : \E w \in {DispatchClient(W, n, o)} : Become(w)
    BY <1>6 DEF HandleClient
  <2> DEFINE w == DispatchClient(W, n, o)
  <2>2. Become(w) /\ n \in Nat
    BY <2>1, RecordsNat
  <2>3. BytesOK(w) /\ Of(w, exchange) /\ EventsOK(w)
    BY <1>1, <2>2, DispatchClientOK, DispatchClientEv
  <2> HIDE DEF w
  <2> QED
    BY <2>2, <2>3, DispatchedStep
<1>7. CASE HandleBackend
  <2>1. PICK n \in Records, o \in Outcomes : \E w \in {DispatchBackend(W, n, o)} : Become(w)
    BY <1>7 DEF HandleBackend
  <2> DEFINE w == DispatchBackend(W, n, o)
  <2>2. Become(w) /\ n \in Nat
    BY <2>1, RecordsNat
  <2>3. BytesOK(w) /\ Of(w, exchange) /\ EventsOK(w)
    BY <1>1, <2>2, DispatchBackendOK, DispatchBackendEv
  <2> HIDE DEF w
  <2> QED
    BY <2>2, <2>3, DispatchedStep
<1>8. CASE Expire
  <2> DEFINE w == proxy_cleanup_connection(W)
  <2>1. Become(w)
    BY <1>8 DEF Expire
  <2>2. BytesOK(w) /\ Of(w, exchange) /\ EventsOK(w)
    BY <1>1, CleanupOK, CleanupOf, CleanupEv
  <2> HIDE DEF w
  <2> QED
    BY <2>1, <2>2, DispatchedStep
<1> QED
  BY <1>3, <1>4, <1>5, <1>6, <1>7, <1>8 DEF Next

(* In every reachable state the descriptors of a proxied connection are     *)
(* registered for what the state of the proxy waits for: the client for     *)
(* reading while the request is collected, the backend for writing while    *)
(* part of the request is left and for reading while the response is        *)
(* awaited, the client for writing only while part of the response is left, *)
(* and both sides of a tunnel by what their backlogs hold. The backend has  *)
(* no event where nothing is expected of it, and the client keeps the       *)
(* proxy's handler exactly as long as the proxy is at work. Every path      *)
(* through proxy_process_state(), the error paths included, restores this.  *)
THEOREM EventsRegistered == Spec => []EventsInv
<1>1. Init => EventsInv
  BY InitEvents
<1>2. BytesInv /\ EventsInv /\ [Next]_vars => EventsInv'
  BY NextEvents
<1> QED
  BY <1>1, <1>2, BytesAccounted, PTL DEF Spec

(* A level triggered loop reports a ready descriptor again and again. For   *)
(* every exchange, buffer size and window, whatever the handler of a        *)
(* registered and ready descriptor reads or fails to, it changes something: *)
(* it moves bytes, changes the state or the events, or releases the proxied *)
(* connection, so that the event loop of reverse_proxy.c never spins.       *)
THEOREM NoSpinHolds == Spec => []NoSpin
<1>1. BytesInv /\ EventsInv => NoSpin
  <2> SUFFICES ASSUME BytesInv, EventsInv, NEW n \in Records, NEW o \in Outcomes
               PROVE  /\ Ready(client) => DispatchClient(W, n, o) # W
                      /\ Ready(backend) => DispatchBackend(W, n, o) # W
    BY DEF NoSpin
  <2>1. BytesOK(W) /\ EventsOK(W) /\ n \in Nat
    BY RecordsNat DEF BytesInv, EventsInv
  <2>2. W.c = client /\ W.b = backend
    BY DEF W
  <2>3. Ready(W.c) => DispatchClient(W, n, o) # W
    BY <2>1, DispatchClientEv
  <2>4. Ready(W.b) => DispatchBackend(W, n, o) # W
    BY <2>1, DispatchBackendEv
  <2> QED
    BY <2>2, <2>3, <2>4
<1> QED
  BY <1>1, BytesAccounted, EventsRegistered, PTL
=============================================================================
