-------------------------- MODULE EventLoopProofs --------------------------
(* Proofs about EventLoop with epoll and kqueue: events reach their        *)
(* connection and the registrations match, for any number of blocks and    *)
(* connections and batches of any length.  The select backend, of which    *)
(* this is not true in general, is left to TLC.                            *)
EXTENDS EventLoop, FiniteSetTheorems, SequenceTheorems, WellFoundedInduction, TLAPS
---------------------------------------------------------------------------
(* Types.                                                                  *)

Sock == [id : Nat, fd : Nat, isWebsocket : BOOLEAN]

Reg == [slot : Nat, fd : Nat, ptr : AllBlocks, ev : SUBSET {"read", "write"}, persist : BOOLEAN]

Ev == [ptr : AllBlocks \cup {NoBlock}, id : Nat, flags : SUBSET {"read", "write", "error"}, fd : Nat]

(* What a handler works on, as LoopState and the handlers have it.         *)
Worlds == [sock : [Blocks -> Sock], table : SUBSET Reg, batch : Seq(Ev), accepted : Nat]

LoopTypeOK ==
    /\ backend \in Backends
    /\ LoopState(table, batch) \in Worlds
    /\ pos \in Nat /\ loop \in {"wait", "dispatch", "returned"}
    /\ ready = [read |-> {}, write |-> {}] /\ owing = NothingOwed

---------------------------------------------------------------------------
(* The parts of the inductive invariant, about the state w of a handler.   *)

(* A block that is in use has a descriptor of its own; one that is free    *)
(* holds no websocket.                                                     *)
SocksApart(s) ==
    /\ \A b \in Blocks : s[b].id = 0 => ~s[b].isWebsocket
    /\ \A b \in Alive(s) : s[b].fd # 0
    /\ \A b, c \in Alive(s) : s[b].fd = s[c].fd => b = c

(* What is registered is for the listening socket or for a connection that *)
(* is there, under its descriptor; only reading is registered for once.    *)
TableMatches(t, s) ==
    \A r \in t : /\ \/ r.ptr = Listen /\ r.fd = 0
                    \/ r.ptr \in Alive(s) /\ r.fd = s[r.ptr].fd
                 /\ r.persist \/ r.ev \subseteq {"read"}

(* The events from p on are for connections that are there.                *)
EventsMatch(bt, p, s) ==
    \A i \in 1 .. Len(bt) : i >= p =>
       \/ bt[i].ptr = NoBlock
       \/ bt[i].ptr = Listen /\ bt[i].id = 0
       \/ bt[i].ptr \in Alive(s) /\ bt[i].id = s[bt[i].ptr].id

Armed(t, b) == \E r \in t : r.ptr = b /\ r.ev # {}

(* A websocket stays registered.                                           *)
SocketsArmed(t, s) ==
    \A b \in Blocks : s[b].isWebsocket => \E r \in t : r.ptr = b /\ r.persist /\ r.ev # {}

(* An event from p on that makes the handler register b again or close it. *)
Pending(bt, p, b) ==
    \E i \in 1 .. Len(bt) : /\ i >= p /\ bt[i].ptr = b
                            /\ "read" \in bt[i].flags \/ "error" \in bt[i].flags

(* All of it, for the events from p on; X: the connection whose handler    *)
(* runs, which may be without a registration.                              *)
Sound(w, p, X) ==
    /\ w \in Worlds
    /\ SocksApart(w.sock) /\ TableMatches(w.table, w.sock)
    /\ EventsMatch(w.batch, p, w.sock) /\ SocketsArmed(w.table, w.sock)
    /\ \A b \in Alive(w.sock) \ X : Armed(w.table, b) \/ Pending(w.batch, p, b)

LoopInv ==
    ~Select =>
       /\ LoopTypeOK /\ ~misdirected
       /\ Sound(LoopState(table, batch), pos, {})
       /\ loop # "dispatch" => batch = <<>>
       /\ loop = "dispatch" => pos # 0

---------------------------------------------------------------------------
(* Descriptors.                                                            *)

(* A nonempty set of naturals has a least element.                         *)
LEMMA LeastNat ==
    ASSUME NEW D, D \subseteq Nat, D # {}
    PROVE  \E n \in D : \A m \in D : n <= m
<1> DEFINE Less == OpToRel(<, Nat)
<1>1. IsWellFoundedOn(Less, Nat)
  BY NatLessThanWellFounded
<1>2. ASSUME NEW m \in Nat, NEW n \in Nat, m < n PROVE <<m, n>> \in Less
  <2>1. <<m, n>> \in Nat \X Nat /\ <<m, n>>[1] < <<m, n>>[2]
    BY <1>2
  <2> QED
    BY <2>1 DEF OpToRel
<1> HIDE DEF Less
<1>3. PICK n \in D : \A m \in D : ~(<<m, n>> \in Less)
  BY <1>1, WFMin
<1>4. \A m \in D : ~(m < n)
  BY <1>2, <1>3, Zenon
<1>5. \A m \in D : n <= m
  BY <1>4
<1> QED
  BY <1>5

(* The smallest descriptor that is not in use is there.                    *)
LEMMA LeastFreeIs ==
    ASSUME NEW used, IsFiniteSet(used)
    PROVE  LeastFree(used) \in Nat \ {0} /\ LeastFree(used) \notin used
<1> DEFINE N == Cardinality(used)
           D == (1 .. N + 1) \ used
<1>1. N \in Nat
  BY FS_CardinalityType
<1>2. D # {}
  <2> SUFFICES ASSUME 1 .. N + 1 \subseteq used PROVE FALSE
    OBVIOUS
  <2>1. Cardinality(1 .. N + 1) <= N
    BY FS_Subset
  <2>2. Cardinality(1 .. N + 1) = N + 1
    BY <1>1, FS_Interval
  <2> QED
    BY <1>1, <2>1, <2>2
<1>3. D \subseteq Nat
  BY <1>1
<1> HIDE DEF D
<1>4. PICK n \in D : \A m \in D : n <= m
  BY <1>2, <1>3, LeastNat
<1>5. n \in 1 .. N + 1 /\ n \notin used /\ \A m \in 1 .. n - 1 : m \in used
  BY <1>1, <1>4 DEF D
<1>6. LeastFree(used) \in 1 .. N + 1 /\ LeastFree(used) \notin used
  BY <1>5 DEF LeastFree
<1> QED
  BY <1>1, <1>6

(* The descriptors of the connections are finitely many.                   *)
LEMMA UsedFinite ==
    ASSUME NEW s \in [Blocks -> Sock]
    PROVE  IsFiniteSet({s[c].fd : c \in Alive(s)})
<1> DEFINE A == Alive(s)
           f == [c \in A |-> s[c].fd]
           T == {s[c].fd : c \in A}
<1>1. IsFiniteSet(A)
  <2>1. A \subseteq Blocks
    BY DEF Alive
  <2> QED
    BY <2>1, LoopConstants, FS_Subset
<1>2. f \in Surjection(A, T)
  BY DEF Surjection
<1> HIDE DEF A, f, T
<1>3. IsFiniteSet(T)
  BY <1>1, <1>2, FS_Surjection
<1> QED
  BY <1>3 DEF T, A

---------------------------------------------------------------------------
(* The operations of a handler.                                            *)

(* What a world is made of.                                                *)
LEMMA WorldIs ==
    ASSUME NEW w \in Worlds
    PROVE  /\ w.sock \in [Blocks -> Sock] /\ w.table \subseteq Reg /\ w.batch \in Seq(Ev)
           /\ w.accepted \in Nat
  BY DEF Worlds

(* The blocks, and block 0.                                                *)
LEMMA BlocksAre == Blocks \subseteq Nat \ {0} /\ Listen \notin Blocks /\ NoBlock \notin AllBlocks
  BY LoopConstants DEF Listen, NoBlock, AllBlocks

(* modifyEpoll() leaves one registration of the descriptor.                *)
LEMMA Modified ==
    ASSUME NEW s \in [Blocks -> Sock], NEW t \in SUBSET Reg, NEW b \in Alive(s),
           SocksApart(s), TableMatches(t, s), SocketsArmed(t, s),
           NEW ev \in SUBSET {"read", "write"}, ev # {}, NEW persist \in BOOLEAN,
           persist \/ (ev \subseteq {"read"} /\ ~s[b].isWebsocket)
    PROVE  LET u == modifyEpoll(t, s, b, ev, persist)
           IN  /\ u \subseteq Reg /\ TableMatches(u, s) /\ SocketsArmed(u, s)
               /\ Armed(u, b) /\ \A c \in Alive(s) \ {b} : Armed(t, c) => Armed(u, c)
<1> DEFINE n == Registration(s, b, ev, persist, 0)
           u == modifyEpoll(t, s, b, ev, persist)
<1>1. b \in Blocks /\ b \in AllBlocks /\ s[b].fd \in Nat
  BY DEF Alive, Sock, AllBlocks
<1>2. /\ n \in Reg /\ n.ptr = b /\ n.fd = s[b].fd /\ n.ev = ev /\ n.persist = persist
  BY <1>1 DEF Registration, Reg
<1>3. u = {r \in t : r.fd # s[b].fd} \cup {n}
  BY DEF modifyEpoll
<1> HIDE DEF n, u
<1>4. u \subseteq Reg /\ TableMatches(u, s)
  BY <1>2, <1>3 DEF TableMatches
<1>5. \A c \in Alive(s) \ {b} : \A r \in t : r.ptr = c => r.fd # s[b].fd /\ r \in u
  <2> SUFFICES ASSUME NEW c \in Alive(s) \ {b}, NEW r \in t, r.ptr = c PROVE r.fd # s[b].fd
    BY <1>3
  <2>1. c \in Blocks
    BY DEF Alive
  <2>2. r.fd = s[c].fd
    BY <2>1, BlocksAre DEF TableMatches
  <2> QED
    BY <2>2 DEF SocksApart
<1>6. Armed(u, b) /\ \A c \in Alive(s) \ {b} : Armed(t, c) => Armed(u, c)
  BY <1>2, <1>3, <1>5 DEF Armed
<1>7. SocketsArmed(u, s)
  <2> SUFFICES ASSUME NEW c \in Blocks, s[c].isWebsocket
               PROVE  \E r \in u : r.ptr = c /\ r.persist /\ r.ev # {}
    BY DEF SocketsArmed
  <2>1. CASE c = b
    BY <1>2, <1>3, <2>1
  <2>2. CASE c # b
    <3>1. c \in Alive(s)
      BY DEF SocksApart, Alive
    <3> QED
      BY <1>5, <2>2, <3>1 DEF SocketsArmed
  <2> QED
    BY <2>1, <2>2
<1> QED
  BY <1>4, <1>6, <1>7 DEF u

(* A connection that is registered again.                                  *)
LEMMA RearmSound ==
    ASSUME NEW w, NEW p \in Nat, NEW X, Sound(w, p, X), NEW b \in Alive(w.sock),
           NEW ev \in SUBSET {"read", "write"}, ev # {}, NEW persist \in BOOLEAN,
           persist \/ (ev \subseteq {"read"} /\ ~w.sock[b].isWebsocket)
    PROVE  Sound(Rearm(w, modifyEpoll(w.table, w.sock, b, ev, persist)), p, X \ {b})
<1> DEFINE u == modifyEpoll(w.table, w.sock, b, ev, persist)
           x == Rearm(w, u)
<1>1. w \in Worlds
  BY DEF Sound
<1>2. /\ u \subseteq Reg /\ TableMatches(u, w.sock) /\ SocketsArmed(u, w.sock)
      /\ Armed(u, b) /\ \A c \in Alive(w.sock) \ {b} : Armed(w.table, c) => Armed(u, c)
  BY <1>1, WorldIs, Modified, ZenonT(60) DEF Sound
<1> HIDE DEF u
<1>3. x \in Worlds /\ x.sock = w.sock /\ x.table = u /\ x.batch = w.batch
  BY <1>1, <1>2 DEF Rearm, Worlds
<1> HIDE DEF x
<1>4. \A c \in Alive(x.sock) \ (X \ {b}) : Armed(x.table, c) \/ Pending(x.batch, p, c)
  BY <1>2, <1>3 DEF Sound
<1>5. Sound(x, p, X \ {b})
  BY <1>2, <1>3, <1>4 DEF Sound
<1> QED
  BY <1>5 DEF x, u

(* eventSocketFreed() takes the events behind the current one back, and    *)
(* changes nothing else of the batch.                                      *)
LEMMA EventsFreed ==
    ASSUME NEW bt \in Seq(Ev), NEW p \in Nat, NEW b
    PROVE  LET f == eventSocketFreed(bt, p, b)
           IN  /\ f \in Seq(Ev) /\ Len(f) = Len(bt)
               /\ \A i \in 1 .. Len(bt) :
                     /\ f[i].ptr = IF i > p /\ bt[i].ptr = b THEN NoBlock ELSE bt[i].ptr
                     /\ f[i].id = bt[i].id /\ f[i].flags = bt[i].flags
<1> DEFINE f == eventSocketFreed(bt, p, b)
           g(i) == IF i > p /\ bt[i].ptr = b THEN [bt[i] EXCEPT !.ptr = NoBlock] ELSE bt[i]
<1>1. DOMAIN bt = 1 .. Len(bt) /\ Len(bt) \in Nat
  BY LenProperties
<1>2. f = [i \in 1 .. Len(bt) |-> g(i)]
  BY <1>1 DEF eventSocketFreed
<1>3. ASSUME NEW i \in 1 .. Len(bt)
      PROVE  /\ g(i) \in Ev
             /\ g(i).ptr = IF i > p /\ bt[i].ptr = b THEN NoBlock ELSE bt[i].ptr
             /\ g(i).id = bt[i].id /\ g(i).flags = bt[i].flags
  <2>1. bt[i] \in Ev
    BY <1>1, ElementOfSeq
  <2>2. CASE i > p /\ bt[i].ptr = b
    <3>1. g(i) = [bt[i] EXCEPT !.ptr = NoBlock]
      BY <2>2
    <3> HIDE DEF g
    <3> QED
      BY <2>1, <2>2, <3>1 DEF Ev
  <2>3. CASE ~(i > p /\ bt[i].ptr = b)
    BY <2>1, <2>3
  <2> QED
    BY <2>2, <2>3
<1> HIDE DEF g, f
<1>4. f \in [1 .. Len(bt) -> Ev]
  BY <1>2, <1>3
<1>5. f \in Seq(Ev) /\ Len(f) = Len(bt)
  BY <1>1, <1>4, SeqDef, LenProperties
<1>6. \A i \in 1 .. Len(bt) : f[i] = g(i)
  BY <1>2
<1> QED
  BY <1>3, <1>5, <1>6 DEF f

(* A connection is closed: its registration goes, the events behind the    *)
(* current one go, and its block is free.                                  *)
LEMMA CloseSound ==
    ASSUME ~Select, pos \in Nat, NEW w, NEW X, Sound(w, pos + 1, X), NEW b \in Alive(w.sock)
    PROVE  LET x == WebserverConnectionManagerCloseRequest(w, b)
           IN  /\ Sound(x, pos + 1, X \ {b})
               /\ Alive(x.sock) = Alive(w.sock) \ {b} /\ x.accepted = w.accepted
               /\ \A c \in Blocks \ {b} : x.sock[c] = w.sock[c]
<1> DEFINE x == WebserverConnectionManagerCloseRequest(w, b)
           t == {r \in w.table : r.fd # w.sock[b].fd}
           f == eventSocketFreed(w.batch, pos, b)
           s == [w.sock EXCEPT ![b] = Gone]
<1>1. w \in Worlds
  BY DEF Sound
<1>2. /\ w.sock \in [Blocks -> Sock] /\ w.table \subseteq Reg /\ w.batch \in Seq(Ev)
      /\ b \in Blocks /\ b # NoBlock /\ b # Listen
  BY <1>1, WorldIs, BlocksAre DEF Alive, AllBlocks
<1>3. x = [w EXCEPT !.table = t, !.batch = f, !.sock = s]
  BY DEF WebserverConnectionManagerCloseRequest, delEventSocketAll
<1>4. Gone \in Sock /\ Gone.id = 0 /\ Gone.isWebsocket = FALSE
  BY DEF Gone, Sock
<1>5. s \in [Blocks -> Sock] /\ s[b] = Gone /\ \A c \in Blocks \ {b} : s[c] = w.sock[c]
  BY <1>2, <1>4
<1>6. /\ f \in Seq(Ev) /\ Len(f) = Len(w.batch)
      /\ \A i \in 1 .. Len(w.batch) :
            /\ f[i].ptr = IF i > pos /\ w.batch[i].ptr = b THEN NoBlock ELSE w.batch[i].ptr
            /\ f[i].id = w.batch[i].id /\ f[i].flags = w.batch[i].flags
  BY <1>2, EventsFreed
<1>7. Len(w.batch) \in Nat
  BY <1>2, LenProperties
<1> HIDE DEF f, s
<1>8. x \in Worlds /\ x.sock = s /\ x.table = t /\ x.batch = f /\ x.accepted = w.accepted
  <2>1. t \in SUBSET Reg
    BY <1>2
  <2> HIDE DEF t
  <2> QED
    BY <1>1, <1>3, <1>5, <1>6, <2>1 DEF Worlds
<1> HIDE DEF x
<1>9. Alive(s) = Alive(w.sock) \ {b}
  BY <1>2, <1>4, <1>5 DEF Alive
<1>10. SocksApart(s)
  BY <1>4, <1>5, <1>9 DEF Sound, SocksApart, Alive
<1>11. \A r \in w.table : r \in t <=> r.ptr # b
  <2> SUFFICES ASSUME NEW r \in w.table PROVE r.fd # w.sock[b].fd <=> r.ptr # b
    OBVIOUS
  <2>1. \/ r.ptr = Listen /\ r.fd = 0
        \/ r.ptr \in Alive(w.sock) /\ r.fd = w.sock[r.ptr].fd
    BY DEF Sound, TableMatches
  <2>2. w.sock[b].fd # 0
    BY DEF Sound, SocksApart
  <2>3. \A c \in Alive(w.sock) : w.sock[c].fd = w.sock[b].fd => c = b
    BY DEF Sound, SocksApart
  <2> QED
    BY <1>2, <2>1, <2>2, <2>3
<1>12. TableMatches(t, s)
  <2> SUFFICES ASSUME NEW r \in t
               PROVE  /\ \/ r.ptr = Listen /\ r.fd = 0
                         \/ r.ptr \in Alive(s) /\ r.fd = s[r.ptr].fd
                      /\ r.persist \/ r.ev \subseteq {"read"}
    BY DEF TableMatches
  <2>1. r \in w.table /\ r.ptr # b
    BY <1>11
  <2>2. /\ \/ r.ptr = Listen /\ r.fd = 0
           \/ r.ptr \in Alive(w.sock) /\ r.fd = w.sock[r.ptr].fd
        /\ r.persist \/ r.ev \subseteq {"read"}
    BY <2>1 DEF Sound, TableMatches
  <2> QED
    BY <1>5, <1>9, <2>1, <2>2 DEF Alive
<1>13. EventsMatch(f, pos + 1, s)
  <2> SUFFICES ASSUME NEW i \in 1 .. Len(w.batch), i >= pos + 1
               PROVE  \/ f[i].ptr = NoBlock
                      \/ f[i].ptr = Listen /\ f[i].id = 0
                      \/ f[i].ptr \in Alive(s) /\ f[i].id = s[f[i].ptr].id
    BY <1>6 DEF EventsMatch
  <2>1. i > pos
    BY <1>7
  <2>2. \/ w.batch[i].ptr = NoBlock
        \/ w.batch[i].ptr = Listen /\ w.batch[i].id = 0
        \/ w.batch[i].ptr \in Alive(w.sock) /\ w.batch[i].id = w.sock[w.batch[i].ptr].id
    BY DEF Sound, EventsMatch
  <2>3. CASE w.batch[i].ptr = b
    BY <1>6, <2>1, <2>3
  <2>4. CASE w.batch[i].ptr # b
    <3>1. f[i].ptr = w.batch[i].ptr /\ f[i].id = w.batch[i].id
      BY <1>6, <2>4
    <3> QED
      BY <1>5, <1>9, <2>2, <2>4, <3>1 DEF Alive
  <2> QED
    BY <2>3, <2>4
<1>14. SocketsArmed(t, s)
  <2> SUFFICES ASSUME NEW c \in Blocks, s[c].isWebsocket
               PROVE  \E r \in t : r.ptr = c /\ r.persist /\ r.ev # {}
    BY DEF SocketsArmed
  <2>1. c # b /\ w.sock[c].isWebsocket
    BY <1>4, <1>5
  <2>2. PICK r \in w.table : r.ptr = c /\ r.persist /\ r.ev # {}
    BY <2>1 DEF Sound, SocketsArmed
  <2> QED
    BY <1>11, <2>1, <2>2
<1>15. ASSUME NEW c \in Alive(s) \ (X \ {b}) PROVE Armed(t, c) \/ Pending(f, pos + 1, c)
  <2>1. c \in Alive(w.sock) \ X /\ c # b
    BY <1>9
  <2>2. CASE Armed(w.table, c)
    BY <1>11, <2>1, <2>2 DEF Armed
  <2>3. CASE Pending(w.batch, pos + 1, c)
    BY <1>6, <2>1, <2>3 DEF Pending
  <2> QED
    BY <2>1, <2>2, <2>3 DEF Sound
<1>16. Sound(x, pos + 1, X \ {b})
  BY <1>8, <1>10, <1>12, <1>13, <1>14, <1>15 DEF Sound
<1> QED
  BY <1>5, <1>8, <1>9, <1>16 DEF x

(* addClientSocket(): a new connection in a free block, under a descriptor *)
(* that no other has.                                                      *)
LEMMA AddSound ==
    ASSUME ~Select, ready = [read |-> {}, write |-> {}], NEW w, NEW p \in Nat, Sound(w, p, {}),
           NEW b \in Blocks \ Alive(w.sock)
    PROVE  Sound(addClientSocket(w, b), p, {})
<1> DEFINE x == addClientSocket(w, b)
           fd == LeastFree(DescriptorsInUse(w))
           n == [id |-> w.accepted + 1, isWebsocket |-> FALSE, fd |-> fd]
           s == [w.sock EXCEPT ![b] = n]
           t == modifyEpoll(w.table, s, b, {"read"}, FALSE)
<1>1. w \in Worlds
  BY DEF Sound
<1>2. /\ w.sock \in [Blocks -> Sock] /\ w.table \subseteq Reg /\ w.batch \in Seq(Ev)
      /\ w.accepted \in Nat /\ b \in Blocks /\ b # NoBlock /\ b # Listen
  BY <1>1, WorldIs, BlocksAre DEF AllBlocks
<1>3. fd \in Nat \ {0} /\ \A c \in Alive(w.sock) : w.sock[c].fd # fd
  <2>1. DescriptorsInUse(w) = {w.sock[c].fd : c \in Alive(w.sock)}
    BY DEF DescriptorsInUse
  <2>2. IsFiniteSet(DescriptorsInUse(w))
    BY <1>2, <2>1, UsedFinite
  <2> QED
    BY <2>1, <2>2, LeastFreeIs
<1>4. x = [w EXCEPT !.sock = s, !.accepted = @ + 1, !.table = t]
  BY DEF addClientSocket, addEventSocketRead, Register
<1> HIDE DEF fd
<1>5. n \in Sock /\ n.id # 0 /\ n.fd = fd /\ n.isWebsocket = FALSE
  BY <1>2, <1>3 DEF Sock
<1> HIDE DEF n
<1>6. s \in [Blocks -> Sock] /\ s[b] = n /\ \A c \in Blocks \ {b} : s[c] = w.sock[c]
  BY <1>2, <1>5
<1> HIDE DEF s
<1>7. /\ Alive(s) = Alive(w.sock) \cup {b} /\ b \in Alive(s) /\ b \notin Alive(w.sock)
      /\ \A c \in Alive(w.sock) : c \in Blocks /\ c # b /\ s[c] = w.sock[c]
  BY <1>2, <1>5, <1>6 DEF Alive
<1>8. SocksApart(s)
  <2>1. \A c \in Blocks : s[c].id = 0 => ~s[c].isWebsocket
    BY <1>5, <1>6 DEF Sound, SocksApart
  <2>2. \A c \in Alive(s) : s[c].fd # 0
    BY <1>3, <1>5, <1>6, <1>7 DEF Sound, SocksApart
  <2>3. ASSUME NEW c \in Alive(s), NEW d \in Alive(s), s[c].fd = s[d].fd PROVE c = d
    <3>1. CASE c \in Alive(w.sock) /\ d \in Alive(w.sock)
      BY <1>7, <2>3, <3>1 DEF Sound, SocksApart
    <3>2. CASE c = b \/ d = b
      BY <1>3, <1>5, <1>6, <1>7, <2>3, <3>2
    <3> QED
      BY <1>7, <3>1, <3>2
  <2> QED
    BY <2>1, <2>2, <2>3 DEF SocksApart
<1>9. TableMatches(w.table, s)
  BY <1>7 DEF Sound, TableMatches
<1>10. SocketsArmed(w.table, s)
  BY <1>5, <1>6 DEF Sound, SocketsArmed
<1>11. /\ t \subseteq Reg /\ TableMatches(t, s) /\ SocketsArmed(t, s)
       /\ Armed(t, b) /\ \A c \in Alive(s) \ {b} : Armed(w.table, c) => Armed(t, c)
  <2>1. {"read"} \in SUBSET {"read", "write"} /\ {"read"} # {} /\ ~s[b].isWebsocket
    BY <1>5, <1>6
  <2> QED
    BY <1>2, <1>6, <1>7, <1>8, <1>9, <1>10, <2>1, Modified
<1> HIDE DEF t
<1>12. x \in Worlds /\ x.sock = s /\ x.table = t /\ x.batch = w.batch
  <2> DEFINE a == w.accepted + 1
  <2>1. a \in Nat /\ t \in SUBSET Reg
    BY <1>2, <1>11
  <2>2. x = [w EXCEPT !.sock = s, !.accepted = a, !.table = t]
    BY <1>1, <1>4 DEF Worlds
  <2> HIDE DEF a, x
  <2> QED
    BY <1>1, <1>6, <2>1, <2>2 DEF Worlds
<1> HIDE DEF x
<1>13. EventsMatch(w.batch, p, s)
  BY <1>7 DEF Sound, EventsMatch
<1>14. \A c \in Alive(s) : Armed(t, c) \/ Pending(w.batch, p, c)
  BY <1>7, <1>11 DEF Sound
<1>15. Sound(x, p, {})
  BY <1>8, <1>11, <1>12, <1>13, <1>14 DEF Sound
<1> QED
  BY <1>15 DEF x

(* The upgrade to a websocket, which is registered for good.               *)
LEMMA UpgradeSound ==
    ASSUME ~Select, NEW w, NEW p \in Nat, NEW X, Sound(w, p, X), NEW b \in Alive(w.sock)
    PROVE  Sound(Upgraded(w, b), p, X \ {b})
<1> DEFINE x == Upgraded(w, b)
           n == [w.sock[b] EXCEPT !.isWebsocket = TRUE]
           s == [w.sock EXCEPT ![b] = n]
           t == modifyEpoll(w.table, s, b, {"read", "write"}, TRUE)
           o == {r \in w.table : r.fd # w.sock[b].fd}
<1>1. w \in Worlds
  BY DEF Sound
<1>2. /\ w.sock \in [Blocks -> Sock] /\ w.table \subseteq Reg /\ w.batch \in Seq(Ev)
      /\ b \in Blocks /\ w.sock[b].id # 0 /\ b # Listen /\ b \in AllBlocks
  BY <1>1, WorldIs, BlocksAre DEF Alive, AllBlocks
<1>3. x = [w EXCEPT !.sock = s, !.table = t]
  BY DEF Upgraded, addEventSocketReadWritePersist, Register
<1>4. n \in Sock /\ n.id = w.sock[b].id /\ n.fd = w.sock[b].fd /\ n.isWebsocket = TRUE
  BY <1>2 DEF Sock
<1> HIDE DEF n
<1>5. s \in [Blocks -> Sock] /\ s[b] = n /\ \A c \in Blocks \ {b} : s[c] = w.sock[c]
  BY <1>2, <1>4
<1> HIDE DEF s
<1>6. /\ Alive(s) = Alive(w.sock)
      /\ \A c \in Blocks : s[c].fd = w.sock[c].fd /\ s[c].id = w.sock[c].id
  BY <1>2, <1>4, <1>5 DEF Alive
<1>7. SocksApart(s)
  <2>1. \A c \in Alive(s) : c \in Blocks
    BY DEF Alive
  <2>2. \A c \in Blocks : s[c].id = 0 => ~s[c].isWebsocket
    BY <1>2, <1>4, <1>5 DEF Sound, SocksApart
  <2> QED
    BY <1>6, <2>1, <2>2 DEF Sound, SocksApart
<1> DEFINE r0 == Registration(s, b, {"read", "write"}, TRUE, 0)
<1>8. /\ r0 \in Reg /\ r0.ptr = b /\ r0.fd = s[b].fd /\ r0.persist = TRUE
      /\ r0.ev = {"read", "write"}
  <2>1. s[b].fd \in Nat
    BY <1>2, <1>5 DEF Sock
  <2> QED
    BY <1>2, <2>1 DEF Registration, Reg
<1>9. t = {r \in w.table : r.fd # s[b].fd} \cup {r0}
  BY DEF modifyEpoll
<1> HIDE DEF r0, t
<1>10. \A c \in Alive(s) : c \in Blocks
  BY DEF Alive
<1>11. t \subseteq Reg /\ TableMatches(t, s)
  BY <1>2, <1>6, <1>8, <1>9, <1>10 DEF Sound, TableMatches
<1>12. \A c \in Alive(s) \ {b} : \A r \in w.table : r.ptr = c => r \in t
  <2> SUFFICES ASSUME NEW c \in Alive(s) \ {b}, NEW r \in w.table, r.ptr = c PROVE r.fd # s[b].fd
    BY <1>9
  <2>1. c \in Blocks /\ c # Listen
    BY BlocksAre DEF Alive
  <2>2. r.fd = s[c].fd
    BY <1>6, <2>1 DEF Sound, TableMatches
  <2> QED
    BY <1>6, <1>7, <2>2 DEF SocksApart
<1>13. SocketsArmed(t, s)
  <2> SUFFICES ASSUME NEW c \in Blocks, s[c].isWebsocket
               PROVE  \E r \in t : r.ptr = c /\ r.persist /\ r.ev # {}
    BY DEF SocketsArmed
  <2>1. CASE c = b
    BY <1>8, <1>9, <2>1
  <2>2. CASE c # b
    <3>1. c \in Alive(s) /\ w.sock[c].isWebsocket
      BY <1>5, <1>7, <2>2 DEF SocksApart, Alive
    <3> QED
      BY <1>12, <2>2, <3>1 DEF Sound, SocketsArmed
  <2> QED
    BY <2>1, <2>2
<1>14. EventsMatch(w.batch, p, s)
  BY <1>6, <1>10 DEF Sound, EventsMatch
<1>15. ASSUME NEW c \in Alive(s) \ (X \ {b}) PROVE Armed(t, c) \/ Pending(w.batch, p, c)
  <2>1. CASE c = b
    BY <1>8, <1>9, <2>1 DEF Armed
  <2>2. CASE c # b
    BY <1>6, <1>12, <2>2 DEF Sound, Armed
  <2> QED
    BY <2>1, <2>2
<1>16. x \in Worlds /\ x.sock = s /\ x.table = t /\ x.batch = w.batch
  BY <1>1, <1>3, <1>5, <1>11 DEF Worlds
<1> HIDE DEF x
<1>17. Sound(x, p, X \ {b})
  BY <1>7, <1>11, <1>13, <1>14, <1>15, <1>16 DEF Sound
<1> QED
  BY <1>17 DEF x

---------------------------------------------------------------------------
(* The handlers.                                                           *)

(* A world in which nobody has to be excused.                              *)
LEMMA SoundAll ==
    ASSUME NEW w, NEW p, NEW X, Sound(w, p, X), X \cap Alive(w.sock) = {}
    PROVE  Sound(w, p, {})
  BY DEF Sound

(* Excusing somebody asks for less.                                       *)
LEMMA SoundMore ==
    ASSUME NEW w, NEW p, NEW X, Sound(w, p, {})
    PROVE  Sound(w, p, X)
  BY DEF Sound

(* handleServer().                                                         *)
LEMMA ServerSound ==
    ASSUME ~Select, pos \in Nat, ready = [read |-> {}, write |-> {}],
           NEW w, Sound(w, pos + 1, {}), NEW x \in handleServer(w)
    PROVE  Sound(x, pos + 1, {})
<1> DEFINE Vs == {w} \cup {WebserverConnectionManagerCloseRequest(w, b) : b \in Alive(w.sock)}
<1>1. \A v \in Vs : Sound(v, pos + 1, {})
  BY CloseSound
<1>2. x = w \/ \E v \in Vs : \E b \in Blocks \ Alive(v.sock) : x = addClientSocket(v, b)
  BY DEF handleServer
<1> HIDE DEF Vs
<1>3. pos + 1 \in Nat
  OBVIOUS
<1> QED
  BY <1>1, <1>2, <1>3, AddSound

(* Closing a connection, with its partner or without.                      *)
LEMMA ClosingsSound ==
    ASSUME ~Select, pos \in Nat, NEW w, NEW b \in Alive(w.sock), Sound(w, pos + 1, {b}),
           NEW x \in Closings(w, b)
    PROVE  Sound(x, pos + 1, {})
<1> DEFINE v == WebserverConnectionManagerCloseRequest(w, b)
<1>1. Sound(v, pos + 1, {b} \ {b})
  BY CloseSound
<1>2. Sound(v, pos + 1, {})
  BY <1>1
<1>3. x = v \/ \E c \in Alive(v.sock) : x = WebserverConnectionManagerCloseRequest(v, c)
  BY DEF Closings
<1> HIDE DEF v
<1> QED
  BY <1>2, <1>3, CloseSound

(* handleWebsocket(): a websocket stays registered, whatever is switched.  *)
LEMMA WebsocketSound ==
    ASSUME ~Select, pos \in Nat, NEW w, NEW b \in Alive(w.sock), w.sock[b].isWebsocket,
           Sound(w, pos + 1, {b}), NEW type, NEW x \in handleWebsocket(w, b, type)
    PROVE  Sound(x, pos + 1, {})
<1>1. b \in Blocks /\ pos + 1 \in Nat
  BY DEF Alive
<1>2. Armed(w.table, b)
  BY <1>1 DEF Sound, SocketsArmed, Armed
<1>3. Sound(w, pos + 1, {})
  BY <1>2 DEF Sound
<1>4. \/ x = WebserverConnectionManagerCloseRequest(w, b)
      \/ x = w
      \/ \E e \in BOOLEAN : x = Rearm(w, updateWebsocketEventFlags(w.table, w.sock, b, e))
  BY DEF handleWebsocket
<1>5. CASE x = WebserverConnectionManagerCloseRequest(w, b)
  BY <1>3, <1>5, CloseSound
<1>6. ASSUME NEW e \in BOOLEAN, x = Rearm(w, updateWebsocketEventFlags(w.table, w.sock, b, e))
      PROVE  Sound(x, pos + 1, {})
  <2> DEFINE ev == IF e THEN {"read"} ELSE {"read", "write"}
  <2>1. x = Rearm(w, modifyEpoll(w.table, w.sock, b, ev, TRUE))
    BY <1>6 DEF updateWebsocketEventFlags
  <2>2. ev \in SUBSET {"read", "write"} /\ ev # {}
    OBVIOUS
  <2> HIDE DEF ev
  <2>3. Sound(x, pos + 1, {b} \ {b})
    BY <1>1, <2>1, <2>2, RearmSound
  <2> QED
    BY <2>3
<1> QED
  BY <1>3, <1>4, <1>5, <1>6

(* The handlers of other connections: after reading and after an error     *)
(* the connection is registered again or closed; after writing it may stay *)
(* as it is.                                                               *)
LEMMA ClientSound ==
    ASSUME ~Select, pos \in Nat, NEW w, NEW b \in Alive(w.sock), ~w.sock[b].isWebsocket,
           Sound(w, pos + 1, {b}), NEW type, type = "write" => Sound(w, pos + 1, {}),
           NEW x \in handleClientEvent(w, b, type)
    PROVE  Sound(x, pos + 1, {})
<1> DEFINE rd == {"read"}
           wr == {"write"}
<1>1. b \in Blocks /\ pos + 1 \in Nat
  BY DEF Alive
<1>2. \/ x \in Closings(w, b)
      \/ x = Rearm(w, modifyEpoll(w.table, w.sock, b, rd, FALSE))
      \/ x = Rearm(w, modifyEpoll(w.table, w.sock, b, wr, TRUE))
      \/ x = Upgraded(w, b)
      \/ x = w /\ type = "write"
      \/ x = Rearm(w, modifyEpoll(delEventSocketAll(w.table, w.sock, b), w.sock, b, rd, FALSE))
  BY DEF handleClientEvent, addEventSocketRead, addEventSocketWritePersist, Register
<1>3. modifyEpoll(delEventSocketAll(w.table, w.sock, b), w.sock, b, rd, FALSE)
        = modifyEpoll(w.table, w.sock, b, rd, FALSE)
  BY DEF modifyEpoll, delEventSocketAll
<1>4. CASE x \in Closings(w, b)
  BY <1>4, ClosingsSound
<1>5. CASE x = Rearm(w, modifyEpoll(w.table, w.sock, b, rd, FALSE))
  <2>1. rd \in SUBSET {"read", "write"} /\ rd # {} /\ rd \subseteq {"read"}
    OBVIOUS
  <2> HIDE DEF rd
  <2>2. Sound(x, pos + 1, {b} \ {b})
    BY <1>1, <1>5, <2>1, RearmSound
  <2> QED
    BY <2>2
<1>6. CASE x = Rearm(w, modifyEpoll(w.table, w.sock, b, wr, TRUE))
  <2>1. wr \in SUBSET {"read", "write"} /\ wr # {}
    OBVIOUS
  <2> HIDE DEF wr
  <2>2. Sound(x, pos + 1, {b} \ {b})
    BY <1>1, <1>6, <2>1, RearmSound
  <2> QED
    BY <2>2
<1>7. CASE x = Upgraded(w, b)
  <2>1. Sound(x, pos + 1, {b} \ {b})
    BY <1>1, <1>7, UpgradeSound
  <2> QED
    BY <2>1
<1> QED
  BY <1>2, <1>3, <1>4, <1>5, <1>6, <1>7

---------------------------------------------------------------------------
(* The wait.                                                               *)

(* An event that is reported is of a registration, and for something it is *)
(* registered for, or an error.                                            *)
LEMMA ReportIs ==
    ASSUME LoopTypeOK, TableMatches(table, sock), NEW e \in Reports, Possible(e)
    PROVE  /\ e \in Ev /\ e.flags # {}
           /\ \E r \in table : e.ptr = r.ptr /\ e.fd = r.fd /\ e.id = IdOf(r.ptr)
           /\ \E q \in table : q.fd = e.fd /\ e.flags \subseteq q.ev \cup {"error"}
<1> DEFINE F == SUBSET {"read", "write", "error"}
<1>1. PICK r \in table : \E f \in F \ {{}} : e = Event(r, f)
  <2>1. \A f \in {"read", "write", "error"} : {f} \in F \ {{}}
    OBVIOUS
  <2> HIDE DEF F
  <2>2. \/ \E r \in table : \E f \in F \ {{}} : e = Event(r, f)
        \/ \E r \in table : \E f \in {"read", "write", "error"} : e = Event(r, {f})
    BY DEF Reports, F
  <2> QED
    BY <2>1, <2>2
<1>2. PICK f \in F \ {{}} : e = Event(r, f)
  BY <1>1
<1>3. table \subseteq Reg /\ sock \in [Blocks -> Sock]
  BY DEF LoopTypeOK, LoopState, Worlds
<1>4. r.ptr \in AllBlocks /\ r.fd \in Nat
  BY <1>3 DEF Reg
<1>5. IdOf(r.ptr) \in Nat
  BY <1>3, <1>4 DEF IdOf, AllBlocks, Sock, Listen
<1>6. e.ptr = r.ptr /\ e.fd = r.fd /\ e.id = IdOf(r.ptr) /\ e.flags = f
  BY <1>2 DEF Event
<1>7. e \in Ev
  BY <1>2, <1>4, <1>5 DEF Event, Ev
<1>8. \E q \in table : q.fd = e.fd /\ e.flags \subseteq q.ev \cup {"error"}
  <2>1. PICK q \in table :
           q.fd = e.fd /\ e.flags \subseteq q.ev \cup (IF q.fd = 0 THEN {} ELSE {"error"})
    BY DEF Possible
  <2> QED
    BY <2>1
<1> QED
  BY <1>2, <1>6, <1>7, <1>8

(* What a report leaves of a registration.                                 *)
LEMMA SpentIs ==
    ASSUME LoopTypeOK, NEW S
    PROVE  /\ \A u \in Spent(S) :
                 /\ u \in Reg
                 /\ \E r \in table : /\ u.ptr = r.ptr /\ u.fd = r.fd /\ u.persist = r.persist
                                     /\ u.ev \subseteq r.ev
           /\ \A r \in table : r \in Spent(S) \/ (~r.persist /\ \E e \in S : e.fd = r.fd)
<1> DEFINE gone(r) == UNION {e.flags : e \in {d \in S : d.fd = r.fd}}
           left(r) == IF backend.name = "epoll" THEN {} ELSE r.ev \ gone(r)
           kept(r) == r.persist \/ ~\E e \in S : e.fd = r.fd
           sp(r) == IF kept(r) THEN r ELSE [r EXCEPT !.ev = left(r)]
<1>1. table \subseteq Reg
  BY DEF LoopTypeOK, LoopState, Worlds
<1>2. Spent(S) = {sp(r) : r \in table}
  BY DEF Spent
<1>3. \A r \in table : left(r) \subseteq r.ev
  OBVIOUS
<1> HIDE DEF gone, left
<1>4. ASSUME NEW r \in table
      PROVE  /\ sp(r) \in Reg /\ sp(r).ptr = r.ptr /\ sp(r).fd = r.fd /\ sp(r).persist = r.persist
             /\ sp(r).ev \subseteq r.ev /\ (kept(r) => sp(r) = r)
  <2>1. r \in Reg
    BY <1>1
  <2>2. left(r) \subseteq r.ev /\ r.ev \subseteq {"read", "write"}
    BY <1>3, <2>1 DEF Reg
  <2> DEFINE l == left(r)
             c == [r EXCEPT !.ev = l]
  <2>3. l \subseteq r.ev /\ l \in SUBSET {"read", "write"}
    BY <2>2
  <2> HIDE DEF l
  <2>4. c \in Reg /\ c.ptr = r.ptr /\ c.fd = r.fd /\ c.persist = r.persist /\ c.ev = l
    BY <2>1, <2>3 DEF Reg
  <2>5. sp(r) = IF kept(r) THEN r ELSE c
    BY DEF l
  <2> HIDE DEF sp, kept, c
  <2> QED
    BY <2>1, <2>3, <2>4, <2>5
<1>5. \A r \in table : sp(r) \in Spent(S)
  BY <1>2
<1>6. \A u \in Spent(S) : \E r \in table : u = sp(r)
  BY <1>2
<1>7. \A r \in table : kept(r) \/ (~r.persist /\ \E e \in S : e.fd = r.fd)
  OBVIOUS
<1> HIDE DEF sp, kept
<1> QED
  BY <1>4, <1>5, <1>6, <1>7

(* A registration that is spent has an event in the batch, and its handler *)
(* registers the connection again or closes it: only reading is registered *)
(* for once, so the event is a read event or an error.                     *)
LEMMA WaitSound ==
    ASSUME LoopTypeOK, Sound(LoopState(table, batch), pos, {}), batch = <<>>, NEW k \in Nat,
           NEW events \in [1 .. k -> {e \in Reports : Possible(e)}]
    PROVE  Sound(LoopState(Spent({events[i] : i \in 1 .. k}), events), 1, {})
<1> DEFINE S == {events[i] : i \in 1 .. k}
           t == Spent(S)
           x == LoopState(t, events)
<1>1. /\ table \subseteq Reg /\ sock \in [Blocks -> Sock] /\ accepted \in Nat
      /\ SocksApart(sock) /\ TableMatches(table, sock) /\ SocketsArmed(table, sock)
  BY DEF LoopTypeOK, LoopState, Worlds, Sound
<1>2. \A b \in Alive(sock) : Armed(table, b)
  <2>1. ASSUME NEW b PROVE ~Pending(batch, pos, b)
    BY DEF Pending
  <2> QED
    BY <2>1 DEF Sound, LoopState
<1>3. \A i \in 1 .. k : events[i] \in Reports /\ Possible(events[i])
  OBVIOUS
<1>4. ASSUME NEW i \in 1 .. k
      PROVE  /\ events[i] \in Ev /\ events[i].flags # {}
             /\ \E r \in table : /\ events[i].ptr = r.ptr /\ events[i].fd = r.fd
                                 /\ events[i].id = IdOf(r.ptr)
             /\ \E q \in table : q.fd = events[i].fd /\ events[i].flags \subseteq q.ev \cup {"error"}
  BY <1>1, <1>3, ReportIs
<1>5. events \in Seq(Ev) /\ Len(events) = k
  <2>1. events \in [1 .. k -> Ev]
    BY <1>4
  <2>2. events \in Seq(Ev)
    BY <2>1, SeqDef
  <2> QED
    BY <2>1, <2>2, LenProperties
<1>6. /\ \A u \in t : /\ u \in Reg
                      /\ \E r \in table : /\ u.ptr = r.ptr /\ u.fd = r.fd /\ u.persist = r.persist
                                          /\ u.ev \subseteq r.ev
      /\ \A r \in table : r \in t \/ (~r.persist /\ \E e \in S : e.fd = r.fd)
  <2> HIDE DEF S
  <2> QED
    BY SpentIs
<1>7. \A e \in S : \E i \in 1 .. k : e = events[i]
  OBVIOUS
<1> HIDE DEF S, t
<1>8. x \in Worlds /\ x.sock = sock /\ x.table = t /\ x.batch = events
  BY <1>1, <1>5, <1>6 DEF LoopState, Worlds
<1>9. TableMatches(t, sock)
  <2> SUFFICES ASSUME NEW u \in t
               PROVE  /\ \/ u.ptr = Listen /\ u.fd = 0
                         \/ u.ptr \in Alive(sock) /\ u.fd = sock[u.ptr].fd
                      /\ u.persist \/ u.ev \subseteq {"read"}
    BY DEF TableMatches
  <2>1. PICK r \in table : u.ptr = r.ptr /\ u.fd = r.fd /\ u.persist = r.persist /\ u.ev \subseteq r.ev
    BY <1>6
  <2>2. /\ \/ r.ptr = Listen /\ r.fd = 0
           \/ r.ptr \in Alive(sock) /\ r.fd = sock[r.ptr].fd
        /\ r.persist \/ r.ev \subseteq {"read"}
    BY <1>1 DEF TableMatches
  <2> QED
    BY <2>1, <2>2
<1>10. EventsMatch(events, 1, sock)
  <2> SUFFICES ASSUME NEW i \in 1 .. k
               PROVE  \/ events[i].ptr = Listen /\ events[i].id = 0
                      \/ events[i].ptr \in Alive(sock) /\ events[i].id = sock[events[i].ptr].id
    BY <1>5 DEF EventsMatch
  <2>1. PICK r \in table : events[i].ptr = r.ptr /\ events[i].fd = r.fd /\ events[i].id = IdOf(r.ptr)
    BY <1>4
  <2>2. r.ptr = Listen \/ r.ptr \in Alive(sock)
    BY <1>1 DEF TableMatches
  <2>3. r.ptr \in Alive(sock) => r.ptr # Listen
    BY BlocksAre DEF Alive
  <2> QED
    BY <2>1, <2>2, <2>3 DEF IdOf
<1>11. SocketsArmed(t, sock)
  <2> SUFFICES ASSUME NEW b \in Blocks, sock[b].isWebsocket
               PROVE  \E r \in t : r.ptr = b /\ r.persist /\ r.ev # {}
    BY DEF SocketsArmed
  <2>1. PICK r \in table : r.ptr = b /\ r.persist /\ r.ev # {}
    BY <1>1 DEF SocketsArmed
  <2> QED
    BY <1>6, <2>1
<1>12. ASSUME NEW b \in Alive(sock), ~Armed(t, b)
       PROVE  Pending(events, 1, b)
  <2>1. PICK r \in table : r.ptr = b /\ r.ev # {}
    BY <1>2 DEF Armed
  <2>2. r \notin t
    BY <1>12, <2>1 DEF Armed
  <2>3. PICK e \in S : e.fd = r.fd
    BY <1>6, <2>2
  <2>4. PICK i \in 1 .. k : e = events[i]
    BY <1>7
  <2>5. b \in Blocks /\ b # Listen /\ r.fd = sock[b].fd /\ r.fd # 0
    BY <1>1, <2>1, BlocksAre DEF TableMatches, Alive, SocksApart
  <2>6. \A q \in table : q.fd = r.fd => q.ptr = b
    BY <1>1, <2>5 DEF TableMatches, SocksApart
  <2>7. events[i].ptr = b
    BY <1>4, <2>3, <2>4, <2>6
  <2>8. PICK q \in table : q.fd = e.fd /\ e.flags \subseteq q.ev \cup {"error"}
    BY <1>4, <2>4
  <2>9. q.ev = {} \/ q.ev \subseteq {"read"}
    <3>1. CASE q \in t
      BY <1>12, <2>3, <2>6, <2>8, <3>1 DEF Armed
    <3>2. CASE q \notin t
      BY <1>1, <1>6, <3>2 DEF TableMatches
    <3> QED
      BY <3>1, <3>2
  <2>10. e.flags # {}
    BY <1>4, <2>4
  <2>11. "read" \in e.flags \/ "error" \in e.flags
    BY <2>8, <2>9, <2>10
  <2> QED
    BY <1>5, <2>4, <2>7, <2>11 DEF Pending
<1> HIDE DEF x
<1>13. Sound(x, 1, {})
  BY <1>1, <1>8, <1>9, <1>10, <1>11, <1>12 DEF Sound
<1> QED
  BY <1>13 DEF x, t, S

---------------------------------------------------------------------------
(* The steps.                                                              *)

(* Behind the event that is dispatched only its connection may be without  *)
(* a registration, and only if the event is not a write event.             *)
LEMMA NextEvent ==
    ASSUME NEW w, NEW p \in Nat, Sound(w, p, {}), NEW X,
           \A b \in Alive(w.sock) \ X : Pending(w.batch, p, b) => Pending(w.batch, p + 1, b)
    PROVE  Sound(w, p + 1, X)
<1>1. EventsMatch(w.batch, p + 1, w.sock)
  BY WorldIs, LenProperties DEF Sound, EventsMatch
<1> QED
  BY <1>1 DEF Sound

(* Which connection that is.                                               *)
LEMMA PendingHere ==
    ASSUME NEW bt \in Seq(Ev), NEW p \in Nat, NEW b, Pending(bt, p, b),
           p \in 1 .. Len(bt) => bt[p].ptr # b \/ eventHandler(bt[p].flags) = "write"
    PROVE  Pending(bt, p + 1, b)
<1>1. Len(bt) \in Nat
  BY LenProperties
<1>2. PICK i \in 1 .. Len(bt) : /\ i >= p /\ bt[i].ptr = b
                                /\ "read" \in bt[i].flags \/ "error" \in bt[i].flags
  BY DEF Pending
<1>3. i # p
  BY <1>2 DEF eventHandler
<1>4. i >= p + 1
  BY <1>1, <1>2, <1>3
<1> QED
  BY <1>2, <1>4 DEF Pending

(* waitEvents() calls the handler of the next event.                       *)
LEMMA DispatchStep ==
    ASSUME LoopInv, ~Select, waitEventsDispatch
    PROVE  ~misdirected' /\ Sound(LoopState(table, batch)', pos', {})
<1> DEFINE w == LoopState(table, batch)
           e == batch[pos]
           b == e.ptr
           type == eventHandler(e.flags)
<1>1. /\ LoopTypeOK /\ ~misdirected /\ Sound(w, pos, {}) /\ pos \in Nat /\ pos' = pos + 1
      /\ ready = [read |-> {}, write |-> {}]
  BY DEF LoopInv, LoopTypeOK, waitEventsDispatch
<1>2. /\ w.sock = sock /\ w.table = table /\ w.batch = batch /\ w.accepted = accepted
      /\ w \in Worlds
  BY <1>1 DEF LoopState, Sound
<1>3. batch \in Seq(Ev) /\ Len(batch) \in Nat /\ sock \in [Blocks -> Sock]
  BY <1>2, WorldIs, LenProperties
<1>4. \A c : Pending(batch, pos, c) /\ (b # c \/ type = "write") => Pending(batch, pos + 1, c)
  BY <1>1, <1>3, PendingHere
<1> HIDE DEF w, type
<1>5. Sound(w, pos + 1, {b})
  <2>1. \A c \in Alive(w.sock) \ {b} : Pending(w.batch, pos, c) => Pending(w.batch, pos + 1, c)
    BY <1>2, <1>4
  <2> QED
    BY <1>1, <2>1, NextEvent
<1>6. type = "write" => Sound(w, pos + 1, {})
  <2> SUFFICES ASSUME type = "write" PROVE Sound(w, pos + 1, {})
    OBVIOUS
  <2>1. \A c \in Alive(w.sock) \ {} : Pending(w.batch, pos, c) => Pending(w.batch, pos + 1, c)
    BY <1>2, <1>4
  <2> QED
    BY <1>1, <2>1, NextEvent
<1>7. b \notin Blocks => Sound(w, pos + 1, {})
  <2> SUFFICES ASSUME b \notin Blocks PROVE Sound(w, pos + 1, {})
    OBVIOUS
  <2>1. {b} \cap Alive(w.sock) = {}
    BY DEF Alive
  <2> QED
    BY <1>5, <2>1, SoundAll
<1>8. ASSUME NEW x, Sound(x, pos + 1, {}),
             sock' = x.sock, table' = x.table, batch' = x.batch, accepted' = x.accepted
      PROVE  Sound(LoopState(table, batch)', pos', {})
  <2>1. x = [sock |-> x.sock, table |-> x.table, batch |-> x.batch, accepted |-> x.accepted]
    BY <1>8 DEF Sound, Worlds
  <2>2. LoopState(table, batch)' = x
    BY <1>8, <2>1 DEF LoopState
  <2>3. Sound(x, pos', {})
    BY <1>1, <1>8
  <2> QED
    BY <2>2, <2>3 DEF Sound
<1>9. CASE b = NoBlock /\ UNCHANGED <<sock, table, batch, accepted, misdirected>>
  <2>1. b \notin Blocks
    BY <1>9, BlocksAre DEF AllBlocks
  <2> QED
    BY <1>1, <1>2, <1>7, <1>8, <1>9, <2>1
<1>10. CASE b # NoBlock /\ Call(w, b, e.id, type)
  <2>1. pos \in 1 .. Len(batch)
    <3>1. pos <= Len(batch) /\ loop = "dispatch"
      BY DEF waitEventsDispatch
    <3>2. pos # 0
      BY <3>1 DEF LoopInv
    <3> QED
      BY <1>1, <1>3, <3>1, <3>2
  <2>2. \/ b = Listen /\ e.id = 0
        \/ b \in Alive(sock) /\ e.id = sock[b].id
    BY <1>1, <1>2, <1>10, <2>1 DEF Sound, EventsMatch
  <2>3. b \in Alive(sock) => b # Listen /\ b \in Blocks
    BY BlocksAre DEF Alive
  <2>4. IdOf(b) = e.id
    BY <2>2, <2>3 DEF IdOf
  <2>5. PICK x \in handleer(w, b, type) :
             sock' = x.sock /\ table' = x.table /\ batch' = x.batch /\ accepted' = x.accepted
    BY <1>10, <2>4 DEF Call
  <2>6. misdirected' = misdirected
    BY <1>10, <2>4 DEF Call
  <2>7. Sound(x, pos + 1, {})
    <3>1. CASE b = Listen
      <4>1. x \in handleServer(w)
        BY <3>1 DEF handleer
      <4>2. Sound(w, pos + 1, {})
        BY <1>7, <3>1, BlocksAre
      <4> QED
        BY <1>1, <4>1, <4>2, ServerSound
    <3>2. CASE b \in Alive(sock) /\ sock[b].isWebsocket
      <4>1. x \in handleWebsocket(w, b, type) /\ b \in Alive(w.sock) /\ w.sock[b].isWebsocket
        BY <1>2, <2>3, <3>2 DEF handleer
      <4> HIDE DEF b
      <4> QED
        BY <1>1, <1>5, <4>1, WebsocketSound
    <3>3. CASE b \in Alive(sock) /\ ~sock[b].isWebsocket
      <4>1. x \in handleClientEvent(w, b, type) /\ b \in Alive(w.sock) /\ ~w.sock[b].isWebsocket
        BY <1>2, <2>3, <3>3 DEF handleer
      <4> HIDE DEF b
      <4> QED
        BY <1>1, <1>5, <1>6, <4>1, ClientSound
    <3> QED
      BY <2>2, <3>1, <3>2, <3>3
  <2> QED
    BY <1>1, <1>8, <2>5, <2>6, <2>7
<1>11. \/ b = NoBlock /\ UNCHANGED <<sock, table, batch, accepted, misdirected>>
       \/ b # NoBlock /\ Call(w, b, e.id, type)
  BY DEF waitEventsDispatch, w, type
<1> QED
  BY <1>9, <1>10, <1>11

(* The wait fills the batch.                                               *)
LEMMA WaitStep ==
    ASSUME LoopInv, ~Select, epoll_wait
    PROVE  Sound(LoopState(table, batch)', pos', {})
<1> DEFINE E == {e \in Reports : Possible(e)}
<1>1. LoopTypeOK /\ Sound(LoopState(table, batch), pos, {}) /\ batch = <<>> /\ pos' = 1
  BY DEF LoopInv, epoll_wait
<1>2. PICK k \in 0 .. MaxBatch : \E events \in [1 .. k -> E] :
           batch' = events /\ table' = Spent({events[i] : i \in 1 .. k})
  BY DEF epoll_wait
<1>3. PICK events \in [1 .. k -> E] : batch' = events /\ table' = Spent({events[i] : i \in 1 .. k})
  BY <1>2
<1>4. k \in Nat
  BY LoopConstants
<1>5. Sound(LoopState(Spent({events[i] : i \in 1 .. k}), events), 1, {})
  BY <1>1, <1>4, WaitSound
<1>6. LoopState(table, batch)' = LoopState(Spent({events[i] : i \in 1 .. k}), events)
  <2>1. sock' = sock /\ accepted' = accepted
    BY DEF epoll_wait
  <2> QED
    BY <1>3, <2>1 DEF LoopState
<1> QED
  BY <1>1, <1>5, <1>6 DEF Sound

(* Behind the batch no event is pending, so that every connection is       *)
(* registered.                                                             *)
LEMMA BehindBatch ==
    ASSUME NEW w, NEW p \in Nat, NEW q \in Nat, Sound(w, p, {}), p > Len(w.batch)
    PROVE  /\ \A b \in Alive(w.sock) : Armed(w.table, b)
           /\ q > Len(w.batch) => Sound(w, q, {})
<1>1. Len(w.batch) \in Nat
  BY WorldIs, LenProperties DEF Sound
<1>2. ASSUME NEW b PROVE ~Pending(w.batch, p, b)
  BY <1>1 DEF Pending
<1>3. \A b \in Alive(w.sock) : Armed(w.table, b)
  BY <1>2 DEF Sound
<1>4. q > Len(w.batch) => EventsMatch(w.batch, q, w.sock)
  BY <1>1 DEF EventsMatch
<1> QED
  BY <1>3, <1>4 DEF Sound

(* connTimeoutSweep() closes a connection.                                 *)
LEMMA SweepStep ==
    ASSUME LoopInv, ~Select, NEW b \in Blocks, connTimeoutSweep(b)
    PROVE  Sound(LoopState(table, batch)', pos', {})
<1> DEFINE w == LoopState(table, batch)
           x == WebserverConnectionManagerCloseRequest(w, b)
<1>1. /\ Sound(w, pos, {}) /\ pos \in Nat /\ pos' = pos /\ pos > Len(batch)
      /\ b \in Alive(sock)
      /\ batch' = x.batch /\ sock' = x.sock /\ table' = x.table /\ accepted' = accepted
  BY DEF LoopInv, LoopTypeOK, connTimeoutSweep, Dispatched
<1>2. w.sock = sock /\ w.batch = batch /\ w.accepted = accepted /\ w \in Worlds
  BY <1>1 DEF LoopState, Sound
<1>3. batch \in Seq(Ev) /\ Len(batch) \in Nat
  BY <1>2, WorldIs, LenProperties
<1> HIDE DEF w
<1>4. Sound(w, pos + 1, {})
  BY <1>1, <1>2, <1>3, BehindBatch
<1>5. Sound(x, pos + 1, {} \ {b}) /\ x.accepted = w.accepted
  BY <1>1, <1>2, <1>4, CloseSound
<1>6. Sound(x, pos + 1, {})
  BY <1>5
<1>7. Len(x.batch) = Len(batch)
  <2>1. x.batch = eventSocketFreed(batch, pos, b)
    BY <1>2 DEF WebserverConnectionManagerCloseRequest, Worlds
  <2> QED
    BY <1>1, <1>3, <2>1, EventsFreed
<1> HIDE DEF x
<1>8. Sound(x, pos, {})
  BY <1>1, <1>3, <1>6, <1>7, BehindBatch
<1>9. x = [sock |-> x.sock, table |-> x.table, batch |-> x.batch, accepted |-> x.accepted]
  BY <1>8 DEF Sound, Worlds
<1>10. LoopState(table, batch)' = x
  BY <1>1, <1>2, <1>5, <1>9 DEF LoopState
<1> QED
  BY <1>1, <1>8, <1>10 DEF Sound

(* The loop begins again with no batch.                                    *)
LEMMA AfterDispatchStep ==
    ASSUME LoopInv, ~Select, eventLoopAfterDispatch
    PROVE  Sound(LoopState(table, batch)', pos', {})
<1> DEFINE w == LoopState(table, batch)
           x == LoopState(table, <<>>)
<1>1. /\ Sound(w, pos, {}) /\ pos \in Nat /\ pos > Len(batch)
      /\ batch' = <<>> /\ pos' = 0 /\ sock' = sock /\ table' = table /\ accepted' = accepted
  BY DEF LoopInv, LoopTypeOK, eventLoopAfterDispatch, Dispatched
<1>2. /\ w.sock = sock /\ w.batch = batch /\ w.table = table /\ w.accepted = accepted /\ w \in Worlds
      /\ x.sock = sock /\ x.batch = <<>> /\ x.table = table
  BY <1>1 DEF LoopState, Sound
<1>3. \A b \in Alive(sock) : Armed(table, b)
  <2> HIDE DEF w
  <2>1. \A b \in Alive(w.sock) : Armed(w.table, b)
    BY <1>1, <1>2, BehindBatch
  <2> QED
    BY <1>2, <2>1
<1>4. x \in Worlds
  BY <1>2 DEF LoopState, Worlds
<1>5. EventsMatch(<<>>, 0, sock)
  BY DEF EventsMatch
<1>6. SocksApart(sock) /\ TableMatches(table, sock) /\ SocketsArmed(table, sock)
  BY <1>1, <1>2 DEF Sound
<1> HIDE DEF x
<1>7. Sound(x, 0, {})
  BY <1>2, <1>3, <1>4, <1>5, <1>6 DEF Sound
<1>8. LoopState(table, batch)' = x
  BY <1>1 DEF LoopState, x
<1> QED
  BY <1>1, <1>7, <1>8 DEF Sound

(* The output thread arms a websocket, at any moment.                      *)
LEMMA ActivateStep ==
    ASSUME LoopInv, ~Select, NEW b \in Blocks, activateEventSocketWrite(b)
    PROVE  Sound(LoopState(table, batch)', pos', {})
<1> DEFINE w == LoopState(table, batch)
           rw == {"read", "write"}
           t == modifyEpoll(table, sock, b, rw, TRUE)
<1>1. /\ Sound(w, pos, {}) /\ pos \in Nat /\ sock[b].isWebsocket
      /\ pos' = pos /\ batch' = batch /\ sock' = sock /\ accepted' = accepted
  BY DEF LoopInv, LoopTypeOK, activateEventSocketWrite
<1>2. table' = t
  BY DEF activateEventSocketWrite, updateWebsocketEventFlags
<1>3. w.sock = sock /\ w.batch = batch /\ w.table = table /\ w.accepted = accepted
  BY DEF LoopState
<1>4. b \in Alive(w.sock)
  BY <1>1, <1>3 DEF Sound, SocksApart, Alive
<1>5. Rearm(w, t) = LoopState(t, batch)
  <2> HIDE DEF t
  <2> QED
    BY DEF Rearm, LoopState
<1>6. rw \in SUBSET {"read", "write"} /\ rw # {}
  OBVIOUS
<1> HIDE DEF w, rw
<1>7. Sound(Rearm(w, modifyEpoll(w.table, w.sock, b, rw, TRUE)), pos, {} \ {b})
  BY <1>1, <1>4, <1>6, RearmSound
<1>8. Sound(LoopState(t, batch), pos, {})
  BY <1>3, <1>5, <1>7
<1> HIDE DEF t
<1>9. LoopState(table, batch)' = LoopState(t, batch)
  BY <1>1, <1>2 DEF LoopState
<1> QED
  BY <1>1, <1>8, <1>9 DEF Sound

---------------------------------------------------------------------------
(* The theorems.                                                           *)

(* initEvents().                                                           *)
LEMMA LoopInit == initEvents => LoopInv
<1> SUFFICES ASSUME initEvents PROVE LoopInv
  OBVIOUS
<1> DEFINE l == [slot |-> 1, fd |-> 0, ptr |-> Listen, ev |-> {"read"}, persist |-> TRUE]
           w == LoopState(table, batch)
<1>1. /\ sock = [b \in Blocks |-> Gone] /\ table = {l} /\ accepted = 0 /\ batch = <<>> /\ pos = 0
      /\ backend \in Backends /\ loop = "wait" /\ ~misdirected
      /\ ready = [read |-> {}, write |-> {}] /\ owing = NothingOwed
  BY DEF initEvents
<1>2. l \in Reg /\ l.ptr = Listen /\ l.fd = 0 /\ l.persist
  BY DEF Reg, AllBlocks
<1> HIDE DEF l
<1>3. Gone \in Sock /\ Gone.id = 0 /\ ~Gone.isWebsocket
  BY DEF Gone, Sock
<1>4. w \in Worlds /\ w.sock = sock /\ w.table = table /\ w.batch = batch
  BY <1>1, <1>2, <1>3 DEF LoopState, Worlds
<1>5. Alive(sock) = {} /\ \A b \in Blocks : ~sock[b].isWebsocket
  BY <1>1, <1>3 DEF Alive
<1>6. SocksApart(sock) /\ TableMatches(table, sock) /\ SocketsArmed(table, sock)
  BY <1>1, <1>2, <1>5 DEF SocksApart, TableMatches, SocketsArmed
<1>7. EventsMatch(batch, pos, sock)
  BY <1>1 DEF EventsMatch
<1> HIDE DEF w
<1>8. Sound(w, pos, {})
  BY <1>4, <1>5, <1>6, <1>7 DEF Sound
<1> QED
  BY <1>1, <1>4, <1>8 DEF LoopInv, LoopTypeOK, w

(* One step of the loop, of a handler or of the output thread.             *)
LEMMA LoopStep == LoopInv /\ [loopNext]_loopVars => LoopInv'
<1> SUFFICES ASSUME LoopInv, [loopNext]_loopVars PROVE LoopInv'
  OBVIOUS
<1>1. backend' = backend
  BY DEF loopNext, loopVars, epoll_wait, waitEventsDispatch, select, selectEntry, selectWrite,
         eventLoopAfterDispatch, connTimeoutSweep, activateEventSocketWrite, breakEvents,
         waitEventsReturns
<1> SUFFICES ASSUME ~Select PROVE LoopInv'
  BY <1>1 DEF LoopInv, Select
<1>2. /\ LoopTypeOK /\ ~misdirected /\ Sound(LoopState(table, batch), pos, {})
      /\ loop # "dispatch" => batch = <<>>
      /\ loop = "dispatch" => pos # 0
  BY DEF LoopInv
<1>3. ASSUME Sound(LoopState(table, batch)', pos', {}), ~misdirected', pos' \in Nat,
             loop' \in {"wait", "dispatch", "returned"}, ready' = [read |-> {}, write |-> {}],
             owing' = NothingOwed, loop' # "dispatch" => batch' = <<>>, loop' = "dispatch" => pos' # 0
      PROVE  LoopInv'
  <2>1. LoopState(table, batch)' \in Worlds
    BY <1>3 DEF Sound
  <2>2. LoopTypeOK'
    BY <1>1, <1>2, <1>3, <2>1 DEF LoopTypeOK, NothingOwed, NoBlock
  <2> QED
    BY <1>3, <2>2 DEF LoopInv
<1>4. ASSUME UNCHANGED <<sock, table, batch, accepted, pos>>
      PROVE  Sound(LoopState(table, batch)', pos', {})
  <2>1. LoopState(table, batch)' = LoopState(table, batch)
    BY <1>4 DEF LoopState
  <2> QED
    BY <1>2, <1>4, <2>1 DEF Sound
<1>5. CASE epoll_wait
  <2>1. /\ pos' = 1 /\ loop' = "dispatch"
        /\ UNCHANGED <<ready, owing, misdirected>>
    BY <1>5 DEF epoll_wait
  <2> QED
    BY <1>2, <1>3, <1>5, <2>1, WaitStep DEF LoopTypeOK
<1>6. CASE waitEventsDispatch
  BY <1>2, <1>3, <1>6, DispatchStep DEF waitEventsDispatch, LoopTypeOK
<1>7. CASE select \/ selectEntry \/ selectWrite
  BY <1>7 DEF select, selectEntry, selectWrite
<1>8. CASE eventLoopAfterDispatch
  BY <1>2, <1>3, <1>8, AfterDispatchStep DEF eventLoopAfterDispatch, LoopTypeOK
<1>9. ASSUME NEW b \in Blocks, connTimeoutSweep(b) PROVE LoopInv'
  BY <1>2, <1>3, <1>9, SweepStep DEF connTimeoutSweep, Dispatched, LoopTypeOK
<1>10. ASSUME NEW b \in Blocks, activateEventSocketWrite(b) PROVE LoopInv'
  BY <1>2, <1>3, <1>10, ActivateStep DEF activateEventSocketWrite, LoopTypeOK
<1>11. CASE breakEvents
  BY <1>2, <1>3, <1>4, <1>11 DEF breakEvents, LoopTypeOK
<1>12. CASE waitEventsReturns
  BY <1>2, <1>3, <1>4, <1>12 DEF waitEventsReturns, LoopTypeOK
<1>13. CASE UNCHANGED loopVars
  BY <1>2, <1>3, <1>4, <1>13 DEF loopVars, LoopTypeOK
<1> QED
  BY <1>5, <1>6, <1>7, <1>8, <1>9, <1>10, <1>11, <1>12, <1>13 DEF loopNext

(* With epoll and kqueue the state of the loop stays sound.                *)
THEOREM LoopHolds == loopSpec => []LoopInv
<1> QED
  BY LoopInit, LoopStep, PTL DEF loopSpec

(* With epoll and kqueue no handler is called for a connection that is     *)
(* gone, whatever the handlers before it in the batch closed and accepted  *)
(* (waitEvents(), eventSocketFreed()).                                     *)
THEOREM EventsArrive == loopSpec => [](~Select => EventsReachTheirConnection)
<1>1. LoopInv => (~Select => EventsReachTheirConnection)
  BY DEF LoopInv, EventsReachTheirConnection
<1> QED
  BY <1>1, LoopHolds, PTL

(* With epoll and kqueue every registration is of a connection that is     *)
(* there, and every connection is registered while the loop waits          *)
(* (delEventSocketAll(), modifyEpoll(), waitEvents()).                     *)
THEOREM Registered == loopSpec => [](~Select => RegistrationsMatch)
<1>1. LoopInv => (~Select => RegistrationsMatch)
  <2> SUFFICES ASSUME LoopInv, ~Select PROVE RegistrationsMatch
    OBVIOUS
  <2>1. Sound(LoopState(table, batch), pos, {}) /\ (loop # "dispatch" => batch = <<>>)
    BY DEF LoopInv
  <2>2. /\ TableMatches(table, sock)
        /\ \A b \in Alive(sock) : Armed(table, b) \/ Pending(batch, pos, b)
    BY <2>1 DEF Sound, LoopState
  <2>3. \A r \in table : r.ptr # Listen => sock[r.ptr].id # 0 /\ sock[r.ptr].fd = r.fd
    BY <2>2 DEF TableMatches, Alive
  <2>4. ASSUME loop = "wait" PROVE \A b \in Alive(sock) : \E r \in table : r.ptr = b /\ r.ev # {}
    <3>1. ASSUME NEW b PROVE ~Pending(batch, pos, b)
      BY <2>1, <2>4 DEF Pending
    <3> QED
      BY <2>2, <3>1 DEF Armed
  <2> QED
    BY <2>3, <2>4 DEF RegistrationsMatch
<1> QED
  BY <1>1, LoopHolds, PTL
=============================================================================
