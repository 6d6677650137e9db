-------------------------- MODULE ConnLimitProofs ---------------------------
(***************************************************************************)
(* Proofs about ConnLimit: its invariants and limits for any number of     *)
(* sockets, addresses and limit values.                                    *)
(***************************************************************************)
EXTENDS ConnLimit, FiniteSetTheorems, SequenceTheorems, WellFoundedInduction,
        TLAPS

-----------------------------------------------------------------------------
(* The list operators.                                                     *)

(* Drop keeps a sequence a sequence, and says which element of the old one *)
(* stands where in the new one: in the same order, s left out.             *)
LEMMA DropIndex ==
    ASSUME NEW S, NEW l \in Seq(S), NEW s \in Elems(l)
    PROVE  LET i == IndexIn(l, s)
               d == Drop(l, s)
           IN  /\ i \in DOMAIN l /\ l[i] = s
               /\ d \in Seq(S)
               /\ DOMAIN d = 1 .. Len(l) - 1
               /\ \A j \in DOMAIN d : d[j] = IF j < i THEN l[j] ELSE l[j + 1]
<1> DEFINE i == IndexIn(l, s)
           d == Drop(l, s)
<1>1. \E k \in DOMAIN l : l[k] = s
  BY DEF Elems
<1>2. i \in DOMAIN l /\ l[i] = s
  BY <1>1 DEF IndexIn
<1>3. DOMAIN l = 1 .. Len(l) /\ Len(l) \in Nat /\ Len(l) >= 1
  BY <1>2
<1>4. d = [j \in 1 .. Len(l) - 1 |-> IF j < i THEN l[j] ELSE l[j + 1]]
  BY DEF Drop
<1> HIDE DEF i
<1>5. \A j \in 1 .. Len(l) - 1 : j \in DOMAIN l /\ j + 1 \in DOMAIN l
  BY <1>3
<1>6. \A j \in 1 .. Len(l) - 1 : d[j] \in S
  BY <1>4, <1>5, ElementOfSeq
<1>7. d \in Seq(S)
  BY <1>3, <1>4, <1>6, IsASeq
<1> QED
  BY <1>2, <1>4, <1>7 DEF i

(* Drop takes exactly s out of a sequence without repetitions.             *)
LEMMA DropElems ==
    ASSUME NEW S, NEW l \in Seq(S), NoRepeats(l), NEW s
    PROVE  /\ Drop(l, s) \in Seq(S)
           /\ Elems(Drop(l, s)) = Elems(l) \ {s}
           /\ NoRepeats(Drop(l, s))
<1>1. CASE s \notin Elems(l)
  BY <1>1 DEF Drop, Elems
<1>2. CASE s \in Elems(l)
  <2> DEFINE i == IndexIn(l, s)
             d == Drop(l, s)
  <2>1. /\ i \in DOMAIN l /\ l[i] = s /\ d \in Seq(S)
        /\ DOMAIN d = 1 .. Len(l) - 1
        /\ \A j \in DOMAIN d : d[j] = IF j < i THEN l[j] ELSE l[j + 1]
    BY <1>2, DropIndex
  <2>2. DOMAIN l = 1 .. Len(l) /\ Len(l) \in Nat
    OBVIOUS
  <2> HIDE DEF i, d
  <2>3. NoRepeats(d)
    BY <2>1, <2>2 DEF NoRepeats
  <2>4. \A x \in Elems(d) : x \in Elems(l) /\ x # s
    BY <2>1, <2>2 DEF Elems, NoRepeats
  <2>5. ASSUME NEW x \in Elems(l), x # s PROVE x \in Elems(d)
    <3>1. PICK k \in DOMAIN l : l[k] = x
      BY DEF Elems
    <3>2. CASE k < i
      BY <3>1, <3>2, <2>1, <2>2, k \in DOMAIN d, d[k] = x DEF Elems
    <3>3. CASE k > i
      <4>1. k - 1 \in DOMAIN d /\ d[k - 1] = x
        BY <3>1, <3>3, <2>1, <2>2
      <4> QED BY <4>1 DEF Elems
    <3> QED BY <3>1, <3>2, <3>3, <2>1, <2>2, <2>5
  <2> QED BY <2>1, <2>3, <2>4, <2>5 DEF d
<1> QED BY <1>1, <1>2

(* Appending a new element adds it and repeats nothing.                    *)
LEMMA AppendElems ==
    ASSUME NEW S, NEW l \in Seq(S), NEW s \in S
    PROVE  /\ Append(l, s) \in Seq(S)
           /\ Elems(Append(l, s)) = Elems(l) \cup {s}
           /\ NoRepeats(l) /\ s \notin Elems(l) => NoRepeats(Append(l, s))
<1>1. /\ Append(l, s) \in Seq(S) /\ Len(Append(l, s)) = Len(l) + 1
      /\ \A i \in 1 .. Len(l) : Append(l, s)[i] = l[i]
      /\ Append(l, s)[Len(l) + 1] = s
      /\ DOMAIN l = 1 .. Len(l) /\ DOMAIN Append(l, s) = 1 .. Len(l) + 1
      /\ Len(l) \in Nat
  OBVIOUS
<1> DEFINE a == Append(l, s)
<1> HIDE DEF a
<1>2. Elems(a) = Elems(l) \cup {s}
  <2>1. \A x \in Elems(a) : x \in Elems(l) \cup {s}
    BY <1>1 DEF a, Elems
  <2>2. \A x \in Elems(l) : x \in Elems(a)
    BY <1>1 DEF a, Elems
  <2>3. s \in Elems(a)
    BY <1>1, Len(l) + 1 \in DOMAIN a DEF a, Elems
  <2> QED BY <2>1, <2>2, <2>3
<1>3. NoRepeats(l) /\ s \notin Elems(l) => NoRepeats(a)
  BY <1>1 DEF a, Elems, NoRepeats
<1> QED BY <1>1, <1>2, <1>3 DEF a

(* Moving s to the end of any sequence gives a sequence again.             *)
LEMMA ToTailType ==
    ASSUME NEW S, NEW l \in Seq(S), NEW s \in S
    PROVE  ToTail(l, s) \in Seq(S) /\ Drop(l, s) \in Seq(S)
<1>1. Drop(l, s) \in Seq(S)
  BY DropIndex DEF Drop
<1> QED BY <1>1, AppendElems DEF ToTail

(* A nonempty set of naturals has a least element.                         *)
LEMMA NatMin ==
    ASSUME NEW D, D \subseteq Nat, D # {}
    PROVE  \E i \in D : \A j \in D : i <= j
<1> DEFINE R == OpToRel(<, Nat)
<1>1. PICK i \in D : \A j \in D : ~(<<j, i>> \in R)
  <2>1. IsWellFoundedOn(R, Nat)
    BY NatLessThanWellFounded
  <2> HIDE DEF R
  <2> QED BY <2>1, WFMin
<1>2. ASSUME NEW j \in D, j < i PROVE <<j, i>> \in R
  <2>1. <<j, i>> \in Nat \X Nat
    OBVIOUS
  <2>2. <<j, i>>[1] < <<j, i>>[2]
    BY <1>2
  <2> QED BY <2>1, <2>2 DEF OpToRel
<1> HIDE DEF R
<1>3. \A j \in D : ~(j < i)
  BY <1>1, <1>2, Zenon
<1>4. \A j \in D : i <= j
  BY <1>3
<1> QED BY <1>4

(* FirstOf finds a member of the set or nothing.                           *)
LEMMA FirstOfMember ==
    ASSUME NEW S, NEW l \in Seq(S), NEW T, NEW none,
           FirstOf(l, T, none) # none
    PROVE  FirstOf(l, T, none) \in T
<1> DEFINE D == {i \in DOMAIN l : l[i] \in T}
<1>1. D # {} /\ D \subseteq Nat
  <2>1. \E i \in DOMAIN l : l[i] \in T
    BY DEF FirstOf
  <2> QED BY <2>1
<1>2. PICK i \in D : \A j \in D : i <= j
  BY <1>1, NatMin
<1>3. \E k \in DOMAIN l : l[k] \in T /\ \A j \in DOMAIN l : l[j] \in T => k <= j
  BY <1>2
<1> QED BY <1>3 DEF FirstOf

-----------------------------------------------------------------------------
(* The inductive invariant.                                                *)

(* What the locals of a call and the place it has come to say about each   *)
(* other: the pin is held from Accept to the end of the call, room found   *)
(* for the address stays while room is made in total, and a handler that   *)
(* connects a backend holds no group.                                      *)
CallConsistent ==
    /\ pc \in {"loop", "shutdown"} => acc = NoCall
    /\ acc.who # NoSock => acc.key = NoKey
    /\ acc.key = NoKey => acc.limit = 0
    /\ pc = "admit" => acc.key # NoKey /\ acc.limit > 0
    /\ pc \in {"total", "scan", "room"} /\ acc.limit # 0 =>
          count[acc.key] < acc.limit
    /\ pc = "scan" => acc.total > 0
    /\ pc = "room" => \/ acc.total = 0
                      \/ cont.clients < acc.total
                      \/ cont.clients + 1 < acc.before

(* A client has a backend only once the proxy has connected it.            *)
BackendMode ==
    \A s \in Socks : backend[s] # NoSock => mode[s] \in {"proxyRun", "closing"}

IInv ==
    /\ TypeOK
    /\ ContainerConsistent
    /\ GroupsConsistent
    /\ CallerSurvives
    /\ CallConsistent
    /\ BackendMode

ContainerType ==
    [list : Seq(Socks), cursor : Socks \cup {NoSock}, clients : Nat]

(* The backends stand behind their clients in l.                           *)
Behind(b, l) == \A i, j \in DOMAIN l : b[l[i]] = l[j] => i < j

-----------------------------------------------------------------------------
(* One unlink: the list loses x, the cursor does not stay on it, and only  *)
(* a socket that is no listener is counted off.                            *)
LEMMA UnlinkEffect ==
    ASSUME NEW c \in ContainerType, NEW x \in Elems(c.list),
           NoRepeats(c.list), c.cursor \in Elems(c.list) \cup {NoSock}
    PROVE  LET u == sock_list_unlink(c, x)
           IN  /\ u = [list |-> u.list, cursor |-> u.cursor, clients |-> u.clients]
               /\ u.list = Drop(c.list, x)
               /\ u.list \in Seq(Socks)
               /\ NoRepeats(u.list)
               /\ Elems(u.list) = Elems(c.list) \ {x}
               /\ u.cursor \in Elems(u.list) \cup {NoSock}
               /\ u.clients = IF kind[x] = "server" THEN c.clients
                                                   ELSE c.clients - 1
<1> DEFINE u == sock_list_unlink(c, x)
           l == c.list
           i == IndexIn(l, x)
<1>1. l \in Seq(Socks)
  BY DEF ContainerType
<1>2. u = [list    |-> Drop(l, x),
           cursor  |-> IF c.cursor = x THEN NextIn(l, x, NoSock) ELSE c.cursor,
           clients |-> IF kind[x] = "server" THEN c.clients ELSE c.clients - 1]
  BY DEF sock_list_unlink
<1>3. Drop(l, x) \in Seq(Socks) /\ Elems(Drop(l, x)) = Elems(l) \ {x}
         /\ NoRepeats(Drop(l, x))
  BY <1>1, DropElems
<1>4. i \in DOMAIN l /\ l[i] = x
  BY <1>1, DropIndex
<1>5. NextIn(l, x, NoSock) \in (Elems(l) \ {x}) \cup {NoSock}
  <2>1. CASE i < Len(l)
    <3>1. i + 1 \in DOMAIN l /\ i + 1 # i
      BY <1>1, <1>4, <2>1
    <3>2. l[i + 1] \in Elems(l) /\ l[i + 1] # x
      BY <3>1, <1>4 DEF Elems, NoRepeats
    <3> QED BY <2>1, <3>2 DEF NextIn
  <2>2. CASE ~(i < Len(l))
    BY <2>2 DEF NextIn
  <2> QED BY <2>1, <2>2
<1> QED BY <1>2, <1>3, <1>5

(* Unlinking keeps the backends behind their clients.                      *)
LEMMA DropBehind ==
    ASSUME NEW l \in Seq(Socks), NEW x \in Elems(l), NEW b, Behind(b, l)
    PROVE  Behind(b, Drop(l, x))
<1> DEFINE i == IndexIn(l, x)
           d == Drop(l, x)
           f(j) == IF j < i THEN j ELSE j + 1
<1>1. /\ i \in DOMAIN l
      /\ DOMAIN d = 1 .. Len(l) - 1
      /\ \A j \in DOMAIN d : d[j] = IF j < i THEN l[j] ELSE l[j + 1]
  BY DropIndex
<1> HIDE DEF i, d
<1>2. \A j \in DOMAIN d : f(j) \in DOMAIN l /\ d[j] = l[f(j)]
  BY <1>1
<1>3. \A j, k \in DOMAIN d : f(j) < f(k) => j < k
  BY <1>1
<1>4. \A j, k \in DOMAIN d : b[d[j]] = d[k] => j < k
  BY <1>2, <1>3 DEF Behind
<1> QED BY <1>4 DEF Behind, d

(* The sockets counted by sock_list_clients are finitely many, and one of  *)
(* them less is one less.                                                  *)
LEMMA CountedCard ==
    ASSUME TypeOK
    PROVE  /\ IsFiniteSet(Counted)
           /\ Cardinality(Counted) \in Nat
           /\ \A s \in Counted : /\ IsFiniteSet(Counted \ {s})
                                 /\ Cardinality(Counted \ {s}) = Cardinality(Counted) - 1
                                 /\ Cardinality(Counted) >= 1
<1>1. Counted \subseteq Socks /\ IsFiniteSet(Socks)
  BY ConnLimitAssumption DEF Counted
<1>2. IsFiniteSet(Counted)
  BY <1>1, FS_Subset
<1>3. Cardinality(Counted) \in Nat
  BY <1>2, FS_CardinalityType
<1>4. \A s \in Counted : /\ IsFiniteSet(Counted \ {s})
                         /\ Cardinality(Counted \ {s}) = Cardinality(Counted) - 1
                         /\ Cardinality(Counted \ {s}) \in Nat
  BY <1>2, FS_RemoveElement, FS_CardinalityType
<1> QED BY <1>2, <1>3, <1>4

(* Closing a connection, together with its backend, keeps the container    *)
(* consistent; c differs from the container by the cursor at most.         *)
LEMMA CloseContainer ==
    ASSUME IInv, NEW s \in Live, kind[s] # "backend",
           NEW c \in ContainerType, c.list = cont.list,
           c.clients = cont.clients, c.cursor \in Live \cup {NoSock},
           WebserverConnectionManagerCloseRequest(s, c)
    PROVE  /\ kind' \in [Socks -> Kinds]
           /\ cont' \in ContainerType
           /\ lru' \in Seq(Socks)
           /\ mode' \in [Socks -> Modes]
           /\ pending' \in [Socks -> BOOLEAN]
           /\ backend' \in [Socks -> Socks \cup {NoSock}]
           /\ ContainerConsistent'
           /\ BackendMode'
           /\ cont'.clients <= cont.clients
<1> DEFINE b == backend[s]
           l == cont.list
           d == sock_list_unlink(c, s)
<1> USE ConnLimitAssumption
<1>0. /\ TypeOK /\ ContainerConsistent /\ BackendMode
      /\ s \in Socks /\ kind[s] \in {"server", "client"}
  BY DEF IInv, Live, Free, TypeOK, Kinds
<1>1. /\ d = [list |-> d.list, cursor |-> d.cursor, clients |-> d.clients]
      /\ d.list = Drop(l, s) /\ d.list \in Seq(Socks) /\ NoRepeats(d.list)
      /\ Elems(d.list) = Live \ {s}
      /\ d.cursor \in Elems(d.list) \cup {NoSock}
      /\ d.clients = IF kind[s] = "server" THEN cont.clients
                                          ELSE cont.clients - 1
  <2>1. /\ s \in Elems(c.list) /\ NoRepeats(c.list) /\ Elems(c.list) = Live
        /\ c.cursor \in Elems(c.list) \cup {NoSock}
    BY <1>0 DEF ContainerConsistent
  <2>2. /\ d = [list |-> d.list, cursor |-> d.cursor, clients |-> d.clients]
        /\ d.list = Drop(c.list, s) /\ d.list \in Seq(Socks) /\ NoRepeats(d.list)
        /\ Elems(d.list) = Elems(c.list) \ {s}
        /\ d.cursor \in Elems(d.list) \cup {NoSock}
        /\ d.clients = IF kind[s] = "server" THEN c.clients ELSE c.clients - 1
    BY <2>1, UnlinkEffect
  <2> HIDE DEF d
  <2> QED BY <2>1, <2>2
<1>2. Behind(backend, d.list)
  <2>1. Behind(backend, l) /\ l \in Seq(Socks) /\ s \in Elems(l)
    BY <1>0 DEF ContainerConsistent, Behind, TypeOK
  <2> QED BY <2>1, <1>1, DropBehind
<1>3. /\ IsFiniteSet(Counted) /\ cont.clients = Cardinality(Counted)
      /\ cont.clients \in Nat
      /\ kind[s] = "client" => s \in Counted /\ cont.clients >= 1
      /\ kind[s] = "client" => /\ IsFiniteSet(Counted \ {s})
                              /\ Cardinality(Counted \ {s}) = cont.clients - 1
      /\ kind[s] = "server" => Counted \ {s} = Counted
  BY <1>0, CountedCard DEF ContainerConsistent, TypeOK, Counted
<1>4. d.clients = Cardinality(Counted \ {s}) /\ d.clients \in Nat
         /\ d.clients <= cont.clients /\ IsFiniteSet(Counted \ {s})
  <2> HIDE DEF d
  <2>1. CASE kind[s] = "server"
    <3>1. Cardinality(Counted \ {s}) = Cardinality(Counted)
             /\ IsFiniteSet(Counted \ {s})
      BY <2>1, <1>3, Zenon
    <3>2. d.clients = cont.clients
      BY <2>1, <1>1
    <3> QED BY <3>1, <3>2, <1>3
  <2>2. CASE kind[s] = "client"
    BY <2>2, <1>1, <1>3
  <2> QED BY <1>0, <2>1, <2>2
<1>5. /\ lru' \in Seq(Socks)
      /\ mode' \in [Socks -> Modes]
      /\ pending' \in [Socks -> BOOLEAN]
  BY <1>0, ToTailType
     DEF WebserverConnectionManagerCloseRequest, TypeOK, Modes
<1>6. /\ kind' = [x \in Socks |-> IF x \in Released(s) THEN "free" ELSE kind[x]]
      /\ backend' = [x \in Socks |-> IF x = s \/ backend[x] = s
                                        THEN NoSock ELSE backend[x]]
      /\ mode' = [mode EXCEPT ![s] = "idle"]
      /\ cont' = IF b = NoSock THEN d ELSE sock_list_unlink(d, b)
  BY DEF WebserverConnectionManagerCloseRequest
<1>7. \A x \in Socks : backend[x] # s
  BY <1>0 DEF ContainerConsistent
<1>8. backend' = [x \in Socks |-> IF x = s THEN NoSock ELSE backend[x]]
  BY <1>6, <1>7
<1> HIDE DEF d
<1>9. CASE b = NoSock
  <2>1. cont' = d /\ kind' = [x \in Socks |-> IF x = s THEN "free" ELSE kind[x]]
          /\ backend' = backend
    BY <1>0, <1>6, <1>8, <1>9 DEF Released, TypeOK
  <2>2. Live' = Live \ {s} /\ Counted' = Counted \ {s}
    BY <2>1 DEF Live, Free, Counted
  <2>3. kind' \in [Socks -> Kinds] /\ backend' \in [Socks -> Socks \cup {NoSock}]
    BY <1>0, <2>1 DEF TypeOK, Kinds
  <2>4. cont' \in ContainerType
    BY <2>1, <1>1, <1>4 DEF ContainerType, Live
  <2>5. BackendMode'
    BY <1>0, <2>1, <1>6, <1>9 DEF BackendMode, TypeOK
  <2>6. \A x \in Socks : backend'[x] # NoSock =>
           kind'[x] = "client" /\ kind'[backend'[x]] = "backend"
    BY <1>0, <1>7, <1>9, <2>1 DEF ContainerConsistent, TypeOK
  <2>7. \A y \in Socks : kind'[y] = "backend" =>
           \E x \in Socks : backend'[x] = y
                              /\ \A z \in Socks : backend'[z] = y => z = x
    BY <1>0, <2>1 DEF ContainerConsistent
  <2>8. ContainerConsistent'
    BY <2>1, <2>2, <2>6, <2>7, <1>1, <1>2, <1>4 DEF ContainerConsistent, Behind
  <2> QED BY <2>1, <2>3, <2>4, <2>5, <2>8, <1>4, <1>5
<1>10. CASE b # NoSock
  <2> DEFINE e == sock_list_unlink(d, b)
  <2>1. b \in Socks /\ kind[b] = "backend" /\ kind[s] = "client" /\ b # s
           /\ b \in Elems(d.list) /\ d \in ContainerType
    BY <1>0, <1>1, <1>4, <1>10
       DEF ContainerConsistent, TypeOK, ContainerType, Live, Free
  <2>2. /\ e = [list |-> e.list, cursor |-> e.cursor, clients |-> e.clients]
        /\ e.list = Drop(d.list, b) /\ e.list \in Seq(Socks) /\ NoRepeats(e.list)
        /\ Elems(e.list) = Elems(d.list) \ {b}
        /\ e.cursor \in Elems(e.list) \cup {NoSock}
        /\ e.clients = d.clients - 1
    <3>1. NoRepeats(d.list) /\ d.cursor \in Elems(d.list) \cup {NoSock}
      BY <1>1, <1>4
    <3>2. /\ e = [list |-> e.list, cursor |-> e.cursor, clients |-> e.clients]
          /\ e.list = Drop(d.list, b) /\ e.list \in Seq(Socks) /\ NoRepeats(e.list)
          /\ Elems(e.list) = Elems(d.list) \ {b}
          /\ e.cursor \in Elems(e.list) \cup {NoSock}
          /\ e.clients = IF kind[b] = "server" THEN d.clients ELSE d.clients - 1
      <4> HIDE DEF d, b
      <4> QED BY <2>1, <3>1, UnlinkEffect, ZenonT(30)
    <3> HIDE DEF e
    <3> QED BY <2>1, <3>2
  <2>3. Behind(backend, e.list)
    BY <2>1, <2>2, <1>1, <1>2, DropBehind
  <2> HIDE DEF e
  <2>4. cont' = e /\ kind' = [x \in Socks |-> IF x \in {s, b} THEN "free" ELSE kind[x]]
    BY <1>6, <1>10, <2>1 DEF Released, e
  <2>5. Live' = Live \ {s, b} /\ Counted' = (Counted \ {s}) \ {b}
    BY <2>4 DEF Live, Free, Counted
  <2>6. b \in Counted \ {s}
    BY <2>1 DEF Counted
  <2>7. /\ Cardinality((Counted \ {s}) \ {b}) = d.clients - 1
        /\ Cardinality((Counted \ {s}) \ {b}) \in Nat
    <3> DEFINE T == Counted \ {s}
    <3>1. IsFiniteSet(T) /\ b \in T /\ Cardinality(T) = d.clients
      BY <2>6, <1>4
    <3> HIDE DEF T
    <3>2. IsFiniteSet(T \ {b}) /\ Cardinality(T \ {b}) = Cardinality(T) - 1
      BY <3>1, FS_RemoveElement
    <3>3. Cardinality(T \ {b}) \in Nat
      BY <3>2, FS_CardinalityType
    <3> QED BY <3>1, <3>2, <3>3 DEF T
  <2>8. kind' \in [Socks -> Kinds] /\ backend' \in [Socks -> Socks \cup {NoSock}]
    BY <1>0, <1>8, <2>4 DEF TypeOK, Kinds
  <2>9. cont' \in ContainerType /\ cont'.clients <= cont.clients
    BY <2>2, <2>4, <2>7, <1>1, <1>4, <1>3 DEF ContainerType, Live
  <2>10. BackendMode'
    BY <1>0, <1>8, <1>6 DEF BackendMode, TypeOK
  <2>11. \A x \in Socks : x # s => backend[x] # b
    BY <1>0, <2>1 DEF ContainerConsistent
  <2>12. \A x \in Socks : backend'[x] # NoSock =>
            kind'[x] = "client" /\ kind'[backend'[x]] = "backend"
    <3> SUFFICES ASSUME NEW x \in Socks, backend'[x] # NoSock
                 PROVE  kind'[x] = "client" /\ kind'[backend'[x]] = "backend"
      OBVIOUS
    <3>1. x # s /\ backend'[x] = backend[x]
      BY <1>8
    <3>2. kind[x] = "client" /\ kind[backend[x]] = "backend" /\ backend[x] # b
             /\ backend[x] # s /\ backend[x] \in Socks
      BY <3>1, <1>0, <1>7, <2>11 DEF ContainerConsistent, TypeOK
    <3> QED BY <3>1, <3>2, <2>1, <2>4
  <2>13. \A y \in Socks : kind'[y] = "backend" =>
            \E x \in Socks : backend'[x] = y
                              /\ \A z \in Socks : backend'[z] = y => z = x
    <3> SUFFICES ASSUME NEW y \in Socks, kind'[y] = "backend"
                 PROVE  \E x \in Socks : backend'[x] = y
                              /\ \A z \in Socks : backend'[z] = y => z = x
      OBVIOUS
    <3>1. y \notin {s, b} /\ kind[y] = "backend"
      BY <2>4
    <3>2. PICK x \in Socks : backend[x] = y
                              /\ \A z \in Socks : backend[z] = y => z = x
      BY <3>1, <1>0 DEF ContainerConsistent
    <3>3. x # s
      BY <3>1, <3>2
    <3>4. backend'[x] = y /\ \A z \in Socks : backend'[z] = y => z = x
      BY <3>2, <3>3, <1>8
    <3> QED BY <3>4
  <2>14. Behind(backend', e.list)
    <3>1. \A i, j \in DOMAIN e.list : backend'[e.list[i]] = e.list[j] =>
             backend[e.list[i]] = e.list[j]
      BY <2>2, <1>8
    <3> QED BY <3>1, <2>3 DEF Behind
  <2>15. ContainerConsistent'
    BY <2>2, <2>4, <2>5, <2>7, <2>12, <2>13, <2>14, <1>1
       DEF ContainerConsistent, Behind
  <2> QED BY <2>8, <2>9, <2>10, <2>15, <1>5
<1> QED BY <1>9, <1>10

(* The members of a group are finitely many; one more or one less counts.  *)
LEMMA MembersCard ==
    ASSUME NEW k \in Keys
    PROVE  /\ IsFiniteSet(Members(k))
           /\ Cardinality(Members(k)) \in Nat
           /\ \A s \in Members(k) :
                 /\ Cardinality(Members(k) \ {s}) = Cardinality(Members(k)) - 1
                 /\ Cardinality(Members(k)) >= 1
           /\ \A s \in Socks \ Members(k) :
                 Cardinality(Members(k) \cup {s}) = Cardinality(Members(k)) + 1
<1> DEFINE M == Members(k)
<1>1. M \subseteq Socks /\ IsFiniteSet(Socks)
  BY ConnLimitAssumption DEF Members
<1> HIDE DEF M
<1>2. IsFiniteSet(M)
  BY <1>1, FS_Subset
<1>3. Cardinality(M) \in Nat
  BY <1>2, FS_CardinalityType
<1>4. \A s \in M : /\ Cardinality(M \ {s}) = Cardinality(M) - 1
                   /\ Cardinality(M \ {s}) \in Nat
  BY <1>2, FS_RemoveElement, FS_CardinalityType
<1>5. \A s \in Socks \ M : Cardinality(M \cup {s}) = Cardinality(M) + 1
  BY <1>2, FS_AddElement
<1> QED BY <1>2, <1>3, <1>4, <1>5 DEF M

(* Closing a connection takes it out of its group, and the group out of    *)
(* the table exactly when nobody is left that refers to it.                *)
LEMMA CloseGroups ==
    ASSUME IInv, NEW s \in Live, kind[s] # "backend", connLimitDetach(s),
           kind' = [x \in Socks |-> IF x \in Released(s) THEN "free" ELSE kind[x]],
           acc'.key = acc.key
    PROVE  /\ group' \in [Socks -> Keys \cup {NoKey}]
           /\ table' \in SUBSET Keys
           /\ count' \in [Keys -> Nat]
           /\ pinned' \in [Keys -> Nat]
           /\ GroupsConsistent'
           /\ \A k \in Keys : count'[k] <= count[k]
<1> USE ConnLimitAssumption
<1>0. /\ TypeOK /\ ContainerConsistent /\ GroupsConsistent /\ s \in Socks
  BY DEF IInv, Live
<1>1. \A x \in Socks : x \in Released(s) /\ x # s => kind[x] = "backend"
  BY <1>0 DEF Released, ContainerConsistent
<1>2. \A x \in Socks : group[x] # NoKey /\ x # s => kind'[x] = "client"
  BY <1>0, <1>1 DEF GroupsConsistent
<1>3. CASE group[s] = NoKey
  <2>1. UNCHANGED groupVars
    BY <1>3 DEF connLimitDetach
  <2>2. \A k : Members(k)' = Members(k)
    BY <2>1 DEF Members, groupVars
  <2>3. \A x \in Socks : group'[x] # NoKey => kind'[x] = "client"
    BY <1>2, <1>3, <2>1 DEF groupVars
  <2>4. GroupsConsistent'
    BY <1>0, <2>1, <2>2, <2>3 DEF GroupsConsistent, groupVars
  <2> QED BY <1>0, <2>1, <2>4 DEF TypeOK, groupVars
<1>4. CASE group[s] # NoKey
  <2>0. PICK g \in Keys : g = group[s]
    BY <1>0, <1>4 DEF TypeOK
  <2>1. /\ group' = [group EXCEPT ![s] = NoKey]
        /\ count' = [count EXCEPT ![g] = @ - 1]
        /\ table' = IF count[g] = 1 /\ pinned[g] = 0 THEN table \ {g} ELSE table
        /\ pinned' = pinned
    BY <1>4, <2>0 DEF connLimitDetach
  <2>2. g \in Keys /\ s \in Members(g)
    BY <1>0, <2>0 DEF TypeOK, Members
  <2>3. /\ count[g] = Cardinality(Members(g)) /\ count[g] \in Nat
        /\ count[g] >= 1
        /\ Cardinality(Members(g) \ {s}) = count[g] - 1
    BY <1>0, <2>2, MembersCard DEF GroupsConsistent
  <2>4. Members(g)' = Members(g) \ {s}
    BY <1>0, <2>1, <2>2 DEF Members, TypeOK
  <2>5. \A k \in Keys \ {g} : Members(k)' = Members(k)
    BY <1>0, <2>0, <2>1 DEF Members, TypeOK
  <2>6. /\ count' \in [Keys -> Nat]
        /\ count'[g] = count[g] - 1
        /\ \A k \in Keys \ {g} : count'[k] = count[k]
    BY <1>0, <2>1, <2>2, <2>3 DEF TypeOK
  <2>7. ASSUME NEW k \in Keys PROVE count'[k] = Cardinality(Members(k)')
    <3>1. CASE k = g
      BY <3>1, <2>3, <2>4, <2>6
    <3>2. CASE k # g
      BY <3>2, <2>5, <2>6, <1>0 DEF GroupsConsistent
    <3> QED BY <3>1, <3>2
  <2>8. ASSUME NEW k \in Keys PROVE k \in table' <=> count'[k] + pinned'[k] > 0
    <3>1. pinned[k] \in Nat /\ count[k] \in Nat /\ (k \in table <=> count[k] + pinned[k] > 0)
      BY <1>0 DEF TypeOK, GroupsConsistent
    <3>2. CASE k = g
      BY <3>1, <3>2, <2>1, <2>3, <2>6
    <3>3. CASE k # g
      BY <3>1, <3>3, <2>1, <2>6
    <3> QED BY <3>2, <3>3
  <2>9. \A x \in Socks : group'[x] # NoKey => kind'[x] = "client"
    BY <1>0, <1>2, <2>1 DEF TypeOK
  <2>10. \A k \in Keys : pinned'[k] = IF acc'.key = k THEN 1 ELSE 0
    BY <1>0, <2>1 DEF GroupsConsistent
  <2>11. GroupsConsistent'
    BY <2>7, <2>8, <2>9, <2>10 DEF GroupsConsistent
  <2> QED BY <1>0, <2>1, <2>6, <2>11, <2>2, <2>3 DEF TypeOK
<1> QED BY <1>3, <1>4

-----------------------------------------------------------------------------
(* The victims, and the cursor of the walk.                                *)

(* Every socket the walk comes to is one in use.                           *)
LEMMA AtLive ==
    ASSUME TypeOK, ContainerConsistent, cont.clients > 0, NEW n \in Nat
    PROVE  At(n) \in Live
<1> DEFINE l == cont.list
<1>1. l \in Seq(Socks) /\ cont.clients \in Nat
  BY DEF TypeOK
<1>2. Counted # {}
  BY CountedCard, FS_EmptySet DEF ContainerConsistent
<1>3. Len(l) \in Nat /\ Len(l) > 0 /\ DOMAIN l = 1 .. Len(l)
  <2>1. Elems(l) # {}
    BY <1>2 DEF ContainerConsistent, Counted, Live, Free
  <2> QED BY <1>1, <2>1 DEF Elems
<1>4. ScanStart \in 1 .. Len(l)
  <2>1. CASE cont.cursor = NoSock
    BY <1>3, <2>1 DEF ScanStart
  <2>2. CASE cont.cursor # NoSock
    <3>1. cont.cursor \in Elems(l)
      BY <2>2 DEF ContainerConsistent
    <3>2. IndexIn(l, cont.cursor) \in DOMAIN l
      BY <1>1, <3>1, DropIndex
    <3> QED BY <1>3, <2>2, <3>2 DEF ScanStart
  <2> QED BY <2>1, <2>2
<1>5. ((ScanStart - 1 + n) % Len(l)) + 1 \in 1 .. Len(l)
  <2>1. ScanStart - 1 + n \in Nat
    BY <1>3, <1>4
  <2>2. \A a \in Nat, b \in Nat : b > 0 => (a % b) \in 0 .. b - 1
    OBVIOUS
  <2>3. (ScanStart - 1 + n) % Len(l) \in 0 .. Len(l) - 1
    BY <1>3, <2>1, <2>2
  <2> QED BY <1>3, <2>3
<1>6. At(n) \in Elems(l)
  BY <1>3, <1>5 DEF At, Elems
<1> QED BY <1>6 DEF ContainerConsistent

(* The walk ends: after the last step at the latest.                       *)
LEMMA WalkedNat ==
    ASSUME TypeOK
    PROVE  Walked \in Nat
<1> DEFINE last    == cont.clients + ScanSlack
           done(n) == \/ n = last
                      \/ Cardinality(Seen(n)) >= 2 * Window
                      \/ Cardinality(Seen(n)) >= Window /\ SeenIdle(n) # {}
           D       == {n \in 0 .. last : done(n)}
<1>1. last \in Nat
  BY ConnLimitAssumption DEF TypeOK
<1>2. D \subseteq Nat /\ last \in D
  BY <1>1
<1>3. PICK n \in D : \A m \in D : n <= m
  BY <1>2, NatMin
<1>4. n \in 0 .. last /\ done(n) /\ \A m \in 0 .. n - 1 : ~done(m)
  <2>1. \A m \in 0 .. n - 1 : m \in 0 .. last /\ ~(n <= m)
    BY <1>1, <1>3
  <2> HIDE DEF last
  <2> QED BY <1>3, <2>1
<1>5. Walked = CHOOSE m \in 0 .. last : done(m) /\ \A i \in 0 .. m - 1 : ~done(i)
  BY DEF Walked
<1>6. Walked \in 0 .. last
  <2> HIDE DEF last, done
  <2> QED BY <1>4, <1>5
<1> QED BY <1>1, <1>6

(* Moving the cursor of the scan leaves it on a socket in use.             *)
LEMMA MovedCursor ==
    ASSUME TypeOK, ContainerConsistent, cont.clients > 0
    PROVE  /\ Moved \in ContainerType
           /\ Moved.list = cont.list
           /\ Moved.clients = cont.clients
           /\ Moved.cursor \in Live
<1>1. At(Walked) \in Live
  BY WalkedNat, AtLive
<1>2. At(Walked) \in Socks
  BY <1>1 DEF Live
<1> QED BY <1>1, <1>2 DEF Moved, ContainerType, TypeOK

(* A victim of its address is a connection that may go.                    *)
LEMMA AddressVictim ==
    ASSUME TypeOK, NEW k, connLimitPickVictim(k) # NoSock
    PROVE  connLimitPickVictim(k) \in Socks /\ connLimitIsEvictable(connLimitPickVictim(k))
<1> DEFINE T == {s \in Members(k) : connLimitIsEvictable(s)}
<1>1. FirstOf(lru, T, NoSock) \in T
  <2>1. lru \in Seq(Socks) /\ FirstOf(lru, T, NoSock) # NoSock
    BY DEF TypeOK, connLimitPickVictim
  <2> HIDE DEF T
  <2> QED BY <2>1, FirstOfMember
<1> QED BY <1>1 DEF connLimitPickVictim, Members

(* So is a victim of the global scan.                                      *)
LEMMA GlobalVictim ==
    ASSUME TypeOK, ContainerConsistent, cont.clients > 0,
           connLimitPickGlobalVictim # NoSock
    PROVE  /\ connLimitPickGlobalVictim \in Socks
           /\ connLimitIsEvictable(connLimitPickGlobalVictim)
<1>1. connLimitPickGlobalVictim \in SeenIdle(Walked)
  BY FirstOfMember DEF TypeOK, connLimitPickGlobalVictim
<1>2. PICK m \in Seen(Walked) :
         connLimitPickGlobalVictim = At(m) /\ connLimitIsEvictable(At(m))
  BY <1>1 DEF SeenIdle
<1>3. m \in Nat
  BY <1>2, WalkedNat DEF Seen
<1>4. At(m) \in Socks
  BY <1>3, AtLive DEF Live
<1> QED BY <1>2, <1>4

-----------------------------------------------------------------------------
(* The steps.                                                              *)

(* What keeps the list, the backends and the number of clients, and puts   *)
(* the cursor on a socket in use, keeps the container consistent.          *)
LEMMA ContainerFrame ==
    ASSUME ContainerConsistent, UNCHANGED <<kind, backend>>,
           cont'.list = cont.list, cont'.clients = cont.clients,
           cont'.cursor \in Live \cup {NoSock}
    PROVE  ContainerConsistent'
BY DEF ContainerConsistent, Live, Free, Counted

(* What keeps the groups and their pin keeps them consistent.              *)
LEMMA GroupsFrame ==
    ASSUME GroupsConsistent, UNCHANGED <<kind, group, table, count, pinned>>,
           acc'.key = acc.key
    PROVE  GroupsConsistent'
BY DEF GroupsConsistent, Members

(* The invariant holds of the empty container with its listener.           *)
LEMMA InitIInv == Init => IInv
<1> SUFFICES ASSUME Init PROVE IInv
  OBVIOUS
<1> USE ConnLimitAssumption
<1>1. /\ kind = [s \in Socks |-> IF s = Listener THEN "server" ELSE "free"]
      /\ cont = [list |-> <<Listener>>, cursor |-> NoSock, clients |-> 0]
      /\ backend = [s \in Socks |-> NoSock]
      /\ group = [s \in Socks |-> NoKey]
      /\ table = {} /\ acc = NoCall /\ pc = "loop"
      /\ count = [k \in Keys |-> 0] /\ pinned = [k \in Keys |-> 0]
  BY DEF Init
<1>2. NoCall \in CallType
  BY DEF NoCall, CallType
<1>3. TypeOK
  BY <1>2 DEF Init, TypeOK, Kinds, Modes
<1>4. Cardinality({}) = 0
  BY FS_EmptySet
<1>5. ContainerConsistent
  <2>1. Live = {Listener} /\ Counted = {}
    BY <1>1 DEF Live, Free, Counted
  <2>2. Elems(cont.list) = {Listener} /\ NoRepeats(cont.list)
    BY <1>1 DEF Elems, NoRepeats
  <2> QED BY <1>1, <1>4, <2>1, <2>2 DEF ContainerConsistent
<1>6. GroupsConsistent
  <2>1. \A k \in Keys : Members(k) = {}
    BY <1>1 DEF Members
  <2> QED BY <1>1, <1>4, <2>1 DEF GroupsConsistent, NoCall
<1>7. CallerSurvives /\ CallConsistent /\ BackendMode
  BY <1>1 DEF CallerSurvives, CallConsistent, BackendMode, NoCall
<1> QED BY <1>3, <1>5, <1>6, <1>7 DEF IInv

(* Closing any client or listener but the one whose handler runs keeps the *)
(* invariant, and no counter grows.                                        *)
LEMMA CloseStep ==
    ASSUME IInv, NEW s \in Live, kind[s] # "backend", acc.who # s,
           NEW c \in ContainerType, c.list = cont.list,
           c.clients = cont.clients, c.cursor \in Live \cup {NoSock},
           WebserverConnectionManagerCloseRequest(s, c),
           UNCHANGED <<maxPer, maxTotal, pc>>, acc' \in CallType,
           \/ UNCHANGED acc
           \/ pc = "scan" /\ acc' = [acc EXCEPT !.tries = @ + 1]
    PROVE  /\ IInv'
           /\ cont'.clients <= cont.clients
           /\ \A k \in Keys : count'[k] <= count[k]
<1> USE ConnLimitAssumption
<1>0. IInv /\ TypeOK /\ ContainerConsistent /\ CallerSurvives /\ CallConsistent
  BY DEF IInv
<1>1. /\ acc'.key = acc.key /\ acc'.limit = acc.limit /\ acc'.who = acc.who
      /\ acc'.total = acc.total /\ acc'.before = acc.before
      /\ pc \in {"loop", "shutdown"} => acc' = acc
  BY <1>0 DEF TypeOK, CallType
<1>2. /\ kind' = [x \in Socks |-> IF x \in Released(s) THEN "free" ELSE kind[x]]
      /\ mode' = [mode EXCEPT ![s] = "idle"]
      /\ connLimitDetach(s)
  BY DEF WebserverConnectionManagerCloseRequest
<1>3. /\ kind' \in [Socks -> Kinds]
      /\ cont' \in ContainerType
      /\ lru' \in Seq(Socks)
      /\ mode' \in [Socks -> Modes]
      /\ pending' \in [Socks -> BOOLEAN]
      /\ backend' \in [Socks -> Socks \cup {NoSock}]
      /\ ContainerConsistent'
      /\ BackendMode'
      /\ cont'.clients <= cont.clients
  BY CloseContainer
<1>4. /\ group' \in [Socks -> Keys \cup {NoKey}]
      /\ table' \in SUBSET Keys
      /\ count' \in [Keys -> Nat]
      /\ pinned' \in [Keys -> Nat]
      /\ GroupsConsistent'
      /\ \A k \in Keys : count'[k] <= count[k]
  BY <1>1, <1>2, CloseGroups
<1>5. TypeOK'
  BY <1>0, <1>3, <1>4 DEF TypeOK, ContainerType
<1>6. CallerSurvives'
  <2> SUFFICES ASSUME acc.who # NoSock
               PROVE  kind'[acc.who] = "client" /\ mode'[acc.who] = "proxyConnect"
    BY <1>1 DEF CallerSurvives
  <2>1. acc.who \in Socks /\ kind[acc.who] = "client" /\ mode[acc.who] = "proxyConnect"
    BY <1>0 DEF CallerSurvives, TypeOK, CallType
  <2>2. acc.who \notin Released(s)
    BY <1>0, <2>1 DEF Released, ContainerConsistent, Live
  <2> QED BY <1>0, <1>2, <2>1, <2>2 DEF TypeOK
<1>7. CallConsistent'
  <2>1. cont.clients \in Nat /\ cont'.clients \in Nat /\ acc.total \in Nat
           /\ acc.before \in Nat /\ acc.limit \in Nat
           /\ acc.key \in Keys \cup {NoKey}
    BY <1>0, <1>3 DEF TypeOK, ContainerType, CallType
  <2>2. acc.key \in Keys => count'[acc.key] <= count[acc.key]
           /\ count'[acc.key] \in Nat /\ count[acc.key] \in Nat
    BY <1>0, <1>4 DEF TypeOK
  <2>3. pc \in {"total", "scan", "room"} /\ acc.limit # 0 => count'[acc.key] < acc.limit
    BY <1>0, <2>1, <2>2 DEF CallConsistent
  <2>4. pc = "room" => \/ acc.total = 0
                       \/ cont'.clients < acc.total
                       \/ cont'.clients + 1 < acc.before
    BY <1>0, <1>3, <2>1 DEF CallConsistent
  <2> QED BY <1>0, <1>1, <2>3, <2>4 DEF CallConsistent
<1> QED BY <1>3, <1>4, <1>5, <1>6, <1>7 DEF IInv

(* Steps of handleServer() up to the check of the total.                   *)
LEMMA AcceptStep ==
    ASSUME IInv, NEW k \in Keys \cup {NoKey}, Accept(k)
    PROVE  IInv' /\ UNCHANGED <<cont, group>> /\ \A g \in Keys : count'[g] <= count[g]
<1> USE ConnLimitAssumption
<1>0. /\ TypeOK /\ ContainerConsistent /\ GroupsConsistent /\ CallConsistent
      /\ BackendMode
  BY DEF IInv
<1>1. /\ pc = "loop" /\ acc = NoCall
      /\ acc' = [NoCall EXCEPT !.key = k, !.limit = IF k = NoKey THEN 0 ELSE maxPer]
      /\ pc' = IF k = NoKey \/ maxPer = 0 THEN "total" ELSE "admit"
      /\ UNCHANGED <<kind, cont, lru, mode, pending, backend, group, maxPer, maxTotal>>
  BY <1>0 DEF Accept, sockVars, CallConsistent
<1>2. maxPer \in Nat
  BY <1>0 DEF TypeOK
<1>3. /\ acc' \in CallType /\ acc'.key = k /\ acc'.who = NoSock
      /\ acc'.limit = IF k = NoKey THEN 0 ELSE maxPer
      /\ acc'.total = 0
  BY <1>1, <1>2 DEF NoCall, CallType
<1>4. \A g \in Keys : /\ pinned[g] = 0 /\ count[g] \in Nat
                      /\ g \in table <=> count[g] > 0
  BY <1>0, <1>1 DEF GroupsConsistent, NoCall, TypeOK
<1>5. /\ count' = count /\ table' \in SUBSET Keys /\ pinned' \in [Keys -> Nat]
      /\ \A g \in Keys : pinned'[g] = IF k = g THEN 1 ELSE 0
      /\ \A g \in Keys : g \in table' <=> count'[g] + pinned'[g] > 0
  <2>1. CASE k = NoKey
    BY <1>0, <1>4, <2>1 DEF Accept, TypeOK
  <2>2. CASE k # NoKey
    <3>1. k \in Keys
      BY <2>2
    <3>2. /\ table' = table \cup {k}
          /\ count' = [count EXCEPT ![k] = IF k \in table THEN @ ELSE 0]
          /\ pinned' = [pinned EXCEPT ![k] = IF k \in table THEN @ + 1 ELSE 1]
      BY <2>2 DEF Accept
    <3>3. count' = count
      BY <1>0, <1>4, <3>1, <3>2 DEF TypeOK
    <3>4. pinned' \in [Keys -> Nat] /\ table' \in SUBSET Keys
      BY <1>0, <1>4, <3>1, <3>2 DEF TypeOK
    <3>5. \A g \in Keys : pinned'[g] = IF k = g THEN 1 ELSE 0
      BY <1>0, <1>4, <3>1, <3>2 DEF TypeOK
    <3> QED BY <1>4, <3>2, <3>3, <3>4, <3>5
  <2> QED BY <2>1, <2>2
<1>6. TypeOK'
  BY <1>0, <1>1, <1>3, <1>5 DEF TypeOK
<1>7. GroupsConsistent'
  BY <1>0, <1>1, <1>3, <1>5 DEF GroupsConsistent, Members
<1>8. ContainerConsistent' /\ BackendMode'
  BY <1>0, <1>1 DEF ContainerConsistent, BackendMode, Live, Free, Counted
<1>9. CallerSurvives' /\ CallConsistent'
  BY <1>1, <1>2, <1>3 DEF CallerSurvives, CallConsistent
<1>10. \A g \in Keys : count'[g] <= count[g]
  BY <1>4, <1>5
<1> QED BY <1>1, <1>6, <1>7, <1>8, <1>9, <1>10 DEF IInv

(* The end of a call without a new connection gives the pin back, and the  *)
(* group leaves the table when that was all that held it.                  *)
LEMMA ReleaseGroups ==
    ASSUME TypeOK, GroupsConsistent, connLimitRelease(acc.key),
           acc'.key = NoKey, UNCHANGED <<kind, group, count>>
    PROVE  /\ table' \in SUBSET Keys
           /\ pinned' \in [Keys -> Nat]
           /\ GroupsConsistent'
<1> USE ConnLimitAssumption
<1>1. acc.key \in Keys \cup {NoKey}
  BY DEF TypeOK, CallType
<1>2. CASE acc.key = NoKey
  <2>1. UNCHANGED <<table, pinned>>
    BY <1>2 DEF connLimitRelease
  <2> QED BY <1>2, <2>1, GroupsFrame DEF TypeOK
<1>3. CASE acc.key # NoKey
  <2>1. PICK g \in Keys : g = acc.key
    BY <1>1, <1>3
  <2>2. /\ pinned' = [pinned EXCEPT ![g] = @ - 1]
        /\ table' = IF pinned[g] = 1 /\ count[g] = 0 THEN table \ {g} ELSE table
        /\ pinned[g] = 1 /\ count[g] \in Nat
    BY <1>3, <2>1 DEF connLimitRelease, GroupsConsistent, TypeOK
  <2>3. /\ pinned' \in [Keys -> Nat] /\ table' \in SUBSET Keys
        /\ pinned'[g] = 0 /\ \A k \in Keys \ {g} : pinned'[k] = pinned[k]
    BY <2>2 DEF TypeOK
  <2>4. \A k \in Keys : pinned'[k] = 0
    BY <2>1, <2>3 DEF GroupsConsistent
  <2>5. ASSUME NEW k \in Keys PROVE k \in table' <=> count'[k] + pinned'[k] > 0
    <3>1. /\ count'[k] = count[k] /\ count[k] \in Nat /\ pinned'[k] = 0
          /\ pinned[k] \in Nat /\ (k \in table <=> count[k] + pinned[k] > 0)
      BY <2>4 DEF GroupsConsistent, TypeOK
    <3>2. CASE k = g
      BY <3>1, <3>2, <2>2
    <3>3. CASE k # g
      BY <3>1, <3>3, <2>2, <2>3
    <3> QED BY <3>2, <3>3
  <2>6. \A k \in Keys : count'[k] = Cardinality(Members(k)')
    BY DEF GroupsConsistent, Members
  <2>7. \A k \in Keys : pinned'[k] = IF acc'.key = k THEN 1 ELSE 0
    BY <2>4
  <2>8. \A x \in Socks : group'[x] # NoKey => kind'[x] = "client"
    BY DEF GroupsConsistent
  <2> QED BY <2>3, <2>5, <2>6, <2>7, <2>8 DEF GroupsConsistent
<1> QED BY <1>2, <1>3

(* No call in progress.                                                    *)
LEMMA NoCallType == NoCall \in CallType
BY ConnLimitAssumption DEF NoCall, CallType

(* Steps of conn_limit_admit() that close nothing.                         *)
LEMMA AdmitSteps ==
    ASSUME IInv, AdmitSpare \/ AdmitOk \/ AdmitRefuse
    PROVE  IInv' /\ UNCHANGED <<cont, count>>
<1> USE ConnLimitAssumption
<1>0. /\ TypeOK /\ ContainerConsistent /\ GroupsConsistent /\ CallerSurvives
      /\ CallConsistent /\ BackendMode
  BY DEF IInv
<1>1. CASE AdmitSpare
  <2>1. PICK v : v = connLimitPickVictim(acc.key)
    OBVIOUS
  <2>2. v # NoSock /\ lru' = ToTail(lru, v) /\ acc' = [acc EXCEPT !.noted = @ \cup {v}]
    BY <1>1, <2>1 DEF AdmitSpare, AdmitStops
  <2>3. v \in Socks
    BY <1>0, <2>1, <2>2, AddressVictim
  <2>4. lru' \in Seq(Socks)
    BY <1>0, <2>2, <2>3, ToTailType DEF TypeOK
  <2>5. /\ acc' \in CallType /\ acc'.key = acc.key /\ acc'.limit = acc.limit
        /\ acc'.who = acc.who /\ acc'.total = acc.total /\ acc'.before = acc.before
    BY <1>0, <2>2, <2>3 DEF TypeOK, CallType
  <2>6. /\ UNCHANGED <<kind, cont, mode, pending, backend, maxPer, maxTotal, pc>>
        /\ UNCHANGED <<group, table, count, pinned>>
        /\ pc = "admit"
    BY <1>1 DEF AdmitSpare, groupVars
  <2>7. TypeOK'
    BY <1>0, <2>4, <2>5, <2>6 DEF TypeOK
  <2>8. ContainerConsistent' /\ GroupsConsistent'
    BY <1>0, <2>5, <2>6, ContainerFrame, GroupsFrame DEF ContainerConsistent
  <2>9. CallerSurvives' /\ CallConsistent' /\ BackendMode'
    BY <1>0, <2>5, <2>6 DEF CallerSurvives, CallConsistent, BackendMode
  <2> QED BY <2>6, <2>7, <2>8, <2>9 DEF IInv
<1>2. CASE AdmitOk
  <2>1. /\ UNCHANGED <<kind, cont, lru, mode, pending, backend, maxPer, maxTotal, acc>>
        /\ UNCHANGED <<group, table, count, pinned>>
        /\ pc = "admit" /\ pc' = "total" /\ count[acc.key] < acc.limit
    BY <1>2 DEF AdmitOk, groupVars, sockVars
  <2>2. TypeOK'
    BY <1>0, <2>1 DEF TypeOK
  <2>3. ContainerConsistent' /\ GroupsConsistent'
    BY <1>0, <2>1, ContainerFrame, GroupsFrame DEF ContainerConsistent
  <2>4. CallerSurvives' /\ CallConsistent' /\ BackendMode'
    BY <1>0, <2>1 DEF CallerSurvives, CallConsistent, BackendMode
  <2> QED BY <2>1, <2>2, <2>3, <2>4 DEF IInv
<1>3. CASE AdmitRefuse
  <2>1. /\ UNCHANGED <<kind, cont, lru, mode, pending, backend, group, count,
                      maxPer, maxTotal>>
        /\ pc' = "loop" /\ acc' = NoCall /\ connLimitRelease(acc.key)
        /\ acc'.key = NoKey
    BY <1>3 DEF AdmitRefuse, sockVars, NoCall
  <2>2. /\ table' \in SUBSET Keys
        /\ pinned' \in [Keys -> Nat]
        /\ GroupsConsistent'
    BY <1>0, <2>1, ReleaseGroups
  <2>3. TypeOK'
    BY <1>0, <2>1, <2>2, NoCallType DEF TypeOK
  <2>4. ContainerConsistent'
    BY <1>0, <2>1, ContainerFrame DEF ContainerConsistent
  <2>5. CallerSurvives' /\ CallConsistent' /\ BackendMode'
    BY <1>0, <2>1 DEF CallerSurvives, CallConsistent, BackendMode, NoCall
  <2> QED BY <2>1, <2>2, <2>3, <2>4, <2>5 DEF IInv
<1> QED BY <1>1, <1>2, <1>3

(* Steps of connLimitEnsureTotalRoom().                                    *)
LEMMA TotalCheckStep ==
    ASSUME IInv, TotalCheck
    PROVE  IInv' /\ UNCHANGED <<cont, count>>
<1> USE ConnLimitAssumption
<1>0. /\ TypeOK /\ ContainerConsistent /\ GroupsConsistent /\ CallerSurvives
      /\ CallConsistent /\ BackendMode
  BY DEF IInv
<1>1. /\ UNCHANGED <<kind, cont, lru, mode, pending, backend, maxPer, maxTotal>>
      /\ UNCHANGED <<group, table, count, pinned>>
      /\ pc = "total"
      /\ pc' = IF maxTotal = 0 \/ cont.clients < maxTotal THEN "room" ELSE "scan"
      /\ acc' = [acc EXCEPT !.total = maxTotal, !.before = cont.clients, !.tries = 0]
  BY DEF TotalCheck, groupVars, sockVars
<1>2. maxTotal \in Nat /\ cont.clients \in Nat
  BY <1>0 DEF TypeOK
<1>3. /\ acc' \in CallType /\ acc'.key = acc.key /\ acc'.limit = acc.limit
      /\ acc'.who = acc.who /\ acc'.total = maxTotal
  BY <1>0, <1>1, <1>2 DEF TypeOK, CallType
<1>4. TypeOK'
  BY <1>0, <1>1, <1>3 DEF TypeOK
<1>5. ContainerConsistent' /\ GroupsConsistent'
  BY <1>0, <1>1, <1>3, ContainerFrame, GroupsFrame DEF ContainerConsistent
<1>6. CallerSurvives' /\ BackendMode'
  BY <1>0, <1>1, <1>3 DEF CallerSurvives, BackendMode
<1>7. CallConsistent'
  BY <1>0, <1>1, <1>2, <1>3 DEF CallConsistent
<1> QED BY <1>1, <1>4, <1>5, <1>6, <1>7 DEF IInv

(* While the loop of the scan goes on there are clients to look at.        *)
LEMMA ScanHasClients ==
    ASSUME IInv, pc = "scan", ScanGoesOn
    PROVE  cont.clients > 0
<1>1. cont.clients \in Nat /\ acc.total \in Nat
  BY DEF IInv, TypeOK, CallType
<1> QED BY <1>1 DEF IInv, CallConsistent, ScanGoesOn

(* One more try changes nothing else in the locals of the call.            *)
LEMMA TriesStep ==
    ASSUME NEW a \in CallType, NEW b, b = [a EXCEPT !.tries = @ + 1]
    PROVE  /\ b \in CallType /\ b.key = a.key /\ b.limit = a.limit
           /\ b.who = a.who /\ b.total = a.total /\ b.before = a.before
<1>1. a.tries + 1 \in Nat
  BY DEF CallType
<1>2. b = [a EXCEPT !.tries = a.tries + 1]
  OBVIOUS
<1> DEFINE t == a.tries + 1
<1> HIDE DEF t
<1>3. b = [a EXCEPT !.tries = t] /\ t \in Nat
  BY <1>1, <1>2 DEF t
<1> QED BY <1>3 DEF CallType

(* A victim of the global scan that has input waiting is left alone.       *)
LEMMA ScanSpareStep ==
    ASSUME IInv, ScanSpare
    PROVE  IInv' /\ cont'.clients = cont.clients /\ UNCHANGED count
<1> USE ConnLimitAssumption
<1>0. /\ TypeOK /\ ContainerConsistent /\ GroupsConsistent /\ CallerSurvives
      /\ CallConsistent /\ BackendMode
  BY DEF IInv
<1>1. cont.clients > 0
  BY ScanHasClients DEF ScanSpare
<1>2. PICK v : v = connLimitPickGlobalVictim
  OBVIOUS
<1>3. /\ v # NoSock /\ lru' = ToTail(lru, v) /\ cont' = Moved
      /\ acc' = [acc EXCEPT !.tries = @ + 1]
      /\ UNCHANGED <<kind, mode, pending, backend, maxPer, maxTotal, pc>>
      /\ UNCHANGED <<group, table, count, pinned>>
      /\ pc = "scan"
  BY <1>2 DEF ScanSpare, groupVars
<1>4. v \in Socks
  BY <1>0, <1>1, <1>2, <1>3, GlobalVictim
<1>5. lru' \in Seq(Socks)
  BY <1>0, <1>3, <1>4, ToTailType DEF TypeOK
<1>6. /\ cont' \in ContainerType /\ cont'.list = cont.list
      /\ cont'.clients = cont.clients /\ cont'.cursor \in Live
  BY <1>0, <1>1, <1>3, MovedCursor
<1>7. /\ acc' \in CallType /\ acc'.key = acc.key /\ acc'.limit = acc.limit
      /\ acc'.who = acc.who /\ acc'.total = acc.total /\ acc'.before = acc.before
  BY <1>0, <1>3, TriesStep DEF TypeOK
<1>8. TypeOK'
  BY <1>0, <1>3, <1>5, <1>6, <1>7 DEF TypeOK, ContainerType
<1>9. ContainerConsistent' /\ GroupsConsistent'
  BY <1>0, <1>3, <1>6, <1>7, ContainerFrame, GroupsFrame
<1>10. CallerSurvives' /\ BackendMode' /\ CallConsistent'
  BY <1>0, <1>3, <1>6, <1>7 DEF CallerSurvives, BackendMode, CallConsistent
<1> QED BY <1>3, <1>6, <1>8, <1>9, <1>10 DEF IInv

(* The two ways a victim is closed.                                        *)
LEMMA EvictSteps ==
    ASSUME IInv, AdmitEvict \/ ScanEvict
    PROVE  /\ IInv'
           /\ cont'.clients <= cont.clients
           /\ \A k \in Keys : count'[k] <= count[k]
<1>0. TypeOK /\ ContainerConsistent /\ CallerSurvives
  BY DEF IInv
<1>1. ASSUME NEW v \in Socks, connLimitIsEvictable(v)
      PROVE  v \in Live /\ kind[v] # "backend" /\ acc.who # v
  BY <1>0, <1>1, ConnLimitAssumption
     DEF connLimitIsEvictable, Live, Free, CallerSurvives
<1>2. CASE AdmitEvict
  <2>1. PICK v : v = connLimitPickVictim(acc.key)
    OBVIOUS
  <2>2. /\ v # NoSock /\ WebserverConnectionManagerCloseRequest(v, cont)
        /\ UNCHANGED <<maxPer, maxTotal, pc>> /\ UNCHANGED acc
    BY <1>2, <2>1 DEF AdmitEvict, AdmitStops
  <2>3. v \in Socks /\ connLimitIsEvictable(v)
    BY <1>0, <2>1, <2>2, AddressVictim
  <2>4. /\ cont \in ContainerType /\ cont.cursor \in Live \cup {NoSock}
        /\ acc' \in CallType
    BY <1>0, <2>2 DEF TypeOK, ContainerType, ContainerConsistent
  <2> QED BY <1>1, <2>2, <2>3, <2>4, CloseStep
<1>3. CASE ScanEvict
  <2>1. PICK v : v = connLimitPickGlobalVictim
    OBVIOUS
  <2>2. /\ v # NoSock /\ WebserverConnectionManagerCloseRequest(v, Moved)
        /\ UNCHANGED <<maxPer, maxTotal, pc>> /\ pc = "scan" /\ ScanGoesOn
        /\ acc' = [acc EXCEPT !.tries = @ + 1]
    BY <1>3, <2>1 DEF ScanEvict
  <2>3. cont.clients > 0
    BY <2>2, ScanHasClients
  <2>4. v \in Socks /\ connLimitIsEvictable(v)
    BY <1>0, <2>1, <2>2, <2>3, GlobalVictim
  <2>5. acc' \in CallType
    BY <1>0, <2>2, TriesStep DEF TypeOK
  <2>6. /\ Moved \in ContainerType /\ Moved.list = cont.list
        /\ Moved.clients = cont.clients /\ Moved.cursor \in Live \cup {NoSock}
    BY <1>0, <2>3, MovedCursor
  <2> HIDE DEF Moved
  <2> QED BY <1>1, <2>2, <2>4, <2>5, <2>6, CloseStep
<1> QED BY <1>2, <1>3

(* The end of the scan, with and without room.                             *)
LEMMA ScanEndSteps ==
    ASSUME IInv, ScanRoom \/ ScanRefuse
    PROVE  IInv' /\ cont'.clients = cont.clients /\ UNCHANGED count
<1> USE ConnLimitAssumption
<1>0. /\ TypeOK /\ ContainerConsistent /\ GroupsConsistent /\ CallerSurvives
      /\ CallConsistent /\ BackendMode
  BY DEF IInv
<1>1. /\ pc = "scan"
      /\ cont' \in ContainerType /\ cont'.list = cont.list
      /\ cont'.clients = cont.clients /\ cont'.cursor \in Live \cup {NoSock}
  <2>1. ScanOver
    BY DEF ScanRoom, ScanRefuse
  <2>2. CASE UNCHANGED cont
    BY <1>0, <2>1, <2>2 DEF ScanOver, TypeOK, ContainerType, ContainerConsistent
  <2>3. CASE ScanGoesOn /\ cont' = Moved
    BY <1>0, <2>1, <2>3, ScanHasClients, MovedCursor DEF ScanOver
  <2> QED BY <2>1, <2>2, <2>3 DEF ScanOver
<1>2. UNCHANGED <<kind, backend>>
  BY DEF ScanRoom, ScanRefuse
<1>3. ContainerConsistent'
  BY <1>0, <1>1, <1>2, ContainerFrame
<1>4. CASE ScanRoom
  <2>1. /\ UNCHANGED <<kind, lru, mode, pending, backend, maxPer, maxTotal, acc>>
        /\ UNCHANGED <<group, table, count, pinned>>
        /\ pc' = "room" /\ HasRoom
    BY <1>4 DEF ScanRoom, groupVars
  <2>2. TypeOK'
    BY <1>0, <1>1, <2>1 DEF TypeOK, ContainerType
  <2>3. GroupsConsistent'
    BY <1>0, <2>1, GroupsFrame
  <2>4. CallerSurvives' /\ BackendMode' /\ CallConsistent'
    BY <1>0, <1>1, <2>1 DEF CallerSurvives, BackendMode, CallConsistent, HasRoom
  <2> QED BY <1>1, <1>3, <2>1, <2>2, <2>3, <2>4 DEF IInv
<1>5. CASE ScanRefuse
  <2>1. /\ UNCHANGED <<kind, lru, pending, backend, group, count, maxPer, maxTotal>>
        /\ mode' = IF acc.who = NoSock THEN mode
                                       ELSE [mode EXCEPT ![acc.who] = "closing"]
        /\ pc' = "loop" /\ acc' = NoCall /\ connLimitRelease(acc.key)
        /\ acc'.key = NoKey
    BY <1>5 DEF ScanRefuse, NoCall
  <2>2. /\ table' \in SUBSET Keys
        /\ pinned' \in [Keys -> Nat]
        /\ GroupsConsistent'
    BY <1>0, <2>1, ReleaseGroups
  <2>3. mode' \in [Socks -> Modes] /\ acc.who \in Socks \cup {NoSock}
    BY <1>0, <2>1 DEF TypeOK, Modes, CallType
  <2>4. TypeOK'
    BY <1>0, <1>1, <2>1, <2>2, <2>3, NoCallType DEF TypeOK, ContainerType
  <2>5. BackendMode'
    BY <1>0, <2>1, <2>3 DEF BackendMode, TypeOK
  <2>6. CallerSurvives' /\ CallConsistent'
    BY <2>1 DEF CallerSurvives, CallConsistent, NoCall
  <2> QED BY <1>1, <1>3, <2>1, <2>2, <2>4, <2>5, <2>6 DEF IInv
<1> QED BY <1>4, <1>5

(* The new connection or backend joins the list.                           *)
LEMMA AddedContainer ==
    ASSUME IInv, NEW s \in Socks, kind[s] = "free",
           cont' = addSocketContainer(cont, s),
           NEW k \in {"client", "backend"}, kind' = [kind EXCEPT ![s] = k]
    PROVE  /\ cont' \in ContainerType
           /\ cont'.clients = cont.clients + 1
           /\ cont'.list = Append(cont.list, s)
           /\ Elems(cont'.list) = Live'
           /\ NoRepeats(cont'.list)
           /\ cont'.clients = Cardinality(Counted')
           /\ cont'.cursor \in Live' \cup {NoSock}
<1> USE ConnLimitAssumption
<1>0. TypeOK /\ ContainerConsistent
  BY DEF IInv
<1>1. cont.list \in Seq(Socks) /\ cont.clients \in Nat
         /\ cont.cursor \in Socks \cup {NoSock} /\ kind \in [Socks -> Kinds]
  BY <1>0 DEF TypeOK
<1>2. /\ cont'.list = Append(cont.list, s) /\ cont'.clients = cont.clients + 1
      /\ cont'.cursor = cont.cursor
      /\ cont' = [list |-> cont'.list, cursor |-> cont'.cursor,
                  clients |-> cont'.clients]
  BY <1>0 DEF addSocketContainer, TypeOK
<1>3. Live' = Live \cup {s} /\ Counted' = Counted \cup {s}
         /\ s \notin Live /\ s \notin Counted
  BY <1>1 DEF Live, Free, Counted
<1>4. Cardinality(Counted \cup {s}) = Cardinality(Counted) + 1
  BY <1>0, <1>3, CountedCard, FS_AddElement
<1>5. /\ Append(cont.list, s) \in Seq(Socks)
      /\ Elems(Append(cont.list, s)) = Live \cup {s}
      /\ NoRepeats(Append(cont.list, s))
  BY <1>0, <1>1, <1>3, AppendElems DEF ContainerConsistent
<1>6. cont' \in ContainerType
  <2>1. /\ cont'.list \in Seq(Socks) /\ cont'.clients \in Nat
        /\ cont'.cursor \in Socks \cup {NoSock}
    BY <1>1, <1>2, <1>5
  <2>2. cont' = [list |-> cont'.list, cursor |-> cont'.cursor,
                 clients |-> cont'.clients]
    BY <1>2
  <2> QED BY <2>1, <2>2 DEF ContainerType
<1> QED BY <1>0, <1>2, <1>3, <1>4, <1>5, <1>6 DEF ContainerConsistent

(* A socket that is free belongs to no connection and to no group.         *)
LEMMA FreeSlot ==
    ASSUME IInv, NEW s \in Socks, kind[s] = "free"
    PROVE  /\ group[s] = NoKey
           /\ backend[s] = NoSock
           /\ \A x \in Socks : backend[x] # s
BY ConnLimitAssumption DEF IInv, ContainerConsistent, GroupsConsistent

(* The new connection joins the container and its group.                   *)
LEMMA AddClientStep ==
    ASSUME IInv, NEW s \in Socks, AddClient(s)
    PROVE  /\ IInv'
           /\ cont'.clients = cont.clients + 1
           /\ \A k \in Keys : count'[k] > count[k] =>
                 k = acc.key /\ count'[k] = count[k] + 1
<1> USE ConnLimitAssumption
<1>0. /\ TypeOK /\ ContainerConsistent /\ GroupsConsistent /\ CallerSurvives
      /\ CallConsistent /\ BackendMode
  BY DEF IInv
<1>1. /\ pc = "room" /\ acc.who = NoSock /\ kind[s] = "free"
      /\ kind' = [kind EXCEPT ![s] = "client"]
      /\ cont' = addSocketContainer(cont, s)
      /\ lru' = ToTail(lru, s)
      /\ mode' = [mode EXCEPT ![s] = "idle"]
      /\ pending' = [pending EXCEPT ![s] = FALSE]
      /\ pc' = "loop" /\ acc' = NoCall
      /\ UNCHANGED <<backend, maxPer, maxTotal>>
  BY DEF AddClient
<1>2. /\ cont' \in ContainerType
      /\ cont'.clients = cont.clients + 1
      /\ cont'.list = Append(cont.list, s)
      /\ Elems(cont'.list) = Live'
      /\ NoRepeats(cont'.list)
      /\ cont'.clients = Cardinality(Counted')
      /\ cont'.cursor \in Live' \cup {NoSock}
  BY <1>1, AddedContainer
<1>3. group[s] = NoKey /\ backend[s] = NoSock /\ \A x \in Socks : backend[x] # s
  BY <1>1, FreeSlot
<1>4. /\ kind' \in [Socks -> Kinds] /\ lru' \in Seq(Socks)
      /\ mode' \in [Socks -> Modes] /\ pending' \in [Socks -> BOOLEAN]
  BY <1>0, <1>1, ToTailType DEF TypeOK, Kinds, Modes
<1>5. ContainerConsistent'
  <2>1. \A x \in Socks : backend'[x] # NoSock =>
           kind'[x] = "client" /\ kind'[backend'[x]] = "backend"
    BY <1>0, <1>1, <1>3 DEF ContainerConsistent, TypeOK
  <2>2. \A b \in Socks : kind'[b] = "backend" =>
           \E x \in Socks : backend'[x] = b
                              /\ \A y \in Socks : backend'[y] = b => y = x
    <3>1. \A b \in Socks : kind'[b] = "backend" => kind[b] = "backend"
      BY <1>0, <1>1 DEF TypeOK
    <3> QED BY <1>0, <1>1, <3>1 DEF ContainerConsistent
  <2>3. Behind(backend', cont'.list)
    <3> DEFINE l == cont.list
    <3>1. /\ l \in Seq(Socks) /\ Behind(backend, l)
      BY <1>0 DEF TypeOK, ContainerConsistent, Behind
    <3>2. /\ DOMAIN Append(l, s) = 1 .. Len(l) + 1 /\ DOMAIN l = 1 .. Len(l)
          /\ \A i \in 1 .. Len(l) : Append(l, s)[i] = l[i] /\ l[i] \in Socks
          /\ Append(l, s)[Len(l) + 1] = s /\ Len(l) \in Nat
      BY <3>1
    <3>3. backend' = backend /\ cont'.list = Append(l, s)
      BY <1>1, <1>2
    <3> HIDE DEF l
    <3>4. ASSUME NEW i \in 1 .. Len(l) + 1, NEW j \in 1 .. Len(l) + 1,
                 backend[Append(l, s)[i]] = Append(l, s)[j]
          PROVE  i < j
      <4>1. i # Len(l) + 1
        BY <3>2, <3>4, <1>3
      <4>2. j # Len(l) + 1
        BY <3>2, <3>4, <1>3, <4>1
      <4> QED BY <3>1, <3>2, <3>4, <4>1, <4>2 DEF Behind
    <3> QED BY <3>2, <3>3, <3>4 DEF Behind
  <2> QED BY <1>2, <2>1, <2>2, <2>3 DEF ContainerConsistent, Behind
<1>6. BackendMode'
  BY <1>0, <1>1, <1>3 DEF BackendMode, TypeOK
<1>7. CallerSurvives' /\ CallConsistent'
  BY <1>1 DEF CallerSurvives, CallConsistent, NoCall
<1>8. /\ group' \in [Socks -> Keys \cup {NoKey}]
      /\ table' \in SUBSET Keys
      /\ count' \in [Keys -> Nat]
      /\ pinned' \in [Keys -> Nat]
      /\ GroupsConsistent'
      /\ \A k \in Keys : count'[k] > count[k] =>
            k = acc.key /\ count'[k] = count[k] + 1
  <2>1. acc'.key = NoKey
    BY <1>1 DEF NoCall
  <2>2. CASE acc.key = NoKey
    <3>1. UNCHANGED <<group, table, count, pinned>>
      BY <2>2 DEF AddClient, groupVars
    <3>2. \A x \in Socks : group[x] # NoKey => kind'[x] = "client"
      BY <1>0, <1>1 DEF GroupsConsistent, TypeOK
    <3>3. GroupsConsistent'
      BY <1>0, <2>1, <2>2, <3>1, <3>2 DEF GroupsConsistent, Members
    <3> QED BY <1>0, <3>1, <3>3 DEF TypeOK
  <2>3. CASE acc.key # NoKey
    <3>1. PICK g \in Keys : g = acc.key
      BY <1>0, <2>3 DEF TypeOK, CallType
    <3>2. /\ group' = [group EXCEPT ![s] = g]
          /\ count' = [count EXCEPT ![g] = @ + 1]
          /\ pinned' = [pinned EXCEPT ![g] = @ - 1]
          /\ table' = table
      BY <2>3, <3>1 DEF AddClient
    <3>3. pinned[g] = 1 /\ \A k \in Keys \ {g} : pinned[k] = 0
      BY <1>0, <3>1 DEF GroupsConsistent
    <3>4. /\ Members(g)' = Members(g) \cup {s} /\ s \in Socks \ Members(g)
          /\ \A k \in Keys \ {g} : Members(k)' = Members(k)
      BY <1>0, <1>3, <3>1, <3>2 DEF Members, TypeOK
    <3>5. /\ count[g] \in Nat /\ count[g] = Cardinality(Members(g))
          /\ Cardinality(Members(g) \cup {s}) = count[g] + 1
      BY <1>0, <3>4, MembersCard DEF GroupsConsistent, TypeOK
    <3>6. /\ count' \in [Keys -> Nat] /\ count'[g] = count[g] + 1
          /\ \A k \in Keys \ {g} : count'[k] = count[k]
          /\ pinned' \in [Keys -> Nat] /\ \A k \in Keys : pinned'[k] = 0
          /\ group' \in [Socks -> Keys \cup {NoKey}]
      BY <1>0, <3>2, <3>3, <3>5 DEF TypeOK
    <3>7. ASSUME NEW k \in Keys
          PROVE  count'[k] = Cardinality(Members(k)')
      <4>1. CASE k = g
        BY <4>1, <3>4, <3>5, <3>6
      <4>2. CASE k # g
        BY <4>2, <3>4, <3>6, <1>0 DEF GroupsConsistent
      <4> QED BY <4>1, <4>2
    <3>8. \A k \in Keys : k \in table' <=> count'[k] + pinned'[k] > 0
      BY <1>0, <3>2, <3>3, <3>5, <3>6 DEF GroupsConsistent, TypeOK
    <3>9. \A x \in Socks : group'[x] # NoKey => kind'[x] = "client"
      BY <1>0, <1>1, <3>2 DEF GroupsConsistent, TypeOK
    <3>10. GroupsConsistent'
      BY <2>1, <3>6, <3>7, <3>8, <3>9 DEF GroupsConsistent, Members
    <3>11. \A k \in Keys : count'[k] > count[k] => k = acc.key /\ count'[k] = count[k] + 1
      BY <1>0, <3>1, <3>6 DEF TypeOK
    <3> QED BY <1>0, <3>2, <3>6, <3>10, <3>11 DEF TypeOK
  <2> QED BY <2>2, <2>3
<1>9. TypeOK'
  BY <1>0, <1>1, <1>2, <1>4, <1>8, NoCallType DEF TypeOK, ContainerType
<1> QED BY <1>2, <1>5, <1>6, <1>7, <1>8, <1>9 DEF IInv

(* The backend joins the container, behind the client it belongs to.       *)
LEMMA AddBackendStep ==
    ASSUME IInv, NEW s \in Socks, AddBackend(s)
    PROVE  IInv' /\ cont'.clients = cont.clients + 1 /\ UNCHANGED count
<1> USE ConnLimitAssumption
<1>0. /\ TypeOK /\ ContainerConsistent /\ GroupsConsistent /\ CallerSurvives
      /\ CallConsistent /\ BackendMode
  BY DEF IInv
<1>1. PICK w : w = acc.who
  OBVIOUS
<1>2. /\ pc = "room" /\ w # NoSock /\ kind[s] = "free"
      /\ kind' = [kind EXCEPT ![s] = "backend"]
      /\ cont' = addSocketContainer(cont, s)
      /\ backend' = [backend EXCEPT ![w] = s]
      /\ mode' = [mode EXCEPT ![w] = "proxyRun"]
      /\ pc' = "loop" /\ acc' = NoCall
      /\ UNCHANGED <<lru, pending, group, table, count, pinned, maxPer, maxTotal>>
  BY <1>1 DEF AddBackend, groupVars
<1>3. /\ cont' \in ContainerType
      /\ cont'.clients = cont.clients + 1
      /\ cont'.list = Append(cont.list, s)
      /\ Elems(cont'.list) = Live'
      /\ NoRepeats(cont'.list)
      /\ cont'.clients = Cardinality(Counted')
      /\ cont'.cursor \in Live' \cup {NoSock}
  BY <1>2, AddedContainer
<1>4. group[s] = NoKey /\ backend[s] = NoSock /\ \A x \in Socks : backend[x] # s
  BY <1>2, FreeSlot
<1>5. /\ w \in Socks /\ w # s /\ kind[w] = "client" /\ mode[w] = "proxyConnect"
      /\ acc.key = NoKey
  BY <1>0, <1>1, <1>2 DEF TypeOK, CallType, CallerSurvives, CallConsistent
<1>6. backend[w] = NoSock
  BY <1>0, <1>5 DEF BackendMode
<1>7. /\ kind' \in [Socks -> Kinds] /\ mode' \in [Socks -> Modes]
      /\ backend' \in [Socks -> Socks \cup {NoSock}]
  BY <1>0, <1>2, <1>5 DEF TypeOK, Kinds, Modes
<1>8. TypeOK'
  BY <1>0, <1>2, <1>3, <1>7, NoCallType DEF TypeOK, ContainerType
<1>9. ContainerConsistent'
  <2>1. ASSUME NEW x \in Socks, backend'[x] # NoSock
        PROVE  kind'[x] = "client" /\ kind'[backend'[x]] = "backend"
    <3>1. CASE x = w
      BY <1>0, <1>2, <1>5, <3>1 DEF TypeOK
    <3>2. CASE x # w
      <4>1. backend'[x] = backend[x]
        BY <1>0, <1>2, <3>2 DEF TypeOK
      <4>2. kind[x] = "client" /\ kind[backend[x]] = "backend" /\ backend[x] \in Socks
        BY <1>0, <2>1, <4>1 DEF ContainerConsistent, TypeOK
      <4> QED BY <1>0, <1>2, <4>1, <4>2 DEF TypeOK
    <3> QED BY <3>1, <3>2
  <2>2. ASSUME NEW b \in Socks, kind'[b] = "backend"
        PROVE  \E x \in Socks : backend'[x] = b
                                  /\ \A y \in Socks : backend'[y] = b => y = x
    <3>1. CASE b = s
      <4>1. backend'[w] = b /\ \A y \in Socks : backend'[y] = b => y = w
        BY <1>0, <1>2, <1>4, <1>5, <3>1 DEF TypeOK
      <4> QED BY <1>5, <4>1
    <3>2. CASE b # s
      <4>1. kind[b] = "backend"
        BY <1>0, <1>2, <2>2, <3>2 DEF TypeOK
      <4>2. PICK x \in Socks : backend[x] = b
                                 /\ \A y \in Socks : backend[y] = b => y = x
        BY <1>0, <4>1 DEF ContainerConsistent
      <4>3. x # w
        BY <1>6, <4>2
      <4>4. backend'[x] = b /\ \A y \in Socks : backend'[y] = b => y = x
        BY <1>0, <1>2, <1>5, <3>2, <4>2, <4>3 DEF TypeOK
      <4> QED BY <4>4
    <3> QED BY <3>1, <3>2
  <2>3. Behind(backend', cont'.list)
    <3> DEFINE l == cont.list
    <3>1. /\ l \in Seq(Socks) /\ Behind(backend, l)
      BY <1>0 DEF TypeOK, ContainerConsistent, Behind
    <3>2. /\ DOMAIN Append(l, s) = 1 .. Len(l) + 1 /\ DOMAIN l = 1 .. Len(l)
          /\ \A i \in 1 .. Len(l) : Append(l, s)[i] = l[i] /\ l[i] \in Socks
          /\ Append(l, s)[Len(l) + 1] = s /\ Len(l) \in Nat
      BY <3>1
    <3>3. cont'.list = Append(l, s)
      BY <1>3
    <3>4. \A i \in 1 .. Len(l) : l[i] # s
      BY <1>0, <1>2, <3>2 DEF ContainerConsistent, Elems, Live, Free
    <3>5. /\ backend'[s] = NoSock
          /\ \A x \in Socks : backend'[x] = IF x = w THEN s ELSE backend[x]
      BY <1>0, <1>2, <1>4, <1>5 DEF TypeOK
    <3> HIDE DEF l
    <3>6. ASSUME NEW i \in 1 .. Len(l) + 1, NEW j \in 1 .. Len(l) + 1,
                 backend'[Append(l, s)[i]] = Append(l, s)[j]
          PROVE  i < j
      <4>1. i # Len(l) + 1
        BY <3>2, <3>5, <3>6
      <4>2. CASE j = Len(l) + 1
        BY <4>1, <4>2, <3>2
      <4>3. CASE j # Len(l) + 1
        <5>1. i \in 1 .. Len(l) /\ j \in 1 .. Len(l) /\ backend'[l[i]] = l[j]
          BY <4>1, <4>3, <3>2, <3>6
        <5>2. backend[l[i]] = l[j]
          BY <5>1, <3>2, <3>4, <3>5
        <5> QED BY <5>1, <5>2, <3>1, <3>2 DEF Behind
      <4> QED BY <4>2, <4>3
    <3> QED BY <3>2, <3>3, <3>6 DEF Behind
  <2> QED BY <1>3, <2>1, <2>2, <2>3 DEF ContainerConsistent, Behind
<1>10. BackendMode'
  BY <1>0, <1>2, <1>5 DEF BackendMode, TypeOK
<1>11. CallerSurvives' /\ CallConsistent'
  BY <1>2 DEF CallerSurvives, CallConsistent, NoCall
<1>12. GroupsConsistent'
  <2>1. acc'.key = acc.key
    BY <1>2, <1>5 DEF NoCall
  <2>2. \A x \in Socks : group'[x] # NoKey => kind'[x] = "client"
    BY <1>0, <1>2, <1>4 DEF GroupsConsistent, TypeOK
  <2> QED BY <1>0, <1>2, <2>1, <2>2 DEF GroupsConsistent, Members
<1> QED BY <1>2, <1>3, <1>8, <1>9, <1>10, <1>11, <1>12 DEF IInv

(* Steps of the handlers that only change the state of one connection.     *)
LEMMA HandlerSteps ==
    ASSUME IInv,
           \/ BackendFails
           \/ \E s \in Socks : \/ \E m \in Modes : Read(s, m)
                               \/ Finish(s)
                               \/ Arrive(s)
    PROVE  IInv' /\ UNCHANGED <<cont, count>>
<1> USE ConnLimitAssumption
<1>0. /\ TypeOK /\ ContainerConsistent /\ GroupsConsistent /\ CallerSurvives
      /\ CallConsistent /\ BackendMode
  BY DEF IInv
<1>1. UNCHANGED <<kind, cont, backend, group, table, count, pinned, maxPer, maxTotal>>
  BY DEF BackendFails, Read, Finish, Arrive, groupVars
<1>2. ContainerConsistent'
  BY <1>0, <1>1, ContainerFrame DEF ContainerConsistent
<1>3. ASSUME lru' \in Seq(Socks), mode' \in [Socks -> Modes],
             pending' \in [Socks -> BOOLEAN], acc' \in CallType,
             pc' \in {"loop", "admit", "total", "scan", "room", "shutdown"},
             acc'.key = acc.key, CallerSurvives', CallConsistent', BackendMode'
      PROVE  IInv'
  <2>1. TypeOK'
    BY <1>0, <1>1, <1>3 DEF TypeOK
  <2>2. GroupsConsistent'
    BY <1>0, <1>1, <1>3, GroupsFrame
  <2> QED BY <1>2, <1>3, <2>1, <2>2 DEF IInv
<1>4. CASE BackendFails
  <2>1. /\ acc.who # NoSock /\ mode' = [mode EXCEPT ![acc.who] = "closing"]
        /\ pc' = "loop" /\ acc' = NoCall /\ UNCHANGED <<lru, pending>>
    BY <1>4 DEF BackendFails
  <2>2. acc.who \in Socks /\ acc.key = NoKey /\ mode' \in [Socks -> Modes]
    BY <1>0, <2>1 DEF TypeOK, CallType, CallConsistent, Modes
  <2>3. CallerSurvives' /\ CallConsistent' /\ acc'.key = acc.key
    BY <2>1, <2>2 DEF CallerSurvives, CallConsistent, NoCall
  <2>4. BackendMode'
    BY <1>0, <1>1, <2>1, <2>2 DEF BackendMode, TypeOK
  <2>5. lru' \in Seq(Socks) /\ pending' \in [Socks -> BOOLEAN] /\ acc' \in CallType
    BY <1>0, <2>1, NoCallType DEF TypeOK
  <2> QED BY <1>1, <1>3, <2>1, <2>2, <2>3, <2>4, <2>5
<1>5. ASSUME NEW s \in Socks, NEW m \in Modes, Read(s, m) PROVE IInv'
  <2>1. /\ pc = "loop" /\ kind[s] = "client" /\ mode[s] \in {"idle", "proxyRecv"}
        /\ pending' = [pending EXCEPT ![s] = FALSE]
        /\ lru' = ToTail(lru, s)
        /\ mode' = [mode EXCEPT ![s] = m]
    BY <1>5 DEF Read, connLimitIsEvictable
  <2>2. acc = NoCall
    BY <1>0, <2>1 DEF CallConsistent
  <2>3. \/ /\ pc' = "total" /\ acc' = [NoCall EXCEPT !.who = s] /\ m = "proxyConnect"
        \/ UNCHANGED <<pc, acc>>
    BY <1>5 DEF Read
  <2>4. /\ lru' \in Seq(Socks) /\ mode' \in [Socks -> Modes]
        /\ pending' \in [Socks -> BOOLEAN]
    BY <1>0, <2>1, ToTailType DEF TypeOK
  <2>5. backend[s] = NoSock
    BY <1>0, <2>1 DEF BackendMode
  <2>6. BackendMode'
    BY <1>0, <1>1, <2>1, <2>5 DEF BackendMode, TypeOK
  <2>7. /\ acc' \in CallType /\ acc'.key = acc.key /\ acc'.limit = 0
        /\ acc'.who \in {s, NoSock} /\ pc' \in {"loop", "total"}
        /\ acc'.who = s => mode'[s] = "proxyConnect"
        /\ pc' = "loop" => acc' = NoCall
    <3>1. mode'[s] = m
      BY <1>0, <2>1 DEF TypeOK
    <3>2. CASE pc' = "total" /\ acc' = [NoCall EXCEPT !.who = s] /\ m = "proxyConnect"
      BY <2>2, <3>1, <3>2 DEF NoCall, CallType
    <3>3. CASE UNCHANGED <<pc, acc>>
      BY <2>1, <2>2, <3>3, NoCallType DEF NoCall
    <3> QED BY <2>3, <3>2, <3>3
  <2>8. CallerSurvives' /\ CallConsistent'
    BY <1>1, <2>1, <2>2, <2>7 DEF CallerSurvives, CallConsistent, NoCall
  <2> QED BY <1>3, <2>4, <2>6, <2>7, <2>8
<1>6. ASSUME NEW s \in Socks, Finish(s) PROVE IInv'
  <2>1. /\ pc = "loop" /\ mode[s] \in BusyModes \cup {"proxyRun"}
        /\ lru' = ToTail(lru, s)
        /\ mode' = [mode EXCEPT ![s] = IF mode[s] \in {"proxyRun", "websocket"}
                                         THEN "closing" ELSE "idle"]
        /\ UNCHANGED <<pending, pc, acc>>
    BY <1>6 DEF Finish
  <2>2. /\ lru' \in Seq(Socks) /\ mode' \in [Socks -> Modes]
    BY <1>0, <2>1, ToTailType DEF TypeOK, Modes
  <2>3. BackendMode'
    <3>1. backend[s] # NoSock => mode[s] = "proxyRun"
      BY <1>0, <2>1 DEF BackendMode
    <3>2. backend[s] # NoSock => mode'[s] = "closing"
      BY <1>0, <2>1, <3>1 DEF TypeOK
    <3>3. \A x \in Socks : x # s => mode'[x] = mode[x]
      BY <1>0, <2>1 DEF TypeOK
    <3> QED BY <1>0, <1>1, <3>2, <3>3 DEF BackendMode
  <2>4. acc = NoCall
    BY <1>0, <2>1 DEF CallConsistent
  <2>5. CallerSurvives' /\ CallConsistent'
    BY <2>1, <2>4 DEF CallerSurvives, CallConsistent, NoCall
  <2> QED BY <1>0, <1>3, <2>1, <2>2, <2>3, <2>5 DEF TypeOK
<1>7. ASSUME NEW s \in Socks, Arrive(s) PROVE IInv'
  <2>1. /\ UNCHANGED <<lru, mode, pc, acc>>
        /\ pending' = [pending EXCEPT ![s] = TRUE]
    BY <1>7 DEF Arrive
  <2>2. CallerSurvives' /\ CallConsistent' /\ BackendMode'
    BY <1>0, <1>1, <2>1 DEF CallerSurvives, CallConsistent, BackendMode
  <2> QED BY <1>0, <1>3, <2>1, <2>2 DEF TypeOK
<1> QED BY <1>1, <1>4, <1>5, <1>6, <1>7

(* The head of the list is no backend: its client would stand before it.   *)
LEMMA HeadIsNoBackend ==
    ASSUME IInv, cont.list # <<>>
    PROVE  Head(cont.list) \in Live /\ Head(cont.list) \in Socks /\ kind[Head(cont.list)] # "backend"
<1> DEFINE l == cont.list
<1>1. PICK h : h = l[1]
  OBVIOUS
<1>2. l \in Seq(Socks) /\ l # <<>> /\ 1 \in DOMAIN l /\ Head(l) = h
  BY <1>1 DEF IInv, TypeOK
<1>3. ContainerConsistent
  BY DEF IInv
<1>4. h \in Live /\ h \in Socks
  BY <1>1, <1>2, <1>3 DEF ContainerConsistent, Elems, Live
<1>5. kind[h] # "backend"
  <2> SUFFICES ASSUME kind[h] = "backend" PROVE FALSE
    OBVIOUS
  <2>1. PICK x \in Socks : backend[x] = h
    BY <1>3, <1>4 DEF ContainerConsistent
  <2>2. x \in Live
    BY <1>3, <1>4, <2>1, ConnLimitAssumption DEF ContainerConsistent, Live, Free
  <2>3. PICK i \in DOMAIN l : l[i] = x
    BY <1>3, <2>2 DEF ContainerConsistent, Elems
  <2>4. i < 1
    BY <1>1, <1>2, <1>3, <2>1, <2>3 DEF ContainerConsistent
  <2> QED BY <1>2, <2>3, <2>4
<1> QED BY <1>2, <1>4, <1>5

(* A close from a handler, and the closes of deleteAllSockets(), whose head *)
(* is never a backend: the client of a backend stands in front of it.      *)
LEMMA CloseSteps ==
    ASSUME IInv, DeleteHead \/ \E s \in Socks : Close(s)
    PROVE  /\ IInv'
           /\ cont'.clients <= cont.clients
           /\ \A k \in Keys : count'[k] <= count[k]
<1> USE ConnLimitAssumption
<1>0. /\ TypeOK /\ ContainerConsistent /\ CallConsistent
      /\ cont \in ContainerType /\ cont.cursor \in Live \cup {NoSock}
  BY DEF IInv, TypeOK, ContainerType, ContainerConsistent
<1>1. pc \in {"loop", "shutdown"} /\ UNCHANGED <<maxPer, maxTotal, pc>> /\ UNCHANGED acc
  BY DEF DeleteHead, Close
<1>2. acc = NoCall /\ acc.who = NoSock /\ acc' \in CallType
  BY <1>0, <1>1 DEF CallConsistent, NoCall, TypeOK
<1>3. CASE DeleteHead
  <2> DEFINE h == Head(cont.list)
  <2>1. h \in Live /\ h \in Socks /\ kind[h] # "backend" /\ WebserverConnectionManagerCloseRequest(h, cont)
    BY <1>3, HeadIsNoBackend DEF DeleteHead
  <2> HIDE DEF h
  <2> QED BY <1>0, <1>1, <1>2, <2>1, CloseStep
<1>4. ASSUME NEW s \in Socks, Close(s)
      PROVE  /\ IInv'
             /\ cont'.clients <= cont.clients
             /\ \A k \in Keys : count'[k] <= count[k]
  <2>1. /\ WebserverConnectionManagerCloseRequest(s, cont)
        /\ s \in Live /\ kind[s] # "backend"
    BY <1>4 DEF Close, Live, Free
  <2> QED BY <1>0, <1>1, <1>2, <2>1, CloseStep
<1> QED BY <1>3, <1>4

(* What leaves every socket, group and call alone.                         *)
LEMMA IdleSteps ==
    ASSUME IInv,
           \/ Shutdown \/ UNCHANGED vars
           \/ \E n \in Limits : connLimitSetMax(n)
           \/ \E n \in Totals : connLimitSetConfig(n)
    PROVE  IInv' /\ UNCHANGED <<cont, count>>
<1>0. /\ TypeOK /\ ContainerConsistent /\ GroupsConsistent /\ CallerSurvives
      /\ CallConsistent /\ BackendMode
  BY DEF IInv
<1>1. UNCHANGED <<kind, cont, lru, mode, pending, backend, group, table, count,
                  pinned, acc>>
  BY DEF Shutdown, vars, connLimitSetMax, connLimitSetConfig, sockVars, groupVars
<1>2. /\ maxPer' \in Limits /\ maxTotal' \in Totals
      /\ pc' = pc \/ (pc = "loop" /\ pc' = "shutdown")
  <2>1. maxPer \in Limits /\ maxTotal \in Totals
    BY <1>0 DEF TypeOK
  <2>2. CASE Shutdown
    BY <2>1, <2>2 DEF Shutdown
  <2>3. CASE UNCHANGED vars
    BY <2>1, <2>3 DEF vars
  <2>4. CASE \E n \in Limits : connLimitSetMax(n)
    BY <2>1, <2>4 DEF connLimitSetMax
  <2>5. CASE \E n \in Totals : connLimitSetConfig(n)
    BY <2>1, <2>5 DEF connLimitSetConfig
  <2> QED BY <2>2, <2>3, <2>4, <2>5
<1>3. TypeOK'
  BY <1>0, <1>1, <1>2 DEF TypeOK
<1>4. ContainerConsistent' /\ GroupsConsistent'
  BY <1>0, <1>1, ContainerFrame, GroupsFrame DEF ContainerConsistent
<1>5. CallerSurvives' /\ CallConsistent' /\ BackendMode'
  BY <1>0, <1>1, <1>2 DEF CallerSurvives, CallConsistent, BackendMode
<1> QED BY <1>1, <1>3, <1>4, <1>5 DEF IInv

(* Every step keeps the inductive invariant, and a counter grows only in   *)
(* AddClient and AddBackend, by one.                                       *)
LEMMA NextStep ==
    ASSUME IInv, [Next]_vars
    PROVE  /\ IInv'
           /\ \/ cont'.clients <= cont.clients
              \/ pc = "room" /\ cont'.clients = cont.clients + 1
           /\ \A k \in Keys : \/ count'[k] <= count[k]
                              \/ /\ pc = "room" /\ k = acc.key
                                 /\ count'[k] = count[k] + 1
<1>0. cont.clients \in Nat /\ \A k \in Keys : count[k] \in Nat
  BY DEF IInv, TypeOK
<1>1. CASE \E k \in Keys \cup {NoKey} : Accept(k)
  BY <1>0, <1>1, AcceptStep
<1>2. CASE AdmitSpare \/ AdmitOk \/ AdmitRefuse
  BY <1>0, <1>2, AdmitSteps
<1>3. CASE TotalCheck
  BY <1>0, <1>3, TotalCheckStep
<1>4. CASE ScanSpare
  BY <1>0, <1>4, ScanSpareStep
<1>5. CASE AdmitEvict \/ ScanEvict
  BY <1>5, EvictSteps
<1>6. CASE ScanRoom \/ ScanRefuse
  BY <1>0, <1>6, ScanEndSteps
<1>7. ASSUME NEW s \in Socks, AddClient(s)
      PROVE  /\ IInv'
             /\ pc = "room" /\ cont'.clients = cont.clients + 1
             /\ \A k \in Keys : \/ count'[k] <= count[k]
                                \/ /\ k = acc.key
                                   /\ count'[k] = count[k] + 1
  <2>1. IInv' /\ pc = "room" /\ cont'.clients = cont.clients + 1
    BY <1>7, AddClientStep DEF AddClient
  <2>2. \A k \in Keys : count'[k] > count[k] => k = acc.key /\ count'[k] = count[k] + 1
    BY <1>7, AddClientStep
  <2>3. \A k \in Keys : count'[k] \in Nat
    BY <2>1 DEF IInv, TypeOK
  <2> QED BY <1>0, <2>1, <2>2, <2>3
<1>8. ASSUME NEW s \in Socks, AddBackend(s)
      PROVE  /\ IInv'
             /\ pc = "room" /\ cont'.clients = cont.clients + 1
             /\ \A k \in Keys : count'[k] <= count[k]
  <2>1. IInv' /\ cont'.clients = cont.clients + 1 /\ UNCHANGED count
    BY <1>8, AddBackendStep
  <2>2. pc = "room"
    BY <1>8 DEF AddBackend
  <2> QED BY <1>0, <2>1, <2>2
<1>9. CASE \/ BackendFails
           \/ \E s \in Socks : \/ \E m \in Modes : Read(s, m)
                               \/ Finish(s)
                               \/ Arrive(s)
  BY <1>0, <1>9, HandlerSteps
<1>10. CASE DeleteHead \/ \E s \in Socks : Close(s)
  BY <1>10, CloseSteps
<1>11. CASE \/ Shutdown \/ Stopped \/ UNCHANGED vars
            \/ \E n \in Limits : connLimitSetMax(n)
            \/ \E n \in Totals : connLimitSetConfig(n)
  BY <1>0, <1>11, IdleSteps DEF Stopped
<1> QED BY <1>1, <1>2, <1>3, <1>4, <1>5, <1>6, <1>7, <1>8, <1>9, <1>10, <1>11
        DEF Next, Call

(* IInv holds in every reachable state.                                    *)
LEMMA Invariance == Spec => []IInv
<1>1. IInv /\ [Next]_vars => IInv'
  BY NextStep
<1> QED BY InitIInv, <1>1, PTL DEF Spec

-----------------------------------------------------------------------------
(* The theorems.                                                           *)

(* The fields of the sockets, of the container and of the groups have      *)
(* their types at all times: the counters sock_list_clients, count and     *)
(* pinned, unsigned in the code, are never decremented at zero.            *)
THEOREM TypeCorrect == Spec => []TypeOK
<1>1. IInv => TypeOK
  BY DEF IInv
<1> QED BY Invariance, <1>1, PTL

(* Whatever sockets are opened, closed, evicted or proxied, and in which   *)
(* order: the list, its cursor, its counter and the pairing of the proxy's *)
(* clients with their backends stay consistent.                            *)
THEOREM ContainerSafe == Spec => []ContainerConsistent
<1>1. IInv => ContainerConsistent
  BY DEF IInv
<1> QED BY Invariance, <1>1, PTL

(* The groups of connLimitAttach() and connLimitDetach() count exactly     *)
(* their members, and none of them is given up while it is referred to.    *)
THEOREM GroupsSafe == Spec => []GroupsConsistent
<1>1. IInv => GroupsConsistent
  BY DEF IInv
<1> QED BY Invariance, <1>1, PTL

(* connLimitEnsureTotalRoom(), called for a proxy backend, never closes    *)
(* the client whose handler is calling it.                                 *)
THEOREM CallerSafe == Spec => []CallerSurvives
<1>1. IInv => CallerSurvives
  BY DEF IInv
<1> QED BY Invariance, <1>1, PTL

(* The number of connections of an address never grows past the limit that *)
(* handleServer() read when it accepted the connection.                    *)
THEOREM AddressLimit == Spec => AddressLimitKept
<1> DEFINE A == \A k \in Keys : count'[k] > count[k] =>
                   acc.limit = 0 \/ count'[k] <= acc.limit
<1>1. IInv /\ [Next]_vars => [A]_vars
  <2> SUFFICES ASSUME IInv, [Next]_vars, NEW k \in Keys, count'[k] > count[k],
                      acc.limit # 0
               PROVE  count'[k] <= acc.limit
    OBVIOUS
  <2>1. IInv' /\ (\/ count'[k] <= count[k]
                  \/ pc = "room" /\ k = acc.key /\ count'[k] = count[k] + 1)
    BY NextStep
  <2>2. count[k] \in Nat /\ count'[k] \in Nat /\ acc.limit \in Nat
    BY <2>1 DEF IInv, TypeOK, CallType
  <2>3. pc = "room" /\ k = acc.key /\ count'[k] = count[k] + 1
    BY <2>1, <2>2
  <2>4. count[k] < acc.limit
    BY <2>3 DEF IInv, CallConsistent
  <2> QED BY <2>2, <2>3, <2>4
<1> QED BY Invariance, <1>1, PTL DEF Spec, AddressLimitKept

(* The total never grows past its limit, nor - with the limit lowered      *)
(* below what is open - to what it was before room was made.               *)
THEOREM TotalLimit == Spec => TotalLimitKept
<1> DEFINE A == cont'.clients > cont.clients =>
                  \/ acc.total = 0
                  \/ cont'.clients <= acc.total
                  \/ cont'.clients < acc.before
<1>1. IInv /\ [Next]_vars => [A]_vars
  <2> SUFFICES ASSUME IInv, [Next]_vars, cont'.clients > cont.clients
               PROVE  \/ acc.total = 0
                      \/ cont'.clients <= acc.total
                      \/ cont'.clients < acc.before
    OBVIOUS
  <2>1. IInv' /\ (\/ cont'.clients <= cont.clients
                  \/ pc = "room" /\ cont'.clients = cont.clients + 1)
    BY NextStep
  <2>2. cont.clients \in Nat /\ cont'.clients \in Nat /\ acc.total \in Nat
           /\ acc.before \in Nat
    BY <2>1 DEF IInv, TypeOK, CallType
  <2>3. pc = "room" /\ cont'.clients = cont.clients + 1
    BY <2>1, <2>2
  <2> QED BY <2>2, <2>3 DEF IInv, CallConsistent
<1> QED BY Invariance, <1>1, PTL DEF Spec, TotalLimitKept

-----------------------------------------------------------------------------
(* Whom conn_limit_admit() turns away: the order of last_io.               *)

(* Of l, the members of N come last.                                       *)
ComeLast(l, N) ==
    \A i, j \in DOMAIN l : i < j /\ l[i] \in N => l[j] \in N

(* The order of last_io has every client once.  The connections whose      *)
(* input this call has noted still have it, and their last_io is later     *)
(* than that of all the others.                                            *)
LastIoInv ==
    /\ NoRepeats(lru) /\ Elems(lru) = Clients
    /\ pc = "admit" => /\ \A s \in acc.noted : pending[s]
                       /\ ComeLast(lru, acc.noted)

(* Taking one out leaves the others in their order.                        *)
LEMMA DropComeLast ==
    ASSUME NEW S, NEW l \in Seq(S), NEW N, ComeLast(l, N), NEW s
    PROVE  ComeLast(Drop(l, s), N)
<1>1. CASE s \notin Elems(l)
  BY <1>1 DEF Drop
<1>2. CASE s \in Elems(l)
  <2> DEFINE k == IndexIn(l, s)
             d == Drop(l, s)
  <2>1. /\ DOMAIN d = 1 .. Len(l) - 1 /\ k \in DOMAIN l
        /\ \A j \in DOMAIN d : d[j] = IF j < k THEN l[j] ELSE l[j + 1]
    BY <1>2, DropIndex
  <2>2. DOMAIN l = 1 .. Len(l) /\ Len(l) \in Nat
    OBVIOUS
  <2> HIDE DEF k, d
  <2>3. ASSUME NEW i \in DOMAIN d, NEW j \in DOMAIN d, i < j, d[i] \in N
        PROVE  d[j] \in N
    <3> DEFINE a == IF i < k THEN i ELSE i + 1
               b == IF j < k THEN j ELSE j + 1
    <3>1. a \in DOMAIN l /\ b \in DOMAIN l /\ a < b
      BY <2>1, <2>2, <2>3
    <3>2. d[i] = l[a] /\ d[j] = l[b]
      BY <2>1
    <3> HIDE DEF a, b
    <3> QED
      BY <2>3, <3>1, <3>2 DEF ComeLast
  <2>4. ComeLast(d, N)
    BY <2>3 DEF ComeLast
  <2> QED
    BY <2>4 DEF d
<1> QED
  BY <1>1, <1>2

(* Moving s to the end of a sequence without repetitions.                  *)
LEMMA ToTailElems ==
    ASSUME NEW S, NEW l \in Seq(S), NoRepeats(l), NEW s \in S
    PROVE  /\ NoRepeats(ToTail(l, s)) /\ Elems(ToTail(l, s)) = Elems(l) \cup {s}
           /\ \A N : ComeLast(l, N) => ComeLast(ToTail(l, s), N \cup {s})
<1> DEFINE d == Drop(l, s)
           t == Append(d, s)
<1>1. d \in Seq(S) /\ Elems(d) = Elems(l) \ {s} /\ NoRepeats(d)
  BY DropElems
<1>2. \A N : ComeLast(l, N) => ComeLast(d, N)
  BY DropComeLast
<1> HIDE DEF d
<1>3. t \in Seq(S) /\ Elems(t) = Elems(d) \cup {s} /\ NoRepeats(t)
  BY <1>1, AppendElems
<1>4. /\ DOMAIN d = 1 .. Len(d) /\ Len(d) \in Nat /\ DOMAIN t = 1 .. Len(d) + 1
      /\ t[Len(d) + 1] = s /\ \A i \in 1 .. Len(d) : t[i] = d[i]
  BY <1>1
<1> HIDE DEF t
<1>5. ASSUME NEW N, ComeLast(d, N) PROVE ComeLast(t, N \cup {s})
  <2> SUFFICES ASSUME NEW i \in DOMAIN t, NEW j \in DOMAIN t, i < j, t[i] \in N \cup {s}
               PROVE  t[j] \in N \cup {s}
    BY DEF ComeLast
  <2>1. CASE j = Len(d) + 1
    BY <1>4, <2>1
  <2>2. CASE j # Len(d) + 1
    <3>1. i \in DOMAIN d /\ j \in DOMAIN d /\ t[i] = d[i] /\ t[j] = d[j]
      BY <1>4, <2>2
    <3>2. d[i] # s
      BY <1>1, <3>1 DEF Elems
    <3> QED
      BY <1>5, <3>1, <3>2 DEF ComeLast
  <2> QED
    BY <2>1, <2>2
<1>6. ToTail(l, s) = t
  BY DEF ToTail, t, d
<1> QED
  BY <1>1, <1>2, <1>3, <1>5, <1>6

(* FirstOf finds the first one, or there is none.                          *)
LEMMA FirstOfFirst ==
    ASSUME NEW S, NEW l \in Seq(S), NEW T, NEW none, none \notin S
    PROVE  LET v == FirstOf(l, T, none)
           IN  /\ v = none => \A i \in DOMAIN l : l[i] \notin T
               /\ v # none => \E i \in DOMAIN l :
                                /\ l[i] = v /\ v \in T
                                /\ \A j \in DOMAIN l : l[j] \in T => i <= j
<1> DEFINE D == {i \in DOMAIN l : l[i] \in T}
           P(i) == l[i] \in T /\ \A j \in DOMAIN l : l[j] \in T => i <= j
           c == CHOOSE i \in DOMAIN l : P(i)
<1>1. CASE D = {}
  <2>1. \A i \in DOMAIN l : l[i] \notin T
    BY <1>1
  <2>2. FirstOf(l, T, none) = none
    BY <2>1 DEF FirstOf
  <2> QED
    BY <2>1, <2>2
<1>2. CASE D # {}
  <2>1. D \subseteq Nat
    OBVIOUS
  <2> HIDE DEF D
  <2>2. PICK i \in D : \A j \in D : i <= j
    BY <1>2, <2>1, NatMin
  <2>3. \E k \in DOMAIN l : P(k)
    BY <2>2 DEF D
  <2>4. c \in DOMAIN l /\ P(c)
    BY <2>3
  <2>5. FirstOf(l, T, none) = l[c]
    BY <2>3 DEF FirstOf
  <2>6. l[c] \in S
    BY <2>4, ElementOfSeq
  <2> HIDE DEF c
  <2> QED
    BY <2>4, <2>5, <2>6
<1> QED
  BY <1>1, <1>2

(* A close takes one client, and its backend, which is none.               *)
LEMMA CloseLastIo ==
    ASSUME IInv, LastIoInv, NEW s \in Socks, kind[s] # "backend", NEW c,
           WebserverConnectionManagerCloseRequest(s, c),
           pc' = pc, acc'.noted = acc.noted, pc = "admit" => s \notin acc.noted
    PROVE  LastIoInv'
<1>1. lru \in Seq(Socks) /\ NoRepeats(lru) /\ Elems(lru) = Clients /\ lru' = Drop(lru, s)
  BY DEF IInv, TypeOK, LastIoInv, WebserverConnectionManagerCloseRequest
<1>2. NoRepeats(lru') /\ Elems(lru') = Clients \ {s}
  BY <1>1, DropElems
<1>3. Clients' = Clients \ {s}
  <2>1. backend[s] # NoSock => kind[backend[s]] = "backend"
    BY DEF IInv, ContainerConsistent
  <2>2. \A x \in Socks : kind'[x] = IF x \in Released(s) THEN "free" ELSE kind[x]
    BY DEF WebserverConnectionManagerCloseRequest
  <2> QED
    BY <2>1, <2>2 DEF Clients, Released
<1>4. ASSUME pc' = "admit"
      PROVE  (\A x \in acc'.noted : pending'[x]) /\ ComeLast(lru', acc'.noted)
  <2>1. ComeLast(lru, acc.noted) /\ \A x \in acc.noted : pending[x] /\ x # s
    BY <1>4 DEF LastIoInv
  <2>2. ComeLast(lru', acc.noted)
    BY <1>1, <2>1, DropComeLast
  <2>3. acc.noted \subseteq Socks /\ pending' = [pending EXCEPT ![s] = FALSE]
        /\ pending \in [Socks -> BOOLEAN]
    BY DEF IInv, TypeOK, CallType, WebserverConnectionManagerCloseRequest
  <2> QED
    BY <2>1, <2>2, <2>3
<1> QED
  BY <1>2, <1>3, <1>4 DEF LastIoInv

(* A transfer on a client moves it to the end; a call may note it.         *)
LEMMA TouchLastIo ==
    ASSUME IInv, LastIoInv, NEW s \in Clients, lru' = ToTail(lru, s), kind' = kind,
           pc' = "admit" => /\ pc = "admit" /\ pending' = pending /\ pending[s]
                            /\ acc'.noted = acc.noted \cup {s}
    PROVE  LastIoInv'
<1>1. lru \in Seq(Socks) /\ NoRepeats(lru) /\ Elems(lru) = Clients /\ s \in Socks
  BY DEF IInv, TypeOK, LastIoInv, Clients
<1>2. /\ NoRepeats(lru') /\ Elems(lru') = Clients \cup {s}
      /\ \A N : ComeLast(lru, N) => ComeLast(lru', N \cup {s})
  BY <1>1, ToTailElems
<1>3. Clients' = Clients
  BY DEF Clients
<1> QED
  BY <1>2, <1>3 DEF LastIoInv

(* What leaves the clients and their order alone.                          *)
LEMMA SameLastIo ==
    ASSUME LastIoInv, UNCHANGED lru, Clients' = Clients,
           pc' = "admit" => \/ acc'.noted = {}
                            \/ /\ pc = "admit" /\ acc'.noted = acc.noted
                               /\ \A s \in acc.noted : pending[s] => pending'[s]
    PROVE  LastIoInv'
  BY DEF LastIoInv, ComeLast

(* No step disturbs it.                                                    *)
LEMMA LastIoStep ==
    ASSUME IInv, LastIoInv, [Next]_vars
    PROVE  LastIoInv'
<1>0. TypeOK
  BY DEF IInv
<1>1. ASSUME NEW k \in Keys \cup {NoKey}, Accept(k) PROVE LastIoInv'
  <2>1. UNCHANGED <<lru, kind>> /\ acc'.noted = {}
    BY <1>1 DEF Accept, sockVars, NoCall
  <2> QED
    BY <2>1, SameLastIo DEF Clients
<1>2. CASE AdmitSpare
  <2> DEFINE v == connLimitPickVictim(acc.key)
  <2>1. v # NoSock /\ pending[v] /\ lru' = ToTail(lru, v) /\ acc' = [acc EXCEPT !.noted = @ \cup {v}]
    BY <1>2 DEF AdmitSpare, AdmitStops
  <2>2. v \in Clients
    BY <1>0, <2>1, AddressVictim DEF Clients, connLimitIsEvictable
  <2>3. UNCHANGED <<kind, pending, pc>> /\ pc = "admit"
    BY <1>2 DEF AdmitSpare
  <2> HIDE DEF v
  <2>4. acc'.noted = acc.noted \cup {v}
    BY <1>0, <2>1 DEF TypeOK, CallType
  <2> QED
    BY <2>1, <2>2, <2>3, <2>4, TouchLastIo
<1>3. CASE AdmitEvict
  <2> DEFINE v == connLimitPickVictim(acc.key)
  <2>1. v # NoSock /\ v \notin acc.noted /\ WebserverConnectionManagerCloseRequest(v, cont)
        /\ pc' = pc /\ acc' = acc
    BY <1>3 DEF AdmitEvict, AdmitStops
  <2>2. v \in Socks /\ kind[v] # "backend"
    BY <1>0, <2>1, AddressVictim DEF connLimitIsEvictable
  <2> HIDE DEF v
  <2> QED
    BY <2>1, <2>2, CloseLastIo
<1>4. CASE ScanEvict
  <2> DEFINE v == connLimitPickGlobalVictim
  <2>1. v # NoSock /\ WebserverConnectionManagerCloseRequest(v, Moved) /\ pc' = pc /\ pc = "scan"
        /\ acc' = [acc EXCEPT !.tries = @ + 1]
    BY <1>4 DEF ScanEvict
  <2>2. cont.clients > 0
    BY <1>0, <1>4, ScanHasClients DEF IInv, ScanEvict
  <2>3. v \in Socks /\ kind[v] # "backend"
    BY <1>0, <2>1, <2>2, GlobalVictim DEF connLimitIsEvictable, IInv
  <2>4. acc'.noted = acc.noted
    BY <1>0, <2>1 DEF TypeOK, CallType
  <2> HIDE DEF v
  <2> QED
    BY <2>1, <2>3, <2>4, CloseLastIo
<1>5. CASE ScanSpare
  <2> DEFINE v == connLimitPickGlobalVictim
  <2>1. v # NoSock /\ lru' = ToTail(lru, v) /\ kind' = kind /\ pc' = "scan"
    BY <1>5 DEF ScanSpare
  <2>2. cont.clients > 0
    BY <1>0, <1>5, ScanHasClients DEF IInv, ScanSpare
  <2>3. v \in Clients
    BY <1>0, <2>1, <2>2, GlobalVictim DEF connLimitIsEvictable, IInv, Clients
  <2> HIDE DEF v
  <2> QED
    BY <2>1, <2>3, TouchLastIo
<1>6. CASE AdmitOk \/ AdmitRefuse \/ TotalCheck \/ ScanRoom \/ ScanRefuse \/ BackendFails
  <2>1. UNCHANGED <<lru, kind>> /\ pc' # "admit"
    BY <1>6 DEF AdmitOk, AdmitRefuse, TotalCheck, ScanRoom, ScanRefuse, BackendFails, sockVars
  <2> QED
    BY <2>1, SameLastIo DEF Clients
<1>7. ASSUME NEW s \in Socks, AddClient(s) PROVE LastIoInv'
  <2>1. lru' = ToTail(lru, s) /\ kind' = [kind EXCEPT ![s] = "client"] /\ pc' = "loop"
    BY <1>7 DEF AddClient
  <2>2. lru \in Seq(Socks) /\ NoRepeats(lru) /\ Elems(lru) = Clients
    BY <1>0 DEF TypeOK, LastIoInv
  <2>3. NoRepeats(lru') /\ Elems(lru') = Clients \cup {s}
    BY <2>1, <2>2, ToTailElems
  <2>4. Clients' = Clients \cup {s}
    BY <1>0, <2>1 DEF TypeOK, Clients
  <2> QED
    BY <2>1, <2>3, <2>4 DEF LastIoInv
<1>8. ASSUME NEW s \in Socks, AddBackend(s) PROVE LastIoInv'
  <2>1. UNCHANGED lru /\ kind' = [kind EXCEPT ![s] = "backend"] /\ kind[s] = "free" /\ pc' = "loop"
    BY <1>8 DEF AddBackend
  <2>2. Clients' = Clients
    BY <1>0, <2>1 DEF TypeOK, Clients
  <2> QED
    BY <2>1, <2>2, SameLastIo
<1>9. ASSUME NEW s \in Socks, NEW m \in Modes, Read(s, m) PROVE LastIoInv'
  <2>1. lru' = ToTail(lru, s) /\ kind' = kind /\ pc' # "admit" /\ s \in Clients
    BY <1>9 DEF Read, connLimitIsEvictable, Clients
  <2> QED
    BY <2>1, TouchLastIo
<1>10. ASSUME NEW s \in Socks, Finish(s) PROVE LastIoInv'
  <2>1. lru' = ToTail(lru, s) /\ kind' = kind /\ pc' # "admit" /\ s \in Clients
    BY <1>10 DEF Finish, Clients
  <2> QED
    BY <2>1, TouchLastIo
<1>11. ASSUME NEW s \in Socks, Close(s) PROVE LastIoInv'
  <2>1. /\ WebserverConnectionManagerCloseRequest(s, cont) /\ kind[s] # "backend"
        /\ pc' = pc /\ acc' = acc /\ pc # "admit"
    BY <1>11 DEF Close
  <2> QED
    BY <2>1, CloseLastIo
<1>12. CASE DeleteHead
  <2> DEFINE h == Head(cont.list)
  <2>1. /\ WebserverConnectionManagerCloseRequest(h, cont) /\ cont.list # <<>>
        /\ pc' = pc /\ acc' = acc /\ pc # "admit"
    BY <1>12 DEF DeleteHead
  <2>2. h \in Socks /\ kind[h] # "backend"
    BY <2>1, HeadIsNoBackend
  <2> HIDE DEF h
  <2> QED
    BY <2>1, <2>2, CloseLastIo
<1>13. ASSUME NEW s \in Socks, Arrive(s) PROVE LastIoInv'
  <2>1. UNCHANGED <<lru, kind, pc, acc>> /\ pending' = [pending EXCEPT ![s] = TRUE]
    BY <1>13 DEF Arrive
  <2>2. \A x \in acc.noted : pending[x] => pending'[x]
    BY <1>0, <2>1 DEF TypeOK, CallType
  <2> QED
    BY <2>1, <2>2, SameLastIo DEF Clients
<1>14. CASE \/ Shutdown \/ Stopped \/ UNCHANGED vars
            \/ \E n \in Limits : connLimitSetMax(n)
            \/ \E n \in Totals : connLimitSetConfig(n)
  <2>1. UNCHANGED <<lru, kind, pending, acc>> /\ (pc' = "admit" => pc = "admit")
    BY <1>14 DEF Shutdown, Stopped, vars, sockVars, connLimitSetMax, connLimitSetConfig
  <2> QED
    BY <2>1, SameLastIo DEF Clients
<1> QED
  BY <1>1, <1>2, <1>3, <1>4, <1>5, <1>6, <1>7, <1>8, <1>9, <1>10, <1>11, <1>12, <1>13, <1>14
     DEF Next, Call

(* conn_limit_admit() meets a victim it has noted only after every other   *)
(* idle connection of the address: a connection is turned away only if     *)
(* each of the others is busy or has a request waiting.                    *)
THEOREM RefusedForReason == Spec => RefusedOnlyIfBusy
<1> DEFINE B(s) == mode[s] \notin {"idle", "proxyRecv"} \/ pending[s]
           A == pc = "admit" /\ pc' = "loop" => \A s \in Members(acc.key) : B(s)
<1>1. Init => LastIoInv
  BY DEF Init, LastIoInv, NoRepeats, Elems, Clients
<1>2. IInv /\ LastIoInv /\ [Next]_vars => LastIoInv'
  BY LastIoStep
<1>3. IInv /\ LastIoInv /\ [Next]_vars => [A]_vars
  <2> SUFFICES ASSUME IInv, LastIoInv, [Next]_vars, pc = "admit", pc' = "loop",
                      NEW s \in Members(acc.key), mode[s] \in {"idle", "proxyRecv"}
               PROVE  pending[s]
    OBVIOUS
  <2>1. AdmitRefuse
    BY DEF Next, Call, vars, Accept, AdmitSpare, AdmitEvict, AdmitOk, TotalCheck, ScanSpare,
           ScanEvict, ScanRoom, ScanRefuse, ScanOver, AddClient, AddBackend, BackendFails, Read,
           Finish, Close, Arrive, Shutdown, DeleteHead, Stopped, connLimitSetMax, connLimitSetConfig
  <2> DEFINE T == {x \in Members(acc.key) : connLimitIsEvictable(x)}
             v == FirstOf(lru, T, NoSock)
  <2>2. s \in Socks /\ kind[s] = "client"
    BY DEF Members, IInv, GroupsConsistent, CallConsistent
  <2>3. s \in T
    BY <2>2 DEF connLimitIsEvictable
  <2>4. PICK j \in DOMAIN lru : lru[j] = s
    BY <2>2 DEF LastIoInv, Clients, Elems
  <2>5. v = NoSock \/ v \in acc.noted
    BY <2>1 DEF AdmitRefuse, AdmitStops, connLimitPickVictim
  <2>6. lru \in Seq(Socks) /\ NoSock \notin Socks
    BY ConnLimitAssumption DEF IInv, TypeOK
  <2> HIDE DEF T
  <2>7. /\ v = NoSock => \A i \in DOMAIN lru : lru[i] \notin T
        /\ v # NoSock => \E i \in DOMAIN lru : lru[i] = v /\ \A k \in DOMAIN lru : lru[k] \in T => i <= k
    BY <2>6, FirstOfFirst
  <2>8. v # NoSock
    BY <2>3, <2>4, <2>7
  <2>9. PICK i \in DOMAIN lru : lru[i] = v /\ \A k \in DOMAIN lru : lru[k] \in T => i <= k
    BY <2>7, <2>8
  <2>10. v \in acc.noted /\ i <= j
    BY <2>3, <2>4, <2>5, <2>8, <2>9
  <2> HIDE DEF v
  <2>11. i \in Nat /\ j \in Nat
    BY <2>6
  <2>12. s \in acc.noted
    <3>1. CASE i = j
      BY <2>4, <2>9, <2>10, <3>1
    <3>2. CASE i < j
      BY <2>4, <2>9, <2>10, <3>2 DEF LastIoInv, ComeLast
    <3> QED
      BY <2>10, <2>11, <3>1, <3>2
  <2> QED
    BY <2>12 DEF LastIoInv
<1> QED
  BY Invariance, <1>1, <1>2, <1>3, PTL DEF Spec, RefusedOnlyIfBusy
=============================================================================
