------------------------------ MODULE SockList ------------------------------
(***************************************************************************)
(* Operators on the ordered collections of sockets of the connection       *)
(* container: the intrusive list sock_list_head .. sock_list_tail and the  *)
(* order of last transfers (socket_info::last_io).  Both are sequences     *)
(* without repetitions.  Written as functions on 1..n and not with         *)
(* SelectSeq, so that the proofs can reason about them index by index.     *)
(***************************************************************************)
EXTENDS Integers, Sequences

\* The elements of a sequence.
Elems(l) == {l[i] : i \in DOMAIN l}

\* No element occurs twice.
NoRepeats(l) == \A i, j \in DOMAIN l : l[i] = l[j] => i = j

\* Where s stands in l (s occurs in l).
IndexIn(l, s) == CHOOSE i \in DOMAIN l : l[i] = s

\* l without s; l itself when s is not in it.
Drop(l, s) ==
    IF s \in Elems(l)
      THEN LET i == IndexIn(l, s)
           IN  [j \in 1 .. Len(l) - 1 |-> IF j < i THEN l[j] ELSE l[j + 1]]
      ELSE l

\* s moved (or added) to the end of l.
ToTail(l, s) == Append(Drop(l, s), s)

\* The element behind s in l, none at the tail.
NextIn(l, s, none) ==
    LET i == IndexIn(l, s) IN IF i < Len(l) THEN l[i + 1] ELSE none

\* The member of the set S that comes first in l, none if there is none.
FirstOf(l, S, none) ==
    IF \E i \in DOMAIN l : l[i] \in S
      THEN l[CHOOSE i \in DOMAIN l :
                /\ l[i] \in S
                /\ \A j \in DOMAIN l : l[j] \in S => i <= j]
      ELSE none
=============================================================================
