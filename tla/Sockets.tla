------------------------------- MODULE Sockets -------------------------------
(***************************************************************************)
(* A connected socket as system_sockets_send.c, system_sockets_recv.c and  *)
(* the epoll backend see it, together with the peer at its other end.      *)
(* Data is a sequence of units; a peer that does not read stops the        *)
(* sender, a TLS record is decrypted as a whole and then kept where epoll  *)
(* does not see it.                                                        *)
(***************************************************************************)
EXTENDS Integers, Sequences

CONSTANT Window  \* units a socket takes before its reader has to read

ASSUME WindowAssumption == Window \in Nat \ {0}

Least(m, n) == IF m < n THEN m ELSE n
IsPrefixOf(s, t) == Len(s) <= Len(t) /\ s = SubSeq(t, 1, Len(s))
Repeat(u, n) == [i \in 1..n |-> u]

(* The sockets.  got is all that was ever written to the peer, read what it *)
(* has taken of it; kin is in the kernel for us to read, its first pend     *)
(* units are decrypted in the TLS layer already, where epoll sees nothing.  *)

Room(peer) == Window - (Len(peer.got) - peer.read)
\* What a send takes, over TLS in as many SSL_write() calls as it needs.
BytesSent(peer, units) == Least(Len(units), Room(peer))
Send(peer, units) == [peer EXCEPT !.got = @ \o SubSeq(units, 1, BytesSent(peer, units))]

Readable(s) == Len(s.kin) > s.pend \/ s.fin \/ s.gone \/ s.shut
Writable(s) == Room(s) > 0 \/ s.gone \/ s.shut
Ready(s) ==
  \/ s.ev \in {"read", "readonce", "readwrite"} /\ Readable(s)
  \/ s.ev \in {"write", "readwrite"} /\ Writable(s)
  \/ s.ev = "peerclose" /\ (s.fin \/ s.gone \/ s.shut)
  \/ s.ev # "none" /\ s.gone

\* A read of at most space units, and what it leaves: over TLS n units may be
\* left of the record it ended in.  After WebserverSSLPending() has said that
\* something is pending the next reads take that and no more, once nothing of
\* it is left they return nothing, until WebserverSSLPending() is asked again.
OnlyPending(s) == s.tls /\ s.known
Taken(s, space) == Least(space, IF OnlyPending(s) THEN s.pend ELSE Len(s.kin))
WebserverRecv(s, space, n) ==
  LET k == Taken(s, space)
  IN  [s EXCEPT !.kin = SubSeq(@, k + 1, Len(@)),
                !.pend = IF ~s.tls THEN 0 ELSE IF k <= s.pend THEN s.pend - k
                         ELSE Least(n, Len(s.kin) - k),
                !.known = s.known /\ s.pend > 0]
WebserverSSLPending(s) == [s EXCEPT !.known = s.pend > 0]
Disconnected(s) == ~OnlyPending(s) /\ (s.gone \/ (s.fin /\ s.kin = <<>>))

\* close is closeSocket, handle says that extern_handle is set.
Socket(units) ==
  [todo |-> units, kin |-> <<>>, pend |-> 0, known |-> FALSE, got |-> <<>>, read |-> 0, fin |-> FALSE,
   gone |-> FALSE, shut |-> FALSE, ev |-> "none", close |-> FALSE, handle |-> FALSE,
   open |-> FALSE, tls |-> FALSE]

\* A unit at a time or all there is: what lies between is a sequence of these.
Some(n) == {m \in {1, n} : 1 <= m /\ m <= n}

=============================================================================
