----------------------------- MODULE MCReceivers ----------------------------
(* The receivers that the network feeds: HTTP requests, the text of their   *)
(* lines, multipart uploads and websocket frames.  One of them moves in a   *)
(* behaviour.                                                               *)
EXTENDS HttpConnection, PostStream, WsFrames, RequestText

VARIABLE receiver
receiverVars == <<receiver, httpVars, postVars, wsfVars, askVars>>

---------------------------------------------------------------------------
Lines(fields) == <<"line">> \o fields \o <<"end">>
Get(target) ==
  [method |-> "GET", v11 |-> TRUE, conn |-> "", length |-> 0, badlength |-> FALSE, content |-> "none",
   limit |-> 0, nosetup |-> FALSE, malformed |-> FALSE, ws |-> "none", proxied |-> FALSE, target |-> target,
   deflate |-> FALSE, deflates |-> TRUE, parts |-> 0, lines |-> Lines(<<>>), body |-> 0]
Old(q) == [q EXCEPT !.v11 = FALSE]
Saying(q, c) == [q EXCEPT !.conn = c, !.lines = Lines(<<"connection">>)]
Post(content, n) ==
  [Get("page") EXCEPT !.method = "POST", !.content = content, !.length = n, !.body = n, !.limit = 3,
                      !.lines = Lines(<<"length">>)]
Long(q, n) == [q EXCEPT !.parts = n]
Upgrade(key) == [Get("page") EXCEPT !.conn = "upgrade", !.ws = key, !.lines = Lines(<<"connection", "key">>)]

Big == [Get("big") EXCEPT !.deflate = TRUE]
Stubborn == [Big EXCEPT !.deflates = FALSE]
Bad == [Get("page") EXCEPT !.method = "bad"]
Options == [Get("page") EXCEPT !.method = "OPTIONS"]
Huge == [Get("page") EXCEPT !.lines = Lines(<<"other", "other", "other", "other">>)]
Proxied == [Get("page") EXCEPT !.proxied = TRUE]

Single ==
  {<<Get(t)>> : t \in {"unreadable", "notmodified", "denied", "empty"}}
  \cup {<<Upgrade(u)>> : u \in {"ok", "old", "badkey"}}
  \cup {<<[Post("form", 1) EXCEPT !.badlength = TRUE, !.conn = ""]>>, <<Post("noboundary", 1)>>, <<Post("form", 4)>>,
        <<[Post("stream", 1) EXCEPT !.malformed = TRUE]>>, <<[Post("stream", 0) EXCEPT !.nosetup = TRUE]>>,
        <<[Post("stream", 4) EXCEPT !.limit = 4]>>, <<[Post("stream", 4) EXCEPT !.limit = 0]>>,
        <<Huge>>, <<Long(Get("page"), 3)>>, <<Proxied>>, <<Stubborn, Get("page")>>}

\* Every request that leaves the connection open before every other.
First == {Get("page"), Get("ram"), Get("disk"), Get("denied"), Big, Options, Saying(Get("missing"), "close"),
          Old(Get("ram")), Post("form", 2), Post("parts", 3), Post("stream", 3), Post("form", 0)}
Second == {Old(Get("function")), Get("empty"), Big, Bad, Long(Get("page"), 1), Proxied, Post("form", 1),
           Post("stream", 2), Post("noboundary", 1)}

AllStreams ==
  {[reqs |-> s, tls |-> FALSE] :
     s \in Single \cup {<<q, r>> : q \in First, r \in Second}
          \cup {<<Old(Saying(Get("disk"), "keep-alive"))>>, <<Post("form", 1), Big, Bad>>,
                <<Post("stream", 1), Post("form", 2), Post("parts", 3)>>}}
  \cup {[reqs |-> s, tls |-> TRUE] :
           s \in {<<Post("stream", 3), Get("page")>>, <<Post("form", 3), Bad>>, <<Get("disk"), Big>>,
                  <<Get("page"), Proxied>>, <<Big, Post("stream", 2), Options>>}}

---------------------------------------------------------------------------
(* Registrations: refused ones first, then the same URL with and without    *)
(* the slash.                                                               *)
Registrations ==
  <<[slash |-> TRUE, name |-> <<>>, on |-> TRUE, max |-> 40],
    [slash |-> TRUE, name |-> <<"u">>, on |-> FALSE, max |-> 40],
    [slash |-> TRUE, name |-> <<"u", "u", "u">>, on |-> TRUE, max |-> 40],
    [slash |-> TRUE, name |-> <<"u">>, on |-> TRUE, max |-> 40],
    [slash |-> FALSE, name |-> <<"u">>, on |-> TRUE, max |-> 1]>>

Bound == <<"-", "-", "b">>
Line(t) == t \o <<CR, LF>>
Part(h, data) == Bound \o <<CR, LF>> \o h \o <<CR, LF>> \o data \o <<CR, LF>>
End == Bound \o <<"-", "-">>
F == Line(<<"file">>)
G == Line(<<"file2">>)
N == Line(<<"field">>)

\* Payloads that look like a boundary, up to the last byte.
Lookalikes ==
  {<<>>, <<"x">>, <<CR>>, <<CR, LF, "-">>, <<CR, CR, LF, "-", "-", "x">>, Delim, Delim \o <<"x", "-">>,
   Delim \o <<CR, CR>>, Delim \o <<"x", CR>>, Delim \o <<"-">>, Delim \o <<CR, CR, LF, "-", "-">>}

Complete ==
  {Part(F, d) \o End : d \in Lookalikes} \cup {Part(N, d) \o Part(G, <<"x">>) \o End : d \in Lookalikes}
  \cup {Part(F, <<"x">>) \o Part(G, d) \o Part(N, <<"x">>) \o End \o <<CR, LF>> : d \in {<<>>, Delim \o <<"x">>}}
  \cup {<<"x">> \o Line(<<"-">>) \o Bound \o <<"x">> \o Line(<<>>) \o Part(F, <<"x", "x">>) \o End}

\* No closing boundary, refused headers, headers that are too long (before and behind the part limit).
Broken ==
  {Part(F, <<"x", CR>>), Part(Line(<<"bad">>), <<"x">>) \o End, Bound, <<"x">>,
   Part(F, <<"x">>) \o Part(Line(<<"bad">>), <<>>) \o End,
   Part(N, <<"x">>) \o Part(<<"file", "y", "y", "y", CR, LF>>, <<>>) \o End,
   Part(F, <<>>) \o Part(F, <<"x">>) \o Part(N, <<>>) \o Part(<<"y", "y", "y", "y", "y", "y", "y">>, <<>>) \o End}

Uploads ==
  {[slash |-> FALSE, name |-> <<"u">>, authorized |-> TRUE, body |-> b] : b \in Complete \cup Broken}
  \cup {[slash |-> TRUE, name |-> <<"u">>, authorized |-> FALSE, body |-> Part(F, <<"x">>) \o Part(N, <<"x">>) \o End],
        [slash |-> TRUE, name |-> <<"v">>, authorized |-> TRUE, body |-> <<"x">>]}

---------------------------------------------------------------------------
Frame(op, fin, data) ==
  [op |-> op, fin |-> fin, rsv |-> FALSE, masked |-> TRUE, length |-> Len(data), data |-> data]
Text(d) == Frame("TEXT", TRUE, d)
Ping(d) == Frame("PING", TRUE, d)
Continue(fin, d) == Frame("CONTINUE", fin, d)
Buffered(fs) == [frames |-> fs, handler |-> FALSE, tls |-> FALSE, abortAt |-> 0]
Streamed(fs) == [frames |-> fs, handler |-> TRUE, tls |-> FALSE, abortAt |-> 0]

abc == <<"a", "b", "c">>
abcdef == abc \o <<"d", "e", "f">>
Fragments == <<Frame("TEXT", FALSE, <<"a">>), Ping(<<"p">>), Continue(FALSE, <<>>), Continue(TRUE, <<"b", "c">>), Text(<<"d">>)>>

Valid ==
  {<<Text(abc), Ping(<<"p", "q">>), Frame("BINARY", TRUE, <<"?", "x">>)>>, <<Text(abcdef), Text(<<"a">>)>>, Fragments,
   <<Text(<<"a">>), Frame("CLOSE", TRUE, <<"x">>), Text(<<"b">>)>>,
   <<Frame("BINARY", TRUE, abcdef \o <<"g", "h">>), Text(<<"a">>)>>}
Invalid ==
  {<<Text(<<>>), Text(<<"a", "?">>), Text(<<"b">>)>>, <<Frame("TEXT", FALSE, <<"?">>), Continue(TRUE, <<"a">>)>>,
   <<Frame("TEXT", FALSE, abc), Continue(FALSE, abc), Continue(TRUE, abc)>>, <<Continue(TRUE, <<"x">>)>>,
   <<Frame("BINARY", FALSE, <<"a">>), Text(<<"b">>)>>, <<Frame("PING", FALSE, <<>>)>>,
   <<Text(<<"a">>), Frame("RESERVED", TRUE, <<>>)>>,
   <<[Text(<<"a">>) EXCEPT !.rsv = TRUE]>>, <<[Text(<<"a">>) EXCEPT !.masked = FALSE]>>,
   <<[Text(<<"a">>) EXCEPT !.length = TopLength]>>, <<Frame("PONG", TRUE, <<"p">>), Frame("PONG", TRUE, abc)>>,
   <<[Frame("BINARY", TRUE, <<"a">>) EXCEPT !.length = MaxInBuffer + 1]>>, <<Text(abcdef \o <<"g", "h">>)>>,
   <<Frame("BINARY", FALSE, <<>>)>> \o [i \in 1..4 |-> Continue(FALSE, <<>>)]}
LongMessages ==
  {<<Text(abcdef), Text(<<"a">>)>>, <<Text(<<"a">>), Ping(<<"p">>), Text(abc)>>,
   <<Frame("BINARY", TRUE, abcdef \o <<"g", "h", "i", "j">>), Frame("CLOSE", TRUE, <<>>)>>}

Clients ==
  {Buffered(f) : f \in Valid \cup Invalid} \cup {Streamed(f) : f \in LongMessages}
  \cup {[Streamed(<<Text(abcdef), Text(<<"a">>)>>) EXCEPT !.abortAt = n] : n \in 1..4}
  \cup {[Streamed(Fragments) EXCEPT !.abortAt = n] : n \in 0..3}
  \cup {[Buffered(Fragments) EXCEPT !.tls = TRUE]}

\* A message that fits the first buffer, but not together with its header.
AtBufferEdge == {Buffered(<<Text(<<"a", "b", "c", "d">>)>>)}

---------------------------------------------------------------------------
(* Text: every byte that means something, a letter, a digit, and bytes with *)
(* letters in their escape.                                                 *)
Upto(n, S) == UNION {[1..k -> S] : k \in 0..n}
Nonempty(n, S) == Upto(n, S) \ {<<>>}
AnyBytes == {Blank, Percent, Ampersand, Plus, Zero, Semicolon, Equals, Question, 120, 239}
FewBytes == {Blank, Percent, Ampersand, Semicolon, Equals, 120}
PathBytes == {47, Dot, Percent, Zero, Plus, 120}

Plainly == [upper |-> TRUE, plus |-> FALSE, escaped |-> {}, blanks |-> <<Blank>>]
Ways ==
  {[Plainly EXCEPT !.upper = u, !.plus = p, !.escaped = e] : u, p \in BOOLEAN, e \in {{}, {1}}}
  \cup {[Plainly EXCEPT !.blanks = b] : b \in {<<>>, <<Blank, Blank>>}}

OfPair(names, texts) == [name : names, value : {Unset} \cup texts]
Lists ==
  {<<p>> : p \in OfPair(Nonempty(2, AnyBytes), Upto(1, AnyBytes)) \cup OfPair(Nonempty(1, AnyBytes), Upto(2, AnyBytes))}
  \cup {<<p, q>> : p, q \in OfPair(Nonempty(1, FewBytes), Upto(1, FewBytes))}
Scripts == {<<[name |-> <<120>>, value |-> v]>> : v \in {Script, <<120>> \o Script, SubSeq(Script, 1, 2)}}
ShortLists == {<<[name |-> <<120>>, value |-> v], [name |-> <<120>>, value |-> w]>> : v, w \in {Unset, <<>>, <<Zero>>}}

Asking(url, pairs, cookies, how) == [url |-> url, pairs |-> pairs, cookies |-> cookies, how |-> how]
AllAsks ==
  {Asking(<<120>>, l, <<>>, Plainly) : l \in Lists \cup Scripts}
  \cup {Asking(<<120>>, <<>>, l, Plainly) : l \in Lists}
  \cup {Asking(<<120>>, l, m, how) : l, m \in ShortLists, how \in Ways}
  \cup {Asking(<<120>>, l, l, how) : l \in {<<p>> : p \in OfPair(Nonempty(1, AnyBytes), Nonempty(1, AnyBytes))}, how \in Ways}
  \cup {Asking(u, <<>>, <<>>, [Plainly EXCEPT !.escaped = e]) : u \in Upto(4, PathBytes) \cup {Script}, e \in SUBSET (1..3)}

---------------------------------------------------------------------------
AnyUpload == PostStart(CHOOSE r \in Requests : TRUE, 0)
AnySession == WsfStart(CHOOSE s \in Sessions : TRUE)
AnyTraffic == httpStart(CHOOSE t \in Streams : TRUE)
AnyAsk == askStart(Asking(<<120>>, <<>>, <<>>, Plainly))

Init ==
  \/ receiver = "requests" /\ httpInit /\ AnyUpload /\ AnySession /\ AnyAsk
  \/ receiver = "upload" /\ PostInit /\ AnyTraffic /\ AnySession /\ AnyAsk
  \/ receiver = "frames" /\ WsfInit /\ AnyTraffic /\ AnyUpload /\ AnyAsk
  \/ receiver = "text" /\ AnyTraffic /\ AnyUpload /\ AnySession /\ askInit

Next ==
  \/ receiver = "requests" /\ httpNext /\ UNCHANGED <<receiver, postVars, wsfVars, askVars>>
  \/ receiver = "upload" /\ PostNext /\ UNCHANGED <<receiver, httpVars, wsfVars, askVars>>
  \/ receiver = "frames" /\ WsfNext /\ UNCHANGED <<receiver, httpVars, postVars, askVars>>
  \/ receiver = "text" /\ askNext /\ UNCHANGED <<receiver, httpVars, postVars, wsfVars>>

Spec == Init /\ [][Next]_receiverVars
=============================================================================
