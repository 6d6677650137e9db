--------------------------- MODULE MCReverseProxy ---------------------------
(* Requests and responses for ReverseProxy: every framing, the refused ones *)
(* and broken ones included, with headers and bodies of a few units.        *)
EXTENDS ReverseProxy

NotANumber == -9
Line(n, v) == [name |-> n, value |-> <<v>>]
Length(n) == Line("Content-Length", n)
Upgrade(p) == <<[name |-> "Connection", value |-> <<"keep-alive", "upgrade">>], Line("Upgrade", p)>>

Header(n) == Repeat("h", n - 1) \o <<"H">>
Request(lines, hdr, body, extra) ==
  [lines |-> lines, hdr |-> hdr, extra |-> extra,
   units |-> Header(hdr) \o Repeat("b", body) \o Repeat("x", extra)]
Response(status, lines, hdr, body, complete) ==
  [status |-> status, lines |-> lines, hdr |-> hdr, complete |-> complete,
   len |-> hdr + Len(body), units |-> Header(hdr) \o body]

Get     == Request(<<>>, 2, 0, 0)
Post    == Request(<<Line("Connection", "keep-alive"), Length(3)>>, 2, 3, 0)
Tunnel  == Request(Upgrade("websocket"), 2, 0, 2)
Refused ==
  {Request(<<Length(NotANumber)>>, 2, 1, 0),
   Request(<<Length(1), Length(1)>>, 2, 1, 0),
   Request(<<Length(1), Line("Transfer-Encoding", "gzip")>>, 2, 1, 0),
   Request(<<[name |-> "Transfer-Encoding", value |-> <<"gzip", "chunked">>]>>, 2, 1, 0),
   Request(<<Line("Transfer-Encoding", "chunked"), Line("Transfer-Encoding", "gzip")>>, 2, 1, 0),
   Request(<<>>, 4, 0, 0),
   Request(<<Length(6)>>, 2, 6, 0)}

Chunked == Line("Transfer-Encoding", "chunked")
Size(u) == <<u, "cr", "lf">>
Full == Response(200, <<Chunked>>, 2, Size("1") \o <<"z", "cr", "lf">> \o Size("0") \o <<"cr", "lf">>, TRUE)
Closing == Line("Connection", "keep-alive")

Answers ==
  {Full,
   Response(200, <<Chunked>>, 2, <<"0", ";", "z", "cr", "lf", "t", "cr", "lf", "cr", "lf">>, TRUE),
   Response(200, <<Chunked>>, 2, <<"2", "0", "cr", "lf">>, FALSE),
   Response(200, <<Chunked>>, 2, <<"cr", "lf", "cr", "lf">>, FALSE),
   Response(200, <<Length(3), Closing>>, 2, Repeat("y", 3), TRUE),
   Response(200, <<Length(3)>>, 2, Repeat("y", 1), FALSE),
   Response(204, <<>>, 2, <<>>, TRUE),
   Response(200, <<>>, 2, Repeat("y", 2), FALSE),
   Response(200, <<Length(1), Chunked>>, 2, <<"y">>, FALSE),
   Response(101, Upgrade("websocket"), 2, <<>>, FALSE),
   Response(200, <<>>, 6, <<>>, FALSE)}

Plain(q, s) == [req |-> q, res |-> s, tls |-> FALSE]
OverTls(q, s) == [req |-> q, res |-> s, tls |-> TRUE]


\* Every answer to the plain request, bodies, extra bytes and tunnels with one
\* or two of them, and each refused request once.
Short == Response(200, <<Line("Connection", "x"), Length(1)>>, 2, <<"y">>, TRUE)
Switch(p) == Response(101, Upgrade(p), 2, Repeat("y", 2), FALSE)
AllExchanges ==
  {Plain(Get, a) : a \in Answers}
  \cup {Plain(Tunnel, Switch("websocket")), Plain(Tunnel, Switch("h2c")), Plain(Tunnel, Short)}
  \cup {Plain(Request(<<Length(1), Line("Connection", "x")>>, 1, 1, 2), Short)}
  \cup {Plain(Post, Short), OverTls(Post, Short)}
  \cup {OverTls(Request(Upgrade("websocket"), 2, 0, 1), Switch("websocket"))}
  \cup {Plain(q, Full) : q \in Refused}

\* A request with a second one behind it in the same TLS record.
Pipelined == {OverTls(Request(<<>>, 2, 0, 2), Short)}

=============================================================================
