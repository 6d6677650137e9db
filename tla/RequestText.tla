---------------------------- MODULE RequestText ----------------------------
(* What a client asks for, and what the server makes of the text it sends:  *)
(* the request line with its URL and parameters, the Cookie line, and the   *)
(* escapes in them (header_parser.c, cookie.c, convert.c).  Text is a       *)
(* sequence of bytes.                                                       *)
EXTENDS Integers, Sequences, SequencesExt, TLC

CONSTANT Asks   \* what clients ask for, and how they write it

VARIABLE ask    \* the request: what is asked for, how far it is parsed, what the header holds
askVars == <<ask>>

Nul == 0
Blank == 32
Percent == 37
Ampersand == 38
Plus == 43
Dot == 46
Zero == 48
Semicolon == 59
Equals == 61
Question == 63

Unset == <<-1>>   \* no value at all, not even an empty one
Script == <<60, 115, 62>>   \* stands for <script> and </script>

NoText == [url |-> <<>>, error |-> FALSE, parameters |-> <<>>, cookies |-> <<>>]

---------------------------------------------------------------------------
(* Reading.                                                                 *)

toHex(c) ==
  CASE c \in 48..57  -> c - 48
    [] c \in 97..102 -> c - 87
    [] c \in 65..70  -> c - 55
    [] OTHER -> 0

\* What C sees of a buffer.
CString(s) ==
  LET nuls == {i \in DOMAIN s : s[i] = Nul}
  IN  IF nuls = {} THEN s ELSE SubSeq(s, 1, (CHOOSE i \in nuls : \A j \in nuls : i <= j) - 1)

\* Faulty: an escape at the very end stays as it is.
DecodeButLast(line) ==
  LET From[i \in 1..Len(line) + 1] ==
        IF i > Len(line) THEN <<>>
        ELSE IF line[i] = Percent /\ Len(line) - i > 2
        THEN <<16 * toHex(line[i + 1]) + toHex(line[i + 2])>> \o From[i + 3]
        ELSE <<IF line[i] = Plus THEN Blank ELSE line[i]>> \o From[i + 1]
  IN  CString(From[1])

url_decode(line) ==
  LET From[i \in 1..Len(line) + 1] ==
        IF i > Len(line) THEN <<>>
        ELSE IF line[i] = Percent /\ Len(line) - i >= 2
        THEN <<16 * toHex(line[i + 1]) + toHex(line[i + 2])>> \o From[i + 3]
        ELSE <<IF line[i] = Plus THEN Blank ELSE line[i]>> \o From[i + 1]
  IN  CString(From[1])

\* The position of the last byte of the match, counted from 0.  After a
\* mismatch the byte that did not match is not tried as a beginning.
stringfind(buffer, pattern) ==
  LET At[i \in 1..Len(buffer) + 1, k \in 1..Len(pattern)] ==
        IF i > Len(buffer) THEN 0
        ELSE IF buffer[i] # pattern[k] THEN At[i + 1, 1]
        ELSE IF k = Len(pattern) THEN i - 1
        ELSE At[i + 1, k + 1]
  IN  At[1, 1]

\* newVariable() finds the parameter of that name again.
createParameter(h, name, value) ==
  LET n == url_decode(name)
      v == url_decode(value)
      old == IF n \in DOMAIN h.parameters THEN h.parameters[n] ELSE Unset
  IN  IF value = Unset THEN [h EXCEPT !.parameters = (n :> old) @@ @]
      ELSE [h EXCEPT !.parameters = (n :> v) @@ @, !.error = @ \/ stringfind(v, Script) > 0]

createCookie(h, name, value) ==
  [h EXCEPT !.cookies = Append(@, [name |-> url_decode(name),
                                   value |-> IF value = Unset THEN <<>> ELSE url_decode(value)])]

\* The loop over a line of pairs: the pairs found, where the name begins and
\* ends, and whether a value is being read.  Behind a semicolon blanks are
\* passed over; a name that is empty in front of a separator is no pair.
BeginsAt(line, separator, i) ==
  IF separator = Ampersand THEN i
  ELSE CHOOSE j \in i..Len(line) + 1 : /\ j > Len(line) \/ line[j] # Blank
                                       /\ \A k \in i..j - 1 : line[k] = Blank

Pair(name, value) == [name |-> name, value |-> value]
Pairs(line, separator) ==
  LET Step(a, i) ==
        IF i < a.begin THEN a
        ELSE IF a.state = "NAME" /\ line[i] = separator
        THEN [a EXCEPT !.found = IF i > a.begin THEN Append(@, Pair(SubSeq(line, a.begin, i - 1), Unset)) ELSE @,
                       !.begin = BeginsAt(line, separator, i + 1)]
        ELSE IF a.state = "NAME" /\ line[i] = Equals
        THEN [a EXCEPT !.end = i, !.state = "VALUE"]
        ELSE IF a.state = "VALUE" /\ line[i] = separator
        THEN [a EXCEPT !.found = Append(@, Pair(SubSeq(line, a.begin, a.end - 1), SubSeq(line, a.end + 1, i - 1))),
                       !.begin = BeginsAt(line, separator, i + 1), !.state = "NAME"]
        ELSE a
  IN  FoldLeft(Step, [found |-> <<>>, state |-> "NAME", begin |-> 1, end |-> 1], [i \in DOMAIN line |-> i])

LastPair(a, line) ==
  IF a.state = "NAME" THEN Pair(SubSeq(line, a.begin, Len(line)), Unset)
  ELSE Pair(SubSeq(line, a.begin, a.end - 1), SubSeq(line, a.end + 1, Len(line)))

\* An empty name at the end of the line is a parameter, unlike one in front of a separator.
recieveParameterFromGet(h, line) ==
  LET a == Pairs(line, Ampersand)
      Create(g, p) == createParameter(g, p.name, p.value)
  IN  IF line = <<>> THEN h ELSE FoldLeft(Create, h, Append(a.found, LastPair(a, line)))

parseCookies(h, line) ==
  LET a == Pairs(line, Semicolon)
      last == IF a.state = "VALUE" \/ Len(line) >= a.begin THEN <<LastPair(a, line)>> ELSE <<>>
      Create(g, p) == createCookie(g, p.name, p.value)
  IN  FoldLeft(Create, h, a.found \o last)

\* Escapes are resolved before the checks, all but the one that would end the text.
url_sanity_check(h) ==
  LET url == url_decode(h.url)
  IN  IF h.error THEN h
      ELSE IF stringfind(h.url, <<Percent, Zero, Zero>>) > 0 THEN [h EXCEPT !.error = TRUE]
      ELSE [h EXCEPT !.url = url,
                     !.error = stringfind(url, <<Dot, Dot>>) > 0 \/ stringfind(url, Script) > 0]

\* The target of the request line, between the method and the version.
Target(h, target) ==
  LET marks == {i \in DOMAIN target : target[i] = Question}
      mark == CHOOSE i \in marks : \A j \in marks : i <= j
  IN  url_sanity_check(
        IF marks = {} THEN [h EXCEPT !.url = target]
        ELSE recieveParameterFromGet([h EXCEPT !.url = SubSeq(target, 1, mark - 1)],
                                     SubSeq(target, mark + 1, Len(target))))

---------------------------------------------------------------------------
(* Writing: the client escapes what would be read as something else, and    *)
(* whatever else it likes to, in digits of either case.                     *)

Digit(n, upper) == IF n < 10 THEN 48 + n ELSE IF upper THEN 55 + n ELSE 87 + n
Escape(c, upper) == <<Percent, Digit(c \div 16, upper), Digit(c % 16, upper)>>

Meaningful == {Blank, Percent, Ampersand, Plus, Semicolon, Equals, Question}

Written(t, how) ==
  FlattenSeq([i \in DOMAIN t |->
    IF t[i] = Blank /\ how.plus THEN <<Plus>>
    ELSE IF t[i] \in Meaningful \/ i \in how.escaped THEN Escape(t[i], how.upper)
    ELSE <<t[i]>>])

WrittenPair(p, how) ==
  Written(p.name, how) \o (IF p.value = Unset THEN <<>> ELSE <<Equals>> \o Written(p.value, how))

Joined(ps, separator, how) ==
  FlattenSeq([i \in DOMAIN ps |-> (IF i = 1 THEN <<>> ELSE separator) \o WrittenPair(ps[i], how)])

---------------------------------------------------------------------------
askStart(a) == ask = [want |-> a, at |-> "line", h |-> NoText]
askInit == \E a \in Asks : askStart(a)

RequestLine ==
  /\ ask.at = "line"
  /\ LET w == ask.want
         h == Target(ask.h, Written(w.url, w.how)
                            \o (IF w.pairs = <<>> THEN <<>>
                                ELSE <<Question>> \o Joined(w.pairs, <<Ampersand>>, w.how)))
     IN  ask' = [ask EXCEPT !.h = h, !.at = IF h.error THEN "refused" ELSE "fields"]

CookieLine ==
  /\ ask.at = "fields"
  /\ LET w == ask.want
     IN  ask' = [ask EXCEPT !.at = "done",
                            !.h = IF w.cookies = <<>> THEN @
                                  ELSE parseCookies(@, Joined(w.cookies, <<Semicolon>> \o w.how.blanks, w.how))]

askNext == RequestLine \/ CookieLine

---------------------------------------------------------------------------
(* Properties.                                                              *)

OccursIn(t, s) == \E i \in 1..Len(t) - Len(s) + 1 : SubSeq(t, i, i + Len(s) - 1) = s

\* The value a name has in the end: that of its last pair that has one.
Meant(pairs, n) ==
  LET given == {i \in DOMAIN pairs : pairs[i].name = n /\ pairs[i].value # Unset}
  IN  IF given = {} THEN Unset
      ELSE pairs[CHOOSE i \in given : \A j \in given : j <= i].value

\* What arrives is what was asked for, however it is escaped and whatever of
\* it looks like a separator or an escape: the URL, every parameter and every
\* cookie in order (recieveParameterFromGet(), parseCookies(), url_decode()).
\* url_sanity_check() refuses every URL with two dots in a row, in whatever
\* way they are written, and nothing that is harmless.
TextArrives ==
  LET w == ask.want
      values == {w.pairs[i].value : i \in DOMAIN w.pairs}
  IN  /\ ask.at = "done" =>
           /\ ask.h.url = w.url /\ ~OccursIn(w.url, <<Dot, Dot>>)
           /\ ask.h.parameters = [n \in {w.pairs[i].name : i \in DOMAIN w.pairs} |-> Meant(w.pairs, n)]
           /\ ask.h.cookies = [i \in DOMAIN w.cookies |->
                                 [w.cookies[i] EXCEPT !.value = IF @ = Unset THEN <<>> ELSE @]]
      /\ ask.at = "refused" =>
           OccursIn(w.url, <<Dot, Dot>>) \/ \E t \in {w.url} \cup values : OccursIn(t, Script)
=============================================================================
