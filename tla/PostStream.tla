----------------------------- MODULE PostStream -----------------------------
(* Streaming of multipart uploads (post_streaming.c): the body of a request *)
(* is cut anywhere by the network, the parser splits it at the boundary and *)
(* hands the file parts to a registered handler, form fields are buffered   *)
(* within limits.  Bytes are tokens; a token that stands for a whole header *)
(* line tells what Content-Disposition the part has.  Uses recursion over   *)
(* the bytes, so this module is for TLC only.                               *)
EXTENDS Integers, Sequences, SequencesExt

CONSTANTS
  Attempts,          \* registrations tried at start: Seq of [slash, name, on, max]
  Requests,          \* requests: [slash, name, authorized, body]
  Boundary,          \* the boundary with its leading dashes
  FileLine,          \* header tokens that carry filename=
  BadLine,           \* header tokens analyseFormDataLine() refuses
  AbortAt,           \* handler calls in which it may call PostStreamAbort(), 0: never
  POST_STREAM_MAX_PARTS, POST_STREAM_MAX_FIELDS_TOTAL, POST_STREAM_MAX_FIELD_SIZE,
  POST_STREAM_MAX_PART_HEADER, MaxUrl

ASSUME PostLimits == /\ POST_STREAM_MAX_PART_HEADER > 5
                     /\ POST_STREAM_MAX_PARTS > 0

VARIABLES
  request,   \* the request of the connection
  stream,    \* the post_stream_* fields of its socket, and the calls of the handler
  postRet,   \* last return value of postStreamFeed()
  uploads    \* upload_files of the http_request

postVars == <<request, stream, postRet, uploads>>

CR == "cr"
LF == "lf"
Dash == "-"
Delim == <<CR, LF>> \o Boundary

---------------------------------------------------------------------------
(* The registry.  A URL is [slash, name]; skipLeadingSlash() leaves name.   *)

skipLeadingSlash(url) == url.name

findPostStreamHandler(list, url) == SelectSeq(list, LAMBDA e : e.url = skipLeadingSlash(url))

registerPostStreamHandlerInternal(list, a) ==
  IF \/ ~a.on
     \/ Len(skipLeadingSlash(a)) = 0
     \/ Len(skipLeadingSlash(a)) >= MaxUrl
     \/ findPostStreamHandler(list, a) # <<>>
  THEN list
  ELSE Append(list, [url |-> skipLeadingSlash(a), max |-> a.max])

post_stream_handler_list == FoldLeft(registerPostStreamHandlerInternal, <<>>, Attempts)

---------------------------------------------------------------------------
(* One call of the handler: it is logged, and it may abort the stream.      *)
(* A chunk is logged byte by byte, because its cut means nothing.           *)

HandlerCalled(s, events) ==
  [s EXCEPT !.calls = @ \o events,
            !.count = @ + 1,
            !.aborted = @ \/ s.count + 1 = s.abortAt]

Bytes(data) == [i \in DOMAIN data |-> <<"byte", data[i]>>]

BufferField(s, n) ==
  LET part == Head(s.parts)
      full == \/ s.fieldsTotal + n > POST_STREAM_MAX_FIELDS_TOTAL
              \/ part.length + n > POST_STREAM_MAX_FIELD_SIZE
  IN  IF full THEN [s EXCEPT !.parts[1].truncated = TRUE]
      ELSE [s EXCEPT !.parts[1].length = @ + n, !.fieldsTotal = @ + n]

emitPartData(s, data) ==
  IF data = <<>> \/ s.aborted THEN s
  ELSE IF s.isFile
       THEN LET t == [s EXCEPT !.received = @ + Len(data)]
            IN  IF s.discard THEN t ELSE HandlerCalled(t, Bytes(data))
  ELSE IF ~s.current \/ Head(s.parts).isFile \/ Head(s.parts).truncated THEN s
  ELSE BufferField(s, Len(data))

RECURSIVE rebaseHold(_)
rebaseHold(s) ==
  IF IsPrefix(s.hold, Delim) THEN s
  ELSE rebaseHold([emitPartData(s, <<Head(s.hold)>>) EXCEPT !.hold = Tail(@)])

\* How many bytes of data continue the needle behind the k bytes already held.
Continues(needle, k, data) ==
  CHOOSE n \in 0..Len(data) :
    /\ k + n <= Len(needle)
    /\ SubSeq(data, 1, n) = SubSeq(needle, k + 1, k + n)
    /\ n < Len(data) /\ k + n < Len(needle) => data[n + 1] # needle[k + n + 1]

\* The result is the stream, the data left, and whether the needle was found.
RECURSIVE scanForNeedle(_, _, _, _)
scanForNeedle(s, needle, data, emit) ==
  LET skip == IF s.hold # <<>> THEN 0
              ELSE CHOOSE n \in 0..Len(data) :
                     /\ n = Len(data) \/ data[n + 1] = Head(needle)
                     /\ \A i \in 1..n : data[i] # Head(needle)
      t == IF emit THEN emitPartData(s, SubSeq(data, 1, skip)) ELSE s
      from == SubSeq(data, skip + 1, Len(data))
      n == Continues(needle, Len(s.hold), from)
      left == SubSeq(from, n + 1, Len(from))
      hold == s.hold \o SubSeq(from, 1, n)
  IN  IF data = <<>> THEN <<s, data, FALSE>>
      ELSE IF hold = needle THEN <<[t EXCEPT !.hold = <<>>], left, TRUE>>
      ELSE IF left = <<>> THEN <<[t EXCEPT !.hold = hold], left, FALSE>>
      ELSE IF emit
           THEN scanForNeedle(rebaseHold([emitPartData(t, <<Head(hold)>>) EXCEPT !.hold = Tail(hold)]),
                              needle, left, emit)
           ELSE scanForNeedle([t EXCEPT !.hold = <<>>], needle, left, emit)

---------------------------------------------------------------------------
(* Begin and end of a part.                                                 *)

\* analyseFormDataLine() and extractDispositionValue() on a collected header:
\* the last Content-Disposition decides, a broken line is an error.
Malformed(header) == \E i \in DOMAIN header : header[i] \in BadLine
extractDispositionValue(header) == SelectSeq(header, LAMBDA c : c \in FileLine)

beginPart(s) ==
  LET file == extractDispositionValue(s.header)
      isFile == file # <<>>
      t == [s EXCEPT !.current = FALSE, !.isFile = isFile, !.received = 0]
      part == [isFile |-> isFile, name |-> IF isFile THEN Last(file) ELSE "", length |-> 0,
               truncated |-> FALSE, failed |-> FALSE]
      opened == [t EXCEPT !.parts = <<part>> \o @, !.current = TRUE, !.partsCount = @ + 1]
  IN  IF s.aborted THEN [s EXCEPT !.current = FALSE, !.isFile = FALSE, !.state = "PART_DATA"]
      ELSE IF Malformed(s.header) THEN [s EXCEPT !.current = FALSE, !.state = "ERROR"]
      ELSE [(IF s.discard THEN t
             ELSE IF isFile
                  THEN [HandlerCalled(opened, <<<<"start", part.name>>>>) EXCEPT !.started = TRUE]
                  ELSE opened)
            EXCEPT !.state = "PART_DATA"]

endPart(s, success) ==
  LET t == IF s.isFile /\ s.started
           THEN [HandlerCalled(s, <<<<"end", success /\ ~s.aborted>>>>) EXCEPT !.started = FALSE]
           ELSE s
      noted == IF t.current /\ Head(t.parts).isFile
               THEN [t EXCEPT !.parts[1].length = t.received,
                              !.parts[1].failed = @ \/ ~success \/ t.aborted]
               ELSE t
  IN  [noted EXCEPT !.current = FALSE, !.isFile = FALSE]

RECURSIVE collectPartHeader(_, _)
collectPartHeader(s, data) ==
  LET full == Len(s.header) + 1 >= POST_STREAM_MAX_PART_HEADER
      kept == IF full THEN SubSeq(s.header, Len(s.header) - 2, Len(s.header)) ELSE s.header
      header == Append(kept, Head(data))
      t == [s EXCEPT !.header = header]
  IN  IF data = <<>> THEN <<s, data>>
      ELSE IF full /\ ~s.aborted THEN <<[s EXCEPT !.state = "ERROR"], data>>
      ELSE IF IsSuffix(<<CR, LF, CR, LF>>, header) THEN <<beginPart(t), Tail(data)>>
      ELSE collectPartHeader(t, Tail(data))

---------------------------------------------------------------------------
(* postStreamFeed(): one case per state of the parser.                      *)

\* r is the result of a scan.
Scanned(r, inData) ==
  <<IF r[3] THEN [r[1] EXCEPT !.inData = inData, !.state = "DELIM_CHECK"] ELSE r[1], r[2]>>

Preamble(s, data) == Scanned(scanForNeedle(s, Boundary, data, FALSE), FALSE)

AfterBoundary(s) ==
  [s EXCEPT !.aborted = @ \/ s.partsCount >= POST_STREAM_MAX_PARTS,
            !.header = <<CR, LF>>, !.hold = <<>>, !.state = "PART_HEADER"]

PartData(s, data) == Scanned(scanForNeedle(s, Delim, data, TRUE), TRUE)

\* Faulty: the two bytes behind a false boundary are data, even if they begin a real one.
DelimCheckWithoutRebase(s, data) ==
  LET n == IF 2 - Len(s.hold) < Len(data) THEN 2 - Len(s.hold) ELSE Len(data)
      hold == s.hold \o SubSeq(data, 1, n)
      left == SubSeq(data, n + 1, Len(data))
      clear == [s EXCEPT !.hold = <<>>]
      done == IF s.inData THEN endPart(clear, TRUE) ELSE clear
  IN  <<IF Len(hold) < 2 THEN [s EXCEPT !.hold = hold]
        ELSE IF hold = <<Dash, Dash>> THEN [done EXCEPT !.state = "EPILOGUE"]
        ELSE IF hold = <<CR, LF>> THEN [done EXCEPT !.state = "AFTER_BOUNDARY"]
        ELSE IF s.inData THEN [emitPartData(clear, Delim \o hold) EXCEPT !.state = "PART_DATA"]
        ELSE [clear EXCEPT !.state = "PREAMBLE"], left>>

DelimCheck(s, data) ==
  LET n == IF 2 - Len(s.hold) < Len(data) THEN 2 - Len(s.hold) ELSE Len(data)
      hold == s.hold \o SubSeq(data, 1, n)
      left == SubSeq(data, n + 1, Len(data))
      clear == [s EXCEPT !.hold = <<>>]
      done == IF s.inData THEN endPart(clear, TRUE) ELSE clear
  IN  <<IF Len(hold) < 2 THEN [s EXCEPT !.hold = hold]
        ELSE IF hold = <<Dash, Dash>> THEN [done EXCEPT !.state = "EPILOGUE"]
        ELSE IF hold = <<CR, LF>> THEN [done EXCEPT !.state = "AFTER_BOUNDARY"]
        ELSE IF s.inData
             THEN rebaseHold([emitPartData(s, Delim) EXCEPT !.hold = hold, !.state = "PART_DATA"])
        ELSE [clear EXCEPT !.state = "PREAMBLE"], left>>

\* What one turn of the loop leaves: the stream and the rest of the data.
Fed(s, data) ==
  CASE s.state = "PREAMBLE" -> Preamble(s, data)
    [] s.state = "AFTER_BOUNDARY" -> <<AfterBoundary(s), data>>
    [] s.state = "PART_HEADER" -> collectPartHeader(s, data)
    [] s.state = "PART_DATA" -> PartData(s, data)
    [] s.state = "DELIM_CHECK" -> DelimCheck(s, data)
    [] s.state = "EPILOGUE" -> <<s, <<>>>>

RECURSIVE FeedLoop(_)
FeedLoop(r) ==
  IF r[2] = <<>> \/ r[1].state = "ERROR" THEN r[1] ELSE FeedLoop(Fed(r[1], r[2]))

\* Faulty: a stream that ends takes its open part with it.
FinishSilently(s, success) == s

postStreamFinish(s, success) == IF s.active /\ s.started THEN endPart(s, success) ELSE s

\* The stream and the return value, with t as the loop has left it.
FeedResult(t) ==
  IF t.state = "ERROR" THEN <<t, -1>>
  ELSE IF t.pos < Len(request.body) THEN <<t, 0>>
  ELSE IF t.state = "EPILOGUE" THEN <<t, 1>>
  ELSE <<postStreamFinish(t, FALSE), -1>>

postStreamFeed(s, data) == FeedResult(FeedLoop(<<[s EXCEPT !.pos = @ + Len(data)], data>>))

cleanupSocketPostStreamState(s) ==
  [s EXCEPT !.active = FALSE, !.state = "PREAMBLE", !.hold = <<>>, !.header = <<>>, !.isFile = FALSE,
            !.started = FALSE, !.discard = FALSE, !.aborted = FALSE, !.parts = <<>>, !.current = FALSE,
            !.partsCount = 0, !.fieldsTotal = 0, !.received = 0]

\* The parts that are reported as uploaded files, first part of the body first.
postStreamFillUploadInfo(s) ==
  LET keep == SelectSeq(Reverse(s.parts), LAMBDA p : p.isFile /\ ~s.discard /\ ~p.failed /\ ~p.truncated)
  IN  [i \in DOMAIN keep |-> <<keep[i].name, keep[i].length>>]

---------------------------------------------------------------------------
PostStart(r, n) ==
  /\ request = r
  /\ stream = [active |-> FALSE, state |-> "PREAMBLE", hold |-> <<>>, header |-> <<>>, inData |-> FALSE,
               isFile |-> FALSE, started |-> FALSE, discard |-> FALSE, aborted |-> FALSE,
               parts |-> <<>>, current |-> FALSE, partsCount |-> 0, fieldsTotal |-> 0, received |-> 0,
               pos |-> 0, abortAt |-> n, count |-> 0, calls |-> <<>>]
  /\ postRet = 0
  /\ uploads = <<>>

PostInit == \E r \in Requests, n \in AbortAt : PostStart(r, n)

\* The handler's own check, with the session the cookie names.
postStreamRequestAuthorized(r) == r.authorized

\* check_post_header() found a handler for the URL, and the body is within its limit;
\* an unauthorized request is read and dropped.
startPostStream ==
  /\ ~stream.active /\ stream.pos = 0 /\ postRet = 0
  /\ \E e \in {findPostStreamHandler(post_stream_handler_list, request)} :
       e # <<>> /\ (Head(e).max > 0 => Len(request.body) <= Head(e).max)
  /\ stream' = [stream EXCEPT !.active = TRUE, !.discard = ~postStreamRequestAuthorized(request)]
  /\ UNCHANGED <<request, postRet, uploads>>

\* recv_post_payload_streaming() passes on what has arrived.
FeedBody ==
  /\ stream.active /\ postRet = 0
  /\ \E n \in 1..(Len(request.body) - stream.pos) :
       \E r \in {postStreamFeed(stream, SubSeq(request.body, stream.pos + 1, stream.pos + n))} :
         stream' = r[1] /\ postRet' = r[2]
  /\ UNCHANGED <<request, uploads>>

\* endHTTPRequest(): after the page with a complete body, after the error page otherwise.
EndPostRequest ==
  /\ stream.active /\ postRet # 0
  /\ uploads' = IF postRet = 1 THEN postStreamFillUploadInfo(stream) ELSE <<>>
  /\ stream' = cleanupSocketPostStreamState(postStreamFinish(stream, FALSE))
  /\ UNCHANGED <<request, postRet>>

\* The connection goes away in the middle: WebserverFreeSocket().
PostDisconnect ==
  /\ stream.active /\ postRet = 0
  /\ stream' = cleanupSocketPostStreamState(postStreamFinish(stream, FALSE))
  /\ postRet' = -1
  /\ UNCHANGED <<request, uploads>>

PostNext == startPostStream \/ FeedBody \/ EndPostRequest \/ PostDisconnect

PostSpec == PostInit /\ [][PostNext]_postVars

---------------------------------------------------------------------------
(* The parts of a body, read off the whole of it: a delimiter is the        *)
(* boundary at the start of a line, followed by a line end or two dashes.   *)

At(b, i, s) == i + Len(s) - 1 <= Len(b) /\ SubSeq(b, i, i + Len(s) - 1) = s
FirstAt(b, from, P(_)) ==
  LET S == {i \in from..Len(b) : P(i)}
  IN  IF S = {} THEN 0 ELSE CHOOSE i \in S : \A j \in S : i <= j
DelimiterAt(b, i) ==
  /\ At(b, i, Boundary)
  /\ At(b, i + Len(Boundary), <<CR, LF>>) \/ At(b, i + Len(Boundary), <<Dash, Dash>>)

\* What the handler hears of the parts from the delimiter at i on.
RECURSIVE PartsFrom(_, _)
PartsFrom(b, i) ==
  LET h == i + Len(Boundary)
      e == FirstAt(b, h, LAMBDA k : At(b, k, <<CR, LF, CR, LF>>))
      d == e + 4
      next == FirstAt(b, d, LAMBDA k : At(b, k, <<CR, LF>>) /\ DelimiterAt(b, k + 2))
      files == SelectSeq(SubSeq(b, h, e), LAMBDA c : c \in FileLine)
      data == SubSeq(b, d, IF next = 0 THEN Len(b) ELSE next - 1)
      part == IF files = <<>> THEN <<>>
              ELSE <<<<"start", Last(files)>>>> \o Bytes(data)
                   \o (IF next = 0 THEN <<>> ELSE <<<<"end", TRUE>>>>)
  IN  IF At(b, h, <<Dash, Dash>>) \/ e = 0 \/ Malformed(SubSeq(b, h, e)) THEN <<>>
      ELSE IF next = 0 THEN part
      ELSE part \o PartsFrom(b, next + 2)

PartsOf(b) ==
  LET first == FirstAt(b, 1, LAMBDA k : DelimiterAt(b, k) /\ (k = 1 \/ At(b, k - 2, <<CR, LF>>)))
  IN  IF first = 0 THEN <<>> ELSE PartsFrom(b, first)

\* The calls without the end that reports a failure.
Heard == IF stream.calls # <<>> /\ Last(stream.calls) = <<"end", FALSE>>
         THEN Front(stream.calls) ELSE stream.calls

(* Wherever the body is cut, the handler hears nothing but the file parts   *)
(* the body has, byte for byte and in order (scanForNeedle(), rebaseHold(), *)
(* DELIM_CHECK of postStreamFeed()): never a byte of a boundary, never one  *)
(* less.  A body that was read to its closing boundary without an abort has *)
(* been heard completely; a request without permission is not heard at all. *)
HandlerHearsParts ==
  /\ request.authorized => IsPrefix(Heard, PartsOf(request.body))
  /\ ~request.authorized => stream.calls = <<>>
  /\ (stream.active /\ postRet = 1 /\ request.authorized /\ ~stream.aborted)
       => stream.calls = PartsOf(request.body)

(* Every on_start() is answered by exactly one on_end() when the stream is  *)
(* gone, whether the body was complete, broken, aborted by the handler or   *)
(* cut off by the client (postStreamFinish(), endPart()); and a file that   *)
(* getFileName() reports to the page is one the handler was told is         *)
(* complete and did not abort, with the length it was given (endPart()      *)
(* notes the result behind on_end(), postStreamFillUploadInfo() selects).   *)
EveryPartEnds ==
  LET calls == stream.calls
      count(c, what) == Len(SelectSeq(c, LAMBDA e : e[1] = what))
  IN  /\ \A i \in DOMAIN calls :
           LET c == SubSeq(calls, 1, i) IN count(c, "start") - count(c, "end") \in 0..1
      /\ ~stream.active => count(calls, "start") = count(calls, "end")
      /\ \A i \in DOMAIN uploads :
           \E a, z \in DOMAIN calls :
             /\ calls[a] = <<"start", uploads[i][1]>>
             /\ calls[z] = <<"end", TRUE>>
             /\ z = a + uploads[i][2] + 1
             /\ \A k \in a + 1..z - 1 : calls[k][1] = "byte"
             /\ z = Len(calls) => stream.count # stream.abortAt
=============================================================================
