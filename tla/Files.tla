------------------------------- MODULE Files -------------------------------
(* One file of the server and its entry in the file cache                   *)
(* (system_file_access.c, system_file_access_fs.c, system_file_cache.c,     *)
(* file_manager.c), and the bodies on their way to the clients              *)
(* (system_sockets.c).  Requests are served one at a time under the lock of *)
(* the globals, but another process may replace the file between any two    *)
(* system calls; so each system call is an action of its own.  A file that  *)
(* is sent as it is goes out in later write events, between the requests.   *)
EXTENDS Integers, FiniteSets

CONSTANTS
  NoValue,     \* nothing there
  Contents,    \* what the file may hold
  Size,        \* the length of each content
  Times,       \* modification times
  MinuteTicks, \* ticks of these times in one minute
  Conditions,  \* [tag, since]: what a request may say of the version its client has
  FileKinds,   \* [fs, use_ram_cache, html, packed, uses]: where the file is, how it is kept and used
  MaxWrites,   \* bound: replacements by the other process
  MaxRequests, \* bound: requests
  MaxBodies    \* bound: bodies on their way when a request begins

ASSUME FileConstants ==
  /\ Contents # {} /\ Times # {} /\ Times \subseteq Nat /\ MinuteTicks \in Nat \ {0}
  /\ Size \in [Contents -> Nat \ {0}]
  /\ FileKinds \subseteq
       [fs : {"local", "binary"}, use_ram_cache : BOOLEAN, html : BOOLEAN, packed : BOOLEAN,
        uses : SUBSET {"send", "render"}]
  /\ NoValue \notin [content : Contents, len : Nat]
  /\ Conditions \subseteq [tag : {NoValue} \cup [content : Contents, len : Nat], since : {NoValue} \cup Nat]
  \* A file on disk is not packed, and is either sent or rendered.
  /\ \A k \in FileKinds : k.fs = "local" => ~k.packed /\ k.uses # {"send", "render"}
  /\ MaxWrites \in Nat /\ MaxRequests \in Nat /\ MaxBodies \in Nat

VARIABLES
  kind,      \* the kind of this file
  disk,      \* content and modification time, as the other process left them
  written,   \* every version that was on disk
  listed,    \* "blocked", "no_ram_cache": the lists the URL is in
  entry,     \* the entry of the file cache; NoEntry: none
  req,       \* the request being served
  seen,      \* the versions on disk since this request began
  answer,    \* what the last request was answered, if not with a body
  served,    \* requests so far
  sending,   \* the bodies on their way
  received   \* the body that went out to its end, until the next request

bodyVars == <<sending, received>>
fileVars == <<kind, disk, written, listed, entry, req, seen, answer, served, bodyVars>>
cacheVars == <<kind, disk, written, listed, served, seen, received>>

NoEntry == [cached |-> FALSE]
Version == [content : Contents, time : Times]
EtagOf(c, len) == [content |-> c, len |-> len]
Plain(c) == [content |-> c, packed |-> FALSE]
Packed(c) == [content |-> c, packed |-> TRUE]
\* A packed file is one byte long, whatever it holds.
PackedSize == 1

NoFetch == [pc |-> "idle", via |-> "send", tag |-> NoValue, since |-> NoValue]

\* A body: length and tag of its header, how much is sent (file_send_pos) and of what, the versions
\* on disk since its request began; noted: a later request found the file changed.  Bodies do not
\* touch each other: those that are alike are kept once.
Body(e, s) ==
  [len |-> e.len, etag |-> e.etag, pos |-> 0, parts |-> {}, seen |-> s, noted |-> FALSE]
ChangeNoted(bs) == {[b EXCEPT !.noted = TRUE] : b \in bs}

---------------------------------------------------------------------------
(* The other process.  Modification times are coarse: a change in the same  *)
(* tick as the last one keeps the time, but not also the size; a request    *)
(* that is under way does not meet two changes in one tick.                 *)
ReplaceFile(c, t) ==
  /\ kind.fs = "local"
  /\ Cardinality(written) <= MaxWrites
  /\ \A v \in written : v.time = t => v.content = c \/ Size[v.content] # Size[c]
  /\ t >= disk.time /\ (t = disk.time => req.pc = "idle")
  /\ disk' = [content |-> c, time |-> t] /\ disk' # disk
  /\ written' = written \cup {disk'}
  /\ seen' = seen \cup {disk'}
  /\ sending' = {[b EXCEPT !.seen = @ \cup {disk'}] : b \in sending}
  /\ UNCHANGED <<kind, listed, entry, req, answer, served, received>>

WebserverAddBlockedFile ==
  /\ req.pc = "idle" /\ listed' = listed \cup {"blocked"}
  /\ UNCHANGED <<kind, disk, written, entry, req, seen, answer, served, bodyVars>>

WebserverAddNoRamCacheFile ==
  /\ req.pc = "idle" /\ listed' = listed \cup {"no_ram_cache"}
  /\ UNCHANGED <<kind, disk, written, entry, req, seen, answer, served, bodyVars>>

---------------------------------------------------------------------------
(* Loading.                                                                 *)

\* The files of the binary image are in the cache from the start, packed or not.
read_file(k, c) ==
  [cached |-> TRUE, ram |-> TRUE, time |-> NoValue, etag |-> EtagOf(c, Size[c]),
   data |-> IF k.packed THEN Packed(c) ELSE Plain(c), len |-> IF k.packed THEN PackedSize ELSE Size[c]]

\* search_file_dir() has the file open, so its size is that of one version.
getFileInformation ==
  [cached |-> TRUE, ram |-> FALSE, time |-> NoValue, etag |-> NoValue, data |-> NoValue, len |-> Size[disk.content]]

check_blocked_urls == "blocked" \in listed
doNotRamCacheFile == ~kind.use_ram_cache \/ "no_ram_cache" \in listed

\* A request for the file: via "send" as it is, via "render" as a template or an included file.
getFile(via, tag, since) ==
  /\ req.pc = "idle" /\ served < MaxRequests /\ Cardinality(sending) <= MaxBodies
  /\ served' = served + 1
  /\ seen' = {disk}
  /\ \/ /\ check_blocked_urls
        /\ answer' = [status |-> 404]
        /\ UNCHANGED <<entry, req>>
     \/ /\ ~check_blocked_urls /\ entry.cached
        /\ req' = [pc |-> "serve", via |-> via, tag |-> tag, since |-> since]
        /\ answer' = [status |-> 0]
        /\ UNCHANGED entry
     \/ /\ ~check_blocked_urls /\ ~entry.cached
        /\ entry' = getFileInformation
        /\ req' = [pc |-> "stat", via |-> via, tag |-> tag, since |-> since]
        /\ answer' = [status |-> 0]
  /\ received' = NoValue
  /\ UNCHANGED <<kind, disk, written, listed, sending>>

GoTo(pc) == req' = [req EXCEPT !.pc = pc]

\* stat(): the time is noted before the content is read.
PlatformGetFileInfo ==
  /\ req.pc = "stat"
  /\ entry' = [entry EXCEPT !.time = disk.time]
  /\ GoTo("load")
  /\ UNCHANGED <<cacheVars, answer, sending>>

local_file_system_read_content(e) == [e EXCEPT !.data = Plain(disk.content), !.len = Size[disk.content]]

ramCacheFile ==
  /\ req.pc = "load"
  /\ entry' = IF doNotRamCacheFile THEN entry
              ELSE [local_file_system_read_content(entry) EXCEPT !.ram = TRUE]
  /\ GoTo("newtag")
  /\ UNCHANGED <<cacheVars, answer, sending>>

\* The hash of the content in RAM, or of what the file holds now, and the length noted.
generateEtag ==
  /\ req.pc \in {"newtag", "retag"}
  /\ entry' = [entry EXCEPT !.etag = EtagOf(IF entry.ram THEN entry.data.content ELSE disk.content, entry.len)]
  /\ GoTo(IF req.pc = "newtag" THEN "serve" ELSE "answer")
  /\ UNCHANGED <<cacheVars, answer, sending>>

---------------------------------------------------------------------------
(* Serving.                                                                 *)

\* sendFile(), or prepare_file_content() before the engine runs.
prepare_file_content ==
  /\ req.pc = "serve"
  /\ \/ /\ kind.fs = "local" /\ (entry.ram \/ req.via = "send")
        /\ GoTo("check") /\ UNCHANGED entry
     \/ /\ kind.fs = "local" /\ ~entry.ram /\ req.via = "render"
        /\ entry' = local_file_system_read_content(entry)
        /\ GoTo("answer")
     \/ /\ kind.fs = "binary"
        /\ entry' = IF req.via = "render" /\ kind.packed
                      THEN [entry EXCEPT !.data = Plain(@.content), !.len = Size[entry.data.content]] ELSE entry
        /\ GoTo("answer")
  /\ UNCHANGED <<cacheVars, answer, sending>>

\* Faulty: a change is told by the time alone.
ModifiedByTime == disk.time # entry.time

FileModified == Size[disk.content] # entry.len \/ disk.time # entry.time

\* stat(): the new time is noted at once, the content read afterwards.
local_file_system_check_file_modified ==
  /\ req.pc = "check"
  /\ \/ /\ ~FileModified
        /\ GoTo("answer") /\ UNCHANGED <<entry, sending>>
     \/ /\ FileModified /\ ~entry.ram
        /\ entry' = [entry EXCEPT !.time = disk.time, !.len = Size[disk.content]]
        /\ sending' = ChangeNoted(sending)
        /\ GoTo("retag")
     \/ /\ FileModified /\ entry.ram
        /\ entry' = [entry EXCEPT !.time = disk.time]
        /\ GoTo("reload") /\ UNCHANGED sending
  /\ UNCHANGED <<cacheVars, answer>>

ReloadContent ==
  /\ req.pc = "reload"
  /\ entry' = local_file_system_read_content(entry)
  /\ sending' = ChangeNoted(sending)
  /\ GoTo("retag")
  /\ UNCHANGED <<cacheVars, answer>>

\* getHTMLDateFormat() has no seconds; a file of the image has no date.
LastModified == IF entry.time = NoValue THEN NoValue ELSE entry.time \div MinuteTicks

\* With a tag on both sides the date is not looked at.
checkCacheHeader ==
  /\ ~kind.html
  /\ IF req.tag # NoValue /\ entry.etag # NoValue THEN req.tag = entry.etag
     ELSE req.since # NoValue /\ req.since = LastModified

release_file_content(e) ==
  IF ~e.ram THEN [e EXCEPT !.data = NoValue]
  ELSE IF kind.fs = "binary" /\ kind.packed THEN [e EXCEPT !.data = Packed(@.content), !.len = PackedSize]
  ELSE e

\* The end of sendFile() and of sendHTMLFile(): the header, with the body left to later events, or the page.
SendAnswer ==
  /\ req.pc = "answer"
  /\ \/ /\ req.via = "render"
        /\ answer' = [status |-> 200, page |-> entry.data]
        /\ entry' = release_file_content(entry)
        /\ UNCHANGED sending
     \/ /\ req.via = "send" /\ checkCacheHeader
        /\ answer' = [status |-> 304, tag |-> req.tag, since |-> req.since]
        /\ UNCHANGED <<entry, sending>>
     \/ /\ req.via = "send" /\ ~checkCacheHeader
        /\ sending' = sending \cup {Body(entry, seen)}
        /\ UNCHANGED <<entry, answer>>
  /\ req' = NoFetch
  /\ UNCHANGED cacheVars

---------------------------------------------------------------------------
(* Write events.  The entry is looked at anew in each, its length too.      *)

\* Where an event may get to: sendfile() with a negative count goes to the end of the file.
BodyEnd(b) == IF ~entry.ram /\ entry.len < b.pos THEN Size[disk.content] ELSE entry.len

\* Behind the end of the file: what was in the buffer of handleClientWriteDataNotCachedReadWrite().
PartUpTo(pos) ==
  IF entry.ram THEN entry.data ELSE IF pos <= Size[disk.content] THEN Plain(disk.content) ELSE NoValue

handleClientWriteData(b, n) ==
  LET pos == b.pos + n
      more == [b EXCEPT !.pos = pos, !.parts = IF n = 0 THEN @ ELSE @ \cup {PartUpTo(pos)}]
  IN
  /\ req.pc = "idle"
  /\ n = 0 \/ pos <= BodyEnd(b)
  /\ \/ /\ pos < entry.len
        /\ sending' = (sending \ {b}) \cup {more}
        /\ UNCHANGED received
     \/ /\ pos >= entry.len
        /\ sending' = sending \ {b} /\ received' = more
  /\ UNCHANGED <<kind, disk, written, listed, entry, req, seen, answer, served>>

\* The client is gone, or sendfile() found nothing more in the file.
SendFails(b) ==
  /\ req.pc = "idle"
  /\ sending' = sending \ {b}
  /\ UNCHANGED <<kind, disk, written, listed, entry, req, seen, answer, served, received>>

---------------------------------------------------------------------------
fileInit ==
  /\ kind \in FileKinds
  /\ disk = [content |-> CHOOSE c \in Contents : TRUE, time |-> CHOOSE t \in Times : TRUE]
  /\ written = {disk} /\ seen = {} /\ listed = {}
  /\ entry = IF kind.fs = "binary" THEN read_file(kind, disk.content) ELSE NoEntry
  /\ req = NoFetch /\ answer = [status |-> 0] /\ served = 0
  /\ sending = {} /\ received = NoValue

fileNext ==
  \/ \E c \in Contents, t \in Times : ReplaceFile(c, t)
  \/ WebserverAddBlockedFile
  \/ WebserverAddNoRamCacheFile
  \/ \E via \in kind.uses, has \in Conditions : getFile(via, has.tag, has.since)
  \/ PlatformGetFileInfo
  \/ ramCacheFile
  \/ generateEtag
  \/ prepare_file_content
  \/ local_file_system_check_file_modified
  \/ ReloadContent
  \/ SendAnswer
  \/ \E b \in sending : \E n \in 0..BodyEnd(b) : handleClientWriteData(b, n)
  \/ \E b \in sending : SendFails(b)

fileSpec == fileInit /\ [][fileNext]_fileVars

---------------------------------------------------------------------------
\* The answer a shows the version v of the file; a date only says of which minute it is.
Shows(a, v) ==
  \/ a.status = 304 /\ a.tag # NoValue /\ a.tag.content = v.content
  \/ a.status = 304 /\ a.tag = NoValue /\ a.since = v.time \div MinuteTicks
  \/ a.status = 200 /\ a.page = Plain(v.content)

\* The body b is the version v, with the header that goes with it.
Carries(b, v) ==
  /\ b.etag = EtagOf(v.content, Size[v.content])
  /\ b.parts = {[content |-> v.content, packed |-> kind.packed]}
  /\ b.len = IF kind.packed THEN PackedSize ELSE Size[v.content]
  /\ b.pos = b.len

(* Whatever is answered, "not modified", the file or a page made from it,   *)
(* is one version of the file that was on disk since the request began: a   *)
(* body, over all write events, with the length and the tag of that         *)
(* version, and a date that matched is the minute of that version.  So no   *)
(* race with the process that replaces the file leaves an old version in    *)
(* the cache.  For files that are not kept in RAM, if the file does not     *)
(* change under the request; and for a body, if no other request finds the  *)
(* file changed before it is out (local_file_system_check_file_modified(),  *)
(* sendFile(), handleClientWriteData()).                                    *)
AnswersFresh ==
  /\ answer.status \in {200, 304} /\ (entry.ram \/ Cardinality(seen) = 1)
       => \E v \in seen : Shows(answer, v)
  /\ received # NoValue /\ ~received.noted /\ (entry.ram \/ Cardinality(received.seen) = 1)
       => \E v \in received.seen : Carries(received, v)
=============================================================================
