------------------------------ MODULE MCStores ------------------------------
(* What the server keeps between two events: sessions, the variables of a   *)
(* page, lists and maps, files and their cache, and what is registered with *)
(* the event loop.  One of them moves in a behaviour.                       *)
EXTENDS Session, Engine, Containers, Files, EventLoop

VARIABLE store
storeVars == <<store, sessVars, engineVars, listVars, mapVars, fileVars, loopVars>>

---------------------------------------------------------------------------
(* Time passes with few sessions; many sessions, logins and removals have   *)
(* behaviours of their own.                                                 *)
SessionBehaviours ==
  {[guids |-> 2, logins |-> 1, time |-> 4, removals |-> FALSE, values |-> FALSE],
   [guids |-> 4, logins |-> 2, time |-> 0, removals |-> FALSE, values |-> FALSE],
   [guids |-> 3, logins |-> 2, time |-> 0, removals |-> TRUE, values |-> FALSE],
   [guids |-> 2, logins |-> 1, time |-> 0, removals |-> TRUE, values |-> TRUE]}

---------------------------------------------------------------------------
(* Pages: every tag alone, in every block and in blocks in blocks, behind   *)
(* what may have been set and in front of tags that show what is left.      *)
gName == 11
aName == 12
bName == 13
pName == 14
xName == 15
yName == 16
Ints(s) == ArrayOf([i \in DOMAIN s |-> Scalar(s[i])])
AppGlobals == (gName :> Scalar(1)) @@ (aName :> Ints(<<1, 2>>)) @@ (bName :> ArrayOf(<<Ints(<<3, 4>>), Ints(<<5>>)>>))
RequestParameters == pName :> Scalar(7)

Var(ns, name) == Operand(ns, name, <<>>)
Position(n) == [named |-> FALSE, n |-> n]
Key(n) == [named |-> TRUE, n |-> n]
Words(n) == Leaf("text", <<Quoted(n)>>)
GetTag(op) == Leaf("get", <<op>>)
SetTag(op, value) == Leaf("set", <<op, value>>)
Stray == Leaf("brace", <<>>)

IncludeFiles == (1 :> <<Tag("set", <<Var("render", xName), Quoted(2)>>), Tag("get", <<Var("global", gName)>>), Tag("return", <<>>), Shown(9)>>)

CommonTags ==
  {Words(8), Leaf("return", <<>>), Leaf("echo_off", <<>>), Leaf("echo_on", <<>>), Stray,
   GetTag(Var("render", xName)), GetTag(Var("render", yName)), SetTag(Var("global", gName), Quoted(2)),
   SetTag(Var("global", gName), Var("parameter", pName))}
GlobalTags ==
  {GetTag(Var("global", aName)), GetTag(Operand("global", bName, <<Position(1), Key(0)>>)),
   GetTag(Operand("global", aName, <<Position(2)>>)), SetTag(Operand("global", aName, <<Position(1)>>), Quoted(2)),
   SetTag(Var("render", yName), Var("global", gName)), SetTag(Var("session", gName), Quoted(2)),
   Leaf("echo_funcs_on", <<>>), Leaf("echo_funcs_off", <<>>), Leaf("include", <<Quoted(2)>>)}
SetX == {SetTag(Var("render", xName), Number(2)), SetTag(Var("render", xName), Quoted(1)), Leaf("include", <<Quoted(1)>>), Leaf("f", <<Var("render", xName)>>)}

Is(c) == <<Operand(c, 0, <<>>)>>
Equal(c, v) == <<Operand(c, 0, <<>>), v, Quoted(2)>>
Conds == {Is("is_true"), Is("is_false"), Equal("eq", Var("render", xName)), Equal("!eq", Var("global", gName))}

Ones(S) == {<<n>> : n \in S}
Ifs(S) == {IfNode(c, t) : c \in Conds \cup {Is("nonsense")}, t \in S} \cup {IfElseNode(c, t, <<Words(5)>>) : c \in Conds, t \in S}
          \cup {IfElseNode(c, <<Words(4), Words(5)>>, t) : c \in Conds, t \in S}
OverA == <<Var("global", aName), Quoted(xName)>>
OverAKey == <<Var("global", aName), Quoted(xName), Quoted(yName)>>
OverB == <<Var("global", bName), Quoted(xName)>>
OverX == <<Var("render", xName), Quoted(yName)>>
Loops(ops, S) == {LoopNode(ops, t) : t \in S}

InA == CommonTags \cup SetX
All == CommonTags \cup GlobalTags \cup SetX
Inner == {LoopNode(OverX, <<n, Words(3)>>) : n \in CommonTags \ {GetTag(Var("render", xName))}}
Two(S) == {<<m, Words(6), n>> : m \in S, n \in S}
Nodes ==
  All \cup Ifs(Ones(All)) \cup Loops(OverA, Ones(InA)) \cup Loops(OverAKey, Ones(CommonTags))
  \cup Loops(OverB, Ones(CommonTags \cup Inner)) \cup Loops(OverX, Ones(All))
  \cup Loops(OverA, Two(InA))
  \cup Loops(OverB, {<<m, n, Words(6)>> : m \in Inner, n \in Inner})
  \cup Loops(OverA, Ones(Ifs(Ones(InA))))
  \cup Ifs(Ones(Ifs(Ones(CommonTags)) \cup Loops(OverA, Ones(InA))))
Setups == {<<>>, <<SetTag(Var("render", xName), Number(2))>>, <<SetTag(Var("global", gName), Quoted(2)), Leaf("echo_off", <<>>)>>}
Probe == <<Words(7), GetTag(Var("render", xName)), GetTag(Var("global", aName)), GetTag(Var("global", gName))>>
AllPages == {[tree |-> s \o <<n>> \o Probe, funcs |-> FALSE] : s \in Setups, n \in Nodes}
   \cup {[tree |-> <<n>> \o Probe, funcs |-> TRUE] : n \in All \cup Ifs(Ones(SetX)) \cup Loops(OverA, Ones(InA))}

---------------------------------------------------------------------------
\* Three keys of one bucket until the map grows.
Hashes == ("k1" :> 0) @@ ("k2" :> 2) @@ ("k3" :> 4) @@ ("k4" :> 3)

\* Contents of the same length, and a shorter one.
Sizes == ("c1" :> 3) @@ ("c2" :> 3) @@ ("c3" :> 1)
Tagged(c, since) == [tag |-> EtagOf(c, Sizes[c]), since |-> since]
\* Neither a tag nor a date, one of them, a tag beside the date of the first version.
Clients ==
  {[tag |-> NoValue, since |-> NoValue], [tag |-> NoValue, since |-> 1],
   Tagged("c1", NoValue), Tagged("c2", 0), Tagged("c3", NoValue)}
Local(ram, html, use) ==
  [fs |-> "local", use_ram_cache |-> ram, html |-> html, packed |-> FALSE, uses |-> {use}]
Image(packed) ==
  [fs |-> "binary", use_ram_cache |-> TRUE, html |-> FALSE, packed |-> packed, uses |-> {"send", "render"}]
FileStores ==
  {Local(r, FALSE, u) : r \in BOOLEAN, u \in {"send", "render"}} \cup {Local(TRUE, TRUE, "send")}
  \cup {Image(p) : p \in BOOLEAN}

AllBackends ==
  [name : {"epoll", "kqueue"}, readCloses : {TRUE}] \cup {[name |-> "select", readCloses |-> FALSE]}
SelectWebsockets == {[name |-> "select", readCloses |-> TRUE]}

---------------------------------------------------------------------------
AnySessions == bound = (CHOOSE v \in Bounds : TRUE) /\ initSessions
AnyPage == page = (CHOOSE v \in Pages : TRUE) /\ engineInit
AnyFile == kind = (CHOOSE v \in FileKinds : TRUE) /\ fileInit
AnyLoop == backend = (CHOOSE v \in Backends : TRUE) /\ initEvents

Init ==
  /\ ws_list_init /\ hashmap_create
  /\ \/ store = "sessions" /\ initSessions /\ AnyPage /\ AnyFile /\ AnyLoop
     \/ store = "page" /\ engineInit /\ AnySessions /\ AnyFile /\ AnyLoop
     \/ store = "file" /\ fileInit /\ AnySessions /\ AnyPage /\ AnyLoop
     \/ store = "loop" /\ initEvents /\ AnySessions /\ AnyPage /\ AnyFile
     \/ store \in {"list", "map"} /\ AnySessions /\ AnyPage /\ AnyFile /\ AnyLoop

Next ==
  \/ store = "sessions" /\ SessNext /\ UNCHANGED <<store, engineVars, listVars, mapVars, fileVars, loopVars>>
  \/ store = "page" /\ engineNext /\ UNCHANGED <<store, sessVars, listVars, mapVars, fileVars, loopVars>>
  \/ store = "list" /\ ListNext /\ UNCHANGED <<store, sessVars, engineVars, mapVars, fileVars, loopVars>>
  \/ store = "map" /\ MapNext /\ UNCHANGED <<store, sessVars, engineVars, listVars, fileVars, loopVars>>
  \/ store = "file" /\ fileNext /\ UNCHANGED <<store, sessVars, engineVars, listVars, mapVars, loopVars>>
  \/ store = "loop" /\ loopNext /\ UNCHANGED <<store, sessVars, engineVars, listVars, mapVars, fileVars>>

Spec == Init /\ [][Next]_storeVars
=============================================================================
