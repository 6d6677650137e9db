------------------------------- MODULE Engine -------------------------------
(* The template engine (engine.c, engine_parser.c, engine_if.c,             *)
(* engine_tags.c, engine_functions.c, conditions.c).  A page is the         *)
(* sequence of its tags and of the text between them.  The engine finds the *)
(* end of an {if:} or {loop:} by scanning forward, renders the part it      *)
(* selects by calling itself, and works on shared variables that it refers  *)
(* to, sets and frees.  An action renders a whole page: a request is        *)
(* rendered by one thread without interruption.  For TLC only.              *)
EXTENDS Variables

CONSTANTS
  Pages,        \* requests: the tree of the page, and whether {echo_funcs_on} is in force
  Included,     \* the pages that {include:} finds, by name
  Globals,      \* the application's global variables: scalars and nested arrays, by name
  Parameters    \* the parameters of the request

VARIABLES page, render

engineVars == <<page, render>>

TMP == 99  \* the name parseVariable() gives its result

---------------------------------------------------------------------------
(* Tags and operands.  An operand is a quoted constant, a number, or a      *)
(* variable of a namespace with array indexes.                              *)

Operand(ns, name, idx) == [ns |-> ns, name |-> name, idx |-> idx]
Quoted(n) == Operand("text", n, <<>>)
Number(n) == Operand("int", n, <<>>)
Tag(tag, ops) == [tag |-> tag, ops |-> ops]
Shown(n) == Tag("text", <<Quoted(n)>>)

\* Error texts, as numbers no page spells.
NotFound(ns, name) == -(name + (CASE ns = "render" -> 0 [] ns = "session" -> 100 [] OTHER -> 200))
IndexNotFound == -1000
SetError == -1001
IncludeError == -1002
ArrayTitle == -1003
EntryName(n) == -2000 - n

---------------------------------------------------------------------------
(* Output.                                                                  *)

writeChunk(w, t) == [w EXCEPT !.out = Append(@, t)]

\* printHTMLChunk() does not ask for {echo_off}.
printHTMLChunk(w, n) == writeChunk(w, Shown(n))

sendHTMLChunk(w, t) == IF w.off THEN w ELSE writeChunk(w, t)

RECURSIVE writeChunkVariable(_, _)
RECURSIVE writeEntries(_, _, _)
writeEntries(w, v, it) ==
  IF it = NoVar THEN w
  ELSE LET u == writeChunkVariable(printHTMLChunk(w, EntryName(w.h.var[it].name)), it)
           n == getWSVariableArrayNext(u.h, v)
       IN  writeEntries([u EXCEPT !.h = n[1]], v, n[2])

writeChunkVariable(w, v) ==
  IF ~Live(w.h, v) THEN [w EXCEPT !.h = Touch(@, v)]
  ELSE LET x == w.h.var[v]
           first == getWSVariableArrayFirst(w.h, v)
       IN  CASE x.type \in {"STRING", "INT"} -> printHTMLChunk(w, x.val)
             [] x.type = "REF"               -> writeChunkVariable(w, x.val)
             [] x.type = "ARRAY"             ->
                  writeEntries([printHTMLChunk(w, ArrayTitle) EXCEPT !.h = first[1]], v, first[2])
             [] OTHER                        -> w

sendHTMLChunkVariable(w, v) == IF w.off THEN w ELSE writeChunkVariable(w, v)

---------------------------------------------------------------------------
(* Variables of a request.  An operator that also returns a variable        *)
(* returns the pair.                                                        *)

Free(w, v) == [w EXCEPT !.h = freeWSVariable(@, v)]

FindOrNew(w, store, name) == LET r == newVariable(w.h, store, name) IN <<[w EXCEPT !.h = r[1]], r[2]>>

getGlobalVariable(w, name) == FindOrNew(w, w.at.global, name)
getRenderVariable(w, name) == FindOrNew(w, w.at.render, name)

\* Result of a lookup: the variable of the store, or NoVar.
Lookup(w, op) ==
  CASE op.ns = "global"    -> getGlobalVariable(w, op.name)
    [] op.ns = "render"    -> getRenderVariable(w, op.name)
    [] op.ns = "session"   -> <<w, searchVariable(w.h, w.at.session, op.name)>>
    [] op.ns = "parameter" -> <<w, searchVariable(w.h, w.at.parameter, op.name)>>

\* An index is a position or a name.
Entry(h, v, index) ==
  IF index.named THEN <<h, getWSVariableArray(h, v, index.n)>> ELSE getWSVariableArrayIndex(h, v, index.n)

RECURSIVE walkIndexes(_, _, _)
walkIndexes(h, v, idx) ==
  IF idx = <<>> THEN <<h, v>>
  ELSE LET Deeper(e) ==
             IF e[2] # NoVar /\ Len(idx) > 1 /\ IsArray(e[1], e[2])
               THEN walkIndexes(e[1], e[2], Tail(idx)) ELSE e
       IN  Deeper(Entry(h, v, Head(idx)))

SetString(r, text) == <<[r[1] EXCEPT !.h = setWSVariableString(@, r[2], text)], r[2]>>

\* e is the heap and the entry that the indexes lead to.
ReferTo(w, var, e) ==
  IF e[2] = NoVar THEN SetString(<<[w EXCEPT !.h = e[1]], var>>, IndexNotFound)
  ELSE <<[w EXCEPT !.h = setWSVariableRef(e[1], var, e[2])], var>>

ReferInto(w, var, op, target) ==
  IF ~Live(w.h, target) THEN <<[w EXCEPT !.h = Touch(@, target)], var>>
  ELSE ReferTo(w, var, IF IsArray(w.h, target) THEN walkIndexes(w.h, target, op.idx) ELSE <<w.h, target>>)

\* A render variable without a value is not there yet, but it gives its name.
ReferFound(w, var, op, v) ==
  LET unset == op.ns = "render" /\ v # NoVar /\ w.h.var[v].type = "EMPTY"
  IN  IF v = NoVar \/ unset
        THEN SetString(<<IF unset THEN [w EXCEPT !.h.var[var].name = op.name] ELSE w, var>>,
                       NotFound(op.ns, op.name))
        ELSE ReferInto(w, var, op, Deref(w.h, v))

\* A fresh variable that holds the constant, refers to the variable, or holds an error text.
parseVariable(w, op) ==
  LET g   == newWSVariable(w.h, TMP)
      var == Newest(g)
      Found(r) == ReferFound(r[1], var, op, r[2])
  IN  CASE op.ns = "text" -> SetString(<<[w EXCEPT !.h = g], var>>, op.name)
        [] op.ns = "int"  -> <<[w EXCEPT !.h = setWSVariableInt(g, var, op.name)], var>>
        [] OTHER          -> Found(Lookup([w EXCEPT !.h = g], op))

---------------------------------------------------------------------------
(* The functions of a page that print or set variables.                     *)

\* Faulty: the operand's variable is not freed.
GetWithoutFree(w, t) ==
  LET Send(p) == sendHTMLChunkVariable(p[1], p[2]) IN Send(parseVariable(w, t.ops[1]))

SendAndFree(p) == Free(sendHTMLChunkVariable(p[1], p[2]), p[2])

engine_getVariable(w, t) == SendAndFree(parseVariable(w, t.ops[1]))

\* The operands of a tag are parsed one after the other; both variables come with the last result.
ParseBoth(w, first, second) ==
  LET Both(p, q) == <<q[1], p[2], q[2]>>
      Second(p) == Both(p, parseVariable(p[1], second))
  IN  Second(parseVariable(w, first))
FreeBoth(w, v, x) == Free(Free(w, x), v)

\* new is the variable to set, value the one to take from.
SetFrom(new, value, ref) ==
  CASE value.type \in {"STRING", "INT"} -> [new[1] EXCEPT !.h = SetValue(@, new[2], value.type, value.val)]
    [] value.type \notin {"STRING", "INT"} /\ ref -> new[1]
    [] OTHER -> printHTMLChunk(new[1], SetError)

\* A variable that does not exist yet is a render variable named by the parser.
engine_setVariable(w, t) ==
  LET Target(u, var) == IF var.type = "REF" THEN <<u, var.val>> ELSE getRenderVariable(u, var.name)
      Set(b) == FreeBoth(SetFrom(Target(b[1], b[1].h.var[b[2]]), b[1].h.var[b[3]], b[1].h.var[b[2]].type = "REF"),
                         b[2], b[3])
  IN  Set(ParseBoth(w, t.ops[1], t.ops[2]))

\* A registered function of the application; here one that sets a render variable.
engine_platformFunction(w, t) ==
  SetString(getRenderVariable(w, t.ops[1].name), 1)[1]

---------------------------------------------------------------------------
(* Conditions.                                                              *)

Same(x, y) == {x.type, y.type} \subseteq {"STRING", "INT"} /\ x.val = y.val

equal_condition(w, t) ==
  LET Value(h, v) == h.var[Deref(h, v)]
      Compare(b) == <<FreeBoth(b[1], b[2], b[3]),
                      IF Same(Value(b[1].h, b[2]), Value(b[1].h, b[3])) THEN "TRUE" ELSE "FALSE">>
  IN  Compare(ParseBoth(w, t.ops[2], t.ops[3]))

Not(r) == <<r[1], IF r[2] = "TRUE" THEN "FALSE" ELSE "TRUE">>

builtinConditions(w, t) ==
  CASE t.ops[1].ns = "is_true"  -> <<w, "TRUE">>
    [] t.ops[1].ns = "is_false" -> <<w, "FALSE">>
    [] t.ops[1].ns = "eq"       -> equal_condition(w, t)
    [] t.ops[1].ns = "!eq"      -> Not(equal_condition(w, t))
    [] OTHER                    -> <<w, "ERROR">>

\* No condition of the application answers for the names pages use here.
engine_callCondition(w, t) == builtinConditions(w, t)

---------------------------------------------------------------------------
(* Finding the end of a block: positions in the page, 0 for none.           *)

RECURSIVE scanIf(_, _, _, _)
scanIf(pagedata, k, level, else) ==
  IF k > Len(pagedata) THEN [else |-> else, endif |-> 0]
  ELSE CASE pagedata[k].tag = "if"    -> scanIf(pagedata, k + 1, level + 1, else)
         [] pagedata[k].tag = "else"  -> scanIf(pagedata, k + 1, level, IF level = 0 THEN k ELSE else)
         [] pagedata[k].tag = "endif" ->
              IF level = 0 THEN [else |-> else, endif |-> k] ELSE scanIf(pagedata, k + 1, level - 1, else)
         [] OTHER                     -> scanIf(pagedata, k + 1, level, else)

\* Faulty: an {else} of an inner {if:} is taken for the outer one.
RECURSIVE scanIfAnyElse(_, _, _, _)
scanIfAnyElse(pagedata, k, level, else) ==
  IF k > Len(pagedata) THEN [else |-> else, endif |-> 0]
  ELSE CASE pagedata[k].tag = "if"    -> scanIfAnyElse(pagedata, k + 1, level + 1, else)
         [] pagedata[k].tag = "else"  -> scanIfAnyElse(pagedata, k + 1, level, k)
         [] pagedata[k].tag = "endif" ->
              IF level = 0 THEN [else |-> else, endif |-> k] ELSE scanIfAnyElse(pagedata, k + 1, level - 1, else)
         [] OTHER                     -> scanIfAnyElse(pagedata, k + 1, level, else)

AnyElse(pagedata, i) == scanIfAnyElse(pagedata, i, 0, 0)

find_if_tags_pos(pagedata, i) == scanIf(pagedata, i, 0, 0)

\* Each end tag closes a level and one start tag before it, of however many, opens one.
RECURSIVE scanEnd(_, _, _)
scanEnd(pagedata, offset, level) ==
  LET ends == {k \in offset..Len(pagedata) : pagedata[k].tag = "endloop"}
      e == CHOOSE k \in ends : \A j \in ends : k <= j
      opened == IF \E k \in offset..e : pagedata[k].tag = "loop" THEN 1 ELSE 0
  IN  IF ends = {} THEN 0
      ELSE IF level - 1 + opened > 0 THEN scanEnd(pagedata, e + 1, level - 1 + opened)
      ELSE e

find_tag_end_pos(pagedata, i) == scanEnd(pagedata, i, 1)

---------------------------------------------------------------------------
(* processHTML(), with the functions that call it again.  ret: the page, or *)
(* the part of it, ended with {return}.                                     *)

RECURSIVE process(_, _, _)
RECURSIVE loopOver(_, _, _, _, _, _)

processHTML(w, pagedata) == process([w EXCEPT !.ret = FALSE], pagedata, 1)

\* The loop ignores a {return}: it ends only this round.
loopOver(w, array, item, value, key, body) ==
  LET Keyed(h) == IF key = NoVar THEN h ELSE setWSVariableString(h, key, h.var[item].name)
      Advance(u, n) == loopOver([u EXCEPT !.h = n[1], !.ret = FALSE], array, n[2], value, key, body)
      Round(u) == Advance(u, getWSVariableArrayNext(u.h, array))
  IN  IF item = NoVar THEN w
      ELSE Round(processHTML([w EXCEPT !.h = Keyed(setWSVariableRef(w.h, value, item))], body))

\* first is the heap and the first entry of the array.
LoopFrom(w, array, first, t, body) ==
  LET Run(value, key) == loopOver(key[1], array, first[2], value[2], key[2], body)
      Bound(value) == Run(value, IF Len(t.ops) = 3 THEN getRenderVariable(value[1], t.ops[3].name)
                                 ELSE <<value[1], NoVar>>)
  IN  Bound(getRenderVariable([w EXCEPT !.h = first[1]], t.ops[2].name))

\* name and key are the operands that name the loop's variables.
LoopNamed(name, array, t, body) ==
  LET Loop(key) == FreeBoth(LoopFrom(key[1], array, getWSVariableArrayFirst(key[1].h, array), t, body), name[2], key[2])
  IN  IF name[1].h.var[name[2]].type # "STRING" THEN Free(name[1], name[2])
      ELSE Loop(IF Len(t.ops) = 3 THEN parseVariable(name[1], t.ops[3]) ELSE <<name[1], NoVar>>)

engine_loop_array(w, t, body) ==
  LET Loop(p, var) ==
        IF var.type # "REF" THEN SendAndFree(p)
        ELSE LoopNamed(parseVariable(Free(p[1], p[2]), t.ops[2]), var.val, t, body)
      Parsed(p) == Loop(p, p[1].h.var[p[2]])
  IN  Parsed(parseVariable(w, t.ops[1]))

engine_TemplateIF(w, t, pagedata, i, tags) ==
  LET then == SubSeq(pagedata, i, (IF tags.else = 0 THEN tags.endif ELSE tags.else) - 1)
      other == SubSeq(pagedata, tags.else + 1, tags.endif - 1)
      Branch(c) == IF c[2] = "TRUE" \/ (c[2] = "FALSE" /\ tags.else # 0)
                     THEN processHTML(c[1], IF c[2] = "TRUE" THEN then ELSE other) ELSE c[1]
  IN  Branch(engine_callCondition(w, t))

\* A {return} in the included file ends that file.
engine_includeFile(w, t) ==
  IF t.ops[1].name \in DOMAIN Included
    THEN [processHTML(w, Included[t.ops[1].name]) EXCEPT !.ret = FALSE]
    ELSE printHTMLChunk(w, IncludeError)

TagNames == {"get", "set", "return", "echo_off", "echo_on", "echo_funcs_off", "echo_funcs_on",
              "if", "loop", "include", "f"}

\* One tag that stands by itself.
processTag(w, t) ==
  CASE t.tag = "get"            -> engine_getVariable(w, t)
    [] t.tag = "set"            -> engine_setVariable(w, t)
    [] t.tag = "f"              -> engine_platformFunction(w, t)
    [] t.tag = "include"        -> engine_includeFile(w, t)
    [] t.tag = "echo_off"       -> [w EXCEPT !.off = TRUE]
    [] t.tag = "echo_on"        -> [w EXCEPT !.off = FALSE]
    [] t.tag = "echo_funcs_off" -> [w EXCEPT !.funcs = FALSE]
    [] t.tag = "echo_funcs_on"  -> [w EXCEPT !.funcs = TRUE]
    [] OTHER                    -> sendHTMLChunk(w, t)

\* The brace after {endif} is passed over, so what follows it is output as it stands.
AfterIf(u, pagedata, endif) ==
  IF u.ret \/ endif = Len(pagedata) THEN u
  ELSE process(sendHTMLChunk(u, pagedata[endif + 1]), pagedata, endif + 2)

process(w0, pagedata, i) ==
  IF i > Len(pagedata) THEN w0
  ELSE LET t == pagedata[i]
           w == IF t.tag \in TagNames \ {"echo_funcs_on", "echo_funcs_off"} /\ w0.funcs
                  THEN sendHTMLChunk(w0, t) ELSE w0
           tags == find_if_tags_pos(pagedata, i + 1)
           end == find_tag_end_pos(pagedata, i + 1)
       IN  CASE t.tag = "return" -> [w EXCEPT !.ret = TRUE]
             [] t.tag = "loop"   ->
                  process(engine_loop_array(w, t, SubSeq(pagedata, i + 1, end - 1)), pagedata, end + 1)
             [] t.tag = "if"     -> AfterIf(engine_TemplateIF(w, t, pagedata, i + 1, tags), pagedata, tags.endif)
             [] OTHER            -> process(processTag(w, t), pagedata, i + 1)

---------------------------------------------------------------------------
(* A page as its author nests it: a tree of nodes.  pagedata is what is     *)
(* stored in the file.                                                      *)

Leaf(tag, ops) == [tag |-> tag, ops |-> ops, body |-> <<>>, hasElse |-> FALSE, other |-> <<>>]
IfNode(ops, body) == [tag |-> "if", ops |-> ops, body |-> body, hasElse |-> FALSE, other |-> <<>>]
IfElseNode(ops, body, other) == [tag |-> "if", ops |-> ops, body |-> body, hasElse |-> TRUE, other |-> other]
LoopNode(ops, body) == [tag |-> "loop", ops |-> ops, body |-> body, hasElse |-> FALSE, other |-> <<>>]

RECURSIVE Flatten(_)
Flatten(tree) ==
  IF tree = <<>> THEN <<>>
  ELSE LET n == Head(tree)
           closed == CASE n.tag = "if"   -> <<Tag("endif", <<>>)>>
                       [] n.tag = "loop" -> <<Tag("endloop", <<>>)>>
                       [] OTHER          -> <<>>
           else == IF n.hasElse THEN <<Tag("else", <<>>)>> ELSE <<>>
       IN  <<Tag(n.tag, n.ops)>> \o Flatten(n.body) \o else \o Flatten(n.other) \o closed \o Flatten(Tail(tree))

---------------------------------------------------------------------------
(* What a page means: places instead of allocated variables, no iterators,  *)
(* no scanning.  A place is a namespace, a name and indexes; mem holds its   *)
(* type and value, an array its length, a loop variable the place it names. *)

Place(op) == <<op.ns, op.name>>
Cell(type, val, to) == [type |-> type, val |-> val, to |-> to]
At(e, p) == IF p \in DOMAIN e.mem THEN e.mem[p] ELSE Cell("EMPTY", 0, <<>>)
Resolve(e, p) == IF At(e, p).type = "REF" THEN At(e, p).to ELSE p

\* The place an operand names; <<>> if there is none.
RECURSIVE Inside(_, _, _)
Inside(e, p, idx) ==
  IF idx = <<>> \/ At(e, p).type # "ARRAY" THEN p
  ELSE IF Head(idx).n < At(e, p).val THEN Inside(e, Append(p, Head(idx).n), Tail(idx)) ELSE <<>>

Names(e, op) ==
  IF op.ns # "global" /\ At(e, Place(op)).type = "EMPTY" THEN <<>> ELSE Inside(e, Resolve(e, Place(op)), op.idx)

\* The value of an operand.
ValueOf(e, op) ==
  CASE op.ns = "text" -> Cell("STRING", op.name, <<>>)
    [] op.ns = "int"  -> Cell("INT", op.name, <<>>)
    [] Names(e, op) # <<>> -> At(e, Names(e, op))
    [] At(e, Place(op)).type = "EMPTY" -> Cell("STRING", NotFound(op.ns, op.name), <<>>)
    [] OTHER -> Cell("STRING", IndexNotFound, <<>>)

Say(e, t) == IF e.off THEN e ELSE [e EXCEPT !.out = Append(@, t)]

RECURSIVE Printed(_, _)
Printed(e, p) ==
  CASE At(e, p).type \in {"STRING", "INT"} -> <<Shown(At(e, p).val)>>
    [] At(e, p).type = "ARRAY" ->
         FoldLeft(LAMBDA s, i : s \o <<Shown(EntryName(i - 1))>> \o Printed(e, Append(p, i - 1)),
                  <<Shown(ArrayTitle)>>, [i \in 1..At(e, p).val |-> i])
    [] OTHER -> <<>>

Assign(e, p, c) == [e EXCEPT !.mem = (p :> c) @@ @]

SetMeaning(e, t) ==
  LET v == ValueOf(e, t.ops[2])
      literal == t.ops[2].ns \in {"text", "int"} \/ Names(e, t.ops[2]) = <<>>
      p == Names(e, t.ops[1])
      fresh == t.ops[1].ns = "render" /\ At(e, Place(t.ops[1])).type = "EMPTY"
      new == <<"render", IF fresh THEN t.ops[1].name ELSE TMP>>
  IN  CASE literal /\ p # <<>> -> Assign(e, p, v)
        [] literal /\ p = <<>> -> Assign(e, new, v)
        [] ~literal /\ p = <<>> -> [e EXCEPT !.out = Append(@, Shown(SetError))]
        [] OTHER -> e

Holds(e, t) ==
  LET x == ValueOf(e, t.ops[2])
      y == ValueOf(e, t.ops[3])
      same == {x.type, y.type} \subseteq {"STRING", "INT"} /\ x.val = y.val
  IN  CASE t.ops[1].ns = "is_true" -> TRUE
        [] t.ops[1].ns = "is_false" -> FALSE
        [] t.ops[1].ns = "eq" -> same
        [] t.ops[1].ns = "!eq" -> ~same

\* {return} leaves the {if:}s around it, one round of a loop, or the file.
RECURSIVE Meaning(_, _)
Meaning(e0, tree) ==
  IF tree = <<>> THEN e0
  ELSE
    LET n == Head(tree)
        e == IF e0.funcs /\ n.tag \in TagNames \ {"echo_funcs_on", "echo_funcs_off"}
               THEN Say(e0, Tag(n.tag, n.ops)) ELSE e0
        p == Names(e, n.ops[1])
        value == <<"render", n.ops[2].name>>
        rounds == [i \in 1..At(e, p).val |-> Append(p, i - 1)]
        Bind(d, q) == LET a == Assign(d, value, Cell("REF", 0, q))
                      IN  IF Len(n.ops) = 3
                            THEN Assign(a, <<"render", n.ops[3].name>>, Cell("STRING", Last(q), <<>>)) ELSE a
        after ==
          CASE n.tag = "get" ->
                 IF e.off THEN e
                 ELSE IF p = <<>> THEN Say(e, Shown(ValueOf(e, n.ops[1]).val))
                 ELSE [e EXCEPT !.out = @ \o Printed(e, p)]
            [] n.tag = "set" -> SetMeaning(e, n)
            [] n.tag = "f" -> Assign(e, Place(n.ops[1]), Cell("STRING", 1, <<>>))
            [] n.tag = "include" ->
                 IF n.ops[1].name \in DOMAIN Included
                   THEN [Meaning(e, [i \in DOMAIN Included[n.ops[1].name] |->
                                       Leaf(Included[n.ops[1].name][i].tag, Included[n.ops[1].name][i].ops)])
                         EXCEPT !.ret = FALSE]
                   ELSE [e EXCEPT !.out = Append(@, Shown(IncludeError))]
            [] n.tag = "echo_off" -> [e EXCEPT !.off = TRUE]
            [] n.tag = "echo_on" -> [e EXCEPT !.off = FALSE]
            [] n.tag = "echo_funcs_off" -> [e EXCEPT !.funcs = FALSE]
            [] n.tag = "echo_funcs_on" -> [e EXCEPT !.funcs = TRUE]
            [] n.tag = "return" -> [e EXCEPT !.ret = TRUE]
            [] n.tag = "if" ->
                 IF n.ops[1].ns \notin {"is_true", "is_false", "eq", "!eq"} THEN e
                 ELSE Meaning(e, IF Holds(e, n) THEN n.body ELSE n.other)
            [] n.tag = "loop" /\ p = <<>> -> Say(e, Shown(ValueOf(e, n.ops[1]).val))
            [] n.tag = "loop" /\ p # <<>> ->
                 FoldLeft(LAMBDA d, q : [Meaning(Bind(d, q), n.body) EXCEPT !.ret = FALSE],
                          e, IF At(e, p).type = "ARRAY" THEN rounds ELSE <<>>)
            [] OTHER -> Say(e, Tag(n.tag, n.ops))
    IN  IF after.ret THEN after ELSE Meaning(after, Tail(tree))

---------------------------------------------------------------------------
(* The application's variables, in the heap and as places.                  *)

Scalar(n) == [array |-> FALSE, n |-> n, items |-> <<>>]
ArrayOf(items) == [array |-> TRUE, n |-> 0, items |-> items]

RECURSIVE Fill(_, _, _)
Fill(h, v, content) ==
  LET g == setWSVariableArray(h, v)
      Element(k, i) == addWSVariableArrayIndex(k, v, i - 1)
  IN  IF ~content.array THEN setWSVariableInt(h, v, content.n)
      ELSE FoldLeft(LAMBDA k, i : LET n == Element(k, i) IN Fill(n[1], n[2], content.items[i]),
                    g, [i \in DOMAIN content.items |-> i])

Store(h, store, contents) ==
  FoldLeft(LAMBDA k, name : LET n == newVariable(k, store, name) IN Fill(n[1], n[2], contents[name]),
           h, SetToSeq(DOMAIN contents))

\* Stores of the globals, of the session, of the parameters and of the render variables.
AppHeap ==
  LET h == createVariableStore(createVariableStore(createVariableStore(createVariableStore(NoHeap))))
  IN  Store(Store(h, 1, Globals), 3, Parameters)

Stores == [global |-> 1, session |-> 2, parameter |-> 3, render |-> 4]

RECURSIVE Cells(_, _)
Cells(p, content) ==
  IF ~content.array THEN p :> Cell("INT", content.n, <<>>)
  ELSE FoldLeft(LAMBDA f, i : f @@ Cells(Append(p, i - 1), content.items[i]),
                p :> Cell("ARRAY", Len(content.items), <<>>), [i \in DOMAIN content.items |-> i])

AppMem ==
  LET All(ns, contents) == FoldLeft(LAMBDA f, n : f @@ Cells(<<ns, n>>, contents[n]), << >>, SetToSeq(DOMAIN contents))
  IN  All("global", Globals) @@ All("parameter", Parameters)

---------------------------------------------------------------------------
(* A request: the page is rendered, then endHTTPRequest() drops the render  *)
(* variables.  {echo_funcs_on} outlives the page on its connection.          *)

NoRender == [h |-> NoHeap, out |-> <<>>, off |-> FALSE, funcs |-> FALSE, ret |-> FALSE, at |-> Stores, phase |-> "start"]

engineInit ==
  /\ page \in Pages
  /\ render = [NoRender EXCEPT !.h = AppHeap, !.funcs = page.funcs]

RenderPage ==
  /\ render.phase = "start"
  /\ render' = [processHTML(render, Flatten(page.tree)) EXCEPT !.phase = "rendered"]
  /\ UNCHANGED page

clearRenderVariables ==
  /\ render.phase = "rendered"
  /\ render' = [render EXCEPT !.h = deleteVariableStore(@, Stores.render), !.phase = "done"]
  /\ UNCHANGED page

engineNext == RenderPage \/ clearRenderVariables

---------------------------------------------------------------------------
(* What is printed is what the page means: the blocks end where their       *)
(* author ended them, {return} and {echo_off} reach as far as they should,  *)
(* and loop variables name the elements of their array, also when they are  *)
(* set (processHTML(), find_if_tags_pos(), find_tag_end_pos(), parseVariable()). *)
RenderAsNested ==
  render.phase = "rendered" =>
    render.out = Meaning([mem |-> AppMem, out |-> <<>>, off |-> FALSE, funcs |-> page.funcs, ret |-> FALSE], page.tree).out

(* No freed variable is touched, and when a request is over every variable  *)
(* left is in a store: the variables the parser allocates for operands are  *)
(* freed on every path (parseVariable() and its callers).                   *)
VariablesAccounted ==
  /\ ~render.h.stale
  /\ render.phase = "done" => DOMAIN render.h.var = Owned(render.h, {Stores.global, Stores.session, Stores.parameter})
=============================================================================
