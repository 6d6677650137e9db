----------------------------- MODULE Variables -----------------------------
(* Variables and variable stores (variable.c, variable_store.c): a heap of  *)
(* variables with values, references and arrays, where an array owns a      *)
(* store.  The iterator is part of the list of a store, so two iterations   *)
(* over one store disturb each other.  Text is the number it spells.        *)
(* Freeing follows nested arrays by recursion: this module is for TLC only. *)
EXTENDS Integers, Sequences, SequencesExt, Functions, TLC

NoVar == 0

\* used: next identity of a variable or a store; stale: a freed variable was touched.
NoHeap == [var |-> << >>, store |-> << >>, used |-> 0, stale |-> FALSE]

createVariableStore(h) ==
  [h EXCEPT !.used = @ + 1, !.store = ((h.used + 1) :> [items |-> <<>>, iter |-> 0]) @@ @]

newWSVariable(h, name) ==
  [h EXCEPT !.used = @ + 1, !.var = ((h.used + 1) :> [name |-> name, type |-> "EMPTY", val |-> 0]) @@ @]

\* The variable or store the last of these two created.
Newest(h) == h.used

Live(h, v) == v \in DOMAIN h.var
Touch(h, v) == IF Live(h, v) THEN h ELSE [h EXCEPT !.stale = TRUE]

---------------------------------------------------------------------------
(* Freeing.                                                                 *)

RECURSIVE freeWSVariableValue(_, _)
RECURSIVE FreeAll(_, _)

DropVar(h, v) == [h EXCEPT !.var = Restrict(@, DOMAIN @ \ {v})]

FreeAll(h, vs) ==
  IF vs = <<>> THEN h ELSE FreeAll(DropVar(freeWSVariableValue(h, Head(vs)), Head(vs)), Tail(vs))

clearVariables(h, store) ==
  [FreeAll(h, h.store[store].items) EXCEPT !.store[store] = [items |-> <<>>, iter |-> 0]]

deleteVariableStore(h, store) ==
  [clearVariables(h, store) EXCEPT !.store = Restrict(@, DOMAIN @ \ {store})]

freeWSVariableValue(h, v) ==
  IF v = NoVar THEN h
  ELSE IF ~Live(h, v) THEN Touch(h, v)
  ELSE [(IF h.var[v].type = "ARRAY" THEN deleteVariableStore(h, h.var[v].val) ELSE h) EXCEPT
          !.var[v].type = "EMPTY", !.var[v].val = 0]

freeWSVariable(h, v) ==
  IF v = NoVar THEN h ELSE DropVar(freeWSVariableValue(h, v), v)

---------------------------------------------------------------------------
(* Values.                                                                  *)

SetValue(h, v, type, val) ==
  IF v = NoVar \/ ~Live(h, v) THEN Touch(h, v)
  ELSE [freeWSVariableValue(h, v) EXCEPT !.var[v].type = type, !.var[v].val = val]

setWSVariableString(h, v, text) == SetValue(h, v, "STRING", text)
setWSVariableInt(h, v, value) == SetValue(h, v, "INT", value)
setWSVariableRef(h, v, ref) == SetValue(h, v, "REF", ref)

setWSVariableArray(h, v) ==
  LET Owning(g) == SetValue(g, v, "ARRAY", Newest(g))
  IN  Owning(createVariableStore(freeWSVariableValue(h, v)))

Deref(h, v) == IF h.var[v].type = "REF" THEN h.var[v].val ELSE v

IsArray(h, v) == Live(h, v) /\ h.var[v].type = "ARRAY"

---------------------------------------------------------------------------
(* Stores.  A search returns a variable, or NoVar.                          *)

var_seeker(h, v, name) == h.var[v].name = name

searchVariable(h, store, name) ==
  LET hits == SelectSeq(h.store[store].items, LAMBDA v : var_seeker(h, v, name))
  IN  IF hits = <<>> THEN NoVar ELSE Head(hits)

addVariable(h, store, v) == [h EXCEPT !.store[store].items = Append(@, v)]

\* The result is the heap and the variable.
newVariable(h, store, name) ==
  LET known == searchVariable(h, store, name)
      g == newWSVariable(h, name)
  IN  IF known # NoVar THEN <<h, known>> ELSE <<addVariable(g, store, Newest(g)), Newest(g)>>

freeVariable(h, store, v) ==
  IF v = NoVar THEN h
  ELSE freeWSVariable([h EXCEPT !.store[store].items = SelectSeq(@, LAMBDA x : x # v)], v)

delVariable(h, store, name) == freeVariable(h, store, searchVariable(h, store, name))

---------------------------------------------------------------------------
(* Iteration: iter is the position of the next entry, 0 at the end.         *)

getNextVariable(h, store) ==
  LET l == h.store[store]
  IN  IF l.iter = 0 THEN <<h, NoVar>>
      ELSE <<[h EXCEPT !.store[store].iter = IF l.iter = Len(l.items) THEN 0 ELSE l.iter + 1], l.items[l.iter]>>

getFirstVariable(h, store) ==
  IF h.store[store].items = <<>> THEN <<h, NoVar>>
  ELSE getNextVariable([h EXCEPT !.store[store].iter = 1], store)

stopIterateVariable(h, store) == [h EXCEPT !.store[store].iter = 0]

getWSVariableArray(h, v, name) == IF IsArray(h, v) THEN searchVariable(h, h.var[v].val, name) ELSE NoVar

getWSVariableArrayFirst(h, v) == IF IsArray(h, v) THEN getFirstVariable(h, h.var[v].val) ELSE <<h, NoVar>>

getWSVariableArrayNext(h, v) == IF IsArray(h, v) THEN getNextVariable(h, h.var[v].val) ELSE <<h, NoVar>>

\* Walks the array from its start, whoever else is walking it.
getWSVariableArrayIndex(h, v, index) ==
  IF ~IsArray(h, v) THEN <<h, NoVar>>
  ELSE LET store == h.var[v].val
           items == h.store[store].items
       IN  IF items = <<>> THEN <<h, NoVar>>
           ELSE <<stopIterateVariable(h, store), IF index < Len(items) THEN items[index + 1] ELSE NoVar>>

\* addWSVariableArrayIndex(): entries are named by their position up to index.
RECURSIVE addWSVariableArrayIndex(_, _, _)
addWSVariableArrayIndex(h, v, index) ==
  LET store == h.var[v].val
      n == Len(h.store[store].items)
  IN  IF n > index THEN <<h, h.store[store].items[index + 1]>>
      ELSE addWSVariableArrayIndex(newVariable(h, store, n)[1], v, index)

---------------------------------------------------------------------------
(* What a heap holds, reached from the stores given.                        *)

RECURSIVE Owned(_, _)
Owned(h, roots) ==
  LET vars == UNION {Range(h.store[s].items) : s \in roots}
      inner == {h.var[v].val : v \in {x \in vars \cap DOMAIN h.var : h.var[x].type = "ARRAY"}}
  IN  IF roots = {} THEN {} ELSE vars \cup Owned(h, inner)
=============================================================================
