----------------------------- MODULE Containers -----------------------------
(* The list of linked_list.c and the map of hashmap.c, at the level of      *)
(* their nodes and buckets, beside the sequence and the function they stand *)
(* for.  A node that is freed leaves the heap; touching it afterwards is    *)
(* recorded.                                                                *)
EXTENDS Integers, Sequences, SequencesExt, FiniteSets, Functions, TLC

CONSTANTS
  Elements,          \* what callers store in a list
  MaxList,           \* bound: entries of a list
  Keys, MapValues,   \* keys and values of the map
  KeyHash,           \* the hash of each key
  Capacity,          \* HASHMAP_INITIAL_CAPACITY, a power of two
  MapSteps           \* bound: changes of the map

ASSUME ContainerConstants ==
  /\ MaxList \in Nat /\ MapSteps \in Nat
  /\ \E k \in 0..5 : Capacity = 2^k
  /\ KeyHash \in [Keys -> Nat]

VARIABLES
  list,      \* first, last, cur_iter (0: none) and element_count
  node,      \* the allocated nodes
  entries,   \* the sequence the list stands for
  ahead,     \* entries the iterator has still to give
  stale      \* a freed node was touched

listVars == <<list, node, entries, ahead, stale>>

Null == 0
FreeNodes == 1..(MaxList + 1) \ DOMAIN node
NewNode == CHOOSE n \in FreeNodes : \A m \in FreeNodes : n <= m

\* Writing a field of a node that is not there is the stale access.
Write(ns, n, field, value) == IF n \in DOMAIN ns THEN [ns EXCEPT ![n][field] = value] ELSE ns
Missing(ns, n) == n # Null /\ n \notin DOMAIN ns

---------------------------------------------------------------------------
(* linked_list.c.                                                           *)

ws_list_init ==
  /\ list = [first |-> Null, last |-> Null, cur |-> Null, count |-> 0]
  /\ node = << >> /\ entries = <<>> /\ ahead = 0 /\ stale = FALSE

ws_list_append(e, atFront) ==
  LET n == NewNode
      new == [data |-> e, next |-> Null, prev |-> Null]
      front == Write((n :> [new EXCEPT !.next = list.first]) @@ node, list.first, "prev", n)
      back == Write((n :> [new EXCEPT !.prev = list.last]) @@ node, list.last, "next", n)
  IN
  /\ Len(entries) < MaxList
  /\ \/ /\ list.first = Null
        /\ node' = (n :> new) @@ node
        /\ list' = [list EXCEPT !.first = n, !.last = n, !.count = @ + 1]
        /\ UNCHANGED stale
     \/ /\ list.first # Null /\ atFront
        /\ node' = front
        /\ list' = [list EXCEPT !.first = n, !.count = @ + 1]
        /\ UNCHANGED stale
     \/ /\ list.first # Null /\ ~atFront
        /\ node' = back
        /\ list' = [list EXCEPT !.last = n, !.count = @ + 1]
        /\ stale' = (stale \/ Missing(node, list.last))
  /\ entries' = IF atFront THEN <<e>> \o entries ELSE Append(entries, e)
  /\ ahead' = IF ~atFront /\ ahead > 0 THEN ahead + 1 ELSE ahead

RECURSIVE Walk(_, _, _, _)
Walk(ns, n, field, limit) ==
  IF n \notin DOMAIN ns \/ limit = 0 THEN <<>> ELSE <<n>> \o Walk(ns, ns[n][field], field, limit - 1)

Chain == Walk(node, list.first, "next", MaxList + 1)

\* Faulty: last is left on the node that goes.
UnlinkKeepsLast(l, ns, n) ==
  LET e == ns[n]
      linked == Write(Write(ns, e.prev, "next", e.next), e.next, "prev", e.prev)
  IN  <<[l EXCEPT !.count = @ - 1, !.first = IF @ = n THEN e.next ELSE @], Restrict(linked, DOMAIN linked \ {n})>>

\* What ws_list_delete() does to the list and to the nodes.
Unlink(l, ns, n) ==
  LET e == ns[n]
      linked == Write(Write(ns, e.prev, "next", e.next), e.next, "prev", e.prev)
  IN  <<[l EXCEPT !.count = @ - 1,
                  !.first = IF @ = n THEN e.next ELSE @,
                  !.last = IF @ = n THEN e.prev ELSE @],
        Restrict(linked, DOMAIN linked \ {n})>>

Passed(i) == i <= Len(entries) - ahead

\* Callers do not delete the entry that their iteration gives next.
ws_list_delete(e) ==
  LET i == SelectInSeq(Chain, LAMBDA n : node[n].data = e)
      r == Unlink(list, node, Chain[i])
  IN
  /\ i # 0 /\ Chain[i] # list.cur
  /\ list' = r[1] /\ node' = r[2]
  /\ entries' = RemoveFirst(entries, e)
  /\ ahead' = IF Passed(SelectInSeq(entries, LAMBDA d : d = e)) THEN ahead ELSE ahead - 1
  /\ UNCHANGED stale

\* last is not moved: callers take the first entry, and never the last behind another.
ws_list_extract_at(pos) ==
  LET n == Chain[pos + 1]
      e == node[n]
      linked == Write(Write(node, e.prev, "next", e.next), e.next, "prev", e.prev)
  IN
  /\ pos < Len(Chain) /\ n # list.cur
  /\ pos = 0 \/ e.next # Null
  /\ list' = [list EXCEPT !.count = @ - 1, !.first = IF e.prev = Null /\ @ = n THEN e.next ELSE @]
  /\ node' = Restrict(linked, DOMAIN node \ {n})
  /\ entries' = RemoveAt(entries, pos + 1)
  /\ ahead' = IF Passed(pos + 1) THEN ahead ELSE ahead - 1
  /\ UNCHANGED stale

\* Both leave last and the iterator where they were; callers end their iteration first.
ws_list_destroy ==
  /\ list.cur = Null /\ list.first # Null
  /\ list' = [list EXCEPT !.count = @ - Len(Chain), !.first = Null]
  /\ node' = << >> /\ entries' = <<>> /\ ahead' = 0
  /\ UNCHANGED stale

ws_list_clear ==
  /\ list.cur = Null
  /\ list' = [list EXCEPT !.count = IF list.first = Null THEN @ ELSE @ - Len(Chain), !.first = Null]
  /\ node' = << >> /\ entries' = <<>> /\ ahead' = 0
  /\ UNCHANGED stale

ws_list_iterator_start ==
  /\ list' = [list EXCEPT !.cur = list.first]
  /\ ahead' = Len(entries)
  /\ UNCHANGED <<node, entries, stale>>

ws_list_iterator_next ==
  /\ list.cur # Null
  /\ stale' = (stale \/ Missing(node, list.cur))
  /\ list' = [list EXCEPT !.cur = IF Missing(node, @) THEN Null ELSE node[@].next]
  /\ ahead' = ahead - 1
  /\ UNCHANGED <<node, entries>>

ws_list_iterator_stop ==
  /\ list' = [list EXCEPT !.cur = Null]
  /\ ahead' = 0
  /\ UNCHANGED <<node, entries, stale>>

ListNext ==
  \/ \E e \in Elements, atFront \in BOOLEAN : ws_list_append(e, atFront)
  \/ \E e \in Elements : ws_list_delete(e)
  \/ \E pos \in 0..(MaxList - 1) : ws_list_extract_at(pos)
  \/ ws_list_destroy
  \/ ws_list_clear
  \/ ws_list_iterator_start
  \/ ws_list_iterator_next
  \/ ws_list_iterator_stop

\* ws_list_get_at() and ws_list_seek().
ws_list_get_at(pos) == IF pos < Len(Chain) THEN node[Chain[pos + 1]].data ELSE Null
ws_list_seek(e) == \E i \in DOMAIN Chain : node[Chain[i]].data = e

(* The nodes, walked from either end, the count, the iterator and the       *)
(* lookups agree with the sequence of what was appended and not yet taken,  *)
(* whatever is deleted while an iteration is under way; no freed node is    *)
(* touched (linked_list.c).                                                 *)
ListIsSequence ==
  LET data(ns) == [k \in DOMAIN ns |-> node[ns[k]].data]
  IN
  /\ ~stale
  /\ data(Chain) = entries
  /\ list.count = Len(entries)
  /\ entries # <<>> => data(Walk(node, list.last, "prev", MaxList + 1)) = Reverse(entries)
  /\ data(Walk(node, list.cur, "next", MaxList + 1)) = SubSeq(entries, Len(entries) - ahead + 1, Len(entries))
  /\ \A i \in DOMAIN entries : ws_list_get_at(i - 1) = entries[i]
  /\ \A e \in Elements : ws_list_seek(e) <=> e \in Range(entries)

---------------------------------------------------------------------------
(* hashmap.c.  The chain of a bucket is a sequence, newest first.           *)

VARIABLES
  map,       \* buckets, capacity and count
  known,     \* the function the map stands for
  changes    \* changes so far

mapVars == <<map, known, changes>>

Item(k, v) == [key |-> k, value |-> v]
EmptyBuckets(n) == [i \in 0..(n - 1) |-> <<>>]

hashmap_create ==
  /\ map = [buckets |-> EmptyBuckets(Capacity), capacity |-> Capacity, count |-> 0]
  /\ known = << >> /\ changes = 0

\* hash & (capacity - 1)
bucket_index(m, k) == KeyHash[k] % m.capacity

InBucket(m, k) == SelectSeq(m.buckets[bucket_index(m, k)], LAMBDA x : x.key = k)

hashmap_get(m, k) == IF InBucket(m, k) = <<>> THEN <<>> ELSE <<Head(InBucket(m, k)).value>>

AllItems(m) == FoldLeft(LAMBDA s, i : s \o m.buckets[i - 1], <<>>, [i \in 1..m.capacity |-> i])

\* Faulty: the entries stay in the buckets of the old capacity.
ResizeOldIndex(m) ==
  IF m.count * 4 <= m.capacity * 3 THEN m
  ELSE [m EXCEPT !.buckets = [i \in 0..(2 * m.capacity - 1) |->
                                IF i < m.capacity THEN m.buckets[i] ELSE <<>>],
                 !.capacity = 2 * @]

\* The bucket array is doubled and every entry moved; each goes to the front of its new chain.
hashmap_resize_if_needed(m) ==
  LET bigger == [m EXCEPT !.buckets = EmptyBuckets(2 * m.capacity), !.capacity = 2 * @]
  IN  IF m.count * 4 <= m.capacity * 3 THEN m
      ELSE FoldLeft(LAMBDA n, x : [n EXCEPT !.buckets[bucket_index(n, x.key)] = <<x>> \o @], bigger, AllItems(m))

\* allocated: the allocation of the entry worked; grown: that of a larger bucket array.
hashmap_put(k, v, allocated, grown) ==
  LET b == bucket_index(map, k)
      at == SelectInSeq(map.buckets[b], LAMBDA item : item.key = k)
      added == [map EXCEPT !.buckets[b] = <<Item(k, v)>> \o @, !.count = @ + 1]
  IN
  /\ changes < MapSteps /\ changes' = changes + 1
  /\ \/ /\ at # 0
        /\ map' = [map EXCEPT !.buckets[b][at].value = v]
        /\ known' = [known EXCEPT ![k] = v]
     \/ /\ at = 0 /\ ~allocated
        /\ UNCHANGED <<map, known>>
     \/ /\ at = 0 /\ allocated
        /\ map' = IF grown THEN hashmap_resize_if_needed(added) ELSE added
        /\ known' = (k :> v) @@ known

hashmap_remove(k) ==
  LET b == bucket_index(map, k)
      at == SelectInSeq(map.buckets[b], LAMBDA item : item.key = k)
  IN
  /\ changes < MapSteps /\ changes' = changes + 1
  /\ at # 0
  /\ map' = [map EXCEPT !.buckets[b] = RemoveAt(@, at), !.count = @ - 1]
  /\ known' = Restrict(known, DOMAIN known \ {k})

MapNext ==
  \/ \E k \in Keys, v \in MapValues, allocated, grown \in BOOLEAN : hashmap_put(k, v, allocated, grown)
  \/ \E k \in Keys : hashmap_remove(k)

\* hashmap_foreach() visits the buckets in order, hashmap_foreach_sorted() the sorted keys.
hashmap_foreach(m) == AllItems(m)

(* Every key gives the value last put for it and not removed since, across  *)
(* resizes and resizes that found no memory; the count is right and an      *)
(* iteration visits each key once (hashmap.c).                              *)
MapIsFunction ==
  /\ \A k \in Keys : hashmap_get(map, k) = IF k \in DOMAIN known THEN <<known[k]>> ELSE <<>>
  /\ map.count = Cardinality(DOMAIN known)
  /\ Len(hashmap_foreach(map)) = map.count
  /\ {x.key : x \in Range(hashmap_foreach(map))} = DOMAIN known

(* The containers hold what was put into them: a list is the sequence, a    *)
(* map the function, that its operations describe (linked_list.c,           *)
(* hashmap.c), with an iteration under way and at every growth of the map.  *)
ContentsKept == ListIsSequence /\ MapIsFunction
=============================================================================
