---------------------------- MODULE StoresProofs ----------------------------
(* Proofs about the server's stores.  Session: the request's stores live   *)
(* and are locked once, a websocket's session lasts as long as its handler *)
(* was told, access follows the login, and idle sessions end, for every    *)
(* session timeout, check interval, set of websockets and bound of a       *)
(* behaviour.  Files: every answer is one version of the file that was on  *)
(* disk since the request began, for all contents and lengths, all times   *)
(* of modification, any number of replacements and of requests.            *)
EXTENDS Session, Files, FiniteSetTheorems, TLAPS
---------------------------------------------------------------------------
(* Session: types.                                                         *)

Store == [ssl : BOOLEAN, lastUse : Nat, locks : Int,
          registered : {"absent", "true", "false"}, sid : Int, value : Int]

Request == [active : BOOLEAN, tls : BOOLEAN, since : Nat,
            guid : [BOOLEAN -> Int], create_cookie : [BOOLEAN -> BOOLEAN],
            store : [BOOLEAN -> Nat]]

Socket == [open : BOOLEAN, store_guid : Nat, promise : Nat]

(* A world: the stores, named by GUIDs that have been generated, a request *)
(* and the next GUID.                                                      *)
WorldType(w) ==
    /\ w = [st |-> w.st, r |-> w.r, next |-> w.next]
    /\ w.st \in [DOMAIN w.st -> Store]
    /\ w.r \in Request
    /\ w.next \in Nat /\ w.next >= 1
    /\ DOMAIN w.st \subseteq 1 .. (w.next - 1)

TypeOK ==
    /\ bound \in Bounds
    /\ WorldType(World)
    /\ nextGuid <= bound.guids + 1
    /\ now \in Nat /\ lastCheck \in Nat /\ nextSid \in Nat \ {0}
    /\ socks \in [Websockets -> Socket]
    /\ login \in [Guids -> Nat]

---------------------------------------------------------------------------
(* The parts of the inductive invariant.                                   *)

Held(r) == {r.store[ssl] : ssl \in BOOLEAN} \ {0}

(* A store the request has is there, is of the kind it was asked for, and  *)
(* was used since the request began.                                       *)
HasStores(w) ==
    \A ssl \in BOOLEAN :
       w.r.store[ssl] # 0 =>
          /\ w.r.store[ssl] \in DOMAIN w.st
          /\ w.st[w.r.store[ssl]].ssl = ssl
          /\ w.st[w.r.store[ssl]].lastUse >= w.r.since
          /\ ssl => w.r.tls

(* A GUID generated for a cookie of the request names no other store, and  *)
(* the two kinds of store get two GUIDs.                                   *)
NewCookies(w) ==
    /\ \A ssl \in BOOLEAN :
          w.r.create_cookie[ssl] =>
             /\ w.r.guid[ssl] \in 1 .. (w.next - 1)
             /\ w.r.store[ssl] = 0 => w.r.guid[ssl] \notin DOMAIN w.st
    /\ w.r.create_cookie[TRUE] /\ w.r.create_cookie[FALSE] =>
          w.r.guid[TRUE] # w.r.guid[FALSE]

(* The stores in S are locked once, and no other is.                       *)
LocksAre(w, S) ==
    \A g \in DOMAIN w.st : w.st[g].locks = IF g \in S THEN 1 ELSE 0

(* Whoever is served is served within the session timeout, and between two *)
(* requests nothing is held.                                               *)
OneRequest ==
    /\ cur.active => cur.since <= now /\ now <= cur.since + session_timeout
    /\ ~cur.active => cur = NoRequest

(* The last check left no store that was idle for too long.                *)
CheckedStores ==
    /\ lastCheck <= now
    /\ \A g \in DOMAIN stores :
          /\ stores[g].lastUse <= now
          /\ session_timeout # 0 => lastCheck - stores[g].lastUse <= session_timeout

(* A store lasts for the timeout from its last use, and so as long as any  *)
(* handler was promised.                                                   *)
PromisesKept ==
    \A k \in Websockets :
       socks[k].promise # 0 /\ now <= socks[k].promise =>
          /\ socks[k].store_guid \in DOMAIN stores
          /\ socks[k].promise <= stores[socks[k].store_guid].lastUse + session_timeout

(* A session id is given to one login.                                     *)
LoginsBound ==
    \A g \in DOMAIN stores :
       /\ stores[g].sid < nextSid
       /\ ~stores[g].ssl /\ stores[g].registered = "true" /\ stores[g].sid # Absent =>
             /\ login[g] # 0
             /\ \A h \in DOMAIN stores :
                   stores[h].ssl /\ stores[h].sid = stores[g].sid /\ stores[h].sid # Empty =>
                      login[g] = h

SessInv ==
    /\ TypeOK
    /\ HasStores(World) /\ NewCookies(World) /\ LocksAre(World, Held(cur))
    /\ OneRequest /\ CheckedStores /\ PromisesKept /\ LoginsBound
---------------------------------------------------------------------------
(* What restoreSession() does to a world.                                  *)

WorldOK(w) ==
    /\ WorldType(w) /\ HasStores(w) /\ NewCookies(w)
    /\ w.r.since <= now /\ now \in Nat

(* A GUID that may still be given to a store of the request.               *)
Unused(w, g) ==
    \/ g >= w.next
    \/ \E ssl \in BOOLEAN :
          w.r.create_cookie[ssl] /\ w.r.store[ssl] = 0 /\ w.r.guid[ssl] = g

(* From w to v stores are found and made, and none is dropped: only the    *)
(* time of the last use and the locks of a store change.                   *)
Kept(w, v) ==
    /\ DOMAIN w.st \subseteq DOMAIN v.st
    /\ \A g \in DOMAIN w.st :
          /\ v.st[g].ssl = w.st[g].ssl
          /\ v.st[g].registered = w.st[g].registered
          /\ v.st[g].sid = w.st[g].sid
          /\ v.st[g].lastUse = w.st[g].lastUse \/ v.st[g].lastUse = now
    /\ \A g \in DOMAIN v.st \ DOMAIN w.st :
          /\ v.st[g].registered = "absent" /\ v.st[g].sid = Absent
          /\ v.st[g].lastUse = now
          /\ Unused(w, g)
    /\ \A g \in Nat : Unused(v, g) => Unused(w, g)
    /\ v.r.active = w.r.active /\ v.r.tls = w.r.tls /\ v.r.since = w.r.since
    /\ w.next <= v.next

(* For a request that has no store of the kind ssl yet.                    *)
Wants(w, ssl) == w.r.store[ssl] = 0 /\ (ssl => w.r.tls)

(* A store is found by its cookie.                                         *)
LEMMA Found ==
    ASSUME NEW w, NEW ssl \in BOOLEAN, WorldOK(w), Wants(w, ssl),
           w.r.create_cookie[ssl] = FALSE,
           NEW S, LocksAre(w, S)
    PROVE  LET v == findSessionStore(w, ssl)
           IN  /\ WorldOK(v) /\ Kept(w, v) /\ LocksAre(v, S)
               /\ \A k \in BOOLEAN \ {ssl} : v.r.store[k] = w.r.store[k]
<1> DEFINE g == w.r.guid[ssl]
           v == findSessionStore(w, ssl)
<1>1. CASE ~ (g \in DOMAIN w.st /\ w.st[g].ssl = ssl)
  <2>1. v = w
    BY <1>1 DEF findSessionStore
  <2> QED
    BY <2>1 DEF Kept, WorldOK, WorldType
<1>2. CASE g \in DOMAIN w.st /\ w.st[g].ssl = ssl
  <2> DEFINE s == [w.st[g] EXCEPT !.lastUse = now]
             r == [w.r EXCEPT !.store = [@ EXCEPT ![ssl] = g]]
             st == [w.st EXCEPT ![g] = s]
  <2>1. v = [st |-> st, r |-> r, next |-> w.next]
    BY <1>2 DEF findSessionStore, WorldOK, WorldType
  <2>2. w.st[g] \in Store /\ w.st \in [DOMAIN w.st -> Store]
    BY <1>2 DEF WorldOK, WorldType
  <2>3. /\ s \in Store /\ s.ssl = ssl /\ s.registered = w.st[g].registered
        /\ s.sid = w.st[g].sid /\ s.locks = w.st[g].locks /\ s.lastUse = now
    BY <1>2, <2>2 DEF Store, WorldOK
  <2> HIDE DEF s
  <2>4. /\ DOMAIN st = DOMAIN w.st /\ st \in [DOMAIN w.st -> Store] /\ st[g] = s
        /\ \A h \in DOMAIN w.st \ {g} : st[h] = w.st[h]
    BY <1>2, <2>2, <2>3
  <2> HIDE DEF st
  <2>5. g \in Nat /\ g # 0 /\ w.r \in Request
    BY <1>2 DEF WorldOK, WorldType
  <2>6. /\ r \in Request /\ r.store[ssl] = g
        /\ \A k \in BOOLEAN \ {ssl} : r.store[k] = w.r.store[k]
        /\ r.guid = w.r.guid /\ r.create_cookie = w.r.create_cookie
        /\ r.active = w.r.active /\ r.tls = w.r.tls /\ r.since = w.r.since
    BY <2>5 DEF Request
  <2> HIDE DEF r, g
  <2>7. v.st = st /\ v.r = r /\ v.next = w.next
    BY <2>1
  <2> HIDE DEF v
  <2>8. WorldType(v)
    BY <2>1, <2>4, <2>6, <2>7 DEF WorldOK, WorldType
  <2>9. HasStores(v)
    BY <1>2, <2>3, <2>4, <2>6, <2>7 DEF WorldOK, HasStores, Wants
  <2>10. NewCookies(v)
    BY <1>2, <2>4, <2>6, <2>7 DEF WorldOK, NewCookies
  <2>11. Kept(w, v)
    <3>1. \A h \in Nat : Unused(v, h) => Unused(w, h)
      BY <2>5, <2>6, <2>7 DEF Unused
    <3> QED
      BY <1>2, <2>3, <2>4, <2>6, <2>7, <3>1 DEF WorldOK, WorldType, Kept
  <2>12. LocksAre(v, S)
    BY <1>2, <2>3, <2>4, <2>7 DEF LocksAre
  <2> QED
    BY <2>6, <2>7, <2>8, <2>9, <2>10, <2>11, <2>12 DEF WorldOK, v
<1> QED
  BY <1>1, <1>2

(* A GUID is generated for a cookie of the kind ssl.                       *)
LEMMA Generated ==
    ASSUME NEW w, NEW ssl \in BOOLEAN, WorldOK(w), w.r.store[ssl] = 0,
           NEW S, LocksAre(w, S)
    PROVE  LET v == generateGUID(w, ssl)
           IN  /\ WorldOK(v) /\ Kept(w, v) /\ LocksAre(v, S)
               /\ v.r.create_cookie[ssl] = TRUE /\ v.r.store = w.r.store
<1> DEFINE v == generateGUID(w, ssl)
           r == [w.r EXCEPT !.create_cookie[ssl] = TRUE, !.guid[ssl] = w.next]
<1>1. v = [st |-> w.st, r |-> r, next |-> w.next + 1]
  <2>1. v = [w EXCEPT !.r = r, !.next = w.next + 1]
    BY DEF generateGUID
  <2> HIDE DEF r, v
  <2> QED
    BY <2>1 DEF WorldOK, WorldType
<1>2. w.next \in Nat /\ w.next >= 1 /\ w.next \notin DOMAIN w.st /\ w.r \in Request
  BY DEF WorldOK, WorldType
<1>3. /\ r \in Request /\ r.store = w.r.store
      /\ r.create_cookie[ssl] = TRUE /\ r.guid[ssl] = w.next
      /\ \A k \in BOOLEAN \ {ssl} : /\ r.create_cookie[k] = w.r.create_cookie[k]
                                    /\ r.guid[k] = w.r.guid[k]
      /\ r.active = w.r.active /\ r.tls = w.r.tls /\ r.since = w.r.since
  <2> DEFINE made == [w.r.create_cookie EXCEPT ![ssl] = TRUE]
             guid == [w.r.guid EXCEPT ![ssl] = w.next]
  <2>1. w.r.create_cookie \in [BOOLEAN -> BOOLEAN] /\ w.r.guid \in [BOOLEAN -> Int]
    BY <1>2 DEF Request
  <2>2. /\ made \in [BOOLEAN -> BOOLEAN] /\ made[ssl] = TRUE
        /\ \A k \in BOOLEAN \ {ssl} : made[k] = w.r.create_cookie[k]
    BY <2>1, Zenon
  <2>3. /\ guid \in [BOOLEAN -> Int] /\ guid[ssl] = w.next
        /\ \A k \in BOOLEAN \ {ssl} : guid[k] = w.r.guid[k]
    BY <1>2, <2>1
  <2>4. r = [w.r EXCEPT !.create_cookie = made, !.guid = guid]
    BY <1>2 DEF Request
  <2> HIDE DEF made, guid, r
  <2> QED
    BY <1>2, <2>2, <2>3, <2>4 DEF Request
<1> HIDE DEF r
<1>4. v.st = w.st /\ v.r = r /\ v.next = w.next + 1
  BY <1>1
<1> HIDE DEF v
<1>5. WorldType(v)
  BY <1>1, <1>2, <1>3, <1>4 DEF WorldOK, WorldType
<1>6. HasStores(v)
  BY <1>3, <1>4 DEF WorldOK, HasStores
<1>7. NewCookies(v)
  <2>1. ASSUME NEW k \in BOOLEAN, r.create_cookie[k]
        PROVE  /\ r.guid[k] \in 1 .. w.next
               /\ r.store[k] = 0 => r.guid[k] \notin DOMAIN w.st
    BY <1>2, <1>3, <2>1 DEF WorldOK, NewCookies
  <2>2. ASSUME NEW k \in BOOLEAN \ {ssl}, r.create_cookie[k]
        PROVE  r.guid[k] # w.next
    BY <1>2, <1>3, <2>2 DEF WorldOK, NewCookies
  <2>3. r.create_cookie[TRUE] /\ r.create_cookie[FALSE] => r.guid[TRUE] # r.guid[FALSE]
    <3>1. CASE ssl = TRUE
      BY <1>3, <2>2, <3>1
    <3>2. CASE ssl = FALSE
      BY <1>3, <2>2, <3>2
    <3> QED
      BY <3>1, <3>2
  <2>4. w.next = v.next - 1
    BY <1>2, <1>4
  <2> QED
    BY <1>4, <2>1, <2>3, <2>4 DEF NewCookies
<1>8. Kept(w, v)
  <2>1. ASSUME NEW h \in Nat, Unused(v, h) PROVE Unused(w, h)
    BY <1>2, <1>3, <1>4, <2>1 DEF Unused
  <2> QED
    BY <1>2, <1>3, <1>4, <2>1 DEF WorldOK, Kept
<1>9. LocksAre(v, S)
  BY <1>4 DEF LocksAre
<1> QED
  BY <1>2, <1>3, <1>4, <1>5, <1>6, <1>7, <1>8, <1>9 DEF WorldOK, v

(* A store is made, under a GUID that names none.                          *)
LEMMA Created ==
    ASSUME NEW w, NEW ssl \in BOOLEAN, WorldOK(w), Wants(w, ssl),
           w.r.create_cookie[ssl] = TRUE,
           NEW S \in SUBSET DOMAIN w.st, LocksAre(w, S)
    PROVE  LET v == createSession(w, ssl)
           IN  /\ WorldOK(v) /\ Kept(w, v) /\ LocksAre(v, S) /\ v.next = w.next
               /\ \A k \in BOOLEAN \ {ssl} : v.r.store[k] = w.r.store[k]
<1> DEFINE g == w.r.guid[ssl]
           v == createSession(w, ssl)
           s == Fresh(ssl)
           r == [w.r EXCEPT !.store[ssl] = g]
           st == Insert(w.st, g, s)
<1>1. v = [st |-> st, r |-> r, next |-> w.next]
  <2>1. v = [w EXCEPT !.st = st, !.r = r]
    BY DEF createSession
  <2> HIDE DEF r, st, v
  <2> QED
    BY <2>1 DEF WorldOK, WorldType
<1>2. /\ w.st \in [DOMAIN w.st -> Store] /\ g \notin DOMAIN w.st
      /\ g \in 1 .. (w.next - 1) /\ w.next \in Nat /\ w.r \in Request
  BY DEF WorldOK, WorldType, NewCookies, Wants
<1>3. /\ s \in Store /\ s.ssl = ssl /\ s.registered = "absent" /\ s.sid = Absent
      /\ s.locks = 0 /\ s.lastUse = now
  BY DEF Fresh, Store, WorldOK, Absent
<1>4. g \in Nat /\ g # 0
  BY <1>2
<1> HIDE DEF s, g
<1>5. /\ DOMAIN st = DOMAIN w.st \cup {g} /\ st \in [DOMAIN st -> Store] /\ st[g] = s
      /\ \A h \in DOMAIN w.st : st[h] = w.st[h]
  BY <1>2, <1>3 DEF Insert
<1>6. /\ r \in Request /\ r.store[ssl] = g
      /\ \A k \in BOOLEAN \ {ssl} : r.store[k] = w.r.store[k]
      /\ r.guid = w.r.guid /\ r.create_cookie = w.r.create_cookie
      /\ r.active = w.r.active /\ r.tls = w.r.tls /\ r.since = w.r.since
  BY <1>2, <1>4 DEF Request
<1> HIDE DEF st, r
<1>7. v.st = st /\ v.r = r /\ v.next = w.next
  BY <1>1
<1> HIDE DEF v
<1>8. WorldType(v)
  BY <1>1, <1>2, <1>5, <1>6, <1>7 DEF WorldOK, WorldType
<1>9. HasStores(v)
  BY <1>3, <1>5, <1>6, <1>7 DEF WorldOK, HasStores, Wants
<1>10. NewCookies(v)
  <2>1. ASSUME NEW k \in BOOLEAN, r.create_cookie[k]
        PROVE  r.guid[k] \in 1 .. (w.next - 1)
    BY <1>6, <2>1 DEF WorldOK, NewCookies
  <2>2. r.create_cookie[TRUE] /\ r.create_cookie[FALSE] => r.guid[TRUE] # r.guid[FALSE]
    BY <1>6 DEF WorldOK, NewCookies
  <2>3. ASSUME NEW k \in BOOLEAN \ {ssl}, r.create_cookie[k], r.store[k] = 0
        PROVE  r.guid[k] \notin DOMAIN st
    <3>1. r.guid[k] \notin DOMAIN w.st
      BY <1>6, <2>3 DEF WorldOK, NewCookies
    <3>2. r.guid[k] # r.guid[ssl]
      <4>1. CASE ssl = TRUE
        BY <1>6, <2>2, <2>3, <4>1
      <4>2. CASE ssl = FALSE
        BY <1>6, <2>2, <2>3, <4>2
      <4> QED
        BY <4>1, <4>2
    <3> QED
      BY <1>5, <1>6, <3>1, <3>2 DEF g
  <2> QED
    BY <1>4, <1>6, <1>7, <2>1, <2>2, <2>3 DEF NewCookies
<1>11. Kept(w, v)
  <2>1. \A h \in Nat : Unused(v, h) => Unused(w, h)
    BY <1>4, <1>6, <1>7 DEF Unused
  <2>2. Unused(w, g)
    BY DEF Unused, Wants, g
  <2> QED
    BY <1>2, <1>3, <1>5, <1>6, <1>7, <2>1, <2>2 DEF WorldOK, Kept
<1>12. LocksAre(v, S)
  BY <1>2, <1>3, <1>5, <1>7 DEF LocksAre
<1> QED
  BY <1>6, <1>7, <1>8, <1>9, <1>10, <1>11, <1>12 DEF WorldOK, v

(* The store of the kind ssl is locked.                                    *)
LEMMA LocksOne ==
    ASSUME NEW w, NEW ssl \in BOOLEAN, WorldOK(w),
           NEW S, LocksAre(w, S), w.r.store[ssl] \notin S
    PROVE  LET v == lockStore(w, ssl)
           IN  /\ WorldOK(v) /\ Kept(w, v) /\ v.r = w.r /\ v.next = w.next
               /\ LocksAre(v, S \cup ({w.r.store[ssl]} \ {0}))
<1> DEFINE g == w.r.store[ssl]
           v == lockStore(w, ssl)
<1>1. CASE g = 0
  <2>1. v = w /\ S \cup ({g} \ {0}) = S
    BY <1>1 DEF lockStore
  <2>2. Kept(w, w)
    BY DEF Kept, WorldOK, WorldType
  <2> QED
    BY <2>1, <2>2
<1>2. CASE g # 0
  <2> DEFINE s == [w.st[g] EXCEPT !.locks = @ + 1]
             st == [w.st EXCEPT ![g] = s]
  <2>1. v = [st |-> st, r |-> w.r, next |-> w.next]
    BY <1>2 DEF lockStore, WorldOK, WorldType
  <2>2. g \in DOMAIN w.st /\ w.st[g] \in Store /\ w.st \in [DOMAIN w.st -> Store]
    BY <1>2 DEF WorldOK, WorldType, HasStores
  <2>3. /\ s \in Store /\ s.ssl = w.st[g].ssl /\ s.registered = w.st[g].registered
        /\ s.sid = w.st[g].sid /\ s.lastUse = w.st[g].lastUse
        /\ s.locks = w.st[g].locks + 1
    BY <2>2 DEF Store
  <2> HIDE DEF s
  <2>4. /\ DOMAIN st = DOMAIN w.st /\ st \in [DOMAIN w.st -> Store] /\ st[g] = s
        /\ \A h \in DOMAIN w.st \ {g} : st[h] = w.st[h]
    BY <2>2, <2>3
  <2> HIDE DEF st
  <2>5. v.st = st /\ v.r = w.r /\ v.next = w.next
    BY <2>1
  <2> HIDE DEF v
  <2>6. WorldType(v)
    BY <2>1, <2>4, <2>5 DEF WorldOK, WorldType
  <2>7. HasStores(v)
    <3>1. \A h \in DOMAIN w.st : st[h].ssl = w.st[h].ssl /\ st[h].lastUse = w.st[h].lastUse
      BY <2>3, <2>4
    <3> QED
      BY <2>4, <2>5, <3>1 DEF WorldOK, HasStores
  <2>8. NewCookies(v)
    BY <2>4, <2>5 DEF WorldOK, NewCookies
  <2>9. Kept(w, v)
    <3>1. \A h \in Nat : Unused(v, h) => Unused(w, h)
      BY <2>5 DEF Unused
    <3> QED
      BY <2>2, <2>3, <2>4, <2>5, <3>1 DEF WorldOK, WorldType, Kept
  <2>10. LocksAre(v, S \cup {g})
    BY <2>2, <2>3, <2>4, <2>5 DEF LocksAre
  <2>11. S \cup ({g} \ {0}) = S \cup {g}
    BY <1>2
  <2> QED
    BY <2>5, <2>6, <2>7, <2>8, <2>9, <2>10, <2>11 DEF WorldOK, v
<1> QED
  BY <1>1, <1>2

(* One step after another.                                                 *)
LEMMA KeptTwice ==
    ASSUME NEW u, NEW v, NEW w, WorldType(u), WorldType(v), WorldType(w),
           Kept(u, v), Kept(v, w)
    PROVE  Kept(u, w)
<1>1. DOMAIN u.st \subseteq DOMAIN v.st /\ DOMAIN v.st \subseteq DOMAIN w.st
  BY DEF Kept
<1>2. ASSUME NEW g \in DOMAIN u.st
      PROVE  /\ w.st[g].ssl = u.st[g].ssl
             /\ w.st[g].registered = u.st[g].registered
             /\ w.st[g].sid = u.st[g].sid
             /\ w.st[g].lastUse = u.st[g].lastUse \/ w.st[g].lastUse = now
  BY <1>1, <1>2 DEF Kept
<1>3. ASSUME NEW g \in DOMAIN w.st \ DOMAIN u.st
      PROVE  /\ w.st[g].registered = "absent" /\ w.st[g].sid = Absent
             /\ w.st[g].lastUse = now
             /\ Unused(u, g)
  <2>1. g \in Nat
    BY <1>3 DEF WorldType
  <2> QED
    BY <1>1, <1>3, <2>1 DEF Kept
<1>4. u.next <= w.next
  BY DEF Kept, WorldType
<1>5. \A g \in Nat : Unused(w, g) => Unused(u, g)
  BY DEF Kept
<1>6. w.r.active = u.r.active /\ w.r.tls = u.r.tls /\ w.r.since = u.r.since
  BY DEF Kept
<1> QED
  BY <1>1, <1>2, <1>3, <1>4, <1>5, <1>6 DEF Kept

(* A store is found or made.                                               *)
LEMMA FoundOrMade ==
    ASSUME NEW w, NEW ssl \in BOOLEAN, NEW create_session \in BOOLEAN,
           WorldOK(w), Wants(w, ssl), NEW S \in SUBSET DOMAIN w.st, LocksAre(w, S)
    PROVE  LET v == FindOrCreate(w, ssl, create_session)
           IN  /\ WorldOK(v) /\ Kept(w, v) /\ LocksAre(v, S)
               /\ \A k \in BOOLEAN \ {ssl} : v.r.store[k] = w.r.store[k]
<1> DEFINE Goal(v) == /\ WorldOK(v) /\ Kept(w, v) /\ LocksAre(v, S)
                      /\ \A k \in BOOLEAN \ {ssl} : v.r.store[k] = w.r.store[k]
           m == IF w.r.create_cookie[ssl] THEN w ELSE generateGUID(w, ssl)
<1>1. w.r.create_cookie[ssl] \in BOOLEAN
  BY DEF WorldOK, WorldType, Request
<1>2. Kept(w, w)
  BY DEF Kept, WorldOK, WorldType
<1>3. CASE w.r.create_cookie[ssl] = FALSE
  <2> DEFINE f == findSessionStore(w, ssl)
             n == generateGUID(w, ssl)
             c == createSession(n, ssl)
  <2>1. Goal(f)
    BY <1>3, Found
  <2>2. Goal(c)
    <3>1. /\ WorldOK(n) /\ Kept(w, n) /\ LocksAre(n, S)
          /\ n.r.create_cookie[ssl] = TRUE /\ n.r.store = w.r.store
      BY Generated DEF Wants
    <3>2. Wants(n, ssl) /\ DOMAIN w.st \subseteq DOMAIN n.st
      BY <3>1 DEF Wants, Kept
    <3> HIDE DEF n
    <3>3. /\ WorldOK(c) /\ Kept(n, c) /\ LocksAre(c, S)
          /\ \A k \in BOOLEAN \ {ssl} : c.r.store[k] = n.r.store[k]
      BY <3>1, <3>2, Created
    <3> HIDE DEF c
    <3>4. Kept(w, c)
      BY <3>1, <3>3, KeptTwice DEF WorldOK
    <3> QED
      BY <3>1, <3>3, <3>4
  <2>3. FindOrCreate(w, ssl, create_session) \in {f, c}
    BY <1>3 DEF FindOrCreate
  <2> HIDE DEF f, c, Goal
  <2>4. Goal(FindOrCreate(w, ssl, create_session))
    BY <2>1, <2>2, <2>3
  <2> QED
    BY <2>4 DEF Goal
<1>4. CASE w.r.create_cookie[ssl] = TRUE
  <2> DEFINE c == createSession(w, ssl)
  <2>1. Goal(w)
    BY <1>2
  <2>2. Goal(c)
    BY <1>4, Created
  <2>3. FindOrCreate(w, ssl, create_session) \in {w, c}
    BY <1>4 DEF FindOrCreate
  <2> HIDE DEF c, Goal
  <2>4. Goal(FindOrCreate(w, ssl, create_session))
    BY <2>1, <2>2, <2>3
  <2> QED
    BY <2>4 DEF Goal
<1> QED
  BY <1>1, <1>3, <1>4

(* The stores a request has locked.                                        *)
Locked(r, lock_stores) == IF lock_stores THEN Held(r) ELSE {}

(* A kind of store is restored.                                            *)
LEMMA RestoredOne ==
    ASSUME NEW w, NEW ssl \in BOOLEAN, NEW lock_stores \in BOOLEAN,
           NEW create_session \in BOOLEAN,
           WorldOK(w), LocksAre(w, Locked(w.r, lock_stores))
    PROVE  LET v == RestoreOne(w, ssl, lock_stores, create_session)
           IN  WorldOK(v) /\ Kept(w, v) /\ LocksAre(v, Locked(v.r, lock_stores))
<1> DEFINE v == RestoreOne(w, ssl, lock_stores, create_session)
           f == FindOrCreate(w, ssl, create_session)
           S == Locked(w.r, lock_stores)
<1>1. CASE w.r.store[ssl] # 0 \/ (ssl /\ ~w.r.tls)
  <2>1. v = w
    BY <1>1 DEF RestoreOne
  <2>2. Kept(w, w)
    BY DEF Kept, WorldOK, WorldType
  <2> QED
    BY <2>1, <2>2
<1>2. CASE ~ (w.r.store[ssl] # 0 \/ (ssl /\ ~w.r.tls))
  <2>1. Wants(w, ssl)
    BY <1>2 DEF Wants
  <2>2. S \subseteq DOMAIN w.st
    BY DEF Locked, Held, WorldOK, HasStores
  <2>3. /\ WorldOK(f) /\ Kept(w, f) /\ LocksAre(f, S)
        /\ \A k \in BOOLEAN \ {ssl} : f.r.store[k] = w.r.store[k]
    BY <2>1, <2>2, FoundOrMade
  <2>4. v = IF lock_stores THEN lockStore(f, ssl) ELSE f
    BY <1>2 DEF RestoreOne
  <2> HIDE DEF f, v
  <2>5. CASE lock_stores = FALSE
    <3>1. v = f
      BY <2>4, <2>5
    <3> QED
      BY <2>3, <2>5, <3>1 DEF Locked, v
  <2>6. CASE lock_stores = TRUE
    <3> DEFINE u == lockStore(f, ssl)
    <3>1. f.r.store[ssl] \notin S
      <4> SUFFICES ASSUME f.r.store[ssl] \in S PROVE FALSE
        OBVIOUS
      <4>1. f.r.store[ssl] # 0 /\ \E k \in BOOLEAN : f.r.store[ssl] = w.r.store[k]
        BY <2>6 DEF Locked, Held
      <4>2. PICK k \in BOOLEAN \ {ssl} : f.r.store[ssl] = w.r.store[k]
        BY <2>1, <4>1 DEF Wants
      <4>3. f.r.store[ssl] = f.r.store[k]
        BY <2>3, <4>2
      <4>4. f.st[f.r.store[ssl]].ssl = ssl /\ f.st[f.r.store[k]].ssl = k
        BY <2>3, <4>1, <4>3 DEF WorldOK, HasStores
      <4> QED
        BY <4>2, <4>3, <4>4
    <3>2. /\ WorldOK(u) /\ Kept(f, u) /\ u.r = f.r
          /\ LocksAre(u, S \cup ({f.r.store[ssl]} \ {0}))
      BY <2>3, <3>1, LocksOne
    <3> HIDE DEF u
    <3>3. Kept(w, u)
      BY <2>3, <3>2, KeptTwice DEF WorldOK
    <3>4. S \cup ({f.r.store[ssl]} \ {0}) = Locked(u.r, lock_stores)
      <4>1. w.r.store[ssl] = 0
        BY <2>1 DEF Wants
      <4>2. \A k \in BOOLEAN : k = ssl \/ k \in BOOLEAN \ {ssl}
        OBVIOUS
      <4> QED
        BY <2>3, <2>6, <3>2, <4>1, <4>2 DEF Locked, Held
    <3>5. v = u
      BY <2>4, <2>6 DEF u
    <3> QED
      BY <3>2, <3>3, <3>4, <3>5 DEF v
  <2> QED
    BY <2>5, <2>6 DEF v
<1> QED
  BY <1>1, <1>2

---------------------------------------------------------------------------
(* The timeout check, and all of restoreSession().                         *)

(* From w to v, stores idle for too long are dropped, none if no check is  *)
(* due, and then stores are found and made.                                *)
Restores(w, v) ==
    /\ \A g \in DOMAIN w.st \cap DOMAIN v.st :
          /\ v.st[g].ssl = w.st[g].ssl
          /\ v.st[g].registered = w.st[g].registered
          /\ v.st[g].sid = w.st[g].sid
          /\ v.st[g].lastUse = w.st[g].lastUse \/ v.st[g].lastUse = now
          /\ session_timeout # 0 /\ now - lastCheck >= CheckEvery =>
                now - w.st[g].lastUse <= session_timeout
    /\ \A g \in DOMAIN w.st \ DOMAIN v.st : now - w.st[g].lastUse > session_timeout
    /\ \A g \in DOMAIN v.st \ DOMAIN w.st :
          /\ v.st[g].registered = "absent" /\ v.st[g].sid = Absent
          /\ v.st[g].lastUse = now
    /\ v.r.active = w.r.active /\ v.r.tls = w.r.tls /\ v.r.since = w.r.since

(* The check drops idle stores, and none that the request has.             *)
LEMMA Checked ==
    ASSUME NEW w, WorldOK(w), now <= w.r.since + session_timeout, lastCheck \in Nat,
           NEW S, LocksAre(w, S)
    PROVE  LET v == [w EXCEPT !.st = checkSessionTimeout(@)]
           IN  /\ WorldOK(v) /\ LocksAre(v, S) /\ v.r = w.r /\ v.next = w.next
               /\ DOMAIN v.st \subseteq DOMAIN w.st
               /\ \A g \in DOMAIN v.st :
                     /\ v.st[g] = w.st[g]
                     /\ session_timeout # 0 /\ now - lastCheck >= CheckEvery =>
                           now - w.st[g].lastUse <= session_timeout
               /\ \A g \in DOMAIN w.st \ DOMAIN v.st :
                     now - w.st[g].lastUse > session_timeout
<1> DEFINE st == checkSessionTimeout(w.st)
           v == [w EXCEPT !.st = checkSessionTimeout(@)]
<1>1. v = [st |-> st, r |-> w.r, next |-> w.next]
  BY DEF WorldOK, WorldType
<1>2. /\ w.st \in [DOMAIN w.st -> Store] /\ now \in Nat /\ session_timeout \in Nat
      /\ CheckEvery \in Nat /\ \A g \in DOMAIN w.st : w.st[g].lastUse \in Nat
  BY SessionBounds DEF WorldOK, WorldType, Store
<1>3. /\ DOMAIN st \subseteq DOMAIN w.st
      /\ st \in [DOMAIN st -> Store]
      /\ \A g \in DOMAIN st :
            /\ st[g] = w.st[g]
            /\ session_timeout # 0 /\ now - lastCheck >= CheckEvery =>
                  now - w.st[g].lastUse <= session_timeout
      /\ \A g \in DOMAIN w.st \ DOMAIN st : now - w.st[g].lastUse > session_timeout
  <2>1. CASE now - lastCheck < CheckEvery \/ session_timeout = 0
    <3>1. st = w.st
      BY <2>1 DEF checkSessionTimeout
    <3> QED
      BY <1>2, <2>1, <3>1
  <2>2. CASE ~ (now - lastCheck < CheckEvery \/ session_timeout = 0)
    <3>1. st = [g \in DOMAIN w.st \ Idle(w.st) |-> w.st[g]]
      BY <2>2 DEF checkSessionTimeout, Restrict
    <3>2. \A g \in DOMAIN w.st : g \in Idle(w.st) <=> now - w.st[g].lastUse > session_timeout
      BY DEF Idle
    <3> HIDE DEF st
    <3> QED
      BY <1>2, <3>1, <3>2
  <2> QED
    BY <2>1, <2>2
<1> HIDE DEF st
<1>4. v.st = st /\ v.r = w.r /\ v.next = w.next
  BY <1>1
<1> HIDE DEF v
<1>5. WorldType(v)
  BY <1>1, <1>3, <1>4 DEF WorldOK, WorldType
<1>6. HasStores(v)
  <2> SUFFICES ASSUME NEW ssl \in BOOLEAN, w.r.store[ssl] # 0
               PROVE  /\ w.r.store[ssl] \in DOMAIN st
                      /\ st[w.r.store[ssl]].ssl = ssl
                      /\ st[w.r.store[ssl]].lastUse >= w.r.since
                      /\ ssl => w.r.tls
    BY <1>4 DEF HasStores
  <2>1. /\ w.r.store[ssl] \in DOMAIN w.st
        /\ w.st[w.r.store[ssl]].ssl = ssl
        /\ w.st[w.r.store[ssl]].lastUse >= w.r.since
        /\ ssl => w.r.tls
    BY DEF WorldOK, HasStores
  <2>2. w.r.since \in Nat
    BY DEF WorldOK, WorldType, Request
  <2>3. ~ (now - w.st[w.r.store[ssl]].lastUse > session_timeout)
    BY <1>2, <2>1, <2>2
  <2>4. w.r.store[ssl] \in DOMAIN st
    BY <1>3, <2>1, <2>3
  <2> QED
    BY <1>3, <2>1, <2>4
<1>7. NewCookies(v)
  BY <1>3, <1>4 DEF WorldOK, NewCookies
<1>8. LocksAre(v, S)
  BY <1>3, <1>4 DEF LocksAre
<1> QED
  BY <1>3, <1>4, <1>5, <1>6, <1>7, <1>8 DEF WorldOK, v

(* What restoreSession() does, whatever it is asked for.                   *)
LEMMA Restored ==
    ASSUME NEW w, WorldOK(w), now <= w.r.since + session_timeout, lastCheck \in Nat,
           NEW lock_stores \in BOOLEAN, NEW create_session \in BOOLEAN,
           LocksAre(w, Locked(w.r, lock_stores))
    PROVE  LET v == restoreSession(w, lock_stores, create_session)
           IN  WorldOK(v) /\ LocksAre(v, Locked(v.r, lock_stores)) /\ Restores(w, v)
<1> DEFINE a == [w EXCEPT !.st = checkSessionTimeout(@)]
           b == RestoreOne(a, FALSE, lock_stores, create_session)
           v == RestoreOne(b, TRUE, lock_stores, create_session)
<1>1. restoreSession(w, lock_stores, create_session) = v
  BY DEF restoreSession
<1>2. /\ WorldOK(a) /\ LocksAre(a, Locked(w.r, lock_stores)) /\ a.r = w.r /\ a.next = w.next
      /\ DOMAIN a.st \subseteq DOMAIN w.st
      /\ \A g \in DOMAIN a.st :
            /\ a.st[g] = w.st[g]
            /\ session_timeout # 0 /\ now - lastCheck >= CheckEvery =>
                  now - w.st[g].lastUse <= session_timeout
      /\ \A g \in DOMAIN w.st \ DOMAIN a.st : now - w.st[g].lastUse > session_timeout
  BY Checked
<1> HIDE DEF a
<1>3. WorldOK(b) /\ Kept(a, b) /\ LocksAre(b, Locked(b.r, lock_stores))
  BY <1>2, RestoredOne
<1> HIDE DEF b
<1>4. WorldOK(v) /\ Kept(b, v) /\ LocksAre(v, Locked(v.r, lock_stores))
  BY <1>3, RestoredOne
<1> HIDE DEF v
<1>5. Kept(a, v)
  BY <1>2, <1>3, <1>4, KeptTwice DEF WorldOK
<1>6. \A g \in DOMAIN w.st : ~Unused(a, g)
  <2> SUFFICES ASSUME NEW g \in DOMAIN w.st, Unused(a, g) PROVE FALSE
    OBVIOUS
  <2>1. g \in Nat /\ g < w.next /\ w.next \in Nat
    BY DEF WorldOK, WorldType
  <2>2. PICK ssl \in BOOLEAN :
           w.r.create_cookie[ssl] /\ w.r.store[ssl] = 0 /\ w.r.guid[ssl] = g
    BY <1>2, <2>1 DEF Unused
  <2> QED
    BY <2>2 DEF WorldOK, NewCookies
<1>7. Restores(w, v)
  <2>1. ASSUME NEW g \in DOMAIN v.st PROVE g \in DOMAIN w.st => g \in DOMAIN a.st
    BY <1>5, <1>6 DEF Kept
  <2>2. ASSUME NEW g \in DOMAIN w.st \cap DOMAIN v.st
        PROVE  /\ v.st[g].ssl = w.st[g].ssl
               /\ v.st[g].registered = w.st[g].registered
               /\ v.st[g].sid = w.st[g].sid
               /\ v.st[g].lastUse = w.st[g].lastUse \/ v.st[g].lastUse = now
               /\ session_timeout # 0 /\ now - lastCheck >= CheckEvery =>
                     now - w.st[g].lastUse <= session_timeout
    BY <1>2, <1>5, <2>1 DEF Kept
  <2>3. ASSUME NEW g \in DOMAIN w.st \ DOMAIN v.st
        PROVE  now - w.st[g].lastUse > session_timeout
    BY <1>2, <1>5 DEF Kept
  <2>4. ASSUME NEW g \in DOMAIN v.st \ DOMAIN w.st
        PROVE  /\ v.st[g].registered = "absent" /\ v.st[g].sid = Absent
               /\ v.st[g].lastUse = now
    BY <1>2, <1>5 DEF Kept
  <2>5. v.r.active = w.r.active /\ v.r.tls = w.r.tls /\ v.r.since = w.r.since
    BY <1>2, <1>5 DEF Kept
  <2> QED
    BY <2>2, <2>3, <2>4, <2>5 DEF Restores
<1> QED
  BY <1>1, <1>4, <1>7

---------------------------------------------------------------------------
(* A request arrives with its cookies.                                     *)

(* One cookie names a store, any, or is generated.                         *)
LEMMA CookieRead ==
    ASSUME NEW w, NEW ssl \in BOOLEAN, WorldOK(w), w.r.store[ssl] = 0,
           w.r.create_cookie[ssl] = FALSE, LocksAre(w, {}), NEW c \in Int
    PROVE  LET v == IF c # 0 THEN [w EXCEPT !.r.guid[ssl] = c] ELSE generateGUID(w, ssl)
           IN  /\ WorldOK(v) /\ LocksAre(v, {}) /\ v.st = w.st
               /\ v.r.store = w.r.store /\ v.r.active = w.r.active
               /\ v.r.tls = w.r.tls /\ v.r.since = w.r.since
               /\ \A k \in BOOLEAN \ {ssl} : v.r.create_cookie[k] = w.r.create_cookie[k]
<1> DEFINE r == [w.r EXCEPT !.guid[ssl] = c]
           v == [w EXCEPT !.r.guid[ssl] = c]
           n == generateGUID(w, ssl)
<1>1. CASE c = 0
  <2>1. WorldOK(n) /\ Kept(w, n) /\ LocksAre(n, {}) /\ n.r.store = w.r.store
    BY Generated
  <2>2. n.st = w.st
    BY DEF generateGUID, WorldOK, WorldType
  <2>3. n.r = [w.r EXCEPT !.create_cookie[ssl] = TRUE, !.guid[ssl] = w.next]
    BY DEF generateGUID, WorldOK, WorldType
  <2>4. \A k \in BOOLEAN \ {ssl} : n.r.create_cookie[k] = w.r.create_cookie[k]
    BY <2>3 DEF WorldOK, WorldType, Request
  <2> HIDE DEF n
  <2>5. /\ WorldOK(n) /\ LocksAre(n, {}) /\ n.st = w.st
        /\ n.r.store = w.r.store /\ n.r.active = w.r.active
        /\ n.r.tls = w.r.tls /\ n.r.since = w.r.since
    BY <2>1, <2>2 DEF Kept
  <2> QED
    BY <1>1, <2>4, <2>5 DEF n
<1>2. CASE c # 0
  <2>1. v = [st |-> w.st, r |-> r, next |-> w.next]
    BY DEF WorldOK, WorldType
  <2>2. w.r \in Request
    BY DEF WorldOK, WorldType
  <2>3. /\ r \in Request /\ r.store = w.r.store /\ r.active = w.r.active
        /\ r.tls = w.r.tls /\ r.since = w.r.since
        /\ r.create_cookie = w.r.create_cookie
        /\ \A k \in BOOLEAN \ {ssl} : r.guid[k] = w.r.guid[k]
    BY <2>2 DEF Request
  <2> HIDE DEF r
  <2>4. v.st = w.st /\ v.r = r /\ v.next = w.next
    BY <2>1
  <2> HIDE DEF v
  <2>5. WorldType(v)
    BY <2>1, <2>3, <2>4 DEF WorldOK, WorldType
  <2>6. HasStores(v)
    BY <2>3, <2>4 DEF WorldOK, HasStores
  <2>7. NewCookies(v)
    <3>1. ~ (r.create_cookie[TRUE] /\ r.create_cookie[FALSE])
      BY <2>3
    <3> QED
      BY <2>3, <2>4, <3>1 DEF WorldOK, NewCookies
  <2>8. LocksAre(v, {})
    BY <2>4 DEF LocksAre
  <2> QED
    BY <1>2, <2>3, <2>4, <2>5, <2>6, <2>7, <2>8 DEF WorldOK, v
<1> QED
  BY <1>1, <1>2

(* A request with its cookies: it has no store yet.                        *)
LEMMA RequestArrives ==
    ASSUME TypeOK, LocksAre(World, {}), NEW tls \in BOOLEAN, NEW cookies \in Cookies(tls)
    PROVE  LET v == Arrived(tls, cookies)
           IN  /\ WorldOK(v) /\ LocksAre(v, {}) /\ v.st = stores
               /\ v.r.store = [ssl \in BOOLEAN |-> 0]
               /\ v.r.active = TRUE /\ v.r.since = now
<1> DEFINE q == NewRequest(tls)
           a == [World EXCEPT !.r = q]
           p == cookies[FALSE]
           s == cookies[TRUE]
           b == IF p # 0 THEN [a EXCEPT !.r.guid[FALSE] = p] ELSE generateGUID(a, FALSE)
           c == IF s # 0 THEN [b EXCEPT !.r.guid[TRUE] = s] ELSE generateGUID(b, TRUE)
<1>1. /\ q \in Request /\ q.store = [ssl \in BOOLEAN |-> 0] /\ q.active = TRUE
      /\ q.since = now /\ q.tls = tls /\ q.create_cookie = [ssl \in BOOLEAN |-> FALSE]
  <2>1. q = [active |-> TRUE, tls |-> tls, since |-> now,
             guid |-> [ssl \in BOOLEAN |-> 0],
             create_cookie |-> [ssl \in BOOLEAN |-> FALSE],
             store |-> [ssl \in BOOLEAN |-> 0]]
    BY DEF NewRequest, Cleared
  <2>2. now \in Nat
    BY DEF TypeOK
  <2>3. [ssl \in BOOLEAN |-> FALSE] \in [BOOLEAN -> BOOLEAN]
    BY Zenon
  <2>4. [ssl \in BOOLEAN |-> 0] \in [BOOLEAN -> Int] /\ [ssl \in BOOLEAN |-> 0] \in [BOOLEAN -> Nat]
    OBVIOUS
  <2> DEFINE no == [ssl \in BOOLEAN |-> FALSE]
             zero == [ssl \in BOOLEAN |-> 0]
  <2> HIDE DEF q, no, zero
  <2> QED
    BY <2>1, <2>2, <2>3, <2>4 DEF Request, no, zero
<1>0. \A ssl \in BOOLEAN : q.store[ssl] = 0 /\ q.create_cookie[ssl] = FALSE
  <2> HIDE DEF q
  <2> QED
    BY <1>1
<1> HIDE DEF q
<1>2. a = [st |-> stores, r |-> q, next |-> nextGuid]
  BY DEF World
<1>3. World.st = stores /\ World.next = nextGuid
  BY DEF World
<1>4. a.st = stores /\ a.r = q /\ a.next = nextGuid
  BY <1>2
<1> HIDE DEF a
<1>5. WorldOK(a) /\ LocksAre(a, {})
  <2>1. WorldType(a)
    BY <1>1, <1>2, <1>3, <1>4 DEF TypeOK, WorldType
  <2>2. HasStores(a) /\ NewCookies(a) /\ LocksAre(a, {})
    BY <1>0, <1>3, <1>4 DEF HasStores, NewCookies, LocksAre
  <2> QED
    BY <1>1, <1>4, <2>1, <2>2 DEF WorldOK, TypeOK
<1>6. p \in Int /\ s \in Int
  <2>1. Named \subseteq Int
    BY <1>3 DEF Named, Unknown, TypeOK, WorldType
  <2>2. PICK x \in Named, y \in IF tls THEN Named ELSE {0} :
           cookies = [ssl \in BOOLEAN |-> IF ssl THEN y ELSE x]
    BY DEF Cookies
  <2>3. y \in Int
    BY <2>1, <2>2
  <2>4. p = x /\ s = y
    BY <2>2
  <2> QED
    BY <2>1, <2>3, <2>4
<1> HIDE DEF p, s
<1>7. /\ WorldOK(b) /\ LocksAre(b, {}) /\ b.st = stores /\ b.r.store = a.r.store
      /\ b.r.active = TRUE /\ b.r.tls = tls /\ b.r.since = now
      /\ b.r.create_cookie[TRUE] = FALSE
  <2>1. a.r.store[FALSE] = 0 /\ a.r.create_cookie[FALSE] = FALSE
    BY <1>0, <1>4, Zenon
  <2>2. a.r.create_cookie[TRUE] = FALSE
    BY <1>0, <1>4, Zenon
  <2>3. /\ WorldOK(b) /\ LocksAre(b, {}) /\ b.st = a.st
        /\ b.r.store = a.r.store /\ b.r.active = a.r.active
        /\ b.r.tls = a.r.tls /\ b.r.since = a.r.since
        /\ \A k \in BOOLEAN \ {FALSE} : b.r.create_cookie[k] = a.r.create_cookie[k]
    BY <1>5, <1>6, <2>1, CookieRead, ZenonT(60)
  <2> HIDE DEF b
  <2> QED
    BY <1>1, <1>4, <2>2, <2>3
<1> HIDE DEF b
<1>8. /\ WorldOK(c) /\ LocksAre(c, {}) /\ c.st = stores /\ c.r.store = a.r.store
      /\ c.r.active = TRUE /\ c.r.since = now
  <2>1. b.r.store[TRUE] = 0
    <3>1. b.r.store = q.store
      BY <1>4, <1>7, Zenon
    <3> QED
      BY <1>0, <3>1, Zenon
  <2>2. /\ WorldOK(c) /\ LocksAre(c, {}) /\ c.st = b.st
        /\ c.r.store = b.r.store /\ c.r.active = b.r.active
        /\ c.r.tls = b.r.tls /\ c.r.since = b.r.since
    BY <1>6, <1>7, <2>1, CookieRead, ZenonT(60)
  <2> HIDE DEF c
  <2> QED
    BY <1>7, <2>2
<1>9. Arrived(tls, cookies) = IF q.tls THEN c ELSE b
  BY <1>4 DEF Arrived, checkSessionCookie, a, b, c, p, s, q
<1> HIDE DEF c
<1> QED
  BY <1>1, <1>4, <1>7, <1>8, <1>9

---------------------------------------------------------------------------
(* The steps.  What a step in which restoreSession() runs does to the      *)
(* state, and what IdleSessionsEnd says of a step.                         *)

IdleStep ==
    \A g \in DOMAIN stores \cap DOMAIN stores' :
       session_timeout # 0 /\ stores'[g].lastUse # stores[g].lastUse
         => now - stores[g].lastUse < session_timeout + CheckEvery

(* The stores, the times and the logins after such a step.                 *)
LEMMA BecomeStep ==
    ASSUME SessInv, NEW w, w.st = stores, NEW v, WorldOK(v), Restores(w, v),
           Become(v), lastCheck' = CheckedAt, UNCHANGED <<bound, now>>,
           socks' \in [Websockets -> Socket],
           \A k \in Websockets : socks'[k] = socks[k] \/ socks'[k].promise = 0
    PROVE  /\ nextGuid' <= bound.guids + 1 /\ lastCheck' \in Nat /\ nextSid' \in Nat \ {0}
           /\ login' \in [Guids' -> Nat] /\ Guids' = Guids
           /\ CheckedStores' /\ PromisesKept' /\ LoginsBound' /\ IdleStep
<1>1. /\ stores' = v.st /\ nextGuid' = v.next /\ nextSid' = nextSid
      /\ v.next <= bound.guids + 1
      /\ login' = [g \in Guids |-> IF g \in DOMAIN v.st THEN login[g] ELSE 0]
  BY DEF Become
<1>2. /\ now \in Nat /\ lastCheck \in Nat /\ nextSid \in Nat \ {0} /\ bound \in Bounds
      /\ login \in [Guids -> Nat] /\ socks \in [Websockets -> Socket]
      /\ stores \in [DOMAIN stores -> Store]
  BY DEF SessInv, TypeOK, WorldType, World
<1>3. /\ \A g \in DOMAIN stores : stores[g].lastUse \in Nat /\ stores[g].lastUse <= now
      /\ \A g \in DOMAIN stores : stores[g].sid \in Int
      /\ \A g \in DOMAIN stores :
            session_timeout # 0 => lastCheck - stores[g].lastUse <= session_timeout
      /\ lastCheck <= now
  BY <1>2 DEF SessInv, CheckedStores, Store
<1>4. session_timeout \in Nat /\ CheckEvery \in Nat \ {0}
  BY SessionBounds
<1>5. Guids' = Guids
  BY DEF Guids
<1>6. login' \in [Guids -> Nat] /\ \A g \in DOMAIN v.st \cap Guids : login'[g] = login[g]
  BY <1>1, <1>2
<1>7. lastCheck' \in Nat /\ lastCheck' <= now
  BY <1>2, <1>3 DEF CheckedAt
<1>8. DOMAIN v.st \subseteq Guids
  <2>1. bound.guids \in Nat /\ v.next \in Nat /\ DOMAIN v.st \subseteq 1 .. (v.next - 1)
    BY <1>2, SessionBounds DEF WorldOK, WorldType
  <2> QED
    BY <1>1, <2>1 DEF Guids
<1>9. IdleStep
  <2> SUFFICES ASSUME NEW g \in DOMAIN stores \cap DOMAIN v.st, session_timeout # 0,
                      v.st[g].lastUse # stores[g].lastUse
               PROVE  now - stores[g].lastUse < session_timeout + CheckEvery
    BY <1>1 DEF IdleStep
  <2>1. now - lastCheck >= CheckEvery => now - stores[g].lastUse <= session_timeout
    BY DEF Restores
  <2>2. lastCheck - stores[g].lastUse <= session_timeout /\ stores[g].lastUse \in Nat
    BY <1>3
  <2> QED
    BY <1>2, <1>4, <2>1, <2>2
<1>10. CheckedStores'
  <2> SUFFICES ASSUME NEW g \in DOMAIN v.st
               PROVE  /\ v.st[g].lastUse <= now
                      /\ session_timeout # 0 =>
                            lastCheck' - v.st[g].lastUse <= session_timeout
    BY <1>1, <1>7 DEF CheckedStores
  <2>1. CASE v.st[g].lastUse = now
    BY <1>2, <1>4, <1>7, <2>1
  <2>2. CASE v.st[g].lastUse # now
    <3>1. g \in DOMAIN stores /\ v.st[g].lastUse = stores[g].lastUse
      BY <2>2 DEF Restores
    <3>2. session_timeout # 0 /\ now - lastCheck >= CheckEvery =>
             now - stores[g].lastUse <= session_timeout
      BY <3>1 DEF Restores
    <3>3. lastCheck' = IF now - lastCheck < CheckEvery THEN lastCheck ELSE now
      BY DEF CheckedAt
    <3> QED
      BY <1>2, <1>3, <1>4, <3>1, <3>2, <3>3
  <2> QED
    BY <2>1, <2>2
<1>11. PromisesKept'
  <2> SUFFICES ASSUME NEW k \in Websockets, socks'[k].promise # 0, now <= socks'[k].promise
               PROVE  /\ socks'[k].store_guid \in DOMAIN v.st
                      /\ socks'[k].promise <= v.st[socks'[k].store_guid].lastUse + session_timeout
    BY <1>1 DEF PromisesKept
  <2>1. socks'[k] = socks[k] /\ socks[k].promise \in Nat
    BY <1>2 DEF Socket
  <2> DEFINE g == socks[k].store_guid
  <2>2. g \in DOMAIN stores /\ socks[k].promise <= stores[g].lastUse + session_timeout
    BY <2>1 DEF SessInv, PromisesKept
  <2> HIDE DEF g
  <2>3. stores[g].lastUse \in Nat /\ stores[g].lastUse <= now
    BY <1>3, <2>2
  <2>4. g \in DOMAIN v.st
    <3>1. ~ (now - stores[g].lastUse > session_timeout)
      BY <1>2, <1>4, <2>1, <2>2, <2>3
    <3> QED
      BY <2>2, <3>1 DEF Restores
  <2>5. v.st[g].lastUse = stores[g].lastUse \/ v.st[g].lastUse = now
    BY <2>2, <2>4 DEF Restores
  <2>6. socks[k].promise <= v.st[g].lastUse + session_timeout
    BY <1>2, <1>4, <2>1, <2>2, <2>3, <2>5
  <2> QED
    BY <2>1, <2>4, <2>6 DEF g
<1>12. LoginsBound'
  <2>1. ASSUME NEW g \in DOMAIN v.st, v.st[g].sid # Absent
        PROVE  /\ g \in DOMAIN stores /\ v.st[g].sid = stores[g].sid
               /\ v.st[g].registered = stores[g].registered /\ v.st[g].ssl = stores[g].ssl
    BY <2>1 DEF Restores
  <2>2. ASSUME NEW g \in DOMAIN v.st PROVE v.st[g].sid < nextSid
    <3>1. CASE v.st[g].sid = Absent
      BY <1>2, <3>1 DEF Absent
    <3>2. CASE v.st[g].sid # Absent
      BY <2>1, <3>2 DEF SessInv, LoginsBound
    <3> QED
      BY <3>1, <3>2
  <2>3. ASSUME NEW g \in DOMAIN v.st, ~v.st[g].ssl, v.st[g].registered = "true",
               v.st[g].sid # Absent
        PROVE  /\ login'[g] # 0
               /\ \A h \in DOMAIN v.st :
                     v.st[h].ssl /\ v.st[h].sid = v.st[g].sid /\ v.st[h].sid # Empty =>
                        login'[g] = h
    <3>1. login'[g] = login[g]
      BY <1>6, <1>8
    <3> QED
      BY <2>1, <2>3, <3>1 DEF SessInv, LoginsBound
  <2> QED
    BY <1>1, <2>2, <2>3 DEF LoginsBound
<1> QED
  BY <1>1, <1>2, <1>5, <1>6, <1>7, <1>9, <1>10, <1>11, <1>12

(* The world after a step, from its parts.                                 *)
LEMMA WorldAfter ==
    ASSUME NEW v, WorldOK(v), stores' = v.st, cur' = v.r, nextGuid' = v.next
    PROVE  /\ WorldType(World)' /\ HasStores(World)' /\ NewCookies(World)'
           /\ \A S : LocksAre(v, S) /\ S = Held(cur') => LocksAre(World, Held(cur))'
<1>1. World' = v
  BY DEF World, WorldOK, WorldType
<1>2. WorldType(World')
  BY <1>1 DEF WorldOK
<1>3. HasStores(World')
  BY <1>1 DEF WorldOK
<1>4. NewCookies(World')
  BY <1>1 DEF WorldOK
<1>5. ASSUME NEW S, LocksAre(v, S), S = Held(cur') PROVE LocksAre(World', Held(cur'))
  BY <1>1, <1>5
<1> QED
  BY <1>2, <1>3, <1>4, <1>5

(* Between two requests no store is locked.                                *)
LEMMA NothingHeld ==
    ASSUME SessInv, ~cur.active
    PROVE  /\ cur = NoRequest /\ Held(cur) = {} /\ LocksAre(World, {})
           /\ cur.store = [ssl \in BOOLEAN |-> 0]
           /\ \A ssl \in BOOLEAN : cur.store[ssl] = 0 /\ cur.create_cookie[ssl] = FALSE
<1>1. cur = NoRequest
  BY DEF SessInv, OneRequest
<1>2. /\ cur.store = [ssl \in BOOLEAN |-> 0]
      /\ cur.create_cookie = [ssl \in BOOLEAN |-> FALSE]
  BY <1>1 DEF NoRequest, Cleared
<1>3. \A ssl \in BOOLEAN : cur.store[ssl] = 0 /\ cur.create_cookie[ssl] = FALSE
  BY <1>2
<1>4. Held(cur) = {}
  BY <1>3 DEF Held
<1> QED
  BY <1>1, <1>2, <1>3, <1>4 DEF SessInv

(* A request of its own runs restoreSession(), between two requests.       *)
LEMMA OwnRequest ==
    ASSUME SessInv, ~cur.active, NEW tls \in BOOLEAN, NEW cookies \in Cookies(tls),
           NEW lock_stores \in BOOLEAN, NEW create_session \in BOOLEAN
    PROVE  LET a == Arrived(tls, cookies)
               v == restoreSession(a, lock_stores, create_session)
           IN  /\ a.st = stores /\ WorldOK(v) /\ Restores(a, v)
               /\ LocksAre(v, Locked(v.r, lock_stores))
               /\ v.r.active = TRUE /\ v.r.since = now
<1> DEFINE a == Arrived(tls, cookies)
           v == restoreSession(a, lock_stores, create_session)
<1>1. LocksAre(World, {}) /\ TypeOK
  BY NothingHeld DEF SessInv
<1>2. /\ WorldOK(a) /\ LocksAre(a, {}) /\ a.st = stores
      /\ a.r.store = [ssl \in BOOLEAN |-> 0]
      /\ a.r.active = TRUE /\ a.r.since = now
  BY <1>1, RequestArrives
<1> HIDE DEF a
<1>3. Locked(a.r, lock_stores) = {}
  BY <1>2 DEF Locked, Held
<1>4. now <= a.r.since + session_timeout /\ lastCheck \in Nat
  BY <1>1, <1>2, SessionBounds DEF TypeOK
<1>5. WorldOK(v) /\ LocksAre(v, Locked(v.r, lock_stores)) /\ Restores(a, v)
  BY <1>2, <1>3, <1>4, Restored
<1> HIDE DEF v
<1>6. v.r.active = TRUE /\ v.r.since = now
  BY <1>2, <1>5 DEF Restores
<1> QED
  BY <1>2, <1>5, <1>6 DEF a, v

(* getHttpRequest(): the request goes on with the stores.                  *)
LEMMA RequestStep ==
    ASSUME SessInv, NEW create_session \in BOOLEAN, getHttpRequest(create_session),
           UNCHANGED bound
    PROVE  SessInv' /\ IdleStep
<1>0. PICK tls \in BOOLEAN : \E cookies \in Cookies(tls) :
         \E w \in {restoreSession(Arrived(tls, cookies), TRUE, create_session)} :
            Become(w) /\ cur' = w.r
  BY DEF getHttpRequest
<1>1. PICK cookies \in Cookies(tls) :
         \E w \in {restoreSession(Arrived(tls, cookies), TRUE, create_session)} :
            Become(w) /\ cur' = w.r
  BY <1>0
<1> DEFINE a == Arrived(tls, cookies)
           v == restoreSession(a, TRUE, create_session)
<1>2. Become(v) /\ cur' = v.r
  BY <1>1
<1>3. ~cur.active /\ lastCheck' = CheckedAt /\ now' = now /\ socks' = socks /\ bound' = bound
  BY DEF getHttpRequest
<1>4. /\ a.st = stores /\ WorldOK(v) /\ Restores(a, v)
      /\ LocksAre(v, Locked(v.r, TRUE)) /\ v.r.active = TRUE /\ v.r.since = now
  BY <1>3, OwnRequest, ZenonT(60)
<1> HIDE DEF a, v
<1>5. socks \in [Websockets -> Socket] /\ now \in Nat /\ bound \in Bounds
  BY DEF SessInv, TypeOK
<1>6. /\ nextGuid' <= bound.guids + 1 /\ lastCheck' \in Nat /\ nextSid' \in Nat \ {0}
      /\ login' \in [Guids' -> Nat]
      /\ CheckedStores' /\ PromisesKept' /\ LoginsBound' /\ IdleStep
  BY <1>2, <1>3, <1>4, <1>5, BecomeStep
<1>7. stores' = v.st /\ nextGuid' = v.next
  BY <1>2 DEF Become
<1>8. Locked(v.r, TRUE) = Held(cur')
  BY <1>2 DEF Locked
<1>9. /\ WorldType(World)' /\ HasStores(World)' /\ NewCookies(World)'
      /\ LocksAre(World, Held(cur))'
  BY <1>2, <1>4, <1>7, <1>8, WorldAfter
<1>10. OneRequest'
  BY <1>2, <1>3, <1>4, <1>5, SessionBounds DEF OneRequest
<1>11. TypeOK'
  BY <1>3, <1>5, <1>6, <1>9 DEF TypeOK
<1> QED
  BY <1>6, <1>9, <1>10, <1>11 DEF SessInv

(* startSession: restoreSession() in a request that may have its stores.   *)
LEMMA StartStep ==
    ASSUME SessInv, startSession, UNCHANGED bound
    PROVE  SessInv' /\ IdleStep
<1> DEFINE v == restoreSession(World, TRUE, TRUE)
<1>1. /\ Become(v) /\ cur' = v.r /\ cur.active /\ lastCheck' = CheckedAt
      /\ now' = now /\ socks' = socks /\ bound' = bound
  BY DEF startSession
<1>2. /\ socks \in [Websockets -> Socket] /\ now \in Nat /\ bound \in Bounds
      /\ lastCheck \in Nat
  BY DEF SessInv, TypeOK
<1>3. World.st = stores /\ World.r = cur
  BY DEF World
<1>4. cur.since <= now /\ now <= cur.since + session_timeout
  BY <1>1 DEF SessInv, OneRequest
<1>5. WorldOK(World) /\ LocksAre(World, Locked(World.r, TRUE))
  BY <1>2, <1>3, <1>4 DEF SessInv, TypeOK, WorldOK, Locked
<1>6. WorldOK(v) /\ LocksAre(v, Locked(v.r, TRUE)) /\ Restores(World, v)
  BY <1>2, <1>3, <1>4, <1>5, Restored
<1> HIDE DEF v
<1>7. /\ nextGuid' <= bound.guids + 1 /\ lastCheck' \in Nat /\ nextSid' \in Nat \ {0}
      /\ login' \in [Guids' -> Nat]
      /\ CheckedStores' /\ PromisesKept' /\ LoginsBound' /\ IdleStep
  BY <1>1, <1>2, <1>3, <1>6, BecomeStep
<1>8. stores' = v.st /\ nextGuid' = v.next
  BY <1>1 DEF Become
<1>9. Locked(v.r, TRUE) = Held(cur')
  BY <1>1 DEF Locked
<1>10. /\ WorldType(World)' /\ HasStores(World)' /\ NewCookies(World)'
       /\ LocksAre(World, Held(cur))'
  BY <1>1, <1>6, <1>8, <1>9, WorldAfter
<1>11. OneRequest'
  <2>1. cur'.active = cur.active /\ cur'.since = cur.since
    BY <1>1, <1>3, <1>6 DEF Restores
  <2> QED
    BY <1>1, <1>4, <2>1 DEF OneRequest
<1>12. TypeOK'
  BY <1>1, <1>2, <1>7, <1>10 DEF TypeOK
<1> QED
  BY <1>7, <1>10, <1>11, <1>12 DEF SessInv

(* A request of its own that ends at once: the stores change, the request  *)
(* of the server thread is still none.                                     *)
LEMMA AsideStep ==
    ASSUME SessInv, ~cur.active, NEW tls \in BOOLEAN, NEW cookies \in Cookies(tls),
           NEW create_session \in BOOLEAN,
           Become(restoreSession(Arrived(tls, cookies), FALSE, create_session)),
           lastCheck' = CheckedAt, UNCHANGED <<bound, now, cur>>,
           socks' \in [Websockets -> Socket],
           \A k \in Websockets : socks'[k] = socks[k] \/ socks'[k].promise = 0
    PROVE  SessInv' /\ IdleStep
<1> DEFINE a == Arrived(tls, cookies)
           v == restoreSession(a, FALSE, create_session)
<1>1. /\ a.st = stores /\ WorldOK(v) /\ Restores(a, v)
      /\ LocksAre(v, Locked(v.r, FALSE))
  BY OwnRequest
<1>2. Become(v)
  OBVIOUS
<1> HIDE DEF a, v
<1>3. /\ nextGuid' <= bound.guids + 1 /\ lastCheck' \in Nat /\ nextSid' \in Nat \ {0}
      /\ login' \in [Guids' -> Nat]
      /\ CheckedStores' /\ PromisesKept' /\ LoginsBound' /\ IdleStep
  BY <1>1, <1>2, BecomeStep
<1>4. stores' = v.st /\ nextGuid' = v.next
  BY <1>2 DEF Become
<1>5. World' = [st |-> v.st, r |-> cur, next |-> v.next]
  BY <1>4 DEF World
<1>6. World'.st = v.st /\ World'.r = cur /\ World'.next = v.next
  BY <1>5
<1>7. cur \in Request /\ World.r = cur
  BY DEF SessInv, TypeOK, WorldType, World
<1>8. \A ssl \in BOOLEAN : cur.store[ssl] = 0 /\ cur.create_cookie[ssl] = FALSE
  BY NothingHeld
<1>9. WorldType(World)'
  BY <1>1, <1>5, <1>6, <1>7 DEF WorldOK, WorldType
<1>10. HasStores(World)' /\ NewCookies(World)'
  BY <1>6, <1>8 DEF HasStores, NewCookies
<1>11. LocksAre(World, Held(cur))'
  <2>1. LocksAre(v, {})
    BY <1>1 DEF Locked
  <2>2. Held(cur') = {}
    BY NothingHeld
  <2> QED
    BY <1>6, <2>1, <2>2 DEF LocksAre
<1>12. OneRequest'
  BY DEF SessInv, OneRequest
<1>13. TypeOK'
  BY <1>3, <1>9 DEF SessInv, TypeOK
<1> QED
  BY <1>3, <1>9, <1>10, <1>11, <1>12, <1>13 DEF SessInv

(* Steps that change variables of stores, and neither their use nor locks. *)
SameUse ==
    /\ DOMAIN stores' = DOMAIN stores /\ stores' \in [DOMAIN stores -> Store]
    /\ \A g \in DOMAIN stores :
          /\ stores'[g].ssl = stores[g].ssl /\ stores'[g].lastUse = stores[g].lastUse
          /\ stores'[g].locks = stores[g].locks
    /\ UNCHANGED <<bound, lastCheck, now, nextGuid, cur, socks>>

(* They keep all but the logins.                                           *)
LEMMA VariablesStep ==
    ASSUME SessInv, SameUse, nextSid' \in Nat \ {0}, login' \in [Guids -> Nat]
    PROVE  /\ TypeOK' /\ HasStores(World)' /\ NewCookies(World)'
           /\ LocksAre(World, Held(cur))' /\ OneRequest' /\ CheckedStores'
           /\ PromisesKept' /\ IdleStep
<1>1. /\ World.st = stores /\ World.r = cur /\ World.next = nextGuid
      /\ World'.st = stores' /\ World'.r = cur /\ World'.next = nextGuid
      /\ World' = [st |-> stores', r |-> cur, next |-> nextGuid]
  BY DEF World, SameUse
<1>2. WorldType(World) /\ HasStores(World) /\ NewCookies(World) /\ LocksAre(World, Held(cur))
  BY DEF SessInv, TypeOK
<1>3. WorldType(World')
  BY <1>1, <1>2 DEF WorldType, SameUse
<1>4. HasStores(World')
  BY <1>1, <1>2 DEF HasStores, SameUse
<1>5. NewCookies(World')
  BY <1>1, <1>2 DEF NewCookies, SameUse
<1>6. LocksAre(World', Held(cur)) /\ cur' = cur
  BY <1>1, <1>2 DEF LocksAre, SameUse
<1>7. TypeOK'
  <2>1. Guids' = Guids
    BY DEF Guids, SameUse
  <2> QED
    BY <1>3, <2>1 DEF SessInv, TypeOK, SameUse
<1>8. OneRequest'
  BY DEF SessInv, OneRequest, SameUse
<1>9. CheckedStores'
  BY DEF SessInv, CheckedStores, SameUse
<1>10. PromisesKept'
  BY DEF SessInv, PromisesKept, SameUse
<1>11. IdleStep
  BY DEF IdleStep, SameUse
<1> QED
  BY <1>3, <1>4, <1>5, <1>6, <1>7, <1>8, <1>9, <1>10, <1>11

(* Variables of the application, and removing variables of the login, give *)
(* nobody a login.                                                         *)
LEMMA NoLoginStep ==
    ASSUME SessInv, SameUse, UNCHANGED <<nextSid, login>>,
           \A g \in DOMAIN stores :
              /\ stores'[g].sid \in {stores[g].sid, Absent}
              /\ stores'[g].registered # "true" \/ stores'[g].registered = stores[g].registered
    PROVE  SessInv' /\ IdleStep
<1>1. nextSid' \in Nat \ {0} /\ login' \in [Guids -> Nat]
  BY DEF SessInv, TypeOK
<1>2. LoginsBound'
  <2>1. ASSUME NEW g \in DOMAIN stores PROVE stores'[g].sid < nextSid
    BY <1>1, <2>1 DEF SessInv, LoginsBound, Absent
  <2>2. ASSUME NEW g \in DOMAIN stores, ~stores'[g].ssl, stores'[g].registered = "true",
               stores'[g].sid # Absent
        PROVE  /\ login[g] # 0
               /\ \A h \in DOMAIN stores :
                     stores'[h].ssl /\ stores'[h].sid = stores'[g].sid /\ stores'[h].sid # Empty =>
                        login[g] = h
    BY <2>2 DEF SessInv, LoginsBound, SameUse
  <2> QED
    BY <2>1, <2>2 DEF LoginsBound, SameUse
<1> QED
  BY <1>1, <1>2, VariablesStep DEF SessInv

(* One field of one store is set.                                          *)
LEMMA FieldSet ==
    ASSUME SessInv, NEW g \in DOMAIN stores,
           UNCHANGED <<bound, lastCheck, now, nextGuid, nextSid, cur, socks, login>>,
           \/ \E x \in Int : stores' = [stores EXCEPT ![g] = [@ EXCEPT !.value = x]]
           \/ stores' = [stores EXCEPT ![g] = [@ EXCEPT !.sid = Absent]]
           \/ stores' = [stores EXCEPT ![g] = [@ EXCEPT !.registered = "absent"]]
    PROVE  SessInv' /\ IdleStep
<1>1. stores \in [DOMAIN stores -> Store] /\ stores[g] \in Store
  BY DEF SessInv, TypeOK, WorldType, World
<1>2. PICK s \in Store : /\ stores' = [stores EXCEPT ![g] = s]
                         /\ s.ssl = stores[g].ssl /\ s.lastUse = stores[g].lastUse
                         /\ s.locks = stores[g].locks /\ s.sid \in {stores[g].sid, Absent}
                         /\ s.registered # "true" \/ s.registered = stores[g].registered
  <2>1. CASE \E x \in Int : stores' = [stores EXCEPT ![g] = [@ EXCEPT !.value = x]]
    <3>1. PICK x \in Int : stores' = [stores EXCEPT ![g] = [@ EXCEPT !.value = x]]
      BY <2>1
    <3>2. [stores[g] EXCEPT !.value = x] \in Store
      BY <1>1 DEF Store
    <3> QED
      BY <1>1, <3>1, <3>2 DEF Store
  <2>2. CASE stores' = [stores EXCEPT ![g] = [@ EXCEPT !.sid = Absent]]
    <3>1. [stores[g] EXCEPT !.sid = Absent] \in Store
      BY <1>1 DEF Store, Absent
    <3> QED
      BY <1>1, <2>2, <3>1 DEF Store
  <2>3. CASE stores' = [stores EXCEPT ![g] = [@ EXCEPT !.registered = "absent"]]
    <3>1. [stores[g] EXCEPT !.registered = "absent"] \in Store
      BY <1>1 DEF Store
    <3> QED
      BY <1>1, <2>3, <3>1 DEF Store
  <2> QED
    BY <2>1, <2>2, <2>3
<1>3. /\ DOMAIN stores' = DOMAIN stores /\ stores' \in [DOMAIN stores -> Store]
      /\ stores'[g] = s /\ \A h \in DOMAIN stores \ {g} : stores'[h] = stores[h]
  BY <1>1, <1>2
<1>4. SameUse
  BY <1>2, <1>3 DEF SameUse
<1> QED
  BY <1>2, <1>3, <1>4, NoLoginStep

(* setSessionValue() and addSessionValue() write no reserved variable.     *)
LEMMA ValueStep ==
    ASSUME SessInv, NEW ssl \in BOOLEAN, NEW name \in Reserved \cup {"value"},
           setSessionValue(ssl, name) \/ addSessionValue(ssl, name), UNCHANGED bound
    PROVE  SessInv' /\ IdleStep
<1>1. name = "value"
  BY DEF setSessionValue, addSessionValue
<1>2. cur.store[ssl] \in DOMAIN stores
  BY DEF setSessionValue, addSessionValue, Writes, SessInv, HasStores, World
<1>3. \E x \in Int :
         stores' = [stores EXCEPT ![cur.store[ssl]] = [@ EXCEPT !.value = x]]
  BY <1>1 DEF setSessionValue, addSessionValue, Text, Empty
<1>4. UNCHANGED <<bound, lastCheck, now, nextGuid, nextSid, cur, socks, login>>
  BY DEF setSessionValue, addSessionValue
<1> QED
  BY <1>2, <1>3, <1>4, FieldSet

(* A websocket handler writes a variable, or makes it by reading it.       *)
LEMMA SocketValueStep ==
    ASSUME SessInv, NEW k \in Websockets,
           setSessionValueByGUID(k) \/ getSessionValueByGUID(k), UNCHANGED bound
    PROVE  SessInv' /\ IdleStep
<1> DEFINE g == socks[k].store_guid
<1>1. g \in DOMAIN stores
  BY DEF setSessionValueByGUID, getSessionValueByGUID, StoreOfSocket
<1>2. stores[g].value \in Int
  BY <1>1 DEF SessInv, TypeOK, WorldType, World, Store
<1>3. \E x \in Int : stores' = [stores EXCEPT ![g] = [@ EXCEPT !.value = x]]
  <2>1. CASE setSessionValueByGUID(k)
    <3>1. Text.value \in Int
      BY DEF Text
    <3> QED
      BY <2>1, <3>1 DEF setSessionValueByGUID
  <2>2. CASE getSessionValueByGUID(k)
    <3>1. PICK x \in Int : x = IF stores[g].value = Absent THEN Empty ELSE stores[g].value
      BY <1>2 DEF Empty
    <3> QED
      BY <2>2, <3>1 DEF getSessionValueByGUID
  <2> QED
    BY <2>1, <2>2
<1>4. UNCHANGED <<bound, lastCheck, now, nextGuid, nextSid, cur, socks, login>>
  BY DEF setSessionValueByGUID, getSessionValueByGUID
<1> QED
  BY <1>1, <1>3, <1>4, FieldSet

(* removeSessionValue() may take the variables of the login.               *)
LEMMA RemoveStep ==
    ASSUME SessInv, NEW ssl \in BOOLEAN, removeSessionValue(ssl), UNCHANGED bound
    PROVE  SessInv' /\ IdleStep
<1> DEFINE g == cur.store[ssl]
<1>1. g \in DOMAIN stores
  BY DEF removeSessionValue, SessInv, HasStores, World
<1>2. PICK field \in {"registered", "sid", "value"} :
         stores' = [stores EXCEPT ![g][field] = Fresh(ssl)[field]]
  BY DEF removeSessionValue, Reserved
<1>3. \/ \E x \in Int : stores' = [stores EXCEPT ![g] = [@ EXCEPT !.value = x]]
      \/ stores' = [stores EXCEPT ![g] = [@ EXCEPT !.sid = Absent]]
      \/ stores' = [stores EXCEPT ![g] = [@ EXCEPT !.registered = "absent"]]
  <2>1. /\ Fresh(ssl)["registered"] = "absent" /\ Fresh(ssl)["sid"] = Absent
        /\ Fresh(ssl)["value"] = Absent /\ Absent \in Int
    BY DEF Fresh, Absent
  <2>2. CASE field = "registered"
    BY <1>2, <2>1, <2>2
  <2>3. CASE field = "sid"
    BY <1>2, <2>1, <2>3
  <2>4. CASE field = "value"
    BY <1>2, <2>1, <2>4
  <2> QED
    BY <2>2, <2>3, <2>4
<1>4. UNCHANGED <<bound, lastCheck, now, nextGuid, nextSid, cur, socks, login>>
  BY DEF removeSessionValue
<1> QED
  BY <1>1, <1>3, <1>4, FieldSet

(* The stores of the request, and what it writes to them at a login or a   *)
(* logout.                                                                 *)
Own == {cur.store[FALSE], cur.store[TRUE]} \ {0}

RegisteredAs(st, value, sid) ==
    /\ DOMAIN st = DOMAIN stores /\ st \in [DOMAIN stores -> Store]
    /\ \A g \in DOMAIN stores :
          /\ st[g].ssl = stores[g].ssl /\ st[g].lastUse = stores[g].lastUse
          /\ st[g].locks = stores[g].locks
          /\ g \in Own => st[g].registered = value /\ st[g].sid = sid
          /\ g \notin Own => st[g] = stores[g]

(* int_setSessionValue() writes to these stores and to no other.           *)
LEMMA RegisteredSet ==
    ASSUME SessInv, NEW value \in {"true", "false"}, NEW sid \in Int
    PROVE  RegisteredAs(SetRegistered(stores, cur, value, sid), value, sid)
<1> DEFINE st == SetRegistered(stores, cur, value, sid)
           writable == {cur.store[ssl] : ssl \in {FALSE, cur.tls}} \ {0}
<1>1. writable = Own
  <2>1. cur.tls \in BOOLEAN
    BY DEF SessInv, TypeOK, WorldType, World, Request
  <2>2. cur.tls = FALSE => cur.store[TRUE] = 0
    BY DEF SessInv, HasStores, World
  <2>3. CASE cur.tls = TRUE
    BY <2>3 DEF Own
  <2>4. CASE cur.tls = FALSE
    BY <2>2, <2>4 DEF Own
  <2> QED
    BY <2>1, <2>3, <2>4
<1>2. stores \in [DOMAIN stores -> Store]
  BY DEF SessInv, TypeOK, WorldType, World
<1>3. st = [g \in DOMAIN stores |->
              IF g \in Own THEN [stores[g] EXCEPT !.registered = value, !.sid = sid]
              ELSE stores[g]]
  BY <1>1 DEF SetRegistered
<1>4. ASSUME NEW s \in Store
      PROVE  LET t == [s EXCEPT !.registered = value, !.sid = sid]
             IN  /\ t \in Store /\ t.ssl = s.ssl /\ t.lastUse = s.lastUse
                 /\ t.locks = s.locks /\ t.registered = value /\ t.sid = sid
  BY DEF Store
<1> HIDE DEF st
<1>5. DOMAIN st = DOMAIN stores
  BY <1>3
<1>6. ASSUME NEW g \in DOMAIN stores
      PROVE  /\ st[g] \in Store
             /\ st[g].ssl = stores[g].ssl /\ st[g].lastUse = stores[g].lastUse
             /\ st[g].locks = stores[g].locks
             /\ g \in Own => st[g].registered = value /\ st[g].sid = sid
             /\ g \notin Own => st[g] = stores[g]
  <2>1. stores[g] \in Store
    BY <1>2
  <2>2. CASE g \in Own
    <3>1. st[g] = [stores[g] EXCEPT !.registered = value, !.sid = sid]
      BY <1>3, <2>2
    <3> QED
      BY <1>4, <2>1, <2>2, <3>1
  <2>3. CASE g \notin Own
    <3>1. st[g] = stores[g]
      BY <1>3, <2>3
    <3> QED
      BY <2>1, <2>3, <3>1
  <2> QED
    BY <2>2, <2>3
<1>7. st \in [DOMAIN stores -> Store]
  BY <1>3, <1>5, <1>6
<1> QED
  BY <1>5, <1>6, <1>7 DEF RegisteredAs, st

(* Whose login checkUserRegistered() sees in the plain store of a request. *)
LEMMA PlainLogin ==
    ASSUME SessInv, checkUserRegistered(stores, cur) # "NOT_REGISTERED"
    PROVE  /\ cur.store[FALSE] # 0
           /\ stores[cur.store[FALSE]].registered = "true"
           /\ stores[cur.store[FALSE]].sid # Absent
<1> DEFINE plain == Readable(stores, cur, FALSE)
<1>1. plain.registered = "true" /\ plain.sid # Absent
  BY DEF checkUserRegistered
<1>2. cur.store[FALSE] # 0
  BY <1>1 DEF Readable, Fresh
<1>3. plain = stores[cur.store[FALSE]]
  BY <1>2 DEF Readable
<1> QED
  BY <1>1, <1>2, <1>3

(* And conversely.                                                         *)
LEMMA NotRegistered ==
    ASSUME SessInv, checkUserRegistered(stores, cur) = "NOT_REGISTERED",
           cur.store[FALSE] # 0
    PROVE  \/ stores[cur.store[FALSE]].registered # "true"
           \/ stores[cur.store[FALSE]].sid = Absent
<1> DEFINE plain == Readable(stores, cur, FALSE)
<1>1. plain.registered # "true" \/ plain.sid = Absent
  BY DEF checkUserRegistered
<1>2. plain = stores[cur.store[FALSE]]
  BY DEF Readable
<1> QED
  BY <1>1, <1>2

(* setUserRegistered(): a login gets an id of its own.                     *)
LEMMA LoginStep ==
    ASSUME SessInv, NEW status \in BOOLEAN, setUserRegistered(status), UNCHANGED bound
    PROVE  SessInv' /\ IdleStep
<1> DEFINE p == cur.store[FALSE]
           t == cur.store[TRUE]
<1>1. UNCHANGED <<bound, lastCheck, now, nextGuid, cur, socks>>
  BY DEF setUserRegistered
<1>2. /\ stores \in [DOMAIN stores -> Store] /\ login \in [Guids -> Nat]
      /\ nextSid \in Nat \ {0} /\ p \in Nat /\ t \in Nat
  BY DEF SessInv, TypeOK, WorldType, World, Request
<1>0. nextSid \in Int /\ nextSid >= 1
  BY <1>2
<1>3. /\ p # 0 => p \in DOMAIN stores /\ stores[p].ssl = FALSE
      /\ t # 0 => t \in DOMAIN stores /\ stores[t].ssl = TRUE
  BY DEF SessInv, HasStores, World
<1>4. DOMAIN stores \subseteq Guids /\ \A g \in DOMAIN stores : g # 0
  <2>1. bound.guids \in Nat /\ nextGuid \in Nat /\ nextGuid <= bound.guids + 1
    BY SessionBounds DEF SessInv, TypeOK, WorldType, World
  <2>2. DOMAIN stores \subseteq 1 .. (nextGuid - 1)
    BY DEF SessInv, TypeOK, WorldType, World
  <2> QED
    BY <2>1, <2>2 DEF Guids
<1>5. /\ \A g \in DOMAIN stores : stores[g].sid < nextSid /\ stores[g].sid \in Int
      /\ \A g \in DOMAIN stores : stores[g].ssl \in BOOLEAN
  BY <1>2 DEF SessInv, LoginsBound, Store
<1>6. /\ \A g \in DOMAIN stores : g \in Own /\ ~stores[g].ssl => g = p
      /\ \A g \in DOMAIN stores : g \in Own /\ stores[g].ssl => g = t
      /\ \A g \in DOMAIN stores : g \notin Own => g # p
  BY <1>3, <1>4 DEF Own
<1>7. CASE UNCHANGED <<stores, nextSid, login>>
  <2>1. SameUse
    BY <1>1, <1>2, <1>7 DEF SameUse
  <2> QED
    BY <1>7, <2>1, NoLoginStep
<1>8. CASE /\ stores' = SetRegistered(stores, cur, "true", nextSid)
           /\ nextSid' = nextSid + 1
           /\ login' = [g \in Guids |-> IF g # p THEN login[g] ELSE IF t # 0 THEN t ELSE g]
  <2>1. /\ DOMAIN stores' = DOMAIN stores /\ stores' \in [DOMAIN stores -> Store]
        /\ \A g \in DOMAIN stores :
              /\ stores'[g].ssl = stores[g].ssl /\ stores'[g].lastUse = stores[g].lastUse
              /\ stores'[g].locks = stores[g].locks
              /\ g \in Own => stores'[g].registered = "true" /\ stores'[g].sid = nextSid
              /\ g \notin Own => stores'[g] = stores[g]
    <3>1. RegisteredAs(SetRegistered(stores, cur, "true", nextSid), "true", nextSid)
      BY <1>0, RegisteredSet
    <3> QED
      BY <1>8, <3>1 DEF RegisteredAs
  <2>2. SameUse
    BY <1>1, <2>1 DEF SameUse
  <2>3. nextSid' \in Nat \ {0} /\ login' \in [Guids -> Nat]
    <3>1. \A g \in Guids : g \in Nat
      BY SessionBounds DEF Guids, SessInv, TypeOK
    <3>2. ASSUME NEW g \in Guids
          PROVE  (IF g # p THEN login[g] ELSE IF t # 0 THEN t ELSE g) \in Nat
      BY <1>2, <3>1
    <3>3. nextSid + 1 \in Nat \ {0}
      BY <1>2
    <3> QED
      BY <1>8, <3>2, <3>3
  <2>4. LoginsBound'
    <3>1. ASSUME NEW g \in DOMAIN stores PROVE stores'[g].sid < nextSid'
      <4>1. stores'[g].sid = nextSid \/ stores'[g].sid = stores[g].sid
        BY <2>1
      <4> QED
        BY <1>2, <1>5, <1>8, <4>1
    <3>2. ASSUME NEW g \in DOMAIN stores, ~stores'[g].ssl, stores'[g].registered = "true",
                 stores'[g].sid # Absent
          PROVE  /\ login'[g] # 0
                 /\ \A h \in DOMAIN stores :
                       stores'[h].ssl /\ stores'[h].sid = stores'[g].sid
                          /\ stores'[h].sid # Empty => login'[g] = h
      <4>1. CASE g \in Own
        <5>1. g = p /\ stores'[g].sid = nextSid /\ p # 0
          BY <1>4, <1>6, <2>1, <3>2, <4>1
        <5>2. login'[g] = IF t # 0 THEN t ELSE p
          BY <1>4, <1>8, <5>1
        <5>3. ASSUME NEW h \in DOMAIN stores, stores'[h].ssl, stores'[h].sid = nextSid
              PROVE  h = t
          <6>1. h \in Own
            <7>1. h \notin Own => stores'[h].sid = stores[h].sid
              BY <2>1
            <7>2. stores[h].sid # nextSid
              BY <1>0, <1>5
            <7> QED
              BY <5>3, <7>1, <7>2
          <6> QED
            BY <1>6, <2>1, <5>3, <6>1
        <5> QED
          BY <1>4, <5>1, <5>2, <5>3
      <4>2. CASE g \notin Own
        <5>1. login'[g] = login[g] /\ stores'[g] = stores[g]
          BY <1>4, <1>6, <1>8, <2>1, <4>2
        <5>2. ASSUME NEW h \in DOMAIN stores, stores'[h].sid = stores'[g].sid
              PROVE  stores'[h] = stores[h]
          <6>1. stores[g].sid # nextSid
            BY <1>0, <1>5
          <6>2. h \notin Own
            BY <2>1, <5>1, <5>2, <6>1
          <6> QED
            BY <2>1, <6>2
        <5> QED
          BY <3>2, <5>1, <5>2 DEF SessInv, LoginsBound
      <4> QED
        BY <4>1, <4>2
    <3> QED
      BY <2>1, <3>1, <3>2 DEF LoginsBound
  <2> QED
    BY <2>2, <2>3, <2>4, VariablesStep DEF SessInv
<1>9. CASE /\ stores' = IF checkUserRegistered(stores, cur) = "NOT_REGISTERED" THEN stores
                        ELSE SetRegistered(stores, cur, "false", Empty)
           /\ login' = [g \in Guids |-> IF g = p THEN 0 ELSE login[g]]
           /\ nextSid' = nextSid
  <2>1. nextSid' \in Nat \ {0} /\ login' \in [Guids -> Nat]
    BY <1>2, <1>9
  <2>2. CASE checkUserRegistered(stores, cur) = "NOT_REGISTERED"
    <3>1. stores' = stores
      BY <1>9, <2>2
    <3>2. SameUse
      BY <1>1, <1>2, <3>1 DEF SameUse
    <3>3. ASSUME NEW g \in DOMAIN stores, ~stores[g].ssl, stores[g].registered = "true",
                 stores[g].sid # Absent
          PROVE  login'[g] = login[g]
      <4>1. g # p
        BY <1>4, <2>2, <3>3, NotRegistered
      <4> QED
        BY <1>4, <1>9, <4>1
    <3>4. LoginsBound'
      BY <1>9, <3>1, <3>3 DEF SessInv, LoginsBound
    <3> QED
      BY <2>1, <3>2, <3>4, VariablesStep DEF SessInv
  <2>3. CASE checkUserRegistered(stores, cur) # "NOT_REGISTERED"
    <3>1. /\ DOMAIN stores' = DOMAIN stores /\ stores' \in [DOMAIN stores -> Store]
          /\ \A g \in DOMAIN stores :
                /\ stores'[g].ssl = stores[g].ssl /\ stores'[g].lastUse = stores[g].lastUse
                /\ stores'[g].locks = stores[g].locks
                /\ g \in Own => stores'[g].registered = "false" /\ stores'[g].sid = Empty
                /\ g \notin Own => stores'[g] = stores[g]
      <4>1. RegisteredAs(SetRegistered(stores, cur, "false", Empty), "false", Empty)
        BY Empty \in Int, RegisteredSet DEF Empty
      <4> QED
        BY <1>9, <2>3, <4>1 DEF RegisteredAs
    <3>2. SameUse
      BY <1>1, <3>1 DEF SameUse
    <3>3. LoginsBound'
      <4>1. ASSUME NEW g \in DOMAIN stores PROVE stores'[g].sid < nextSid'
        <5>1. stores'[g].sid = Empty \/ stores'[g].sid = stores[g].sid
          BY <3>1
        <5> QED
          BY <1>2, <1>5, <1>9, <5>1 DEF Empty
      <4>2. ASSUME NEW g \in DOMAIN stores, ~stores'[g].ssl,
                   stores'[g].registered = "true", stores'[g].sid # Absent
            PROVE  /\ login'[g] # 0
                   /\ \A h \in DOMAIN stores :
                         stores'[h].ssl /\ stores'[h].sid = stores'[g].sid
                            /\ stores'[h].sid # Empty => login'[g] = h
        <5>1. g \notin Own /\ stores'[g] = stores[g]
          BY <3>1, <4>2
        <5>2. login'[g] = login[g]
          BY <1>4, <1>6, <1>9, <5>1
        <5>3. ASSUME NEW h \in DOMAIN stores, stores'[h].sid # Empty
              PROVE  stores'[h] = stores[h]
          BY <3>1, <5>3
        <5> QED
          BY <4>2, <5>1, <5>2, <5>3 DEF SessInv, LoginsBound
      <4> QED
        BY <3>1, <4>1, <4>2 DEF LoginsBound
    <3> QED
      BY <2>1, <3>2, <3>3, VariablesStep DEF SessInv
  <2> QED
    BY <2>2, <2>3
<1> QED
  BY <1>7, <1>8, <1>9 DEF setUserRegistered

(* endHTTPRequest() gives the locks back.                                  *)
LEMMA EndStep ==
    ASSUME SessInv, endHTTPRequest, UNCHANGED bound
    PROVE  SessInv' /\ IdleStep
<1>1. /\ stores' = [g \in DOMAIN stores |->
                      IF g \in {cur.store[FALSE], cur.store[TRUE]}
                        THEN [stores[g] EXCEPT !.locks = @ - 1] ELSE stores[g]]
      /\ cur' = NoRequest
      /\ UNCHANGED <<bound, lastCheck, now, nextGuid, nextSid, socks, login>>
  BY DEF endHTTPRequest
<1>2. /\ stores \in [DOMAIN stores -> Store] /\ nextGuid \in Nat /\ nextGuid >= 1
      /\ DOMAIN stores \subseteq 1 .. (nextGuid - 1)
      /\ World.st = stores
  BY DEF SessInv, TypeOK, WorldType, World
<1>3. ASSUME NEW s \in Store
      PROVE  LET t == [s EXCEPT !.locks = @ - 1]
             IN  /\ t \in Store /\ t.ssl = s.ssl /\ t.lastUse = s.lastUse
                 /\ t.registered = s.registered /\ t.sid = s.sid /\ t.locks = s.locks - 1
  BY DEF Store
<1>4. ASSUME NEW g \in DOMAIN stores
      PROVE  /\ stores'[g] \in Store
             /\ stores'[g].ssl = stores[g].ssl /\ stores'[g].lastUse = stores[g].lastUse
             /\ stores'[g].registered = stores[g].registered
             /\ stores'[g].sid = stores[g].sid /\ stores'[g].locks = 0
  <2>1. stores[g] \in Store /\ g # 0
    BY <1>2
  <2>2. stores[g].locks = IF g \in Held(cur) THEN 1 ELSE 0
    BY <1>2 DEF SessInv, LocksAre
  <2>3. g \in Held(cur) <=> g \in {cur.store[FALSE], cur.store[TRUE]}
    BY <2>1 DEF Held
  <2>4. CASE g \in {cur.store[FALSE], cur.store[TRUE]}
    <3>1. stores'[g] = [stores[g] EXCEPT !.locks = @ - 1]
      BY <1>1, <2>4
    <3>2. stores[g].locks = 1
      BY <2>2, <2>3, <2>4
    <3>3. /\ stores'[g] \in Store
          /\ stores'[g].ssl = stores[g].ssl /\ stores'[g].lastUse = stores[g].lastUse
          /\ stores'[g].registered = stores[g].registered
          /\ stores'[g].sid = stores[g].sid /\ stores'[g].locks = stores[g].locks - 1
      BY <1>3, <2>1, <3>1
    <3> QED
      BY <3>2, <3>3
  <2>5. CASE g \notin {cur.store[FALSE], cur.store[TRUE]}
    <3>1. stores'[g] = stores[g]
      BY <1>1, <2>5
    <3> QED
      BY <2>1, <2>2, <2>3, <2>5, <3>1
  <2> QED
    BY <2>4, <2>5
<1>5. DOMAIN stores' = DOMAIN stores /\ stores' \in [DOMAIN stores -> Store]
  BY <1>1, <1>4
<1>6. /\ NoRequest \in Request
      /\ \A ssl \in BOOLEAN : NoRequest.store[ssl] = 0 /\ NoRequest.create_cookie[ssl] = FALSE
      /\ NoRequest.active = FALSE
  <2>1. [ssl \in BOOLEAN |-> FALSE] \in [BOOLEAN -> BOOLEAN]
    BY Zenon
  <2> QED
    BY <2>1 DEF NoRequest, Cleared, Request
<1>7. World' = [st |-> stores', r |-> NoRequest, next |-> nextGuid]
  BY <1>1 DEF World
<1>8. World'.st = stores' /\ World'.r = NoRequest /\ World'.next = nextGuid
  BY <1>7
<1>9. WorldType(World')
  BY <1>2, <1>5, <1>6, <1>7, <1>8 DEF WorldType
<1>10. HasStores(World') /\ NewCookies(World')
  BY <1>6, <1>8 DEF HasStores, NewCookies
<1>11. LocksAre(World', Held(NoRequest))
  <2>1. Held(NoRequest) = {}
    BY <1>6 DEF Held
  <2> QED
    BY <1>4, <1>5, <1>8, <2>1 DEF LocksAre
<1>12. TypeOK'
  <2>1. Guids' = Guids
    BY <1>1 DEF Guids
  <2> QED
    BY <1>1, <1>9, <2>1 DEF SessInv, TypeOK
<1>13. OneRequest'
  BY <1>1, <1>6 DEF OneRequest
<1>14. CheckedStores'
  BY <1>1, <1>4, <1>5 DEF SessInv, CheckedStores
<1>15. PromisesKept'
  BY <1>1, <1>4, <1>5 DEF SessInv, PromisesKept
<1>16. LoginsBound'
  BY <1>1, <1>4, <1>5 DEF SessInv, LoginsBound
<1>17. IdleStep
  BY <1>4, <1>5 DEF IdleStep
<1> QED
  BY <1>1, <1>9, <1>10, <1>11, <1>12, <1>13, <1>14, <1>15, <1>16, <1>17 DEF SessInv

(* Time passes.                                                            *)
LEMMA TickStep ==
    ASSUME SessInv, Tick, UNCHANGED bound
    PROVE  SessInv' /\ IdleStep
<1>1. /\ now' = now + 1 /\ (cur.active => now < cur.since + session_timeout)
      /\ UNCHANGED <<bound, stores, lastCheck, nextGuid, nextSid, cur, socks, login>>
  BY DEF Tick
<1>2. now \in Nat /\ lastCheck \in Nat /\ session_timeout \in Nat /\ cur.since \in Nat
  BY SessionBounds DEF SessInv, TypeOK, WorldType, World, Request
<1>3. World' = World /\ Guids' = Guids
  BY <1>1 DEF World, Guids
<1>4. \A g \in DOMAIN stores : stores[g].lastUse \in Nat
  BY DEF SessInv, TypeOK, WorldType, World, Store
<1>5. TypeOK'
  BY <1>1, <1>2, <1>3 DEF SessInv, TypeOK
<1>6. HasStores(World') /\ NewCookies(World') /\ LocksAre(World', Held(cur))
  BY <1>3 DEF SessInv
<1>7. OneRequest'
  BY <1>1, <1>2 DEF SessInv, OneRequest
<1>8. CheckedStores'
  BY <1>1, <1>2, <1>4 DEF SessInv, CheckedStores
<1>9. PromisesKept'
  <2>1. \A k \in Websockets : socks[k].promise \in Nat
    BY DEF SessInv, TypeOK, Socket
  <2> QED
    BY <1>1, <1>2, <2>1 DEF SessInv, PromisesKept
<1>10. LoginsBound'
  BY <1>1 DEF SessInv, LoginsBound
<1>11. IdleStep
  BY <1>1 DEF IdleStep
<1> QED
  BY <1>1, <1>5, <1>6, <1>7, <1>8, <1>9, <1>10, <1>11 DEF SessInv

(* What a websocket closes, or is told.                                    *)
LEMMA SocketStep ==
    ASSUME SessInv, NEW k \in Websockets,
           closeWebsocket(k) \/ getWebsocketStoreTimeout(k), UNCHANGED bound
    PROVE  SessInv' /\ IdleStep
<1>1. UNCHANGED <<bound, stores, lastCheck, now, nextGuid, nextSid, cur, login>>
  BY DEF closeWebsocket, getWebsocketStoreTimeout
<1>2. /\ now \in Nat /\ session_timeout \in Nat /\ socks \in [Websockets -> Socket]
      /\ \A g \in DOMAIN stores : stores[g].lastUse \in Nat /\ stores[g].lastUse <= now
  BY SessionBounds DEF SessInv, TypeOK, WorldType, World, Store, CheckedStores
<1>3. World' = World /\ Guids' = Guids
  BY <1>1 DEF World, Guids
<1>4. PICK s \in Socket :
         /\ socks' = [socks EXCEPT ![k] = s]
         /\ s.promise # 0 => /\ s.store_guid \in DOMAIN stores
                             /\ s.promise <= stores[s.store_guid].lastUse + session_timeout
  <2>1. CASE closeWebsocket(k)
    <3>1. NoSocket \in Socket /\ NoSocket.promise = 0
      BY DEF NoSocket, Socket
    <3> QED
      BY <2>1, <3>1 DEF closeWebsocket
  <2>2. CASE getWebsocketStoreTimeout(k)
    <3> DEFINE g == socks[k].store_guid
               idle == getSessionTimeoutByGUID(g)
               till == IF idle < 0 \/ idle > session_timeout THEN 0
                       ELSE now + (session_timeout - idle)
               s == [socks[k] EXCEPT !.promise = till]
    <3>1. socks' = [socks EXCEPT ![k] = s]
      BY <2>2 DEF getWebsocketStoreTimeout
    <3>2. idle = -1 \/ (g \in DOMAIN stores /\ idle = now - stores[g].lastUse)
      BY DEF getSessionTimeoutByGUID
    <3> HIDE DEF idle
    <3>3. idle \in Int
      BY <1>2, <3>2
    <3>4. /\ till \in Nat
          /\ till # 0 => /\ g \in DOMAIN stores
                         /\ till <= stores[g].lastUse + session_timeout
      <4>1. CASE idle < 0 \/ idle > session_timeout
        BY <4>1
      <4>2. CASE ~ (idle < 0 \/ idle > session_timeout)
        BY <1>2, <3>2, <3>3, <4>2
      <4> QED
        BY <4>1, <4>2
    <3> HIDE DEF till
    <3>5. s \in Socket /\ s.promise = till /\ s.store_guid = g
      BY <1>2, <3>4 DEF Socket
    <3> HIDE DEF s
    <3> QED
      BY <3>1, <3>4, <3>5
  <2> QED
    BY <2>1, <2>2
<1>5. /\ socks' \in [Websockets -> Socket] /\ socks'[k] = s
      /\ \A j \in Websockets \ {k} : socks'[j] = socks[j]
  BY <1>2, <1>4
<1>6. TypeOK'
  BY <1>1, <1>3, <1>5 DEF SessInv, TypeOK
<1>7. HasStores(World') /\ NewCookies(World') /\ LocksAre(World', Held(cur))
  BY <1>3 DEF SessInv
<1>8. OneRequest' /\ CheckedStores'
  BY <1>1 DEF SessInv, OneRequest, CheckedStores
<1>9. PromisesKept'
  BY <1>1, <1>4, <1>5 DEF SessInv, PromisesKept
<1>10. LoginsBound'
  BY <1>1 DEF SessInv, LoginsBound
<1>11. IdleStep
  BY <1>1 DEF IdleStep
<1> QED
  BY <1>1, <1>6, <1>7, <1>8, <1>9, <1>10, <1>11 DEF SessInv

(* postStreamRequestAuthorized() and startWebsocketConnection().           *)
LEMMA OwnRequestSteps ==
    ASSUME SessInv, PostStreamCheck \/ \E k \in Websockets : startWebsocketConnection(k),
           UNCHANGED bound
    PROVE  SessInv' /\ IdleStep
<1>1. socks \in [Websockets -> Socket]
  BY DEF SessInv, TypeOK
<1>2. CASE PostStreamCheck
  <2>1. PICK tls \in BOOLEAN : \E cookies \in Cookies(tls) :
           Become(restoreSession(Arrived(tls, cookies), FALSE, FALSE))
    BY <1>2 DEF PostStreamCheck
  <2>2. PICK cookies \in Cookies(tls) :
           Become(restoreSession(Arrived(tls, cookies), FALSE, FALSE))
    BY <2>1
  <2>3. ~cur.active /\ lastCheck' = CheckedAt /\ UNCHANGED <<now, cur, socks>>
    BY <1>2 DEF PostStreamCheck
  <2> QED
    BY <1>1, <2>2, <2>3, AsideStep
<1>3. ASSUME NEW k \in Websockets, startWebsocketConnection(k) PROVE SessInv' /\ IdleStep
  <2>1. PICK tls \in BOOLEAN : \E cookies \in Cookies(tls) :
           \E w \in {restoreSession(Arrived(tls, cookies), FALSE, TRUE)} :
              /\ Become(w)
              /\ socks' = [socks EXCEPT ![k] = [open |-> TRUE, store_guid |-> w.r.store[FALSE],
                                                promise |-> 0]]
    BY <1>3 DEF startWebsocketConnection
  <2>2. PICK cookies \in Cookies(tls) :
           \E w \in {restoreSession(Arrived(tls, cookies), FALSE, TRUE)} :
              /\ Become(w)
              /\ socks' = [socks EXCEPT ![k] = [open |-> TRUE, store_guid |-> w.r.store[FALSE],
                                                promise |-> 0]]
    BY <2>1
  <2>3. ~cur.active /\ lastCheck' = CheckedAt /\ UNCHANGED <<now, cur>>
    BY <1>3 DEF startWebsocketConnection
  <2> DEFINE v == restoreSession(Arrived(tls, cookies), FALSE, TRUE)
             s == [open |-> TRUE, store_guid |-> v.r.store[FALSE], promise |-> 0]
  <2>4. WorldOK(v)
    BY <2>3, OwnRequest
  <2>5. Become(v) /\ socks' = [socks EXCEPT ![k] = s]
    BY <2>2
  <2> HIDE DEF v
  <2>6. v.r.store[FALSE] \in Nat
    BY <2>4 DEF WorldOK, WorldType, Request
  <2>7. s \in Socket /\ s.promise = 0
    BY <2>6 DEF Socket
  <2> HIDE DEF s
  <2>8. /\ socks' \in [Websockets -> Socket]
        /\ \A j \in Websockets : socks'[j] = socks[j] \/ socks'[j].promise = 0
    BY <1>1, <2>5, <2>7
  <2> QED
    BY <2>3, <2>5, <2>8, AsideStep DEF v
<1> QED
  BY <1>2, <1>3

---------------------------------------------------------------------------
(* The invariant holds.                                                    *)

(* initSessions(): no store, no request, no websocket.                     *)
LEMMA SessInit == initSessions => SessInv
<1> SUFFICES ASSUME initSessions PROVE SessInv
  OBVIOUS
<1>1. /\ bound \in Bounds /\ stores = << >> /\ lastCheck = 0 /\ now = 0
      /\ nextGuid = 1 /\ nextSid = 1 /\ cur = NoRequest
      /\ socks = [k \in Websockets |-> NoSocket] /\ login = [g \in Guids |-> 0]
  BY DEF initSessions
<1>2. DOMAIN stores = {} /\ stores \in [{} -> Store]
  BY <1>1
<1>3. /\ NoRequest \in Request
      /\ \A ssl \in BOOLEAN : NoRequest.store[ssl] = 0 /\ NoRequest.create_cookie[ssl] = FALSE
      /\ NoRequest.active = FALSE
  <2>1. [ssl \in BOOLEAN |-> FALSE] \in [BOOLEAN -> BOOLEAN]
    BY Zenon
  <2> QED
    BY <2>1 DEF NoRequest, Cleared, Request
<1>4. World = [st |-> stores, r |-> NoRequest, next |-> 1]
  BY <1>1 DEF World
<1>5. World.st = stores /\ World.r = NoRequest /\ World.next = 1
  BY <1>4
<1>6. WorldType(World)
  BY <1>2, <1>3, <1>4, <1>5 DEF WorldType
<1>7. NoSocket \in Socket /\ NoSocket.promise = 0
  BY DEF NoSocket, Socket
<1>8. TypeOK
  <2>1. bound.guids \in Nat
    BY <1>1, SessionBounds
  <2> QED
    BY <1>1, <1>6, <1>7, <2>1 DEF TypeOK
<1>9. HasStores(World) /\ NewCookies(World) /\ LocksAre(World, Held(cur))
  BY <1>2, <1>3, <1>5 DEF HasStores, NewCookies, LocksAre
<1>10. OneRequest /\ CheckedStores /\ PromisesKept /\ LoginsBound
  BY <1>1, <1>2, <1>3, <1>7 DEF OneRequest, CheckedStores, PromisesKept, LoginsBound
<1> QED
  BY <1>8, <1>9, <1>10 DEF SessInv

(* Every operation of session.c keeps the invariant, and refreshes no      *)
(* store that was idle for too long.                                       *)
LEMMA OperationStep ==
    ASSUME SessInv, SessNext
    PROVE  SessInv' /\ IdleStep
<1>1. UNCHANGED bound
  BY DEF SessNext
<1>2. CASE startSession
  BY <1>1, <1>2, StartStep
<1>3. CASE endHTTPRequest
  BY <1>1, <1>3, EndStep
<1>4. CASE PostStreamCheck
  BY <1>1, <1>4, OwnRequestSteps
<1>5. CASE Tick
  BY <1>1, <1>5, TickStep
<1>6. ASSUME NEW b \in BOOLEAN, getHttpRequest(b) PROVE SessInv' /\ IdleStep
  BY <1>1, <1>6, RequestStep
<1>7. ASSUME NEW b \in BOOLEAN, setUserRegistered(b) PROVE SessInv' /\ IdleStep
  BY <1>1, <1>7, LoginStep
<1>8. ASSUME NEW b \in BOOLEAN, removeSessionValue(b) PROVE SessInv' /\ IdleStep
  BY <1>1, <1>8, RemoveStep
<1>9. ASSUME NEW ssl \in BOOLEAN, NEW name \in Reserved \cup {"value"},
             setSessionValue(ssl, name) \/ addSessionValue(ssl, name)
      PROVE  SessInv' /\ IdleStep
  BY <1>1, <1>9, ValueStep
<1>10. ASSUME NEW k \in Websockets, startWebsocketConnection(k) PROVE SessInv' /\ IdleStep
  BY <1>1, <1>10, OwnRequestSteps
<1>11. ASSUME NEW k \in Websockets, closeWebsocket(k) \/ getWebsocketStoreTimeout(k)
       PROVE  SessInv' /\ IdleStep
  BY <1>1, <1>11, SocketStep
<1>12. ASSUME NEW k \in Websockets, setSessionValueByGUID(k) \/ getSessionValueByGUID(k)
       PROVE  SessInv' /\ IdleStep
  BY <1>1, <1>12, SocketValueStep
<1> QED
  BY <1>2, <1>3, <1>4, <1>5, <1>6, <1>7, <1>8, <1>9, <1>10, <1>11, <1>12
  DEF SessNext, SessStep

(* A step, or none.                                                        *)
LEMMA SessStepInv == SessInv /\ [SessNext]_sessVars => SessInv'
<1>1. CASE SessNext
  BY <1>1, OperationStep
<1>2. ASSUME SessInv, UNCHANGED sessVars PROVE SessInv'
  <2>1. UNCHANGED <<bound, stores, lastCheck, now, nextGuid, nextSid, cur, socks, login>>
    BY <1>2 DEF sessVars
  <2>2. World' = World /\ Guids' = Guids
    BY <2>1 DEF World, Guids
  <2> QED
    BY <1>2, <2>1, <2>2
    DEF SessInv, TypeOK, OneRequest, CheckedStores, PromisesKept, LoginsBound
<1> QED
  BY <1>1, <1>2

(* The invariant of session.c: whatever cookies arrive, whatever the       *)
(* requests, the logins and the websocket handlers do and whenever a       *)
(* timeout check falls due, the types are right, the request's stores are  *)
(* there and locked once, a fresh cookie names no store, and every session *)
(* id belongs to one login.                                                *)
THEOREM SessHolds == SessSpec => []SessInv
<1>1. initSessions => SessInv
  BY SessInit
<1>2. SessInv /\ [SessNext]_sessVars => SessInv'
  BY SessStepInv
<1> QED
  BY <1>1, <1>2, PTL DEF SessSpec

(* The stores restoreSession() gave a request are there until              *)
(* endHTTPRequest() and are locked once, no other store is locked, and a   *)
(* websocket handler's store lasts as long as getWebsocketStoreTimeout()   *)
(* said.                                                                   *)
THEOREM StoresLive == SessSpec => []HeldStoresLive
<1>1. SessInv => HeldStoresLive
  <2> SUFFICES ASSUME SessInv PROVE HeldStoresLive
    OBVIOUS
  <2>1. World.st = stores /\ World.r = cur
    BY DEF World
  <2>2. Held(cur) \subseteq DOMAIN stores
    BY <2>1 DEF SessInv, HasStores, Held
  <2>3. \A g \in DOMAIN stores : stores[g].locks = IF g \in Held(cur) THEN 1 ELSE 0
    BY <2>1 DEF SessInv, LocksAre
  <2>4. \A k \in Websockets :
           socks[k].promise # 0 /\ now <= socks[k].promise => socks[k].store_guid \in DOMAIN stores
    BY DEF SessInv, PromisesKept
  <2> QED
    BY <2>2, <2>3, <2>4 DEF HeldStoresLive, Held
<1> QED
  BY <1>1, SessHolds, PTL

(* checkUserRegistered() answers SSL_CHECK_OK only when both stores hold   *)
(* one session id, and not the empty one setUserRegistered() leaves behind *)
(* at a logout.                                                            *)
LEMMA BothStores ==
    ASSUME SessInv, checkUserRegistered(stores, cur) = "SSL_CHECK_OK"
    PROVE  /\ cur.store[TRUE] # 0
           /\ stores[cur.store[TRUE]].sid = stores[cur.store[FALSE]].sid
           /\ stores[cur.store[TRUE]].sid # Empty
<1> DEFINE plain == Readable(stores, cur, FALSE)
           ssl == Readable(stores, cur, TRUE)
<1>1. /\ cur.tls /\ ssl.sid # Absent /\ plain.sid # Empty /\ plain.sid = ssl.sid
  BY DEF checkUserRegistered, guid_cmp
<1>2. cur.store[FALSE] # 0
  BY PlainLogin
<1>3. plain = stores[cur.store[FALSE]]
  BY <1>2 DEF Readable
<1>4. cur.store[TRUE] # 0
  BY <1>1 DEF Readable, Fresh
<1>5. ssl = stores[cur.store[TRUE]]
  BY <1>1, <1>4 DEF Readable
<1> QED
  BY <1>1, <1>3, <1>4, <1>5

(* No request gets access through checkUserRegistered() unless a login     *)
(* made by setUserRegistered() through its plain store is in force, and    *)
(* none over TLS is told SSL_CHECK_OK for stores of two different logins.  *)
THEOREM AccessOfLogin == SessSpec => []AccessFollowsLogin
<1>1. SessInv => AccessFollowsLogin
  <2> DEFINE p == cur.store[FALSE]
             t == cur.store[TRUE]
  <2> SUFFICES ASSUME SessInv, checkUserRegistered(stores, cur) # "NOT_REGISTERED"
               PROVE  /\ login[p] # 0
                      /\ checkUserRegistered(stores, cur) = "SSL_CHECK_OK" => login[p] = t
    BY DEF AccessFollowsLogin, AccessGranted
  <2>1. p # 0 /\ stores[p].registered = "true" /\ stores[p].sid # Absent
    BY PlainLogin
  <2>2. p \in DOMAIN stores /\ ~stores[p].ssl
    BY <2>1 DEF SessInv, HasStores, World
  <2>3. login[p] # 0
    BY <2>1, <2>2 DEF SessInv, LoginsBound
  <2>4. ASSUME checkUserRegistered(stores, cur) = "SSL_CHECK_OK" PROVE login[p] = t
    <3>1. t # 0 /\ stores[t].sid = stores[p].sid /\ stores[t].sid # Empty
      BY <2>4, BothStores
    <3>2. t \in DOMAIN stores /\ stores[t].ssl
      BY <3>1 DEF SessInv, HasStores, World
    <3> QED
      BY <2>1, <2>2, <3>1, <3>2 DEF SessInv, LoginsBound
  <2> QED
    BY <2>3, <2>4
<1> QED
  BY <1>1, SessHolds, PTL

(* checkSessionTimeout() ends idle sessions in time: no operation uses a   *)
(* store again that was idle for the timeout and one interval between two  *)
(* checks.                                                                 *)
THEOREM IdleEnd == SessSpec => IdleSessionsEnd
<1>1. SessInv /\ [SessNext]_sessVars => [IdleStep]_sessVars
  BY OperationStep
<1>2. SessSpec => [][IdleStep]_sessVars
  BY <1>1, SessHolds, PTL DEF SessSpec
<1> QED
  BY <1>2 DEF IdleSessionsEnd, IdleStep
---------------------------------------------------------------------------
(* Files: types.                                                           *)

Tag == [content : Contents, len : Nat]
Data == [content : Contents, packed : BOOLEAN]

Entry == [cached : {TRUE}, ram : BOOLEAN, time : Times \cup {NoValue},
          etag : Tag \cup {NoValue}, data : Data \cup {NoValue}, len : Nat]

Fetch == [pc : {"idle", "stat", "load", "newtag", "serve", "check", "reload", "retag", "answer"},
          via : {"send", "render"}, tag : Tag \cup {NoValue}, since : Nat \cup {NoValue}]

FileTypeOK ==
    /\ kind \in FileKinds /\ disk \in Version
    /\ written \subseteq Version /\ IsFiniteSet(seen)
    /\ seen \subseteq Version
    /\ entry \in Entry \cup {NoEntry}
    /\ req \in Fetch
    /\ answer.status \in {0, 200, 304, 404}

---------------------------------------------------------------------------
(* The parts of the inductive invariant.                                   *)

Local == kind.fs = "local"

(* Two versions of one tick differ in their length.                        *)
VersionsApart ==
    /\ disk \in written
    /\ \A v, w \in written :
          v.time = w.time => v.content = w.content \/ Size[v.content] # Size[w.content]

(* A request under way has an entry, and has not been answered.            *)
UnderWay ==
    /\ req.pc # "idle" => /\ entry \in Entry /\ disk \in seen /\ answer.status = 0
                          /\ req.via \in kind.uses
    /\ answer.status \in {200, 304} => entry \in Entry /\ disk \in seen
    /\ req.pc \in {"stat", "load"} => Local /\ ~entry.ram
    /\ req.pc \in {"newtag", "check", "retag"} => Local
    /\ req.pc = "reload" => Local /\ entry.ram
    /\ req.pc \in {"check", "retag"} => entry.ram \/ req.via = "send"

(* The time noted is not ahead of the file.                                *)
TimeNoted ==
    Local /\ entry \in Entry /\ req.pc # "stat" => entry.time \in Times /\ entry.time <= disk.time

(* Once it was compared with the file, it is that of a version that was    *)
(* there since the request began.                                          *)
TimeSeen ==
    Local /\ req.pc \in {"reload", "retag", "answer"} /\ (entry.ram \/ req.via = "send") =>
       \E v \in seen : v.time = entry.time

(* What is in RAM is one content with its length and tag.  If the file     *)
(* still has the time noted, it is the content of a version of that time;  *)
(* and once it was compared with the file it was there since the request   *)
(* began.                                                                  *)
RamHolds(c) ==
    /\ entry.data = Plain(c) /\ entry.len = Size[c]
    /\ entry.time = disk.time => [content |-> c, time |-> disk.time] \in written
    /\ req.pc \notin {"newtag", "retag"} => entry.etag = EtagOf(c, Size[c])
    /\ req.pc \in {"retag", "answer"} => \E v \in seen : v.content = c

RamKept ==
    Local /\ entry \in Entry /\ entry.ram /\ req.pc # "reload" => \E c \in Contents : RamHolds(c)

(* The length and the tag of a file that is sent from disk are those of a  *)
(* version of the time noted; while it is loaded for the first time, the   *)
(* length may be older.                                                    *)
NotedVersion ==
    \E v \in written : /\ v.time = disk.time /\ entry.len = Size[v.content]
                       /\ entry.etag = EtagOf(v.content, Size[v.content])

DiskKept ==
    Local /\ entry \in Entry /\ ~entry.ram /\ "send" \in kind.uses =>
       /\ req.pc \in {"idle", "serve", "check", "answer"} /\ entry.time = disk.time =>
             \/ NotedVersion
             \/ req.pc \in {"serve", "check"} /\ entry.etag = EtagOf(disk.content, entry.len)
       /\ req.pc = "retag" /\ (entry.time = disk.time \/ seen = {disk}) =>
             entry.len = Size[disk.content]
       /\ req.pc = "answer" /\ seen = {disk} =>
             /\ entry.len = Size[disk.content]
             /\ entry.etag = EtagOf(disk.content, Size[disk.content])

(* What is rendered from disk was there since the request began.           *)
RenderKept ==
    Local /\ req.pc = "answer" /\ req.via = "render" /\ ~entry.ram =>
       \E v \in seen : entry.data = Plain(v.content)

(* A file of the image is unpacked only while it is rendered.              *)
ImageKept ==
    kind.fs = "binary" =>
       LET packed == kind.packed /\ ~(req.pc = "answer" /\ req.via = "render")
       IN  /\ entry \in Entry /\ entry.ram /\ req.pc \in {"idle", "serve", "answer"}
           /\ entry.data = [content |-> disk.content, packed |-> packed]
           /\ entry.len = IF packed THEN PackedSize ELSE Size[disk.content]
           /\ entry.etag = EtagOf(disk.content, Size[disk.content]) /\ entry.time = NoValue

(* The answers of AnswersFresh, without counting.                                          *)
Fresh200 ==
    answer.status \in {200, 304} /\ (entry.ram \/ seen = {disk}) =>
       \E v \in seen : Shows(answer, v)

FileInv ==
    /\ FileTypeOK /\ VersionsApart /\ UnderWay /\ TimeNoted /\ TimeSeen
    /\ RamKept /\ DiskKept /\ RenderKept /\ ImageKept /\ Fresh200

---------------------------------------------------------------------------
(* Facts about single states.                                              *)

Steps == {"stat", "load", "newtag", "serve", "check", "reload", "retag", "answer"}

(* The entry is in the cache or there is none.                             *)
LEMMA CachedEntry ==
    ASSUME FileTypeOK
    PROVE  /\ entry.cached => entry \in Entry
           /\ ~entry.cached => entry = NoEntry
           /\ entry \in Entry => entry.cached
<1>1. entry \in Entry => entry.cached = TRUE
  BY DEF Entry
<1>2. NoEntry.cached = FALSE
  BY DEF NoEntry
<1>3. entry \in Entry \/ entry = NoEntry
  BY DEF FileTypeOK
<1> QED
  BY <1>1, <1>2, <1>3

(* A kind of file is local or of the image; what is local is not packed    *)
(* and is used in one way.                                                 *)
LEMMA KindOf ==
    ASSUME FileTypeOK
    PROVE  /\ kind.fs = "local" \/ kind.fs = "binary"
           /\ kind.packed \in BOOLEAN /\ kind.uses \subseteq {"send", "render"}
           /\ Local => ~kind.packed /\ kind.uses # {"send", "render"}
           /\ Local /\ "render" \in kind.uses => "send" \notin kind.uses
<1>1. kind \in FileKinds
  BY DEF FileTypeOK
<1>2. kind \in [fs : {"local", "binary"}, use_ram_cache : BOOLEAN, html : BOOLEAN,
                packed : BOOLEAN, uses : SUBSET {"send", "render"}]
  BY <1>1, FileConstants
<1>3. /\ kind.fs \in {"local", "binary"} /\ kind.packed \in BOOLEAN
      /\ kind.uses \subseteq {"send", "render"}
  BY <1>2
<1>4. Local => ~kind.packed /\ kind.uses # {"send", "render"}
  BY <1>1, FileConstants DEF Local
<1> QED
  BY <1>3, <1>4

(* Lengths are positive numbers.                                           *)
LEMMA SizeIsNat == \A c \in Contents : Size[c] \in Nat
  BY FileConstants

(* What a version is.                                                      *)
LEMMA VersionIs ==
    ASSUME NEW v \in Version
    PROVE  /\ v.content \in Contents /\ v.time \in Times /\ v.time \in Nat
           /\ v = [content |-> v.content, time |-> v.time]
  BY FileConstants DEF Version

(* If the file has the time and the length noted, it is the version noted. *)
LEMMA SameVersion ==
    ASSUME FileTypeOK, VersionsApart, NEW v \in written,
           v.time = disk.time, Size[v.content] = Size[disk.content]
    PROVE  v.content = disk.content
  BY DEF VersionsApart

(* A step of a request that does not end it.                               *)
Serving(pc) ==
    /\ req.pc # "idle" /\ entry' \in Entry /\ GoTo(pc) /\ UNCHANGED <<cacheVars, answer>>

(* Such a step keeps what is not about where the request is.               *)
LEMMA ServingStep ==
    ASSUME FileInv, NEW pc \in Steps, Serving(pc)
    PROVE  /\ FileTypeOK' /\ VersionsApart' /\ Fresh200'
           /\ req'.pc = pc /\ req'.via = req.via /\ req'.tag = req.tag
           /\ entry \in Entry /\ entry' \in Entry /\ disk \in seen /\ req.via \in kind.uses
           /\ answer' = answer /\ answer.status = 0
           /\ UNCHANGED <<kind, disk, written, seen>>
           /\ Local' = Local
<1>1. UNCHANGED <<kind, disk, written, listed, served, seen, answer>>
  BY DEF Serving, cacheVars
<1>2. /\ entry \in Entry /\ disk \in seen /\ answer.status = 0 /\ req.via \in kind.uses
  BY DEF FileInv, UnderWay, Serving
<1>3. req' = [req EXCEPT !.pc = pc] /\ req \in Fetch
  BY DEF Serving, GoTo, FileInv, FileTypeOK
<1>4. req' \in Fetch /\ req'.pc = pc /\ req'.via = req.via /\ req'.tag = req.tag
  BY <1>3 DEF Fetch, Steps
<1>5. entry' \in Entry
  BY DEF Serving
<1>6. FileTypeOK'
  BY <1>1, <1>4, <1>5 DEF FileInv, FileTypeOK
<1>7. VersionsApart'
  BY <1>1 DEF FileInv, VersionsApart
<1>8. Fresh200'
  BY <1>1, <1>2 DEF Fresh200
<1> QED
  BY <1>1, <1>2, <1>4, <1>5, <1>6, <1>7, <1>8 DEF Local

---------------------------------------------------------------------------
(* Loading.                                                                *)

(* stat(): the time of the file is noted.                                  *)
LEMMA StatStep ==
    ASSUME FileInv, PlatformGetFileInfo
    PROVE  FileInv'
<1>1. req.pc = "stat" /\ Local /\ ~entry.ram /\ entry \in Entry /\ disk \in Version
  BY DEF PlatformGetFileInfo, FileInv, UnderWay, FileTypeOK
<1>2. entry' = [entry EXCEPT !.time = disk.time] /\ GoTo("load") /\ UNCHANGED <<cacheVars, answer>>
  BY DEF PlatformGetFileInfo
<1>3. /\ entry' \in Entry /\ entry'.time = disk.time /\ entry'.ram = entry.ram
  BY <1>1, <1>2, VersionIs DEF Entry
<1>4. Serving("load") /\ "load" \in Steps
  BY <1>1, <1>2, <1>3 DEF Serving, Steps
<1>5. /\ FileTypeOK' /\ VersionsApart' /\ Fresh200' /\ req'.pc = "load" /\ req'.via = req.via
      /\ disk \in seen /\ req.via \in kind.uses /\ answer' = answer /\ answer.status = 0
      /\ UNCHANGED <<kind, disk, written, seen>> /\ Local' = Local
  BY <1>4, ServingStep
<1>6. UnderWay'
  BY <1>1, <1>3, <1>5 DEF UnderWay
<1>7. TimeNoted'
  BY <1>1, <1>3, <1>5, VersionIs DEF TimeNoted
<1>8. TimeSeen' /\ RamKept' /\ DiskKept' /\ RenderKept' /\ ImageKept'
  BY <1>1, <1>3, <1>5 DEF TimeSeen, RamKept, DiskKept, RenderKept, ImageKept, Local
<1> QED
  BY <1>5, <1>6, <1>7, <1>8 DEF FileInv

(* A file that is read from disk is held as it is, with its length.        *)
LEMMA ContentRead ==
    ASSUME FileTypeOK, NEW e \in Entry
    PROVE  LET r == local_file_system_read_content(e)
           IN  /\ r \in Entry /\ r.data = Plain(disk.content) /\ r.len = Size[disk.content]
               /\ r.time = e.time /\ r.etag = e.etag /\ r.ram = e.ram
<1>1. disk.content \in Contents /\ Size[disk.content] \in Nat
  BY VersionIs, SizeIsNat DEF FileTypeOK
<1>2. Plain(disk.content) \in Data
  BY <1>1 DEF Plain, Data
<1> QED
  BY <1>1, <1>2 DEF local_file_system_read_content, Entry

(* ramCacheFile(): the content is read, or stays on disk.                  *)
LEMMA LoadStep ==
    ASSUME FileInv, ramCacheFile
    PROVE  FileInv'
<1>1. /\ req.pc = "load" /\ Local /\ ~entry.ram /\ entry \in Entry /\ disk \in Version
      /\ FileTypeOK /\ disk \in written
  BY DEF ramCacheFile, FileInv, UnderWay, FileTypeOK, VersionsApart
<1>2. /\ entry.time \in Times /\ entry.time <= disk.time
  BY <1>1 DEF FileInv, TimeNoted
<1>3. GoTo("newtag") /\ UNCHANGED <<cacheVars, answer>>
  BY DEF ramCacheFile
<1>4. CASE doNotRamCacheFile
  <2>1. entry' = entry
    BY <1>4 DEF ramCacheFile
  <2>2. Serving("newtag") /\ "newtag" \in Steps
    BY <1>1, <1>3, <2>1 DEF Serving, Steps
  <2>3. /\ FileTypeOK' /\ VersionsApart' /\ Fresh200' /\ req'.pc = "newtag" /\ req'.via = req.via
        /\ disk \in seen /\ req.via \in kind.uses /\ answer' = answer /\ answer.status = 0
        /\ UNCHANGED <<kind, disk, written, seen>> /\ Local' = Local
    BY <2>2, ServingStep
  <2>4. UnderWay' /\ TimeNoted' /\ TimeSeen'
    BY <1>1, <1>2, <2>1, <2>3 DEF UnderWay, TimeNoted, TimeSeen
  <2>5. RamKept' /\ DiskKept' /\ RenderKept' /\ ImageKept'
    BY <1>1, <2>1, <2>3 DEF RamKept, DiskKept, RenderKept, ImageKept, Local
  <2> QED
    BY <2>3, <2>4, <2>5 DEF FileInv
<1>5. CASE ~doNotRamCacheFile
  <2> DEFINE r == local_file_system_read_content(entry)
  <2>1. entry' = [r EXCEPT !.ram = TRUE]
    BY <1>5 DEF ramCacheFile
  <2>2. /\ r \in Entry /\ r.data = Plain(disk.content) /\ r.len = Size[disk.content]
        /\ r.time = entry.time
    BY <1>1, ContentRead
  <2> HIDE DEF r
  <2>3. /\ entry' \in Entry /\ entry'.ram = TRUE /\ entry'.data = Plain(disk.content)
        /\ entry'.len = Size[disk.content] /\ entry'.time = entry.time
    BY <2>1, <2>2 DEF Entry
  <2>4. Serving("newtag") /\ "newtag" \in Steps
    BY <1>1, <1>3, <2>3 DEF Serving, Steps
  <2>5. /\ FileTypeOK' /\ VersionsApart' /\ Fresh200' /\ req'.pc = "newtag" /\ req'.via = req.via
        /\ disk \in seen /\ req.via \in kind.uses /\ answer' = answer /\ answer.status = 0
        /\ UNCHANGED <<kind, disk, written, seen>> /\ Local' = Local
    BY <2>4, ServingStep
  <2>6. UnderWay' /\ TimeNoted' /\ TimeSeen'
    BY <1>1, <1>2, <2>3, <2>5 DEF UnderWay, TimeNoted, TimeSeen
  <2>7. RamHolds(disk.content)'
    <3>1. [content |-> disk.content, time |-> disk.time] \in written
      BY <1>1, VersionIs
    <3> QED
      BY <2>3, <2>5, <3>1 DEF RamHolds
  <2>8. RamKept'
    <3>1. disk.content \in Contents
      BY <1>1, VersionIs
    <3> QED
      BY <2>5, <2>7, <3>1 DEF RamKept
  <2>9. DiskKept' /\ RenderKept' /\ ImageKept'
    BY <1>1, <2>3, <2>5 DEF DiskKept, RenderKept, ImageKept, Local
  <2> QED
    BY <2>5, <2>6, <2>8, <2>9 DEF FileInv
<1> QED
  BY <1>4, <1>5

(* generateEtag(): the tag of the content in RAM, or of the file as it is  *)
(* now with the length noted.                                              *)
LEMMA TagStep ==
    ASSUME FileInv, generateEtag
    PROVE  FileInv'
<1> DEFINE c == IF entry.ram THEN entry.data.content ELSE disk.content
           pc == IF req.pc = "newtag" THEN "serve" ELSE "answer"
<1>1. /\ req.pc \in {"newtag", "retag"} /\ Local /\ entry \in Entry /\ disk \in Version
      /\ FileTypeOK /\ disk \in written /\ disk \in seen /\ kind.fs # "binary"
  BY DEF generateEtag, FileInv, UnderWay, FileTypeOK, VersionsApart, Local
<1>2. /\ entry.time \in Times /\ entry.time <= disk.time
  BY <1>1 DEF FileInv, TimeNoted
<1>3. entry' = [entry EXCEPT !.etag = EtagOf(c, entry.len)] /\ GoTo(pc) /\ UNCHANGED <<cacheVars, answer>>
  BY DEF generateEtag
<1>4. entry.ram => \E x \in Contents : RamHolds(x)
  BY <1>1 DEF FileInv, RamKept
<1>5. c \in Contents
  <2>1. disk.content \in Contents
    BY <1>1, VersionIs
  <2>2. \A x : Plain(x).content = x
    BY DEF Plain
  <2> QED
    BY <1>4, <2>1, <2>2 DEF RamHolds
<1>6. EtagOf(c, entry.len) \in Tag
  BY <1>1, <1>5 DEF EtagOf, Tag, Entry
<1> HIDE DEF c
<1>7. /\ entry' \in Entry /\ entry'.etag = EtagOf(c, entry.len) /\ entry'.time = entry.time
      /\ entry'.ram = entry.ram /\ entry'.data = entry.data /\ entry'.len = entry.len
  BY <1>1, <1>3, <1>6 DEF Entry
<1>8. Serving(pc) /\ pc \in Steps
  BY <1>1, <1>3, <1>7 DEF Serving, Steps
<1>9. /\ FileTypeOK' /\ VersionsApart' /\ Fresh200' /\ req'.pc = pc /\ req'.via = req.via
      /\ disk \in seen /\ req.via \in kind.uses /\ answer' = answer /\ answer.status = 0
      /\ UNCHANGED <<kind, disk, written, seen>> /\ Local' = Local
  BY <1>8, ServingStep
<1>10. pc \in {"serve", "answer"} /\ (pc = "answer" <=> req.pc = "retag")
  BY <1>1
<1> HIDE DEF pc
<1>11. UnderWay' /\ TimeNoted' /\ ImageKept'
  BY <1>1, <1>2, <1>7, <1>9, <1>10 DEF UnderWay, TimeNoted, ImageKept
<1>12. RamKept'
  <2> SUFFICES ASSUME entry.ram PROVE RamKept'
    BY <1>7 DEF RamKept
  <2>1. PICK x \in Contents : RamHolds(x)
    BY <1>4
  <2>2. c = x
    BY <2>1 DEF c, RamHolds, Plain
  <2>3. RamHolds(x)'
    BY <1>1, <1>7, <1>9, <1>10, <2>1, <2>2 DEF RamHolds
  <2> QED
    BY <2>3 DEF RamKept
<1>13. DiskKept'
  <2> SUFFICES ASSUME ~entry.ram, "send" \in kind.uses PROVE DiskKept'
    BY <1>7, <1>9 DEF DiskKept
  <2>1. c = disk.content
    BY DEF c
  <2>2. req.pc = "retag" /\ (entry.time = disk.time \/ seen = {disk}) =>
          entry.len = Size[disk.content]
    BY <1>1 DEF FileInv, DiskKept
  <2>3. CASE pc = "serve"
    BY <1>7, <1>9, <2>1, <2>3 DEF DiskKept
  <2>4. CASE pc = "answer"
    <3>1. entry.time = disk.time => NotedVersion'
      BY <1>1, <1>7, <1>9, <1>10, <2>1, <2>2, <2>4 DEF NotedVersion
    <3> QED
      BY <1>7, <1>9, <1>10, <2>1, <2>2, <2>4, <3>1 DEF DiskKept
  <2> QED
    BY <1>10, <2>3, <2>4
<1>14. RenderKept'
  <2> SUFFICES ASSUME ~entry.ram, req.via = "render", req.pc = "retag" PROVE FALSE
    BY <1>1, <1>7, <1>9, <1>10 DEF RenderKept
  <2> QED
    BY <1>1 DEF FileInv, UnderWay
<1>15. TimeSeen'
  BY <1>1, <1>7, <1>9, <1>10 DEF FileInv, TimeSeen
<1> QED
  BY <1>9, <1>11, <1>12, <1>13, <1>14, <1>15 DEF FileInv

---------------------------------------------------------------------------
(* Serving.                                                                *)

(* prepare_file_content(): the file is compared with the disk, read or     *)
(* unpacked.                                                               *)
LEMMA PrepareStep ==
    ASSUME FileInv, prepare_file_content
    PROVE  FileInv'
<1>1. /\ req.pc = "serve" /\ entry \in Entry /\ disk \in Version
      /\ FileTypeOK /\ disk \in written /\ disk \in seen /\ req.via \in kind.uses
      /\ UNCHANGED <<cacheVars, answer>>
  BY DEF prepare_file_content, FileInv, UnderWay, FileTypeOK, VersionsApart
<1>2. Local => entry.time \in Times /\ entry.time <= disk.time
  BY <1>1 DEF FileInv, TimeNoted
<1>3. CASE Local /\ (entry.ram \/ req.via = "send")
  <2>1. GoTo("check") /\ entry' = entry
    BY <1>3 DEF prepare_file_content, Local
  <2>2. Serving("check") /\ "check" \in Steps
    BY <1>1, <2>1 DEF Serving, Steps
  <2>3. /\ FileTypeOK' /\ VersionsApart' /\ Fresh200' /\ req'.pc = "check" /\ req'.via = req.via
        /\ disk \in seen /\ req.via \in kind.uses /\ answer' = answer /\ answer.status = 0
        /\ UNCHANGED <<kind, disk, written, seen>> /\ Local' = Local
    BY <2>2, ServingStep
  <2>4. UnderWay' /\ TimeNoted' /\ TimeSeen' /\ ImageKept'
    BY <1>1, <1>2, <1>3, <2>1, <2>3 DEF UnderWay, TimeNoted, TimeSeen, ImageKept, Local
  <2>5. RamKept'
    <3> SUFFICES ASSUME entry.ram PROVE \E c \in Contents : RamHolds(c)'
      BY <2>1 DEF RamKept
    <3>1. PICK c \in Contents : RamHolds(c)
      BY <1>1, <1>3 DEF FileInv, RamKept
    <3>2. RamHolds(c)'
      BY <1>1, <2>1, <2>3, <3>1 DEF RamHolds
    <3> QED
      BY <3>2
  <2>6. DiskKept' /\ RenderKept'
    BY <1>1, <1>3, <2>1, <2>3 DEF FileInv, DiskKept, RenderKept, NotedVersion
  <2> QED
    BY <2>3, <2>4, <2>5, <2>6 DEF FileInv
<1>4. CASE Local /\ ~(entry.ram \/ req.via = "send")
  <2>1. req.via = "render"
    BY <1>4 DEF FileInv, FileTypeOK, Fetch
  <2>2. GoTo("answer") /\ entry' = local_file_system_read_content(entry)
    BY <1>4, <2>1 DEF prepare_file_content, Local
  <2>3. /\ entry' \in Entry /\ entry'.data = Plain(disk.content) /\ entry'.ram = entry.ram
        /\ entry'.time = entry.time
    BY <1>1, <2>2, ContentRead
  <2>4. Serving("answer") /\ "answer" \in Steps
    BY <1>1, <2>2, <2>3 DEF Serving, Steps
  <2>5. /\ FileTypeOK' /\ VersionsApart' /\ Fresh200' /\ req'.pc = "answer" /\ req'.via = req.via
        /\ disk \in seen /\ req.via \in kind.uses /\ answer' = answer /\ answer.status = 0
        /\ UNCHANGED <<kind, disk, written, seen>> /\ Local' = Local
    BY <2>4, ServingStep
  <2>6. "send" \notin kind.uses
    BY <1>1, <1>4, <2>1, KindOf
  <2>7. UnderWay' /\ TimeNoted' /\ TimeSeen' /\ ImageKept'
    BY <1>1, <1>2, <1>4, <2>3, <2>5 DEF UnderWay, TimeNoted, TimeSeen, ImageKept, Local
  <2>8. RamKept' /\ DiskKept' /\ RenderKept'
    BY <1>4, <2>3, <2>5, <2>6 DEF RamKept, DiskKept, RenderKept
  <2> QED
    BY <2>5, <2>7, <2>8 DEF FileInv
<1>5. CASE kind.fs = "binary"
  <2> DEFINE unpack == req.via = "render" /\ kind.packed
  <2>1. /\ entry' = IF unpack THEN [entry EXCEPT !.data = Plain(@.content), !.len = Size[entry.data.content]]
                    ELSE entry
        /\ GoTo("answer") /\ ~Local
    BY <1>5 DEF prepare_file_content, Local
  <2>2. /\ entry.ram /\ entry.etag = EtagOf(disk.content, Size[disk.content]) /\ entry.time = NoValue
        /\ entry.data = [content |-> disk.content, packed |-> kind.packed]
        /\ entry.len = IF kind.packed THEN PackedSize ELSE Size[disk.content]
    BY <1>1, <1>5, KindOf DEF FileInv, ImageKept
  <2>3. disk.content \in Contents /\ Size[disk.content] \in Nat /\ kind.packed \in BOOLEAN
    BY <1>1, VersionIs, SizeIsNat, KindOf
  <2>4. entry.data \in Data /\ entry.data.content = disk.content
    BY <2>2, <2>3 DEF Data
  <2>5. /\ entry' \in Entry /\ entry'.ram /\ entry'.etag = entry.etag /\ entry'.time = entry.time
        /\ entry'.data = [content |-> disk.content, packed |-> kind.packed /\ ~unpack]
        /\ entry'.len = IF kind.packed /\ ~unpack THEN PackedSize ELSE Size[disk.content]
    <3>1. CASE unpack
      <4>1. entry' = [entry EXCEPT !.data = [content |-> disk.content, packed |-> FALSE],
                                   !.len = Size[disk.content]]
        BY <1>1, <2>1, <2>2, <2>4, <3>1 DEF Entry, Plain
      <4>2. [content |-> disk.content, packed |-> FALSE] \in Data
        BY <2>3 DEF Data
      <4>3. /\ entry' \in Entry /\ entry'.ram = entry.ram /\ entry'.etag = entry.etag
            /\ entry'.time = entry.time
            /\ entry'.data = [content |-> disk.content, packed |-> FALSE]
            /\ entry'.len = Size[disk.content]
        BY <1>1, <2>3, <4>1, <4>2 DEF Entry
      <4> QED
        BY <2>2, <3>1, <4>3
    <3>2. CASE ~unpack
      <4>1. entry' = entry /\ kind.packed = (kind.packed /\ ~unpack)
        BY <2>1, <2>3, <3>2
      <4> QED
        BY <1>1, <2>2, <4>1
    <3> QED
      BY <3>1, <3>2
  <2>6. Serving("answer") /\ "answer" \in Steps
    BY <1>1, <2>1, <2>5 DEF Serving, Steps
  <2>7. /\ FileTypeOK' /\ VersionsApart' /\ Fresh200' /\ req'.pc = "answer" /\ req'.via = req.via
        /\ disk \in seen /\ req.via \in kind.uses /\ answer' = answer /\ answer.status = 0
        /\ UNCHANGED <<kind, disk, written, seen>> /\ Local' = Local
    BY <2>6, ServingStep
  <2>8. UnderWay' /\ TimeNoted' /\ TimeSeen' /\ RamKept' /\ DiskKept' /\ RenderKept'
    BY <1>1, <2>1, <2>5, <2>7 DEF UnderWay, TimeNoted, TimeSeen, RamKept, DiskKept, RenderKept
  <2>9. ImageKept'
    <3>1. (kind.packed /\ ~unpack) = (kind.packed /\ ~(req'.pc = "answer" /\ req'.via = "render"))
      BY <2>3, <2>7
    <3> HIDE DEF unpack
    <3> QED
      BY <2>2, <2>5, <2>7, <3>1 DEF ImageKept
  <2> QED
    BY <2>7, <2>8, <2>9 DEF FileInv
<1> QED
  BY <1>1, <1>3, <1>4, <1>5, KindOf DEF Local

(* local_file_system_check_file_modified(): a file that has the time and   *)
(* the length noted is the one that was read.                              *)
LEMMA UnmodifiedRam ==
    ASSUME FileInv, Local, entry \in Entry, entry.ram, ~FileModified, NEW c \in Contents, RamHolds(c)
    PROVE  c = disk.content
<1>1. entry.time = disk.time /\ entry.len = Size[disk.content]
  BY DEF FileModified
<1>2. [content |-> c, time |-> disk.time] \in written /\ Size[c] = Size[disk.content]
  BY <1>1 DEF RamHolds
<1> DEFINE v == [content |-> c, time |-> disk.time]
<1>3. v.content = c /\ v.time = disk.time /\ v \in written
  BY <1>2
<1> HIDE DEF v
<1>4. Size[v.content] = Size[disk.content]
  BY <1>2, <1>3
<1> QED
  BY <1>3, <1>4, SameVersion DEF FileInv

(* The check finds the file as it was, or notes its time (and, for a file  *)
(* that stays on disk, its length).                                        *)
LEMMA CheckStep ==
    ASSUME FileInv, local_file_system_check_file_modified
    PROVE  FileInv'
<1>1. /\ req.pc = "check" /\ Local /\ entry \in Entry /\ disk \in Version
      /\ FileTypeOK /\ disk \in written /\ disk \in seen /\ req.via \in kind.uses
      /\ (entry.ram \/ req.via = "send") /\ kind.fs # "binary" /\ UNCHANGED <<cacheVars, answer>>
  BY DEF local_file_system_check_file_modified, FileInv, UnderWay, FileTypeOK, VersionsApart, Local
<1>2. entry.time \in Times /\ entry.time <= disk.time
  BY <1>1 DEF FileInv, TimeNoted
<1>3. /\ disk.content \in Contents /\ Size[disk.content] \in Nat
      /\ disk.time \in Times /\ disk.time \in Nat
  BY <1>1, VersionIs, SizeIsNat
<1>4. CASE ~FileModified
  <2>1. GoTo("answer") /\ entry' = entry
    BY <1>4 DEF local_file_system_check_file_modified
  <2>2. Serving("answer") /\ "answer" \in Steps
    BY <1>1, <2>1 DEF Serving, Steps
  <2>3. /\ FileTypeOK' /\ VersionsApart' /\ Fresh200' /\ req'.pc = "answer" /\ req'.via = req.via
        /\ disk \in seen /\ req.via \in kind.uses /\ answer' = answer /\ answer.status = 0
        /\ UNCHANGED <<kind, disk, written, seen>> /\ Local' = Local
    BY <2>2, ServingStep
  <2>4. UnderWay' /\ TimeNoted' /\ ImageKept' /\ RenderKept'
    BY <1>1, <1>2, <2>1, <2>3 DEF UnderWay, TimeNoted, ImageKept, RenderKept
  <2>5. RamKept'
    <3> SUFFICES ASSUME entry.ram PROVE \E c \in Contents : RamHolds(c)'
      BY <2>1 DEF RamKept
    <3>1. PICK c \in Contents : RamHolds(c)
      BY <1>1 DEF FileInv, RamKept
    <3>2. c = disk.content
      BY <1>1, <1>4, <3>1, UnmodifiedRam
    <3>3. RamHolds(c)'
      BY <1>1, <2>1, <2>3, <3>1, <3>2 DEF RamHolds
    <3> QED
      BY <3>3
  <2>6. DiskKept'
    <3> SUFFICES ASSUME ~entry.ram, "send" \in kind.uses PROVE DiskKept'
      BY <2>1, <2>3 DEF DiskKept
    <3>1. entry.time = disk.time /\ entry.len = Size[disk.content]
      BY <1>4 DEF FileModified
    <3>2. NotedVersion \/ entry.etag = EtagOf(disk.content, entry.len)
      BY <1>1, <3>1 DEF FileInv, DiskKept
    <3>3. NotedVersion => entry.etag = EtagOf(disk.content, Size[disk.content])
      <4> SUFFICES ASSUME NotedVersion PROVE entry.etag = EtagOf(disk.content, Size[disk.content])
        OBVIOUS
      <4>1. PICK v \in written : /\ v.time = disk.time /\ entry.len = Size[v.content]
                                 /\ entry.etag = EtagOf(v.content, Size[v.content])
        BY DEF NotedVersion
      <4>2. v.content = disk.content
        BY <1>1, <3>1, <4>1, SameVersion DEF FileInv
      <4> QED
        BY <4>1, <4>2
    <3>4. entry.etag = EtagOf(disk.content, Size[disk.content])
      BY <3>1, <3>2, <3>3
    <3>5. NotedVersion'
      BY <1>1, <2>1, <2>3, <3>1, <3>4 DEF NotedVersion
    <3> QED
      BY <2>1, <2>3, <3>1, <3>4, <3>5 DEF DiskKept
  <2>7. TimeSeen'
    <3>1. entry.time = disk.time
      BY <1>4 DEF FileModified
    <3> QED
      BY <1>1, <2>1, <2>3, <3>1 DEF TimeSeen
  <2> QED
    BY <2>3, <2>4, <2>5, <2>6, <2>7 DEF FileInv
<1>5. CASE FileModified /\ ~entry.ram
  <2>1. /\ entry' = [entry EXCEPT !.time = disk.time, !.len = Size[disk.content]]
        /\ GoTo("retag")
    BY <1>5 DEF local_file_system_check_file_modified
  <2>2. /\ entry' \in Entry /\ entry'.time = disk.time /\ entry'.len = Size[disk.content]
        /\ entry'.ram = entry.ram
    BY <1>1, <1>3, <2>1 DEF Entry
  <2>3. Serving("retag") /\ "retag" \in Steps
    BY <1>1, <2>1, <2>2 DEF Serving, Steps
  <2>4. /\ FileTypeOK' /\ VersionsApart' /\ Fresh200' /\ req'.pc = "retag" /\ req'.via = req.via
        /\ disk \in seen /\ req.via \in kind.uses /\ answer' = answer /\ answer.status = 0
        /\ UNCHANGED <<kind, disk, written, seen>> /\ Local' = Local
    BY <2>3, ServingStep
  <2>5. UnderWay' /\ TimeNoted' /\ ImageKept' /\ RenderKept' /\ RamKept' /\ DiskKept'
    BY <1>1, <1>3, <1>5, <2>2, <2>4
    DEF UnderWay, TimeNoted, ImageKept, RenderKept, RamKept, DiskKept
  <2>6. TimeSeen'
    BY <2>2, <2>4 DEF TimeSeen
  <2> QED
    BY <2>4, <2>5, <2>6 DEF FileInv
<1>6. CASE FileModified /\ entry.ram
  <2>1. entry' = [entry EXCEPT !.time = disk.time] /\ GoTo("reload")
    BY <1>6 DEF local_file_system_check_file_modified
  <2>2. entry' \in Entry /\ entry'.time = disk.time /\ entry'.ram = entry.ram
    BY <1>1, <1>3, <2>1 DEF Entry
  <2>3. Serving("reload") /\ "reload" \in Steps
    BY <1>1, <2>1, <2>2 DEF Serving, Steps
  <2>4. /\ FileTypeOK' /\ VersionsApart' /\ Fresh200' /\ req'.pc = "reload" /\ req'.via = req.via
        /\ disk \in seen /\ req.via \in kind.uses /\ answer' = answer /\ answer.status = 0
        /\ UNCHANGED <<kind, disk, written, seen>> /\ Local' = Local
    BY <2>3, ServingStep
  <2>5. UnderWay' /\ TimeNoted' /\ ImageKept' /\ RenderKept' /\ RamKept' /\ DiskKept'
    BY <1>1, <1>3, <1>6, <2>2, <2>4
    DEF UnderWay, TimeNoted, ImageKept, RenderKept, RamKept, DiskKept
  <2>6. TimeSeen'
    BY <2>2, <2>4 DEF TimeSeen
  <2> QED
    BY <2>4, <2>5, <2>6 DEF FileInv
<1> QED
  BY <1>4, <1>5, <1>6

(* The content of a modified file is read again.                           *)
LEMMA ReloadStep ==
    ASSUME FileInv, ReloadContent
    PROVE  FileInv'
<1>1. /\ req.pc = "reload" /\ Local /\ entry \in Entry /\ disk \in Version /\ entry.ram
      /\ FileTypeOK /\ disk \in written /\ disk \in seen /\ req.via \in kind.uses
      /\ kind.fs # "binary" /\ UNCHANGED <<cacheVars, answer>>
  BY DEF ReloadContent, FileInv, UnderWay, FileTypeOK, VersionsApart, Local
<1>2. entry.time \in Times /\ entry.time <= disk.time
  BY <1>1 DEF FileInv, TimeNoted
<1>3. entry' = local_file_system_read_content(entry) /\ GoTo("retag")
  BY DEF ReloadContent
<1>4. /\ entry' \in Entry /\ entry'.data = Plain(disk.content) /\ entry'.ram = entry.ram
      /\ entry'.time = entry.time /\ entry'.len = Size[disk.content]
  BY <1>1, <1>3, ContentRead
<1>5. Serving("retag") /\ "retag" \in Steps
  BY <1>1, <1>3, <1>4 DEF Serving, Steps
<1>6. /\ FileTypeOK' /\ VersionsApart' /\ Fresh200' /\ req'.pc = "retag" /\ req'.via = req.via
      /\ disk \in seen /\ req.via \in kind.uses /\ answer' = answer /\ answer.status = 0
      /\ UNCHANGED <<kind, disk, written, seen>> /\ Local' = Local
  BY <1>5, ServingStep
<1>7. UnderWay' /\ TimeNoted' /\ ImageKept' /\ RenderKept' /\ DiskKept'
  BY <1>1, <1>2, <1>4, <1>6 DEF UnderWay, TimeNoted, ImageKept, RenderKept, DiskKept
<1>8. RamKept'
  <2>1. disk.content \in Contents /\ [content |-> disk.content, time |-> disk.time] \in written
    BY <1>1, VersionIs
  <2>2. RamHolds(disk.content)'
    BY <1>1, <1>4, <1>6, <2>1 DEF RamHolds
  <2> QED
    BY <1>6, <2>1, <2>2 DEF RamKept
<1>9. TimeSeen'
  BY <1>1, <1>4, <1>6 DEF FileInv, TimeSeen
<1> QED
  BY <1>6, <1>7, <1>8, <1>9 DEF FileInv

(* What the entry holds when the answer is made.                           *)
LEMMA ReadyRam ==
    ASSUME FileInv, req.pc = "answer", Local, entry.ram
    PROVE  \E v \in seen : /\ entry.data = Plain(v.content) /\ entry.len = Size[v.content]
                           /\ entry.etag = EtagOf(v.content, Size[v.content])
<1>1. entry \in Entry
  BY DEF FileInv, UnderWay
<1>2. PICK c \in Contents : RamHolds(c)
  BY <1>1 DEF FileInv, RamKept
<1> QED
  BY <1>2 DEF RamHolds

(* release_file_content() gives a file of the image back as it was, and    *)
(* does not touch a local file that is in RAM.                             *)
LEMMA Released ==
    ASSUME FileInv, req.pc = "answer", req.via = "render"
    PROVE  LET e == release_file_content(entry)
           IN  /\ e \in Entry /\ e.ram = entry.ram /\ e.time = entry.time /\ e.etag = entry.etag
               /\ Local /\ entry.ram => e = entry
               /\ kind.fs = "binary" =>
                     /\ e.data = [content |-> disk.content, packed |-> kind.packed]
                     /\ e.len = IF kind.packed THEN PackedSize ELSE Size[disk.content]
<1>1. /\ entry \in Entry /\ FileTypeOK /\ disk.content \in Contents /\ Size[disk.content] \in Nat
  BY VersionIs, SizeIsNat DEF FileInv, UnderWay, FileTypeOK
<1>2. kind.fs \in {"local", "binary"} /\ kind.packed \in BOOLEAN
  BY <1>1, KindOf
<1> DEFINE e == release_file_content(entry)
<1>3. CASE ~entry.ram
  <2>1. e = [entry EXCEPT !.data = NoValue]
    BY <1>3 DEF release_file_content
  <2>2. kind.fs # "binary"
    BY <1>3 DEF FileInv, ImageKept
  <2> HIDE DEF e
  <2>3. e \in Entry /\ e.ram = entry.ram /\ e.time = entry.time /\ e.etag = entry.etag
    BY <1>1, <2>1 DEF Entry
  <2> QED
    BY <1>3, <2>2, <2>3 DEF e
<1>4. CASE entry.ram /\ kind.fs = "binary"
  <2>1. entry.data = [content |-> disk.content, packed |-> FALSE] /\ entry.len = Size[disk.content]
    BY <1>4 DEF FileInv, ImageKept
  <2>2. entry.data.content = disk.content
    BY <2>1
  <2>3. CASE kind.packed
    <3>1. e = [entry EXCEPT !.data = [content |-> disk.content, packed |-> TRUE], !.len = PackedSize]
      BY <1>1, <1>4, <2>2, <2>3 DEF release_file_content, Packed, Entry
    <3> HIDE DEF e
    <3>2. [content |-> disk.content, packed |-> TRUE] \in Data /\ PackedSize \in Nat
      BY <1>1 DEF Data, PackedSize
    <3>3. /\ e \in Entry /\ e.ram = entry.ram /\ e.time = entry.time /\ e.etag = entry.etag
          /\ e.data = [content |-> disk.content, packed |-> TRUE] /\ e.len = PackedSize
      BY <1>1, <3>1, <3>2 DEF Entry
    <3>4. kind.packed = TRUE
      BY <1>2, <2>3
    <3> QED
      BY <1>4, <2>3, <3>3, <3>4 DEF e, Local
  <2>4. CASE ~kind.packed
    <3>1. e = entry
      BY <1>4, <2>4 DEF release_file_content
    <3> HIDE DEF e
    <3>2. kind.packed = FALSE
      BY <1>2, <2>4
    <3> QED
      BY <1>1, <1>4, <2>1, <2>4, <3>1, <3>2 DEF e, Local
  <2> QED
    BY <2>3, <2>4
<1>5. CASE entry.ram /\ kind.fs = "local"
  <2>1. e = entry
    BY <1>5 DEF release_file_content
  <2> QED
    BY <1>1, <1>5, <2>1
<1> QED
  BY <1>2, <1>3, <1>4, <1>5

(* What the entry says of the file when the answer is made: its tag and    *)
(* length, and what a write event would read now.                          *)
LEMMA ReadyToSend ==
    ASSUME FileInv, req.pc = "answer", req.via = "send", entry.ram \/ seen = {disk}
    PROVE  \E v \in seen :
              /\ entry.etag = EtagOf(v.content, Size[v.content])
              /\ entry.len = IF kind.packed THEN PackedSize ELSE Size[v.content]
              /\ entry.ram => entry.data = [content |-> v.content, packed |-> kind.packed]
              /\ ~entry.ram => v = disk
<1>1. /\ entry \in Entry /\ disk \in seen /\ FileTypeOK /\ req.via \in kind.uses
  BY DEF FileInv, UnderWay
<1>2. kind.fs \in {"local", "binary"} /\ kind.packed \in BOOLEAN /\ (Local => kind.packed = FALSE)
  BY <1>1, KindOf
<1>3. CASE kind.fs = "binary"
  <2>1. (kind.packed /\ ~(req.pc = "answer" /\ req.via = "render")) = kind.packed
    BY <1>2
  <2>2. /\ entry.data = [content |-> disk.content, packed |-> kind.packed]
        /\ entry.len = IF kind.packed THEN PackedSize ELSE Size[disk.content]
        /\ entry.etag = EtagOf(disk.content, Size[disk.content])
    BY <1>3, <2>1 DEF FileInv, ImageKept
  <2> QED
    BY <1>1, <2>2
<1>4. CASE Local /\ entry.ram
  <2>1. PICK v \in seen : /\ entry.data = Plain(v.content) /\ entry.len = Size[v.content]
                          /\ entry.etag = EtagOf(v.content, Size[v.content])
    BY <1>1, <1>4, ReadyRam
  <2> QED
    BY <1>2, <1>4, <2>1 DEF Plain
<1>5. CASE Local /\ ~entry.ram
  <2>1. /\ entry.len = Size[disk.content]
        /\ entry.etag = EtagOf(disk.content, Size[disk.content])
    BY <1>1, <1>5 DEF FileInv, DiskKept
  <2> QED
    BY <1>1, <1>2, <1>5, <2>1
<1> QED
  BY <1>2, <1>3, <1>4, <1>5 DEF Local

(* The answer shows a version that was there since the request began.      *)
LEMMA AnswerShows ==
    ASSUME FileInv, SendAnswer, entry.ram \/ seen = {disk}, answer'.status \in {200, 304}
    PROVE  \E v \in seen : Shows(answer', v)
<1>1. /\ req.pc = "answer" /\ entry \in Entry /\ disk \in seen /\ FileTypeOK
      /\ req.via \in {"send", "render"} /\ req.via \in kind.uses /\ answer.status = 0
  BY DEF SendAnswer, FileInv, UnderWay, FileTypeOK, Fetch
<1>2. kind.fs \in {"local", "binary"} /\ kind.packed \in BOOLEAN
  BY <1>1, KindOf
<1>3. CASE req.via = "render"
  <2>1. answer' = [status |-> 200, page |-> entry.data]
    BY <1>3 DEF SendAnswer
  <2>2. \E v \in seen : entry.data = Plain(v.content)
    <3>1. CASE kind.fs = "binary"
      <4>1. entry.data = [content |-> disk.content, packed |-> FALSE]
        BY <1>1, <1>3, <3>1 DEF FileInv, ImageKept
      <4> QED
        BY <1>1, <4>1 DEF Plain
    <3>2. CASE Local /\ entry.ram
      BY <1>1, <3>2, ReadyRam
    <3>3. CASE Local /\ ~entry.ram
      BY <1>1, <1>3, <3>3 DEF FileInv, RenderKept
    <3> QED
      BY <1>2, <3>1, <3>2, <3>3 DEF Local
  <2> QED
    BY <2>1, <2>2 DEF Shows
<1>4. CASE req.via = "send" /\ checkCacheHeader
  <2>1. answer' = [status |-> 304, tag |-> req.tag, since |-> req.since]
    BY <1>4 DEF SendAnswer
  <2>2. /\ answer'.status = 304 /\ answer'.tag = req.tag /\ answer'.since = req.since
    BY <2>1
  <2>3. PICK v \in seen : entry.etag = EtagOf(v.content, Size[v.content])
    <3>1. \E v \in seen :
              /\ entry.etag = EtagOf(v.content, Size[v.content])
              /\ entry.len = IF kind.packed THEN PackedSize ELSE Size[v.content]
              /\ entry.ram => entry.data = [content |-> v.content, packed |-> kind.packed]
              /\ ~entry.ram => v = disk
      BY <1>1, <1>4, ReadyToSend
    <3> QED
      BY <3>1
  <2>4. CASE req.tag # NoValue
    <3>1. entry.etag # NoValue => req.tag = entry.etag
      BY <1>4, <2>4 DEF checkCacheHeader
    <3>2. entry.etag # NoValue => Shows(answer', v)
      BY <2>2, <2>3, <2>4, <3>1 DEF Shows, EtagOf
    <3>3. entry.etag # NoValue
      <4>1. v \in Version
        BY <1>1 DEF FileTypeOK
      <4>2. EtagOf(v.content, Size[v.content]) \in Tag
        BY <4>1, VersionIs, SizeIsNat DEF EtagOf, Tag
      <4>3. NoValue \notin Tag
        BY FileConstants DEF Tag
      <4> QED
        BY <2>3, <4>2, <4>3
    <3> QED
      BY <3>2, <3>3
  <2>5. CASE req.tag = NoValue
    <3>1. req.since # NoValue /\ req.since = LastModified
      BY <1>4, <2>5 DEF checkCacheHeader
    <3>2. entry.time # NoValue /\ req.since = entry.time \div MinuteTicks
      BY <3>1 DEF LastModified
    <3>3. Local
      BY <1>2, <3>2 DEF FileInv, ImageKept, Local
    <3>4. PICK w \in seen : w.time = entry.time
      BY <1>1, <1>4, <3>3 DEF FileInv, TimeSeen
    <3> QED
      BY <2>2, <2>5, <3>2, <3>4 DEF Shows
  <2> QED
    BY <2>4, <2>5
<1>5. CASE req.via = "send" /\ ~checkCacheHeader
  BY <1>1, <1>5 DEF SendAnswer
<1> QED
  BY <1>1, <1>3, <1>4, <1>5

(* The end of sendFile() and of sendHTMLFile().                            *)
LEMMA AnswerStep ==
    ASSUME FileInv, SendAnswer
    PROVE  FileInv'
<1>1. /\ req.pc = "answer" /\ entry \in Entry /\ disk \in Version /\ disk \in seen /\ FileTypeOK
      /\ req.via \in {"send", "render"} /\ req.via \in kind.uses /\ req' = NoFetch
      /\ kind.fs \in {"local", "binary"} /\ kind.packed \in BOOLEAN
  BY KindOf DEF SendAnswer, FileInv, UnderWay, FileTypeOK, Fetch
<1>2. UNCHANGED <<kind, disk, written, listed, served, seen>>
  BY DEF SendAnswer, cacheVars
<1>3. answer'.status \in {0, 200, 304}
  <2>1. answer.status = 0
    BY <1>1 DEF FileInv, UnderWay
  <2> QED
    BY <1>1, <2>1 DEF SendAnswer
<1>4. NoFetch \in Fetch /\ NoFetch.pc = "idle"
  BY DEF NoFetch, Fetch
<1>5. /\ entry' \in Entry /\ entry'.ram = entry.ram /\ entry'.time = entry.time
      /\ entry'.etag = entry.etag
      /\ Local /\ (entry.ram \/ req.via = "send") => entry' = entry
      /\ kind.fs = "binary" =>
            /\ entry'.data = [content |-> disk.content, packed |-> kind.packed]
            /\ entry'.len = IF kind.packed THEN PackedSize ELSE Size[disk.content]
  <2>1. CASE req.via = "render"
    <3>1. entry' = release_file_content(entry)
      BY <2>1 DEF SendAnswer
    <3> QED
      BY <1>1, <2>1, <3>1, Released
  <2>2. CASE req.via = "send"
    <3>1. entry' = entry
      BY <2>2 DEF SendAnswer
    <3>2. (kind.packed /\ ~(req.pc = "answer" /\ req.via = "render")) = kind.packed
      BY <1>1, <2>2
    <3>3. kind.fs = "binary" =>
            /\ entry.data = [content |-> disk.content, packed |-> kind.packed]
            /\ entry.len = IF kind.packed THEN PackedSize ELSE Size[disk.content]
      BY <3>2 DEF FileInv, ImageKept
    <3> QED
      BY <1>1, <3>1, <3>3
  <2> QED
    BY <1>1, <2>1, <2>2
<1>6. FileTypeOK' /\ VersionsApart' /\ Local' = Local
  BY <1>1, <1>2, <1>3, <1>4, <1>5 DEF FileInv, FileTypeOK, VersionsApart, Local
<1>7. UnderWay' /\ RenderKept' /\ TimeSeen'
  BY <1>1, <1>2, <1>4, <1>5 DEF UnderWay, RenderKept, TimeSeen
<1>8. TimeNoted'
  BY <1>1, <1>2, <1>5, <1>6 DEF FileInv, TimeNoted
<1>9. RamKept'
  <2> SUFFICES ASSUME Local, entry.ram PROVE \E c \in Contents : RamHolds(c)'
    BY <1>5, <1>6 DEF RamKept
  <2>1. PICK c \in Contents : RamHolds(c)
    BY <1>1 DEF FileInv, RamKept
  <2>2. RamHolds(c)'
    BY <1>1, <1>2, <1>4, <1>5, <2>1 DEF RamHolds
  <2> QED
    BY <2>2
<1>10. DiskKept'
  <2> SUFFICES ASSUME Local, ~entry.ram, "send" \in kind.uses PROVE DiskKept'
    BY <1>2, <1>5, <1>6 DEF DiskKept
  <2>1. req.via = "send"
    BY <1>1, KindOf
  <2>2. entry' = entry
    BY <1>5, <2>1
  <2>3. entry.time = disk.time => NotedVersion
    BY <1>1 DEF FileInv, DiskKept
  <2>4. entry.time = disk.time => NotedVersion'
    BY <1>2, <2>2, <2>3 DEF NotedVersion
  <2> QED
    BY <1>1, <1>2, <1>4, <2>2, <2>4 DEF DiskKept
<1>11. ImageKept'
  <2> SUFFICES ASSUME kind.fs = "binary" PROVE ImageKept'
    BY <1>2 DEF ImageKept
  <2>1. entry.ram /\ entry.etag = EtagOf(disk.content, Size[disk.content]) /\ entry.time = NoValue
    BY DEF FileInv, ImageKept
  <2>2. (kind.packed /\ ~(req'.pc = "answer" /\ req'.via = "render")) = kind.packed
    BY <1>1, <1>4
  <2> QED
    BY <1>1, <1>2, <1>4, <1>5, <2>1, <2>2 DEF ImageKept
<1>12. Fresh200'
  <2>1. /\ answer'.status \in {200, 304} /\ (entry.ram \/ seen = {disk})
        => \E v \in seen : Shows(answer', v)
    BY AnswerShows
  <2>2. \A v : Shows(answer, v)' <=> Shows(answer', v)
    BY <1>2 DEF Shows
  <2> QED
    BY <1>2, <1>5, <2>1, <2>2 DEF Fresh200
<1> QED
  BY <1>6, <1>7, <1>8, <1>9, <1>10, <1>11, <1>12 DEF FileInv

(* getFile(): a request begins; a file that is not in the cache is found   *)
(* on disk.                                                                *)
LEMMA GetStep ==
    ASSUME FileInv, NEW via \in kind.uses, NEW has \in Conditions, getFile(via, has.tag, has.since)
    PROVE  FileInv'
<1>1. /\ req.pc = "idle" /\ disk \in Version /\ FileTypeOK /\ seen' = {disk}
      /\ UNCHANGED <<kind, disk, written, listed>>
      /\ disk.content \in Contents /\ Size[disk.content] \in Nat
  BY VersionIs, SizeIsNat DEF getFile, FileInv, FileTypeOK
<1>2. via \in {"send", "render"} /\ kind.fs \in {"local", "binary"} /\ kind.packed \in BOOLEAN
  BY <1>1, KindOf
<1>3. has.tag \in Tag \cup {NoValue} /\ has.since \in Nat \cup {NoValue}
  BY FileConstants DEF Tag
<1>4. IsFiniteSet(seen') /\ seen' \subseteq Version /\ disk \in seen'
  BY <1>1, FS_Singleton
<1>5. VersionsApart' /\ Local' = Local
  BY <1>1 DEF FileInv, VersionsApart, Local
<1>6. CASE check_blocked_urls
  <2>1. answer' = [status |-> 404] /\ UNCHANGED <<entry, req>>
    BY <1>6 DEF getFile
  <2>2. FileTypeOK'
    BY <1>1, <1>4, <2>1 DEF FileTypeOK
  <2>3. UnderWay' /\ TimeNoted' /\ TimeSeen' /\ RenderKept' /\ Fresh200'
    BY <1>1, <1>5, <2>1 DEF FileInv, UnderWay, TimeNoted, TimeSeen, RenderKept, Fresh200
  <2>4. RamKept'
    <3> SUFFICES ASSUME Local, entry \in Entry, entry.ram PROVE \E c \in Contents : RamHolds(c)'
      BY <1>5, <2>1 DEF RamKept
    <3>1. PICK c \in Contents : RamHolds(c)
      BY <1>1 DEF FileInv, RamKept
    <3>2. RamHolds(c)'
      BY <1>1, <2>1, <3>1 DEF RamHolds
    <3> QED
      BY <3>2
  <2>5. DiskKept' /\ ImageKept'
    BY <1>1, <1>5, <2>1 DEF FileInv, DiskKept, NotedVersion, ImageKept
  <2> QED
    BY <1>5, <2>2, <2>3, <2>4, <2>5 DEF FileInv
<1>7. CASE ~check_blocked_urls /\ entry.cached
  <2>1. /\ req' = [pc |-> "serve", via |-> via, tag |-> has.tag, since |-> has.since] /\ answer' = [status |-> 0]
        /\ entry' = entry
    BY <1>7 DEF getFile
  <2>2. entry \in Entry
    BY <1>1, <1>7, CachedEntry
  <2>3. req' \in Fetch /\ req'.pc = "serve" /\ req'.via = via /\ answer'.status = 0
    BY <1>2, <1>3, <2>1 DEF Fetch
  <2>4. FileTypeOK'
    BY <1>1, <1>4, <2>1, <2>3 DEF FileTypeOK
  <2>5. UnderWay' /\ TimeNoted' /\ TimeSeen' /\ RenderKept' /\ Fresh200'
    BY <1>1, <1>4, <1>5, <2>1, <2>2, <2>3 DEF FileInv, UnderWay, TimeNoted, TimeSeen, RenderKept, Fresh200
  <2>6. RamKept'
    <3> SUFFICES ASSUME Local, entry.ram PROVE \E c \in Contents : RamHolds(c)'
      BY <1>5, <2>1 DEF RamKept
    <3>1. PICK c \in Contents : RamHolds(c)
      BY <1>1, <2>2 DEF FileInv, RamKept
    <3>2. RamHolds(c)'
      BY <1>1, <2>1, <2>3, <3>1 DEF RamHolds
    <3> QED
      BY <3>2
  <2>7. DiskKept' /\ ImageKept'
    <3>1. DiskKept'
      BY <1>1, <1>5, <2>1, <2>2, <2>3 DEF FileInv, DiskKept, NotedVersion
    <3>2. (kind.packed /\ ~(req.pc = "answer" /\ req.via = "render"))
             = (kind.packed /\ ~(req'.pc = "answer" /\ req'.via = "render"))
      BY <1>1, <2>3
    <3> QED
      BY <1>1, <2>1, <2>3, <3>1, <3>2 DEF FileInv, ImageKept
  <2> QED
    BY <1>5, <2>4, <2>5, <2>6, <2>7 DEF FileInv
<1>8. CASE ~check_blocked_urls /\ ~entry.cached
  <2>1. /\ req' = [pc |-> "stat", via |-> via, tag |-> has.tag, since |-> has.since] /\ answer' = [status |-> 0]
        /\ entry' = getFileInformation
    BY <1>8 DEF getFile
  <2>2. entry' \in Entry /\ entry'.ram = FALSE
    BY <1>1, <2>1 DEF getFileInformation, Entry
  <2>3. Local
    <3>1. entry \notin Entry
      BY <1>1, <1>8, CachedEntry
    <3> QED
      BY <1>2, <3>1 DEF FileInv, ImageKept, Local
  <2>4. req' \in Fetch /\ req'.pc = "stat" /\ req'.via = via /\ answer'.status = 0
    BY <1>2, <1>3, <2>1 DEF Fetch
  <2>5. FileTypeOK'
    BY <1>1, <1>4, <2>2, <2>4 DEF FileTypeOK
  <2>6. UnderWay' /\ TimeNoted' /\ TimeSeen' /\ RenderKept' /\ Fresh200'
    BY <1>1, <1>4, <1>5, <2>2, <2>3, <2>4 DEF UnderWay, TimeNoted, TimeSeen, RenderKept, Fresh200
  <2>7. RamKept' /\ DiskKept' /\ ImageKept'
    BY <1>1, <2>2, <2>3, <2>4 DEF RamKept, DiskKept, ImageKept, Local
  <2> QED
    BY <1>5, <2>5, <2>6, <2>7 DEF FileInv
<1> QED
  BY <1>6, <1>7, <1>8

---------------------------------------------------------------------------
(* The other process, and the lists.                                       *)

(* A version in the tick of the last one has another length than all of    *)
(* that tick, and during a request there is none; so what was noted of the *)
(* file never describes the new version.                                   *)
LEMMA ReplaceStep ==
    ASSUME FileInv, NEW c \in Contents, NEW t \in Times, ReplaceFile(c, t)
    PROVE  FileInv'
<1>1. /\ Local /\ disk \in Version /\ FileTypeOK /\ disk.time \in Nat /\ t \in Nat
      /\ disk \in written
      /\ t >= disk.time /\ (t = disk.time => req.pc = "idle")
      /\ \A v \in written : v.time = t => v.content = c \/ Size[v.content] # Size[c]
      /\ disk' # disk /\ written' = written \cup {disk'} /\ seen' = seen \cup {disk'}
      /\ UNCHANGED <<kind, listed, entry, req, answer, served>>
  BY VersionIs, FileConstants DEF ReplaceFile, FileInv, FileTypeOK, VersionsApart, Local
<1>2. disk' \in Version /\ disk'.content = c /\ disk'.time = t
  BY DEF ReplaceFile, Version
<1>3. Local' = Local /\ kind.fs # "binary"
  BY <1>1 DEF Local
<1>4. FileTypeOK'
  <2>1. IsFiniteSet(seen')
    BY <1>1, FS_AddElement DEF FileTypeOK
  <2> QED
    BY <1>1, <1>2, <2>1 DEF FileTypeOK
<1>5. VersionsApart'
  <2>1. disk' \in written'
    BY <1>1
  <2>2. ASSUME NEW v \in written', NEW w \in written', v.time = w.time
        PROVE  v.content = w.content \/ Size[v.content] # Size[w.content]
    <3>1. CASE v \in written /\ w \in written
      BY <2>2, <3>1 DEF FileInv, VersionsApart
    <3>2. CASE v = disk' \/ w = disk'
      BY <1>1, <1>2, <2>2, <3>2
    <3> QED
      BY <1>1, <3>1, <3>2
  <2> QED
    BY <2>1, <2>2 DEF VersionsApart
<1>6. UnderWay'
  BY <1>1, <1>3 DEF FileInv, UnderWay
<1>7. entry \in Entry /\ req.pc # "stat" => entry.time \in Nat /\ entry.time <= disk.time
  BY <1>1, FileConstants DEF FileInv, TimeNoted
<1>8. TimeNoted'
  BY <1>1, <1>2, <1>3, <1>7 DEF FileInv, TimeNoted
<1>9. entry \in Entry /\ req.pc # "stat" /\ entry.time = t => t = disk.time /\ req.pc = "idle"
  BY <1>1, <1>7
<1>10. RamKept'
  <2> SUFFICES ASSUME entry \in Entry, entry.ram, req.pc # "reload"
               PROVE  \E x \in Contents : RamHolds(x)'
    BY <1>1 DEF RamKept
  <2>1. PICK x \in Contents : RamHolds(x)
    BY <1>1 DEF FileInv, RamKept
  <2>2. req.pc # "stat"
    BY DEF FileInv, UnderWay
  <2>3. entry.time = disk'.time => [content |-> x, time |-> disk'.time] \in written'
    BY <1>1, <1>2, <1>9, <2>1, <2>2 DEF RamHolds
  <2>4. RamHolds(x)'
    BY <1>1, <2>1, <2>3 DEF RamHolds
  <2> QED
    BY <2>4
<1>11. seen' # {disk'} \/ disk \notin seen
  BY <1>1
<1>12. DiskKept'
  <2> SUFFICES ASSUME entry \in Entry, ~entry.ram, "send" \in kind.uses PROVE DiskKept'
    BY <1>1 DEF DiskKept
  <2>1. ASSUME req.pc \in {"idle", "serve", "check", "answer"}, entry.time = disk'.time
        PROVE  NotedVersion'
    <3>1. t = disk.time /\ req.pc = "idle"
      BY <1>2, <1>9, <2>1
    <3>2. NotedVersion
      BY <1>1, <1>2, <2>1, <3>1 DEF FileInv, DiskKept
    <3> QED
      BY <1>1, <1>2, <3>1, <3>2 DEF NotedVersion
  <2>2. req.pc \in {"retag", "answer"} => seen' # {disk'}
    BY <1>11 DEF FileInv, UnderWay
  <2>3. req.pc = "retag" => entry.time # disk'.time
    BY <1>2, <1>9
  <2> QED
    BY <1>1, <2>1, <2>2, <2>3 DEF DiskKept
<1>13. RenderKept' /\ ImageKept' /\ TimeSeen'
  BY <1>1, <1>3 DEF FileInv, RenderKept, ImageKept, TimeSeen
<1>14. Fresh200'
  <2>1. answer.status \in {200, 304} => seen' # {disk'}
    BY <1>11 DEF FileInv, UnderWay
  <2>2. \A v : Shows(answer, v)' <=> Shows(answer, v)
    BY <1>1 DEF Shows
  <2> QED
    BY <1>1, <2>1, <2>2 DEF FileInv, Fresh200
<1> QED
  BY <1>4, <1>5, <1>6, <1>8, <1>10, <1>12, <1>13, <1>14 DEF FileInv

(* What leaves the file, the entry and the request alone.                  *)
LEMMA FileSame ==
    ASSUME FileInv, UNCHANGED <<kind, disk, written, entry, req, seen, answer>>
    PROVE  FileInv'
<1>1. \A x : RamHolds(x)' <=> RamHolds(x)
  BY DEF RamHolds
<1>2. \A v : Shows(answer, v)' <=> Shows(answer, v)
  BY DEF Shows
<1>3. FileTypeOK' /\ VersionsApart' /\ UnderWay' /\ TimeNoted' /\ TimeSeen'
  BY DEF FileInv, FileTypeOK, VersionsApart, UnderWay, TimeNoted, TimeSeen, Local
<1>4. RamKept'
  BY <1>1 DEF FileInv, RamKept, Local
<1>5. DiskKept' /\ RenderKept' /\ ImageKept'
  BY DEF FileInv, DiskKept, NotedVersion, RenderKept, ImageKept, Local
<1>6. Fresh200'
  BY <1>2 DEF FileInv, Fresh200
<1> QED
  BY <1>3, <1>4, <1>5, <1>6 DEF FileInv

---------------------------------------------------------------------------
(* The invariant holds.                                                    *)

(* initFileCache(): the files of the image are in the cache, no other.     *)
LEMMA FileInit == fileInit => FileInv
<1> SUFFICES ASSUME fileInit PROVE FileInv
  OBVIOUS
<1>1. /\ kind \in FileKinds /\ written = {disk} /\ seen = {} /\ req = NoFetch
      /\ answer = [status |-> 0]
      /\ entry = IF kind.fs = "binary" THEN read_file(kind, disk.content) ELSE NoEntry
  BY DEF fileInit
<1>2. disk \in Version
  <2>1. (CHOOSE c \in Contents : TRUE) \in Contents
    BY FileConstants
  <2>2. (CHOOSE t \in Times : TRUE) \in Times
    BY FileConstants
  <2> QED
    BY <2>1, <2>2 DEF fileInit, Version
<1>3. disk.content \in Contents /\ Size[disk.content] \in Nat
  BY <1>2, VersionIs, SizeIsNat
<1>4. NoFetch \in Fetch /\ NoFetch.pc = "idle"
  BY DEF NoFetch, Fetch
<1>5. kind \in [fs : {"local", "binary"}, use_ram_cache : BOOLEAN, html : BOOLEAN,
                packed : BOOLEAN, uses : SUBSET {"send", "render"}]
  BY <1>1, FileConstants
<1>6. kind.fs \in {"local", "binary"} /\ kind.packed \in BOOLEAN
  BY <1>5
<1>7. kind.fs = "binary" =>
        /\ entry \in Entry /\ entry.ram = TRUE
        /\ entry.data = [content |-> disk.content, packed |-> kind.packed]
        /\ entry.len = (IF kind.packed THEN PackedSize ELSE Size[disk.content])
        /\ entry.etag = EtagOf(disk.content, Size[disk.content]) /\ entry.time = NoValue
  <2> SUFFICES ASSUME kind.fs = "binary"
               PROVE  /\ entry \in Entry /\ entry.ram = TRUE
                      /\ entry.data = [content |-> disk.content, packed |-> kind.packed]
                      /\ entry.len = (IF kind.packed THEN PackedSize ELSE Size[disk.content])
                      /\ entry.etag = EtagOf(disk.content, Size[disk.content])
                      /\ entry.time = NoValue
    OBVIOUS
  <2> DEFINE data == [content |-> disk.content, packed |-> kind.packed]
             len == IF kind.packed THEN PackedSize ELSE Size[disk.content]
             etag == EtagOf(disk.content, Size[disk.content])
  <2>1. data = IF kind.packed THEN Packed(disk.content) ELSE Plain(disk.content)
    BY <1>6 DEF Packed, Plain
  <2>2. entry = [cached |-> TRUE, ram |-> TRUE, time |-> NoValue, etag |-> etag,
                 data |-> data, len |-> len]
    BY <1>1, <2>1 DEF read_file
  <2>3. data \in Data /\ len \in Nat /\ etag \in Tag
    BY <1>3, <1>6 DEF Data, Tag, EtagOf, PackedSize
  <2> HIDE DEF data, len, etag
  <2>4. /\ entry \in Entry /\ entry.ram = TRUE /\ entry.data = data /\ entry.len = len /\ entry.etag = etag
        /\ entry.time = NoValue
    BY <2>2, <2>3 DEF Entry
  <2> QED
    BY <2>4 DEF data, len, etag
<1>8. kind.fs = "local" => entry = NoEntry
  BY <1>1
<1>9. FileTypeOK
  <2>1. IsFiniteSet(seen)
    BY <1>1, FS_EmptySet
  <2> QED
    BY <1>1, <1>2, <1>4, <1>6, <1>7, <1>8, <2>1 DEF FileTypeOK
<1>10. Local => entry \notin Entry
  BY <1>8, <1>9, CachedEntry DEF Local, NoEntry
<1>11. VersionsApart /\ UnderWay /\ Fresh200
  BY <1>1, <1>4 DEF VersionsApart, UnderWay, Fresh200
<1>12. TimeNoted /\ TimeSeen /\ RamKept /\ DiskKept /\ RenderKept
  BY <1>1, <1>4, <1>10 DEF TimeNoted, TimeSeen, RamKept, DiskKept, RenderKept
<1>13. ImageKept
  <2>1. (kind.packed /\ ~(req.pc = "answer" /\ req.via = "render")) = kind.packed
    BY <1>1, <1>4, <1>6
  <2> QED
    BY <1>1, <1>4, <1>7, <2>1 DEF ImageKept
<1> QED
  BY <1>9, <1>11, <1>12, <1>13 DEF FileInv

(* Every system call of the server and every change by the other process   *)
(* keeps the invariant.                                                    *)
LEMMA FileStep == FileInv /\ [fileNext]_fileVars => FileInv'
<1> SUFFICES ASSUME FileInv, [fileNext]_fileVars PROVE FileInv'
  OBVIOUS
<1>1. ASSUME NEW c \in Contents, NEW t \in Times, ReplaceFile(c, t) PROVE FileInv'
  BY <1>1, ReplaceStep
<1>2. CASE WebserverAddBlockedFile
  BY <1>2, FileSame DEF WebserverAddBlockedFile
<1>3. CASE WebserverAddNoRamCacheFile
  BY <1>3, FileSame DEF WebserverAddNoRamCacheFile
<1>4. ASSUME NEW via \in kind.uses, NEW has \in Conditions, getFile(via, has.tag, has.since) PROVE FileInv'
  BY <1>4, GetStep
<1>5. CASE PlatformGetFileInfo
  BY <1>5, StatStep
<1>6. CASE ramCacheFile
  BY <1>6, LoadStep
<1>7. CASE generateEtag
  BY <1>7, TagStep
<1>8. CASE prepare_file_content
  BY <1>8, PrepareStep
<1>9. CASE local_file_system_check_file_modified
  BY <1>9, CheckStep
<1>10. CASE ReloadContent
  BY <1>10, ReloadStep
<1>11. CASE SendAnswer
  BY <1>11, AnswerStep
<1>12. ASSUME NEW b, NEW n, handleClientWriteData(b, n) PROVE FileInv'
  BY <1>12, FileSame DEF handleClientWriteData
<1>13. ASSUME NEW b, SendFails(b) PROVE FileInv'
  BY <1>13, FileSame DEF SendFails
<1>14. CASE UNCHANGED fileVars
  BY <1>14, FileSame DEF fileVars
<1> QED
  BY <1>1, <1>2, <1>3, <1>4, <1>5, <1>6, <1>7, <1>8, <1>9, <1>10, <1>11, <1>12, <1>13, <1>14 DEF fileNext

(* The invariant of the file cache: whenever another process replaces the  *)
(* file, what the cache noted of it with stat() describes the content it   *)
(* read, unless the file has moved on by its time.                         *)
THEOREM FileHolds == fileSpec => []FileInv
<1>1. fileInit => FileInv
  BY FileInit
<1>2. FileInv /\ [fileNext]_fileVars => FileInv'
  BY FileStep
<1> QED
  BY <1>1, <1>2, PTL DEF fileSpec

---------------------------------------------------------------------------
(* Bodies.                                                                 *)

BodyRec == [len : Nat, etag : Tag \cup {NoValue}, pos : Nat, parts : SUBSET (Data \cup {NoValue}),
            seen : SUBSET Version, noted : BOOLEAN]

BodyTypeOK ==
    /\ sending \subseteq BodyRec /\ received \in BodyRec \cup {NoValue}
    /\ \A b \in sending : IsFiniteSet(b.seen) /\ disk \in b.seen

(* There is a body only of a file that is loaded and sent as it is.        *)
SentFile ==
    sending # {} \/ received # NoValue =>
       entry \in Entry /\ "send" \in kind.uses /\ req.pc \notin {"stat", "load", "newtag"}

(* A body on its way has the header of one version, what is sent of it is  *)
(* of that version and not all of it, and the entry still holds it.        *)
HeaderOf(b, v) ==
    /\ b.etag = EtagOf(v.content, Size[v.content])
    /\ b.len = IF kind.packed THEN PackedSize ELSE Size[v.content]
    /\ b.parts \subseteq {[content |-> v.content, packed |-> kind.packed]}
    /\ b.pos < b.len

StillThere(v) ==
    /\ Local => entry.len = Size[v.content]
    /\ Local /\ entry.ram => entry.data = Plain(v.content)
    /\ ~Local \/ ~entry.ram => v = disk

OnItsWay(b) ==
    ~b.noted /\ (entry.ram \/ b.seen = {disk}) => \E v \in b.seen : HeaderOf(b, v) /\ StillThere(v)

(* The bodies of AnswersFresh.                                             *)
BodyArrived ==
    received # NoValue /\ ~received.noted /\ (entry.ram \/ Cardinality(received.seen) = 1)
       => \E v \in received.seen : Carries(received, v)

BodyInv ==
    /\ BodyTypeOK /\ SentFile /\ BodyArrived
    /\ \A b \in sending : OnItsWay(b)

(* What a step leaves alone when it does not load, reload or replace.      *)
BodiesLeft ==
    /\ UNCHANGED <<kind, disk, sending, received>>
    /\ sending # {} \/ received # NoValue =>
          /\ entry' \in Entry /\ entry'.ram = entry.ram
          /\ req'.pc \notin {"stat", "load", "newtag"}
          /\ Local => entry'.data = entry.data /\ entry'.len = entry.len

LEMMA BodySame ==
    ASSUME BodyInv, BodiesLeft
    PROVE  BodyInv'
<1>1. UNCHANGED <<kind, disk, sending, received>> /\ Local' = Local
  BY DEF BodiesLeft, Local
<1>2. BodyTypeOK' /\ SentFile'
  BY <1>1 DEF BodyInv, BodyTypeOK, SentFile, BodiesLeft
<1>3. BodyArrived'
  <2>1. received # NoValue => entry'.ram = entry.ram
    BY DEF BodiesLeft
  <2>2. \A v : Carries(received, v)' <=> Carries(received, v)
    BY <1>1 DEF Carries
  <2> QED
    BY <1>1, <2>1, <2>2 DEF BodyInv, BodyArrived
<1>4. ASSUME NEW b \in sending PROVE OnItsWay(b)'
  <2>1. entry'.ram = entry.ram /\ (Local => entry'.data = entry.data /\ entry'.len = entry.len)
    BY DEF BodiesLeft
  <2>2. \A v : (StillThere(v)' <=> StillThere(v)) /\ (HeaderOf(b, v)' <=> HeaderOf(b, v))
    BY <1>1, <2>1 DEF StillThere, HeaderOf
  <2>3. OnItsWay(b)
    BY DEF BodyInv
  <2> QED
    BY <1>1, <2>1, <2>2, <2>3 DEF OnItsWay
<1> QED
  BY <1>1, <1>2, <1>3, <1>4 DEF BodyInv

(* A change that is noted.                                                 *)
LEMMA BodiesNoted ==
    ASSUME BodyInv, sending' = ChangeNoted(sending), UNCHANGED <<kind, disk, received>>,
           entry' \in Entry, entry'.ram = entry.ram, req'.pc \notin {"stat", "load", "newtag"}
    PROVE  BodyInv'
<1>1. ASSUME NEW b \in sending'
      PROVE  /\ b \in BodyRec /\ b.noted = TRUE /\ IsFiniteSet(b.seen) /\ disk \in b.seen
             /\ sending # {}
  <2>1. PICK x \in sending : b = [x EXCEPT !.noted = TRUE]
    BY DEF ChangeNoted
  <2>2. x \in BodyRec /\ IsFiniteSet(x.seen) /\ disk \in x.seen
    BY DEF BodyInv, BodyTypeOK
  <2>3. b \in BodyRec /\ b.noted = TRUE /\ b.seen = x.seen
    BY <2>1, <2>2 DEF BodyRec
  <2> QED
    BY <2>2, <2>3
<1>2. BodyTypeOK' /\ SentFile'
  BY <1>1 DEF BodyInv, BodyTypeOK, SentFile
<1>3. BodyArrived'
  <2>1. \A v : Carries(received, v)' <=> Carries(received, v)
    BY DEF Carries
  <2> QED
    BY <2>1 DEF BodyInv, BodyArrived
<1>4. \A b \in sending' : OnItsWay(b)'
  BY <1>1 DEF OnItsWay
<1> QED
  BY <1>2, <1>3, <1>4 DEF BodyInv

(* The steps of a request up to its answer.                                *)
LEMMA BodyServing ==
    ASSUME FileInv, BodyInv,
           \/ PlatformGetFileInfo \/ ramCacheFile \/ generateEtag \/ prepare_file_content
           \/ local_file_system_check_file_modified \/ ReloadContent
    PROVE  BodyInv'
<1>1. /\ UNCHANGED <<kind, disk, received>> /\ FileTypeOK
  BY DEF PlatformGetFileInfo, ramCacheFile, generateEtag, prepare_file_content,
         local_file_system_check_file_modified, ReloadContent, cacheVars, FileInv
<1>2. req.pc # "idle" => entry \in Entry /\ req \in Fetch /\ req.via \in kind.uses
  BY DEF FileInv, UnderWay, FileTypeOK
<1>3. \A pc : req.pc # "idle" /\ GoTo(pc) => req'.pc = pc
  BY <1>2 DEF GoTo, Fetch
<1>4. CASE PlatformGetFileInfo \/ ramCacheFile
  BY <1>1, <1>4, BodySame
  DEF BodiesLeft, BodyInv, SentFile, PlatformGetFileInfo, ramCacheFile
<1>5. CASE generateEtag
  <2>1. req.pc \in {"newtag", "retag"} /\ entry \in Entry /\ UNCHANGED sending
    BY <1>2, <1>5 DEF generateEtag
  <2>2. \E etag : entry' = [entry EXCEPT !.etag = etag]
    BY <1>5 DEF generateEtag
  <2>3. entry'.ram = entry.ram /\ entry'.data = entry.data /\ entry'.len = entry.len
    BY <2>1, <2>2 DEF Entry
  <2>4. req'.pc \in {"serve", "answer"}
    BY <1>3, <1>5, <2>1 DEF generateEtag
  <2>5. entry' \in Entry
    BY <1>5, TagStep, <2>4, <2>1 DEF FileInv, UnderWay
  <2> QED
    BY <1>1, <2>1, <2>3, <2>4, <2>5, BodySame DEF BodiesLeft
<1>6. CASE prepare_file_content
  <2>1. req.pc = "serve" /\ entry \in Entry /\ UNCHANGED sending
    BY <1>2, <1>6 DEF prepare_file_content
  <2>2. req'.pc \in {"check", "answer"}
    BY <1>3, <1>6, <2>1 DEF prepare_file_content
  <2>3. entry' \in Entry
    BY <1>6, PrepareStep, <2>2 DEF FileInv, UnderWay
  <2>4. Local /\ "send" \in kind.uses => UNCHANGED entry
    <3>1. Local /\ "send" \in kind.uses => req.via = "send"
      BY <1>1, <1>2, <2>1, KindOf
    <3> QED
      BY <1>6, <3>1 DEF prepare_file_content, Local
  <2>5. entry'.ram = entry.ram
    BY <1>6, <2>1 DEF prepare_file_content, local_file_system_read_content, Entry
  <2> QED
    BY <1>1, <2>1, <2>2, <2>3, <2>4, <2>5, BodySame DEF BodiesLeft, BodyInv, SentFile
<1>7. CASE local_file_system_check_file_modified
  <2>1. req.pc = "check" /\ entry \in Entry
    BY <1>2, <1>7 DEF local_file_system_check_file_modified
  <2>2. req'.pc \in {"answer", "retag", "reload"}
    BY <1>3, <1>7, <2>1 DEF local_file_system_check_file_modified
  <2>3. entry' \in Entry
    BY <1>7, CheckStep, <2>2 DEF FileInv, UnderWay
  <2>4. CASE FileModified /\ ~entry.ram
    <3>1. /\ entry' = [entry EXCEPT !.time = disk.time, !.len = Size[disk.content]]
          /\ sending' = ChangeNoted(sending)
      BY <1>7, <2>4 DEF local_file_system_check_file_modified
    <3>2. entry'.ram = entry.ram
      BY <2>1, <3>1 DEF Entry
    <3> QED
      BY <1>1, <2>2, <2>3, <3>1, <3>2, BodiesNoted
  <2>5. CASE ~(FileModified /\ ~entry.ram)
    <3>1. UNCHANGED sending
      BY <1>7, <2>5 DEF local_file_system_check_file_modified
    <3>2. entry' = entry \/ entry' = [entry EXCEPT !.time = disk.time]
      BY <1>7, <2>5 DEF local_file_system_check_file_modified
    <3>3. entry'.ram = entry.ram /\ entry'.data = entry.data /\ entry'.len = entry.len
      BY <2>1, <3>2 DEF Entry
    <3> QED
      BY <1>1, <2>2, <2>3, <3>1, <3>3, BodySame DEF BodiesLeft
  <2> QED
    BY <2>4, <2>5
<1>8. CASE ReloadContent
  <2>1. /\ req.pc = "reload" /\ entry \in Entry /\ sending' = ChangeNoted(sending)
        /\ entry' = local_file_system_read_content(entry)
    BY <1>2, <1>8 DEF ReloadContent
  <2>2. req'.pc = "retag"
    BY <1>3, <1>8, <2>1 DEF ReloadContent
  <2>3. entry' \in Entry /\ entry'.ram = entry.ram
    BY <1>1, <2>1, ContentRead
  <2> QED
    BY <1>1, <2>1, <2>2, <2>3, BodiesNoted
<1> QED
  BY <1>4, <1>5, <1>6, <1>7, <1>8

(* sendFile(): the header of a new body is that of a version that was on   *)
(* disk since the request began, and the entry holds that version.         *)
LEMMA BodyQueued ==
    ASSUME FileInv, BodyInv, SendAnswer
    PROVE  BodyInv'
<1>1. /\ req.pc = "answer" /\ entry \in Entry /\ FileTypeOK /\ disk \in seen /\ req' = NoFetch
      /\ req.via \in {"send", "render"} /\ req.via \in kind.uses /\ UNCHANGED <<kind, disk, received>>
  BY DEF SendAnswer, FileInv, UnderWay, FileTypeOK, Fetch, cacheVars
<1>2. req'.pc = "idle"
  BY <1>1 DEF NoFetch
<1>3. CASE req.via = "render"
  <2>1. entry' = release_file_content(entry) /\ UNCHANGED sending
    BY <1>3 DEF SendAnswer
  <2>2. entry' \in Entry /\ entry'.ram = entry.ram /\ (Local /\ entry.ram => entry' = entry)
    BY <1>1, <1>3, <2>1, Released
  <2>3. Local => "send" \notin kind.uses
    BY <1>1, <1>3, KindOf
  <2> QED
    BY <1>1, <1>2, <2>1, <2>2, <2>3, BodySame DEF BodiesLeft, BodyInv, SentFile
<1>4. CASE req.via = "send" /\ checkCacheHeader
  <2>1. UNCHANGED <<entry, sending>>
    BY <1>4 DEF SendAnswer
  <2> QED
    BY <1>1, <1>2, <2>1, BodySame DEF BodiesLeft
<1>5. CASE req.via = "send" /\ ~checkCacheHeader
  <2>0. PICK new : new = Body(entry, seen)
    OBVIOUS
  <2>1. UNCHANGED entry /\ sending' = sending \cup {new}
    BY <1>5, <2>0 DEF SendAnswer
  <2>2. /\ new = [len |-> entry.len, etag |-> entry.etag, pos |-> 0, parts |-> {}, seen |-> seen,
                  noted |-> FALSE]
    BY <2>0 DEF Body
  <2>3. /\ new \in BodyRec /\ new.seen = seen /\ new.len = entry.len /\ new.etag = entry.etag
        /\ new.parts = {} /\ new.pos = 0 /\ new.noted = FALSE
    <3>1. entry.len \in Nat /\ entry.etag \in Tag \cup {NoValue} /\ seen \subseteq Version
      BY <1>1 DEF Entry, FileTypeOK
    <3> QED
      BY <2>2, <3>1 DEF BodyRec
  <2>4. BodyTypeOK' /\ SentFile'
    BY <1>1, <1>2, <1>5, <2>1, <2>3 DEF BodyInv, BodyTypeOK, SentFile, FileTypeOK
  <2>5. BodyArrived'
    <3>1. \A v : Carries(received, v)' <=> Carries(received, v)
      BY <1>1 DEF Carries
    <3> QED
      BY <1>1, <2>1, <3>1 DEF BodyInv, BodyArrived
  <2>6. ASSUME NEW b \in sending PROVE OnItsWay(b)'
    <3>1. \A v : (StillThere(v)' <=> StillThere(v)) /\ (HeaderOf(b, v)' <=> HeaderOf(b, v))
      BY <1>1, <2>1 DEF StillThere, HeaderOf, Local
    <3>2. OnItsWay(b)
      BY DEF BodyInv
    <3> QED
      BY <1>1, <2>1, <3>1, <3>2 DEF OnItsWay
  <2>7. OnItsWay(new)'
    <3> SUFFICES ASSUME entry.ram \/ seen = {disk}
                 PROVE  \E v \in seen : HeaderOf(new, v)' /\ StillThere(v)'
      BY <1>1, <2>1, <2>3 DEF OnItsWay
    <3>1. PICK v \in seen :
             /\ entry.etag = EtagOf(v.content, Size[v.content])
             /\ entry.len = IF kind.packed THEN PackedSize ELSE Size[v.content]
             /\ entry.ram => entry.data = [content |-> v.content, packed |-> kind.packed]
             /\ ~entry.ram => v = disk
      BY <1>1, <1>5, ReadyToSend
    <3>2. Size[v.content] \in Nat \ {0} /\ PackedSize > 0
      BY <1>1, FileConstants, VersionIs DEF FileTypeOK, PackedSize
    <3>3. HeaderOf(new, v)'
      BY <1>1, <2>3, <3>1, <3>2 DEF HeaderOf, PackedSize
    <3>4. StillThere(v)' \/ ~Local
      <4>1. Local => kind.packed = FALSE
        BY <1>1, KindOf
      <4> QED
        BY <1>1, <2>1, <3>1, <4>1 DEF StillThere, Plain, Local
    <3>5. ~Local => StillThere(disk)' /\ HeaderOf(new, disk)'
      <4> SUFFICES ASSUME ~Local PROVE StillThere(disk)' /\ HeaderOf(new, disk)'
        OBVIOUS
      <4>1. kind.fs = "binary" /\ kind.packed \in BOOLEAN
        BY <1>1, KindOf DEF Local
      <4>2. (kind.packed /\ ~(req.pc = "answer" /\ req.via = "render")) = kind.packed
        BY <1>5, <4>1
      <4>3. /\ entry.etag = EtagOf(disk.content, Size[disk.content])
            /\ entry.len = IF kind.packed THEN PackedSize ELSE Size[disk.content]
        BY <4>1, <4>2 DEF FileInv, ImageKept
      <4>4. Size[disk.content] \in Nat \ {0}
        BY <1>1, FileConstants, VersionIs DEF FileTypeOK
      <4> QED
        BY <1>1, <2>3, <4>3, <4>4 DEF HeaderOf, StillThere, Local, PackedSize
    <3> QED
      BY <1>1, <3>3, <3>4, <3>5
  <2> QED
    BY <2>1, <2>4, <2>5, <2>6, <2>7 DEF BodyInv
<1> QED
  BY <1>1, <1>3, <1>4, <1>5

(* A later version is added to what a body has seen, and does not touch    *)
(* what is in RAM.                                                         *)
LEMMA BodyReplaced ==
    ASSUME FileInv, BodyInv, NEW c \in Contents, NEW t \in Times, ReplaceFile(c, t)
    PROVE  BodyInv'
<1>1. /\ Local /\ disk' # disk /\ UNCHANGED <<kind, entry, req, received>>
      /\ sending' = {[b EXCEPT !.seen = @ \cup {disk'}] : b \in sending}
  BY DEF ReplaceFile, Local
<1>2. disk' \in Version /\ Local'
  BY <1>1 DEF ReplaceFile, Version, Local
<1>3. ASSUME NEW b \in sending'
      PROVE  /\ sending # {} /\ b \in BodyRec /\ IsFiniteSet(b.seen) /\ disk' \in b.seen
             /\ OnItsWay(b)'
  <2>1. PICK x \in sending : b = [x EXCEPT !.seen = @ \cup {disk'}]
    BY <1>1
  <2>2. x \in BodyRec /\ IsFiniteSet(x.seen) /\ disk \in x.seen /\ OnItsWay(x)
    BY DEF BodyInv, BodyTypeOK
  <2>3. /\ b \in BodyRec /\ b.seen = x.seen \cup {disk'} /\ b.noted = x.noted /\ b.len = x.len
        /\ b.etag = x.etag /\ b.parts = x.parts /\ b.pos = x.pos
    BY <1>2, <2>1, <2>2 DEF BodyRec
  <2>4. IsFiniteSet(b.seen)
    BY <2>2, <2>3, FS_AddElement
  <2>5. OnItsWay(b)'
    <3> SUFFICES ASSUME ~b.noted, entry.ram
                 PROVE  \E v \in b.seen : HeaderOf(b, v)' /\ StillThere(v)'
      BY <1>1, <2>2, <2>3 DEF OnItsWay
    <3>1. PICK v \in x.seen : HeaderOf(x, v) /\ StillThere(v)
      BY <2>2, <2>3 DEF OnItsWay
    <3>2. HeaderOf(b, v)' /\ StillThere(v)'
      BY <1>1, <1>2, <2>3, <3>1 DEF HeaderOf, StillThere
    <3> QED
      BY <2>3, <3>2
  <2> QED
    BY <2>2, <2>3, <2>4, <2>5
<1>4. BodyTypeOK' /\ SentFile'
  BY <1>1, <1>3 DEF BodyInv, BodyTypeOK, SentFile
<1>5. BodyArrived'
  <2>1. \A v : Carries(received, v)' <=> Carries(received, v)
    BY <1>1 DEF Carries
  <2> QED
    BY <1>1, <2>1 DEF BodyInv, BodyArrived
<1> QED
  BY <1>3, <1>4, <1>5 DEF BodyInv

(* getFile(): only a file that was never sent is loaded.                   *)
LEMMA BodyGet ==
    ASSUME FileInv, BodyInv, NEW via, NEW tag, NEW since, getFile(via, tag, since)
    PROVE  BodyInv'
<1>1. /\ req.pc = "idle" /\ received' = NoValue /\ UNCHANGED <<kind, disk, sending>> /\ FileTypeOK
  BY DEF getFile, FileInv
<1>2. sending # {} => entry \in Entry /\ entry.cached
  BY <1>1, CachedEntry DEF BodyInv, SentFile
<1>3. sending # {} => UNCHANGED entry /\ req'.pc \in {"idle", "serve"}
  BY <1>1, <1>2 DEF getFile
<1>4. BodyTypeOK' /\ SentFile' /\ BodyArrived'
  BY <1>1, <1>2, <1>3 DEF BodyInv, BodyTypeOK, SentFile, BodyArrived
<1>5. ASSUME NEW b \in sending PROVE OnItsWay(b)'
  <2>1. UNCHANGED <<entry, kind, disk>>
    BY <1>1, <1>3
  <2>2. \A v : (StillThere(v)' <=> StillThere(v)) /\ (HeaderOf(b, v)' <=> HeaderOf(b, v))
    BY <2>1 DEF StillThere, HeaderOf, Local
  <2>3. OnItsWay(b)
    BY DEF BodyInv
  <2> QED
    BY <2>1, <2>2, <2>3 DEF OnItsWay
<1> QED
  BY <1>1, <1>4, <1>5 DEF BodyInv

(* A body is dropped.                                                      *)
LEMMA BodyDropped ==
    ASSUME BodyInv, NEW b, SendFails(b)
    PROVE  BodyInv'
<1>1. sending' = sending \ {b} /\ UNCHANGED <<kind, disk, entry, req, received>>
  BY DEF SendFails
<1>2. BodyTypeOK' /\ SentFile'
  BY <1>1 DEF BodyInv, BodyTypeOK, SentFile
<1>3. BodyArrived'
  <2>1. \A v : Carries(received, v)' <=> Carries(received, v)
    BY <1>1 DEF Carries
  <2> QED
    BY <1>1, <2>1 DEF BodyInv, BodyArrived
<1>4. ASSUME NEW x \in sending PROVE OnItsWay(x)'
  <2>1. \A v : (StillThere(v)' <=> StillThere(v)) /\ (HeaderOf(x, v)' <=> HeaderOf(x, v))
    BY <1>1 DEF StillThere, HeaderOf, Local
  <2>2. OnItsWay(x)
    BY DEF BodyInv
  <2> QED
    BY <1>1, <2>1, <2>2 DEF OnItsWay
<1> QED
  BY <1>1, <1>2, <1>3, <1>4 DEF BodyInv

(* What the entry gives a write event of a body that no change was noted   *)
(* for: the rest of its version, and no more than that.                    *)
LEMMA EventSends ==
    ASSUME FileInv, req.pc = "idle", NEW b \in BodyRec, NEW v \in Version, entry \in Entry,
           HeaderOf(b, v), StillThere(v)
    PROVE  /\ entry.len = b.len /\ BodyEnd(b) = b.len
           /\ \A pos \in Nat : pos <= b.len =>
                 PartUpTo(pos) = [content |-> v.content, packed |-> kind.packed]
<1>1. FileTypeOK /\ Size[v.content] \in Nat /\ b.len \in Nat /\ b.pos \in Nat
  BY SizeIsNat, VersionIs DEF FileInv, BodyRec
<1>2. kind.fs \in {"local", "binary"} /\ kind.packed \in BOOLEAN /\ (Local => kind.packed = FALSE)
  BY <1>1, KindOf
<1>3. /\ entry.len = b.len
      /\ entry.ram => entry.data = [content |-> v.content, packed |-> kind.packed]
      /\ ~entry.ram => v = disk /\ kind.packed = FALSE /\ b.len = Size[disk.content]
  <2>1. CASE Local
    BY <1>2, <2>1 DEF HeaderOf, StillThere, Plain
  <2>2. CASE ~Local
    <3>1. v = disk /\ kind.fs = "binary"
      BY <1>2, <2>2 DEF StillThere, Local
    <3>2. (kind.packed /\ ~(req.pc = "answer" /\ req.via = "render")) = kind.packed
      BY <1>2
    <3>3. /\ entry.ram /\ entry.data = [content |-> disk.content, packed |-> kind.packed]
          /\ entry.len = IF kind.packed THEN PackedSize ELSE Size[disk.content]
      BY <3>1, <3>2 DEF FileInv, ImageKept
    <3> QED
      BY <3>1, <3>3 DEF HeaderOf
  <2> QED
    BY <2>1, <2>2
<1>4. BodyEnd(b) = b.len
  BY <1>1, <1>3 DEF BodyEnd, HeaderOf
<1>5. ASSUME NEW pos \in Nat, pos <= b.len
      PROVE  PartUpTo(pos) = [content |-> v.content, packed |-> kind.packed]
  BY <1>3, <1>5 DEF PartUpTo, Plain
<1> QED
  BY <1>3, <1>4, <1>5

(* A write event sends more of the version of the header, up to its end.   *)
LEMMA BodyWritten ==
    ASSUME FileInv, BodyInv, NEW b \in sending, NEW n \in Nat, handleClientWriteData(b, n)
    PROVE  BodyInv'
<1> DEFINE pos == b.pos + n
           parts == IF n = 0 THEN b.parts ELSE b.parts \cup {PartUpTo(pos)}
<1>1. /\ req.pc = "idle" /\ (n = 0 \/ pos <= BodyEnd(b))
      /\ UNCHANGED <<kind, disk, entry, req>> /\ Local' = Local
      /\ b \in BodyRec /\ IsFiniteSet(b.seen) /\ disk \in b.seen /\ OnItsWay(b)
      /\ entry \in Entry /\ "send" \in kind.uses /\ FileTypeOK
  BY DEF handleClientWriteData, BodyInv, BodyTypeOK, SentFile, Local, FileInv
<1>0. PICK more : more = [b EXCEPT !.pos = pos, !.parts = parts]
  OBVIOUS
<1>2. more = [b EXCEPT !.pos = b.pos + n,
                       !.parts = IF n = 0 THEN @ ELSE @ \cup {PartUpTo(b.pos + n)}]
  BY <1>0, <1>1 DEF BodyRec
<1>3. \/ pos < entry.len /\ sending' = (sending \ {b}) \cup {more} /\ UNCHANGED received
      \/ pos >= entry.len /\ sending' = sending \ {b} /\ received' = more
  BY <1>2 DEF handleClientWriteData
<1>4. PartUpTo(pos) \in Data \cup {NoValue} \/ entry.ram
  BY <1>1, VersionIs DEF PartUpTo, Plain, Data, FileTypeOK
<1>5. PartUpTo(pos) \in Data \cup {NoValue}
  BY <1>1, <1>4 DEF PartUpTo, Entry
<1>6. b.pos \in Nat /\ b.len \in Nat /\ entry.len \in Nat /\ pos \in Nat
  BY <1>1 DEF BodyRec, Entry
<1>7. /\ parts \subseteq Data \cup {NoValue}
      /\ n = 0 => parts = b.parts
      /\ n # 0 => parts = b.parts \cup {PartUpTo(pos)}
  BY <1>1, <1>5 DEF BodyRec
<1> HIDE DEF parts
<1>8. /\ more \in BodyRec /\ more.pos = pos /\ more.parts = parts /\ more.seen = b.seen
      /\ more.noted = b.noted /\ more.len = b.len /\ more.etag = b.etag
  BY <1>0, <1>1, <1>6, <1>7 DEF BodyRec
<1> HIDE DEF pos
<1>9. BodyTypeOK' /\ SentFile'
  BY <1>1, <1>3, <1>8 DEF BodyInv, BodyTypeOK, SentFile
<1>10. ASSUME NEW x \in sending PROVE OnItsWay(x)'
  <2>1. \A v : (StillThere(v)' <=> StillThere(v)) /\ (HeaderOf(x, v)' <=> HeaderOf(x, v))
    BY <1>1 DEF StillThere, HeaderOf
  <2>2. OnItsWay(x)
    BY DEF BodyInv
  <2> QED
    BY <1>1, <2>1, <2>2 DEF OnItsWay
<1>11. ASSUME ~b.noted, entry.ram \/ b.seen = {disk}
       PROVE  \E v \in b.seen :
                 /\ HeaderOf(b, v) /\ StillThere(v) /\ entry.len = b.len
                 /\ pos <= b.len
                 /\ parts \subseteq {[content |-> v.content, packed |-> kind.packed]}
                 /\ n # 0 => parts = {[content |-> v.content, packed |-> kind.packed]}
  <2>1. PICK v \in b.seen : HeaderOf(b, v) /\ StillThere(v)
    BY <1>1, <1>11 DEF OnItsWay
  <2>2. v \in Version
    BY <1>1 DEF BodyRec
  <2> DEFINE part == [content |-> v.content, packed |-> kind.packed]
  <2>3. /\ entry.len = b.len /\ BodyEnd(b) = b.len
        /\ \A p \in Nat : p <= b.len => PartUpTo(p) = part
    BY <1>1, <2>1, <2>2, EventSends
  <2>4. b.pos < b.len /\ b.parts \subseteq {part}
    BY <2>1 DEF HeaderOf
  <2> HIDE DEF part
  <2>5. pos <= b.len
    BY <1>1, <1>6, <2>3, <2>4 DEF pos
  <2>6. parts \subseteq {part} /\ (n # 0 => parts = {part})
    BY <1>6, <1>7, <2>3, <2>4, <2>5
  <2> QED
    BY <2>1, <2>3, <2>5, <2>6 DEF part
<1>12. CASE pos < entry.len
  <2>1. sending' = (sending \ {b}) \cup {more} /\ UNCHANGED received
    BY <1>3, <1>6, <1>12
  <2>2. BodyArrived'
    <3>1. \A v : Carries(received, v)' <=> Carries(received, v)
      BY <1>1, <2>1 DEF Carries
    <3> QED
      BY <1>1, <2>1, <3>1 DEF BodyInv, BodyArrived
  <2>3. OnItsWay(more)'
    <3> SUFFICES ASSUME ~b.noted, entry.ram \/ b.seen = {disk}
                 PROVE  \E v \in b.seen : HeaderOf(more, v)' /\ StillThere(v)'
      BY <1>1, <1>8 DEF OnItsWay
    <3>1. PICK v \in b.seen : /\ HeaderOf(b, v) /\ StillThere(v) /\ entry.len = b.len
                              /\ parts \subseteq {[content |-> v.content, packed |-> kind.packed]}
      BY <1>11
    <3>2. HeaderOf(more, v)' /\ StillThere(v)'
      BY <1>1, <1>8, <1>12, <3>1 DEF HeaderOf, StillThere
    <3> QED
      BY <3>2
  <2> QED
    BY <1>9, <1>10, <2>1, <2>2, <2>3 DEF BodyInv
<1>13. CASE pos >= entry.len
  <2>1. sending' = sending \ {b} /\ received' = more
    BY <1>3, <1>6, <1>13
  <2>2. BodyArrived'
    <3> SUFFICES ASSUME ~b.noted, entry.ram \/ Cardinality(b.seen) = 1
                 PROVE  \E v \in b.seen : Carries(received, v)'
      BY <1>1, <1>8, <2>1 DEF BodyArrived
    <3>1. Cardinality(b.seen) = 1 => b.seen = {disk}
      BY <1>1, FS_Singleton
    <3>2. PICK v \in b.seen :
                 /\ HeaderOf(b, v) /\ entry.len = b.len /\ pos <= b.len
                 /\ n # 0 => parts = {[content |-> v.content, packed |-> kind.packed]}
      BY <1>11, <3>1
    <3>3. n # 0 /\ pos = b.len
      BY <1>6, <1>13, <3>2 DEF HeaderOf, pos
    <3>4. Carries(received, v)'
      BY <1>1, <1>8, <2>1, <3>2, <3>3 DEF HeaderOf, Carries
    <3> QED
      BY <3>4
  <2> QED
    BY <1>9, <1>10, <2>1, <2>2 DEF BodyInv
<1> QED
  BY <1>6, <1>12, <1>13

(* The invariant of the bodies.                                            *)
LEMMA BodyStep == FileInv /\ BodyInv /\ [fileNext]_fileVars => BodyInv'
<1> SUFFICES ASSUME FileInv, BodyInv, [fileNext]_fileVars PROVE BodyInv'
  OBVIOUS
<1>1. ASSUME NEW c \in Contents, NEW t \in Times, ReplaceFile(c, t) PROVE BodyInv'
  BY <1>1, BodyReplaced
<1>2. CASE WebserverAddBlockedFile \/ WebserverAddNoRamCacheFile \/ UNCHANGED fileVars
  BY <1>2, BodySame
  DEF WebserverAddBlockedFile, WebserverAddNoRamCacheFile, fileVars, bodyVars, BodiesLeft, BodyInv, SentFile
<1>3. ASSUME NEW via, NEW has, getFile(via, has.tag, has.since) PROVE BodyInv'
  BY <1>3, BodyGet
<1>4. CASE \/ PlatformGetFileInfo \/ ramCacheFile \/ generateEtag \/ prepare_file_content
           \/ local_file_system_check_file_modified \/ ReloadContent
  BY <1>4, BodyServing
<1>5. CASE SendAnswer
  BY <1>5, BodyQueued
<1>6. ASSUME NEW b \in sending, NEW n \in 0..BodyEnd(b), handleClientWriteData(b, n) PROVE BodyInv'
  <2>1. n \in Nat
    <3>1. entry \in Entry /\ disk \in Version
      BY DEF BodyInv, SentFile, FileInv, FileTypeOK
    <3>2. BodyEnd(b) \in Nat
      BY <3>1, VersionIs, SizeIsNat DEF BodyEnd, Entry
    <3> QED
      BY <3>2
  <2> QED
    BY <1>6, <2>1, BodyWritten
<1>7. ASSUME NEW b \in sending, SendFails(b) PROVE BodyInv'
  BY <1>7, BodyDropped
<1> QED
  BY <1>1, <1>2, <1>3, <1>4, <1>5, <1>6, <1>7 DEF fileNext

(* A body on its way is one version of the file with that version's        *)
(* header, as long as the entry holds that version.                        *)
THEOREM BodiesHold == fileSpec => []BodyInv
<1>1. fileInit => BodyInv
  BY DEF fileInit, BodyInv, BodyTypeOK, SentFile, BodyArrived
<1>2. FileInv /\ BodyInv /\ [fileNext]_fileVars => BodyInv'
  BY BodyStep
<1> QED
  BY <1>1, <1>2, FileHolds, PTL DEF fileSpec

(* sendFile(), sendHTMLFile() and the 304 of checkCacheHeader() answer     *)
(* with one version of the file that was on disk since the request began,  *)
(* whatever the other process replaces between two system calls: a body,   *)
(* over all the write events of handleClientWriteData(), with the length   *)
(* and the tag of that version (unless another request noted a change      *)
(* while it was on its way), a 304 by tag with its content, a 304 by date  *)
(* with its minute only.                                                   *)
THEOREM FreshAnswers == fileSpec => []AnswersFresh
<1>1. FileInv /\ BodyInv => AnswersFresh
  <2> SUFFICES ASSUME FileInv, BodyInv PROVE AnswersFresh
    OBVIOUS
  <2>1. ASSUME answer.status \in {200, 304}, entry.ram \/ Cardinality(seen) = 1
        PROVE  \E v \in seen : Shows(answer, v)
    <3>1. disk \in seen /\ IsFiniteSet(seen)
      BY <2>1 DEF FileInv, UnderWay, FileTypeOK
    <3>2. Cardinality(seen) = 1 => seen = {disk}
      BY <3>1, FS_Singleton
    <3> QED
      BY <2>1, <3>2 DEF FileInv, Fresh200
  <2> QED
    BY <2>1 DEF AnswersFresh, BodyInv, BodyArrived
<1> QED
  BY <1>1, FileHolds, BodiesHold, PTL
===========================================================================
