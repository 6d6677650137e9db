------------------------------ MODULE Session ------------------------------
(* Sessions (session.c): a store per cookie, one for plain and one for TLS  *)
(* connections, found again by the GUID in the cookie, dropped when idle    *)
(* for too long, and the login that is bound to both stores of a client.    *)
(* The server thread works on one request at a time; websocket handlers use *)
(* the stores by GUID from threads of their own.                            *)
EXTENDS Integers, Functions

CONSTANTS
  Bounds,           \* bounds of a behaviour: GUIDs and logins generated, seconds passed, whether variables are removed and set
  session_timeout,  \* configured seconds, 0: sessions never end
  CheckEvery,       \* seconds between two timeout checks, 10 in the code
  Websockets        \* websocket connections

ASSUME SessionBounds == /\ session_timeout \in Nat /\ CheckEvery \in Nat \ {0}
                        /\ Bounds \subseteq [guids : Nat, logins : Nat, time : Nat, removals : BOOLEAN, values : BOOLEAN]

VARIABLES
  bound,       \* the member of Bounds of this behaviour
  stores,      \* session_store_tree: GUID -> store
  lastCheck,   \* last_timeout_check
  now,         \* PlatformGetTick()
  nextGuid,    \* the cookie GUID generateGUID() returns next
  nextSid,     \* the session id it returns next
  cur,         \* the http_request the server thread works on
  socks,       \* websocket -> the store it was opened with
  login        \* ghost: plain store -> the TLS store of the login in force, 0: none

sessVars == <<bound, stores, lastCheck, now, nextGuid, nextSid, cur, socks, login>>

Guids == 1..bound.guids
Unknown == -1     \* a cookie that names no store, made up or expired
Absent == -1      \* no such variable
Empty == 0        \* the empty string

Fresh(ssl) == [ssl |-> ssl, lastUse |-> now, locks |-> 0, registered |-> "absent", sid |-> Absent, value |-> Absent]

\* The fields of a request that exist once for each kind of store are
\* functions of ssl_store; no store is 0.
Cleared(active, tls, since) ==
  [active |-> active, tls |-> tls, since |-> since,
   guid |-> [ssl \in BOOLEAN |-> 0],
   create_cookie |-> [ssl \in BOOLEAN |-> FALSE],
   store |-> [ssl \in BOOLEAN |-> 0]]
NoRequest == Cleared(FALSE, FALSE, 0)

NoSocket == [open |-> FALSE, store_guid |-> 0, promise |-> 0]

---------------------------------------------------------------------------
(* Operations on w, the stores st, the request r and the next GUID.         *)

World == [st |-> stores, r |-> cur, next |-> nextGuid]

Idle(st) == {g \in DOMAIN st : now - st[g].lastUse > session_timeout}

\* Faulty: the check is due only after the interval, not at its end.
CheckLate(st) ==
  IF now - lastCheck <= CheckEvery \/ session_timeout = 0 THEN st
  ELSE Restrict(st, DOMAIN st \ Idle(st))

checkSessionTimeout(st) ==
  IF now - lastCheck < CheckEvery \/ session_timeout = 0 THEN st
  ELSE Restrict(st, DOMAIN st \ Idle(st))

CheckedAt == IF now - lastCheck < CheckEvery THEN lastCheck ELSE now

\* RBTreeInsert(): the tree with a store under g.
Insert(st, g, s) == [h \in DOMAIN st \cup {g} |-> IF h = g THEN s ELSE st[h]]

createSession(w, ssl) ==
  LET g == w.r.guid[ssl]
  IN  [w EXCEPT !.st = Insert(w.st, g, Fresh(ssl)), !.r = [w.r EXCEPT !.store[ssl] = g]]

findSessionStore(w, ssl) ==
  LET g == w.r.guid[ssl]
  IN  IF g \in DOMAIN w.st /\ w.st[g].ssl = ssl
      THEN [w EXCEPT !.r.store[ssl] = g, !.st[g].lastUse = now]
      ELSE w

generateGUID(w, ssl) ==
  [w EXCEPT !.r = [w.r EXCEPT !.create_cookie[ssl] = TRUE, !.guid[ssl] = w.next], !.next = w.next + 1]

FindOrCreate(w, ssl, create_session) ==
  LET f == IF w.r.create_cookie[ssl] THEN w ELSE findSessionStore(w, ssl)
  IN  IF f.r.store[ssl] # 0 \/ ~create_session THEN f
      ELSE createSession(IF w.r.create_cookie[ssl] THEN w ELSE generateGUID(w, ssl), ssl)

lockStore(w, ssl) ==
  IF w.r.store[ssl] = 0 THEN w ELSE [w EXCEPT !.st[w.r.store[ssl]].locks = @ + 1]

\* Faulty: a store the request already has is locked again.
RestoreAndLock(w, ssl, lock_stores, create_session) ==
  LET f == IF w.r.store[ssl] # 0 \/ (ssl /\ ~w.r.tls) THEN w ELSE FindOrCreate(w, ssl, create_session)
  IN  IF lock_stores THEN lockStore(f, ssl) ELSE f

RestoreOne(w, ssl, lock_stores, create_session) ==
  IF w.r.store[ssl] # 0 \/ (ssl /\ ~w.r.tls) THEN w
  ELSE LET f == FindOrCreate(w, ssl, create_session)
       IN  IF lock_stores THEN lockStore(f, ssl) ELSE f

restoreSession(w, lock_stores, create_session) ==
  RestoreOne(RestoreOne([w EXCEPT !.st = checkSessionTimeout(@)], FALSE, lock_stores, create_session),
             TRUE, lock_stores, create_session)

\* checkCookie() takes the GUID from the cookie, 0 stands for no cookie.
checkSessionCookie(w, cookies) ==
  LET One(v, ssl) == IF cookies[ssl] # 0 THEN [v EXCEPT !.r.guid[ssl] = cookies[ssl]]
                     ELSE generateGUID(v, ssl)
      plain == One(w, FALSE)
  IN  IF w.r.tls THEN One(plain, TRUE) ELSE plain

NewRequest(tls) == Cleared(TRUE, tls, now)

---------------------------------------------------------------------------
(* Registration.                                                            *)

guid_cmp(a, b) == a # Empty /\ a = b

\* int_getSessionValue(): the store of a request as far as it may be read.
Readable(st, r, ssl) ==
  IF r.store[ssl] = 0 \/ (ssl /\ ~r.tls) THEN Fresh(ssl) ELSE st[r.store[ssl]]

\* Faulty: two session ids are enough, they are not compared.
UnboundCheck(st, r) ==
  LET plain == Readable(st, r, FALSE)
      ssl == Readable(st, r, TRUE)
      true_both == plain.registered = "true" /\ ssl.registered = "true"
  IN  IF plain.registered # "true" \/ plain.sid = Absent THEN "NOT_REGISTERED"
      ELSE IF r.tls /\ true_both /\ ssl.sid # Absent THEN "SSL_CHECK_OK"
      ELSE "NORMAL_CHECK_OK"

checkUserRegistered(st, r) ==
  LET plain == Readable(st, r, FALSE)
      ssl == Readable(st, r, TRUE)
      true_both == plain.registered = "true" /\ ssl.registered = "true"
      guid_match == ssl.sid # Absent /\ guid_cmp(plain.sid, ssl.sid)
      mismatch == \/ ssl.sid = Absent
                  \/ guid_match # true_both
                  \/ ssl.registered # "true"
  IN  IF plain.registered # "true" \/ plain.sid = Absent THEN "NOT_REGISTERED"
      ELSE IF r.tls /\ guid_match /\ true_both THEN "SSL_CHECK_OK"
      ELSE IF r.tls /\ mismatch THEN "SESSION_MISMATCH_ERROR"
      ELSE "NORMAL_CHECK_OK"

\* int_setSessionValue() of registered and session-id in both stores.
SetRegistered(st, r, value, sid) ==
  LET Writable == {r.store[ssl] : ssl \in {FALSE, r.tls}} \ {0}
  IN  [g \in DOMAIN st |-> IF g \in Writable
                           THEN [st[g] EXCEPT !.registered = value, !.sid = sid] ELSE st[g]]

\* server.c 464: auth_only files.
AccessGranted(st, r) == checkUserRegistered(st, r) # "NOT_REGISTERED"

---------------------------------------------------------------------------
(* Actions.                                                                 *)

Named == {0, Unknown} \cup DOMAIN stores
Cookies(tls) == {[ssl \in BOOLEAN |-> IF ssl THEN s ELSE p] : p \in Named, s \in IF tls THEN Named ELSE {0}}

Arrived(tls, cookies) == checkSessionCookie([World EXCEPT !.r = NewRequest(tls)], cookies)

Become(w) ==
  /\ w.next <= bound.guids + 1
  /\ stores' = w.st /\ nextGuid' = w.next /\ UNCHANGED nextSid
  /\ login' = [g \in Guids |-> IF g \in DOMAIN w.st THEN login[g] ELSE 0]

\* getHttpRequest(): an URL function creates a session, an auth_only file does not.
getHttpRequest(create_session) ==
  /\ ~cur.active
  /\ \E tls \in BOOLEAN : \E cookies \in Cookies(tls) :
     \E w \in {restoreSession(Arrived(tls, cookies), TRUE, create_session)} :
       Become(w) /\ cur' = w.r
  /\ lastCheck' = CheckedAt
  /\ UNCHANGED <<now, socks>>

\* The template function startSession, in a request that may have its stores.
startSession ==
  /\ cur.active
  /\ \E w \in {restoreSession(World, TRUE, TRUE)} : Become(w) /\ cur' = w.r
  /\ lastCheck' = CheckedAt
  /\ UNCHANGED <<now, socks>>

setUserRegistered(status) ==
  /\ cur.active
  /\ IF status
     THEN IF checkUserRegistered(stores, cur) = "SSL_CHECK_OK" THEN UNCHANGED <<stores, nextSid, login>>
          ELSE /\ nextSid <= bound.logins
               /\ stores' = SetRegistered(stores, cur, "true", nextSid)
               /\ nextSid' = nextSid + 1
               /\ login' = [g \in Guids |-> IF g # cur.store[FALSE] THEN login[g]
                                            ELSE IF cur.store[TRUE] # 0 THEN cur.store[TRUE] ELSE g]
     ELSE /\ stores' = IF checkUserRegistered(stores, cur) = "NOT_REGISTERED" THEN stores
                       ELSE SetRegistered(stores, cur, "false", Empty)
          /\ login' = [g \in Guids |-> IF g = cur.store[FALSE] THEN 0 ELSE login[g]]
          /\ UNCHANGED nextSid
  /\ UNCHANGED <<lastCheck, now, nextGuid, cur, socks>>

\* Variables of the application; registered, session-id and session-id-ssl
\* are refused, they are for the login.
Reserved == {"registered", "sid"}
Text == [registered |-> "true", sid |-> 1, value |-> 1]

\* The store a request may write to.
Writes(ssl) == cur.active /\ bound.values /\ cur.store[ssl] # 0 /\ (ssl => cur.tls)

setSessionValue(ssl, name) ==
  /\ Writes(ssl) /\ name \notin Reserved
  /\ stores' = [stores EXCEPT ![cur.store[ssl]][name] = Text[name]]
  /\ UNCHANGED <<lastCheck, now, nextGuid, nextSid, cur, socks, login>>

\* newVariable(): an empty variable unless there is one.
addSessionValue(ssl, name) ==
  /\ Writes(ssl) /\ name \notin Reserved
  /\ stores[cur.store[ssl]][name] = Absent
  /\ stores' = [stores EXCEPT ![cur.store[ssl]][name] = Empty]
  /\ UNCHANGED <<lastCheck, now, nextGuid, nextSid, cur, socks, login>>

\* From a websocket handler, which names no reserved variable; reading makes
\* the variable, too.
StoreOfSocket(k) == socks[k].open /\ bound.values /\ socks[k].store_guid \in DOMAIN stores

setSessionValueByGUID(k) ==
  /\ StoreOfSocket(k) /\ ~stores[socks[k].store_guid].ssl
  /\ stores' = [stores EXCEPT ![socks[k].store_guid].value = Text.value]
  /\ UNCHANGED <<lastCheck, now, nextGuid, nextSid, cur, socks, login>>

getSessionValueByGUID(k) ==
  /\ StoreOfSocket(k) /\ ~stores[socks[k].store_guid].ssl
  /\ stores' = [stores EXCEPT ![socks[k].store_guid].value = IF @ = Absent THEN Empty ELSE @]
  /\ UNCHANGED <<lastCheck, now, nextGuid, nextSid, cur, socks, login>>

\* Unlike setSessionValue(), it refuses no name, not even the reserved ones.
removeSessionValue(ssl) ==
  /\ cur.active /\ cur.store[ssl] # 0 /\ bound.removals
  /\ ssl => cur.tls
  /\ \E field \in Reserved \cup {"value"} :
       stores' = [stores EXCEPT ![cur.store[ssl]][field] = Fresh(ssl)[field]]
  /\ UNCHANGED <<lastCheck, now, nextGuid, nextSid, cur, socks, login>>

\* endHTTPRequest(): the locks of the request are given back.
endHTTPRequest ==
  /\ cur.active
  /\ stores' = [g \in DOMAIN stores |-> IF g \in {cur.store[FALSE], cur.store[TRUE]}
                                        THEN [stores[g] EXCEPT !.locks = @ - 1] ELSE stores[g]]
  /\ cur' = NoRequest
  /\ UNCHANGED <<lastCheck, now, nextGuid, nextSid, socks, login>>

\* postStreamRequestAuthorized(): a request of its own, no lock, no new store.
PostStreamCheck ==
  /\ ~cur.active
  /\ \E tls \in BOOLEAN : \E cookies \in Cookies(tls) :
     \E w \in {restoreSession(Arrived(tls, cookies), FALSE, FALSE)} : Become(w)
  /\ lastCheck' = CheckedAt
  /\ UNCHANGED <<now, cur, socks>>

startWebsocketConnection(k) ==
  /\ ~cur.active /\ ~socks[k].open /\ (bound.time > 0 \/ bound.values)
  /\ \E tls \in BOOLEAN : \E cookies \in Cookies(tls) :
     \E w \in {restoreSession(Arrived(tls, cookies), FALSE, TRUE)} :
       /\ Become(w)
       /\ socks' = [socks EXCEPT ![k] = [open |-> TRUE, store_guid |-> w.r.store[FALSE], promise |-> 0]]
  /\ lastCheck' = CheckedAt
  /\ UNCHANGED <<now, cur>>

closeWebsocket(k) ==
  /\ socks[k].open
  /\ socks' = [socks EXCEPT ![k] = NoSocket]
  /\ UNCHANGED <<stores, lastCheck, now, nextGuid, nextSid, cur, login>>

getSessionTimeoutByGUID(g) == IF g \in DOMAIN stores /\ ~stores[g].ssl THEN now - stores[g].lastUse ELSE -1

\* The handler is told how long the session still lasts, or -1.
getWebsocketStoreTimeout(k) ==
  LET idle == getSessionTimeoutByGUID(socks[k].store_guid)
  IN  /\ socks[k].open
      /\ socks' = [socks EXCEPT ![k].promise = IF idle < 0 \/ idle > session_timeout THEN 0
                                               ELSE now + (session_timeout - idle)]
      /\ UNCHANGED <<stores, lastCheck, now, nextGuid, nextSid, cur, login>>

\* A request is assumed to end within the session timeout.
Tick ==
  /\ now < bound.time
  /\ cur.active => now < cur.since + session_timeout
  /\ now' = now + 1
  /\ UNCHANGED <<stores, lastCheck, nextGuid, nextSid, cur, socks, login>>

initSessions ==
  /\ bound \in Bounds
  /\ stores = << >>
  /\ lastCheck = 0 /\ now = 0 /\ nextGuid = 1 /\ nextSid = 1
  /\ cur = NoRequest
  /\ socks = [k \in Websockets |-> NoSocket]
  /\ login = [g \in Guids |-> 0]

SessStep ==
  \/ startSession \/ endHTTPRequest \/ PostStreamCheck \/ Tick
  \/ \E b \in BOOLEAN : getHttpRequest(b) \/ setUserRegistered(b) \/ removeSessionValue(b)
  \/ \E ssl \in BOOLEAN, name \in Reserved \cup {"value"} : setSessionValue(ssl, name) \/ addSessionValue(ssl, name)
  \/ \E k \in Websockets :
       \/ startWebsocketConnection(k) \/ closeWebsocket(k)
       \/ getWebsocketStoreTimeout(k)
       \/ setSessionValueByGUID(k) \/ getSessionValueByGUID(k)

SessNext == SessStep /\ UNCHANGED bound

SessSpec == initSessions /\ [][SessNext]_sessVars

---------------------------------------------------------------------------
(* Properties.                                                              *)

\* Access follows the login: checkUserRegistered() lets a request pass only
\* while a login through its plain store is in force, neither logged out nor
\* expired, and reports SSL_CHECK_OK only for the two stores one login over
\* TLS was made with, whatever cookies of other sessions are combined.
AccessFollowsLogin ==
  cur.active =>
    /\ AccessGranted(stores, cur) => login[cur.store[FALSE]] # 0
    /\ checkUserRegistered(stores, cur) = "SSL_CHECK_OK" => login[cur.store[FALSE]] = cur.store[TRUE]

\* The stores a request works on exist until it ends, are locked by it once,
\* and no other store is locked: restoreSession() and endHTTPRequest() agree
\* on every path, also when a timeout check runs during the request.  And the
\* time getWebsocketStoreTimeout() told a handler is kept: the store is there
\* until then.
HeldStoresLive ==
  LET held == {cur.store[ssl] : ssl \in BOOLEAN} \ {0}
  IN  /\ held \subseteq DOMAIN stores
      /\ \A g \in DOMAIN stores : stores[g].locks = IF g \in held THEN 1 ELSE 0
      /\ \A k \in Websockets :
           socks[k].promise # 0 /\ now <= socks[k].promise => socks[k].store_guid \in DOMAIN stores

\* An idle session ends: no cookie finds a store again that was unused for
\* the timeout and one interval between two checks.
IdleSessionsEnd ==
  [][\A g \in DOMAIN stores \cap DOMAIN stores' :
       session_timeout # 0 /\ stores'[g].lastUse # stores[g].lastUse
         => now - stores[g].lastUse < session_timeout + CheckEvery]_sessVars
=============================================================================
