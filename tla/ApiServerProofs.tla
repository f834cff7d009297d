--------------------------- MODULE ApiServerProofs ---------------------------
(***************************************************************************)
(* What the web server promises, for every configuration of its routes and  *)
(* any number of clients and requests.  The invariant adds to the properties *)
(* that the limiter's count of a limited path is the number of requests made *)
(* since the reset, of which exactly the ones below the limit passed, and    *)
(* that a request past its authentication was known and one past the limiter *)
(* was checked by it.                                                        *)
(***************************************************************************)
EXTENDS ApiServer, TLAPS

Keys == Paths \X Clients

CountsAreKept ==
    \A p \in DOMAIN limits, c \in Clients : requestsMap[<<p, c>>] = asked[<<p, c>>]

\* One less than the limit: the request that reaches it is refused.
PassedExactly ==
    \A p \in DOMAIN limits, c \in Clients :
        LET n == asked[<<p, c>>]
        IN passed[<<p, c>>] = IF n < limits[p] THEN n ELSE limits[p] - 1

\* The limiter comes next, or right after the authentication.
Unchecked(todo) == \/ Head(todo) = "limit"
                   \/ Head(todo) = "auth" /\ Len(todo) > 1 /\ todo[2] = "limit"

OnItsWay(r) ==
    LET e == r.path[2]
    IN r.todo # <<>> /\ Config[e].found =>
          /\ Config[e].open
          /\ Config[e].secured /\ Head(r.todo) # "auth" => credentials /\ r.known
          /\ Config[e].rateLimit > 0 /\ ~r.checked => Unchecked(r.todo)

Checked == \A k \in Connections : OnItsWay(request[k])

IndInv == TypeOK /\ CountsAreKept /\ PassedExactly /\ Checked
-----------------------------------------------------------------------------
\* RegisterRoutes puts at least the endpoint's own handler behind every path,
\* the authentication first when the endpoint is secured, and the limiter
\* before the handler when it is limited.
LEMMA ChainType ==
    ASSUME NEW e \in Endpoints
    PROVE  /\ Chain(e) \in Seq(Middlewares)
           /\ Config[e].found /\ Config[e].secured => Head(Chain(e)) = "auth"
           /\ Config[e].found /\ Config[e].rateLimit > 0 => Unchecked(Chain(e))
  <1> USE DEF Middlewares, Unchecked
  <1>1. CASE ~Config[e].found
    BY <1>1 DEF Chain
  <1>2. CASE Config[e].found /\ Config[e].secured
    <2>1. CASE Config[e].rateLimit > 0
      <3>1. Chain(e) = <<"auth">> \o <<"limit">> \o <<"handler">>
        BY <1>2, <2>1 DEF Chain
      <3> QED BY <3>1
    <2>2. CASE ~(Config[e].rateLimit > 0)
      <3>1. Chain(e) = <<"auth">> \o <<>> \o <<"handler">>
        BY <1>2, <2>2 DEF Chain
      <3> QED BY <3>1, <2>2
    <2> QED BY <2>1, <2>2
  <1>3. CASE Config[e].found /\ ~Config[e].secured
    <2>1. CASE Config[e].rateLimit > 0
      <3>1. Chain(e) = <<>> \o <<"limit">> \o <<"handler">>
        BY <1>3, <2>1 DEF Chain
      <3> QED BY <3>1, <1>3
    <2>2. CASE ~(Config[e].rateLimit > 0)
      <3>1. Chain(e) = <<>> \o <<>> \o <<"handler">>
        BY <1>3, <2>2 DEF Chain
      <3> QED BY <3>1, <1>3, <2>2
    <2> QED BY <2>1, <2>2
  <1> QED BY <1>1, <1>2, <1>3

\* The empty request and the entries of the limits map have their types.
LEMMA Basics ==
    /\ NoRequest \in [path : Paths, client : Clients, known : BOOLEAN,
                      checked : BOOLEAN, todo : {<<>>}, reply : {"none"}]
    /\ DOMAIN limits \subseteq Paths
    /\ \A p \in DOMAIN limits : limits[p] \in Nat \ {0}
    /\ \A e \in Endpoints : Config[e] \in RouteConfig
  <1>1. \A e \in Endpoints : Config[e] \in RouteConfig
    BY ServerConfig
  <1>2. /\ DOMAIN limits \subseteq Paths
        /\ \A p \in DOMAIN limits : limits[p] \in Nat \ {0}
    BY <1>1, ServerConfig DEF limits, Paths, RouteConfig
  <1>3. NoRequest \in [path : Paths, client : Clients, known : BOOLEAN,
                       checked : BOOLEAN, todo : {<<>>}, reply : {"none"}]
    <2>1. (CHOOSE e \in Endpoints : TRUE) \in Endpoints
      BY ServerConfig
    <2>2. (CHOOSE c \in Clients : TRUE) \in Clients
      BY ServerConfig
    <2> QED BY <2>1, <2>2, ServerConfig DEF NoRequest, Paths
  <1> QED BY <1>1, <1>2, <1>3
-----------------------------------------------------------------------------
LEMMA InitInv == Init => IndInv
  <1> SUFFICES ASSUME Init PROVE IndInv
    OBVIOUS
  <1>1. TypeOK
    <2>1. <<>> \in Seq(Middlewares)
      OBVIOUS
    <2>2. /\ NoRequest \in [path : Paths, client : Clients, known : BOOLEAN,
                            checked : BOOLEAN, todo : Seq(Middlewares), reply : Replies]
          /\ NoRequest.reply = "none"
      BY <2>1, Basics DEF Replies
    <2>3. requestsMap \in Counts /\ asked \in Counts /\ passed \in Counts
      BY DEF Init, Counts
    <2> QED BY <2>2, <2>3 DEF Init, TypeOK
  <1>2. CountsAreKept /\ PassedExactly
    BY Basics DEF Init, CountsAreKept, PassedExactly
  <1>3. Checked
    BY Basics DEF Init, Checked, OnItsWay
  <1> QED BY <1>1, <1>2, <1>3 DEF IndInv

Requests == [path : Paths, client : Clients, known : BOOLEAN,
             checked : BOOLEAN, todo : Seq(Middlewares), reply : Replies]

\* What a step that only moves one request has to show of it.
LEMMA RequestStep ==
    ASSUME TypeOK, Checked, NEW k \in Connections, NEW r \in Requests,
           request' = [request EXCEPT ![k] = r],
           r.reply # "none" => r.todo = <<>>,
           credentials' = credentials, OnItsWay(r)
    PROVE  /\ request' \in [Connections -> Requests]
           /\ \A j \in Connections : request'[j].reply # "none" => request'[j].todo = <<>>
           /\ Checked'
  <1>1. \A j \in Connections : request'[j] = IF j = k THEN r ELSE request[j]
    BY DEF TypeOK, Requests
  <1>2. request' \in [Connections -> Requests]
    BY DEF TypeOK, Requests
  <1>3. \A j \in Connections : request'[j].reply # "none" => request'[j].todo = <<>>
    BY <1>1 DEF TypeOK
  <1>4. Checked'
    BY <1>1, Zenon DEF Checked, OnItsWay
  <1> QED BY <1>2, <1>3, <1>4

\* An answered request leaves its connection free.
LEMMA AbortStep ==
    ASSUME TypeOK, Checked, NEW k \in Connections, NEW st \in Replies,
           Abort(k, st), credentials' = credentials
    PROVE  /\ request' \in [Connections -> Requests]
           /\ \A j \in Connections : request'[j].reply # "none" => request'[j].todo = <<>>
           /\ Checked'
  <1> DEFINE r == [NoRequest EXCEPT !.reply = st]
  <1>1. r \in Requests /\ r.todo = <<>>
    <2>1. <<>> \in Seq(Middlewares)
      OBVIOUS
    <2> QED BY <2>1, Basics DEF Requests
  <1>2. request' = [request EXCEPT ![k] = r]
    BY DEF Abort
  <1> HIDE DEF r
  <1>3. OnItsWay(r)
    BY <1>1 DEF OnItsWay
  <1> QED BY <1>1, <1>2, <1>3, RequestStep

\* A handler that does not answer hands the request to the next one.
LEMMA ContinueStep ==
    ASSUME TypeOK, Checked, NEW k \in Connections,
           NEW known \in BOOLEAN, NEW checked \in BOOLEAN,
           request[k].todo # <<>>,
           request' = [request EXCEPT ![k].todo = Tail(@), ![k].known = known, ![k].checked = checked],
           credentials' = credentials,
           \/ Head(request[k].todo) = "limit" /\ known = request[k].known /\ checked
           \/ /\ Head(request[k].todo) = "auth" /\ known /\ credentials
              /\ checked = request[k].checked
    PROVE  /\ request' \in [Connections -> Requests]
           /\ \A j \in Connections : request'[j].reply # "none" => request'[j].todo = <<>>
           /\ Checked'
  <1> DEFINE q == request[k]
             r == [q EXCEPT !.todo = Tail(@), !.known = known, !.checked = checked]
  <1>1. q \in Requests /\ (q.reply # "none" => q.todo = <<>>)
    BY DEF TypeOK, Requests
  <1>2. /\ r \in Requests /\ r.path = q.path /\ r.known = known
        /\ r.checked = checked /\ r.todo = Tail(q.todo) /\ r.reply = "none"
    <2>1. Tail(q.todo) \in Seq(Middlewares)
      BY <1>1 DEF Requests
    <2> QED BY <2>1, <1>1 DEF Requests
  <1>3. request' = [request EXCEPT ![k] = r]
    BY DEF TypeOK
  <1>4. OnItsWay(q)
    BY DEF Checked
  <1>5. Unchecked(q.todo) /\ Head(q.todo) = "auth" => Unchecked(Tail(q.todo))
    BY <1>1 DEF Unchecked, Requests
  <1>6. "limit" # "auth"
    OBVIOUS
  <1> HIDE DEF q, r
  <1>7. OnItsWay(r)
    <2>1. CASE Head(q.todo) = "limit" /\ known = q.known /\ checked
      BY <2>1, <1>2, <1>4, <1>6, Zenon DEF OnItsWay, q
    <2>2. CASE Head(q.todo) = "auth" /\ known /\ credentials /\ checked = q.checked
      BY <2>2, <1>2, <1>4, <1>5, Zenon DEF OnItsWay, q
    <2> QED BY <2>1, <2>2 DEF q
  <1> QED BY <1>2, <1>3, <1>7, RequestStep

\* Adding one to an entry of a map of counts.
LEMMA Bump ==
    ASSUME NEW S, NEW f \in [S -> Nat], NEW x \in S, NEW g, g = [f EXCEPT ![x] = @ + 1]
    PROVE  /\ g \in [S -> Nat]
           /\ \A y \in S : g[y] = IF y = x THEN f[y] + 1 ELSE f[y]
  OBVIOUS

\* The limiter counts a request and lets it pass or not: the counts stay exact.
LEMMA LimitStep ==
    ASSUME IndInv, NEW k \in Connections, LimitRate(k)
    PROVE  /\ requestsMap' \in Counts /\ asked' \in Counts /\ passed' \in Counts
           /\ CountsAreKept' /\ PassedExactly'
  <1> DEFINE p == request[k].path
             key == Key(k)
  <1>1. p \in Paths /\ key = <<p, request[k].client>> /\ key \in Keys
    BY DEF IndInv, TypeOK, Key, Keys
  <1>0. Counts = [Keys -> Nat]
    BY DEF Counts, Keys
  <1>2. \A x \in Keys : requestsMap[x] \in Nat /\ asked[x] \in Nat /\ passed[x] \in Nat
    BY DEF IndInv, TypeOK, Counts, Keys
  <1>3. /\ asked' = [asked EXCEPT ![key] = @ + 1]
        /\ asked' \in Counts
        /\ \A x \in Keys : asked'[x] = IF x = key THEN asked[x] + 1 ELSE asked[x]
    <2>1. asked' = [asked EXCEPT ![key] = @ + 1]
      BY DEF LimitRate
    <2>2. asked \in [Keys -> Nat]
      BY DEF IndInv, TypeOK, Counts, Keys
    <2> HIDE DEF key, p
    <2> QED BY <2>1, <2>2, <1>1, <1>0, Bump
  <1>4. limits' = limits
    BY DEF limits
  <1>5. \A q \in DOMAIN limits, c \in Clients : <<q, c>> \in Keys
    BY Basics DEF Keys
  <1> DEFINE Pass == /\ passed' \in Counts
                     /\ \A x \in Keys : passed'[x] = IF x = key THEN passed[x] + 1 ELSE passed[x]
  <1>6. CASE p \notin DOMAIN limits
    <2>1. requestsMap' = requestsMap /\ passed' = [passed EXCEPT ![key] = @ + 1]
      BY <1>6 DEF LimitRate
    <2>2. Pass
      <3>1. passed \in [Keys -> Nat]
        BY DEF IndInv, TypeOK, Counts, Keys
      <3>2. passed' = [passed EXCEPT ![key] = @ + 1]
        BY <2>1
      <3> HIDE DEF key, p
      <3> QED BY <3>1, <3>2, <1>1, <1>0, Bump
    <2>3. \A q \in DOMAIN limits, c \in Clients : <<q, c>> # key
      BY <1>1, <1>6
    <2>4. CountsAreKept'
      BY <2>1, <2>3, <1>3, <1>4, <1>5 DEF IndInv, CountsAreKept
    <2>5. PassedExactly'
      BY <2>2, <2>3, <1>3, <1>4, <1>5 DEF IndInv, PassedExactly
    <2>6. requestsMap' \in Counts
      BY <2>1 DEF IndInv, TypeOK
    <2> QED BY <2>2, <2>4, <2>5, <2>6, <1>3
  <1>7. CASE p \in DOMAIN limits
    <2>1. requestsMap' = Counted(k)
      BY <1>7 DEF LimitRate
    <2>2. /\ requestsMap' \in Counts
          /\ \A x \in Keys : requestsMap'[x] = IF x = key THEN requestsMap[x] + 1 ELSE requestsMap[x]
      BY <2>1, <1>1, <1>2 DEF Counted, CountedKeys, Counts, Keys
    <2>3. CountsAreKept'
      BY <2>2, <1>3, <1>4, <1>5 DEF IndInv, CountsAreKept
    <2>4. requestsMap'[key] = asked[key] + 1
      BY <2>2, <1>1, <1>7 DEF IndInv, CountsAreKept, TypeOK
    <2>5. limits[p] \in Nat \ {0}
      BY <1>7, Basics
    <2>6. passed[key] = IF asked[key] < limits[p] THEN asked[key] ELSE limits[p] - 1
      BY <1>1, <1>7 DEF IndInv, PassedExactly, TypeOK
    <2>9. ASSUME \A x \in Keys : x # key => passed'[x] = passed[x],
                 passed'[key] = IF asked'[key] < limits[p] THEN asked'[key] ELSE limits[p] - 1
          PROVE  PassedExactly'
      <3> SUFFICES ASSUME NEW q \in DOMAIN limits, NEW c \in Clients
                   PROVE  passed'[<<q, c>>] =
                             IF asked'[<<q, c>>] < limits[q] THEN asked'[<<q, c>>] ELSE limits[q] - 1
        BY <1>4 DEF PassedExactly
      <3>1. <<q, c>> \in Keys
        BY <1>5
      <3>2. CASE <<q, c>> = key
        <4>1. q = p
          BY <3>2, <1>1
        <4> QED BY <4>1, <3>2, <2>9
      <3>3. CASE <<q, c>> # key
        <4>1. asked'[<<q, c>>] = asked[<<q, c>>] /\ passed'[<<q, c>>] = passed[<<q, c>>]
          BY <3>1, <3>3, <2>9, <1>3
        <4>2. passed[<<q, c>>] = IF asked[<<q, c>>] < limits[q] THEN asked[<<q, c>>] ELSE limits[q] - 1
          BY DEF IndInv, PassedExactly
        <4> QED BY <4>1, <4>2
      <3> QED BY <3>2, <3>3
    <2>7. CASE Exceeds(requestsMap'[key], limits[p])
      <3>1. passed' = passed
        BY <1>7, <2>7 DEF LimitRate
      <3>2. passed[key] = IF asked'[key] < limits[p] THEN asked'[key] ELSE limits[p] - 1
        BY <2>4, <2>5, <2>6, <2>7, <1>1, <1>2, <1>3 DEF Exceeds
      <3>3. \A x \in Keys : x # key => passed'[x] = passed[x]
        BY <3>1
      <3>4. PassedExactly'
        BY <3>1, <3>2, <3>3, <2>9
      <3> QED BY <3>1, <3>4, <2>2, <2>3, <1>3 DEF IndInv, TypeOK
    <2>8. CASE ~Exceeds(requestsMap'[key], limits[p])
      <3>1. passed' = [passed EXCEPT ![key] = @ + 1]
        BY <1>7, <2>8 DEF LimitRate
      <3>2. Pass
        <4>1. passed \in [Keys -> Nat]
          BY DEF IndInv, TypeOK, Counts, Keys
        <4> HIDE DEF key, p
        <4> QED BY <4>1, <3>1, <1>1, <1>0, Bump
      <3>3. passed'[key] = IF asked'[key] < limits[p] THEN asked'[key] ELSE limits[p] - 1
        BY <3>2, <2>4, <2>5, <2>6, <2>8, <1>1, <1>2, <1>3 DEF Exceeds
      <3>4. PassedExactly'
        BY <3>2, <3>3, <2>9
      <3> QED BY <3>2, <3>4, <2>2, <2>3, <1>3
    <2> QED BY <2>7, <2>8
  <1> QED BY <1>6, <1>7

\* A reset forgets the requests of its version and of no other.
LEMMA ResetStep ==
    ASSUME IndInv, NEW v \in Versions, ResetMap(v)
    PROVE  /\ requestsMap' \in Counts /\ asked' \in Counts /\ passed' \in Counts
           /\ CountsAreKept' /\ PassedExactly'
  <1>1. \A x \in Keys : requestsMap[x] \in Nat /\ asked[x] \in Nat /\ passed[x] \in Nat
    BY DEF IndInv, TypeOK, Counts, Keys
  <1>2. requestsMap' \in Counts /\ asked' \in Counts /\ passed' \in Counts
    BY <1>1 DEF ResetMap, Counts, Keys
  <1>3. \A x \in Keys : /\ requestsMap'[x] = IF Of(v, x) THEN 0 ELSE requestsMap[x]
                        /\ asked'[x] = IF Of(v, x) THEN 0 ELSE asked[x]
                        /\ passed'[x] = IF Of(v, x) THEN 0 ELSE passed[x]
    BY DEF ResetMap, Keys
  <1>4. \A q \in DOMAIN limits, c \in Clients : <<q, c>> \in Keys
    BY Basics DEF Keys
  <1>5. CountsAreKept'
    BY <1>3, <1>4 DEF IndInv, CountsAreKept, limits
  <1>6. PassedExactly'
    <2> SUFFICES ASSUME NEW q \in DOMAIN limits, NEW c \in Clients
                 PROVE  passed'[<<q, c>>] =
                           IF asked'[<<q, c>>] < limits[q] THEN asked'[<<q, c>>] ELSE limits[q] - 1
      BY DEF PassedExactly, limits
    <2>1. limits[q] \in Nat \ {0} /\ <<q, c>> \in Keys
      BY <1>4, Basics
    <2>2. passed[<<q, c>>] = IF asked[<<q, c>>] < limits[q] THEN asked[<<q, c>>] ELSE limits[q] - 1
      BY DEF IndInv, PassedExactly
    <2> QED BY <2>1, <2>2, <1>3
  <1> QED BY <1>2, <1>5, <1>6

LEMMA NextInv == IndInv /\ [Next]_vars => IndInv'
  <1> SUFFICES ASSUME IndInv, [Next]_vars PROVE IndInv'
    OBVIOUS
  <1> DEFINE RequestsInv == /\ request' \in [Connections -> Requests]
                            /\ \A j \in Connections : request'[j].reply # "none" => request'[j].todo = <<>>
                            /\ Checked'
             CountsInv == /\ requestsMap' \in Counts /\ asked' \in Counts /\ passed' \in Counts
                          /\ CountsAreKept' /\ PassedExactly'
             PageInv == page' \in {"closed", "opened", "shown", "blank"}
             Same == credentials' = credentials /\ swagger' = swagger
  <1> USE DEF IndInv
  <1>1. ASSUME RequestsInv, CountsInv, PageInv, Same PROVE IndInv'
    BY <1>1 DEF TypeOK, Requests
  <1>2. ASSUME UNCHANGED <<requestsMap, history>> PROVE CountsInv
    BY <1>2 DEF TypeOK, history, CountsAreKept, PassedExactly, limits
  <1>3. ASSUME UNCHANGED page PROVE PageInv
    BY <1>3 DEF TypeOK
  <1>4. ASSUME UNCHANGED <<server, request>> PROVE RequestsInv
    BY <1>4 DEF TypeOK, Requests, server, Checked, OnItsWay
  <1> HIDE DEF RequestsInv, CountsInv, PageInv
  <1>5. ASSUME NEW k \in Connections, NEW c \in Clients, NEW v \in Versions, NEW e \in Endpoints,
               Arrive(k, c, v, e)
        PROVE  IndInv'
    <2> USE <1>5 DEF Arrive
    <2>1. CASE ~Registered(e)
      <3>1. Abort(k, "404")
        BY <2>1 DEF Abort
      <3>2. RequestsInv
        BY <3>1, AbortStep DEF server, Replies, RequestsInv
      <3> QED BY <3>2, <1>1, <1>2, <1>3 DEF server
    <2>2. CASE Registered(e)
      <3> DEFINE r == [path |-> <<v, e>>, client |-> c, known |-> FALSE, checked |-> FALSE,
                       todo |-> Chain(e), reply |-> "none"]
      <3>1. /\ r \in Requests
            /\ r.path[2] = e /\ r.todo = Chain(e) /\ r.reply = "none" /\ ~r.checked
        BY ChainType DEF Requests, Paths, Replies
      <3>2. request' = [request EXCEPT ![k] = r]
        BY <2>2
      <3> HIDE DEF r
      <3>3. /\ Config[e].found => Config[e].open
            /\ Config[e].found /\ Config[e].secured => Head(r.todo) = "auth"
            /\ Config[e].found /\ Config[e].rateLimit > 0 => Unchecked(r.todo)
        BY <2>2, <3>1, ChainType DEF Registered
      <3>4. OnItsWay(r)
        BY <3>1, <3>3, Zenon DEF OnItsWay
      <3>5. RequestsInv
        BY <3>1, <3>2, <3>4, RequestStep DEF server, RequestsInv
      <3> QED BY <3>5, <1>1, <1>2, <1>3 DEF server
    <2> QED BY <2>1, <2>2
  <1>6. ASSUME NEW k \in Connections, Authenticate(k) PROVE IndInv'
    <2> USE <1>6 DEF Authenticate
    <2>1. RequestsInv
      <3>1. ASSUME NEW st \in {"401", "500"}, Abort(k, st) PROVE RequestsInv
        BY <3>1, AbortStep DEF server, Replies, RequestsInv
      <3>2. CASE /\ credentials
                 /\ request' = [request EXCEPT ![k].todo = Tail(@), ![k].known = TRUE]
        <4>1. request[k].checked \in BOOLEAN /\ request \in [Connections -> Requests]
          BY DEF TypeOK, Requests
        <4>2. request' = [request EXCEPT ![k].todo = Tail(@), ![k].known = TRUE,
                                         ![k].checked = request[k].checked]
          BY <3>2, <4>1 DEF Requests
        <4> QED BY <3>2, <4>1, <4>2, ContinueStep DEF server, Turn, RequestsInv
      <3> QED BY <3>1, <3>2
    <2> QED BY <2>1, <1>1, <1>2, <1>3 DEF server
  <1>7. ASSUME NEW k \in Connections, LimitRate(k) PROVE IndInv'
    <2> USE <1>7
    <2>1. CountsInv
      BY LimitStep DEF CountsInv
    <2>2. Turn(k, "limit") /\ UNCHANGED <<server, page>> /\ (LetPass(k) \/ Abort(k, "429"))
      BY DEF LimitRate
    <2>3. RequestsInv
      <3>1. CASE Abort(k, "429")
        BY <3>1, <2>2, AbortStep DEF server, Replies, RequestsInv
      <3>2. CASE LetPass(k)
        <4>1. request[k].known \in BOOLEAN /\ request \in [Connections -> Requests]
          BY DEF TypeOK, Requests
        <4>2. request' = [request EXCEPT ![k].todo = Tail(@), ![k].known = request[k].known,
                                         ![k].checked = TRUE]
          BY <3>2, <4>1 DEF LetPass, Requests
        <4> QED BY <4>1, <4>2, <2>2, ContinueStep DEF server, Turn, RequestsInv
      <3> QED BY <2>2, <3>1, <3>2
    <2> QED BY <2>1, <2>2, <2>3, <1>1, <1>3 DEF server
  <1>8. ASSUME NEW k \in Connections, Handle(k) PROVE IndInv'
    <2>1. RequestsInv
      BY <1>8, AbortStep DEF Handle, server, Replies, RequestsInv
    <2> QED BY <2>1, <1>1, <1>2, <1>3, <1>8 DEF server, Handle
  <1>9. ASSUME NEW v \in Versions, ResetMap(v) PROVE IndInv'
    <2>1. CountsInv
      BY <1>9, ResetStep DEF CountsInv
    <2> QED BY <2>1, <1>1, <1>3, <1>4, <1>9 DEF server, ResetMap
  <1>10. ASSUME Idle, PageInv PROVE IndInv'
    BY <1>10, <1>1, <1>2, <1>4 DEF Idle, server
  <1>11. ASSUME OpenPage PROVE IndInv'
    <2>1. PageInv
      BY <1>11 DEF OpenPage, PageInv
    <2> QED BY <2>1, <1>10, <1>11 DEF OpenPage
  <1>12. ASSUME NEW got \in SUBSET Scripts, OnLoad(got) PROVE IndInv'
    <2>1. PageInv
      BY <1>12 DEF OnLoad, PageInv
    <2> QED BY <2>1, <1>10, <1>12 DEF OnLoad
  <1>13. ASSUME Leave PROVE IndInv'
    <2>1. PageInv
      BY <1>13 DEF Leave, PageInv
    <2> QED BY <2>1, <1>10, <1>13 DEF Leave
  <1>14. ASSUME UNCHANGED vars PROVE IndInv'
    BY <1>14, <1>1, <1>2, <1>3, <1>4 DEF vars, server, history
  <1>15. ASSUME NEW k \in Connections, NEW c \in Clients, NEW e \in Endpoints, TryItOut(k, c, e)
         PROVE  IndInv'
    BY <1>15, <1>5, ServerConfig DEF TryItOut
  <1> QED
    BY <1>5, <1>6, <1>7, <1>8, <1>9, <1>11, <1>12, <1>13, <1>14, <1>15 DEF Next, Step

LEMMA Invariance == Spec => []IndInv
  BY InitInv, NextInv, PTL DEF Spec
-----------------------------------------------------------------------------
\* Requests, counts and the page keep their types and an answered request runs
\* no further, for every configuration of the routes.
THEOREM TypeCorrect == Spec => []TypeOK
  <1>1. IndInv => TypeOK
    BY DEF IndInv
  <1> QED BY <1>1, Invariance, PTL

\* The limiter never lets a client through more often than the limit says and
\* refuses none below it, for every number of clients, endpoints and requests
\* under way.
THEOREM LimiterKeepsLimit == Spec => []LimitIsKept
  <1>1. IndInv => LimitIsKept
    <2> SUFFICES ASSUME IndInv, NEW p \in DOMAIN limits, NEW c \in Clients
                 PROVE  /\ passed[<<p, c>>] <= limits[p]
                        /\ asked[<<p, c>>] < limits[p] => passed[<<p, c>>] = asked[<<p, c>>]
      BY DEF LimitIsKept
    <2>1. limits[p] \in Nat \ {0} /\ asked[<<p, c>>] \in Nat
      BY Basics DEF IndInv, TypeOK, Counts
    <2>2. passed[<<p, c>>] = IF asked[<<p, c>>] < limits[p] THEN asked[<<p, c>>] ELSE limits[p] - 1
      BY DEF IndInv, PassedExactly
    <2> QED BY <2>1, <2>2
  <1> QED BY <1>1, Invariance, PTL

\* No request reaches the handler of an endpoint past the configuration: past
\* a closed route, past the authentication or past the limiter.
THEOREM ConfigurationIsEnforced == Spec => []HandledAsConfigured
  <1>1. IndInv => HandledAsConfigured
    <2> SUFFICES ASSUME IndInv PROVE HandledAsConfigured
      OBVIOUS
    <2>1. \A k \in Connections :
            Turn(k, "handler") => request[k].todo # <<>> /\ Head(request[k].todo) = "handler"
      BY Zenon DEF Turn
    <2>2. \A k \in Connections : Unchecked(request[k].todo) => Head(request[k].todo) # "handler"
      BY DEF Unchecked
    <2>3. "handler" # "auth"
      OBVIOUS
    <2>4. Checked
      BY DEF IndInv
    <2> QED BY <2>1, <2>2, <2>3, <2>4, Zenon DEF Checked, OnItsWay, HandledAsConfigured
  <1> QED BY <1>1, Invariance, PTL
=============================================================================
