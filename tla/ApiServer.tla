------------------------------ MODULE ApiServer ------------------------------
(***************************************************************************)
(* The web server of the proxy (api/api.go, api/groups/baseGroup.go and     *)
(* api/middleware/rateLimiter.go): which handlers a request passes before    *)
(* the endpoint's own, how the requests of a client are counted against the  *)
(* limit of an endpoint, and the goroutines that reset the counts.  With     *)
(* --start-swagger-ui the server also serves the documentation page, whose   *)
(* initializer (config/swagger/swagger-initializer.js) runs in a browser.    *)
(*                                                                           *)
(* Every version of the API has a limiter of its own.  The metrics           *)
(* middleware, which only counts what passes, and the loggers are left out.  *)
(***************************************************************************)
EXTENDS Naturals, Sequences

CONSTANTS Clients,      \* client IPs
          Connections,  \* requests that may be under way at one time
          Versions,     \* prefixes of the registered versions, Root among them
          Root,         \* the empty prefix: version v1.0 as the default one
          Endpoints,    \* /group/path of every handler
          Config,       \* the routes of apiConfig/v1_0.toml
          MaxCount      \* bound: requests of a client between two resets

RouteConfig == [found : BOOLEAN, open : BOOLEAN, secured : BOOLEAN, rateLimit : Nat]

ASSUME ServerConfig ==
    /\ Root \in Versions
    /\ Config \in [Endpoints -> RouteConfig]
    /\ Endpoints # {}
    /\ Clients # {}
    /\ MaxCount \in Nat

VARIABLES
    credentials,  \* the server has credentials (credentials.toml)
    swagger,      \* --start-swagger-ui was given
    request,      \* the request of a connection and the handlers still to run;
                  \*   history: known users, checked by the limiter
    requestsMap,  \* the limiters' counts: 0 stands for no entry
    asked,        \* history: requests a client made since the last reset
    passed,       \* history: those of them that the limiter let pass
    page          \* the documentation page in a browser

server  == <<credentials, swagger>>
history == <<asked, passed>>
vars    == <<credentials, swagger, request, requestsMap, asked, passed, page>>

Paths   == Versions \X Endpoints
Middlewares == {"auth", "limit", "handler"}
Replies == {"none", "200", "401", "404", "429", "500"}
Counts  == [Paths \X Clients -> Nat]

NoRequest == [path   |-> <<Root, CHOOSE e \in Endpoints : TRUE>>,
              client |-> CHOOSE c \in Clients : TRUE,
              known |-> FALSE, checked |-> FALSE, todo |-> <<>>, reply |-> "none"]

Scripts == {"bundle", "preset", "initializer"}

Init == /\ credentials \in BOOLEAN
        /\ swagger \in BOOLEAN
        /\ request = [k \in Connections |-> NoRequest]
        /\ requestsMap = [key \in Paths \X Clients |-> 0]
        /\ asked = requestsMap
        /\ passed = requestsMap
        /\ page = "closed"
-----------------------------------------------------------------------------
(* Routes *)

\* Mutant: a secured endpoint without its limit.
Chain_AuthOrLimit(e) ==
    IF ~Config[e].found THEN <<"handler">>
    ELSE IF Config[e].secured THEN <<"auth", "handler">>
    ELSE IF Config[e].rateLimit > 0 THEN <<"limit", "handler">>
    ELSE <<"handler">>

\* RegisterRoutes: an endpoint the configuration does not name gets its own
\* handler only; the others what the configuration asks for.
Chain(e) ==
    IF ~Config[e].found THEN <<"handler">>
    ELSE (IF Config[e].secured THEN <<"auth">> ELSE <<>>)
         \o (IF Config[e].rateLimit > 0 THEN <<"limit">> ELSE <<>>)
         \o <<"handler">>

Registered(e) == Config[e].found => Config[e].open

\* getLimitsMapForVersion names the endpoints without the version's prefix,
\* whichever version the limiter is for.
limits ==
    [p \in {<<Root, e>> : e \in {x \in Endpoints : Config[x].found /\ Config[x].rateLimit > 0}}
        |-> Config[p[2]].rateLimit]

\* A request arrives; its path has a handler or it is not found.
Arrive(k, c, v, e) ==
    /\ request[k].todo = <<>>
    /\ request' = [request EXCEPT ![k] =
        IF ~Registered(e) THEN [NoRequest EXCEPT !.reply = "404"]
        ELSE [path |-> <<v, e>>, client |-> c, known |-> FALSE, checked |-> FALSE,
              todo |-> Chain(e), reply |-> "none"]]
    /\ UNCHANGED <<server, requestsMap, history, page>>
-----------------------------------------------------------------------------
(* Handlers *)

Turn(k, h) == request[k].todo # <<>> /\ Head(request[k].todo) = h

LetPass(k)   == request' = [request EXCEPT ![k].todo = Tail(@), ![k].checked = TRUE]
Abort(k, st) == request' = [request EXCEPT ![k] = [NoRequest EXCEPT !.reply = st]]

\* getAuthenticationFunc: the user and password of the request are those of
\* the server or not.  Without credentials on the server nobody passes.
Authenticate(k) ==
    /\ Turn(k, "auth")
    /\ \/ ~credentials /\ Abort(k, "500")
       \/ credentials /\ Abort(k, "401")
       \/ /\ credentials
          /\ request' = [request EXCEPT ![k].todo = Tail(@), ![k].known = TRUE]
    /\ UNCHANGED <<server, requestsMap, history, page>>

Key(k) == <<request[k].path, request[k].client>>

\* Mutant: one count for all clients.
CountedKeys_AllClients(k) == {<<request[k].path, c>> : c \in Clients}

\* The entry addInRequestsMap increments.
CountedKeys(k) == {Key(k)}

Exceeds(n, limit) == n >= limit

Counted(k) == [key \in Paths \X Clients |->
                  requestsMap[key] + (IF key \in CountedKeys(k) THEN 1 ELSE 0)]

\* rateLimiter.MiddlewareHandlerFunc: add and compare in one step, because
\* addInRequestsMap returns the count it made under the lock.
LimitRate(k) ==
    LET p == request[k].path
    IN /\ Turn(k, "limit")
       /\ asked[Key(k)] < MaxCount
       /\ asked' = [asked EXCEPT ![Key(k)] = @ + 1]
       /\ \/ /\ p \notin DOMAIN limits
             /\ LetPass(k)
             /\ passed' = [passed EXCEPT ![Key(k)] = @ + 1]
             /\ UNCHANGED requestsMap
          \/ /\ p \in DOMAIN limits
             /\ requestsMap' = Counted(k)
             /\ \/ /\ Exceeds(requestsMap'[Key(k)], limits[p])
                   /\ Abort(k, "429")
                   /\ UNCHANGED passed
                \/ /\ ~Exceeds(requestsMap'[Key(k)], limits[p])
                   /\ LetPass(k)
                   /\ passed' = [passed EXCEPT ![Key(k)] = @ + 1]
       /\ UNCHANGED <<server, page>>

\* The endpoint's own handler answers.
Handle(k) ==
    /\ Turn(k, "handler")
    /\ Abort(k, "200")
    /\ UNCHANGED <<server, requestsMap, history, page>>

Of(v, key) == key[1][1] = v

\* startRateLimiterReset: the goroutine of one version's limiter wakes up.
\* Nothing aligns it with requests on their way or with the other versions.
ResetMap(v) ==
    /\ requestsMap' = [key \in Paths \X Clients |-> IF Of(v, key) THEN 0 ELSE requestsMap[key]]
    /\ asked' = [key \in Paths \X Clients |-> IF Of(v, key) THEN 0 ELSE asked[key]]
    /\ passed' = [key \in Paths \X Clients |-> IF Of(v, key) THEN 0 ELSE passed[key]]
    /\ UNCHANGED <<server, request, page>>
-----------------------------------------------------------------------------
(* The documentation page *)

Idle == UNCHANGED <<server, request, requestsMap, history>>

\* Served by the static middleware, in front of every route and its limit.
OpenPage ==
    /\ page = "closed"
    /\ swagger
    /\ page' = "opened"
    /\ Idle

\* The browser has tried all the scripts of index.html and got some of them.
\* window.onload: no handler when the initializer is missing, a ReferenceError
\* when one of the two libraries it names is.  What the interface looks like is
\* left out.
OnLoad(got) ==
    /\ page = "opened"
    /\ \/ got = Scripts /\ page' = "shown"
       \/ got # Scripts /\ page' = "blank"
    /\ Idle

\* External: the reader goes away.
Leave == /\ page \in {"shown", "blank"}
         /\ page' = "closed"
         /\ Idle

\* "Try it out": openapi.json names no server, so the page's requests go to
\* the default version like any other.
TryItOut(k, c, e) == page = "shown" /\ Arrive(k, c, Root, e)
-----------------------------------------------------------------------------
Step(k) == Authenticate(k) \/ LimitRate(k) \/ Handle(k)

Next == \/ \E k \in Connections, c \in Clients, e \in Endpoints :
              \/ \E v \in Versions : Arrive(k, c, v, e)
              \/ TryItOut(k, c, e)
        \/ \E k \in Connections : Step(k)
        \/ \E v \in Versions : ResetMap(v)
        \/ OpenPage
        \/ \E got \in SUBSET Scripts : OnLoad(got)
        \/ Leave

Spec == Init /\ [][Next]_vars
-----------------------------------------------------------------------------
(* Correctness *)

\* Every variable holds a value of its type, and nothing more runs for a
\* request that was answered.
TypeOK ==
    /\ credentials \in BOOLEAN
    /\ swagger \in BOOLEAN
    /\ request \in [Connections -> [path : Paths, client : Clients, known : BOOLEAN,
                                    checked : BOOLEAN, todo : Seq(Middlewares), reply : Replies]]
    /\ \A k \in Connections : request[k].reply # "none" => request[k].todo = <<>>
    /\ requestsMap \in Counts
    /\ asked \in Counts
    /\ passed \in Counts
    /\ page \in {"closed", "opened", "shown", "blank"}

\* Between two resets of the default version's limiter a client never gets
\* through to a limited endpoint more often than the limit says, and no client
\* below the limit is refused: overlapping requests are all counted, those of
\* other clients, endpoints and versions are not, and no restriction outlives a
\* reset.  The request that reaches the limit is left open: config.toml (lines
\* 33 to 36) lets it pass, rateLimiter_test.go and the code refuse it.  The
\* paths of the other versions are not in the map of limits and have none.
LimitIsKept ==
    \A p \in DOMAIN limits, c \in Clients :
        /\ passed[<<p, c>>] <= limits[p]
        /\ asked[<<p, c>>] < limits[p] => passed[<<p, c>>] = asked[<<p, c>>]

\* An endpoint that the configuration closes, secures or limits is never
\* reached without that, under any version: it is open, a secured one is
\* reached with valid credentials only, and a limited one only by a request
\* that its version's limiter has seen and let pass.
HandledAsConfigured ==
    \A k \in Connections :
        LET e == request[k].path[2]
        IN Turn(k, "handler") /\ Config[e].found =>
               /\ Config[e].open
               /\ Config[e].secured => credentials /\ request[k].known
               /\ Config[e].rateLimit > 0 => request[k].checked
=============================================================================
