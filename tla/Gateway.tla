------------------------------ MODULE Gateway ------------------------------
(***************************************************************************)
(* The API gateway: the router, the rate limiter, the RBAC decision over   *)
(* the route table, and the forwarding of what it lets through to an       *)
(* upstream service that may be slow or unreachable.  Each request         *)
(* occupies a slot.  A path is an opaque value; Starts says which prefixes *)
(* it begins with.                                                         *)
(***************************************************************************)
EXTENDS Naturals, Sequences, FiniteSets, FiniteSetsExt

CONSTANTS
    Clients,        \* client IP addresses
    Methods,        \* HTTP methods
    Paths,          \* request paths
    AuthPaths,      \* /auth/register, /auth/login, /auth/refresh
    HealthPath,     \* /health
    Roles,          \* role names a token may carry
    Settings,       \* the settings a deployment may have: [prefix, url], each
                    \* indexed by service
    Root,           \* the prefix "/"
    Starts,         \* the pairs <<path, prefix>> with path.startswith(prefix)
    Limit,          \* GATEWAY_RATE_LIMIT, requests per window
    UpstreamStatus, \* status codes an upstream may answer with
    Slots,          \* requests in flight at once (a bound)
    MayCrash

\* The services behind the gateway, and the five whose prefix is a setting.
Others == {"vehicles", "assignments", "incidents", "maintenance", "reports"}
Services == Others \cup {"auth", "role"}

\* A RouteEntry; a service with an empty URL is one the deployment lacks.
Entry(x, s, prefix, roles) == [prefix |-> prefix, roles |-> roles, url |-> x.url[s]]

\* RouteRegistry._build_routes, in the order of the code.
BuildRoutes(x) ==
    LET shared == {"EMPLEADO_ASIGNACIONES", "EMPLEADO_REPORTES", "EMPLEADO_VEHICULOS",
                   "ADMINISTRADOR"}
        Other(s, roles) == Entry(x, s, x.prefix[s], roles)
    IN  <<Entry(x, "auth", "/auth", {}),
          Entry(x, "role", "/roles", {"ADMINISTRADOR"}),
          Other("vehicles", shared \cup {"EMPLEADO_MANTENIMIENTO", "EMPLEADO_INCIDENTES"}),
          Other("assignments", shared),
          Other("incidents", shared \cup {"EMPLEADO_MANTENIMIENTO", "EMPLEADO_INCIDENTES"}),
          Other("maintenance", (shared \ {"EMPLEADO_ASIGNACIONES"})
                                    \cup {"EMPLEADO_MANTENIMIENTO"}),
          Other("reports", {"EMPLEADO_REPORTES", "ADMINISTRADOR"})>>

Tables == {BuildRoutes(x) : x \in Settings}

ASSUME PathAssumption == AuthPaths \cup {HealthPath} \subseteq Paths
ASSUME RequestAssumption == Clients # {} /\ Methods # {}
ASSUME LimitAssumption == Limit \in Nat
ASSUME StatusAssumption == UpstreamStatus \subseteq 200 .. 599
ASSUME RootAssumption == \A p \in Paths : <<p, Root>> \in Starts
\* The prefixes come from settings; those of one deployment do not overlap, and
\* there is one fallback at most.
ASSUME PrefixFree ==
    \A t \in Tables : \A i, j \in DOMAIN t : \A p \in Paths :
        /\ <<p, t[i].prefix>> \in Starts /\ <<p, t[j].prefix>> \in Starts
        /\ t[i].prefix = Root <=> t[j].prefix = Root
        => i = j

VARIABLES
    table,      \* the route table, built from the settings when the module loads
    pc,         \* the stage each request is at
    ask,        \* the request of each slot in use
    call,       \* the upstream call of each slot: none, sent, its answer arriving
                \* piece by piece, or its status code
    count,      \* requests counted in the current window, per client and path
    answer      \* status code of the last answer, 0 while there is none

vars == <<table, pc, ask, call, count, answer>>

\* No Authorization header, a token PyJWT or extract_claims refuses, or the
\* role claim of a good one (compared in upper case).
Token == {"absent", "invalid"} \cup Roles
Ask == [client : Clients, method : Methods, path : Paths, token : Token]
\* What an idle slot holds; no action reads it.
Unused == [client |-> CHOOSE c \in Clients : TRUE, method |-> CHOOSE m \in Methods : TRUE,
           path |-> HealthPath, token |-> "absent"]
NoCall == 0
Sent == 1
Arriving == 2
Status == {0, 200, 401, 403, 404, 405, 429, 503} \cup UpstreamStatus

TypeOK ==
    /\ table \in Tables
    /\ pc \in [Slots -> {"idle", "admit", "handle", "body", "forward", "waiting"}]
    /\ ask \in [Slots -> Ask]
    /\ call \in [Slots -> {NoCall, Sent, Arriving} \cup UpstreamStatus]
    /\ count \in [Clients \X Paths -> 0 .. Limit]
    /\ answer \in [Slots -> Status]

Init ==
    /\ table \in Tables
    /\ pc = [s \in Slots |-> "idle"]
    /\ ask = [s \in Slots |-> Unused]
    /\ call = [s \in Slots |-> NoCall]
    /\ count = [k \in Clients \X Paths |-> 0]
    /\ answer = [s \in Slots |-> 0]

-----------------------------------------------------------------------------
\* Routing.

\* The routers in the order main.py registers them, and what each matches.
Routers == <<"auth", "proxy", "health">>

Matches(h, a) ==
    CASE h = "auth" -> a.method = "POST" /\ a.path \in AuthPaths
      [] h = "proxy" -> a.method \in {"GET", "POST", "PUT", "PATCH", "DELETE"}
      [] h = "health" -> a.method = "GET" /\ a.path = HealthPath

\* The first router that matches: none or one.
HandlerOf(a) ==
    LET hits == {i \in DOMAIN Routers : Matches(Routers[i], a)}
    IN  IF hits = {} THEN {} ELSE {Routers[Min(hits)]}

\* Mutant: the root prefix is matched in its turn, not kept as a fallback.
FindRouteRootInTurn(path) ==
    LET hits == {i \in DOMAIN table : <<path, table[i].prefix>> \in Starts}
    IN  IF hits = {} THEN {} ELSE {table[Min(hits)]}

\* RouteRegistry.find_route: the first entry whose prefix the path starts with,
\* else the last entry with prefix "/", else none.
FindRoute(path) ==
    LET hits == {i \in DOMAIN table : table[i].prefix # Root
                                        /\ <<path, table[i].prefix>> \in Starts}
        fallback == {i \in DOMAIN table : table[i].prefix = Root}
    IN  IF hits # {} THEN {table[Min(hits)]}
        ELSE IF fallback # {} THEN {table[Max(fallback)]} ELSE {}

IsPublic(route) == route.roles = {}

AllowsRole(route, token) == token \in route.roles

\* RBACPolicy.evaluate and the status proxy_request gives a refusal.
Forward == 0

Decision(a) ==
    LET routes == FindRoute(a.path)
    IN  IF routes = {} THEN 404
        ELSE LET route == CHOOSE r \in routes : TRUE
             IN  IF IsPublic(route) \/ AllowsRole(route, a.token) THEN Forward
                 ELSE IF a.token = "absent" THEN 401 ELSE 403

\* The upstream base URL is empty or the key unknown.
Misconfigured(a) == \E route \in FindRoute(a.path) : route.url = ""

-----------------------------------------------------------------------------
Finish(s, code) ==
    /\ pc' = [pc EXCEPT ![s] = "idle"]
    /\ call' = [call EXCEPT ![s] = NoCall]
    /\ ask' = [ask EXCEPT ![s] = Unused]
    /\ answer' = [answer EXCEPT ![s] = code]

Goto(s, next) ==
    /\ pc' = [pc EXCEPT ![s] = next]
    /\ UNCHANGED <<ask, call, answer>>

Receive(s) ==
    /\ pc[s] = "idle"
    /\ \E a \in Ask : ask' = [ask EXCEPT ![s] = a]
    /\ pc' = [pc EXCEPT ![s] = "admit"]
    /\ answer' = [answer EXCEPT ![s] = 0]
    /\ UNCHANGED <<call, count>>

\* What a request is counted under.
Counter(a) == <<a.client, a.path>>

\* Mutant: the limit is compared after the count, off by one.
AdmitOneMore(s) ==
    /\ pc[s] = "admit"
    /\ \/ HandlerOf(ask[s]) = {} /\ Finish(s, 405) /\ UNCHANGED count
       \/ /\ HandlerOf(ask[s]) # {}
          /\ count[Counter(ask[s])] > Limit
          /\ Finish(s, 429) /\ UNCHANGED count
       \/ /\ HandlerOf(ask[s]) # {}
          /\ count[Counter(ask[s])] <= Limit
          /\ count' = [count EXCEPT ![Counter(ask[s])] = @ + 1]
          /\ Goto(s, "handle")

\* SlowAPIMiddleware: a fixed window per client and path; a request no handler
\* matches is not counted.
Admit(s) ==
    /\ pc[s] = "admit"
    /\ \/ HandlerOf(ask[s]) = {} /\ Finish(s, 405) /\ UNCHANGED count
       \/ /\ HandlerOf(ask[s]) # {}
          /\ count[Counter(ask[s])] = Limit
          /\ Finish(s, 429) /\ UNCHANGED count
       \/ /\ HandlerOf(ask[s]) # {}
          /\ count[Counter(ask[s])] < Limit
          /\ count' = [count EXCEPT ![Counter(ask[s])] = @ + 1]
          /\ Goto(s, "handle")

WindowEnds(k) ==
    /\ count[k] > 0
    /\ count' = [count EXCEPT ![k] = 0]
    /\ UNCHANGED <<pc, ask, call, answer>>

\* Mutant: the upstream's URL is resolved before the decision.
VerdictUrlFirst(a) ==
    CASE HandlerOf(a) = {"health"} -> 200
      [] HandlerOf(a) = {"auth"} -> Forward
      [] OTHER -> IF a.token = "invalid" THEN 401
                  ELSE IF Misconfigured(a) THEN 503 ELSE Decision(a)

\* health_check answers 200; the three auth endpoints are forwarded as they
\* are; proxy_request refuses a bad token even on a public route.
Verdict(a) ==
    CASE HandlerOf(a) = {"health"} -> 200
      [] HandlerOf(a) = {"auth"} -> Forward
      [] OTHER -> IF a.token = "invalid" THEN 401
                  ELSE IF Decision(a) # Forward THEN Decision(a)
                  ELSE IF Misconfigured(a) THEN 503 ELSE Forward

Handle(s) ==
    /\ pc[s] = "handle"
    /\ UNCHANGED count
    /\ \/ Verdict(ask[s]) = Forward /\ Goto(s, "body")
       \/ Verdict(ask[s]) # Forward /\ Finish(s, Verdict(ask[s]))

-----------------------------------------------------------------------------
\* Forwarding (httpx, timeout 10 s for auth and 30 s for the proxy: each bounds
\* one connect, write or read, not the whole call).

\* await request.body(), which waits for the client without a timeout.
ReadBody(s) == pc[s] = "body" /\ Goto(s, "forward") /\ UNCHANGED count

\* The client leaves before it has sent its body; there is nobody to answer.
Disconnect(s) == pc[s] = "body" /\ Finish(s, 0) /\ UNCHANGED count

Send(s) ==
    /\ pc[s] = "forward"
    /\ pc' = [pc EXCEPT ![s] = "waiting"]
    /\ call' = [call EXCEPT ![s] = Sent]
    /\ UNCHANGED <<ask, count, answer>>

Unreachable(s) ==
    /\ pc[s] = "forward"
    /\ Finish(s, 503)
    /\ UNCHANGED count

\* The upstream has sent a piece of its answer; every piece restarts the timeout.
BeginAnswer(s) ==
    /\ call[s] = Sent
    /\ call' = [call EXCEPT ![s] = Arriving]
    /\ UNCHANGED <<pc, ask, count, answer>>

\* The upstream's answer is complete; it may have acted on the call or not.
Upstream(s, code) ==
    /\ call[s] \in {Sent, Arriving}
    /\ call' = [call EXCEPT ![s] = code]
    /\ UNCHANGED <<pc, ask, count, answer>>

\* The upstream's status code, verbatim.
Relay(s) ==
    /\ pc[s] = "waiting" /\ call[s] \in UpstreamStatus
    /\ Finish(s, call[s])
    /\ UNCHANGED count

\* Mutant: AsyncClient(timeout=None).
GiveUpNever(s) == FALSE /\ UNCHANGED vars

\* httpx.RequestError: nothing came for the length of the timeout, or the
\* connection broke.  The upstream is not told: what it was executing it goes on
\* executing.
GiveUp(s) ==
    /\ pc[s] = "waiting"
    /\ Finish(s, 503)
    /\ UNCHANGED <<table, count>>

\* Counters live in the process and start again from zero.
Crash ==
    /\ MayCrash
    /\ pc' = [s \in Slots |-> "idle"]
    /\ call' = [s \in Slots |-> NoCall]
    /\ count' = [k \in Clients \X Paths |-> 0]
    /\ ask' = [s \in Slots |-> Unused]
    /\ answer' = [s \in Slots |-> IF pc[s] = "idle" THEN answer[s] ELSE 0]

Step(s) ==
    /\ Admit(s) \/ Handle(s) \/ Send(s) \/ Relay(s)
    /\ UNCHANGED table

Next ==
    /\ \/ \E s \in Slots : \/ Receive(s) \/ Step(s) \/ Unreachable(s) \/ GiveUp(s)
                          \/ ReadBody(s) \/ Disconnect(s) \/ BeginAnswer(s)
                          \/ \E code \in UpstreamStatus : Upstream(s, code)
       \/ \E k \in Clients \X Paths : WindowEnds(k)
       \/ Crash
    /\ UNCHANGED table

\* The event loop runs every request that waits for nobody, and httpx gives up
\* an upstream that stays silent.  Nothing forces a client to send its body or
\* to leave, nor httpx to give up an upstream whose answer keeps arriving.
Fairness ==
    \A s \in Slots : WF_vars(Step(s)) /\ WF_vars(call[s] = Sent /\ GiveUp(s))

Spec == Init /\ [][Next]_vars
FairSpec == Spec /\ Fairness

-----------------------------------------------------------------------------
\* Properties.

\* Stated over the set of entries, not over the order find_route scans them in:
\* some entry the path falls under is public or lists the token's role.
Permitted(a) ==
    \/ a.method = "POST" /\ a.path \in AuthPaths
    \/ /\ a.token # "invalid"
       /\ LET under == {i \in DOMAIN table : <<a.path, table[i].prefix>> \in Starts}
              closest == {i \in under : table[i].prefix = Root => \A j \in under : table[j].prefix = Root}
          IN  \E i \in closest : table[i].roles = {} \/ a.token \in table[i].roles

\* Nothing is sent to an upstream, executed by it, or left running there after
\* a timeout, that the route table does not permit (proxy_routes.py,
\* rbac_policy.py, route_registry.py).
OnlyPermittedForwarded ==
    \A s \in Slots : pc[s] \in {"body", "forward"} \/ call[s] # NoCall => Permitted(ask[s])

\* What the status codes tell a client about its own request: unless the code
\* is the one an upstream gave to this very request, a 401, 403 or 404 means
\* that the table does not permit it and no upstream saw it, a 405 or 429 that
\* no upstream saw it, and a 503 is never given to a request the table does not
\* permit.  Only an upstream, or the health check, says 200.
AnswersTruthful ==
    [][\A s \in Slots : answer'[s] \notin {answer[s], 0} =>
        \/ pc[s] = "waiting" /\ answer'[s] = call[s]
        \/ HandlerOf(ask[s]) = {"health"} /\ answer'[s] = 200
        \/ answer'[s] \in {401, 403, 404} /\ call[s] = NoCall /\ ~Permitted(ask[s])
        \/ answer'[s] \in {405, 429} /\ call[s] = NoCall
        \/ answer'[s] = 503 /\ Permitted(ask[s])]_vars

\* A slot whose clients send their bodies or leave, and whose upstreams end the
\* answers they begin, always becomes free again, however many upstreams are down
\* or stay silent (the httpx timeouts of auth_routes.py and proxy_routes.py).
EveryRequestAnswered ==
    \A s \in Slots :
        []<>(pc[s] # "body") /\ []<>(call[s] # Arriving) => (pc[s] # "idle" ~> pc[s] = "idle")

\* README.md: "GET /health", public, the liveness probe that docker-compose and
\* the Dockerfile call; main.py: "Returns 200 OK when the Gateway is running".
HealthAnswered200 ==
    [][\A s \in Slots :
        (pc[s] = "handle" /\ pc'[s] = "idle" /\ ask[s].method = "GET" /\ ask[s].path = HealthPath)
            => answer'[s] = 200]_vars
=============================================================================
