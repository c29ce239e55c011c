---------------------------- MODULE GatewayProofs ----------------------------
(***************************************************************************)
(* Proofs about Gateway, for every deployment and every number of requests *)
(* in flight.                                                              *)
(***************************************************************************)
EXTENDS Gateway, TLAPS

\* The first and the last entry of a route table that qualify.
LEMMA FirstOfSeven ==
    ASSUME NEW S \in SUBSET (1 .. 7), S # {}
    PROVE  Min(S) \in S /\ \A y \in S : Min(S) <= y
<1>1. \E x \in S : \A y \in S : x <= y
  <2>1. CASE 1 \in S
    BY <2>1
  <2>2. CASE 1 \notin S /\ 2 \in S
    BY <2>2
  <2>3. CASE 1 \notin S /\ 2 \notin S /\ 3 \in S
    BY <2>3
  <2>4. CASE {1, 2, 3} \cap S = {} /\ 4 \in S
    BY <2>4
  <2>5. CASE {1, 2, 3, 4} \cap S = {} /\ 5 \in S
    BY <2>5
  <2>6. CASE {1, 2, 3, 4, 5} \cap S = {} /\ 6 \in S
    BY <2>6
  <2>7. CASE {1, 2, 3, 4, 5} \cap S = {} /\ 6 \notin S
    <3>1. \A y \in S : y = 7
      <4>1. \A y \in S : y \in 1 .. 7 /\ y \notin {1, 2, 3, 4, 5, 6}
        BY <2>7
      <4> QED
        BY <4>1
    <3>2. 7 \in S
      BY <3>1
    <3> QED
      BY <3>1, <3>2
  <2> QED
    BY <2>1, <2>2, <2>3, <2>4, <2>5, <2>6, <2>7
<1> QED
  BY <1>1 DEF Min

\* Of seven positions at most, one is the last.
LEMMA LastOfSeven ==
    ASSUME NEW S \in SUBSET (1 .. 7), S # {}
    PROVE  Max(S) \in S
<1>1. \E x \in S : \A y \in S : x >= y
  <2>1. CASE 7 \in S
    BY <2>1
  <2>2. CASE 7 \notin S /\ 6 \in S
    BY <2>2
  <2>3. CASE 7 \notin S /\ 6 \notin S /\ 5 \in S
    BY <2>3
  <2>4. CASE {5, 6, 7} \cap S = {} /\ 4 \in S
    BY <2>4
  <2>5. CASE {4, 5, 6, 7} \cap S = {} /\ 3 \in S
    BY <2>5
  <2>6. CASE {3, 4, 5, 6, 7} \cap S = {} /\ 2 \in S
    BY <2>6
  <2>7. CASE {3, 4, 5, 6, 7} \cap S = {} /\ 2 \notin S
    <3>1. \A y \in S : y = 1
      <4>1. \A y \in S : y \in 1 .. 7 /\ y \notin {2, 3, 4, 5, 6, 7}
        BY <2>7
      <4> QED
        BY <4>1
    <3>2. 1 \in S
      BY <3>1
    <3> QED
      BY <3>1, <3>2
  <2> QED
    BY <2>1, <2>2, <2>3, <2>4, <2>5, <2>6, <2>7
<1> QED
  BY <1>1 DEF Max

\* A route table has the seven entries of _build_routes.
LEMMA TableEntries == ASSUME NEW t \in Tables PROVE DOMAIN t = 1 .. 7
  BY DEF Tables, BuildRoutes

-----------------------------------------------------------------------------
\* Routing.

\* The auth router comes first, so it has exactly the POSTs to its paths.
LEMMA AuthHandler ==
    ASSUME NEW a
    PROVE  HandlerOf(a) = {"auth"} <=> a.method = "POST" /\ a.path \in AuthPaths
<1> DEFINE hits == {i \in DOMAIN Routers : Matches(Routers[i], a)}
<1>1. /\ DOMAIN Routers = 1 .. 3
      /\ Routers[1] = "auth" /\ Routers[2] = "proxy" /\ Routers[3] = "health"
  BY DEF Routers
<1>2. hits \in SUBSET (1 .. 7)
  BY <1>1
<1>3. 1 \in hits <=> a.method = "POST" /\ a.path \in AuthPaths
  <2>1. Matches("auth", a) <=> a.method = "POST" /\ a.path \in AuthPaths
    BY DEF Matches
  <2>2. 1 \in hits <=> Matches("auth", a)
    BY <1>1
  <2> QED
    BY <2>1, <2>2
<1>4. CASE hits = {}
  BY <1>3, <1>4 DEF HandlerOf
<1>5. CASE hits # {}
  <2>1. HandlerOf(a) = {Routers[Min(hits)]}
    BY <1>5 DEF HandlerOf
  <2>2. Min(hits) \in hits /\ \A y \in hits : Min(hits) <= y
    BY <1>2, <1>5, FirstOfSeven
  <2>3. Min(hits) = 1 <=> 1 \in hits
    BY <1>1, <2>2
  <2>4. Routers[Min(hits)] = "auth" <=> Min(hits) = 1
    BY <1>1, <2>2
  <2> QED
    BY <1>3, <2>1, <2>3, <2>4
<1> QED
  BY <1>4, <1>5

\* The index of the entry a path falls under: the only non-root entry it
\* starts with, or else the fallback.
Under(path) == {i \in DOMAIN table : <<path, table[i].prefix>> \in Starts}
Closest(path) ==
    {i \in Under(path) : table[i].prefix = Root => \A j \in Under(path) : table[j].prefix = Root}

\* find_route, which scans the table in order, finds exactly that entry.
LEMMA RouteFound ==
    ASSUME table \in Tables, NEW path \in Paths
    PROVE  /\ FindRoute(path) = {table[i] : i \in Closest(path)}
           /\ \A i, j \in Closest(path) : i = j
<1> DEFINE hits == {i \in DOMAIN table : table[i].prefix # Root
                                           /\ <<path, table[i].prefix>> \in Starts}
           fallback == {i \in DOMAIN table : table[i].prefix = Root}
<1>1. hits \in SUBSET (1 .. 7) /\ fallback \in SUBSET (1 .. 7)
  BY TableEntries
<1>2. \A i, j \in DOMAIN table :
        /\ <<path, table[i].prefix>> \in Starts /\ <<path, table[j].prefix>> \in Starts
        /\ table[i].prefix = Root <=> table[j].prefix = Root
        => i = j
  BY PrefixFree
<1>3. <<path, Root>> \in Starts
  BY RootAssumption
<1>4. CASE hits # {}
  <2>1. Min(hits) \in hits
    BY <1>1, <1>4, FirstOfSeven
  <2>2. Closest(path) = {Min(hits)}
    BY <1>2, <2>1 DEF Closest, Under
  <2>3. FindRoute(path) = {table[Min(hits)]}
    BY <1>4 DEF FindRoute
  <2> QED
    BY <2>2, <2>3
<1>5. CASE hits = {} /\ fallback # {}
  <2>1. Max(fallback) \in fallback
    BY <1>1, <1>5, LastOfSeven
  <2>2. Closest(path) = {Max(fallback)}
    BY <1>2, <1>3, <1>5, <2>1 DEF Closest, Under
  <2>3. FindRoute(path) = {table[Max(fallback)]}
    BY <1>5 DEF FindRoute
  <2> QED
    BY <2>2, <2>3
<1>6. CASE hits = {} /\ fallback = {}
  <2>1. Closest(path) = {}
    BY <1>6 DEF Closest, Under
  <2>2. FindRoute(path) = {}
    BY <1>6 DEF FindRoute
  <2> QED
    BY <2>1, <2>2
<1> QED
  BY <1>4, <1>5, <1>6

\* The decision is what the table says, whatever the order of its entries.
LEMMA DecisionPermits ==
    ASSUME table \in Tables, NEW a \in Ask, a.token # "invalid",
           ~(a.method = "POST" /\ a.path \in AuthPaths)
    PROVE  /\ Decision(a) = Forward <=> Permitted(a)
           /\ Decision(a) \in {Forward, 401, 403, 404}
<1>1. a.path \in Paths
  BY DEF Ask
<1>2. Permitted(a) <=>
        \E i \in Closest(a.path) : table[i].roles = {} \/ a.token \in table[i].roles
  BY Zenon DEF Permitted, Closest, Under
<1>3. CASE Closest(a.path) = {}
  <2>1. FindRoute(a.path) = {}
    BY <1>1, <1>3, RouteFound
  <2>2. Decision(a) = 404
    BY <2>1 DEF Decision
  <2> QED
    BY <1>2, <1>3, <2>2 DEF Forward
<1>4. CASE Closest(a.path) # {}
  <2>1. PICK i \in Closest(a.path) : Closest(a.path) = {i}
    BY <1>1, <1>4, RouteFound
  <2>2. FindRoute(a.path) = {table[i]}
    BY <1>1, <2>1, RouteFound
  <2>3. Decision(a) =
          IF table[i].roles = {} \/ a.token \in table[i].roles THEN Forward
          ELSE IF a.token = "absent" THEN 401 ELSE 403
    <3>1. (CHOOSE r \in {table[i]} : TRUE) = table[i]
      OBVIOUS
    <3> QED
      BY <2>2, <3>1 DEF Decision, IsPublic, AllowsRole
  <2>4. Permitted(a) <=> table[i].roles = {} \/ a.token \in table[i].roles
    BY <1>2, <2>1
  <2> QED
    BY <2>3, <2>4 DEF Forward
<1> QED
  BY <1>3, <1>4

\* What the handlers let through, and what they say when they do not.
LEMMA VerdictPermits ==
    ASSUME table \in Tables, NEW a \in Ask
    PROVE  \/ HandlerOf(a) = {"health"} /\ Verdict(a) = 200
           \/ Verdict(a) = Forward /\ Permitted(a)
           \/ Verdict(a) \in {401, 403, 404} /\ ~Permitted(a)
           \/ Verdict(a) = 503 /\ Permitted(a)
<1>1. CASE HandlerOf(a) = {"health"}
  BY <1>1 DEF Verdict
<1>2. CASE HandlerOf(a) = {"auth"}
  BY <1>2, AuthHandler DEF Verdict, Permitted
<1>3. CASE HandlerOf(a) # {"health"} /\ HandlerOf(a) # {"auth"}
  <2>1. ~(a.method = "POST" /\ a.path \in AuthPaths)
    BY <1>3, AuthHandler
  <2>2. Verdict(a) = IF a.token = "invalid" THEN 401
                     ELSE IF Decision(a) # Forward THEN Decision(a)
                     ELSE IF Misconfigured(a) THEN 503 ELSE Forward
    BY <1>3, Zenon DEF Verdict
  <2>3. CASE a.token = "invalid"
    BY <2>1, <2>2, <2>3 DEF Permitted
  <2>4. CASE a.token # "invalid"
    BY <2>1, <2>2, <2>4, DecisionPermits DEF Forward
  <2> QED
    BY <2>3, <2>4
<1> QED
  BY <1>1, <1>2, <1>3

-----------------------------------------------------------------------------
\* The inductive invariant.

\* A slot has an upstream call exactly while it waits for it.
CallsWaited == \A s \in Slots : pc[s] = "waiting" <=> call[s] # NoCall

Inv == TypeOK /\ CallsWaited /\ OnlyPermittedForwarded

\* A call in progress has a number of its own: statuses begin at 200.
LEMMA CallStates ==
    /\ {NoCall, Sent, Arriving} \cap UpstreamStatus = {}
    /\ NoCall # Sent /\ NoCall # Arriving /\ Sent # Arriving
  BY StatusAssumption DEF NoCall, Sent, Arriving

\* The placeholder of a free slot is typed as a request.
LEMMA UnusedTyped == Unused \in Ask
<1>1. /\ (CHOOSE c \in Clients : TRUE) \in Clients
      /\ (CHOOSE m \in Methods : TRUE) \in Methods
      /\ HealthPath \in Paths /\ "absent" \in Token
  BY PathAssumption, RequestAssumption DEF Token
<1> QED
  BY <1>1 DEF Unused, Ask

\* A slot that waits for no call after the step owes the table nothing, unless
\* it is about to forward; the others are as they were.
LEMMA SlotInv ==
    ASSUME Inv, NEW s \in Slots, table' = table, TypeOK',
           \A t \in Slots \ {s} : pc'[t] = pc[t] /\ call'[t] = call[t] /\ ask'[t] = ask[t],
           pc'[s] = "waiting" <=> call'[s] # NoCall,
           pc'[s] \in {"body", "forward"} \/ call'[s] # NoCall =>
               ask'[s] = ask[s] /\ Permitted(ask[s])
    PROVE  Inv'
<1>1. \A t \in Slots : ask'[t] = ask[t] => (Permitted(ask[t])' <=> Permitted(ask[t]))
  BY DEF Permitted
<1>2. OnlyPermittedForwarded'
  BY <1>1 DEF Inv, OnlyPermittedForwarded
<1>3. CallsWaited'
  BY DEF Inv, CallsWaited
<1> QED
  BY <1>2, <1>3 DEF Inv

\* An answer frees its slot.
LEMMA FinishInv ==
    ASSUME Inv, NEW s \in Slots, NEW code \in Status, Finish(s, code),
           table' = table, count' \in [Clients \X Paths -> 0 .. Limit]
    PROVE  Inv'
<1>1. TypeOK'
  BY UnusedTyped DEF Inv, TypeOK, Finish
<1>2. /\ pc'[s] = "idle" /\ call'[s] = NoCall
      /\ \A t \in Slots \ {s} : pc'[t] = pc[t] /\ call'[t] = call[t] /\ ask'[t] = ask[t]
  BY DEF Inv, TypeOK, Finish
<1> QED
  BY <1>1, <1>2, SlotInv

\* A table of the settings, and no request.
LEMMA InitInv == Init => Inv
<1> SUFFICES ASSUME Init PROVE Inv
  OBVIOUS
<1>1. TypeOK
  BY UnusedTyped, LimitAssumption DEF Init, TypeOK, Status
<1> QED
  BY <1>1 DEF Init, Inv, CallsWaited, OnlyPermittedForwarded

-----------------------------------------------------------------------------
\* Every step keeps the invariant.

\* A request comes in; nothing of it is forwarded yet.
LEMMA ReceiveInv == ASSUME Inv, NEW s \in Slots, Receive(s), table' = table PROVE Inv'
<1>1. /\ TypeOK' /\ pc'[s] = "admit" /\ call' = call /\ pc[s] = "idle"
      /\ \A t \in Slots \ {s} : pc'[t] = pc[t] /\ ask'[t] = ask[t]
  BY DEF Receive, Inv, TypeOK, Status
<1>2. call[s] = NoCall
  BY <1>1 DEF Inv, CallsWaited
<1> QED
  BY <1>1, <1>2, SlotInv

\* The rate limit admits or refuses.
LEMMA AdmitInv == ASSUME Inv, NEW s \in Slots, Admit(s), table' = table PROVE Inv'
<1>1. CASE (Finish(s, 405) \/ Finish(s, 429)) /\ UNCHANGED count
  BY <1>1, FinishInv DEF Inv, TypeOK, Status
<1>2. CASE /\ count[Counter(ask[s])] < Limit
           /\ count' = [count EXCEPT ![Counter(ask[s])] = @ + 1]
           /\ Goto(s, "handle")
  <2>1. Counter(ask[s]) \in Clients \X Paths
    BY DEF Inv, TypeOK, Ask, Counter
  <2>2. count[Counter(ask[s])] + 1 \in 0 .. Limit
    BY <1>2, <2>1, LimitAssumption DEF Inv, TypeOK
  <2>3. TypeOK'
    BY <1>2, <2>1, <2>2 DEF Inv, TypeOK, Goto
  <2>4. /\ pc'[s] = "handle" /\ call' = call /\ ask' = ask
        /\ \A t \in Slots \ {s} : pc'[t] = pc[t]
    BY <1>2 DEF Goto, Inv, TypeOK
  <2>5. call[s] = NoCall
    BY DEF Admit, Inv, CallsWaited
  <2> QED
    BY <2>3, <2>4, <2>5, SlotInv
<1> QED
  BY <1>1, <1>2 DEF Admit

\* The middleware and the route: only what is permitted goes on to be forwarded.
LEMMA HandleInv == ASSUME Inv, NEW s \in Slots, Handle(s), table' = table PROVE Inv'
<1>1. table \in Tables /\ ask[s] \in Ask /\ count' \in [Clients \X Paths -> 0 .. Limit]
  BY DEF Inv, TypeOK, Handle
<1>2. CASE Verdict(ask[s]) = Forward /\ Goto(s, "body")
  <2>1. Permitted(ask[s])
    BY <1>1, <1>2, VerdictPermits DEF Forward
  <2>2. /\ TypeOK' /\ pc'[s] = "body" /\ call' = call /\ ask' = ask
        /\ \A t \in Slots \ {s} : pc'[t] = pc[t]
    BY <1>1, <1>2 DEF Goto, Inv, TypeOK
  <2>3. call[s] = NoCall
    BY DEF Handle, Inv, CallsWaited
  <2> QED
    BY <2>1, <2>2, <2>3, SlotInv
<1>3. CASE Verdict(ask[s]) # Forward /\ Finish(s, Verdict(ask[s]))
  <2>1. Verdict(ask[s]) \in Status
    BY <1>1, <1>3, VerdictPermits DEF Status
  <2> QED
    BY <1>1, <1>3, <2>1, FinishInv
<1> QED
  BY <1>2, <1>3 DEF Handle

\* The client has sent its body: what was permitted is still to be forwarded.
LEMMA ReadBodyInv == ASSUME Inv, NEW s \in Slots, ReadBody(s), table' = table PROVE Inv'
<1>1. /\ TypeOK' /\ pc'[s] = "forward" /\ call' = call /\ ask' = ask /\ pc[s] = "body"
      /\ \A t \in Slots \ {s} : pc'[t] = pc[t]
  BY DEF ReadBody, Goto, Inv, TypeOK
<1>2. Permitted(ask[s]) /\ call[s] = NoCall
  BY <1>1 DEF Inv, OnlyPermittedForwarded, CallsWaited
<1> QED
  BY <1>1, <1>2, SlotInv

\* The client leaves.
LEMMA DisconnectInv == ASSUME Inv, NEW s \in Slots, Disconnect(s), table' = table PROVE Inv'
<1>1. count' \in [Clients \X Paths -> 0 .. Limit] /\ Finish(s, 0) /\ 0 \in Status
  BY DEF Disconnect, Inv, TypeOK, Status
<1> QED
  BY <1>1, FinishInv

\* The request goes upstream.
LEMMA SendInv == ASSUME Inv, NEW s \in Slots, Send(s), table' = table PROVE Inv'
<1>1. /\ TypeOK' /\ pc'[s] = "waiting" /\ call'[s] = Sent /\ ask' = ask /\ pc[s] = "forward"
      /\ \A t \in Slots \ {s} : pc'[t] = pc[t] /\ call'[t] = call[t]
  BY DEF Send, Inv, TypeOK
<1>2. Permitted(ask[s])
  BY <1>1 DEF Inv, OnlyPermittedForwarded
<1> QED
  BY <1>1, <1>2, CallStates, SlotInv

\* The upstream begins its answer.
LEMMA BeginAnswerInv ==
    ASSUME Inv, NEW s \in Slots, BeginAnswer(s), table' = table
    PROVE  Inv'
<1>1. /\ TypeOK' /\ pc' = pc /\ ask' = ask /\ call'[s] = Arriving /\ call[s] = Sent
      /\ \A t \in Slots \ {s} : call'[t] = call[t]
  BY DEF BeginAnswer, Inv, TypeOK
<1>2. Permitted(ask[s]) /\ pc[s] = "waiting"
  BY <1>1, CallStates DEF Inv, OnlyPermittedForwarded, CallsWaited
<1> QED
  BY <1>1, <1>2, CallStates, SlotInv

\* The upstream answers.
LEMMA UpstreamInv ==
    ASSUME Inv, NEW s \in Slots, NEW code \in UpstreamStatus, Upstream(s, code), table' = table
    PROVE  Inv'
<1>1. /\ TypeOK' /\ pc' = pc /\ ask' = ask /\ call'[s] = code /\ call[s] # NoCall
      /\ \A t \in Slots \ {s} : call'[t] = call[t]
  BY CallStates DEF Upstream, Inv, TypeOK
<1>2. Permitted(ask[s]) /\ pc[s] = "waiting"
  BY <1>1 DEF Inv, OnlyPermittedForwarded, CallsWaited
<1> QED
  BY <1>1, <1>2, CallStates, SlotInv

\* The gateway gives up, or relays the answer.
LEMMA EndInv ==
    ASSUME Inv, NEW s \in Slots, Unreachable(s) \/ Relay(s) \/ GiveUp(s), table' = table
    PROVE  Inv'
<1>1. count' \in [Clients \X Paths -> 0 .. Limit]
  BY DEF Unreachable, Relay, GiveUp, Inv, TypeOK
<1>2. \E code \in Status : Finish(s, code)
  BY DEF Unreachable, Relay, GiveUp, Status
<1> QED
  BY <1>1, <1>2, FinishInv

\* A window ends and its counter with it.
LEMMA WindowInv ==
    ASSUME Inv, NEW k \in Clients \X Paths, WindowEnds(k), table' = table
    PROVE  Inv'
<1>1. TypeOK'
  BY LimitAssumption DEF WindowEnds, Inv, TypeOK
<1>2. \A t \in Slots : Permitted(ask[t])' <=> Permitted(ask[t])
  BY DEF WindowEnds, Permitted
<1> QED
  BY <1>1, <1>2 DEF Inv, WindowEnds, OnlyPermittedForwarded, CallsWaited

\* A restart forgets requests and calls.
LEMMA CrashInv == ASSUME Inv, Crash, table' = table PROVE Inv'
<1>1. TypeOK'
  BY UnusedTyped, LimitAssumption DEF Crash, Inv, TypeOK, Status
<1> QED
  BY <1>1 DEF Crash, Inv, OnlyPermittedForwarded, CallsWaited

\* Nothing of the gateway changes.
LEMMA StutterInv == ASSUME Inv, UNCHANGED vars PROVE Inv'
<1>1. \A t \in Slots : Permitted(ask[t])' <=> Permitted(ask[t])
  BY DEF vars, Permitted
<1> QED
  BY <1>1 DEF vars, Inv, TypeOK, OnlyPermittedForwarded, CallsWaited

\* Every step of a request in the gateway.
LEMMA StepInv == ASSUME Inv, NEW s \in Slots, Step(s) PROVE Inv'
  BY AdmitInv, HandleInv, SendInv, EndInv DEF Step

\* Every step of the specification.
LEMMA NextInv == Inv /\ [Next]_vars => Inv'
<1> SUFFICES ASSUME Inv, [Next]_vars PROVE Inv'
  OBVIOUS
<1>1. ASSUME NEW s \in Slots, table' = table,
             \/ Receive(s) \/ Step(s) \/ Unreachable(s) \/ GiveUp(s)
             \/ ReadBody(s) \/ Disconnect(s) \/ BeginAnswer(s)
      PROVE  Inv'
  BY <1>1, ReceiveInv, StepInv, EndInv, ReadBodyInv, DisconnectInv, BeginAnswerInv
<1>2. ASSUME NEW s \in Slots, NEW code \in UpstreamStatus, Upstream(s, code), table' = table
      PROVE  Inv'
  BY <1>2, UpstreamInv
<1>3. ASSUME NEW k \in Clients \X Paths, WindowEnds(k), table' = table PROVE Inv'
  BY <1>3, WindowInv
<1>4. ASSUME Crash, table' = table PROVE Inv'
  BY <1>4, CrashInv
<1> QED
  BY <1>1, <1>2, <1>3, <1>4, StutterInv DEF Next

\* In every behaviour, whatever the upstreams do.
THEOREM InvHolds == Spec => []Inv
<1> QED
  BY InitInv, NextInv, PTL DEF Spec

\* The variables keep their types.
THEOREM TypeCorrect == Spec => []TypeOK
<1>1. Inv => TypeOK
  BY DEF Inv
<1> QED
  BY <1>1, InvHolds, PTL

\* No upstream ever sees, or is left with, a request the table does not permit.
THEOREM PermittedOnly == Spec => []OnlyPermittedForwarded
<1>1. Inv => OnlyPermittedForwarded
  BY DEF Inv
<1> QED
  BY <1>1, InvHolds, PTL

-----------------------------------------------------------------------------
\* What the status codes tell.

\* AnswersTruthful, of one slot.
Truthful(s) ==
    answer'[s] \notin {answer[s], 0} =>
        \/ pc[s] = "waiting" /\ answer'[s] = call[s]
        \/ HandlerOf(ask[s]) = {"health"} /\ answer'[s] = 200
        \/ answer'[s] \in {401, 403, 404} /\ call[s] = NoCall /\ ~Permitted(ask[s])
        \/ answer'[s] \in {405, 429} /\ call[s] = NoCall
        \/ answer'[s] = 503 /\ Permitted(ask[s])

\* An answer is one slot's; whoever is not answered is told nothing.
LEMMA FinishTells ==
    ASSUME Inv, NEW s \in Slots, NEW code, Finish(s, code)
    PROVE  answer'[s] = code /\ \A t \in Slots \ {s} : Truthful(t)
<1>1. answer' = [answer EXCEPT ![s] = code] /\ answer \in [Slots -> Status]
  BY DEF Finish, Inv, TypeOK
<1> QED
  BY <1>1 DEF Truthful

\* A step that answers nobody tells nothing false.
LEMMA SilentTells ==
    ASSUME \A t \in Slots : answer'[t] \in {answer[t], 0}
    PROVE  \A t \in Slots : Truthful(t)
  BY DEF Truthful

\* Each status code the gateway makes up, and the one it relays.
LEMMA StepTells == ASSUME Inv, NEW s \in Slots, Step(s) PROVE \A t \in Slots : Truthful(t)
<1>1. table \in Tables /\ ask[s] \in Ask
  BY DEF Inv, TypeOK
<1>2. pc[s] # "waiting" => call[s] = NoCall
  BY DEF Inv, CallsWaited
<1>3. CASE UNCHANGED answer
  BY <1>3, SilentTells
<1>4. CASE pc[s] = "admit" /\ (Finish(s, 405) \/ Finish(s, 429))
  BY <1>2, <1>4, FinishTells DEF Truthful
<1>5. CASE /\ pc[s] = "handle" /\ Verdict(ask[s]) # Forward
           /\ Finish(s, Verdict(ask[s]))
  <2>1. answer'[s] = Verdict(ask[s]) /\ \A t \in Slots \ {s} : Truthful(t)
    BY <1>5, FinishTells
  <2>2. Truthful(s)
    BY <1>1, <1>2, <1>5, <2>1, VerdictPermits DEF Truthful
  <2> QED
    BY <2>1, <2>2
<1>6. CASE Relay(s)
  BY <1>6, FinishTells DEF Relay, Truthful
<1> QED
  BY <1>3, <1>4, <1>5, <1>6 DEF Step, Admit, Handle, Send, Goto

\* 503: the request was permitted, and its call failed or timed out.
LEMMA EndTells ==
    ASSUME Inv, NEW s \in Slots, Unreachable(s) \/ GiveUp(s)
    PROVE  \A t \in Slots : Truthful(t)
<1>1. Permitted(ask[s])
  BY DEF Unreachable, GiveUp, Inv, OnlyPermittedForwarded, CallsWaited
<1>2. Finish(s, 503)
  BY DEF Unreachable, GiveUp
<1> QED
  BY <1>1, <1>2, FinishTells DEF Truthful

\* Every step of the specification.
LEMMA NextTells == Inv /\ [Next]_vars => \A t \in Slots : Truthful(t)
<1> SUFFICES ASSUME Inv, [Next]_vars PROVE \A t \in Slots : Truthful(t)
  OBVIOUS
<1>1. ASSUME NEW s \in Slots, Receive(s) PROVE \A t \in Slots : answer'[t] \in {answer[t], 0}
  BY <1>1 DEF Receive, Inv, TypeOK
<1>2. ASSUME NEW s \in Slots, NEW code, Upstream(s, code) \/ ReadBody(s) \/ BeginAnswer(s)
      PROVE  UNCHANGED answer
  BY <1>2 DEF Upstream, ReadBody, Goto, BeginAnswer
<1>3. ASSUME NEW k \in Clients \X Paths, WindowEnds(k) PROVE UNCHANGED answer
  BY <1>3 DEF WindowEnds
<1>4. ASSUME Crash PROVE \A t \in Slots : answer'[t] \in {answer[t], 0}
  BY <1>4 DEF Crash
<1>5. ASSUME UNCHANGED vars PROVE UNCHANGED answer
  BY <1>5 DEF vars
<1>6. ASSUME UNCHANGED answer PROVE \A t \in Slots : answer'[t] \in {answer[t], 0}
  BY <1>6
<1>7. ASSUME NEW s \in Slots, Disconnect(s) PROVE \A t \in Slots : answer'[t] \in {answer[t], 0}
  BY <1>7 DEF Disconnect, Finish, Inv, TypeOK
<1> QED
  BY <1>1, <1>2, <1>3, <1>4, <1>5, <1>6, <1>7, StepTells, EndTells, SilentTells DEF Next

\* A 401, 403 or 404 of the gateway's own means that the table does not permit
\* the request and no upstream saw it; a 503 is never such a request's.
THEOREM StatusCodesTell == Spec => AnswersTruthful
<1>1. Inv /\ [Next]_vars => [\A s \in Slots : Truthful(s)]_vars
  BY NextTells
<1> QED
  BY <1>1, InvHolds, PTL DEF Spec, AnswersTruthful, Truthful

-----------------------------------------------------------------------------
\* A request for an auth endpoint, which the gateway forwards as it is: a step
\* moves it on, answers 429 before anything was sent, or relays the answer.
LEMMA AuthRequestSteps ==
    ASSUME Inv, NEW s \in Slots, Step(s), ask[s].method = "POST", ask[s].path \in AuthPaths
    PROVE  \/ pc[s] = "admit" /\ call[s] = NoCall /\ Finish(s, 429)
           \/ pc[s] = "waiting" /\ call[s] \in UpstreamStatus /\ Finish(s, call[s])
           \/ /\ pc[s] # "waiting" /\ pc' = [pc EXCEPT ![s] = pc'[s]] /\ pc'[s] # "idle"
              /\ ask' = ask /\ answer' = answer /\ call[s] = NoCall
              /\ call' = call \/ (call' = [call EXCEPT ![s] = Sent] /\ pc[s] = "forward")
<1>1. HandlerOf(ask[s]) = {"auth"}
  BY AuthHandler
<1>2. pc[s] # "waiting" => call[s] = NoCall
  BY DEF Inv, CallsWaited
<1>3. Verdict(ask[s]) = Forward
  BY <1>1 DEF Verdict
<1>4. CASE Admit(s)
  BY <1>1, <1>2, <1>4 DEF Admit, Goto, Inv, TypeOK
<1>5. CASE Handle(s)
  BY <1>2, <1>3, <1>5 DEF Handle, Goto, Inv, TypeOK
<1>6. CASE Send(s)
  BY <1>2, <1>6 DEF Send, Inv, TypeOK
<1>7. CASE Relay(s)
  BY <1>7 DEF Relay
<1> QED
  BY <1>4, <1>5, <1>6, <1>7 DEF Step
=============================================================================
