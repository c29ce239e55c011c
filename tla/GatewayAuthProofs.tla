-------------------------- MODULE GatewayAuthProofs --------------------------
(***************************************************************************)
(* Proofs about GatewayAuth: what a client may conclude from its answers,  *)
(* for any number of clients, rivals and slots, with calls the gateway has *)
(* given up and forgotten still being executed.                            *)
(***************************************************************************)
EXTENDS GatewayAuth, TLAPS

\* What is proved of each of the two by itself.
GP == INSTANCE GatewayProofs WITH
        Slots <- Clients, Methods <- {"POST"}, Paths <- AuthPaths \cup {HealthPath},
        Roles <- {}, UpstreamStatus <- {200, 201, 401, 409, 500}
AP == INSTANCE AuthServiceProofs WITH
        Slots <- AuthSlots, Emails <- {Email}, EmailOf <- [u \in Users |-> Email],
        Passwords <- Clients \cup Rivals, Catalog <- {DefaultRole}

\* What the proofs about the gateway start from.
LEMMA GatewayAssumptions ==
    /\ AuthPaths \cup {HealthPath} \subseteq AuthPaths \cup {HealthPath}
    /\ Clients # {} /\ {"POST"} # {}
    /\ Limit \in Nat
    /\ {200, 201, 401, 409, 500} \subseteq 200 .. 599
    /\ \A p \in AuthPaths \cup {HealthPath} : <<p, Root>> \in Starts
    /\ \A t \in GP!Tables : \A i, j \in DOMAIN t : \A p \in AuthPaths \cup {HealthPath} :
        /\ <<p, t[i].prefix>> \in Starts /\ <<p, t[j].prefix>> \in Starts
        /\ t[i].prefix = Root <=> t[j].prefix = Root
        => i = j
  BY ClientAssumption, LimitAssumption, RootAssumption, PrefixFree
     DEF G!Tables, GP!Tables, G!BuildRoutes, GP!BuildRoutes, G!Entry, GP!Entry

\* What the proofs about the auth service start from.
LEMMA AuthAssumptions ==
    /\ [u \in Users |-> Email] \in [Users -> {Email}] /\ {Email} # {}
    /\ DefaultRole \in {DefaultRole}
    /\ Clients \cup Rivals # {}
    /\ {RedisMayFail, DbMayFail, MayCrash, MayDeactivate} \subseteq BOOLEAN
  BY ClientAssumption, FaultAssumption

-----------------------------------------------------------------------------
\* The inductive invariant.

\* The registration of c is over for the client before it logs in.
Asking ==
    \A c \in Clients : pc[c] # "idle" =>
        /\ ask[c].method = "POST" /\ ask[c].path \in AuthPaths
        /\ Op(c) = "register" <=> told[c] = 0

\* A slot that is to answer a client executes the very request the client is
\* waiting for, and there is one slot per client at most.
Serving ==
    /\ serves \in [AuthSlots -> AP!Opt(Clients)]
    /\ taken \subseteq Clients /\ doubt \subseteq Clients
    /\ told \in [Clients -> {0, 201, 409}]
    /\ \A a \in AuthSlots : \A c \in serves[a] :
        /\ at[a] # "idle" /\ call[c] = G!Sent /\ c \in taken /\ request[a] = Body(c)
        /\ \A b \in AuthSlots \ {a} : c \notin serves[b]

\* An account stands in the way of c: not its own, or one it has to suspect.
Refused(c) == \E d \in Clients \cup Rivals : MadeBy(d) /\ (d = c => c \in doubt)

\* An answer that has arrived and is not relayed yet is still true.
ComingAnswers ==
    \A c \in Clients : call[c] # GP!NoCall =>
        /\ Op(c) = "register" /\ call[c] = 201 => MadeBy(c)
        /\ Op(c) = "register" /\ call[c] = 409 => Refused(c)
        /\ Op(c) = "login" /\ call[c] = 200 => MadeBy(c)
        /\ Op(c) = "login" /\ call[c] = 401 => ~ActiveBy(c)

\* A client that has no reason to suspect anything has no orphaned
\* registration, and an account only if its answer is on the way or here.
NoOrphan(c) ==
    \A a \in AuthSlots :
        at[a] # "idle" /\ request[a].op = "register" /\ request[a].password = c => c \in serves[a]
Undoubted ==
    \A c \in Clients \ doubt :
        /\ NoOrphan(c)
        /\ MadeBy(c) => told[c] = 201 \/ (pc[c] # "idle" /\ Op(c) = "register" /\ call[c] \in {201, 500})

\* AnswersSettle is not inductive: that a 409 is somebody else's needs Undoubted,
\* which needs to know who still executes what (Serving), and an answer is true
\* when it is relayed because it is true all the way (ComingAnswers).
ServicesOK == GP!Inv /\ AP!Inv /\ AP!OffOK /\ AP!Unanswered
ClientsOK == Asking /\ Serving /\ ComingAnswers /\ Undoubted /\ AnswersSettle
Inv == ServicesOK /\ ClientsOK

-----------------------------------------------------------------------------
\* GatewayAuth and the proofs speak of the same steps.

\* The steps of the gateway.
LEMMA SameGateway ==
    /\ \A c \in Clients : /\ G!Receive(c) <=> GP!Receive(c)
                          /\ G!Step(c) <=> GP!Step(c)
                          /\ G!Unreachable(c) <=> GP!Unreachable(c)
                          /\ G!GiveUp(c) <=> GP!GiveUp(c)
                          /\ G!ReadBody(c) <=> GP!ReadBody(c)
                          /\ G!Disconnect(c) <=> GP!Disconnect(c)
                          /\ \A code : G!Upstream(c, code) <=> GP!Upstream(c, code)
    /\ \A k \in Clients \X AuthPaths : G!WindowEnds(k) <=> GP!WindowEnds(k)
    /\ G!Crash <=> GP!Crash
  BY DEF G!Receive, GP!Receive, G!Step, GP!Step, G!Unreachable, GP!Unreachable,
         G!GiveUp, GP!GiveUp, G!Upstream, GP!Upstream, G!WindowEnds, GP!WindowEnds,
         G!Crash, GP!Crash, G!Admit, GP!Admit, G!Handle, GP!Handle, G!Send, GP!Send,
         G!Relay, GP!Relay, G!Goto, GP!Goto, G!Finish, GP!Finish, G!HandlerOf,
         GP!HandlerOf, G!Routers, GP!Routers, G!Matches, GP!Matches, G!Min, GP!Min,
         G!Max, GP!Max, G!Verdict, GP!Verdict, G!Decision, GP!Decision,
         G!Misconfigured, GP!Misconfigured, G!FindRoute, GP!FindRoute, G!IsPublic,
         GP!IsPublic, G!AllowsRole, GP!AllowsRole, G!Counter, GP!Counter, G!Forward,
         GP!Forward, G!Token, GP!Token, G!Ask, GP!Ask, G!Unused, GP!Unused, G!NoCall,
         GP!NoCall, G!Sent, GP!Sent, G!Arriving, GP!Arriving, G!ReadBody, GP!ReadBody,
         G!Disconnect, GP!Disconnect, G!vars, GP!vars

\* The steps of the auth service.
LEMMA SameAuthService ==
    /\ \A a \in AuthSlots : /\ A!Receive(a) <=> AP!Receive(a)
                            /\ A!Step(a) <=> AP!Step(a)
                            /\ A!Fault(a) <=> AP!Fault(a)
    /\ A!Crash <=> AP!Crash
    /\ \A u \in Users : /\ A!ExpireEmail(u) <=> AP!ExpireEmail(u)
                        /\ A!Deactivate(u) <=> AP!Deactivate(u)
  BY DEF A!Receive, AP!Receive, A!Step, AP!Step, A!Fault, AP!Fault, A!Crash, AP!Crash,
         A!ExistsByEmail, AP!ExistsByEmail, A!InsertUser, AP!InsertUser, A!EmailHit,
         AP!EmailHit, A!EmailMiss, AP!EmailMiss, A!SelectByEmail, AP!SelectByEmail,
         A!SetEmail, AP!SetEmail, A!RefreshRejected, AP!RefreshRejected, A!IdHit,
         AP!IdHit, A!IdMiss, AP!IdMiss, A!SelectById, AP!SelectById, A!SetId,
         AP!SetId, A!Commit, AP!Commit, A!CommitUnacknowledged,
         AP!CommitUnacknowledged, A!DbError, AP!DbError, A!Goto, AP!Goto, A!Finish,
         AP!Finish, A!Reject, AP!Reject, A!First, AP!First, A!Acceptable,
         AP!Acceptable, A!Accepts, AP!Accepts, A!ApplyWrites, AP!ApplyWrites,
         A!SuccessCode, AP!SuccessCode, A!Issue, AP!Issue, A!Put, AP!Put, A!PutOff,
         AP!PutOff, A!Row, AP!Row, A!CachedByEmail, AP!CachedByEmail, A!CachedById,
         AP!CachedById, A!Entry, AP!Entry, A!Registered, AP!Registered, A!Drawn,
         AP!Drawn, A!PendingUser, AP!PendingUser, A!op, AP!op, A!email, AP!email,
         A!password, AP!password, A!Request, AP!Request, A!Token, AP!Token, A!Entity,
         AP!Entity, A!DbSteps, AP!DbSteps, A!emailKey, AP!emailKey, A!idKey, AP!idKey,
         A!redis, AP!redis, A!users, AP!users, A!slots, AP!slots, A!ExpireEmail,
         AP!ExpireEmail, A!Deactivate, AP!Deactivate

\* What the two start from.
LEMMA SameStart == Init => GP!Init /\ AP!Init
  BY DEF Init, G!Init, GP!Init, G!Tables, GP!Tables, G!BuildRoutes, GP!BuildRoutes,
         G!Entry, GP!Entry, G!Unused, GP!Unused, G!NoCall, GP!NoCall,
         A!Init, AP!Init, A!LocalInit, AP!LocalInit

-----------------------------------------------------------------------------
\* Accounts.

\* MadeBy in the words of the auth service's proofs.
LEMMA MadeByDef ==
    ASSUME NEW c
    PROVE  MadeBy(c) <=> \E u \in AP!Registered : hash[u] = {c}
  BY DEF MadeBy, A!Registered, AP!Registered

\* Accounts that stay and are not activated again: none becomes active.
LEMMA ActiveStays ==
    ASSUME UNCHANGED <<currentRole, hash>>, inactive \subseteq inactive'
    PROVE  \A d : (MadeBy(d)' <=> MadeBy(d)) /\ (ActiveBy(d)' => ActiveBy(d))
  BY DEF MadeBy, ActiveBy, A!Registered

\* There is one account of the email at most, and it is somebody's.
LEMMA OneOwner ==
    ASSUME AP!Inv, NEW c, NEW d, MadeBy(c), MadeBy(d)
    PROVE  c = d
<1>1. PICK u \in AP!Registered : hash[u] = {c}
  BY MadeByDef
<1>2. PICK v \in AP!Registered : hash[v] = {d}
  BY MadeByDef
<1>3. u = v
  BY <1>1, <1>2 DEF AP!Inv, AP!OneAccountPerEmail, AP!Registered
<1> QED
  BY <1>1, <1>2, <1>3

\* Every account was made by a client or by a rival.
LEMMA SomeOwner ==
    ASSUME AP!Inv, NEW u \in AP!Registered
    PROVE  \E d \in Clients \cup Rivals : hash[u] = {d} /\ MadeBy(d)
<1>1. u \in Users /\ hash[u] # {} /\ hash[u] \in AP!Opt(Clients \cup Rivals)
  BY DEF AP!Inv, AP!RowsWhole, AP!TypeOK, AP!Registered
<1>2. PICK d \in Clients \cup Rivals : hash[u] = {d}
  BY <1>1 DEF AP!Opt
<1> QED
  BY <1>2, MadeByDef

\* What a step of one slot of the auth service does to the accounts.
LEMMA Accounts ==
    ASSUME AP!Inv, AP!Inv', NEW a \in AuthSlots, AP!Step(a) \/ AP!Fault(a)
    PROVE  /\ \A d : MadeBy(d) => MadeBy(d)'
           /\ \A d : MadeBy(d)' /\ ~MadeBy(d) =>
                /\ request[a].op = "register" /\ request[a].password = d
                /\ at'[a] = "idle" /\ reply'[a] \in {201, 500}
           /\ \A d, e : MadeBy(d) /\ MadeBy(e)' => d = e
           /\ \A d, e : MadeBy(d) /\ ActiveBy(e)' => ActiveBy(e)
<1>1. CASE UNCHANGED <<currentRole, hash>>
  <2>1. inactive' = inactive
    BY AP!SlotMoves, AuthAssumptions
  <2>2. \A d : (MadeBy(d)' <=> MadeBy(d)) /\ (ActiveBy(d)' => ActiveBy(d))
    BY <1>1, <2>1, ActiveStays
  <2> QED
    BY <2>2, OneOwner
<1>2. CASE /\ AP!op(a) = "register" /\ at'[a] = "idle" /\ reply'[a] \in {201, 500}
           /\ \E u \in Users \ AP!Registered :
                /\ currentRole' = [currentRole EXCEPT ![u] = {DefaultRole}]
                /\ hash' = [hash EXCEPT ![u] = {AP!password(a)}]
  <2>1. PICK u \in Users \ AP!Registered :
           /\ currentRole' = [currentRole EXCEPT ![u] = {DefaultRole}]
           /\ hash' = [hash EXCEPT ![u] = {AP!password(a)}]
    BY <1>2
  <2>2. currentRole \in [Users -> AP!Opt({DefaultRole})] /\ hash \in [Users -> AP!Opt(Clients \cup Rivals)]
    BY DEF AP!Inv, AP!TypeOK
  <2>3. /\ u \in AP!Registered' /\ hash'[u] = {AP!password(a)}
        /\ \A v \in Users \ {u} : hash'[v] = hash[v] /\ (v \in AP!Registered' <=> v \in AP!Registered)
    BY <2>1, <2>2 DEF AP!Registered
  <2>4. AP!Registered = {}
    <3>1. ASSUME NEW v \in AP!Registered PROVE FALSE
      <4>1. v \in AP!Registered' /\ v # u
        BY <2>3, <3>1 DEF AP!Registered
      <4> QED
        BY <2>3, <4>1 DEF AP!Inv, AP!OneAccountPerEmail, AP!Registered
    <3> QED
      BY <3>1
  <2>5. \A d : ~MadeBy(d)
    BY <2>4, MadeByDef
  <2>6. \A d : MadeBy(d)' => d = AP!password(a)
    <3>1. ASSUME NEW d, NEW v \in AP!Registered', hash'[v] = {d} PROVE d = AP!password(a)
      <4>1. v = u
        BY <2>3, <2>4, <3>1 DEF AP!Registered
      <4> QED
        BY <2>3, <3>1, <4>1
    <3> QED
      BY <3>1 DEF MadeBy, A!Registered, AP!Registered
  <2> QED
    BY <1>2, <2>5, <2>6 DEF AP!op, AP!password
<1> QED
  BY <1>1, <1>2, AP!SlotMakes, AuthAssumptions

-----------------------------------------------------------------------------
\* Steps of the gateway and of the clients.

\* The auth service stands still.
LEMMA AuthStill ==
    ASSUME ServicesOK, UNCHANGED authVars
    PROVE  /\ AP!Inv' /\ AP!OffOK' /\ AP!Unanswered'
           /\ \A d : (MadeBy(d)' <=> MadeBy(d)) /\ (ActiveBy(d)' => ActiveBy(d))
<1>1. UNCHANGED <<AP!vars, currentRole, hash, inactive, at, loaded, reply, emailOff, idOff>>
  BY DEF authVars, AP!vars, AP!users, AP!redis, AP!emailKey, AP!idKey, AP!slots
<1>2. AP!Inv'
  BY <1>1, AP!StutterInv, AuthAssumptions DEF ServicesOK
<1> QED
  BY <1>1, <1>2, ActiveStays DEF ServicesOK, AP!OffOK, AP!Unanswered

\* The gateway stands still.
LEMMA GatewayStill == ASSUME ServicesOK, UNCHANGED gatewayVars PROVE GP!Inv'
<1>1. UNCHANGED GP!vars
  BY DEF gatewayVars, GP!vars
<1> QED
  BY <1>1, GP!StutterInv, GatewayAssumptions DEF ServicesOK

\* The last clause of AnswersSettle follows from what is known of clients
\* without a doubt.
LEMMA Suspects ==
    ASSUME Undoubted, NEW c \in Clients, MadeBy(c)
    PROVE  told[c] = 201 \/ c \in doubt \/ Registering(c)
  BY DEF Undoubted, Registering

\* What a call slot holds before the answer is no status code.
LEMMA CallCodes ==
    /\ GP!NoCall = 0 /\ GP!Sent = 1 /\ G!Sent = 1
    /\ {200, 201, 401, 409, 500} \cap {GP!NoCall, GP!Sent} = {}
  BY DEF GP!NoCall, GP!Sent, G!Sent

\* A client's slot comes to its end: nothing was sent, or the answer is
\* relayed, or the call is given up, or the client leaves.
LEMMA EndOK ==
    ASSUME Inv, NEW c \in Clients, NEW code, pc[c] # "idle", GP!Finish(c, code), table' = table,
           Abandon({c}), Learn(c, code), UNCHANGED authVars,
           \/ code \in {0, 503}
           \/ code = 429 /\ call[c] = GP!NoCall
           \/ code = call[c] /\ code \in {200, 201, 401, 409, 500}
    PROVE  ClientsOK'
<1> USE DEF Inv, ClientsOK
<1>1. /\ pc'[c] = "idle" /\ call'[c] = GP!NoCall
      /\ \A d \in Clients \ {c} : pc'[d] = pc[d] /\ call'[d] = call[d] /\ ask'[d] = ask[d]
  BY DEF GP!Finish, ServicesOK, GP!Inv, GP!TypeOK
<1>2. /\ \A d \in Clients \ {c} : told'[d] = told[d] /\ (d \in doubt' <=> d \in doubt)
      /\ doubt \subseteq doubt' /\ doubt' \subseteq Clients
      /\ told' \in [Clients -> {0, 201, 409}]
      /\ Op(c) = "register" /\ code \in {201, 409} => told'[c] = code
      /\ ~(Op(c) = "register" /\ code \in {201, 409}) => told'[c] = told[c]
      /\ Op(c) = "register" /\ code \in {0, 500, 503} => c \in doubt'
      /\ Op(c) # "register" => doubt' = doubt
  BY DEF Learn, Serving
<1>3. \A d : (MadeBy(d)' <=> MadeBy(d)) /\ (ActiveBy(d)' => ActiveBy(d))
  BY AuthStill
<1>4. \A d \in Clients \ {c} : Op(d)' = Op(d) /\ Body(d)' = Body(d)
  BY <1>1 DEF Op, Body
<1>5. UNCHANGED <<at, request>>
  BY DEF authVars
<1>6. \A d \in Clients : Refused(d) => Refused(d)'
  BY <1>2, <1>3 DEF Refused
<1>7. Asking'
  BY <1>1, <1>2, <1>4 DEF Asking
<1>8. Serving'
  <2>1. serves' \in [AuthSlots -> AP!Opt(Clients)]
    BY DEF Abandon, Serving, AP!Opt
  <2>2. \A a \in AuthSlots : serves'[a] = serves[a] \ {c}
    BY DEF Abandon
  <2>3. taken' = taken \ {c}
    BY DEF Abandon
  <2>4. ASSUME NEW a \in AuthSlots, NEW d \in serves'[a]
        PROVE  /\ at'[a] # "idle" /\ call'[d] = G!Sent /\ d \in taken' /\ request'[a] = Body(d)'
               /\ \A b \in AuthSlots \ {a} : d \notin serves'[b]
    <3>1. d \in serves[a] /\ d \in Clients \ {c}
      BY <2>2, <2>4 DEF Serving, AP!Opt
    <3> QED
      BY <1>1, <1>4, <1>5, <2>2, <2>3, <3>1 DEF Serving
  <2>5. G!Sent' = G!Sent
    BY DEF G!Sent
  <2> QED
    BY <1>2, <2>1, <2>3, <2>4, <2>5 DEF Serving
<1>9. ComingAnswers'
  BY <1>1, <1>3, <1>4, <1>6 DEF ComingAnswers, GP!NoCall
<1>10. Undoubted'
  <2>1. ASSUME NEW d \in Clients \ {c}, d \notin doubt'
        PROVE  /\ NoOrphan(d)'
               /\ MadeBy(d)' => told'[d] = 201 \/ (pc'[d] # "idle" /\ Op(d)' = "register"
                                                     /\ call'[d] \in {201, 500})
    BY <1>1, <1>2, <1>3, <1>4, <1>5, <2>1 DEF Undoubted, NoOrphan, Abandon
  <2>2. ASSUME c \notin doubt'
        PROVE  NoOrphan(c)' /\ (MadeBy(c)' => told'[c] = 201)
    <3>1. c \notin doubt /\ (Op(c) = "register" => code \notin {0, 500, 503})
      BY <1>2, <2>2
    <3>2. \A a \in AuthSlots : c \in serves[a] =>
            call[c] = GP!Sent /\ request[a].op = Op(c)
      <4>1. Body(c).op = Op(c)
        BY DEF Body
      <4>2. \A a \in AuthSlots : c \in serves[a] => call[c] = G!Sent /\ request[a] = Body(c)
        BY DEF Serving
      <4> QED
        BY <4>1, <4>2, CallCodes
    <3>3. NoOrphan(c)'
      BY <1>5, <3>1, <3>2, CallCodes DEF Undoubted, NoOrphan
    <3> QED
      BY <1>2, <1>3, <3>1, <3>3, CallCodes DEF Undoubted, Asking
  <2> QED
    BY <2>1, <2>2 DEF Undoubted
<1>11. AnswersSettle'
  <2>1. ASSUME NEW d \in Clients
        PROVE  /\ told'[d] = 201 => MadeBy(d)'
               /\ told'[d] = 409 => Refused(d)'
    <3>1. CASE d # c
      BY <1>2, <1>3, <1>6, <3>1 DEF AnswersSettle, Refused
    <3>2. CASE d = c
      BY <1>2, <1>3, <1>6, <3>2, CallCodes DEF AnswersSettle, Refused, ComingAnswers
    <3> QED
      BY <3>1, <3>2
  <2>2. \A d \in Clients : MadeBy(d)' => told'[d] = 201 \/ d \in doubt' \/ Registering(d)'
    BY <1>10 DEF Undoubted, Registering
  <2> QED
    BY <2>1, <2>2 DEF AnswersSettle, Refused
<1> QED
  BY <1>7, <1>8, <1>9, <1>10, <1>11

\* A client's slot begins, or moves on to the point where its call is sent.
LEMMA MoveOK ==
    ASSUME Inv, NEW c \in Clients, UNCHANGED <<authVars, serves, taken, history>>,
           \A d \in Clients \ {c} : pc'[d] = pc[d] /\ call'[d] = call[d] /\ ask'[d] = ask[d],
           call[c] = GP!NoCall, call'[c] \in {GP!NoCall, GP!Sent},
           ask'[c].method = "POST", ask'[c].path \in AuthPaths,
           ask'[c].path = RegisterPath <=> told[c] = 0
    PROVE  ClientsOK'
<1> USE DEF Inv, ClientsOK
<1>1. /\ told' = told /\ doubt' = doubt /\ taken' = taken /\ serves' = serves
      /\ UNCHANGED <<at, request>>
  BY DEF history, authVars
<1>2. \A d : (MadeBy(d)' <=> MadeBy(d)) /\ (ActiveBy(d)' => ActiveBy(d))
  BY AuthStill
<1>3. \A d \in Clients \ {c} : Op(d)' = Op(d) /\ Body(d)' = Body(d)
  BY DEF Op, Body
<1>4. \A a \in AuthSlots : c \notin serves[a]
  BY CallCodes DEF Serving
<1>5. Asking'
  BY <1>1, <1>3 DEF Asking, Op
<1>6. Serving'
  <2>1. ASSUME NEW a \in AuthSlots, NEW d \in serves'[a]
        PROVE  /\ at'[a] # "idle" /\ call'[d] = G!Sent /\ d \in taken' /\ request'[a] = Body(d)'
               /\ \A b \in AuthSlots \ {a} : d \notin serves'[b]
    <3>1. d \in serves[a] /\ d \in Clients \ {c}
      BY <1>1, <1>4, <2>1 DEF Serving, AP!Opt
    <3> QED
      BY <1>1, <1>3, <3>1 DEF Serving
  <2>2. G!Sent' = G!Sent
    BY DEF G!Sent
  <2> QED
    BY <1>1, <2>1, <2>2 DEF Serving
<1>7. ComingAnswers'
  <2>1. \A d \in Clients : Refused(d)' <=> Refused(d)
    BY <1>1, <1>2 DEF Refused
  <2>2. call'[c] \notin {200, 201, 401, 409}
    BY CallCodes
  <2> QED
    BY <1>2, <1>3, <2>1, <2>2 DEF ComingAnswers, GP!NoCall
<1>8. Undoubted'
  <2>1. \A d \in Clients : NoOrphan(d)' <=> NoOrphan(d)
    BY <1>1 DEF NoOrphan
  <2> QED
    BY <1>1, <1>2, <1>3, <2>1, CallCodes DEF Undoubted
<1>9. AnswersSettle'
  <2>1. \A d \in Clients : MadeBy(d)' => told'[d] = 201 \/ d \in doubt' \/ Registering(d)'
    BY <1>8 DEF Undoubted, Registering
  <2> QED
    BY <1>1, <1>2, <2>1 DEF AnswersSettle
<1> QED
  BY <1>5, <1>6, <1>7, <1>8, <1>9

\* A client registers until it knows the outcome, and logs in from then on.
LEMMA SubmitInv == ASSUME Inv, NEW c \in Clients, Submit(c) PROVE Inv'
<1> USE DEF Inv, ServicesOK
<1>1. PICK path \in AuthPaths :
        /\ path = RegisterPath <=> told[c] = 0
        /\ GP!Receive(c)
        /\ ask'[c] = [client |-> c, method |-> "POST", path |-> path, token |-> "absent"]
  BY SameGateway DEF Submit
<1>2. GP!Inv'
  BY <1>1, GP!ReceiveInv, GatewayAssumptions DEF Submit
<1>3. /\ \A d \in Clients \ {c} : pc'[d] = pc[d] /\ call'[d] = call[d] /\ ask'[d] = ask[d]
      /\ pc[c] = "idle" /\ call'[c] = call[c]
  BY <1>1 DEF GP!Receive, GP!Inv, GP!TypeOK
<1>4. call[c] = GP!NoCall
  BY <1>3 DEF GP!Inv, GP!CallsWaited
<1>5. ClientsOK'
  BY <1>1, <1>3, <1>4, MoveOK DEF Submit
<1> QED
  BY <1>2, <1>5, AuthStill DEF Submit

\* A client sends its body; its call is still to be sent.
LEMMA SendBodyInv == ASSUME Inv, NEW c \in Clients, SendBody(c) PROVE Inv'
<1> USE DEF Inv, ServicesOK
<1>1. GP!ReadBody(c) /\ table' = table /\ UNCHANGED authVars
  BY SameGateway DEF SendBody
<1>2. GP!Inv'
  BY <1>1, GP!ReadBodyInv, GatewayAssumptions
<1>3. /\ \A d \in Clients \ {c} : pc'[d] = pc[d] /\ call'[d] = call[d] /\ ask'[d] = ask[d]
      /\ pc[c] = "body" /\ call'[c] = call[c] /\ ask'[c] = ask[c]
  BY <1>1 DEF GP!ReadBody, GP!Goto, GP!Inv, GP!TypeOK
<1>4. call[c] = GP!NoCall
  BY <1>3 DEF GP!Inv, GP!CallsWaited
<1>5. /\ ask[c].method = "POST" /\ ask[c].path \in AuthPaths
      /\ ask[c].path = RegisterPath <=> told[c] = 0
  BY <1>3 DEF ClientsOK, Asking, Op
<1>6. ClientsOK'
  BY <1>3, <1>4, <1>5, MoveOK DEF SendBody
<1> QED
  BY <1>1, <1>2, <1>6, AuthStill

\* The gateway admits, forwards, and relays the answer of the auth service.
LEMMA GatewayStepInv == ASSUME Inv, NEW c \in Clients, GatewayStep(c) PROVE Inv'
<1> USE DEF Inv, ServicesOK
<1>1. GP!Step(c) /\ UNCHANGED authVars
  BY SameGateway DEF GatewayStep
<1>2. pc[c] # "idle" /\ table' = table
  BY <1>1 DEF GP!Step, GP!Admit, GP!Handle, GP!Send, GP!Relay
<1>3. /\ ask[c].method = "POST" /\ ask[c].path \in AuthPaths
      /\ ask[c].path = RegisterPath <=> told[c] = 0
  BY <1>2 DEF ClientsOK, Asking, Op
<1>4. GP!Inv'
  BY <1>1, GP!StepInv, GatewayAssumptions
<1>5. ASSUME NEW code, GP!Finish(c, code),
             \/ code = 429 /\ call[c] = GP!NoCall
             \/ code = call[c] /\ code \in {200, 201, 401, 409, 500}
      PROVE  ClientsOK'
  <2>1. pc'[c] = "idle" /\ answer'[c] = code
    BY <1>5 DEF GP!Finish, GP!Inv, GP!TypeOK
  <2>2. Abandon({c}) /\ Learn(c, code)
    BY <2>1 DEF GatewayStep
  <2> QED
    BY <1>1, <1>2, <1>5, <2>2, EndOK
<1>6. ASSUME pc' = [pc EXCEPT ![c] = pc'[c]], pc'[c] # "idle", ask' = ask, call[c] = GP!NoCall,
             call' = call \/ call' = [call EXCEPT ![c] = GP!Sent]
      PROVE  ClientsOK'
  <2>1. UNCHANGED <<serves, taken, history>>
    BY <1>6 DEF GatewayStep
  <2>2. /\ \A d \in Clients \ {c} : pc'[d] = pc[d] /\ call'[d] = call[d] /\ ask'[d] = ask[d]
        /\ call'[c] \in {GP!NoCall, GP!Sent}
    BY <1>6 DEF GP!Inv, GP!TypeOK
  <2> QED
    BY <1>1, <1>3, <1>6, <2>1, <2>2, MoveOK
<1>7. ClientsOK'
  BY <1>1, <1>3, <1>5, <1>6, GP!AuthRequestSteps, GatewayAssumptions
<1> QED
  BY <1>1, <1>4, <1>7, AuthStill

\* The gateway cannot reach the auth service, or gives a call up, or is left by
\* the client.
LEMMA GatewayFaultInv == ASSUME Inv, NEW c \in Clients, GatewayFault(c) PROVE Inv'
<1> USE DEF Inv, ServicesOK
<1>1. /\ GP!Unreachable(c) \/ GP!GiveUp(c) \/ GP!Disconnect(c)
      /\ UNCHANGED <<table, authVars>> /\ Abandon({c}) /\ Learn(c, answer'[c])
  BY SameGateway DEF GatewayFault
<1>2. GP!Inv'
  BY <1>1, GP!EndInv, GP!DisconnectInv, GatewayAssumptions
<1>3. PICK code \in {0, 503} : GP!Finish(c, code) /\ pc[c] # "idle"
  BY <1>1 DEF GP!Unreachable, GP!GiveUp, GP!Disconnect
<1>4. answer'[c] = code
  BY <1>3 DEF GP!Finish, GP!Inv, GP!TypeOK
<1>5. ClientsOK'
  BY <1>1, <1>3, <1>4, EndOK
<1> QED
  BY <1>1, <1>2, <1>5, AuthStill

\* Nothing the clients' side of the invariant speaks of changes.
LEMMA ClientsStill ==
    ASSUME Inv, UNCHANGED <<pc, ask, call, at, request, serves, taken, told, doubt>>,
           \A d : (MadeBy(d)' <=> MadeBy(d)) /\ (ActiveBy(d)' => ActiveBy(d))
    PROVE  ClientsOK'
<1> USE DEF Inv, ClientsOK
<1>1. \A d \in Clients : Op(d)' = Op(d) /\ Body(d)' = Body(d) /\ Registering(d)' = Registering(d)
  BY DEF Op, Body, Registering
<1>2. \A d \in Clients : (Refused(d)' <=> Refused(d)) /\ (NoOrphan(d)' <=> NoOrphan(d))
  BY DEF Refused, NoOrphan
<1>3. Asking' /\ Serving'
  BY <1>1 DEF Asking, Serving, G!Sent
<1>4. ComingAnswers' /\ Undoubted'
  BY <1>1, <1>2 DEF ComingAnswers, Undoubted, GP!NoCall
<1>5. AnswersSettle'
  BY <1>1 DEF AnswersSettle
<1> QED
  BY <1>3, <1>4, <1>5

\* A window of the rate limit ends.
LEMMA WindowInv == ASSUME Inv, WindowEnds PROVE Inv'
<1> USE DEF Inv, ServicesOK
<1>1. PICK k \in Clients \X AuthPaths : GP!WindowEnds(k)
  BY SameGateway DEF WindowEnds
<1>2. GP!Inv'
  <2>1. k \in Clients \X (AuthPaths \cup {HealthPath})
    OBVIOUS
  <2> QED
    BY <1>1, <2>1, GP!WindowInv, GatewayAssumptions DEF WindowEnds
<1>3. UNCHANGED <<pc, ask, call, at, request, serves, taken, told, doubt>>
  BY <1>1 DEF GP!WindowEnds, WindowEnds, history, authVars
<1> QED
  BY <1>2, <1>3, AuthStill, ClientsStill DEF WindowEnds

\* A key of the auth service's cache expires.
LEMMA ExpireInv == ASSUME Inv, Expire PROVE Inv'
<1> USE DEF Inv, ServicesOK
<1>1. PICK u \in Users : AP!ExpireEmail(u)
  BY SameAuthService DEF Expire
<1>2. AP!TimeNext
  BY <1>1 DEF AP!TimeNext
<1>3. AP!Inv' /\ AP!OffOK'
  BY <1>2, AP!TimeInv, AP!TimeOff, AuthAssumptions
<1>4. UNCHANGED <<currentRole, hash, inactive, request, at, reply>>
  BY <1>1 DEF AP!ExpireEmail, AP!users, AP!slots
<1>5. AP!Unanswered' /\ \A d : (MadeBy(d)' <=> MadeBy(d)) /\ (ActiveBy(d)' => ActiveBy(d))
  BY <1>4, ActiveStays DEF AP!Unanswered
<1>6. ClientsOK'
  BY <1>4, <1>5, ClientsStill DEF Expire, gatewayVars, history
<1> QED
  BY <1>3, <1>4, <1>5, <1>6, GatewayStill DEF Expire

\* An account is deactivated: it is its maker's still, and nobody's is activated.
LEMMA DeactivateInv == ASSUME Inv, Deactivate PROVE Inv'
<1> USE DEF Inv, ServicesOK
<1>1. PICK u \in Users : AP!Deactivate(u)
  BY SameAuthService DEF Deactivate
<1>2. AP!Inv'
  BY <1>1, AP!DeactivateInv, AuthAssumptions
<1>3. /\ UNCHANGED <<currentRole, hash, emailOff, idOff, request, at, loaded, reply>>
      /\ inactive \subseteq inactive'
  BY <1>1 DEF AP!Deactivate, AP!redis, AP!emailKey, AP!idKey, AP!slots
<1>4. AP!OffOK' /\ AP!Unanswered'
  BY <1>3 DEF AP!OffOK, AP!Unanswered
<1>5. \A d : (MadeBy(d)' <=> MadeBy(d)) /\ (ActiveBy(d)' => ActiveBy(d))
  BY <1>3, ActiveStays
<1>6. ClientsOK'
  BY <1>3, <1>5, ClientsStill DEF Deactivate, gatewayVars, history
<1> QED
  BY <1>2, <1>4, <1>6, GatewayStill DEF Deactivate

\* The gateway forgets every call; what the auth service is executing it goes
\* on executing, for nobody, and the clients that were registering have a doubt.
LEMMA GatewayCrashInv == ASSUME Inv, GatewayCrash PROVE Inv'
<1> USE DEF Inv, ServicesOK
<1>1. GP!Crash /\ table' = table
  BY SameGateway DEF GatewayCrash
<1>2. GP!Inv'
  BY <1>1, GP!CrashInv, GatewayAssumptions
<1>3. /\ \A d \in Clients : pc'[d] = "idle" /\ call'[d] = GP!NoCall
      /\ \A a \in AuthSlots : serves'[a] = {}
      /\ taken' = {} /\ told' = told /\ UNCHANGED <<at, request>>
      /\ doubt' = doubt \cup {c \in Clients : pc[c] # "idle" /\ Op(c) = "register"}
  BY <1>1 DEF GatewayCrash, GP!Crash, Abandon, authVars, ClientsOK, Serving, AP!Opt
<1>4. \A d : MadeBy(d)' <=> MadeBy(d)
  BY AuthStill DEF GatewayCrash
<1>5. ClientsOK'
  <2> USE DEF ClientsOK
  <2>1. Asking' /\ ComingAnswers'
    BY <1>3 DEF Asking, ComingAnswers, GP!NoCall
  <2>2. Serving'
    <3>1. serves' \in [AuthSlots -> AP!Opt(Clients)]
      BY DEF GatewayCrash, Abandon, Serving, AP!Opt
    <3> QED
      BY <1>3, <3>1 DEF Serving
  <2>3. ASSUME NEW c \in Clients, c \notin doubt'
        PROVE  NoOrphan(c)' /\ (MadeBy(c)' => told'[c] = 201)
    <3>1. c \notin doubt /\ (pc[c] = "idle" \/ Op(c) # "register")
      BY <1>3, <2>3
    <3>2. ASSUME NEW a \in AuthSlots, at[a] # "idle", request[a].op = "register",
                 request[a].password = c
          PROVE  FALSE
      <4>1. c \in serves[a]
        BY <3>1, <3>2 DEF Undoubted, NoOrphan
      <4>2. call[c] = GP!Sent /\ request[a] = Body(c)
        BY <4>1, CallCodes DEF Serving
      <4>3. pc[c] = "waiting"
        BY <4>2, CallCodes DEF GP!Inv, GP!CallsWaited
      <4>4. Op(c) = "register"
        BY <3>2, <4>2 DEF Body
      <4> QED
        BY <3>1, <4>3, <4>4
    <3> QED
      BY <1>3, <1>4, <3>1, <3>2 DEF NoOrphan, Undoubted
  <2>4. Undoubted'
    BY <2>3 DEF Undoubted
  <2>5. AnswersSettle'
    <3>1. \A d \in Clients : MadeBy(d)' => told'[d] = 201 \/ d \in doubt' \/ Registering(d)'
      BY <2>3
    <3> QED
      BY <1>3, <1>4, <3>1 DEF AnswersSettle
  <2> QED
    BY <2>1, <2>2, <2>4, <2>5
<1> QED
  BY <1>2, <1>5, AuthStill DEF GatewayCrash

-----------------------------------------------------------------------------
\* Steps of the auth service.

\* A slot of the auth service receives a request; no client and no account
\* changes.
LEMMA ReceiveOK ==
    ASSUME Inv, NEW a \in AuthSlots, AP!Receive(a)
    PROVE  /\ AP!Inv' /\ AP!OffOK' /\ AP!Unanswered'
           /\ \A d : (MadeBy(d)' <=> MadeBy(d)) /\ (ActiveBy(d)' => ActiveBy(d))
           /\ at[a] = "idle" /\ at'[a] # "idle" /\ serves[a] = {}
           /\ \A b \in AuthSlots \ {a} : at'[b] = at[b] /\ request'[b] = request[b]
<1> USE DEF Inv, ServicesOK
<1>1. AP!ServiceNext
  BY DEF AP!ServiceNext
<1>2. AP!Inv' /\ AP!OffOK' /\ AP!Unanswered'
  BY <1>1, AP!ServiceInv, AP!ServiceOff, AP!ServiceUnanswered, AuthAssumptions
<1>3. \A d : (MadeBy(d)' <=> MadeBy(d)) /\ (ActiveBy(d)' => ActiveBy(d))
  BY ActiveStays DEF AP!Receive, AP!users
<1>4. at[a] = "idle" /\ serves[a] = {}
  BY DEF AP!Receive, ClientsOK, Serving, AP!Opt
<1>5. at'[a] # "idle"
  <2>1. PICK r \in AP!Request : at' = [at EXCEPT ![a] = AP!First[r.op]]
    BY DEF AP!Receive
  <2>2. r.op \in {"register", "login", "refresh"}
    BY AP!RequestFields, AuthAssumptions
  <2>3. AP!First[r.op] \in {"exists", "get_email", "get_id"}
    BY <2>2 DEF AP!First
  <2> QED
    BY <2>1, <2>3 DEF AP!Inv, AP!TypeOK
<1>6. \A b \in AuthSlots \ {a} : at'[b] = at[b] /\ request'[b] = request[b]
  BY DEF AP!Receive, AP!Inv, AP!TypeOK
<1> QED
  BY <1>2, <1>3, <1>4, <1>5, <1>6

\* The call of a client arrives.
LEMMA DeliverInv == ASSUME Inv, NEW c \in Clients, NEW a \in AuthSlots, Deliver(c, a) PROVE Inv'
<1> USE DEF Inv, ServicesOK
<1>1. /\ AP!Receive(a) /\ request'[a] = Body(c) /\ call[c] = G!Sent /\ c \notin taken
      /\ serves' = [serves EXCEPT ![a] = {c}] /\ taken' = taken \cup {c}
      /\ UNCHANGED <<pc, ask, call, told, doubt>>
  BY SameAuthService DEF Deliver, gatewayVars, history
<1>2. \A d \in Clients : Op(d)' = Op(d) /\ Body(d)' = Body(d) /\ Registering(d)' = Registering(d)
  BY <1>1 DEF Op, Body, Registering
<1>3. /\ \A d : (MadeBy(d)' <=> MadeBy(d)) /\ (ActiveBy(d)' => ActiveBy(d))
      /\ at'[a] # "idle" /\ serves[a] = {}
      /\ \A b \in AuthSlots \ {a} : at'[b] = at[b] /\ request'[b] = request[b]
  BY <1>1, ReceiveOK
<1>4. ClientsOK'
  <2> USE DEF ClientsOK
  <2>1. Asking' /\ ComingAnswers' /\ AnswersSettle'
    <3>1. \A d \in Clients : Refused(d)' <=> Refused(d)
      BY <1>1, <1>3 DEF Refused
    <3> QED
      BY <1>1, <1>2, <1>3, <3>1 DEF Asking, ComingAnswers, AnswersSettle, GP!NoCall
  <2>2. /\ serves' \in [AuthSlots -> AP!Opt(Clients)] /\ serves'[a] = {c}
        /\ \A b \in AuthSlots \ {a} : serves'[b] = serves[b]
    BY <1>1 DEF Serving, AP!Opt
  <2>3. \A b \in AuthSlots : c \notin serves[b]
    BY <1>1 DEF Serving
  <2>4. ASSUME NEW b \in AuthSlots, NEW d \in serves'[b]
        PROVE  /\ at'[b] # "idle" /\ call'[d] = G!Sent /\ d \in taken' /\ request'[b] = Body(d)'
               /\ \A e \in AuthSlots \ {b} : d \notin serves'[e]
    <3>1. CASE b = a
      BY <1>1, <1>2, <1>3, <2>2, <2>3, <2>4, <3>1
    <3>2. CASE b # a
      <4>1. d \in serves[b] /\ d \in Clients /\ d # c
        BY <2>2, <2>3, <2>4, <3>2 DEF Serving, AP!Opt
      <4> QED
        BY <1>1, <1>2, <1>3, <2>2, <3>2, <4>1 DEF Serving
    <3> QED
      BY <3>1, <3>2
  <2>5. Serving'
    <3>1. G!Sent' = G!Sent
      BY DEF G!Sent
    <3> QED
      BY <1>1, <2>2, <2>4, <3>1 DEF Serving
  <2>6. Undoubted'
    <3>1. ASSUME NEW d \in Clients \ doubt PROVE NoOrphan(d)'
      <4>1. Body(c).password = c
        BY DEF Body
      <4> QED
        BY <1>1, <1>3, <2>2, <4>1 DEF Undoubted, NoOrphan
    <3> QED
      BY <1>1, <1>2, <1>3, <3>1 DEF Undoubted
  <2> QED
    BY <2>1, <2>5, <2>6
<1> QED
  BY <1>1, <1>4, ReceiveOK, GatewayStill DEF Deliver

\* A rival's registration arrives; nobody mistakes it for a client's.
LEMMA RivalInv == ASSUME Inv, NEW a \in AuthSlots, RivalRegisters(a) PROVE Inv'
<1> USE DEF Inv, ServicesOK
<1>1. /\ AP!Receive(a) /\ request'[a].password \in Rivals
      /\ UNCHANGED <<pc, ask, call, told, doubt, serves, taken>>
  BY SameAuthService DEF RivalRegisters, gatewayVars, history
<1>2. \A d \in Clients : Op(d)' = Op(d) /\ Body(d)' = Body(d) /\ Registering(d)' = Registering(d)
  BY <1>1 DEF Op, Body, Registering
<1>3. /\ \A d : (MadeBy(d)' <=> MadeBy(d)) /\ (ActiveBy(d)' => ActiveBy(d))
      /\ serves[a] = {}
      /\ \A b \in AuthSlots \ {a} : at'[b] = at[b] /\ request'[b] = request[b]
  BY <1>1, ReceiveOK
<1>4. ClientsOK'
  <2> USE DEF ClientsOK
  <2>1. Asking' /\ ComingAnswers' /\ AnswersSettle'
    <3>1. \A d \in Clients : Refused(d)' <=> Refused(d)
      BY <1>1, <1>3 DEF Refused
    <3> QED
      BY <1>1, <1>2, <1>3, <3>1 DEF Asking, ComingAnswers, AnswersSettle, GP!NoCall
  <2>2. Serving'
    <3>1. ASSUME NEW b \in AuthSlots, NEW d \in serves[b]
          PROVE  /\ at'[b] # "idle" /\ call[d] = G!Sent /\ d \in taken /\ request'[b] = Body(d)'
                 /\ \A e \in AuthSlots \ {b} : d \notin serves[e]
      <4>1. b # a /\ d \in Clients
        BY <1>3, <3>1 DEF Serving, AP!Opt
      <4> QED
        BY <1>2, <1>3, <3>1, <4>1 DEF Serving
    <3>2. G!Sent' = G!Sent
      BY DEF G!Sent
    <3> QED
      BY <1>1, <3>1, <3>2 DEF Serving
  <2>3. Undoubted'
    <3>1. ASSUME NEW d \in Clients \ doubt PROVE NoOrphan(d)'
      BY <1>1, <1>3, ClientAssumption DEF Undoubted, NoOrphan
    <3> QED
      BY <1>1, <1>2, <1>3, <3>1 DEF Undoubted
  <2> QED
    BY <2>1, <2>2, <2>3
<1> QED
  BY <1>1, <1>4, ReceiveOK, GatewayStill DEF RivalRegisters

\* The auth service is restarted: nothing is executed any more.
LEMMA AuthCrashInv == ASSUME Inv, AuthCrash PROVE Inv'
<1> USE DEF Inv, ServicesOK
<1>1. /\ AP!Crash /\ UNCHANGED <<pc, ask, call, told, doubt, taken>>
      /\ serves' = [a \in AuthSlots |-> {}]
  BY SameAuthService DEF AuthCrash, gatewayVars, history
<1>2. AP!ServiceNext
  BY <1>1 DEF AP!ServiceNext
<1>3. AP!Inv' /\ AP!OffOK' /\ AP!Unanswered'
  BY <1>2, AP!ServiceInv, AP!ServiceOff, AP!ServiceUnanswered, AuthAssumptions
<1>4. \A d : (MadeBy(d)' <=> MadeBy(d)) /\ (ActiveBy(d)' => ActiveBy(d))
  BY <1>1, ActiveStays DEF AP!Crash, AP!users
<1>5. \A d \in Clients : Op(d)' = Op(d) /\ Registering(d)' = Registering(d)
  BY <1>1 DEF Op, Registering
<1>6. \A a \in AuthSlots : at'[a] = "idle" /\ serves'[a] = {}
  BY <1>1 DEF AP!Crash
<1>7. ClientsOK'
  <2> USE DEF ClientsOK
  <2>1. \A d \in Clients : (Refused(d)' <=> Refused(d)) /\ NoOrphan(d)'
    BY <1>1, <1>4, <1>6 DEF Refused, NoOrphan
  <2>2. Asking' /\ ComingAnswers' /\ AnswersSettle' /\ Undoubted'
    BY <1>1, <1>4, <1>5, <2>1 DEF Asking, ComingAnswers, AnswersSettle, Undoubted, GP!NoCall
  <2>3. serves' \in [AuthSlots -> AP!Opt(Clients)]
    BY <1>1 DEF AP!Opt
  <2>4. Serving'
    BY <1>1, <1>6, <2>3 DEF Serving
  <2> QED
    BY <2>2, <2>4
<1> QED
  BY <1>3, <1>4, <1>7, GatewayStill DEF AuthCrash

\* What the answer of a slot says, to the client it serves, when it is sent.
LEMMA AnswerSays ==
    ASSUME Inv, AP!Inv', NEW a \in AuthSlots, AP!Step(a) \/ AP!Fault(a), at'[a] = "idle",
           NEW c \in serves[a]
    PROVE  /\ Op(c) = "register" /\ reply'[a] = 201 => MadeBy(c)'
           /\ Op(c) = "register" /\ reply'[a] = 409 => Refused(c)
           /\ Op(c) = "login" /\ reply'[a] = 200 => MadeBy(c)
           /\ Op(c) = "login" /\ reply'[a] = 401 => ~ActiveBy(c)
           /\ Op(c) = "login" => told[c] # 0
<1> USE DEF Inv, ServicesOK, ClientsOK
<1>1. /\ c \in Clients /\ call[c] = GP!Sent
      /\ AP!op(a) = Op(c) /\ AP!password(a) = c /\ AP!email(a) = Email
  <2>1. request[a] = Body(c) /\ c \in Clients /\ call[c] = G!Sent
    BY DEF Serving, AP!Opt
  <2> QED
    BY <2>1, CallCodes DEF Body, AP!op, AP!password, AP!email
<1>2. pc[c] = "waiting"
  BY <1>1, CallCodes DEF GP!Inv, GP!CallsWaited
<1>3. Op(c) = "register" <=> told[c] = 0
  BY <1>1, <1>2 DEF Asking
<1>4. reply[a] = 0
  BY AP!SlotMoves, AuthAssumptions DEF AP!Unanswered
<1>5. AP!Truthful(a) /\ AP!Telling(a) /\ AP!Refusing(a)
  <2>1. AP!ServiceNext
    BY DEF AP!ServiceNext
  <2> QED
    BY <2>1, AP!ServiceSays, AP!SlotRefuses, AuthAssumptions
<1>6. ASSUME reply'[a] = 201 PROVE MadeBy(c)'
  <2>1. PICK u \in Users \ AP!Registered :
          /\ currentRole' = [currentRole EXCEPT ![u] = {DefaultRole}]
          /\ hash' = [hash EXCEPT ![u] = {c}]
    BY <1>1, <1>4, <1>5, <1>6 DEF AP!Truthful
  <2>2. u \in AP!Registered' /\ hash'[u] = {c}
    BY <2>1 DEF AP!Registered, AP!Inv, AP!TypeOK
  <2> QED
    BY <2>2 DEF MadeBy, A!Registered, AP!Registered
<1>7. ASSUME Op(c) = "register", reply'[a] = 409 PROVE Refused(c)
  <2>1. PICK u \in AP!Registered : TRUE
    BY <1>1, <1>4, <1>5, <1>7 DEF AP!Telling
  <2>2. PICK d \in Clients \cup Rivals : MadeBy(d)
    BY <2>1, SomeOwner
  <2>3. ~MadeBy(c) \/ c \in doubt
    BY <1>1, <1>3, <1>7, CallCodes DEF Undoubted
  <2> QED
    BY <2>2, <2>3 DEF Refused
<1>8. ASSUME Op(c) = "login", reply'[a] = 200 PROVE MadeBy(c)
  <2>1. PICK u \in AP!Registered : c \in hash[u]
    BY <1>1, <1>4, <1>5, <1>8 DEF AP!Telling
  <2>2. hash[u] = {c}
    BY <2>1, SomeOwner
  <2> QED
    BY <2>1, <2>2, MadeByDef
<1>9. ASSUME Op(c) = "login", reply'[a] = 401 PROVE ~ActiveBy(c)
  <2>1. \A u \in AP!Registered \ inactive : c \notin hash[u]
    BY <1>1, <1>4, <1>5, <1>9 DEF AP!Refusing, AP!Registered
  <2> QED
    BY <2>1 DEF ActiveBy, A!Registered, AP!Registered
<1> QED
  BY <1>3, <1>6, <1>7, <1>8, <1>9

\* A slot of the auth service works on a request, or fails.
LEMMA AuthStepInv ==
    ASSUME Inv, NEW a \in AuthSlots, A!Step(a) \/ A!Fault(a), Respond(a),
           UNCHANGED <<taken, history>>
    PROVE  Inv'
<1> USE DEF Inv, ServicesOK
<1>1. AP!Step(a) \/ AP!Fault(a)
  BY SameAuthService
<1>2. AP!Inv' /\ AP!OffOK' /\ AP!Unanswered'
  <2>1. AP!ServiceNext
    BY <1>1 DEF AP!ServiceNext
  <2> QED
    BY <2>1, AP!ServiceInv, AP!ServiceOff, AP!ServiceUnanswered, AuthAssumptions
<1>3. /\ at[a] # "idle" /\ request' = request
      /\ \A b \in AuthSlots \ {a} : at'[b] = at[b]
      /\ at'[a] = "idle" => reply'[a] \in {200, 201, 401, 409, 500}
  BY <1>1, AP!SlotMoves, AuthAssumptions DEF AP!Status
<1>4. /\ \A d : MadeBy(d) => MadeBy(d)'
      /\ \A d : MadeBy(d)' /\ ~MadeBy(d) =>
            /\ request[a].op = "register" /\ request[a].password = d
            /\ at'[a] = "idle" /\ reply'[a] \in {201, 500}
      /\ \A d, e : MadeBy(d) /\ ActiveBy(e)' => ActiveBy(e)
  BY <1>1, <1>2, Accounts
<1>5. told' = told /\ doubt' = doubt /\ taken' = taken
  BY DEF history
<1>6. \A d \in Clients : Refused(d) => Refused(d)'
  BY <1>4, <1>5 DEF Refused
\* A client that is logging in has been told of an account.
<1>7. ASSUME NEW c \in Clients, told[c] # 0, ~ActiveBy(c) PROVE ~ActiveBy(c)'
  <2>1. PICK d : MadeBy(d)
    BY <1>7 DEF ClientsOK, AnswersSettle, Serving
  <2> QED
    BY <1>4, <1>7, <2>1
\* An account that is made is that of a client with a doubt, or of the client
\* the slot is answering.
<1>8. ASSUME NEW c \in Clients \ doubt, MadeBy(c)', ~MadeBy(c) PROVE c \in serves[a]
  BY <1>3, <1>4, <1>8 DEF ClientsOK, Undoubted, NoOrphan
<1>9. ASSUME UNCHANGED gatewayVars, serves' = serves, at'[a] # "idle" \/ serves[a] = {}
      PROVE  Inv'
  <2>1. UNCHANGED <<pc, ask, call, answer>>
    BY <1>9 DEF gatewayVars
  <2>2. \A d \in Clients : Op(d)' = Op(d) /\ Body(d)' = Body(d) /\ Registering(d)' = Registering(d)
    BY <2>1 DEF Op, Body, Registering
  <2>3. \A c \in Clients \ doubt : MadeBy(c)' => MadeBy(c)
    BY <1>4, <1>8, <1>9
  <2>4. Asking' /\ Serving'
    BY <1>3, <1>5, <1>9, <2>1, <2>2 DEF ClientsOK, Asking, Serving, G!Sent
  <2>5. ComingAnswers'
    <3>1. ASSUME NEW c \in Clients, call[c] # GP!NoCall, Op(c) = "login" PROVE told[c] # 0
      BY <3>1 DEF ClientsOK, Asking, GP!Inv, GP!CallsWaited
    <3> QED
      BY <1>4, <1>6, <1>7, <2>1, <2>2, <3>1 DEF ClientsOK, ComingAnswers, GP!NoCall
  <2>6. Undoubted'
    BY <1>3, <1>5, <1>9, <2>1, <2>2, <2>3 DEF ClientsOK, Undoubted, NoOrphan
  <2>7. AnswersSettle'
    <3>1. \A d \in Clients : MadeBy(d)' => told'[d] = 201 \/ d \in doubt' \/ Registering(d)'
      BY <2>6 DEF Undoubted, Registering
    <3> QED
      BY <1>4, <1>5, <1>6, <3>1 DEF ClientsOK, AnswersSettle, Refused
  <2> QED
    BY <1>2, <1>3, <1>9, <2>4, <2>5, <2>6, <2>7, GatewayStill DEF ClientsOK
<1>10. ASSUME at'[a] = "idle", NEW c \in serves[a], G!Upstream(c, reply'[a]),
              serves' = [serves EXCEPT ![a] = {}], table' = table
       PROVE  Inv'
  <2>1. c \in Clients /\ serves[a] = {c} /\ request[a] = Body(c) /\ call[c] = GP!Sent
    BY <1>10, CallCodes DEF ClientsOK, Serving, AP!Opt
  <2>2. GP!Upstream(c, reply'[a])
    BY <1>10, <2>1, SameGateway
  <2>3. GP!Inv'
    BY <1>3, <1>10, <2>1, <2>2, GP!UpstreamInv, GatewayAssumptions
  <2>4. /\ UNCHANGED <<pc, ask, answer>> /\ call'[c] = reply'[a]
        /\ \A d \in Clients \ {c} : call'[d] = call[d]
        /\ serves'[a] = {} /\ \A b \in AuthSlots \ {a} : serves'[b] = serves[b]
        /\ serves' \in [AuthSlots -> AP!Opt(Clients)]
    BY <1>10, <2>1, <2>2 DEF GP!Upstream, GP!Inv, GP!TypeOK, ClientsOK, Serving, AP!Opt
  <2>5. \A d \in Clients : Op(d)' = Op(d) /\ Body(d)' = Body(d) /\ Registering(d)' = Registering(d)
    BY <2>4 DEF Op, Body, Registering
  <2>6. pc[c] = "waiting" /\ (Op(c) = "register" <=> told[c] = 0)
    <3>1. pc[c] = "waiting"
      BY <2>1, CallCodes DEF GP!Inv, GP!CallsWaited
    <3> QED
      BY <2>1, <3>1 DEF ClientsOK, Asking
  <2>7. Asking'
    BY <1>5, <2>4, <2>5 DEF ClientsOK, Asking
  <2>8. Serving'
    <3>1. ASSUME NEW b \in AuthSlots, NEW d \in serves'[b]
          PROVE  /\ at'[b] # "idle" /\ call'[d] = G!Sent /\ d \in taken /\ request[b] = Body(d)'
                 /\ \A e \in AuthSlots \ {b} : d \notin serves'[e]
      <4>1. b # a /\ d \in serves[b] /\ d \in Clients /\ d # c
        BY <1>10, <2>4, <3>1 DEF ClientsOK, Serving, AP!Opt
      <4> QED
        BY <1>3, <2>4, <2>5, <4>1 DEF ClientsOK, Serving
    <3>2. G!Sent' = G!Sent
      BY DEF G!Sent
    <3> QED
      BY <1>3, <1>5, <2>4, <3>1, <3>2 DEF ClientsOK, Serving
  <2>9. ComingAnswers'
    <3>1. ASSUME NEW d \in Clients \ {c}, call[d] # GP!NoCall, Op(d) = "login" PROVE told[d] # 0
      BY <3>1 DEF ClientsOK, Asking, GP!Inv, GP!CallsWaited
    <3>2. ASSUME NEW d \in Clients \ {c}, call'[d] # GP!NoCall
          PROVE  /\ Op(d)' = "register" /\ call'[d] = 201 => MadeBy(d)'
                 /\ Op(d)' = "register" /\ call'[d] = 409 => Refused(d)'
                 /\ Op(d)' = "login" /\ call'[d] = 200 => MadeBy(d)'
                 /\ Op(d)' = "login" /\ call'[d] = 401 => ~ActiveBy(d)'
      BY <1>4, <1>6, <1>7, <2>4, <2>5, <3>1, <3>2 DEF ClientsOK, ComingAnswers
    <3>3. /\ Op(c)' = "register" /\ call'[c] = 201 => MadeBy(c)'
          /\ Op(c)' = "register" /\ call'[c] = 409 => Refused(c)'
          /\ Op(c)' = "login" /\ call'[c] = 200 => MadeBy(c)'
          /\ Op(c)' = "login" /\ call'[c] = 401 => ~ActiveBy(c)'
      <4>1. /\ Op(c) = "register" /\ reply'[a] = 201 => MadeBy(c)'
            /\ Op(c) = "register" /\ reply'[a] = 409 => Refused(c)
            /\ Op(c) = "login" /\ reply'[a] = 200 => MadeBy(c)
            /\ Op(c) = "login" /\ reply'[a] = 401 => ~ActiveBy(c)
            /\ Op(c) = "login" => told[c] # 0
        BY <1>1, <1>2, <1>10, AnswerSays
      <4> QED
        BY <1>4, <1>6, <1>7, <2>1, <2>4, <2>5, <4>1
    <3> QED
      BY <3>2, <3>3 DEF ComingAnswers, GP!NoCall
  <2>10. Undoubted'
    <3>1. ASSUME NEW d \in Clients \ doubt PROVE NoOrphan(d)'
      BY <1>3, <1>10, <2>4 DEF ClientsOK, Undoubted, NoOrphan
    <3>2. ASSUME NEW d \in Clients \ doubt, MadeBy(d)'
          PROVE  told[d] = 201 \/ (pc'[d] # "idle" /\ Op(d)' = "register" /\ call'[d] \in {201, 500})
      <4>1. CASE MadeBy(d) /\ d # c
        BY <2>4, <2>5, <4>1 DEF ClientsOK, Undoubted
      <4>2. CASE MadeBy(d) /\ d = c
        BY <2>1, <4>2, CallCodes DEF ClientsOK, Undoubted
      <4>3. CASE ~MadeBy(d)
        <5>1. d = c /\ request[a].op = "register" /\ reply'[a] \in {201, 500}
          BY <1>4, <1>8, <2>1, <3>2, <4>3
        <5>2. Op(c) = "register"
          BY <2>1, <5>1 DEF Body
        <5> QED
          BY <2>4, <2>5, <2>6, <5>1, <5>2
      <4> QED
        BY <4>1, <4>2, <4>3
    <3> QED
      BY <1>5, <3>1, <3>2 DEF Undoubted
  <2>11. AnswersSettle'
    <3>1. \A d \in Clients : MadeBy(d)' => told'[d] = 201 \/ d \in doubt' \/ Registering(d)'
      BY <2>10 DEF Undoubted, Registering
    <3> QED
      BY <1>4, <1>5, <1>6, <3>1 DEF ClientsOK, AnswersSettle, Refused
  <2> QED
    BY <1>2, <1>3, <2>3, <2>7, <2>8, <2>9, <2>10, <2>11 DEF ClientsOK
<1> QED
  BY <1>9, <1>10 DEF Respond

-----------------------------------------------------------------------------
\* Every step keeps the invariant.

\* Nobody has asked for anything.
LEMMA InitInv == Init => Inv
<1> SUFFICES ASSUME Init PROVE Inv
  OBVIOUS
<1>1. GP!Inv
  BY SameStart, GP!InitInv, GatewayAssumptions
<1>2. AP!Inv
  BY SameStart, AP!InitInv, AuthAssumptions
<1>3. AP!OffOK /\ AP!Unanswered /\ \A a \in AuthSlots : at[a] = "idle"
  BY SameStart DEF AP!Init, AP!LocalInit, AP!OffOK, AP!Unanswered
<1>4. \A d : ~MadeBy(d)
  BY SameStart DEF AP!Init, MadeBy, A!Registered
<1>5. \A c \in Clients : pc[c] = "idle" /\ call[c] = GP!NoCall /\ told[c] = 0
  BY SameStart DEF Init, GP!Init
<1>6. Asking /\ ComingAnswers /\ AnswersSettle
  BY <1>4, <1>5 DEF Asking, ComingAnswers, AnswersSettle
<1>7. Undoubted
  BY <1>3, <1>4 DEF Undoubted, NoOrphan
<1>8. Serving
  <2>1. serves \in [AuthSlots -> AP!Opt(Clients)]
    BY DEF Init, AP!Opt
  <2> QED
    BY <2>1 DEF Init, Serving
<1> QED
  BY <1>1, <1>2, <1>3, <1>6, <1>7, <1>8 DEF Inv, ServicesOK, ClientsOK

\* Nothing happens.
LEMMA StutterInv == ASSUME Inv, UNCHANGED vars PROVE Inv'
<1>1. UNCHANGED <<gatewayVars, authVars, pc, ask, call, at, request, serves, taken, told, doubt>>
  BY DEF vars, gatewayVars, authVars, history
<1> QED
  BY <1>1, AuthStill, GatewayStill, ClientsStill DEF Inv, ServicesOK

\* Every step of the two services, of their clients and of what fails between them.
LEMMA NextInv == Inv /\ [Next]_vars => Inv'
  BY SubmitInv, SendBodyInv, GatewayStepInv, GatewayFaultInv, DeliverInv, AuthStepInv, RivalInv,
     WindowInv, ExpireInv, DeactivateInv, AuthCrashInv, GatewayCrashInv, StutterInv
     DEF Next, Routine, Trouble, AuthStep, AuthFault

\* In every behaviour, with orphaned calls, restarts, lost acknowledgements,
\* retries and rivals.
THEOREM InvHolds == Spec => []Inv
<1> QED
  BY InitInv, NextInv, PTL DEF Spec

\* The variables keep their types, and whoever is answered is waiting for it.
THEOREM TypeCorrect == Spec => []TypeOK
<1>1. Inv => TypeOK
  BY DEF Inv, ServicesOK, ClientsOK, Serving, TypeOK, GP!Inv, AP!Inv, G!TypeOK, GP!TypeOK,
         G!Tables, GP!Tables, G!BuildRoutes, GP!BuildRoutes, G!Entry, GP!Entry, G!Ask, GP!Ask,
         G!Token, GP!Token, G!NoCall, GP!NoCall, G!Sent, GP!Sent, G!Arriving, GP!Arriving, G!Status, GP!Status,
         A!TypeOK, AP!TypeOK, A!Opt, AP!Opt, A!Token, AP!Token, A!Request, AP!Request,
         A!At, AP!At, A!DbSteps, AP!DbSteps, A!Entity, AP!Entity, A!Status, AP!Status
<1> QED
  BY <1>1, InvHolds, PTL

\* What a client concludes from 201, from 409 and from nothing is right.
THEOREM AnswersSettled == Spec => []AnswersSettle
<1>1. Inv => AnswersSettle
  BY DEF Inv, ClientsOK
<1> QED
  BY <1>1, InvHolds, PTL

-----------------------------------------------------------------------------
\* Logging in.

\* LoginTells, of one client.
Tells(c) ==
    Op(c) = "login" /\ answer'[c] # answer[c] =>
        /\ answer'[c] = 200 => MadeBy(c)
        /\ answer'[c] = 401 => ~ActiveBy(c)

\* Who answers a client: the gateway by itself (429, 503) or with the answer it has been given.
LEMMA NextTells == Inv /\ [Next]_vars => \A c \in Clients : Tells(c)
<1> SUFFICES ASSUME Inv, [Next]_vars PROVE \A c \in Clients : Tells(c)
  OBVIOUS
<1> USE DEF Inv, ServicesOK
<1>1. ASSUME \A d \in Clients : answer'[d] \in {answer[d], 0, 503}
      PROVE  \A d \in Clients : Tells(d)
  BY <1>1 DEF Tells
<1>2. ASSUME NEW c \in Clients, Submit(c) PROVE \A d \in Clients : answer'[d] \in {answer[d], 0, 503}
  BY <1>2, SameGateway DEF Submit, GP!Receive, GP!Inv, GP!TypeOK
<1>3. ASSUME NEW c \in Clients, GatewayStep(c) PROVE \A d \in Clients : Tells(d)
  <2>1. GP!Step(c)
    BY <1>3, SameGateway DEF GatewayStep
  <2>2. pc[c] # "idle"
    BY <2>1 DEF GP!Step, GP!Admit, GP!Handle, GP!Send, GP!Relay
  <2>3. ask[c].method = "POST" /\ ask[c].path \in AuthPaths
    BY <2>2 DEF ClientsOK, Asking
  <2>4. CASE UNCHANGED answer
    BY <1>1, <2>4
  <2>5. ASSUME NEW code, GP!Finish(c, code),
               code = 429 \/ (code = call[c] /\ call[c] # GP!NoCall)
        PROVE  \A d \in Clients : Tells(d)
    <3>1. answer'[c] = code /\ \A d \in Clients \ {c} : answer'[d] = answer[d]
      BY <2>5 DEF GP!Finish, GP!Inv, GP!TypeOK
    <3>2. Tells(c)
      BY <2>5, <3>1 DEF Tells, ClientsOK, ComingAnswers
    <3> QED
      BY <3>1, <3>2 DEF Tells
  <2>6. \/ UNCHANGED answer
        \/ GP!Finish(c, 429)
        \/ GP!Finish(c, call[c]) /\ call[c] \in {200, 201, 401, 409, 500}
    <3>1. GP!Inv
      OBVIOUS
    <3>2. \/ GP!Finish(c, 429)
          \/ call[c] \in {200, 201, 401, 409, 500} /\ GP!Finish(c, call[c])
          \/ answer' = answer
      BY <2>1, <2>3, <3>1, GP!AuthRequestSteps, GatewayAssumptions
    <3> QED
      BY <3>2
  <2> QED
    BY <2>4, <2>5, <2>6, CallCodes
<1>4. ASSUME NEW c \in Clients, GatewayFault(c)
      PROVE  \A d \in Clients : answer'[d] \in {answer[d], 0, 503}
  BY <1>4, SameGateway DEF GatewayFault, GP!Unreachable, GP!GiveUp, GP!Disconnect, GP!Finish,
                           GP!Inv, GP!TypeOK
<1>5. ASSUME GatewayCrash PROVE \A d \in Clients : answer'[d] \in {answer[d], 0, 503}
  BY <1>5, SameGateway DEF GatewayCrash, GP!Crash
<1>6. ASSUME NEW a \in AuthSlots, AuthStep(a) \/ AuthFault(a) PROVE UNCHANGED answer
  <2>1. \A c \in serves[a] : G!Upstream(c, reply'[a]) => UNCHANGED answer
    BY DEF G!Upstream
  <2> QED
    BY <1>6, <2>1 DEF AuthStep, AuthFault, Respond, gatewayVars
<1>7. ASSUME WindowEnds PROVE UNCHANGED answer
  BY <1>7 DEF WindowEnds, G!WindowEnds
<1>8. ASSUME UNCHANGED gatewayVars PROVE UNCHANGED answer
  BY <1>8 DEF gatewayVars
<1>9. ASSUME NEW c \in Clients, SendBody(c) PROVE UNCHANGED answer
  BY <1>9 DEF SendBody, G!ReadBody, G!Goto
<1> QED
  BY <1>1, <1>2, <1>3, <1>4, <1>5, <1>6, <1>7, <1>8, <1>9
     DEF Next, Routine, Trouble, Deliver, RivalRegisters, AuthCrash, Expire, Deactivate, vars

\* A login settles what a registration left open: 200 says that the account is
\* the client's own, 401 that no active account is (somebody else's, or its own
\* and deactivated), whatever became of its earlier calls.
THEOREM LoginsTell == Spec => LoginTells
<1>1. Inv /\ [Next]_vars => [\A c \in Clients : Tells(c)]_vars
  BY NextTells
<1> QED
  BY <1>1, InvHolds, PTL DEF Spec, LoginTells, Tells
=============================================================================
