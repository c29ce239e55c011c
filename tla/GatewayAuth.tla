---------------------------- MODULE GatewayAuth ----------------------------
(***************************************************************************)
(* Clients that want an account for one email address, the gateway they    *)
(* speak to and the auth service behind it.  A client retries its          *)
(* registration until it is told 201 or 409, and logs in from then on.     *)
(* The gateway waits ten seconds for the auth service; a call it gives up  *)
(* on, or forgets in a restart, is an orphan the auth service goes on      *)
(* executing.  A client has one gateway slot; its password is its own, so  *)
(* the hash of an account tells who made it.  Rivals want the same address: *)
(* of them only what the auth service receives is modelled.  An             *)
(* administrator may deactivate any account.                               *)
(***************************************************************************)
EXTENDS Naturals, FiniteSets

CONSTANTS
    Clients, Rivals, Email, Users, DefaultRole, AuthSlots,
    RegisterPath, LoginPath, HealthPath, Settings, Root, Starts, Limit,
    RedisMayFail, DbMayFail, MayCrash, MayDeactivate

ASSUME ClientAssumption == Clients # {} /\ Clients \cap Rivals = {}
ASSUME LimitAssumption == Limit \in Nat
ASSUME FaultAssumption == {RedisMayFail, DbMayFail, MayCrash, MayDeactivate} \subseteq BOOLEAN

VARIABLES
    table, pc, ask, call, count, answer,                        \* Gateway
    currentRole, emailCache, idCache, hash, inactive,           \* AuthService
    emailOff, idOff, tokens, request, at, loaded, reply,
    serves,     \* the client each auth slot is to answer: {} if none or orphaned
    taken,      \* clients whose pending call the auth service has received
    told,       \* the definite answer of a client's registration, 201 or 409, or 0
    doubt       \* clients that got a 500, a 503 or no answer to a registration

AuthPaths == {RegisterPath, LoginPath}
ASSUME RootAssumption == \A p \in AuthPaths \cup {HealthPath} : <<p, Root>> \in Starts

G == INSTANCE Gateway WITH
        Slots <- Clients, Methods <- {"POST"}, Paths <- AuthPaths \cup {HealthPath},
        Roles <- {}, UpstreamStatus <- {200, 201, 401, 409, 500}
\* Of the settings, as in Gateway.
ASSUME PrefixFree ==
    \A t \in G!Tables : \A i, j \in DOMAIN t : \A p \in AuthPaths \cup {HealthPath} :
        /\ <<p, t[i].prefix>> \in Starts /\ <<p, t[j].prefix>> \in Starts
        /\ t[i].prefix = Root <=> t[j].prefix = Root
        => i = j

A == INSTANCE AuthService WITH
        Slots <- AuthSlots, Emails <- {Email}, EmailOf <- [u \in Users |-> Email],
        Passwords <- Clients \cup Rivals, Catalog <- {DefaultRole}

gatewayVars == <<table, pc, ask, call, count, answer>>
authVars == <<currentRole, emailCache, idCache, hash, inactive, emailOff, idOff, tokens,
              request, at, loaded, reply>>
history == <<told, doubt>>
vars == <<gatewayVars, authVars, serves, taken, history>>

Op(c) == IF ask[c].path = RegisterPath THEN "register" ELSE "login"
Body(c) == [op |-> Op(c), email |-> Email, password |-> c]

\* Types, and who waits for whom: a slot that is to answer a client executes
\* the very request the client is waiting for.
TypeOK ==
    /\ G!TypeOK /\ A!TypeOK
    /\ serves \in [AuthSlots -> A!Opt(Clients)]
    /\ taken \subseteq Clients /\ doubt \subseteq Clients
    /\ told \in [Clients -> {0, 201, 409}]
    /\ \A a \in AuthSlots : \A c \in serves[a] :
        at[a] # "idle" /\ call[c] = G!Sent /\ c \in taken /\ request[a] = Body(c)

Init ==
    /\ G!Init /\ A!Init
    /\ serves = [a \in AuthSlots |-> {}]
    /\ taken = {} /\ doubt = {}
    /\ told = [c \in Clients |-> 0]

-----------------------------------------------------------------------------
\* What a client remembers of the end of its registration.
Learn(c, code) ==
    /\ told' = IF Op(c) = "register" /\ code \in {201, 409}
               THEN [told EXCEPT ![c] = code] ELSE told
    /\ doubt' = IF Op(c) = "register" /\ code \in {0, 500, 503}
                THEN doubt \cup {c} ELSE doubt

\* Mutant: the connection to the auth service stays with the client's slot.
AbandonNone(S) == taken' = taken \ S /\ UNCHANGED serves

\* The calls of the clients S are given up: what executes them is orphaned.
Abandon(S) ==
    /\ taken' = taken \ S
    /\ serves' = [a \in AuthSlots |-> serves[a] \ S]

Submit(c) ==
    /\ \E path \in AuthPaths :
        /\ path = RegisterPath <=> told[c] = 0
        /\ G!Receive(c)
        /\ ask'[c] = [client |-> c, method |-> "POST", path |-> path, token |-> "absent"]
    /\ UNCHANGED <<table, authVars, serves, taken, history>>

\* A client sends its body.
SendBody(c) ==
    /\ G!ReadBody(c)
    /\ UNCHANGED <<table, authVars, serves, taken, history>>

\* Admission, forwarding, and the answer of the auth service or of the gateway.
GatewayStep(c) ==
    /\ G!Step(c)
    /\ IF pc'[c] = "idle" THEN Abandon({c}) /\ Learn(c, answer'[c])
                          ELSE UNCHANGED <<serves, taken, history>>
    /\ UNCHANGED authVars

\* The auth service is unreachable or given up, or the client leaves.
GatewayFault(c) ==
    /\ G!Unreachable(c) \/ G!GiveUp(c) \/ G!Disconnect(c)
    /\ Abandon({c}) /\ Learn(c, answer'[c])
    /\ UNCHANGED <<table, authVars>>

\* No slot answers the pending call of c any more.
Broken(c) == c \in taken /\ \A a \in AuthSlots : c \notin serves[a]

WindowEnds ==
    /\ \E k \in Clients \X AuthPaths : G!WindowEnds(k)
    /\ UNCHANGED <<table, authVars, serves, taken, history>>

\* The auth service receives a call.
Deliver(c, a) ==
    /\ call[c] = G!Sent /\ c \notin taken
    /\ A!Receive(a) /\ request'[a] = Body(c)
    /\ serves' = [serves EXCEPT ![a] = {c}]
    /\ taken' = taken \cup {c}
    /\ UNCHANGED <<gatewayVars, history>>

\* The auth service receives a rival's registration.
RivalRegisters(a) ==
    /\ A!Receive(a)
    /\ request'[a] \in [op : {"register"}, email : {Email}, password : Rivals]
    /\ UNCHANGED <<gatewayVars, serves, taken, history>>

\* The answer of a slot that has ended goes to the client it serves, if any.  It
\* is one short JSON body, which does not arrive piece by piece (no BeginAnswer).
Respond(a) ==
    \/ at'[a] # "idle" /\ UNCHANGED <<gatewayVars, serves>>
    \/ /\ at'[a] = "idle" /\ serves[a] = {}
       /\ UNCHANGED <<gatewayVars, serves>>
    \/ /\ at'[a] = "idle"
       /\ \E c \in serves[a] : G!Upstream(c, reply'[a])
       /\ serves' = [serves EXCEPT ![a] = {}]
       /\ UNCHANGED table

AuthStep(a) == A!Step(a) /\ Respond(a) /\ UNCHANGED <<taken, history>>
AuthFault(a) == A!Fault(a) /\ Respond(a) /\ UNCHANGED <<taken, history>>

\* The connections break; the gateway notices, by its own timeout at the latest.
AuthCrash ==
    /\ A!Crash
    /\ serves' = [a \in AuthSlots |-> {}]
    /\ UNCHANGED <<gatewayVars, taken, history>>

\* The clients' connections break too.
GatewayCrash ==
    /\ G!Crash
    /\ Abandon(Clients)
    /\ doubt' = doubt \cup {c \in Clients : pc[c] # "idle" /\ Op(c) = "register"}
    /\ UNCHANGED <<table, authVars, told>>

Expire ==
    /\ \E u \in Users : A!ExpireEmail(u)
    /\ UNCHANGED <<gatewayVars, serves, taken, history>>

\* An administrator deactivates an account; its owner keeps the password.
Deactivate ==
    /\ \E u \in Users : A!Deactivate(u)
    /\ UNCHANGED <<gatewayVars, serves, taken, history>>

Routine ==
    \/ \E c \in Clients : \/ Submit(c) \/ SendBody(c) \/ GatewayStep(c)
                          \/ \E a \in AuthSlots : Deliver(c, a)
    \/ \E a \in AuthSlots : AuthStep(a) \/ RivalRegisters(a)
    \/ WindowEnds \/ Expire \/ Deactivate

Trouble ==
    \/ \E c \in Clients : GatewayFault(c)
    \/ \E a \in AuthSlots : AuthFault(a)
    \/ AuthCrash \/ GatewayCrash

Next == Routine \/ Trouble

\* The fairness of the two services, the clock of the rate limiter, and clients
\* that retry and send their bodies.  Nothing forces the gateway to give up a call
\* that is executed.
Fairness ==
    /\ \A c \in Clients : /\ WF_vars(GatewayStep(c)) /\ WF_vars(SendBody(c))
                          /\ WF_vars(Broken(c) /\ GatewayFault(c))
                          /\ SF_vars(\E a \in AuthSlots : Deliver(c, a))
                          /\ SF_vars(Submit(c))
    /\ \A a \in AuthSlots : SF_vars(AuthStep(a))
    /\ WF_vars(WindowEnds)

Spec == Init /\ [][Next]_vars
FairSpec == Spec /\ Fairness

-----------------------------------------------------------------------------
\* Properties.

MadeBy(c) == \E u \in A!Registered : hash[u] = {c}
ActiveBy(c) == \E u \in A!Registered \ inactive : hash[u] = {c}
Registering(c) == pc[c] # "idle" /\ Op(c) = "register"

\* What a client may conclude from its answers, with orphans still running and
\* its own retries racing them: 201 is its own account; 409 is somebody else's,
\* unless it had a 500, a 503 or silence before; and no account of its own
\* exists that it has no reason to suspect (auth_routes.py answers 503 for a
\* call that may have been committed, and no answer but 503, 500 and silence
\* hides an account).
AnswersSettle ==
    \A c \in Clients :
        /\ told[c] = 201 => MadeBy(c)
        /\ told[c] = 409 => \E d \in Clients \cup Rivals : MadeBy(d) /\ (d = c => c \in doubt)
        /\ MadeBy(c) => told[c] = 201 \/ c \in doubt \/ Registering(c)

\* The way out of a doubtful 409 is to log in: 200 means that the account is the
\* client's own, whatever it was told, and 401 that no active account is its own:
\* the account is somebody else's, or its own and deactivated, which the password
\* does not tell apart (User.is_password_correct refuses an inactive user).
LoginTells ==
    [][\A c \in Clients :
        Op(c) = "login" /\ answer'[c] # answer[c] =>
            /\ answer'[c] = 200 => MadeBy(c)
            /\ answer'[c] = 401 => ~ActiveBy(c)]_vars

\* When the troubles end, a client that keeps retrying is told 201 or 409: no
\* orphan, lost session or exhausted window keeps it out.
RetriesSettle ==
    <>[][Routine]_vars => \A c \in Clients : <>(told[c] # 0)
=============================================================================
