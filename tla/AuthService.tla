---------------------------- MODULE AuthService ----------------------------
(***************************************************************************)
(* The auth service: registration, login and token refresh over the users  *)
(* table, with two cache-aside copies of a user in Redis, one keyed by     *)
(* email and one by id.  A request occupies a slot; between two awaits any *)
(* other slot runs.  An account is a user id; EmailOf gives each id that   *)
(* uuid4 may draw the email it is drawn for, so a registration picks a     *)
(* fresh id of its email.  Tokens are kept while they are valid.           *)
(***************************************************************************)
EXTENDS Naturals, FiniteSets

CONSTANTS
    Users,          \* user ids
    Emails,         \* normalised email addresses
    Passwords,      \* plain passwords; bcrypt keeps different ones apart
    EmailOf,        \* the email of each id
    Catalog,        \* role names
    DefaultRole,    \* EMPLEADO
    Slots,          \* requests in flight at once (a bound)
    RedisMayFail,   \* Redis commands may fail; the code logs and goes on
    DbMayFail,      \* statements and COMMIT may fail
    MayCrash,       \* the process may be killed and restarted
    MayDeactivate   \* an administrator may set users.is_active to false

ASSUME EmailAssumption == EmailOf \in [Users -> Emails] /\ Emails # {}
ASSUME RoleAssumption == DefaultRole \in Catalog
ASSUME PasswordAssumption == Passwords # {}
ASSUME FaultAssumption == {RedisMayFail, DbMayFail, MayCrash, MayDeactivate} \subseteq BOOLEAN

VARIABLES
    currentRole,    \* users, committed: {} for no row, or {role_id}
    emailCache,     \* Redis auth:user:email:<email of u>: {} or {role}
    idCache,        \* Redis auth:user:id:<u>: {} or {role}
    hash,           \* users.hashed_password, committed, as the password it is of
    inactive,       \* users with is_active = false, committed
    emailOff,       \* ids whose copy under the email key has is_active = false
    idOff,          \* ids whose copy under the id key has is_active = false
    tokens,         \* issued JWTs whose exp has not passed
    request,        \* what each slot was asked, or was last asked
    at,             \* the await each slot is at
    loaded,         \* the User entity its handler holds: {} or {[id, role, active]}
    reply           \* status code of the last answer, 0 while there is none

emailKey == <<emailCache, emailOff>>
idKey == <<idCache, idOff>>
redis == <<emailKey, idKey>>
users == <<currentRole, hash, inactive>>
slots == <<request, at, loaded, reply>>
vars == <<users, redis, tokens, slots>>

Opt(S) == {{}} \cup {{x} : x \in S}

Token == [user : Users, type : {"access", "refresh"}, role : Catalog]
Entity == [id : Users, role : Catalog, active : BOOLEAN]

\* A refresh request carries a token that is, or is no longer, valid.
Request == [op : {"register", "login"}, email : Emails, password : Passwords]
             \cup [op : {"refresh"}, token : Token]

DbSteps == {"exists", "insert", "select_email", "select_id", "commit"}
At == DbSteps \cup {"idle", "get_email", "set_email", "get_id", "set_id"}
Status == {0, 200, 201, 401, 409, 500}

TypeOK ==
    /\ currentRole \in [Users -> Opt(Catalog)]
    /\ emailCache \in [Users -> Opt(Catalog)]
    /\ idCache \in [Users -> Opt(Catalog)]
    /\ hash \in [Users -> Opt(Passwords)]
    /\ inactive \subseteq Users /\ emailOff \subseteq Users /\ idOff \subseteq Users
    /\ tokens \subseteq Token
    /\ request \in [Slots -> Request]
    /\ at \in [Slots -> At]
    /\ loaded \in [Slots -> Opt(Entity)]
    /\ reply \in [Slots -> Status]

LocalInit ==
    /\ idCache = [u \in Users |-> {}]
    /\ hash = [u \in Users |-> {}]
    /\ inactive = {} /\ emailOff = {} /\ idOff = {}
    /\ tokens = {}
    /\ request \in [Slots -> {[op |-> "register", email |-> CHOOSE e \in Emails : TRUE,
                               password |-> CHOOSE p \in Passwords : TRUE]}]
    /\ at = [s \in Slots |-> "idle"]
    /\ loaded = [s \in Slots |-> {}]
    /\ reply = [s \in Slots |-> 0]

Init ==
    /\ currentRole = [u \in Users |-> {}]
    /\ emailCache = [u \in Users |-> {}]
    /\ LocalInit

-----------------------------------------------------------------------------
op(s) == request[s].op
email(s) == request[s].email
password(s) == request[s].password

Registered == {u \in Users : currentRole[u] # {}}
Entry(role, off, u) ==
    [id |-> u, role |-> CHOOSE r \in Catalog : r \in role[u], active |-> u \notin off]
Row(u) == Entry(currentRole, inactive, u)
CachedByEmail(u) == Entry(emailCache, emailOff, u)
CachedById(u) == Entry(idCache, idOff, u)

\* SETEX of the user the handler holds.
Put(cache, e) == [cache EXCEPT ![e.id] = {e.role}]
PutOff(off, e) == IF e.active THEN off \ {e.id} ELSE off \cup {e.id}

\* Mutant: neither is_password_correct nor login looks at is_active.
AcceptsInactive(s, e) == password(s) \in hash[e.id]

\* Mutant: is_password_correct does not compare the hash.
AcceptsUnverified(s, e) == e.active

\* User.is_password_correct.  The hash is written with the row and never
\* changed, so a copy's is the row's.
Accepts(s, e) == e.active /\ password(s) \in hash[e.id]

\* Mutant: the session is never committed or closed after a registration.
PendingUserKept(s) ==
    op(s) = "register" /\ (at[s] = "commit" \/ (at[s] = "idle" /\ reply[s] = 201))

\* INSERT INTO users flushed, not committed.
PendingUser(s) == op(s) = "register" /\ at[s] = "commit"

\* The ids some registration in flight has drawn.
Drawn == UNION {{e.id : e \in loaded[s]} : s \in {t \in Slots : op(t) = "register"}}

\* Mutant: the token_type of the answer ("bearer") is put in the claim.
IssueBearer(s, e) ==
    {[user |-> e.id, type |-> ty, role |-> e.role] :
        ty \in IF op(s) = "register" THEN {} ELSE {"bearer"}}

\* Mutant: refresh rotates the refresh token.
IssueRotated(s, e) ==
    {[user |-> e.id, type |-> ty, role |-> e.role] :
        ty \in IF op(s) = "register" THEN {} ELSE {"access", "refresh"}}

\* Mutant: registration logs the new user in.
IssueAtOnce(s, e) ==
    {[user |-> e.id, type |-> ty, role |-> e.role] :
        ty \in IF op(s) = "login" THEN {"access", "refresh"} ELSE {"access"}}

\* login creates both tokens, refresh an access token only.
Issue(s, e) ==
    {[user |-> e.id, type |-> ty, role |-> e.role] :
        ty \in IF op(s) = "login" THEN {"access", "refresh"}
               ELSE IF op(s) = "refresh" THEN {"access"} ELSE {}}

Goto(s, next, entity) ==
    /\ at' = [at EXCEPT ![s] = next]
    /\ loaded' = [loaded EXCEPT ![s] = entity]
    /\ UNCHANGED <<request, reply>>

\* The session is committed or rolled back and closed, then the answer is sent.
Finish(s, code) ==
    /\ at' = [at EXCEPT ![s] = "idle"]
    /\ loaded' = [loaded EXCEPT ![s] = {}]
    /\ reply' = [reply EXCEPT ![s] = code]
    /\ UNCHANGED request

Reject(s, code) == Finish(s, code) /\ UNCHANGED <<users, tokens>>

First == [register |-> "exists", login |-> "get_email", refresh |-> "get_id"]

\* A client presents tokens it was given, valid or expired meanwhile.
Receive(s) ==
    /\ at[s] = "idle"
    /\ \E r \in Request :
        /\ request' = [request EXCEPT ![s] = r]
        /\ at' = [at EXCEPT ![s] = First[r.op]]
    /\ reply' = [reply EXCEPT ![s] = 0]
    /\ UNCHANGED <<users, redis, tokens, loaded>>

-----------------------------------------------------------------------------
\* POST /auth/register

\* exists_by_email, then (no await between) the hash and User.create.
ExistsByEmail(s) ==
    /\ at[s] = "exists"
    /\ UNCHANGED <<redis, users, tokens>>
    /\ \/ /\ \E u \in Registered : EmailOf[u] = email(s)
          /\ Finish(s, 409)
       \/ /\ \A u \in Registered : EmailOf[u] # email(s)
          /\ \E u \in Users \ Drawn :
               /\ EmailOf[u] = email(s)
               /\ Goto(s, "insert", {[id |-> u, role |-> DefaultRole, active |-> TRUE]})

\* Mutant: users.email is not unique.
InsertUserUnconstrained(s) ==
    /\ at[s] = "insert"
    /\ Goto(s, "commit", loaded[s])
    /\ UNCHANGED <<redis, users, tokens>>

\* Mutant: save() caches the user it has flushed.
InsertUserCached(s) ==
    /\ at[s] = "insert"
    /\ \A t \in Slots : PendingUser(t) => email(t) # email(s)
    /\ UNCHANGED <<emailKey, idOff, users, tokens>>
    /\ \/ /\ \E u \in Registered : EmailOf[u] = email(s)
          /\ Finish(s, 500) /\ UNCHANGED idCache
       \/ /\ \A u \in Registered : EmailOf[u] # email(s)
          /\ \E e \in loaded[s] : idCache' = [idCache EXCEPT ![e.id] = {e.role}]
          /\ Goto(s, "commit", loaded[s])

\* The unique index: the INSERT waits for another transaction's uncommitted
\* row with the same email, and fails on a committed one.  Nothing catches the
\* IntegrityError.
InsertUser(s) ==
    /\ at[s] = "insert"
    /\ \A t \in Slots : PendingUser(t) => email(t) # email(s)
    /\ UNCHANGED <<redis, users, tokens>>
    /\ \/ (\E u \in Registered : EmailOf[u] = email(s)) /\ Finish(s, 500)
       \/ (\A u \in Registered : EmailOf[u] # email(s)) /\ Goto(s, "commit", loaded[s])

-----------------------------------------------------------------------------
\* POST /auth/login: find_by_email, then is_password_correct (no await).

EmailHit(s) ==
    /\ at[s] = "get_email"
    /\ UNCHANGED <<redis, users>>
    /\ \E u \in Users :
        /\ EmailOf[u] = email(s) /\ emailCache[u] # {}
        /\ \/ /\ Accepts(s, CachedByEmail(u))
              /\ tokens' = tokens \cup Issue(s, CachedByEmail(u))
              /\ Finish(s, 200)
           \/ ~Accepts(s, CachedByEmail(u)) /\ Finish(s, 401) /\ UNCHANGED tokens

EmailMiss(s) ==
    /\ at[s] = "get_email"
    /\ RedisMayFail \/ \A u \in Users : EmailOf[u] = email(s) => emailCache[u] = {}
    /\ Goto(s, "select_email", {})
    /\ UNCHANGED <<users, redis, tokens>>

SelectByEmail(s) ==
    /\ at[s] = "select_email"
    /\ UNCHANGED <<users, redis, tokens>>
    /\ \/ (\A u \in Registered : EmailOf[u] # email(s)) /\ Finish(s, 401)
       \/ \E u \in Registered : EmailOf[u] = email(s) /\ Goto(s, "set_email", {Row(u)})

SetEmail(s) ==
    /\ at[s] = "set_email"
    /\ UNCHANGED <<users, idKey, tokens>>
    /\ \E e \in loaded[s] :
        /\ \/ emailCache' = Put(emailCache, e) /\ emailOff' = PutOff(emailOff, e)
           \/ RedisMayFail /\ UNCHANGED emailKey
        /\ \/ Accepts(s, e) /\ Goto(s, "commit", loaded[s])
           \/ ~Accepts(s, e) /\ Finish(s, 401)

-----------------------------------------------------------------------------
\* POST /auth/refresh: decode_token and the type check, then find_by_id.

Acceptable(s) == request[s].token \in tokens /\ request[s].token.type = "refresh"

RefreshRejected(s) ==
    /\ at[s] = "get_id"
    /\ ~Acceptable(s)
    /\ Reject(s, 401)
    /\ UNCHANGED redis

IdHit(s) ==
    /\ at[s] = "get_id"
    /\ Acceptable(s)
    /\ UNCHANGED <<users, redis>>
    /\ LET u == request[s].token.user IN
       /\ idCache[u] # {}
       /\ \/ /\ u \notin idOff
             /\ tokens' = tokens \cup Issue(s, CachedById(u))
             /\ Finish(s, 200)
          \/ u \in idOff /\ Finish(s, 401) /\ UNCHANGED tokens

IdMiss(s) ==
    /\ at[s] = "get_id"
    /\ Acceptable(s)
    /\ idCache[request[s].token.user] = {} \/ RedisMayFail
    /\ Goto(s, "select_id", {})
    /\ UNCHANGED <<users, redis, tokens>>

SelectById(s) ==
    /\ at[s] = "select_id"
    /\ UNCHANGED <<users, redis, tokens>>
    /\ LET u == request[s].token.user IN
       \/ u \notin Registered /\ Finish(s, 401)
       \/ u \in Registered /\ Goto(s, "set_id", {Row(u)})

SetId(s) ==
    /\ at[s] = "set_id"
    /\ UNCHANGED <<users, emailKey, tokens>>
    /\ \E e \in loaded[s] :
        /\ \/ idCache' = Put(idCache, e) /\ idOff' = PutOff(idOff, e)
           \/ RedisMayFail /\ UNCHANGED idKey
        /\ \/ e.active /\ Goto(s, "commit", loaded[s])
           \/ ~e.active /\ Finish(s, 401)

-----------------------------------------------------------------------------
\* get_db_session: the commit, then the answer with the tokens.

ApplyWrites(s) ==
    /\ UNCHANGED inactive
    /\ \/ /\ PendingUser(s)
          /\ \E e \in loaded[s] :
               /\ currentRole' = [currentRole EXCEPT ![e.id] = {e.role}]
               /\ hash' = [hash EXCEPT ![e.id] = {password(s)}]
       \/ ~PendingUser(s) /\ UNCHANGED <<currentRole, hash>>

SuccessCode == [register |-> 201, login |-> 200, refresh |-> 200]

Commit(s) ==
    /\ at[s] = "commit"
    /\ ApplyWrites(s)
    /\ tokens' = tokens \cup UNION {Issue(s, e) : e \in loaded[s]}
    /\ Finish(s, SuccessCode[op(s)])
    /\ UNCHANGED redis

\* Mutant: an error of the commit is taken for a duplicate email.
CommitUnacknowledgedConflict(s) ==
    /\ DbMayFail
    /\ at[s] = "commit"
    /\ ApplyWrites(s)
    /\ Finish(s, 409)
    /\ UNCHANGED <<redis, tokens>>

\* COMMIT was executed but its acknowledgement was lost: no tokens are sent.
CommitUnacknowledged(s) ==
    /\ DbMayFail
    /\ at[s] = "commit"
    /\ ApplyWrites(s)
    /\ Finish(s, 500)
    /\ UNCHANGED <<redis, tokens>>

DbError(s) ==
    /\ DbMayFail
    /\ at[s] \in DbSteps
    /\ Reject(s, 500)
    /\ UNCHANGED redis

Crash ==
    /\ MayCrash
    /\ at' = [s \in Slots |-> "idle"]
    /\ loaded' = [s \in Slots |-> {}]
    /\ reply' = [s \in Slots |-> IF at[s] = "idle" THEN reply[s] ELSE 0]
    /\ UNCHANGED <<users, redis, tokens, request>>

\* An administrator soft-deletes the user in the database (User.deactivate has
\* no endpoint), and nothing is deleted from Redis.
Deactivate(u) ==
    /\ MayDeactivate
    /\ u \in Registered \ inactive
    /\ inactive' = inactive \cup {u}
    /\ UNCHANGED <<currentRole, hash, redis, tokens, slots>>

-----------------------------------------------------------------------------
\* Time: TTLs and exp claims.

ExpireEmail(u) ==
    /\ emailCache[u] # {}
    /\ emailCache' = [emailCache EXCEPT ![u] = {}]
    /\ emailOff' = emailOff \ {u}
    /\ UNCHANGED <<users, idKey, tokens, slots>>

\* Mutant: the entry is written with SET, without a TTL.
ExpireIdNever(u) == FALSE /\ UNCHANGED vars

ExpireId(u) ==
    /\ idCache[u] # {}
    /\ idCache' = [idCache EXCEPT ![u] = {}]
    /\ idOff' = idOff \ {u}
    /\ UNCHANGED <<users, emailKey, tokens, slots>>

\* The last valid copy of the token passes its exp.
ExpireToken(t) ==
    /\ t \in tokens
    /\ tokens' = tokens \ {t}
    /\ UNCHANGED <<users, redis, slots>>

Step(s) ==
    \/ ExistsByEmail(s) \/ InsertUser(s)
    \/ EmailHit(s) \/ EmailMiss(s) \/ SelectByEmail(s) \/ SetEmail(s)
    \/ RefreshRejected(s) \/ IdHit(s) \/ IdMiss(s) \/ SelectById(s) \/ SetId(s)
    \/ Commit(s)

Fault(s) == CommitUnacknowledged(s) \/ DbError(s)

ServiceNext ==
    \/ \E s \in Slots : Receive(s) \/ Step(s) \/ Fault(s)
    \/ Crash

TimeNext ==
    \/ \E u \in Users : ExpireEmail(u) \/ ExpireId(u)
    \/ \E t \in Token : ExpireToken(t)

\* Role changes by the role service come in with SecurityCell.
Next == ServiceNext \/ TimeNext \/ \E u \in Users : Deactivate(u)

\* A slot that keeps being able to run runs; index waits are FIFO; keys set
\* with SETEX expire and so do tokens.
Fairness ==
    /\ \A s \in Slots : SF_vars(Step(s))
    /\ \A u \in Users : WF_vars(ExpireEmail(u)) /\ WF_vars(ExpireId(u))
    /\ \A t \in Token : WF_vars(ExpireToken(t))

Spec == Init /\ [][Next]_vars
FairSpec == Spec /\ Fairness

-----------------------------------------------------------------------------
\* Properties.

\* Two concurrent registrations of one email never make two accounts, although
\* the handler checks and inserts in two statements (auth_service.py, register).
OneAccountPerEmail ==
    \A u, v \in Registered : EmailOf[u] = EmailOf[v] => u = v

\* The caches never hold, and a login or refresh never works on, a user the
\* table does not have: nothing reaches Redis before its row is committed, and
\* a rolled-back registration leaves no trace there.
CachedUsersExist ==
    /\ \A u \in Users : emailCache[u] # {} \/ idCache[u] # {} => u \in Registered
    /\ \A s \in Slots : op(s) # "register" => \A e \in loaded[s] : e.id \in Registered

\* A reply tells what happened: a 201 is exactly one new account, of the email
\* asked for and with the default role; any other reply but 500 leaves users
\* as it was, and nobody gets a token with a 401, 409 or 500.
RepliesTruthful ==
    [][\A s \in Slots : reply'[s] # reply[s] =>
        /\ reply'[s] = 201 =>
             \E u \in Users \ Registered :
                /\ EmailOf[u] = email(s)
                /\ currentRole' = [currentRole EXCEPT ![u] = {DefaultRole}]
                /\ hash' = [hash EXCEPT ![u] = {password(s)}]
        /\ reply'[s] \in {200, 401, 409} => UNCHANGED <<currentRole, hash>>
        /\ reply'[s] \in {201, 401, 409, 500} => UNCHANGED tokens]_vars

\* The docstring of register: RegistrationError, which routes.py answers with
\* 409, "if the email is already registered".
DuplicateEmailAnswered409 ==
    [][\A s \in Slots :
        (at[s] = "insert" /\ at'[s] = "idle" /\ \E u \in Registered : EmailOf[u] = email(s))
            => reply'[s] = 409]_vars

\* Refreshing does not prolong a session: when a user stops logging in, the
\* user's last token expires for good, however many refreshes go on (refresh
\* answers with the refresh token it was given).
SessionsEnd ==
    \A u \in Users :
        <>[](\A s \in Slots : op(s) = "login" => email(s) # EmailOf[u]) =>
            <>[](\A t \in tokens : t.user # u)

\* A deactivated user is out in the end: README.md (limitations 2 and 6) lets
\* tokens and cached copies outlive the deactivation, and no sequence of logins
\* and refreshes through those copies prolongs that for ever.
DeactivationEnds ==
    \A u \in Users : <>(u \in inactive) => <>[](\A t \in tokens : t.user # u)

\* Every request is answered, duplicates of one registration included.
EveryRequestAnswered == \A s \in Slots : at[s] # "idle" ~> at[s] = "idle"
=============================================================================
