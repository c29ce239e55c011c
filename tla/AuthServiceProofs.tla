------------------------- MODULE AuthServiceProofs -------------------------
(***************************************************************************)
(* Proofs about AuthService, for every set of ids, emails, passwords, roles *)
(* and slots, and any faults.                                              *)
(***************************************************************************)
EXTENDS AuthService, TLAPS

\* A nullable is empty or holds one value of its set.
LEMMA OptMembers ==
    ASSUME NEW S
    PROVE  /\ {} \in Opt(S)
           /\ \A x \in S : {x} \in Opt(S)
           /\ \A o \in Opt(S) : o # {} => \E x \in S : o = {x}
  BY DEF Opt

\* What a request names: an email and a password, or a token.
LEMMA RequestFields ==
    ASSUME NEW r \in Request
    PROVE  /\ r.op \in {"register", "login", "refresh"}
           /\ r.op # "refresh" => r.email \in Emails /\ r.password \in Passwords
           /\ r.op = "refresh" => r.token \in Token
  BY DEF Request

\* A copy of a user that is there is a user entity of that id.
LEMMA EntryTyped ==
    ASSUME NEW role \in [Users -> Opt(Catalog)], NEW off, NEW u \in Users, role[u] # {}
    PROVE  Entry(role, off, u) \in Entity /\ Entry(role, off, u).id = u
<1>1. PICK r \in Catalog : role[u] = {r}
  BY OptMembers
<1>2. (CHOOSE x \in Catalog : x \in role[u]) \in Catalog
  BY <1>1
<1>3. (u \notin off) \in BOOLEAN
  OBVIOUS
<1> QED
  BY <1>2, <1>3, ZenonT(20) DEF Entry, Entity

\* Tokens are issued for the entity at hand, and none by a registration.
LEMMA IssueTyped ==
    ASSUME NEW s \in Slots, NEW e \in Entity
    PROVE  Issue(s, e) \subseteq Token
  BY DEF Issue, Entity, Token

\* A registration issues no token.
LEMMA IssueNothing ==
    ASSUME NEW s \in Slots, op(s) = "register"
    PROVE  \A e : Issue(s, e) = {}
  BY DEF Issue

-----------------------------------------------------------------------------
\* The inductive invariant.

\* The handler a slot runs is the one its request asked for; while it works on
\* an entity, that is a fresh account of the requested email (register) or a
\* user the table has (login, refresh).
ControlAt(s, a, l) ==
    /\ a \in {"exists", "insert"} => op(s) = "register"
    /\ a \in {"get_email", "select_email", "set_email"} => op(s) = "login"
    /\ a \in {"get_id", "select_id", "set_id"} => op(s) = "refresh"
    /\ a \in {"insert", "set_email", "set_id", "commit"} <=> l # {}
    /\ \A e \in l :
        /\ op(s) = "register" => /\ EmailOf[e.id] = email(s)
                                 /\ e.role = DefaultRole
                                 /\ e.id \notin Registered
        /\ op(s) # "register" => e.id \in Registered
        /\ op(s) = "login" => EmailOf[e.id] = email(s)
        /\ op(s) = "login" /\ a = "commit" => password(s) \in hash[e.id]

ControlOK == \A s \in Slots : ControlAt(s, at[s], loaded[s])

\* uuid4 never draws one id twice.
DrawnApart ==
    \A s, t \in Slots : op(s) = "register" /\ op(t) = "register" /\ s # t =>
        \A e \in loaded[s], f \in loaded[t] : e.id # f.id

\* The unique index: what a transaction has inserted and not committed is the
\* only account of its email, committed or not.
PendingOK ==
    \A s \in Slots : PendingUser(s) =>
        /\ \A u \in Registered : EmailOf[u] # email(s)
        /\ \A t \in Slots \ {s} : PendingUser(t) => email(t) # email(s)

\* A row has a role and a password, or is not there.
RowsWhole == \A u \in Users : hash[u] # {} <=> currentRole[u] # {}

\* OneAccountPerEmail is not inductive by itself: a commit keeps it because of
\* PendingOK, which holds because the INSERT waits, and CachedUsersExist needs
\* to know what the handlers hold when they write to Redis.
Inv ==
    /\ TypeOK /\ ControlOK /\ DrawnApart /\ PendingOK /\ RowsWhole
    /\ OneAccountPerEmail /\ CachedUsersExist

\* What a step must not do to Redis and to the tokens.
CachesKept ==
    /\ emailCache' \in [Users -> Opt(Catalog)]
    /\ idCache' \in [Users -> Opt(Catalog)]
    /\ emailOff' \subseteq Users /\ idOff' \subseteq Users
    /\ \A u \in Users : emailCache'[u] # {} \/ idCache'[u] # {} => u \in Registered

\* A step that leaves Redis alone caches nobody new.
LEMMA CachesUntouched == ASSUME Inv, UNCHANGED redis PROVE CachesKept
  BY DEF Inv, TypeOK, CachedUsersExist, CachesKept, redis, emailKey, idKey

\* A slot moves from one await to the next, or to its end, and no table
\* changes: the invariant asks for three things, and for a fourth if the slot
\* now has an uncommitted row.
LEMMA MoveInv ==
    ASSUME Inv, NEW s \in Slots, NEW a \in At, NEW l \in Opt(Entity),
           at' = [at EXCEPT ![s] = a], loaded' = [loaded EXCEPT ![s] = l],
           request' = request, reply' \in [Slots -> Status],
           UNCHANGED users, CachesKept, tokens' \subseteq Token,
           ControlAt(s, a, l),
           op(s) = "register" => l \subseteq loaded[s] \/ \A e \in l : e.id \notin Drawn,
           op(s) = "register" /\ a = "commit" =>
               /\ \A u \in Registered : EmailOf[u] # email(s)
               /\ \A t \in Slots \ {s} : PendingUser(t) => email(t) # email(s)
    PROVE  Inv'
<1> USE DEF Inv
<1>1. /\ currentRole' = currentRole /\ hash' = hash /\ inactive' = inactive
      /\ Registered' = Registered
  BY DEF users, Registered
<1>2. TypeOK'
  BY <1>1 DEF TypeOK, CachesKept
<1>3. /\ at'[s] = a /\ loaded'[s] = l
      /\ \A t \in Slots \ {s} : at'[t] = at[t] /\ loaded'[t] = loaded[t]
      /\ \A t \in Slots : op(t)' = op(t) /\ email(t)' = email(t) /\ password(t)' = password(t)
  BY DEF TypeOK, op, email, password
<1>4. \A t \in Slots : ControlAt(t, at'[t], loaded'[t])
  BY <1>3 DEF ControlOK
<1>5. ControlOK'
  BY <1>1, <1>3, <1>4 DEF ControlOK, ControlAt
<1>6. DrawnApart'
  <2>1. \A t \in Slots : op(t) = "register" => \A f \in loaded[t] : f.id \in Drawn
    BY DEF Drawn
  <2>2. \A t \in Slots \ {s} : op(s) = "register" /\ op(t) = "register" =>
          \A e \in l, f \in loaded[t] : e.id # f.id
    BY <2>1 DEF DrawnApart
  <2> QED
    BY <1>3, <2>2 DEF DrawnApart
<1>7. PendingOK'
  <2>1. \A t \in Slots \ {s} : PendingUser(t)' <=> PendingUser(t)
    BY <1>3 DEF PendingUser
  <2>2. PendingUser(s)' <=> op(s) = "register" /\ a = "commit"
    BY <1>3 DEF PendingUser
  <2> QED
    BY <1>1, <1>3, <2>1, <2>2 DEF PendingOK
<1>8. RowsWhole' /\ OneAccountPerEmail'
  BY <1>1 DEF RowsWhole, OneAccountPerEmail
<1>9. CachedUsersExist'
  BY <1>1, <1>3, <1>5 DEF CachedUsersExist, CachesKept, ControlOK, ControlAt
<1> QED
  BY <1>2, <1>5, <1>6, <1>7, <1>8, <1>9

\* A slot that ends has nothing left to answer for.
LEMMA FinishInv ==
    ASSUME Inv, NEW s \in Slots, NEW code \in Status, Finish(s, code),
           UNCHANGED users, CachesKept, tokens' \subseteq Token
    PROVE  Inv'
<1>1. "idle" \in At /\ {} \in Opt(Entity)
  BY OptMembers DEF At
<1>2. ControlAt(s, "idle", {})
  BY DEF ControlAt
<1>3. reply' \in [Slots -> Status]
  BY DEF Finish, Inv, TypeOK
<1> QED
  BY <1>1, <1>2, <1>3, MoveInv DEF Finish

\* A slot that goes on with an entity, or none, but not to an uncommitted row.
LEMMA GotoInv ==
    ASSUME Inv, NEW s \in Slots, NEW a \in At, NEW l \in Opt(Entity), Goto(s, a, l),
           UNCHANGED <<users, tokens>>, CachesKept, ControlAt(s, a, l),
           op(s) = "register" => a # "commit" /\ \A e \in l : e.id \notin Drawn
    PROVE  Inv'
<1>1. reply' \in [Slots -> Status] /\ tokens' \subseteq Token /\ UNCHANGED users
  BY DEF Goto, Inv, TypeOK
<1> QED
  BY <1>1, MoveInv DEF Goto

\* No account, no copy, no request.
LEMMA InitInv == Init => Inv
<1> SUFFICES ASSUME Init PROVE Inv
  OBVIOUS
<1>1. [op |-> "register", email |-> CHOOSE e \in Emails : TRUE,
       password |-> CHOOSE p \in Passwords : TRUE] \in Request
  BY EmailAssumption, PasswordAssumption DEF Request
<1>2. TypeOK
  <2>1. {} \in Opt(Catalog) /\ {} \in Opt(Passwords) /\ {} \in Opt(Entity)
    BY OptMembers
  <2>2. request \in [Slots -> Request]
    BY <1>1 DEF Init, LocalInit
  <2>3. at \in [Slots -> At] /\ loaded \in [Slots -> Opt(Entity)] /\ reply \in [Slots -> Status]
    BY <2>1 DEF Init, LocalInit, At, Status
  <2> QED
    BY <2>1, <2>2, <2>3 DEF Init, LocalInit, TypeOK
<1>3. Registered = {}
  BY DEF Init, Registered
<1>4. \A s \in Slots : at[s] = "idle" /\ loaded[s] = {}
  BY DEF Init, LocalInit
<1>5. ControlOK /\ DrawnApart /\ PendingOK
  BY <1>4 DEF ControlOK, ControlAt, DrawnApart, PendingOK, PendingUser
<1>6. RowsWhole /\ OneAccountPerEmail /\ CachedUsersExist
  BY <1>3, <1>4 DEF RowsWhole, OneAccountPerEmail, CachedUsersExist, Init, LocalInit
<1> QED
  BY <1>2, <1>5, <1>6 DEF Inv
-----------------------------------------------------------------------------
\* One lemma per action that does more than move its slot on.

\* A request comes into a free slot.
LEMMA ReceiveInv == ASSUME Inv, NEW s \in Slots, Receive(s) PROVE Inv'
<1> USE DEF Inv
<1>1. PICK r \in Request : /\ request' = [request EXCEPT ![s] = r]
                          /\ at' = [at EXCEPT ![s] = First[r.op]]
  BY DEF Receive
<1>2. /\ First[r.op] \in At /\ r.op \in {"register", "login", "refresh"}
      /\ First[r.op] = "exists" => r.op = "register"
      /\ First[r.op] = "get_email" => r.op = "login"
      /\ First[r.op] = "get_id" => r.op = "refresh"
      /\ First[r.op] \in {"exists", "get_email", "get_id"}
  BY RequestFields DEF First, At, DbSteps
<1>3. TypeOK'
  BY <1>1, <1>2 DEF Receive, TypeOK, users, redis, emailKey, idKey, Status
<1>4. loaded[s] = {}
  BY DEF Receive, ControlOK, ControlAt
<1>5. /\ loaded' = loaded /\ Registered' = Registered /\ UNCHANGED <<users, redis>>
      /\ at'[s] = First[r.op] /\ op(s)' = r.op
      /\ \A t \in Slots \ {s} : at'[t] = at[t] /\ op(t)' = op(t) /\ email(t)' = email(t) /\ password(t)' = password(t)
  BY <1>1 DEF Receive, TypeOK, Registered, users, op, email, password
<1>6. ControlOK'
  <2>1. ControlAt(s, at[s], loaded[s])'
    BY <1>2, <1>4, <1>5 DEF ControlAt
  <2>2. ASSUME NEW t \in Slots \ {s} PROVE ControlAt(t, at[t], loaded[t])'
    BY <1>5 DEF ControlOK, ControlAt, users
  <2> QED
    BY <2>1, <2>2 DEF ControlOK
<1>7. DrawnApart'
  BY <1>4, <1>5 DEF DrawnApart
<1>8. PendingOK'
  BY <1>2, <1>5 DEF PendingOK, PendingUser
<1>9. RowsWhole' /\ OneAccountPerEmail'
  BY <1>5 DEF RowsWhole, OneAccountPerEmail, users
<1>10. CachedUsersExist'
  BY <1>4, <1>5 DEF CachedUsersExist, redis, emailKey, idKey
<1> QED
  BY <1>3, <1>6, <1>7, <1>8, <1>9, <1>10

\* The new id is nobody else's and, its email being free, not registered.
LEMMA ExistsByEmailInv == ASSUME Inv, NEW s \in Slots, ExistsByEmail(s) PROVE Inv'
<1>1. CachesKept /\ tokens' \subseteq Token /\ UNCHANGED <<users, tokens>>
  BY CachesUntouched DEF ExistsByEmail, Inv, TypeOK
<1>2. CASE Finish(s, 409)
  BY <1>1, <1>2, FinishInv DEF Status
<1>3. CASE /\ \A u \in Registered : EmailOf[u] # email(s)
           /\ \E u \in Users \ Drawn :
                /\ EmailOf[u] = email(s)
                /\ Goto(s, "insert", {[id |-> u, role |-> DefaultRole, active |-> TRUE]})
  <2>1. PICK u \in Users \ Drawn :
          /\ EmailOf[u] = email(s)
          /\ Goto(s, "insert", {[id |-> u, role |-> DefaultRole, active |-> TRUE]})
    BY <1>3
  <2> DEFINE e == [id |-> u, role |-> DefaultRole, active |-> TRUE]
  <2>2. {e} \in Opt(Entity) /\ "insert" \in At
    BY RoleAssumption DEF Opt, Entity, At, DbSteps
  <2>3. op(s) = "register"
    BY DEF ExistsByEmail, Inv, ControlOK, ControlAt
  <2>4. ControlAt(s, "insert", {e})
    BY <1>3, <2>1, <2>3 DEF ControlAt
  <2> QED
    BY <1>1, <2>1, <2>2, <2>4, GotoInv
<1> QED
  BY <1>2, <1>3 DEF ExistsByEmail

\* The unique index lets one INSERT of an email through at a time.
LEMMA InsertUserInv == ASSUME Inv, NEW s \in Slots, InsertUser(s) PROVE Inv'
<1>1. CachesKept /\ tokens' \subseteq Token /\ UNCHANGED users
  BY CachesUntouched DEF InsertUser, Inv, TypeOK
<1>2. CASE Finish(s, 500)
  BY <1>1, <1>2, FinishInv DEF Status
<1>3. CASE (\A u \in Registered : EmailOf[u] # email(s)) /\ Goto(s, "commit", loaded[s])
  <2>1. /\ "commit" \in At /\ loaded[s] \in Opt(Entity)
        /\ reply' \in [Slots -> Status]
    BY <1>3 DEF Inv, TypeOK, At, DbSteps, Goto
  <2>2. ControlAt(s, "commit", loaded[s])
    BY DEF InsertUser, Inv, ControlOK, ControlAt
  <2>3. \A t \in Slots : PendingUser(t) => email(t) # email(s)
    BY DEF InsertUser
  <2> QED
    BY <1>1, <1>3, <2>1, <2>2, <2>3, MoveInv DEF Goto
<1> QED
  BY <1>2, <1>3 DEF InsertUser

\* The commit of a registration makes its account the only one of its email.
LEMMA CommitInv ==
    ASSUME Inv, NEW s \in Slots, NEW code \in Status, at[s] = "commit",
           ApplyWrites(s), Finish(s, code), UNCHANGED redis, tokens' \subseteq Token
    PROVE  Inv'
<1> USE DEF Inv
<1>1. CASE ~PendingUser(s)
  BY <1>1, FinishInv, CachesUntouched DEF ApplyWrites, users
<1>2. CASE PendingUser(s)
  <2>1. ControlAt(s, "commit", loaded[s]) /\ loaded[s] \in Opt(Entity)
    BY DEF ControlOK, TypeOK
  <2>2. PICK e \in Entity : loaded[s] = {e}
    BY <2>1, OptMembers DEF ControlAt
  <2>3. /\ e.id \in Users /\ e.role \in Catalog /\ e.id \notin Registered
        /\ EmailOf[e.id] = email(s) /\ op(s) = "register" /\ password(s) \in Passwords
    BY <1>2, <2>1, <2>2, RequestFields
       DEF ControlAt, Entity, PendingUser, op, password, TypeOK
  <2>4. /\ currentRole' = [currentRole EXCEPT ![e.id] = {e.role}]
        /\ hash' = [hash EXCEPT ![e.id] = {password(s)}]
        /\ inactive' = inactive /\ UNCHANGED <<emailCache, idCache, emailOff, idOff>>
    BY <1>2, <2>2 DEF ApplyWrites, redis, emailKey, idKey
  <2>5. Registered' = Registered \cup {e.id}
    BY <2>3, <2>4 DEF Registered, TypeOK
  <2>6. TypeOK'
    <3>1. {e.role} \in Opt(Catalog) /\ {password(s)} \in Opt(Passwords) /\ {} \in Opt(Entity)
      BY <2>3, OptMembers
    <3> QED
      BY <2>3, <2>4, <3>1 DEF TypeOK, Finish, At
  <2>7. /\ at'[s] = "idle" /\ loaded'[s] = {}
        /\ \A t \in Slots \ {s} : at'[t] = at[t] /\ loaded'[t] = loaded[t]
        /\ \A t \in Slots : op(t)' = op(t) /\ email(t)' = email(t) /\ password(t)' = password(t)
    BY DEF Finish, TypeOK, op, email, password
  <2>8. ControlOK'
    <3>1. ControlAt(s, at[s], loaded[s])'
      BY <2>7 DEF ControlAt
    <3>2. ASSUME NEW t \in Slots \ {s} PROVE ControlAt(t, at[t], loaded[t])'
      <4>1. op(t) = "register" => \A f \in loaded[t] : f.id # e.id
        BY <2>2, <2>3 DEF DrawnApart
      <4>2. \A u \in Registered : hash'[u] = hash[u]
        BY <2>3, <2>4 DEF TypeOK, Registered
      <4>3. \A f \in loaded[t] : op(t) # "register" => f.id \in Registered
        BY DEF ControlOK, ControlAt
      <4> QED
        BY <2>5, <2>7, <4>1, <4>2, <4>3 DEF ControlOK, ControlAt
    <3> QED
      BY <3>1, <3>2 DEF ControlOK
  <2>9. DrawnApart'
    BY <2>7 DEF DrawnApart
  <2>10. PendingOK'
    <3>1. \A t \in Slots : PendingUser(t)' => t # s /\ PendingUser(t)
      BY <2>7 DEF PendingUser
    <3> QED
      BY <1>2, <2>3, <2>5, <2>7, <3>1 DEF PendingOK
  <2>11. RowsWhole'
    BY <2>3, <2>4 DEF RowsWhole, TypeOK
  <2>12. OneAccountPerEmail'
    BY <1>2, <2>3, <2>5 DEF OneAccountPerEmail, PendingOK
  <2>13. CachedUsersExist'
    BY <2>4, <2>5, <2>7 DEF CachedUsersExist
  <2> QED
    BY <2>6, <2>8, <2>9, <2>10, <2>11, <2>12, <2>13
<1> QED
  BY <1>1, <1>2

\* A restart frees every slot; table and caches stay.
LEMMA CrashInv == ASSUME Inv, Crash PROVE Inv'
<1> USE DEF Inv
<1>1. \A s \in Slots : at'[s] = "idle" /\ loaded'[s] = {}
  BY DEF Crash
<1>2. TypeOK'
  <2>1. {} \in Opt(Entity)
    BY OptMembers
  <2> QED
    BY <2>1 DEF Crash, TypeOK, At, Status, users, redis, emailKey, idKey
<1>3. ControlOK' /\ DrawnApart' /\ PendingOK'
  BY <1>1 DEF ControlOK, ControlAt, DrawnApart, PendingOK, PendingUser
<1>4. UNCHANGED <<currentRole, hash, emailCache, idCache>> /\ Registered' = Registered
  BY DEF Crash, users, redis, emailKey, idKey, Registered
<1>5. RowsWhole' /\ OneAccountPerEmail' /\ CachedUsersExist'
  BY <1>1, <1>4 DEF RowsWhole, OneAccountPerEmail, CachedUsersExist
<1> QED
  BY <1>2, <1>3, <1>5

\* Whatever happens outside the requests in flight: as long as the same users
\* are there with the same passwords and no cache gains one that is not, the
\* service notices nothing.  Expiry, deactivation, and the role changes and
\* deletions of keys by the role service are of this kind.
LEMMA OutsideInv ==
    ASSUME Inv, UNCHANGED <<slots, hash>>, Registered' = Registered,
           currentRole' \in [Users -> Opt(Catalog)], inactive' \subseteq Users,
           CachesKept, tokens' \subseteq Token
    PROVE  Inv'
<1> USE DEF Inv
<1>1. request' = request /\ at' = at /\ loaded' = loaded /\ reply' = reply
  BY DEF slots
<1>2. TypeOK'
  BY <1>1 DEF TypeOK, CachesKept
<1>3. ControlOK' /\ DrawnApart' /\ PendingOK'
  BY <1>1 DEF ControlOK, ControlAt, DrawnApart, PendingOK, PendingUser, op, email, password
<1>4. \A u \in Users : currentRole'[u] # {} <=> currentRole[u] # {}
  BY DEF Registered
<1>5. RowsWhole' /\ OneAccountPerEmail'
  BY <1>4 DEF RowsWhole, OneAccountPerEmail
<1>6. CachedUsersExist'
  BY <1>1 DEF CachedUsersExist, CachesKept, op
<1> QED
  BY <1>2, <1>3, <1>5, <1>6

\* Copies and tokens only go.
LEMMA TimeInv == ASSUME Inv, TimeNext PROVE Inv'
<1>1. /\ UNCHANGED <<slots, currentRole, hash, inactive>> /\ Registered' = Registered
      /\ tokens' \subseteq tokens
  BY DEF TimeNext, ExpireEmail, ExpireId, ExpireToken, users, Registered
<1>2. CachesKept
  <2>1. CASE \E t \in Token : ExpireToken(t)
    BY <2>1, CachesUntouched DEF ExpireToken
  <2>2. CASE \E u \in Users : ExpireEmail(u) \/ ExpireId(u)
    <3>1. {} \in Opt(Catalog)
      BY OptMembers
    <3>2. ASSUME NEW u \in Users, ExpireEmail(u) PROVE CachesKept
      BY <3>1, <3>2 DEF ExpireEmail, CachesKept, idKey, Inv, TypeOK, CachedUsersExist
    <3>3. ASSUME NEW u \in Users, ExpireId(u) PROVE CachesKept
      BY <3>1, <3>3 DEF ExpireId, CachesKept, emailKey, Inv, TypeOK, CachedUsersExist
    <3> QED
      BY <2>2, <3>2, <3>3
  <2> QED
    BY <2>1, <2>2 DEF TimeNext
<1> QED
  BY <1>1, <1>2, OutsideInv DEF Inv, TypeOK

\* An operator clears is_active of a user of the table.
LEMMA DeactivateInv == ASSUME Inv, NEW u \in Users, Deactivate(u) PROVE Inv'
<1>1. /\ UNCHANGED <<slots, currentRole, hash, redis, tokens>> /\ Registered' = Registered
      /\ inactive' \subseteq Users
  BY DEF Deactivate, Registered, Inv, TypeOK
<1> QED
  BY <1>1, OutsideInv, CachesUntouched DEF Inv, TypeOK

\* Steps of others that touch nothing of the service.
LEMMA StutterInv == ASSUME Inv, UNCHANGED vars PROVE Inv'
<1>1. UNCHANGED <<slots, currentRole, hash, inactive, redis, tokens>> /\ Registered' = Registered
  BY DEF vars, users, Registered
<1> QED
  BY <1>1, OutsideInv, CachesUntouched DEF Inv, TypeOK

-----------------------------------------------------------------------------
\* Every step keeps the invariant.

\* The steps of login: what is cached was selected, and what is selected exists.
LEMMA LoginInv ==
    ASSUME Inv, NEW s \in Slots,
           EmailHit(s) \/ EmailMiss(s) \/ SelectByEmail(s) \/ SetEmail(s)
    PROVE  Inv'
<1> USE DEF Inv
<1>1. op(s) = "login" /\ ControlAt(s, at[s], loaded[s]) /\ loaded[s] \in Opt(Entity)
  BY DEF ControlOK, ControlAt, TypeOK, EmailHit, EmailMiss, SelectByEmail, SetEmail
<1>2. CASE EmailHit(s)
  <2>1. CachesKept /\ UNCHANGED users
    BY <1>2, CachesUntouched DEF EmailHit
  <2>2. tokens' \subseteq Token
    <3>1. \A u \in Users : emailCache[u] # {} => CachedByEmail(u) \in Entity
      BY EntryTyped DEF TypeOK, CachedByEmail
    <3> QED
      BY <1>2, <3>1, IssueTyped DEF EmailHit, TypeOK
  <2>3. \E code \in Status : Finish(s, code)
    BY <1>2 DEF EmailHit, Status
  <2> QED
    BY <2>1, <2>2, <2>3, FinishInv
<1>3. CASE EmailMiss(s)
  <2>1. CachesKept /\ {} \in Opt(Entity) /\ "select_email" \in At
    BY <1>3, CachesUntouched, OptMembers DEF EmailMiss, At, DbSteps
  <2>2. ControlAt(s, "select_email", {})
    BY <1>1 DEF ControlAt
  <2> QED
    BY <1>1, <1>3, <2>1, <2>2, GotoInv DEF EmailMiss
<1>4. CASE SelectByEmail(s)
  <2>1. CachesKept /\ "set_email" \in At /\ UNCHANGED <<users, tokens>> /\ tokens' \subseteq Token
    BY <1>4, CachesUntouched DEF SelectByEmail, At, TypeOK
  <2>2. CASE Finish(s, 401)
    BY <2>1, <2>2, FinishInv DEF Status
  <2>3. ASSUME NEW u \in Registered, EmailOf[u] = email(s), Goto(s, "set_email", {Row(u)})
        PROVE  Inv'
    <3>1. Row(u) \in Entity /\ Row(u).id = u
      BY EntryTyped DEF Row, Registered, TypeOK
    <3>2. {Row(u)} \in Opt(Entity)
      BY <3>1, OptMembers
    <3>3. ControlAt(s, "set_email", {Row(u)})
      BY <1>1, <2>3, <3>1 DEF ControlAt
    <3> QED
      BY <1>1, <2>1, <2>3, <3>2, <3>3, GotoInv
  <2> QED
    BY <1>4, <2>2, <2>3 DEF SelectByEmail
<1>5. CASE SetEmail(s)
  <2>1. PICK e \in Entity : loaded[s] = {e} /\ e.id \in Registered
    BY <1>1, <1>5, OptMembers DEF SetEmail, ControlAt
  <2>2. CachesKept
    <3>1. {e.role} \in Opt(Catalog) /\ e.id \in Users
      BY OptMembers DEF Entity
    <3>2. \/ emailCache' = Put(emailCache, e) /\ emailOff' = PutOff(emailOff, e)
          \/ UNCHANGED emailKey
      BY <1>5, <2>1 DEF SetEmail
    <3>3. idCache' = idCache /\ idOff' = idOff
      BY <1>5 DEF SetEmail, idKey
    <3> QED
      BY <2>1, <3>1, <3>2, <3>3
         DEF CachesKept, Put, PutOff, emailKey, TypeOK, CachedUsersExist
  <2>3. CASE Finish(s, 401)
    BY <1>5, <2>2, <2>3, FinishInv DEF Status, SetEmail, TypeOK
  <2>4. CASE Accepts(s, e) /\ Goto(s, "commit", loaded[s])
    <3>1. ControlAt(s, "commit", loaded[s]) /\ "commit" \in At
      BY <1>1, <1>5, <2>1, <2>4 DEF ControlAt, SetEmail, At, DbSteps, Accepts
    <3> QED
      BY <1>1, <1>5, <2>2, <2>4, <3>1, GotoInv DEF SetEmail
  <2> QED
    BY <1>5, <2>1, <2>3, <2>4 DEF SetEmail
<1> QED
  BY <1>2, <1>3, <1>4, <1>5

\* The steps of refresh, likewise.
LEMMA RefreshInv ==
    ASSUME Inv, NEW s \in Slots,
           RefreshRejected(s) \/ IdHit(s) \/ IdMiss(s) \/ SelectById(s) \/ SetId(s)
    PROVE  Inv'
<1> USE DEF Inv
<1>1. op(s) = "refresh" /\ ControlAt(s, at[s], loaded[s]) /\ loaded[s] \in Opt(Entity)
  BY DEF ControlOK, ControlAt, TypeOK, RefreshRejected, IdHit, IdMiss, SelectById, SetId
<1>2. request[s].token.user \in Users
  BY <1>1, RequestFields DEF op, TypeOK, Token
<1>3. CASE RefreshRejected(s)
  BY <1>3, FinishInv, CachesUntouched DEF RefreshRejected, Reject, Status, TypeOK
<1>4. CASE IdHit(s)
  <2>1. CachesKept /\ UNCHANGED users
    BY <1>4, CachesUntouched DEF IdHit
  <2>2. tokens' \subseteq Token
    <3>1. \A u \in Users : idCache[u] # {} => CachedById(u) \in Entity
      BY EntryTyped DEF TypeOK, CachedById
    <3> QED
      BY <1>2, <1>4, <3>1, IssueTyped DEF IdHit, TypeOK
  <2>3. \E code \in Status : Finish(s, code)
    BY <1>4 DEF IdHit, Status
  <2> QED
    BY <2>1, <2>2, <2>3, FinishInv
<1>5. CASE IdMiss(s)
  <2>1. CachesKept /\ {} \in Opt(Entity) /\ "select_id" \in At
    BY <1>5, CachesUntouched, OptMembers DEF IdMiss, At, DbSteps
  <2>2. ControlAt(s, "select_id", {})
    BY <1>1 DEF ControlAt
  <2> QED
    BY <1>1, <1>5, <2>1, <2>2, GotoInv DEF IdMiss
<1>6. CASE SelectById(s)
  <2> DEFINE u == request[s].token.user
  <2>1. CachesKept /\ "set_id" \in At /\ UNCHANGED <<users, tokens>> /\ tokens' \subseteq Token
    BY <1>6, CachesUntouched DEF SelectById, At, TypeOK
  <2>2. CASE Finish(s, 401)
    BY <2>1, <2>2, FinishInv DEF Status
  <2>3. CASE u \in Registered /\ Goto(s, "set_id", {Row(u)})
    <3>1. Row(u) \in Entity /\ Row(u).id = u
      BY <2>3, EntryTyped DEF Row, Registered, TypeOK
    <3>2. {Row(u)} \in Opt(Entity)
      BY <3>1, OptMembers
    <3>3. ControlAt(s, "set_id", {Row(u)})
      BY <1>1, <2>3, <3>1 DEF ControlAt
    <3> QED
      BY <1>1, <2>1, <2>3, <3>2, <3>3, GotoInv
  <2> QED
    BY <1>6, <2>2, <2>3 DEF SelectById
<1>7. CASE SetId(s)
  <2>1. PICK e \in Entity : loaded[s] = {e} /\ e.id \in Registered
    BY <1>1, <1>7, OptMembers DEF SetId, ControlAt
  <2>2. CachesKept
    <3>1. {e.role} \in Opt(Catalog) /\ e.id \in Users
      BY OptMembers DEF Entity
    <3>2. \/ idCache' = Put(idCache, e) /\ idOff' = PutOff(idOff, e)
          \/ UNCHANGED idKey
      BY <1>7, <2>1 DEF SetId
    <3>3. emailCache' = emailCache /\ emailOff' = emailOff
      BY <1>7 DEF SetId, emailKey
    <3> QED
      BY <2>1, <3>1, <3>2, <3>3
         DEF CachesKept, Put, PutOff, idKey, TypeOK, CachedUsersExist
  <2>3. CASE Finish(s, 401)
    BY <1>7, <2>2, <2>3, FinishInv DEF Status, SetId, TypeOK
  <2>4. CASE Goto(s, "commit", loaded[s])
    <3>1. ControlAt(s, "commit", loaded[s]) /\ "commit" \in At
      BY <1>1, <1>7 DEF ControlAt, SetId, At, DbSteps
    <3> QED
      BY <1>1, <1>7, <2>2, <2>4, <3>1, GotoInv DEF SetId
  <2> QED
    BY <1>7, <2>3, <2>4 DEF SetId
<1> QED
  BY <1>3, <1>4, <1>5, <1>6, <1>7

\* What a commit answers is a status, and what it issues are tokens.
LEMMA CommitTyped ==
    ASSUME Inv, NEW s \in Slots, Commit(s)
    PROVE  SuccessCode[op(s)] \in Status /\ tokens' \subseteq Token
<1>1. op(s) \in {"register", "login", "refresh"}
  BY RequestFields DEF op, Inv, TypeOK
<1>2. SuccessCode[op(s)] \in Status
  BY <1>1 DEF SuccessCode, Status
<1>3. \A e \in loaded[s] : e \in Entity
  BY OptMembers DEF Inv, TypeOK, Opt
<1>4. tokens' \subseteq Token
  BY <1>3, IssueTyped DEF Commit, Inv, TypeOK
<1> QED
  BY <1>2, <1>4

\* Every step of a handler.
LEMMA StepInv == ASSUME Inv, NEW s \in Slots, Step(s) PROVE Inv'
<1>1. CASE ExistsByEmail(s)
  BY <1>1, ExistsByEmailInv
<1>2. CASE InsertUser(s)
  BY <1>2, InsertUserInv
<1>3. CASE EmailHit(s) \/ EmailMiss(s) \/ SelectByEmail(s) \/ SetEmail(s)
  BY <1>3, LoginInv
<1>4. CASE RefreshRejected(s) \/ IdHit(s) \/ IdMiss(s) \/ SelectById(s) \/ SetId(s)
  BY <1>4, RefreshInv
<1>5. CASE Commit(s)
  BY <1>5, CommitTyped, CommitInv DEF Commit
<1> QED
  BY <1>1, <1>2, <1>3, <1>4, <1>5 DEF Step

\* Every fault a handler meets.
LEMMA FaultInv == ASSUME Inv, NEW s \in Slots, Fault(s) PROVE Inv'
<1>1. 500 \in Status /\ tokens \subseteq Token
  BY DEF Status, Inv, TypeOK
<1>2. CASE CommitUnacknowledged(s)
  BY <1>1, <1>2, CommitInv DEF CommitUnacknowledged
<1>3. CASE DbError(s)
  BY <1>1, <1>3, FinishInv, CachesUntouched DEF DbError, Reject
<1> QED
  BY <1>2, <1>3 DEF Fault

\* Every step of the service by itself, as the compositions use it.
LEMMA ServiceInv == ASSUME Inv, ServiceNext PROVE Inv'
  BY ReceiveInv, StepInv, FaultInv, CrashInv DEF ServiceNext

\* Every step of the specification.
LEMMA NextInv == Inv /\ [Next]_vars => Inv'
  BY ServiceInv, TimeInv, DeactivateInv, StutterInv DEF Next

\* In every behaviour, with any number of requests in flight and any faults.
THEOREM InvHolds == Spec => []Inv
<1> QED
  BY InitInv, NextInv, PTL DEF Spec

\* The variables keep their types.
THEOREM TypeCorrect == Spec => []TypeOK
<1>1. Inv => TypeOK
  BY DEF Inv
<1> QED
  BY <1>1, InvHolds, PTL

\* However many registrations of one email race, with whatever failed, retried
\* or half-acknowledged commits: one account at most.
THEOREM OneAccount == Spec => []OneAccountPerEmail
<1>1. Inv => OneAccountPerEmail
  BY DEF Inv
<1> QED
  BY <1>1, InvHolds, PTL

\* No cache and no handler ever knows a user the table does not have.
THEOREM CachedExist == Spec => []CachedUsersExist
<1>1. Inv => CachedUsersExist
  BY DEF Inv
<1> QED
  BY <1>1, InvHolds, PTL

-----------------------------------------------------------------------------
\* What the answers say.

\* RepliesTruthful, of one slot.
Truthful(s) ==
    reply'[s] # reply[s] =>
        /\ reply'[s] = 201 =>
             \E u \in Users \ Registered :
                /\ EmailOf[u] = email(s)
                /\ currentRole' = [currentRole EXCEPT ![u] = {DefaultRole}]
                /\ hash' = [hash EXCEPT ![u] = {password(s)}]
        /\ reply'[s] \in {200, 401, 409} => UNCHANGED <<currentRole, hash>>
        /\ reply'[s] \in {201, 401, 409, 500} => UNCHANGED tokens

\* What a client may conclude about the account of the email it names: a login
\* that is let in gave its password, and a registration is refused only where
\* there is an account.
Telling(s) ==
    reply'[s] # reply[s] =>
        /\ op(s) = "login" /\ reply'[s] = 200 =>
             \E u \in Registered : EmailOf[u] = email(s) /\ password(s) \in hash[u]
        /\ op(s) = "register" => reply'[s] \in {0, 201, 409, 500}
        /\ op(s) = "register" /\ reply'[s] = 409 =>
             \E u \in Registered : EmailOf[u] = email(s)

\* A step of one slot changes no other slot's answer, and an answer that does
\* not change, or is taken back, says nothing.
LEMMA FinishSays ==
    ASSUME Inv, NEW s \in Slots, NEW code, Finish(s, code)
    PROVE  reply'[s] = code /\ \A t \in Slots \ {s} : Truthful(t) /\ Telling(t)
<1>1. reply' = [reply EXCEPT ![s] = code] /\ reply \in [Slots -> Status]
  BY DEF Inv, TypeOK, Finish
<1> QED
  BY <1>1 DEF Truthful, Telling

\* A step that answers nobody says nothing false.
LEMMA SilentSays ==
    ASSUME \A t \in Slots : reply'[t] \in {reply[t], 0}
    PROVE  \A t \in Slots : Truthful(t) /\ Telling(t)
  BY DEF Truthful, Telling

\* A refusal or an error, with nothing written and no token issued.
LEMMA RefusalSays ==
    ASSUME Inv, NEW s \in Slots, NEW code \in {401, 409, 500}, Finish(s, code),
           UNCHANGED <<users, tokens>>,
           op(s) = "register" => code # 401,
           op(s) = "register" /\ code = 409 => \E u \in Registered : EmailOf[u] = email(s)
    PROVE  \A t \in Slots : Truthful(t) /\ Telling(t)
<1>1. Truthful(s) /\ Telling(s)
  BY FinishSays DEF Truthful, Telling, users
<1> QED
  BY <1>1, FinishSays

\* What a request answers after its COMMIT.
LEMMA CommitSays ==
    ASSUME Inv, NEW s \in Slots, Commit(s)
    PROVE  \A t \in Slots : Truthful(t) /\ Telling(t)
<1> USE DEF Inv
<1>1. ControlAt(s, "commit", loaded[s]) /\ loaded[s] \in Opt(Entity)
  BY DEF Commit, ControlOK, TypeOK
<1>2. PICK e \in Entity : loaded[s] = {e}
  BY <1>1, OptMembers DEF ControlAt
<1>3. reply'[s] = SuccessCode[op(s)] /\ at[s] = "commit" /\ ApplyWrites(s)
  BY FinishSays DEF Commit
<1>4. op(s) \in {"register", "login", "refresh"}
  BY RequestFields DEF op, TypeOK
<1>5. CASE op(s) = "register"
  <2>1. /\ e.id \in Users \ Registered /\ EmailOf[e.id] = email(s)
        /\ currentRole' = [currentRole EXCEPT ![e.id] = {DefaultRole}]
        /\ hash' = [hash EXCEPT ![e.id] = {password(s)}]
    BY <1>1, <1>2, <1>3, <1>5 DEF ControlAt, ApplyWrites, PendingUser, Entity
  <2>2. tokens' = tokens
    BY <1>5, IssueNothing DEF Commit
  <2>3. reply'[s] = 201
    BY <1>3, <1>5 DEF SuccessCode
  <2>4. Truthful(s)
    <3>1. \E u \in Users \ Registered :
            /\ EmailOf[u] = email(s)
            /\ currentRole' = [currentRole EXCEPT ![u] = {DefaultRole}]
            /\ hash' = [hash EXCEPT ![u] = {password(s)}]
      BY <2>1, Zenon
    <3>2. reply'[s] \notin {200, 401, 409}
      BY <2>3
    <3> QED
      BY <2>2, <3>1, <3>2, Zenon DEF Truthful
  <2>5. Telling(s)
    BY <1>5, <2>3 DEF Telling
  <2> QED
    BY <2>4, <2>5, FinishSays DEF Commit
<1>6. CASE op(s) # "register"
  <2>1. reply'[s] = 200
    BY <1>3, <1>4, <1>6 DEF SuccessCode
  <2>2. UNCHANGED <<currentRole, hash>>
    BY <1>3, <1>6 DEF ApplyWrites, PendingUser
  <2>3. op(s) = "login" => /\ e.id \in Registered /\ EmailOf[e.id] = email(s)
                           /\ password(s) \in hash[e.id]
    BY <1>1, <1>2 DEF ControlAt
  <2>4. Truthful(s) /\ Telling(s)
    BY <1>6, <2>1, <2>2, <2>3 DEF Truthful, Telling
  <2> QED
    BY <2>4, FinishSays DEF Commit
<1> QED
  BY <1>5, <1>6

\* A copy found in Redis answers without the table: login and refresh.
LEMMA HitSays ==
    ASSUME Inv, NEW s \in Slots, EmailHit(s) \/ IdHit(s)
    PROVE  \A t \in Slots : Truthful(t) /\ Telling(t)
<1> USE DEF Inv
<1>1. UNCHANGED users /\ op(s) \in {"login", "refresh"}
  BY DEF EmailHit, IdHit, ControlOK, ControlAt
<1>2. CASE Finish(s, 401) /\ UNCHANGED tokens
  BY <1>1, <1>2, RefusalSays
<1>3. CASE Finish(s, 200)
  <2>1. op(s) = "login" =>
          \E u \in Registered : EmailOf[u] = email(s) /\ password(s) \in hash[u]
    <3>1. CASE EmailHit(s)
      <4>1. PICK u \in Users : /\ EmailOf[u] = email(s) /\ emailCache[u] # {}
                               /\ \/ Accepts(s, CachedByEmail(u))
                                  \/ Finish(s, 401)
        BY <3>1 DEF EmailHit
      <4>2. ~Finish(s, 401)
        <5>1. Finish(s, 401) => reply'[s] = 401
          BY FinishSays
        <5> QED
          BY <1>3, <5>1, FinishSays
      <4>3. Accepts(s, CachedByEmail(u)) /\ u \in Registered
        BY <4>1, <4>2 DEF CachedUsersExist
      <4>4. password(s) \in hash[u]
        BY <4>3 DEF Accepts, CachedByEmail, Entry
      <4> QED
        BY <4>1, <4>3, <4>4
    <3>2. CASE IdHit(s)
      BY <3>2 DEF IdHit, ControlOK, ControlAt
    <3> QED
      BY <3>1, <3>2
  <2>2. Truthful(s) /\ Telling(s)
    BY <1>1, <1>3, <2>1, FinishSays DEF Truthful, Telling, users
  <2> QED
    BY <1>3, <2>2, FinishSays
<1> QED
  BY <1>2, <1>3 DEF EmailHit, IdHit

\* Every step of a handler that may answer.
LEMMA StepSays ==
    ASSUME Inv, NEW s \in Slots, Step(s)
    PROVE  \A t \in Slots : Truthful(t) /\ Telling(t)
<1>1. ControlAt(s, at[s], loaded[s])
  BY DEF Inv, ControlOK
<1>2. CASE UNCHANGED reply
  BY <1>2, SilentSays
<1>3. CASE ExistsByEmail(s) /\ Finish(s, 409) /\ \E u \in Registered : EmailOf[u] = email(s)
  BY <1>3, RefusalSays DEF ExistsByEmail
<1>4. CASE InsertUser(s) /\ Finish(s, 500)
  BY <1>4, RefusalSays DEF InsertUser
<1>5. CASE Finish(s, 401) /\ UNCHANGED <<users, tokens>> /\ op(s) # "register"
  BY <1>5, RefusalSays
<1>6. CASE EmailHit(s) \/ IdHit(s)
  BY <1>6, HitSays
<1>7. CASE Commit(s)
  BY <1>7, CommitSays
<1>8. CASE ExistsByEmail(s) \/ InsertUser(s)
  BY <1>2, <1>3, <1>4, <1>8 DEF ExistsByEmail, InsertUser, Goto
<1>9. CASE EmailMiss(s) \/ SelectByEmail(s) \/ SetEmail(s)
  BY <1>1, <1>2, <1>5, <1>9 DEF EmailMiss, SelectByEmail, SetEmail, Goto, ControlAt
<1>10. CASE RefreshRejected(s) \/ IdMiss(s) \/ SelectById(s) \/ SetId(s)
  BY <1>1, <1>2, <1>5, <1>10 DEF RefreshRejected, Reject, IdMiss, SelectById, SetId, Goto, ControlAt
<1> QED
  BY <1>6, <1>7, <1>8, <1>9, <1>10 DEF Step

\* Every step of the service, as the compositions use it.
LEMMA ServiceSays ==
    ASSUME Inv, ServiceNext
    PROVE  \A t \in Slots : Truthful(t) /\ Telling(t)
<1>1. ASSUME NEW s \in Slots, Receive(s) PROVE \A t \in Slots : reply'[t] \in {reply[t], 0}
  BY <1>1 DEF Receive, Inv, TypeOK
<1>2. ASSUME NEW s \in Slots, CommitUnacknowledged(s)
      PROVE  \A t \in Slots : Truthful(t) /\ Telling(t)
  <2>1. reply'[s] = 500 /\ UNCHANGED tokens
    BY <1>2, FinishSays DEF CommitUnacknowledged
  <2>2. Truthful(s) /\ Telling(s)
    BY <2>1 DEF Truthful, Telling
  <2> QED
    BY <1>2, <2>2, FinishSays DEF CommitUnacknowledged
<1>3. ASSUME NEW s \in Slots, DbError(s) PROVE \A t \in Slots : Truthful(t) /\ Telling(t)
  BY <1>3, RefusalSays DEF DbError, Reject
<1>4. ASSUME Crash PROVE \A t \in Slots : reply'[t] \in {reply[t], 0}
  BY <1>4 DEF Crash
<1> QED
  BY <1>1, <1>2, <1>3, <1>4, StepSays, SilentSays DEF ServiceNext, Fault

\* Every step of the specification.
LEMMA NextSays == Inv /\ [Next]_vars => \A t \in Slots : Truthful(t) /\ Telling(t)
<1> SUFFICES ASSUME Inv, [Next]_vars PROVE \A t \in Slots : Truthful(t) /\ Telling(t)
  OBVIOUS
<1>1. ASSUME TimeNext PROVE UNCHANGED reply
  BY <1>1 DEF TimeNext, ExpireEmail, ExpireId, ExpireToken, slots
<1>2. ASSUME NEW u \in Users, Deactivate(u) PROVE UNCHANGED reply
  BY <1>2 DEF Deactivate, slots
<1>3. ASSUME UNCHANGED vars PROVE UNCHANGED reply
  BY <1>3 DEF vars, slots
<1> QED
  BY <1>1, <1>2, <1>3, ServiceSays, SilentSays DEF Next

\* A 201 is exactly one new account of the email asked for; a 200, 401 or 409
\* leaves the table alone, and no token goes out with a refusal or an error.
THEOREM RepliesAreTruthful == Spec => RepliesTruthful
<1>1. Inv /\ [Next]_vars => [\A s \in Slots : Truthful(s)]_vars
  BY NextSays
<1> QED
  BY <1>1, InvHolds, PTL DEF Spec, RepliesTruthful, Truthful

\* A login that is let in named an account and gave its password, at the time
\* of the answer, through any cached copy; a 409 means that there is an account.
THEOREM RepliesTell == Spec => [][\A s \in Slots : Telling(s)]_vars
<1>1. Inv /\ [Next]_vars => [\A s \in Slots : Telling(s)]_vars
  BY NextSays
<1> QED
  BY <1>1, InvHolds, PTL DEF Spec

-----------------------------------------------------------------------------
\* The service in its environment.

\* The only change the service makes to users.role_id is to add a user, with
\* the default role.
LEMMA ServiceRegisters ==
    ASSUME Inv, ServiceNext
    PROVE  \/ UNCHANGED currentRole
           \/ \E u \in Users : /\ currentRole[u] = {}
                               /\ currentRole' = [currentRole EXCEPT ![u] = {DefaultRole}]
<1> USE DEF Inv
<1>1. ASSUME NEW s \in Slots, ApplyWrites(s), at[s] = "commit", PendingUser(s)
      PROVE  \E u \in Users : /\ currentRole[u] = {}
                              /\ currentRole' = [currentRole EXCEPT ![u] = {DefaultRole}]
  <2>1. ControlAt(s, "commit", loaded[s]) /\ loaded[s] \in Opt(Entity)
    BY <1>1 DEF ControlOK, TypeOK
  <2>2. PICK e \in Entity : /\ e \in loaded[s]
                            /\ currentRole' = [currentRole EXCEPT ![e.id] = {e.role}]
    BY <1>1, <2>1, OptMembers DEF ApplyWrites, ControlAt
  <2>3. e.id \in Users /\ currentRole[e.id] = {} /\ e.role = DefaultRole
    BY <1>1, <2>1, <2>2 DEF ControlAt, PendingUser, Entity, Registered
  <2> QED
    BY <2>2, <2>3
<1>2. ASSUME NEW s \in Slots, ApplyWrites(s), ~PendingUser(s) PROVE UNCHANGED currentRole
  BY <1>2 DEF ApplyWrites
<1>3. ASSUME NEW s \in Slots, Receive(s) \/ DbError(s) PROVE UNCHANGED currentRole
  BY <1>3 DEF Receive, DbError, Reject, users
<1>4. ASSUME NEW s \in Slots, Step(s), ~Commit(s) PROVE UNCHANGED currentRole
  BY <1>4 DEF Step, ExistsByEmail, InsertUser, EmailHit, EmailMiss, SelectByEmail, SetEmail,
              RefreshRejected, Reject, IdHit, IdMiss, SelectById, SetId, users
<1>5. ASSUME Crash PROVE UNCHANGED currentRole
  BY <1>5 DEF Crash, users
<1> QED
  BY <1>1, <1>2, <1>3, <1>4, <1>5 DEF ServiceNext, Fault, Commit, CommitUnacknowledged, Step

\* Every role in a token, in a cached user or in the hands of a login or a
\* refresh is one of H, a set of roles for each user.
RolesWithin(H) ==
    /\ \A t \in tokens : t.role \in H[t.user]
    /\ \A u \in Users : emailCache[u] \cup idCache[u] \subseteq H[u]
    /\ \A s \in Slots : op(s) # "register" => \A e \in loaded[s] : e.role \in H[e.id]

\* The role of a copy is one the column had when it was read.
LEMMA EntryRole ==
    ASSUME NEW role \in [Users -> Opt(Catalog)], NEW off, NEW u \in Users, role[u] # {}
    PROVE  Entry(role, off, u).role \in role[u] /\ Entry(role, off, u).id = u
<1>1. PICK r \in Catalog : role[u] = {r}
  BY OptMembers
<1>2. (CHOOSE x \in Catalog : x \in role[u]) \in role[u]
  BY <1>1
<1> QED
  BY <1>2 DEF Entry

\* A token carries the user and the role of the entity it was issued for.
LEMMA IssueRole ==
    ASSUME NEW s, NEW e
    PROVE  \A t \in Issue(s, e) : t.role = e.role /\ t.user = e.id
  BY DEF Issue

\* What a slot takes from the table or a cache has a role of that user.
LEMMA HandlersPassOn ==
    ASSUME Inv, NEW s \in Slots, Step(s), NEW H, RolesWithin(H),
           \A u \in Users : currentRole[u] \subseteq H[u]
    PROVE  /\ \A t \in tokens' : t.role \in H[t.user]
           /\ \A u \in Users : emailCache'[u] \cup idCache'[u] \subseteq H[u]
           /\ op(s) # "register" => \A e \in loaded'[s] : e.role \in H[e.id]
<1> USE DEF Inv
<1>1. ControlAt(s, at[s], loaded[s]) /\ loaded[s] \in Opt(Entity)
  BY DEF ControlOK, TypeOK
<1>2. /\ \A e \in loaded[s] : op(s) # "register" => e.role \in H[e.id]
      /\ \A u \in Users : emailCache[u] \cup idCache[u] \subseteq H[u]
      /\ \A t \in tokens : t.role \in H[t.user]
  BY DEF RolesWithin
<1>3. loaded \in [Slots -> Opt(Entity)]
  BY DEF TypeOK
<1>4. CASE ExistsByEmail(s) \/ InsertUser(s)
  BY <1>1, <1>2, <1>4
     DEF ExistsByEmail, InsertUser, ControlAt, redis, emailKey, idKey
<1>5. CASE EmailHit(s)
  <2>1. loaded'[s] = {} /\ UNCHANGED <<emailCache, idCache>>
    BY <1>3, <1>5 DEF EmailHit, Finish, redis, emailKey, idKey
  <2>2. \A u \in Users : emailCache[u] # {} =>
          CachedByEmail(u).role \in H[u] /\ CachedByEmail(u).id = u
    BY <1>2, EntryRole DEF TypeOK, CachedByEmail
  <2>3. \A t \in tokens' : t.role \in H[t.user]
    BY <1>2, <1>5, <2>2, IssueRole DEF EmailHit
  <2> QED
    BY <1>2, <2>1, <2>3
<1>6. CASE EmailMiss(s) \/ IdMiss(s) \/ RefreshRejected(s)
  <2>1. loaded'[s] = {} /\ UNCHANGED <<emailCache, idCache, tokens>>
    BY <1>3, <1>6 DEF EmailMiss, IdMiss, RefreshRejected, Reject, Goto, Finish,
                      redis, emailKey, idKey
  <2> QED
    BY <1>2, <2>1
<1>7. CASE SelectByEmail(s) \/ SelectById(s)
  <2>1. UNCHANGED <<emailCache, idCache, tokens>>
    BY <1>7 DEF SelectByEmail, SelectById, redis, emailKey, idKey
  <2>2. \A u \in Registered : Row(u).role \in H[u] /\ Row(u).id = u
    BY EntryRole DEF TypeOK, Row, Registered
  <2>3. loaded'[s] = {} \/ \E u \in Registered : loaded'[s] = {Row(u)}
    BY <1>3, <1>7 DEF SelectByEmail, SelectById, Goto, Finish
  <2> QED
    BY <1>2, <2>1, <2>2, <2>3
<1>8. CASE SetEmail(s) \/ SetId(s)
  <2>1. op(s) # "register" /\ tokens' = tokens
    BY <1>1, <1>8 DEF SetEmail, SetId, ControlAt
  <2>2. loaded'[s] = {} \/ loaded'[s] = loaded[s]
    BY <1>3, <1>8 DEF SetEmail, SetId, Goto, Finish
  <2>3. PICK e \in loaded[s] : /\ emailCache' \in {emailCache, Put(emailCache, e)}
                               /\ idCache' \in {idCache, Put(idCache, e)}
    BY <1>8 DEF SetEmail, SetId, emailKey, idKey
  <2>4. e.role \in H[e.id]
    BY <1>2, <2>1
  <2>5. \A u \in Users : emailCache'[u] \cup idCache'[u] \subseteq H[u]
    BY <1>2, <2>3, <2>4 DEF Put, TypeOK
  <2> QED
    BY <1>2, <2>1, <2>2, <2>5
<1>9. CASE IdHit(s)
  <2>1. loaded'[s] = {} /\ UNCHANGED <<emailCache, idCache>>
    BY <1>3, <1>9 DEF IdHit, Finish, redis, emailKey, idKey
  <2>2. \A u \in Users : idCache[u] # {} =>
          CachedById(u).role \in H[u] /\ CachedById(u).id = u
    BY <1>2, EntryRole DEF TypeOK, CachedById
  <2>3. request[s].token.user \in Users
    BY <1>1, <1>9, RequestFields DEF IdHit, ControlAt, op, TypeOK, Token
  <2>4. \A t \in tokens' : t.role \in H[t.user]
    BY <1>2, <1>9, <2>2, <2>3, IssueRole DEF IdHit
  <2> QED
    BY <1>2, <2>1, <2>4
<1>10. CASE Commit(s)
  <2>1. loaded'[s] = {} /\ UNCHANGED <<emailCache, idCache>>
    BY <1>3, <1>10 DEF Commit, Finish, redis, emailKey, idKey
  <2>2. \A t \in tokens' : t.role \in H[t.user]
    <3>1. ASSUME NEW e \in loaded[s], NEW t \in Issue(s, e) PROVE t.role \in H[t.user]
      BY <1>2, <3>1, IssueNothing, IssueRole
    <3> QED
      BY <1>2, <1>10, <3>1 DEF Commit
  <2> QED
    BY <1>2, <2>1, <2>2
<1> QED
  BY <1>4, <1>5, <1>6, <1>7, <1>8, <1>9, <1>10 DEF Step

\* Roles are only ever passed on: from the table to a handler, from there to a
\* cache and into a token.
LEMMA RolesPassOn ==
    ASSUME Inv, ServiceNext, NEW H, RolesWithin(H),
           \A u \in Users : currentRole[u] \subseteq H[u]
    PROVE  /\ \A t \in tokens' : t.role \in H[t.user]
           /\ \A u \in Users : emailCache'[u] \cup idCache'[u] \subseteq H[u]
           /\ \A s \in Slots : op(s)' # "register" => \A e \in loaded'[s] : e.role \in H[e.id]
<1> USE DEF Inv
<1> DEFINE Kept == /\ \A t \in tokens' : t.role \in H[t.user]
                   /\ \A u \in Users : emailCache'[u] \cup idCache'[u] \subseteq H[u]
                   /\ \A s \in Slots : op(s)' # "register" => \A e \in loaded'[s] : e.role \in H[e.id]
<1>1. /\ \A s \in Slots : op(s) # "register" => \A e \in loaded[s] : e.role \in H[e.id]
      /\ \A u \in Users : emailCache[u] \cup idCache[u] \subseteq H[u]
      /\ \A t \in tokens : t.role \in H[t.user]
  BY DEF RolesWithin
<1>2. ASSUME NEW s \in Slots, Receive(s) PROVE Kept
  <2>1. loaded[s] = {} /\ loaded' = loaded /\ UNCHANGED <<tokens, emailCache, idCache>>
    BY <1>2 DEF Receive, ControlOK, ControlAt, redis, emailKey, idKey
  <2>2. \A t \in Slots \ {s} : op(t)' = op(t)
    BY <1>2 DEF Receive, TypeOK, op
  <2> QED
    BY <1>1, <2>1, <2>2
<1>3. ASSUME NEW s \in Slots, Step(s) PROVE Kept
  <2>1. \A t \in Slots : op(t)' = op(t)
    BY <1>3 DEF Step, ExistsByEmail, InsertUser, EmailHit, EmailMiss, SelectByEmail, SetEmail,
                RefreshRejected, Reject, IdHit, IdMiss, SelectById, SetId, Commit, Goto, Finish, op
  <2>2. \A t \in Slots \ {s} : loaded'[t] = loaded[t]
    BY <1>3 DEF Step, ExistsByEmail, InsertUser, EmailHit, EmailMiss, SelectByEmail, SetEmail,
                RefreshRejected, Reject, IdHit, IdMiss, SelectById, SetId, Commit, Goto, Finish,
                TypeOK
  <2> QED
    BY <1>1, <1>3, <2>1, <2>2, HandlersPassOn
<1>4. ASSUME NEW s \in Slots, Fault(s) PROVE Kept
  <2>1. UNCHANGED <<tokens, emailCache, idCache, request>>
    BY <1>4 DEF Fault, CommitUnacknowledged, DbError, Reject, Finish, redis, emailKey, idKey
  <2>2. \A t \in Slots : loaded'[t] \subseteq loaded[t]
    BY <1>4 DEF Fault, CommitUnacknowledged, DbError, Reject, Finish, TypeOK
  <2> QED
    BY <1>1, <2>1, <2>2 DEF op
<1>5. ASSUME Crash PROVE Kept
  BY <1>1, <1>5 DEF Crash, redis, emailKey, idKey, op
<1> QED
  BY <1>2, <1>3, <1>4, <1>5 DEF ServiceNext

-----------------------------------------------------------------------------
\* What a request does to its slot and to the table, and what a refusal means.

\* A slot at work has not answered.
Unanswered == \A s \in Slots : at[s] # "idle" => reply[s] = 0

\* A copy has an inactive user only if the user is inactive: nobody is
\* activated again.
OffOK ==
    /\ emailOff \cup idOff \subseteq inactive
    /\ \A s \in Slots : \A e \in loaded[s] : e.active \/ e.id \in inactive

\* One slot moves: on, without an answer, or to its end, with one.
LEMMA SlotMoves ==
    ASSUME Inv, NEW s \in Slots, Step(s) \/ Fault(s)
    PROVE  /\ at[s] # "idle" /\ request' = request /\ inactive' = inactive
           /\ \A t \in Slots \ {s} : at'[t] = at[t] /\ loaded'[t] = loaded[t] /\ reply'[t] = reply[t]
           /\ \/ at'[s] # "idle" /\ reply'[s] = reply[s]
              \/ at'[s] = "idle" /\ loaded'[s] = {} /\ reply'[s] \in Status \ {0}
<1> USE DEF Inv
<1> DEFINE Ends == \E code \in {200, 201, 401, 409, 500} : Finish(s, code)
           Goes == \E next \in At \ {"idle"} : \E l : Goto(s, next, l)
<1>1. /\ at[s] # "idle" /\ inactive' = inactive
  BY DEF Step, Fault, ExistsByEmail, InsertUser, EmailHit, EmailMiss, SelectByEmail, SetEmail,
         RefreshRejected, Reject, IdHit, IdMiss, SelectById, SetId, Commit, CommitUnacknowledged,
         DbError, ApplyWrites, users, DbSteps
<1>2. {"insert", "commit", "select_email", "set_email", "select_id", "set_id"} \subseteq At \ {"idle"}
  BY DEF At, DbSteps
<1>3. ASSUME ExistsByEmail(s) \/ InsertUser(s) PROVE Ends \/ Goes
  <2>1. Finish(s, 409) \/ Finish(s, 500) \/ (\E l : Goto(s, "insert", l) \/ Goto(s, "commit", l))
    BY <1>3 DEF ExistsByEmail, InsertUser
  <2> QED
    BY <1>2, <2>1
<1>4. ASSUME EmailHit(s) \/ EmailMiss(s) \/ SelectByEmail(s) \/ SetEmail(s) PROVE Ends \/ Goes
  <2>1. Finish(s, 200) \/ Finish(s, 401)
          \/ \E l : Goto(s, "select_email", l) \/ Goto(s, "set_email", l) \/ Goto(s, "commit", l)
    BY <1>4 DEF EmailHit, EmailMiss, SelectByEmail, SetEmail
  <2> QED
    BY <1>2, <2>1
<1>5. ASSUME RefreshRejected(s) \/ IdHit(s) \/ IdMiss(s) \/ SelectById(s) \/ SetId(s)
      PROVE  Ends \/ Goes
  <2>1. Finish(s, 200) \/ Finish(s, 401)
          \/ \E l : Goto(s, "select_id", l) \/ Goto(s, "set_id", l) \/ Goto(s, "commit", l)
    BY <1>5 DEF RefreshRejected, Reject, IdHit, IdMiss, SelectById, SetId
  <2> QED
    BY <1>2, <2>1
<1>6. ASSUME Commit(s) \/ Fault(s) PROVE Ends \/ Goes
  <2>1. op(s) \in {"register", "login", "refresh"}
    BY RequestFields DEF op, TypeOK
  <2>2. SuccessCode[op(s)] \in {200, 201}
    BY <2>1 DEF SuccessCode
  <2>3. Finish(s, SuccessCode[op(s)]) \/ Finish(s, 500)
    BY <1>6 DEF Commit, Fault, CommitUnacknowledged, DbError, Reject
  <2> QED
    BY <2>2, <2>3
<1>7. Ends \/ Goes
  BY <1>3, <1>4, <1>5, <1>6 DEF Step
<1>8. CASE Ends
  <2>1. {200, 201, 401, 409, 500} \subseteq Status \ {0}
    BY DEF Status
  <2> QED
    BY <1>1, <1>8, <2>1 DEF Finish, TypeOK
<1>9. CASE Goes
  BY <1>1, <1>9 DEF Goto, TypeOK
<1> QED
  BY <1>7, <1>8, <1>9

\* Receiving a request takes the last answer back.
LEMMA ServiceUnanswered == ASSUME Inv, Unanswered, ServiceNext PROVE Unanswered'
<1>1. ASSUME NEW s \in Slots, Receive(s) PROVE Unanswered'
  BY <1>1 DEF Receive, Unanswered, Inv, TypeOK
<1>2. ASSUME NEW s \in Slots, Step(s) \/ Fault(s) PROVE Unanswered'
  BY <1>2, SlotMoves DEF Unanswered
<1>3. ASSUME Crash PROVE Unanswered'
  BY <1>3 DEF Crash, Unanswered
<1> QED
  BY <1>1, <1>2, <1>3 DEF ServiceNext

\* An account is made by the COMMIT of its registration, which is answered 201,
\* or 500 if the acknowledgement is lost, and changes nothing else in the table.
LEMMA SlotMakes ==
    ASSUME Inv, NEW s \in Slots, Step(s) \/ Fault(s)
    PROVE  \/ UNCHANGED <<currentRole, hash>>
           \/ /\ op(s) = "register" /\ at'[s] = "idle" /\ reply'[s] \in {201, 500}
              /\ \E u \in Users \ Registered :
                    /\ EmailOf[u] = email(s)
                    /\ currentRole' = [currentRole EXCEPT ![u] = {DefaultRole}]
                    /\ hash' = [hash EXCEPT ![u] = {password(s)}]
<1> USE DEF Inv
<1>1. CASE ~Commit(s) /\ ~CommitUnacknowledged(s)
  BY <1>1 DEF Step, Fault, ExistsByEmail, InsertUser, EmailHit, EmailMiss, SelectByEmail, SetEmail,
              RefreshRejected, Reject, IdHit, IdMiss, SelectById, SetId, DbError, users
<1>2. CASE Commit(s) \/ CommitUnacknowledged(s)
  <2>1. at[s] = "commit" /\ ApplyWrites(s)
    BY <1>2 DEF Commit, CommitUnacknowledged
  <2>2. CASE ~PendingUser(s)
    BY <2>1, <2>2 DEF ApplyWrites
  <2>3. CASE PendingUser(s)
    <3>1. op(s) = "register" /\ ControlAt(s, "commit", loaded[s]) /\ loaded[s] \in Opt(Entity)
      BY <2>1, <2>3 DEF PendingUser, ControlOK, TypeOK
    <3>2. PICK e \in Entity : /\ e \in loaded[s]
                              /\ currentRole' = [currentRole EXCEPT ![e.id] = {e.role}]
                              /\ hash' = [hash EXCEPT ![e.id] = {password(s)}]
      BY <2>1, <2>3, <3>1, OptMembers DEF ApplyWrites, ControlAt
    <3>3. /\ e.id \in Users \ Registered /\ EmailOf[e.id] = email(s) /\ e.role = DefaultRole
      BY <3>1, <3>2 DEF ControlAt, Entity
    <3>4. at'[s] = "idle" /\ reply'[s] \in {201, 500}
      BY <1>2, <3>1 DEF Commit, CommitUnacknowledged, Finish, SuccessCode, TypeOK
    <3> QED
      BY <3>1, <3>2, <3>3, <3>4
  <2> QED
    BY <2>2, <2>3
<1> QED
  BY <1>1, <1>2

\* What a handler takes from the table or a copy is as inactive as its user.
LEMMA EntryOff ==
    ASSUME NEW role, NEW off, off \subseteq inactive, NEW u
    PROVE  Entry(role, off, u).active \/ Entry(role, off, u).id \in inactive
  BY DEF Entry

\* Copies are read from rows, or from copies, of the same user.
LEMMA ServiceOff == ASSUME Inv, OffOK, ServiceNext PROVE OffOK'
<1> USE DEF Inv
<1>1. ASSUME NEW s \in Slots, Receive(s) PROVE OffOK'
  BY <1>1 DEF Receive, OffOK, users, redis, emailKey, idKey
<1>2. ASSUME Crash PROVE OffOK'
  BY <1>2 DEF Crash, OffOK, users, redis, emailKey, idKey
<1>3. ASSUME NEW s \in Slots, Step(s) \/ Fault(s) PROVE OffOK'
  <2> DEFINE Kept == emailOff' \cup idOff' \subseteq inactive
                     /\ \A e \in loaded'[s] : e.active \/ e.id \in inactive
  <2>1. inactive' = inactive /\ \A t \in Slots \ {s} : loaded'[t] = loaded[t]
    BY <1>3, SlotMoves
  <2>2. CASE at'[s] = "idle" /\ UNCHANGED redis
    <3>1. loaded'[s] = {}
      BY <1>3, <2>2, SlotMoves
    <3> QED
      BY <2>1, <2>2, <3>1 DEF OffOK, redis, emailKey, idKey
  <2>3. CASE ExistsByEmail(s) \/ InsertUser(s) \/ EmailMiss(s) \/ IdMiss(s)
    <3>1. Kept
      BY <2>3 DEF ExistsByEmail, InsertUser, EmailMiss, IdMiss, Finish, Goto, OffOK, TypeOK,
                  redis, emailKey, idKey
    <3> QED
      BY <2>1, <3>1 DEF OffOK
  <2>4. CASE SelectByEmail(s) \/ SelectById(s)
    <3>1. \A u : Row(u).active \/ Row(u).id \in inactive
      BY EntryOff DEF Row
    <3>2. UNCHANGED redis /\ (loaded'[s] = {} \/ \E u \in Registered : loaded'[s] = {Row(u)})
      BY <2>4 DEF SelectByEmail, SelectById, Finish, Goto, TypeOK
    <3>3. Kept
      BY <3>1, <3>2 DEF OffOK, redis, emailKey, idKey
    <3> QED
      BY <2>1, <3>3 DEF OffOK
  <2>5. CASE SetEmail(s) \/ SetId(s)
    <3>1. PICK e \in loaded[s] : /\ emailOff' \in {emailOff, PutOff(emailOff, e)}
                                 /\ idOff' \in {idOff, PutOff(idOff, e)}
                                 /\ loaded'[s] \in {{}, loaded[s]}
      BY <2>5 DEF SetEmail, SetId, emailKey, idKey, Finish, Goto, TypeOK
    <3>2. Kept
      BY <3>1 DEF OffOK, PutOff
    <3> QED
      BY <2>1, <3>2 DEF OffOK
  <2>6. CASE EmailHit(s) \/ RefreshRejected(s) \/ IdHit(s) \/ Commit(s) \/ Fault(s)
    BY <2>2, <2>6 DEF EmailHit, RefreshRejected, Reject, IdHit, Commit, Fault, CommitUnacknowledged,
                      DbError, Finish, TypeOK
  <2> QED
    BY <1>3, <2>3, <2>4, <2>5, <2>6 DEF Step
<1> QED
  BY <1>1, <1>2, <1>3 DEF ServiceNext

\* A copy that expires makes nobody inactive.
LEMMA TimeOff == ASSUME OffOK, TimeNext PROVE OffOK'
  BY DEF TimeNext, ExpireEmail, ExpireId, ExpireToken, OffOK, users, redis, emailKey, idKey, slots

\* A login refused with a 401 named no account, or one that is inactive, or
\* gave another password than the account's.
Refusing(s) ==
    op(s) = "login" /\ reply'[s] = 401 /\ reply'[s] # reply[s] =>
        \A u \in Registered : EmailOf[u] = email(s) => u \in inactive \/ password(s) \notin hash[u]

\* Each way login comes to a 401: an inactive copy, a wrong password, nobody found.
LEMMA SlotRefuses ==
    ASSUME Inv, OffOK, NEW s \in Slots, Step(s) \/ Fault(s)
    PROVE  Refusing(s)
<1> SUFFICES ASSUME op(s) = "login", reply'[s] = 401, reply'[s] # reply[s],
                    NEW v \in Registered, EmailOf[v] = email(s), v \notin inactive
             PROVE  password(s) \notin hash[v]
  BY DEF Refusing
<1> USE DEF Inv
<1>1. ControlAt(s, at[s], loaded[s])
  BY DEF ControlOK
<1>2. \A u \in Registered : EmailOf[u] = email(s) => u = v
  BY DEF OneAccountPerEmail
<1>3. reply \in [Slots -> Status]
  BY DEF TypeOK
<1>4. CASE EmailHit(s)
  <2>1. PICK u \in Users : /\ EmailOf[u] = email(s) /\ emailCache[u] # {}
                           /\ ~Accepts(s, CachedByEmail(u))
    BY <1>3, <1>4 DEF EmailHit, Finish
  <2>2. u \in Registered
    BY <2>1 DEF CachedUsersExist
  <2>3. u = v
    BY <1>2, <2>1, <2>2
  <2>4. CachedByEmail(u).id = u /\ (CachedByEmail(u).active \/ u \in inactive)
    BY <2>1, EntryTyped, EntryOff DEF CachedByEmail, OffOK, TypeOK
  <2> QED
    BY <2>1, <2>3, <2>4 DEF Accepts
<1>5. CASE SelectByEmail(s)
  BY <1>3, <1>5 DEF SelectByEmail, Finish, Goto
<1>6. CASE SetEmail(s)
  <2>1. PICK e \in loaded[s] : ~Accepts(s, e)
    BY <1>3, <1>6 DEF SetEmail, Finish, Goto
  <2>2. e.id = v
    BY <1>1, <1>2, <2>1 DEF ControlAt
  <2>3. e.active
    BY <2>1, <2>2 DEF OffOK
  <2> QED
    BY <2>1, <2>2, <2>3 DEF Accepts
<1>7. CASE ExistsByEmail(s) \/ InsertUser(s) \/ RefreshRejected(s) \/ IdHit(s) \/ IdMiss(s)
             \/ SelectById(s) \/ SetId(s)
  BY <1>1, <1>7 DEF ExistsByEmail, InsertUser, RefreshRejected, IdHit, IdMiss, SelectById, SetId,
                    ControlAt
<1>8. CASE EmailMiss(s)
  BY <1>8 DEF EmailMiss, Goto
<1>9. CASE Commit(s) \/ Fault(s)
  BY <1>3, <1>9 DEF Commit, Fault, CommitUnacknowledged, DbError, Reject, Finish, SuccessCode
<1> QED
  BY <1>4, <1>5, <1>6, <1>7, <1>8, <1>9 DEF Step

\* The same of every step of the service.
LEMMA NextRefuses ==
    Inv /\ OffOK /\ [Next]_vars => OffOK' /\ \A s \in Slots : Refusing(s)
<1> SUFFICES ASSUME Inv, OffOK, [Next]_vars
             PROVE  OffOK' /\ \A s \in Slots : Refusing(s)
  OBVIOUS
<1>1. (\A s \in Slots : reply'[s] \in {reply[s], 0}) => \A s \in Slots : Refusing(s)
  BY DEF Refusing
<1>2. CASE ServiceNext
  <2>1. ASSUME NEW s \in Slots, Step(s) \/ Fault(s) PROVE \A t \in Slots : Refusing(t)
    <3>1. \A t \in Slots \ {s} : reply'[t] = reply[t]
      BY <2>1, SlotMoves
    <3>2. Refusing(s)
      BY <2>1, SlotRefuses
    <3> QED
      BY <3>1, <3>2 DEF Refusing
  <2>2. ASSUME NEW s \in Slots, Receive(s) PROVE \A t \in Slots : reply'[t] \in {reply[t], 0}
    BY <2>2 DEF Receive, Inv, TypeOK
  <2>3. ASSUME Crash PROVE \A t \in Slots : reply'[t] \in {reply[t], 0}
    BY <2>3 DEF Crash
  <2> QED
    BY <1>1, <1>2, <2>1, <2>2, <2>3, ServiceOff DEF ServiceNext
<1>3. CASE TimeNext
  BY <1>1, <1>3, TimeOff DEF TimeNext, ExpireEmail, ExpireId, ExpireToken, slots
<1>4. CASE \E u \in Users : Deactivate(u)
  BY <1>1, <1>4 DEF Deactivate, OffOK, redis, emailKey, idKey, slots
<1>5. CASE UNCHANGED vars
  BY <1>1, <1>5 DEF vars, users, redis, emailKey, idKey, slots, OffOK
<1> QED
  BY <1>2, <1>3, <1>4, <1>5 DEF Next

\* In every behaviour, with every cached copy there may be.
THEOREM RefusalsTell == Spec => [][\A s \in Slots : Refusing(s)]_vars
<1>1. Init => OffOK
  BY DEF Init, LocalInit, OffOK
<1>2. Inv /\ OffOK /\ [Next]_vars => OffOK'
  BY NextRefuses
<1>3. Inv /\ OffOK /\ [Next]_vars => [\A s \in Slots : Refusing(s)]_vars
  BY NextRefuses
<1> QED
  BY <1>1, <1>2, <1>3, InvHolds, PTL DEF Spec
=============================================================================
