---------------------------- MODULE RoleService ----------------------------
(***************************************************************************)
(* The role service: RBAC administration over PostgreSQL with a            *)
(* cache-aside copy in Redis.  A request occupies a slot; between two      *)
(* awaits (a statement, a Redis command, the commit) any other slot runs.  *)
(* PostgreSQL runs at READ COMMITTED: a transaction's writes are visible   *)
(* only when it commits, so a pending write is not a variable but a        *)
(* function of where the transaction stands, and the row locks it holds    *)
(* make conflicting statements wait.  Redis has no transactions: a DEL or  *)
(* SETEX is visible at once, before the commit, and survives a rollback.   *)
(***************************************************************************)
EXTENDS Naturals, FiniteSets

CONSTANTS
    Users,          \* user ids a request may name, registered or not
    RoleNames,      \* role names a request may name
    Catalog,        \* the names in the roles table
    Active,         \* the catalog rows with is_active = true
    DefaultRole,    \* EMPLEADO
    Slots,          \* requests in flight at once (a bound)
    PoolSize,       \* connections of the SQLAlchemy pool: pool_size + max_overflow
    RedisMayFail,   \* Redis commands may fail; the code logs and goes on
    DbMayFail,      \* statements and COMMIT may fail
    MayCrash        \* the process may be killed and restarted

ASSUME CatalogAssumption ==
    Active \subseteq Catalog /\ Catalog \subseteq RoleNames /\ DefaultRole \in Catalog
ASSUME UsersAssumption == Users # {}
ASSUME PoolAssumption == PoolSize \in Nat \ {0}
ASSUME FaultAssumption == {RedisMayFail, DbMayFail, MayCrash} \subseteq BOOLEAN

VARIABLES
    currentRole,    \* users.role_id, committed: {} for no row, or {r}
    userRoles,      \* user_roles, committed: the roles granted to each user
    roleCache,      \* Redis role:user:<id>: {} for no key, or {set of roles}
    emailCache,     \* the role in Redis auth:user:email:<email>: {} or {r}
    task,           \* what each slot was asked, or was last asked
    pc,             \* the await each slot is at
    found,          \* assign: the SELECT returned an email; remove: rowcount > 0
    rows,           \* read: what the SELECT on user_roles returned
    answer          \* status code of the last answer, 0 while there is none

db == <<currentRole, userRoles>>
redis == <<roleCache, emailCache>>
slots == <<task, pc, found, rows, answer>>
vars == <<db, redis, slots>>

\* The set of values a nullable holds: none or one.
Opt(S) == {{}} \cup {{x} : x \in S}

Task == [op : {"assign", "remove"}, user : Users, role : RoleNames]
          \cup [op : {"read"}, user : Users, role : {DefaultRole}]

DbSteps == {"find_role", "select_email", "update", "insert", "delete", "select", "commit"}
PC == DbSteps \cup {"idle", "cache_get", "cache_set", "del_update", "del_email",
                    "del_insert", "del_remove"}
Status == {0, 200, 201, 204, 404, 409, 500}

TypeOK ==
    /\ currentRole \in [Users -> Opt(Catalog)]
    /\ userRoles \in [Users -> SUBSET Catalog]
    /\ roleCache \in [Users -> Opt(SUBSET Catalog)]
    /\ emailCache \in [Users -> Opt(Catalog)]
    /\ task \in [Slots -> Task]
    /\ pc \in [Slots -> PC]
    /\ found \in [Slots -> BOOLEAN]
    /\ rows \in [Slots -> SUBSET Catalog]
    /\ answer \in [Slots -> Status]

Init ==
    /\ currentRole = [u \in Users |-> {}]
    /\ userRoles = [u \in Users |-> {}]
    /\ roleCache = [u \in Users |-> {}]
    /\ emailCache = [u \in Users |-> {}]
    /\ task \in [Slots -> {[op |-> "read", user |-> CHOOSE u \in Users : TRUE,
                            role |-> DefaultRole]}]
    /\ pc = [s \in Slots |-> "idle"]
    /\ found = [s \in Slots |-> FALSE]
    /\ rows = [s \in Slots |-> {}]
    /\ answer = [s \in Slots |-> 0]

-----------------------------------------------------------------------------
\* Where a transaction stands: its pending writes, its locks, its connection.

op(s) == task[s].op
user(s) == task[s].user
role(s) == task[s].role

\* Mutant: no rollback after the IntegrityError, so the lock stays.
PendingRoleKept(s) ==
    /\ op(s) = "assign"
    /\ \/ pc[s] \in {"del_update", "del_email", "insert", "del_insert", "commit"}
       \/ pc[s] = "idle" /\ answer[s] = 500

PendingRole(s) ==       \* users.role_id = role(s) written, not committed
    /\ op(s) = "assign"
    /\ pc[s] \in {"del_update", "del_email", "insert", "del_insert", "commit"}
PendingInsert(s) ==     \* row of user_roles inserted, not committed
    op(s) = "assign" /\ pc[s] \in {"del_insert", "commit"}
PendingDelete(s) ==     \* row of user_roles deleted, not committed
    op(s) = "remove" /\ found[s] /\ pc[s] \in {"del_remove", "commit"}

UserRowLocked(u) == \E s \in Slots : PendingRole(s) /\ user(s) = u
GrantRowLocked(u, r) == \E s \in Slots : PendingDelete(s) /\ user(s) = u /\ role(s) = r

\* A session takes its connection at its first statement and gives it back
\* when the transaction ends.
Connected(s) ==
    pc[s] \notin {"idle", "cache_get", "find_role", "select"}
PoolFree == Cardinality({s \in Slots : Connected(s)}) < PoolSize

-----------------------------------------------------------------------------
\* The two ways a step of slot s ends.

Goto(s, next) ==
    /\ pc' = [pc EXCEPT ![s] = next]
    /\ UNCHANGED <<task, answer>>

\* The session is committed or rolled back and closed, then the answer is sent.
Finish(s, code) ==
    /\ pc' = [pc EXCEPT ![s] = "idle"]
    /\ found' = [found EXCEPT ![s] = FALSE]
    /\ rows' = [rows EXCEPT ![s] = {}]
    /\ answer' = [answer EXCEPT ![s] = code]
    /\ UNCHANGED task

Del(u) ==
    /\ \/ roleCache' = [roleCache EXCEPT ![u] = {}]
       \/ RedisMayFail /\ UNCHANGED roleCache
    /\ UNCHANGED emailCache

Receive(s) ==
    /\ pc[s] = "idle"
    /\ \E t \in Task :
        /\ task' = [task EXCEPT ![s] = t]
        /\ pc' = [pc EXCEPT ![s] = IF t.op = "read" THEN "cache_get" ELSE "find_role"]
    /\ answer' = [answer EXCEPT ![s] = 0]
    /\ UNCHANGED <<db, redis, found, rows>>

-----------------------------------------------------------------------------
\* POST /roles/validate and GET /roles/user/{id}: find_roles_by_user_id.

CacheHit(s) ==
    /\ pc[s] = "cache_get"
    /\ roleCache[user(s)] # {}
    /\ Finish(s, 200)
    /\ UNCHANGED <<db, redis>>

CacheMiss(s) ==
    /\ pc[s] = "cache_get"
    /\ roleCache[user(s)] = {} \/ RedisMayFail
    /\ Goto(s, "select")
    /\ UNCHANGED <<db, redis, found, rows>>

SelectRoles(s) ==
    /\ pc[s] = "select"
    /\ PoolFree
    /\ rows' = [rows EXCEPT ![s] = userRoles[user(s)]]
    /\ Goto(s, "cache_set")
    /\ UNCHANGED <<db, redis, found>>

CacheSet(s) ==
    /\ pc[s] = "cache_set"
    /\ \/ roleCache' = [roleCache EXCEPT ![user(s)] = {rows[s]}]
       \/ RedisMayFail /\ UNCHANGED roleCache
    /\ Goto(s, "commit")
    /\ UNCHANGED <<db, emailCache, found, rows>>

\* Mutant: the entry is written with SET, without a TTL.
ExpireNever(u) == FALSE /\ UNCHANGED vars

\* The entry's TTL runs out, REDIS_ROLE_CACHE_TTL seconds after its SETEX.
Expire(u) ==
    /\ roleCache[u] # {}
    /\ roleCache' = [roleCache EXCEPT ![u] = {}]
    /\ UNCHANGED <<db, emailCache, slots>>

-----------------------------------------------------------------------------
\* POST /roles/assign and DELETE /roles/remove: the lookup both begin with.

\* Mutant: "role is None" is not checked.
FindRoleUnchecked(s) ==
    /\ pc[s] = "find_role"
    /\ PoolFree
    /\ UNCHANGED <<db, redis, found, rows>>
    /\ Goto(s, IF op(s) = "assign" THEN "select_email" ELSE "delete")

FindRole(s) ==
    /\ pc[s] = "find_role"
    /\ PoolFree
    /\ UNCHANGED <<db, redis>>
    /\ \/ /\ role(s) \notin Catalog
          /\ Finish(s, 404)
       \/ /\ op(s) = "assign" /\ role(s) \in Catalog \ Active
          /\ Finish(s, 409)
       \/ /\ op(s) = "assign" /\ role(s) \in Active
          /\ Goto(s, "select_email") /\ UNCHANGED <<found, rows>>
       \/ /\ op(s) = "remove" /\ role(s) \in Catalog
          /\ Goto(s, "delete") /\ UNCHANGED <<found, rows>>

\* update_user_current_role, one step per await.
SelectEmail(s) ==
    /\ pc[s] = "select_email"
    /\ found' = [found EXCEPT ![s] = currentRole[user(s)] # {}]
    /\ Goto(s, "update")
    /\ UNCHANGED <<db, redis, rows>>

\* Mutant: a session in autocommit, the UPDATE is visible at once.
UpdateUserAutocommit(s) ==
    /\ pc[s] = "update"
    /\ ~UserRowLocked(user(s))
    /\ UNCHANGED <<userRoles, redis>>
    /\ \/ currentRole[user(s)] = {} /\ Finish(s, 409) /\ UNCHANGED currentRole
       \/ /\ currentRole[user(s)] # {}
          /\ currentRole' = [currentRole EXCEPT ![user(s)] = {role(s)}]
          /\ Goto(s, "del_update") /\ UNCHANGED <<found, rows>>

\* UPDATE users waits for the row lock; no row means "user could not be found".
UpdateUser(s) ==
    /\ pc[s] = "update"
    /\ ~UserRowLocked(user(s))
    /\ UNCHANGED <<db, redis>>
    /\ \/ currentRole[user(s)] = {} /\ Finish(s, 409)
       \/ currentRole[user(s)] # {} /\ Goto(s, "del_update") /\ UNCHANGED <<found, rows>>

DelAfterUpdate(s) ==
    /\ pc[s] = "del_update"
    /\ Del(user(s))
    /\ Goto(s, IF found[s] THEN "del_email" ELSE "insert")
    /\ UNCHANGED <<db, found, rows>>

\* Mutant: the cached user is updated in place instead of deleted.
DelEmailWriteThrough(s) ==
    /\ pc[s] = "del_email"
    /\ emailCache' = [emailCache EXCEPT ![user(s)] = IF @ = {} THEN {} ELSE {role(s)}]
    /\ Goto(s, "insert")
    /\ UNCHANGED <<db, roleCache, found, rows>>

DelEmail(s) ==
    /\ pc[s] = "del_email"
    /\ \/ emailCache' = [emailCache EXCEPT ![user(s)] = {}]
       \/ RedisMayFail /\ UNCHANGED emailCache
    /\ Goto(s, "insert")
    /\ UNCHANGED <<db, roleCache, found, rows>>

\* Mutant: user_roles without uq_user_role.
InsertGrantUnconstrained(s) ==
    /\ pc[s] = "insert"
    /\ Goto(s, "del_insert")
    /\ UNCHANGED <<db, redis, found, rows>>

\* assign_role_to_user.  The INSERT waits for an uncommitted DELETE of the row;
\* a row that is there violates uq_user_role, and nothing catches the
\* IntegrityError: the session rolls back and the answer is 500.
InsertGrant(s) ==
    /\ pc[s] = "insert"
    /\ ~GrantRowLocked(user(s), role(s))
    /\ UNCHANGED <<db, redis>>
    /\ \/ role(s) \in userRoles[user(s)] /\ Finish(s, 500)
       \/ role(s) \notin userRoles[user(s)] /\ Goto(s, "del_insert") /\ UNCHANGED <<found, rows>>

DelAfterInsert(s) ==
    /\ pc[s] = "del_insert"
    /\ Del(user(s))
    /\ Goto(s, "commit")
    /\ UNCHANGED <<db, found, rows>>

\* remove_role_from_user.  A pending INSERT of the row is invisible to it.
DeleteGrant(s) ==
    /\ pc[s] = "delete"
    /\ ~GrantRowLocked(user(s), role(s))
    /\ found' = [found EXCEPT ![s] = role(s) \in userRoles[user(s)]]
    /\ Goto(s, "del_remove")
    /\ UNCHANGED <<db, redis, rows>>

\* Mutant: the rowcount is ignored.
DelAfterDeleteUncounted(s) ==
    /\ pc[s] = "del_remove"
    /\ Del(user(s))
    /\ Goto(s, "commit")
    /\ UNCHANGED <<db, found, rows>>

\* The key is deleted whatever the rowcount; then no row means 404.
DelAfterDelete(s) ==
    /\ pc[s] = "del_remove"
    /\ Del(user(s))
    /\ UNCHANGED db
    /\ \/ found[s] /\ Goto(s, "commit") /\ UNCHANGED <<found, rows>>
       \/ ~found[s] /\ Finish(s, 404)

-----------------------------------------------------------------------------
\* get_db_session: commit after the handler, before the answer is sent.

ApplyWrites(s) ==
    /\ currentRole' = IF PendingRole(s)
                      THEN [currentRole EXCEPT ![user(s)] = {role(s)}] ELSE currentRole
    /\ userRoles' = IF PendingInsert(s)
                    THEN [userRoles EXCEPT ![user(s)] = @ \cup {role(s)}]
                    ELSE IF PendingDelete(s)
                    THEN [userRoles EXCEPT ![user(s)] = @ \ {role(s)}] ELSE userRoles

SuccessCode == [assign |-> 201, remove |-> 204, read |-> 200]

Commit(s) ==
    /\ pc[s] = "commit"
    /\ ApplyWrites(s)
    /\ Finish(s, SuccessCode[op(s)])
    /\ UNCHANGED redis

\* COMMIT was executed but its acknowledgement was lost.
CommitUnacknowledged(s) ==
    /\ DbMayFail
    /\ pc[s] = "commit"
    /\ ApplyWrites(s)
    /\ Finish(s, 500)
    /\ UNCHANGED redis

\* A statement or the COMMIT fails: rollback, 500.
DbError(s) ==
    /\ DbMayFail
    /\ pc[s] \in DbSteps
    /\ Finish(s, 500)
    /\ UNCHANGED <<db, redis>>

\* No connection came free within the pool's timeout.
PoolTimeout(s) ==
    /\ pc[s] \in {"find_role", "select"}
    /\ ~PoolFree
    /\ Finish(s, 500)
    /\ UNCHANGED <<db, redis>>

\* The container dies and is restarted: PostgreSQL rolls every open
\* transaction back, Redis keeps what was written to it.
Crash ==
    /\ MayCrash
    /\ pc' = [s \in Slots |-> "idle"]
    /\ found' = [s \in Slots |-> FALSE]
    /\ rows' = [s \in Slots |-> {}]
    /\ answer' = [s \in Slots |-> IF pc[s] = "idle" THEN answer[s] ELSE 0]
    /\ UNCHANGED <<db, redis, task>>

\* The auth service commits a new user (its own handler is in AuthService).
Register(u) ==
    /\ currentRole[u] = {}
    /\ currentRole' = [currentRole EXCEPT ![u] = {DefaultRole}]
    /\ UNCHANGED <<userRoles, redis, slots>>

Step(s) ==
    \/ CacheHit(s) \/ CacheMiss(s) \/ SelectRoles(s) \/ CacheSet(s)
    \/ FindRole(s) \/ SelectEmail(s) \/ UpdateUser(s) \/ DelAfterUpdate(s)
    \/ DelEmail(s) \/ InsertGrant(s) \/ DelAfterInsert(s)
    \/ DeleteGrant(s) \/ DelAfterDelete(s) \/ Commit(s)

Fault(s) == CommitUnacknowledged(s) \/ DbError(s) \/ PoolTimeout(s)

ServiceNext ==
    \/ \E s \in Slots : Receive(s) \/ Step(s) \/ Fault(s)
    \/ Crash

Next ==
    \/ ServiceNext
    \/ \E u \in Users : Expire(u) \/ Register(u)

\* PostgreSQL's lock queues and the connection pool's queue are FIFO, so a
\* waiting slot that is enabled again and again is served (strong fairness);
\* a key set with SETEX expires.
Fairness ==
    /\ \A s \in Slots : SF_vars(Step(s))
    /\ \A u \in Users : WF_vars(Expire(u))

Spec == Init /\ [][Next]_vars
FairSpec == Spec /\ Fairness

-----------------------------------------------------------------------------
\* Properties.

\* A write that is pending is still the write the statement decided on: the
\* row locks keep anybody else from granting the role a pending INSERT grants,
\* from removing the row a pending DELETE removes, and from writing the same
\* users row (assign_role and remove_role of role_service.py, run concurrently
\* on one user).
PendingWritesApplicable ==
    \A s \in Slots :
        /\ PendingRole(s) => /\ currentRole[user(s)] # {}
                             /\ role(s) \in Active
        /\ PendingInsert(s) => role(s) \notin userRoles[user(s)]
        /\ PendingDelete(s) => role(s) \in userRoles[user(s)]
        /\ \A t \in Slots \ {s} :
            user(s) = user(t) =>
                /\ ~(PendingRole(s) /\ PendingRole(t))
                /\ ~(PendingDelete(s) /\ PendingDelete(t) /\ role(s) = role(t))

\* The two tables change in the atomic steps of RoleAssignments and no others,
\* across concurrent requests, failed statements, lost acknowledgements and
\* restarts (one session and one commit per request, get_db_session).
RA == INSTANCE RoleAssignments
RefinesAssignments == RA!Spec

\* A status code tells what happened: each 201 is one grant that was not there
\* before and became the current role, each 204 is one row that was there and
\* is gone (never the same row for two removals), and a 404 or 409 changed
\* nothing (routes.py, assign_role and remove_role).
AckTruthful(s) ==
    answer'[s] # answer[s] =>
        /\ answer'[s] = 201 => /\ role(s) \notin userRoles[user(s)]
                               /\ role(s) \in userRoles'[user(s)]
                               /\ currentRole'[user(s)] = {role(s)}
        /\ answer'[s] = 204 => /\ role(s) \in userRoles[user(s)]
                               /\ role(s) \notin userRoles'[user(s)]
        /\ answer'[s] \in {404, 409} => UNCHANGED db
AckedMeansCommitted == [][\A s \in Slots : AckTruthful(s)]_vars

\* "Invalidate user role cache so next request gets fresh data": once no
\* request is in flight, the next read of a user's roles, hit or miss, gets
\* what user_roles holds (the DEL of role_repository.py lines 150-155, 171-175).
QuiescentlyFresh ==
    (\A s \in Slots : pc[s] = "idle") =>
        \A u \in Users : roleCache[u] \subseteq {userRoles[u]}

\* The docstring of remove_role: "Removes a role from a user".  After a 204 the
\* user is without the role, users.role_id, which logins read, included.
RemovalEndsRole ==
    [][\A s \in Slots :
        (answer'[s] = 204 /\ answer'[s] # answer[s])
            => currentRole'[user(s)] # {role(s)}]_vars

\* Every request is answered: no cycle of lock waits, no lock or connection
\* kept by a finished request (get_db_session closes the session on all paths).
EveryRequestAnswered == \A s \in Slots : pc[s] # "idle" ~> pc[s] = "idle"

\* The TTL repairs what a missed or misplaced invalidation left behind: when
\* nobody changes roles any more, the cached roles agree with user_roles for
\* good, although reads go on refilling the cache and Redis commands fail.
EventuallyFresh ==
    <>[](\A s \in Slots : op(s) = "read" \/ pc[s] = "idle") =>
        <>[](\A u \in Users : roleCache[u] \subseteq {userRoles[u]})
=============================================================================
