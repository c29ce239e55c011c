------------------------- MODULE SecurityCellProofs -------------------------
(***************************************************************************)
(* Proofs about SecurityCell: the invariants of the two services survive   *)
(* each other's steps, and no role is passed on that a user never had.     *)
(***************************************************************************)
EXTENDS SecurityCell, TLAPS

\* What is proved of each service by itself.
RP == INSTANCE RoleServiceProofs WITH Slots <- RoleSlots
AP == INSTANCE AuthServiceProofs WITH Slots <- AuthSlots, MayDeactivate <- FALSE

\* The facts the two services' proofs start from.
LEMMA Assumptions ==
    /\ Active \subseteq Catalog /\ Catalog \subseteq RoleNames /\ DefaultRole \in Catalog
    /\ Users # {}
    /\ EmailOf \in [Users -> Emails] /\ Emails # {}
    /\ Passwords # {}
    /\ PoolSize \in Nat \ {0}
    /\ {RedisMayFail, DbMayFail, MayCrash} \subseteq BOOLEAN
    /\ {RedisMayFail, DbMayFail, MayCrash, FALSE} \subseteq BOOLEAN
  BY CatalogAssumption, UsersAssumption, EmailAssumption, PasswordAssumption, PoolAssumption,
     FaultAssumption

-----------------------------------------------------------------------------
\* SecurityCell and the proofs speak of the same steps.

\* The steps of the role service.
LEMMA SameRoleService == R!ServiceNext <=> RP!ServiceNext
  BY DEF R!Cardinality, RP!Cardinality, R!ServiceNext, RP!ServiceNext,
         R!Receive, RP!Receive, R!Step, RP!Step, R!Fault, RP!Fault,
         R!Crash, RP!Crash, R!CacheHit, RP!CacheHit, R!CacheMiss, RP!CacheMiss,
         R!SelectRoles, RP!SelectRoles, R!CacheSet, RP!CacheSet, R!FindRole,
         RP!FindRole, R!SelectEmail, RP!SelectEmail, R!UpdateUser, RP!UpdateUser,
         R!DelAfterUpdate, RP!DelAfterUpdate, R!DelEmail, RP!DelEmail, R!InsertGrant,
         RP!InsertGrant, R!DelAfterInsert, RP!DelAfterInsert, R!DeleteGrant,
         RP!DeleteGrant, R!DelAfterDelete, RP!DelAfterDelete, R!Commit, RP!Commit,
         R!CommitUnacknowledged, RP!CommitUnacknowledged, R!DbError, RP!DbError,
         R!PoolTimeout, RP!PoolTimeout, R!Goto, RP!Goto, R!Finish, RP!Finish, R!Del,
         RP!Del, R!ApplyWrites, RP!ApplyWrites, R!PendingRole, RP!PendingRole,
         R!PendingInsert, RP!PendingInsert, R!PendingDelete, RP!PendingDelete,
         R!UserRowLocked, RP!UserRowLocked, R!GrantRowLocked, RP!GrantRowLocked,
         R!Connected, RP!Connected, R!PoolFree, RP!PoolFree, R!Task, RP!Task,
         R!Status, RP!Status, R!DbSteps, RP!DbSteps, R!SuccessCode, RP!SuccessCode,
         R!op, RP!op, R!user, RP!user, R!role, RP!role, R!db, RP!db, R!redis,
         RP!redis, R!slots, RP!slots

\* The steps of the auth service.
LEMMA SameAuthService == A!ServiceNext <=> AP!ServiceNext
  BY DEF A!ServiceNext, AP!ServiceNext, A!Receive, AP!Receive, A!Step, AP!Step,
         A!Fault, AP!Fault, A!Crash, AP!Crash, A!ExistsByEmail, AP!ExistsByEmail,
         A!InsertUser, AP!InsertUser, A!EmailHit, AP!EmailHit, A!EmailMiss,
         AP!EmailMiss, A!SelectByEmail, AP!SelectByEmail, A!SetEmail, AP!SetEmail,
         A!RefreshRejected, AP!RefreshRejected, A!IdHit, AP!IdHit, A!IdMiss,
         AP!IdMiss, A!SelectById, AP!SelectById, A!SetId, AP!SetId, A!Commit,
         AP!Commit, A!CommitUnacknowledged, AP!CommitUnacknowledged, A!DbError,
         AP!DbError, A!Goto, AP!Goto, A!Finish, AP!Finish, A!Reject, AP!Reject,
         A!First, AP!First, A!Acceptable, AP!Acceptable, A!Accepts, AP!Accepts,
         A!ApplyWrites, AP!ApplyWrites, A!SuccessCode, AP!SuccessCode, A!Issue,
         AP!Issue, A!Put, AP!Put, A!PutOff, AP!PutOff, A!Row, AP!Row, A!CachedByEmail,
         AP!CachedByEmail, A!CachedById, AP!CachedById, A!Entry, AP!Entry,
         A!Registered, AP!Registered, A!Drawn, AP!Drawn, A!PendingUser,
         AP!PendingUser, A!op, AP!op, A!email, AP!email, A!password, AP!password,
         A!Request, AP!Request, A!Token, AP!Token, A!Entity, AP!Entity, A!DbSteps,
         AP!DbSteps, A!emailKey, AP!emailKey, A!idKey, AP!idKey, A!redis, AP!redis,
         A!users, AP!users, A!slots, AP!slots

\* What the two start from.
LEMMA SameStart == Init => RP!Init /\ AP!Init
  BY DEF Init, R!Init, RP!Init, AP!Init, A!LocalInit, AP!LocalInit

\* The passing of time.
LEMMA SameTime ==
    /\ \A u \in Users : R!Expire(u) <=> RP!Expire(u)
    /\ A!TimeNext <=> AP!TimeNext
<1>1. \A u \in Users : R!Expire(u) <=> RP!Expire(u)
  BY DEF R!Expire, RP!Expire, R!db, RP!db, R!slots, RP!slots
<1>2. A!TimeNext <=> AP!TimeNext
  BY DEF A!TimeNext, AP!TimeNext, A!ExpireEmail, AP!ExpireEmail, A!ExpireId, AP!ExpireId,
         A!ExpireToken, AP!ExpireToken, A!Token, AP!Token, A!users, AP!users,
         A!emailKey, AP!emailKey, A!idKey, AP!idKey, A!redis, AP!redis, A!slots, AP!slots
<1> QED
  BY <1>1, <1>2

-----------------------------------------------------------------------------
\* The inductive invariant: what holds of each service by itself, and what the
\* history has to do with the table.
HistoryOK ==
    /\ held \in [Users -> SUBSET Catalog]
    /\ \A u \in Users : currentRole[u] \subseteq held[u]

Inv == RP!Inv /\ AP!Inv /\ HistoryOK /\ RolesWereHeld

\* RolesWereHeld in the words of the auth service's proofs.
LEMMA WithinHistory == RolesWereHeld <=> AP!RolesWithin(held)
  BY DEF RolesWereHeld, AP!RolesWithin, AP!op

\* The history only grows, and has the roles the table has after the step.
LEMMA HistoryGrows ==
    ASSUME HistoryOK, Remember, currentRole' \in [Users -> AP!Opt(Catalog)]
    PROVE  /\ HistoryOK'
           /\ \A u \in Users : held[u] \subseteq held'[u]
<1>1. \A u \in Users : currentRole'[u] \subseteq Catalog
  BY DEF AP!Opt
<1> QED
  BY <1>1 DEF HistoryOK, Remember

\* Roles that were within the history before a step in which it grows, still are.
LEMMA StillWithin ==
    ASSUME AP!Inv, RolesWereHeld, \A u \in Users : held[u] \subseteq held'[u],
           tokens' \subseteq tokens, UNCHANGED <<request, loaded>>,
           \A u \in Users : emailCache'[u] \subseteq emailCache[u] /\ idCache'[u] \subseteq idCache[u]
    PROVE  RolesWereHeld'
<1>1. /\ \A t \in tokens : t.user \in Users
      /\ \A s \in AuthSlots : \A e \in loaded[s] : e.id \in Users
  BY DEF AP!Inv, AP!TypeOK, AP!Token, AP!Opt, AP!Entity
<1> QED
  BY <1>1 DEF RolesWereHeld

\* Both services start idle over an empty table.
LEMMA InitInv == Init => Inv
<1> SUFFICES ASSUME Init PROVE Inv
  OBVIOUS
<1>1. RP!Inv /\ AP!Inv
  BY SameStart, RP!InitInv, AP!InitInv, Assumptions
<1>2. HistoryOK
  BY DEF Init, HistoryOK, R!Init
<1>3. RolesWereHeld
  BY DEF Init, R!Init, A!LocalInit, RolesWereHeld
<1> QED
  BY <1>1, <1>2, <1>3 DEF Inv

-----------------------------------------------------------------------------
\* Each service's steps, and the other service.

\* The role service changes roles under the auth service, which keeps its
\* invariant because no user comes or goes and its keys are only deleted.
LEMMA RoleInv == ASSUME Inv, RoleNext PROVE Inv'
<1> USE DEF Inv
<1>1. RP!ServiceNext /\ UNCHANGED authOnly /\ Remember
  BY SameRoleService DEF RoleNext
<1>2. RP!Inv'
  BY <1>1, RP!NextInv, Assumptions DEF RP!Next
<1>3. \A u \in Users : /\ currentRole'[u] # {} <=> currentRole[u] # {}
                       /\ emailCache'[u] \subseteq emailCache[u]
  BY <1>1, RP!ServiceKeepsUsers, Assumptions
<1>4. /\ currentRole' \in [Users -> AP!Opt(Catalog)]
      /\ emailCache' \in [Users -> AP!Opt(Catalog)]
  BY <1>2 DEF RP!Inv, RP!TypeOK, RP!Opt, AP!Opt
<1>5. AP!Inv'
  <2>1. UNCHANGED <<AP!slots, hash, idCache, inactive, emailOff, idOff, tokens>>
    BY <1>1 DEF authOnly, AP!slots
  <2>2. AP!Registered' = AP!Registered
    BY <1>3 DEF AP!Registered
  <2>3. AP!CachesKept
    BY <1>3, <1>4, <2>1 DEF AP!CachesKept, AP!Inv, AP!TypeOK, AP!CachedUsersExist
  <2> QED
    BY <1>4, <2>1, <2>2, <2>3, AP!OutsideInv, Assumptions DEF AP!Inv, AP!TypeOK
<1>6. HistoryOK' /\ \A u \in Users : held[u] \subseteq held'[u]
  BY <1>1, <1>4, HistoryGrows
<1>7. RolesWereHeld'
  BY <1>1, <1>3, <1>6, StillWithin DEF authOnly
<1> QED
  BY <1>2, <1>5, <1>6, <1>7

\* The auth service adds users under the role service and passes on the roles
\* it finds in the table, each of which is remembered.
LEMMA AuthInv == ASSUME Inv, AuthNext PROVE Inv'
<1> USE DEF Inv
<1>1. AP!ServiceNext /\ UNCHANGED roleOnly /\ Remember
  BY SameAuthService DEF AuthNext
<1>2. AP!Inv'
  BY <1>1, AP!ServiceInv, Assumptions
<1>3. currentRole' \in [Users -> AP!Opt(Catalog)] /\ emailCache' \in [Users -> AP!Opt(Catalog)]
  BY <1>2 DEF AP!Inv, AP!TypeOK
<1>4. RP!Inv'
  <2>1. \A u \in Users : currentRole[u] # {} => currentRole'[u] # {}
    BY <1>1, AP!ServiceRegisters, Assumptions DEF AP!Inv, AP!TypeOK
  <2>2. UNCHANGED <<userRoles, roleCache, RP!slots>>
    BY <1>1 DEF roleOnly, RP!slots
  <2>3. currentRole' \in [Users -> RP!Opt(Catalog)] /\ emailCache' \in [Users -> RP!Opt(Catalog)]
    BY <1>3 DEF RP!Opt, AP!Opt
  <2> QED
    BY <2>1, <2>2, <2>3, RP!OutsideInv, Assumptions
<1>5. HistoryOK' /\ \A u \in Users : held[u] \subseteq held'[u]
  BY <1>1, <1>3, HistoryGrows
<1>6. RolesWereHeld'
  <2>1. /\ \A t \in tokens' : t.role \in held[t.user]
        /\ \A u \in Users : emailCache'[u] \cup idCache'[u] \subseteq held[u]
        /\ \A s \in AuthSlots : AP!op(s)' # "register" =>
             \A e \in loaded'[s] : e.role \in held[e.id]
    BY <1>1, WithinHistory, AP!RolesPassOn, Assumptions DEF HistoryOK
  <2>2. /\ \A t \in tokens' : t.user \in Users
        /\ \A s \in AuthSlots : \A e \in loaded'[s] : e.id \in Users
    BY <1>2 DEF AP!Inv, AP!TypeOK, AP!Token, AP!Opt, AP!Entity
  <2> QED
    BY <1>5, <2>1, <2>2 DEF RolesWereHeld, AP!op
<1> QED
  BY <1>2, <1>4, <1>5, <1>6

\* Keys and tokens expire.
LEMMA TimeInv == ASSUME Inv, TimeNext PROVE Inv'
<1> USE DEF Inv
<1>1. CASE UNCHANGED authOnly /\ \E u \in Users : R!Expire(u)
  <2>1. PICK u \in Users : RP!Expire(u)
    BY <1>1, SameTime
  <2>2. RP!Inv'
    BY <2>1, RP!ExpireInv, Assumptions
  <2>3. UNCHANGED <<AP!vars, authOnly, currentRole, emailCache>>
    BY <1>1, <2>1 DEF RP!Expire, RP!db, authOnly, AP!vars, AP!users, AP!redis, AP!emailKey,
                      AP!idKey, AP!slots
  <2>4. AP!Inv'
    BY <2>3, AP!StutterInv, Assumptions
  <2>5. HistoryOK' /\ \A v \in Users : held[v] \subseteq held'[v]
    BY <2>4, HistoryGrows DEF TimeNext, AP!Inv, AP!TypeOK
  <2>6. RolesWereHeld'
    BY <2>3, <2>5, StillWithin DEF authOnly
  <2> QED
    BY <2>2, <2>4, <2>5, <2>6
<1>2. CASE UNCHANGED roleOnly /\ A!TimeNext
  <2>1. AP!TimeNext
    BY <1>2, SameTime
  <2>2. AP!Inv'
    BY <2>1, AP!TimeInv, Assumptions
  <2>3. /\ UNCHANGED <<currentRole, request, loaded>> /\ tokens' \subseteq tokens
        /\ \A u \in Users : emailCache'[u] \subseteq emailCache[u] /\ idCache'[u] \subseteq idCache[u]
    BY <2>1 DEF AP!TimeNext, AP!ExpireEmail, AP!ExpireId, AP!ExpireToken, AP!users, AP!redis,
                AP!emailKey, AP!idKey, AP!slots, AP!Inv, AP!TypeOK
  <2>4. RP!Inv'
    <3>1. UNCHANGED <<userRoles, roleCache, RP!slots>>
      BY <1>2 DEF roleOnly, RP!slots
    <3>2. currentRole' \in [Users -> RP!Opt(Catalog)] /\ emailCache' \in [Users -> RP!Opt(Catalog)]
      BY <2>2 DEF AP!Inv, AP!TypeOK, RP!Opt, AP!Opt
    <3> QED
      BY <2>3, <3>1, <3>2, RP!OutsideInv, Assumptions
  <2>5. HistoryOK' /\ \A u \in Users : held[u] \subseteq held'[u]
    BY <2>2, HistoryGrows DEF TimeNext, AP!Inv, AP!TypeOK
  <2>6. RolesWereHeld'
    BY <2>3, <2>5, StillWithin
  <2> QED
    BY <2>2, <2>4, <2>5, <2>6
<1> QED
  BY <1>1, <1>2 DEF TimeNext

\* Nothing happens.
LEMMA StutterInv == ASSUME Inv, UNCHANGED vars PROVE Inv'
<1> USE DEF Inv
<1>1. UNCHANGED <<RP!vars, AP!vars, currentRole, emailCache, authOnly, held>>
  BY DEF vars, roleOnly, authOnly, RP!vars, RP!db, RP!redis, RP!slots, AP!vars, AP!users,
         AP!redis, AP!emailKey, AP!idKey, AP!slots
<1>2. RP!Inv' /\ AP!Inv'
  BY <1>1, RP!StutterInv, AP!StutterInv, Assumptions
<1>3. HistoryOK' /\ RolesWereHeld'
  BY <1>1, StillWithin DEF HistoryOK, authOnly
<1> QED
  BY <1>2, <1>3

\* Every step of either service, and of time.
LEMMA NextInv == Inv /\ [Next]_vars => Inv'
  BY RoleInv, AuthInv, TimeInv, StutterInv DEF Next

\* In every behaviour, with any number of requests in both services, any
\* interleaving of their steps and any faults.
THEOREM InvHolds == Spec => []Inv
<1> QED
  BY InitInv, NextInv, PTL DEF Spec

\* The variables of both services and the history keep their types.
THEOREM TypeCorrect == Spec => []TypeOK
<1>1. Inv => TypeOK
  BY DEF Inv, HistoryOK, RP!Inv, AP!Inv, TypeOK, R!TypeOK, RP!TypeOK, A!TypeOK, AP!TypeOK,
         R!Opt, RP!Opt, R!Task, RP!Task, R!PC, RP!PC, R!DbSteps, RP!DbSteps, R!Status, RP!Status,
         A!Opt, AP!Opt, A!Token, AP!Token, A!Request, AP!Request, A!At, AP!At, A!DbSteps,
         AP!DbSteps, A!Entity, AP!Entity, A!Status, AP!Status
<1> QED
  BY <1>1, InvHolds, PTL

\* No token, cached user or handler carries a role its user never had, through
\* assignments that roll back, failed deletions of keys, crashes and retries.
THEOREM RolesHeld == Spec => []RolesWereHeld
<1>1. Inv => RolesWereHeld
  BY DEF Inv
<1> QED
  BY <1>1, InvHolds, PTL

-----------------------------------------------------------------------------
\* The two services together implement RoleAssignments.
LEMMA NextRefines == Inv /\ [Next]_vars => [RA!Next]_RA!vars
<1> SUFFICES ASSUME Inv, [Next]_vars PROVE RA!Next \/ UNCHANGED <<currentRole, userRoles>>
  BY DEF RA!vars
<1> USE DEF Inv
<1>1. CASE RoleNext
  <2>1. RP!ServiceNext
    BY <1>1, SameRoleService DEF RoleNext
  <2>2. RP!RA!Next \/ UNCHANGED <<currentRole, userRoles>>
    BY <2>1, RP!StepRefines, Assumptions DEF RP!Next, RP!RA!vars
  <2> QED
    BY <2>2 DEF RA!Next, RP!RA!Next, RA!Register, RP!RA!Register, RA!Assign, RP!RA!Assign,
                RA!Remove, RP!RA!Remove
<1>2. CASE AuthNext
  <2>1. AP!ServiceNext /\ userRoles' = userRoles
    BY <1>2, SameAuthService DEF AuthNext, roleOnly
  <2> QED
    BY <2>1, AP!ServiceRegisters, Assumptions DEF RA!Next, RA!Register
<1>3. CASE TimeNext
  BY <1>3 DEF TimeNext, R!Expire, R!db, roleOnly, A!TimeNext, A!ExpireEmail, A!ExpireId,
              A!ExpireToken, A!users
<1>4. CASE UNCHANGED vars
  BY <1>4 DEF vars, roleOnly
<1> QED
  BY <1>1, <1>2, <1>3, <1>4 DEF Next

\* Whatever the two services and their clients do at once, users.role_id and
\* user_roles change in the atomic steps of RoleAssignments and no others.
THEOREM Refinement == Spec => RefinesAssignments
<1>1. Init => RA!Init
  BY DEF Init, R!Init, RA!Init
<1> QED
  BY <1>1, NextRefines, InvHolds, PTL DEF Spec, RefinesAssignments, RA!Spec

-----------------------------------------------------------------------------
\* What each service promises by itself it also promises beside the other.

\* No pending role change is overtaken by the other service's commits, two
\* registrations of one email make one account, and the auth service caches
\* and serves only users of the table, whatever the role service does to it.
THEOREM InvariantsCompose ==
    Spec => [](R!PendingWritesApplicable /\ A!OneAccountPerEmail /\ A!CachedUsersExist)
<1>1. RP!PendingWritesApplicable => R!PendingWritesApplicable
  BY DEF R!PendingWritesApplicable, RP!PendingWritesApplicable, R!PendingRole, RP!PendingRole,
         R!PendingInsert, RP!PendingInsert, R!PendingDelete, RP!PendingDelete,
         R!op, RP!op, R!user, RP!user, R!role, RP!role
<1>2. AP!OneAccountPerEmail /\ AP!CachedUsersExist => A!OneAccountPerEmail /\ A!CachedUsersExist
  BY DEF A!OneAccountPerEmail, AP!OneAccountPerEmail, A!CachedUsersExist, AP!CachedUsersExist,
         A!Registered, AP!Registered, A!op, AP!op
<1>3. Inv => R!PendingWritesApplicable /\ A!OneAccountPerEmail /\ A!CachedUsersExist
  BY <1>1, <1>2 DEF Inv, RP!Inv, AP!Inv
<1> QED
  BY <1>3, InvHolds, PTL

\* The answers of both services, step by step.
LEMMA NextTells ==
    Inv /\ [Next]_vars => /\ \A s \in RoleSlots : RP!AckTruthful(s)
                          /\ \A s \in AuthSlots : AP!Truthful(s) /\ AP!Telling(s)
<1> SUFFICES ASSUME Inv, [Next]_vars
             PROVE  /\ \A s \in RoleSlots : RP!AckTruthful(s)
                    /\ \A s \in AuthSlots : AP!Truthful(s) /\ AP!Telling(s)
  OBVIOUS
<1> USE DEF Inv
<1>1. UNCHANGED answer => \A s \in RoleSlots : RP!AckTruthful(s)
  BY DEF RP!AckTruthful
<1>2. UNCHANGED reply => \A s \in AuthSlots : AP!Truthful(s) /\ AP!Telling(s)
  BY DEF AP!Truthful, AP!Telling
<1>3. CASE RoleNext
  <2>1. RP!ServiceNext /\ UNCHANGED reply
    BY <1>3, SameRoleService DEF RoleNext, authOnly
  <2>2. \A s \in RoleSlots : RP!AckTruthful(s)
    <3>1. CASE UNCHANGED RP!vars
      BY <1>1, <3>1 DEF RP!vars, RP!slots
    <3> QED
      BY <2>1, <3>1, RP!NextTruthful, Assumptions DEF RP!Next
  <2> QED
    BY <1>2, <2>1, <2>2
<1>4. CASE AuthNext
  <2>1. AP!ServiceNext /\ UNCHANGED answer
    BY <1>4, SameAuthService DEF AuthNext, roleOnly
  <2> QED
    BY <1>1, <2>1, AP!ServiceSays, Assumptions
<1>5. CASE TimeNext \/ UNCHANGED vars
  <2>1. UNCHANGED <<answer, reply>>
    BY <1>5 DEF TimeNext, vars, roleOnly, authOnly, R!Expire, R!slots, A!TimeNext,
                A!ExpireEmail, A!ExpireId, A!ExpireToken, A!slots
  <2> QED
    BY <1>1, <1>2, <2>1
<1> QED
  BY <1>3, <1>4, <1>5 DEF Next

\* A copy the auth service keeps is as inactive as its user, and what a refused
\* login says is true, whichever service takes the step.
LEMMA NextRefuses ==
    Inv /\ AP!OffOK /\ [Next]_vars => AP!OffOK' /\ \A s \in AuthSlots : AP!Refusing(s)
<1> SUFFICES ASSUME Inv, AP!OffOK, [Next]_vars
             PROVE  AP!OffOK' /\ \A s \in AuthSlots : AP!Refusing(s)
  OBVIOUS
<1> USE DEF Inv
<1>1. CASE AP!ServiceNext \/ AP!TimeNext
  BY <1>1, AP!NextRefuses, Assumptions DEF AP!Next
<1>2. CASE UNCHANGED authOnly
  BY <1>2 DEF authOnly, AP!OffOK, AP!Refusing
<1> QED
  BY <1>1, <1>2, SameAuthService, SameTime DEF Next, RoleNext, AuthNext, TimeNext, vars

\* Status codes keep their meaning although another service writes the same
\* tables: a 201 or 204 of the role service is one row more or less, a 201 of
\* the auth service one user more, an error or a refusal no change, and a
\* login is refused with 401 only if no active account has that password.
THEOREM AnswersCompose ==
    Spec => [][/\ \A s \in RoleSlots : R!AckTruthful(s)
               /\ \A s \in AuthSlots : AP!Truthful(s) /\ AP!Telling(s) /\ AP!Refusing(s)]_vars
<1>1. \A s \in RoleSlots : RP!AckTruthful(s) => R!AckTruthful(s)
  BY DEF R!AckTruthful, RP!AckTruthful, R!user, RP!user, R!role, RP!role, R!db, RP!db
<1>2. Inv /\ AP!OffOK /\ [Next]_vars =>
        [/\ \A s \in RoleSlots : R!AckTruthful(s)
         /\ \A s \in AuthSlots : AP!Truthful(s) /\ AP!Telling(s) /\ AP!Refusing(s)]_vars
  BY <1>1, NextTells, NextRefuses
<1>3. Init => AP!OffOK
  BY DEF Init, R!Init, A!LocalInit, AP!OffOK
<1>4. Inv /\ AP!OffOK /\ [Next]_vars => AP!OffOK'
  BY NextRefuses
<1> QED
  BY <1>2, <1>3, <1>4, InvHolds, PTL DEF Spec
=============================================================================
