---------------------------- MODULE SecurityCell ----------------------------
(***************************************************************************)
(* The role service and the auth service as deployed: two processes over   *)
(* one PostgreSQL and one Redis.  The role service updates users.role_id   *)
(* and deletes keys of the auth service's cache; the auth service inserts  *)
(* the users rows, caches users under two keys, and writes the role it     *)
(* found there into the tokens it signs.                                   *)
(***************************************************************************)
EXTENDS Naturals, FiniteSets

CONSTANTS
    Users, Emails, EmailOf, Passwords, RoleNames, Catalog, Active, DefaultRole,
    RoleSlots, AuthSlots, PoolSize, RedisMayFail, DbMayFail, MayCrash

ASSUME CatalogAssumption ==
    Active \subseteq Catalog /\ Catalog \subseteq RoleNames /\ DefaultRole \in Catalog
ASSUME UsersAssumption == Users # {}
ASSUME EmailAssumption == EmailOf \in [Users -> Emails] /\ Emails # {}
\* users.email is unique, so the email key of a user is the user's own.
ASSUME OneIdPerEmail == \A u, v \in Users : EmailOf[u] = EmailOf[v] => u = v
ASSUME PasswordAssumption == Passwords # {}
ASSUME PoolAssumption == PoolSize \in Nat \ {0}
ASSUME FaultAssumption == {RedisMayFail, DbMayFail, MayCrash} \subseteq BOOLEAN

VARIABLES
    currentRole, emailCache,                    \* shared
    userRoles, roleCache, task, pc, found, rows, answer,        \* RoleService
    idCache, hash, inactive, emailOff, idOff, tokens,           \* AuthService
    request, at, loaded, reply,
    held            \* history: the roles users.role_id has had, per user

R == INSTANCE RoleService WITH Slots <- RoleSlots
\* Deactivation does not touch roles and is left to AuthService.
A == INSTANCE AuthService WITH Slots <- AuthSlots, MayDeactivate <- FALSE

roleOnly == <<userRoles, roleCache, task, pc, found, rows, answer>>
authOnly == <<idCache, hash, inactive, emailOff, idOff, tokens, request, at, loaded, reply>>
vars == <<currentRole, emailCache, roleOnly, authOnly, held>>

TypeOK == R!TypeOK /\ A!TypeOK /\ held \in [Users -> SUBSET Catalog]

Init == R!Init /\ A!LocalInit /\ held = [u \in Users |-> {}]

\* Bookkeeping of the history variable, part of every step.
Remember == held' = [u \in Users |-> held[u] \cup currentRole'[u]]

RoleNext == R!ServiceNext /\ UNCHANGED authOnly /\ Remember
AuthNext == A!ServiceNext /\ UNCHANGED roleOnly /\ Remember
TimeNext ==
    /\ \/ UNCHANGED authOnly /\ \E u \in Users : R!Expire(u)
       \/ UNCHANGED roleOnly /\ A!TimeNext
    /\ Remember

Next == RoleNext \/ AuthNext \/ TimeNext

\* The fairness of the two services, on the steps of the whole.
Fairness ==
    /\ \A s \in RoleSlots : SF_vars(R!Step(s) /\ RoleNext)
    /\ \A s \in AuthSlots : SF_vars(A!Step(s) /\ AuthNext)
    /\ \A u \in Users : /\ WF_vars(R!Expire(u) /\ TimeNext)
                        /\ WF_vars(A!ExpireEmail(u) /\ TimeNext)
                        /\ WF_vars(A!ExpireId(u) /\ TimeNext)
    /\ \A t \in A!Token : WF_vars(A!ExpireToken(t) /\ TimeNext)

Spec == Init /\ [][Next]_vars
FairSpec == Spec /\ Fairness

-----------------------------------------------------------------------------
\* Properties.

\* With the auth service really inserting the users rows, both tables still
\* change only in the atomic steps of RoleAssignments.
RA == INSTANCE RoleAssignments
RefinesAssignments == RA!Spec

\* No token, no cached user and no user a handler works on carries a role that
\* was never committed for that user: an assignment that is rolled back after
\* its UPDATE (a duplicate grant, a failed COMMIT, a restart) leaves nothing
\* behind in Redis or in a token.
RolesWereHeld ==
    /\ \A t \in tokens : t.role \in held[t.user]
    /\ \A u \in Users : emailCache[u] \cup idCache[u] \subseteq held[u]
    /\ \A s \in AuthSlots : request[s].op # "register" =>
         \A e \in loaded[s] : e.role \in held[e.id]

Quiet == (\A s \in RoleSlots : pc[s] = "idle") /\ (\A s \in AuthSlots : at[s] = "idle")

\* The docstring of update_user_current_role: "invalida las caches
\* correspondientes".  Once no request is in flight, the user cached under
\* auth:user:id:<id>, which refresh takes the token's role from, has the
\* current role.
IdCacheInvalidated == Quiet => \A u \in Users : idCache[u] \subseteq currentRole[u]

\* When roles change no more, access tokens end up carrying the current role
\* for good, through every cache in between and although nothing deletes
\* auth:user:id:<id>: the TTLs and the tokens' own exp see to it.
EventuallyCurrent ==
    <>[](\A s \in RoleSlots : task[s].op # "assign" \/ pc[s] = "idle") =>
        <>[](\A t \in tokens : t.type = "access" => t.role \in currentRole[t.user])
=============================================================================
