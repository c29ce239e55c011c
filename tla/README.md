# A TLA+ specification of the FleetOps security service

This directory holds a formal model of the security layer of FleetOps: an API
gateway, an auth service and a role service over one PostgreSQL and one Redis.
It models the programs under `src/`, states what makes them correct, checks it
with TLC on small instances and proves what TLAPS can prove of it, every safety
property that holds, for every instance. Paths below are relative to the root of the repository.

To run a check: `tlc -config <run>.cfg <module>`; to check the proofs:
`tlapm <module>Proofs.tla`.

## 1. The system

| Component | State it keeps | Operations | Talks to |
|---|---|---|---|
| Role service (`src/role_service/app`) | `user_roles` and `users.role_id` in PostgreSQL; `role:user:<id>` in Redis | validate, read, assign, remove a user's roles | deletes `auth:user:email:<email>`, a key of the auth service |
| Auth service (`src/auth_service/app`) | `users` in PostgreSQL; `auth:user:email:<email>` and `auth:user:id:<id>` in Redis; signed tokens held by clients | register, login, refresh; `is_active` set by hand | reads `users.role_id`, which the role service updates |
| API gateway (`src/api_gateway/app`) | rate-limit counters in memory, one per client and path | route, count, authorise from the token's role, forward | HTTP to the two services and to the other teams' services |
| Role validation client (`services/role_validation_client.py`) | none | asks `/roles/validate` | never called by the gateway |
| Startup (`entrypoint.sh`, `alembic/`, `docker-compose.yml`) | the schema and two Alembic version tables | migrations, then uvicorn, then the gateway | one database, a foreign key across the services' tables |

The services are single processes (`--workers 1`) running asyncio. Requests
interleave at every `await`: a SQL statement, a Redis command, an HTTP call, the
commit. `get_db_session` gives each request one session, committed after the
handler and before the answer, rolled back on any exception. Redis is outside
the transaction: a `DEL` or `SETEX` counts at once and is not undone. Redis
errors are logged and ignored; database errors become a 500.

What makes each component correct:

* **Role service.** The two tables change together or not at all; concurrent
  requests on one user cannot undo each other's decision; a status code says
  what was committed; a read after an assignment is fresh, or at least becomes
  fresh; every request is answered.
* **Auth service.** One account per email; nothing about a user who was never
  committed in a cache or a token; replies match effects; a session ends, and so do
  those of a deactivated user.
* **Both.** A token's role was once the user's role, and becomes the current one.
* **Gateway.** Nothing reaches an upstream that the route table does not permit;
  an answer tells what the upstream did, or that it is unknown; a silent upstream
  cannot hold a request for ever.
* **Gateway and auth service.** A client that was told 503 may retry: its account
  is made once, and it can find out whose account it is.
* **Startup.** The schema is the one the version tables name, nothing is served
  without it, and the system comes up in whatever order the containers start.

`PROJECT.json` lists the hazards at the lines where they bite, with the
properties that cover each.

## 2. The modules

| Module | Models | Granularity |
|---|---|---|
| `RoleAssignments` | what the role service promises about its two tables | three atomic steps: Register, Assign, Remove |
| `RoleService` | the role service's endpoints | one action per await |
| `AuthService` | the auth service's endpoints, caches and tokens | one action per await |
| `SecurityCell` | both services on the shared `users` table and Redis (two `INSTANCE`s sharing variables) | each service's own steps |
| `Gateway` | router order, rate limit, RBAC decision, forwarding with timeouts | one action per stage |
| `GatewayAuth` | clients that retry, the gateway and the auth service (two `INSTANCE`s, no shared variables; calls link them) | the two modules' own steps |
| `Startup` | migrations of both services, restarts, health checks, the gateway's start | one action per SQL statement |
| `RoleServiceProofs`, `AuthServiceProofs`, `GatewayProofs`, `StartupProofs` | theorems about one component each | |
| `SecurityCellProofs`, `GatewayAuthProofs` | theorems about the compositions, from the lemmas of the components' proofs | |
| `MC*` | instances for TLC: symmetry, functions and tables for the constants | |

### RoleService

Each request occupies a *slot*; `task[s]` is what it was asked, `pc[s]` the await
it is at, `found[s]` and `rows[s]` the local data that survives an await. An
endpoint is a path through the control points:

    read:    cache_get -> (hit: answer) | select -> cache_set -> commit
    assign:  find_role -> select_email -> update -> del_update -> [del_email]
               -> insert -> del_insert -> commit
    remove:  find_role -> delete -> del_remove -> commit

with the early answers 404, 409 and 500 where the code raises.

PostgreSQL (READ COMMITTED) is modelled by what the code relies on. `currentRole`
and `userRoles` are the *committed* tables. A transaction's uncommitted writes are
not variables: they follow from where it stands (`PendingRole`, `PendingInsert`,
`PendingDelete`), so a rollback or a crash needs no undo, and `Commit` applies
them. A row lock is the same predicate seen by the others: `UPDATE users` waits
for another pending `UPDATE` of the row, `DELETE` and `INSERT` on `user_roles`
wait for a pending `DELETE` of the row. Two pending `INSERT`s of one row cannot
meet, as both hold the users row; that is one of the facts proved. A connection is
taken at the first statement and kept to the end of the transaction (`Connected`,
`PoolFree`, `PoolTimeout`).

A nullable value is a set of at most one element: `currentRole[u] = {}` is "no
such row", `roleCache[u] = {S}` is a key that holds the list `S`.

`Register` is the auth service's commit of a new user, reduced to its effect on
`users`; `SecurityCell` replaces it by the real handler.

### AuthService

As `RoleService`, with `at`, `loaded` (the `User` entity held across an await) and
`reply`. A user id is a model value that `uuid4` may draw; `EmailOf` fixes the
email it can be drawn for, which lets two registrations of one email race with
two different ids. `hash` is the password a row's hash is of; bcrypt is taken to
keep different passwords apart. Tokens are a set of records
`[user, type, role]`, each standing for all valid copies, removed by `ExpireToken`
when the last passes its `exp`. Hits and misses, the two `SETEX`s, the check
and the insert of a registration, and the commit are separate steps.

`inactive` holds the users with `is_active = false`. `User.deactivate` has no
endpoint, so `Deactivate` is an administrator's statement on the table, which
deletes no key; `emailOff` and `idOff` say which cached copies have the flag. A copy
from before the deactivation goes on letting its user in until it expires, and may
be written after it by a handler that read the row before.

### SecurityCell

`R` and `A` are the two services with `currentRole` and `emailCache` shared. The
history variable `held` remembers the roles each user's row has had. It changes no
behaviour.

### Gateway

`Routers` is the order of `main.py`: the auth router, the catch-all proxy, then
`/health`. `HandlerOf` is Starlette's first match. A path is an opaque value and
`Starts` says which prefixes it begins with, which is all that `startswith`
decides. `BuildRoutes` is the table of `route_registry.py`, entry by entry, over the
prefixes and URLs of the settings; `FindRoute`, `AllowsRole` and `Decision` are
`find_route`, `allows_role` and `evaluate`. What has been let through waits for the
client's body (`ReadBody`, which has no timeout; `Disconnect` if the client leaves first)
and then for the upstream. The upstream (external) may answer a call with any code of
`UpstreamStatus`, which the gateway passes on verbatim, at once or piece by piece
(`BeginAnswer`), or never. `GiveUp` is `httpx.RequestError`, which leaves the
upstream's work running. The timeouts of 10 and 30 seconds are httpx's, which bound every
connect, write and read by itself: they end a call to a silent upstream, not one
whose answer keeps arriving, and the code has no deadline on the whole call. Every
path starts with the root prefix (`RootAssumption`). The other prefixes of a deployment
are assumed not to overlap, and at most one upstream has the root prefix (`PrefixFree`).

The limit is slowapi's default limit, whose counters are per client *and* path
(`Counter`), and go back to zero with the process.

### GatewayAuth

`G` is `Gateway` with one slot per client and `A` is `AuthService`. `Deliver` puts a
client's call into a slot of the auth service, `serves` links the two until the
answer (`Respond`, through `Gateway`'s `Upstream`), and `Abandon` cuts the link when
the gateway gives up or restarts: the slot, an orphan now, runs on to its commit. A
client registers until it is told 201 or 409, logs in afterwards, and remembers in
`doubt` that it was left with a 500, a 503 or nothing (its own leaving included: a
`Disconnect` while the body is read). An account may be deactivated at any time
(`AuthService`'s `Deactivate`). Answers of the auth service are one short JSON body, so
`BeginAnswer` is not among the steps. Each client has a password
of its own, so `hash` tells whose an account is. A call given up before the auth
service has received it, and received afterwards, is the same as one that is
received and then given up. Refresh, the cache by id and the expiry of tokens play no
part and stay in `AuthService`; issued tokens are kept.

### Startup

`Plan` lists the statements of each service's two revisions: what they add and drop,
what they fail without, and the lock they hold on `roles`. Alembic runs all
missing revisions in one transaction (`context.begin_transaction`, PostgreSQL's
transactional DDL), so as in `RoleService` what a migration has done is not a variable
but follows from the statement it is at (`Done`, `Visible`), and `Fail` and `Kill` need
no undo. `objects` and `version` are what is committed; `Init` allows every state
an earlier deployment can have left, with or without accounts. `Healthy` is the
health check of `docker-compose.yml` and `StartGateway` its `depends_on`.

## 3. What the runs check

| Run | Instance | Shows |
|---|---|---|
| `role_atomic` | 1 user, 3 slots, pool of 2, database faults, restarts | types; pending writes stay applicable; the refinement of `RoleAssignments`; truthful status codes |
| `role_liveness` | 1 user, 3 slots, pool of 2, Redis may fail, fair | requests are answered; the TTL repairs every stale entry |
| `auth_accounts` | 2 ids of one email, 2 slots, every fault, deactivation, fair | one account per email; caches hold committed users; truthful replies; sessions end although refreshes go on; a deactivated user is out in the end; requests are answered |
| `cell_roles` | 1 user, 1 slot per service, an inactive role, restarts, fair | roles in caches and tokens were once committed; the refinement again; tokens converge to the current role |
| `gateway_routes` | 3 paths, 2 slots, 2 roles, limit 1, restarts, fair; two deployments, one with a root prefix amid the table and an upstream without URL | only the permitted is forwarded; truthful answers; requests are answered if clients send their bodies and upstreams end the answers they begin |
| `gateway_auth` | 1 client, 1 rival, 2 ids of their email, 2 slots of the auth service, limit 1, every fault, timeouts, deactivation, restarts of both, fair | what 201, 409 and a login tell a client that retries; its retries come to an end |
| `startup` | the real revisions, any earlier state of the database, fair | schema and version tables agree; nothing is served without its schema; the gateway starts last; the services come up |

What `gateway_auth` says to somebody who writes a client: 201 is your account. 409 is
somebody else's account unless you had a 503, a 500 or no answer before; then it
may be your own, made by the call you gave up on. To find out, log in (`LoginTells`): 200
is your account. 401 is somebody else's, or your own that an administrator has deactivated:
`is_password_correct` refuses an inactive user before it looks at the password
(`user.py:103`), and the answer is that of a wrong password. No answer tells these two apart.

What `startup` says to somebody who deploys: the order of the containers does not
matter, as the auth service fails and is restarted until the role service has
made `roles` (`ComesUp`). The one exception is a database with accounts at the auth
service's first revision: `0c2fee775deb` adds a `NOT NULL` column without a default, so
the migration fails at every restart (`Blocked`). In `docker-compose.prod.yml` the gateway
waits only for the containers to be started, and `GatewayBehindSchema` does not hold there.

Five runs expect a violation: each states what a docstring, a comment or the
README says of the program, and the trace shows what the code does instead.

| Run | Said | Done |
|---|---|---|
| `role_stale_cache` | `role_repository.py:150` "Invalidate user role cache so next request gets fresh data" | the `DEL` precedes the commit: a reader that missed selects the old rows and caches them afterwards |
| `role_removal` | `role_service.py:127` "Removes a role from a user." | `users.role_id` keeps the removed role; logins read it |
| `auth_duplicate` | `auth_service.py:115` "RegistrationError: if the email is already registered." | the loser of a race is answered 500 |
| `cell_stale_id` | `role_repository.py:187` "invalida las cachés correspondientes" | `auth:user:id:<id>` is never deleted |
| `gateway_health` | `main.py:95` "Returns 200 OK when the Gateway is running"; `README.md:102` | the catch-all takes `/health` first: 404, or whatever the fallback's upstream says |

Five smaller disagreements are plain from the models and have no run. Assigning a
role the user already holds is answered 500 (`InsertGrant`), where
`role_service.py:103` announces a `RoleAssignmentError`; so a user cannot be put back
to an earlier role whose grant is still there. And `/auth/refresh` renews a session,
where `jwt_handler.py:68` and the README say that nothing does (`SessionsEnd` is what
is left of that: the refresh token itself is not renewed, so renewals stop when it
expires). `config.py:48` calls the limit "requests per minute per client IP", where
slowapi counts each path by itself. And `EMPLEADO`, the role every account starts
with, is in no entry of the route table, so a new account can use `/auth` only until an
administrator assigns it another role (`BuildRoutes`). The roles that comments of
`route_registry.py` (lines 124, 145, 162, 181 and 198) and `src/README.md:107-111` give for
the other teams' services are fewer than those of the entries the code builds, which the
tests assert and `BuildRoutes` follows: `/reportes`, for one, is "ADMINISTRADOR only"
there and open to `EMPLEADO_REPORTES` in the code.

### Bounds

No counter of the program is unbounded but the rate limiter's, which stops at
`Limit`. The bounds are the sizes of the constants.

* *Slots.* A conflict takes two requests (two assignments, an assignment and a
  removal, two registrations, a read and a write); the third slot of the role
  service is the bystander that makes the pool run out while a lock is waited for.
* *Users.* The locks, caches and rows of different users are disjoint and only the
  pool is shared, so the interleavings that matter are on one user. The proofs have
  any number of users.
* *Roles.* Two active roles are enough to change from one to the other and back; an
  inactive and an unknown one exercise the refusals. The fair runs have fewer: one
  role in `role_liveness`, one assignable role in `cell_roles` and one in
  `auth_accounts`, where roles do not change. Going back to an earlier role with the
  auth service running is therefore in `cell_stale_id` only.
* *Ids.* Two ids of one email are the race; two emails never interact.
* *Passwords.* One in `auth_accounts`, where accounts are told apart by their ids (a
  wrong password is a rejected login, which changes nothing); one per client
  and rival in `gateway_auth`, where they tell whose the account is.
* *Clients.* One client and its orphans already race each other and the rival; the
  second slot of the auth service holds the orphan or the rival. With a limit of 1 every
  retry also has to wait for a window.
* *Gateway.* Each path stands for a class: an auth endpoint, a path that meets a
  prefix only as a string, a path no prefix matches. `HEAD` stands for the methods
  no route takes. Of the roles, one is permitted under every protected prefix, one
  under the root prefix of the second deployment and not under `/reportes`. The upstream
  answers 200 or 409: all codes are passed on alike.
* *Revisions.* All of them, with their real statements; there is nothing to bound.

Slots are interchangeable (no action compares them), which justifies the symmetry
of `role_atomic`; runs with liveness use none. `gateway_auth` has a view (`Relevant`),
which leaves out what an idle slot of the auth service was last asked and answered:
`Receive` overwrites both and nothing reads them before, so states with the same view
have the same steps and satisfy the same properties, liveness included. Without Redis
faults the run passes without the view too, in three times the time.

### Fairness

* *Strong fairness of a slot's step* (`RoleService`, `AuthService`). The steps that
  can be disabled are waits for a row lock, an index entry or a connection. All
  three queues are FIFO (PostgreSQL's lock manager, the event loop's waiters), so a
  waiter in front of which the resource is freed again and again gets it. Nothing is
  assumed of `Receive`: clients may stop.
* *Weak fairness of the expiry actions.* Every key is written by `SETEX` and every
  token has an `exp`. An expiry may come at any time after the write, never be put
  off for ever.
* *Weak fairness of the gateway's own steps, and of its timeout while the upstream is
  silent* (`call[s] = Sent`). Nothing forces a client to send its body or to leave, nor an
  upstream to answer or to end an answer it has begun: `await request.body()`
  (`auth_routes.py:40`, `proxy_routes.py:138`) has no timeout, and every piece of an answer
  restarts httpx's. `EveryRequestAnswered` has the two as premises, and is false without
  either.
* *`GatewayAuth`.* The fairness of both services, of the clock that ends a window, and
  of a client that retries and sends its body. The gateway need not give up a call that is being executed,
  but notices a broken connection. `RetriesSettle` is about behaviours in which the
  troubles end (`<>[][Routine]_vars`): no last fault, no answer.
* *`Startup`.* `restart: unless-stopped` starts a container that has ended again, and
  lock queues are FIFO. `ComesUp` is about behaviours in which nobody kills containers
  for ever; a failing migration is not a kill.

Apart from these premises no fault is ever assumed to happen or to stop: a request that a fault ends is
answered 500, and one that a restart ends is over. `role_liveness` has Redis failures
only and `cell_roles` restarts only, to keep the graphs small; `auth_accounts`,
`gateway_routes` and `gateway_auth` have all of theirs.

## 4. What is proved

TLAPS proves every safety invariant and every action property of the passing runs, for
all values of the constants: any number of users, roles, slots, clients, paths and
tables, any pool size and limit, and any combination of the fault switches.

| Component | Theorem | States |
|---|---|---|
| `RoleService` | `PendingApplicable` | `Spec => []PendingWritesApplicable` |
| | `Refinement` | `Spec => RA!Spec`: the role service implements `RoleAssignments` |
| | `AcksTruthful` | `Spec => AckedMeansCommitted` |
| `AuthService` | `OneAccount` | `Spec => []OneAccountPerEmail` |
| | `CachedExist` | `Spec => []CachedUsersExist` |
| | `RepliesAreTruthful` | `Spec => RepliesTruthful` |
| | `RepliesTell` | a login let in named an account and gave its password; a 409 means there is an account |
| | `RefusalsTell` | a login refused named no account, an inactive one, or gave another password |
| `SecurityCell` | `RolesHeld` | `Spec => []RolesWereHeld` |
| | `Refinement` | `Spec => RA!Spec`, with the auth service inserting the users |
| | `InvariantsCompose` | the invariants of either service hold beside the other |
| | `AnswersCompose` | so do the action properties |
| `Gateway` | `PermittedOnly` | `Spec => []OnlyPermittedForwarded` |
| | `StatusCodesTell` | `Spec => AnswersTruthful` |
| `GatewayAuth` | `AnswersSettled` | `Spec => []AnswersSettle` |
| | `LoginsTell` | `Spec => LoginTells` |
| `Startup` | `SchemaMatches` | `Spec => []SchemaMatchesVersions` |
| | `SchemaServed` | `Spec => []ServesItsSchema` |
| | `GatewayComesLast` | `Spec => []GatewayBehindSchema` |

Each module also has `InvHolds`, `Spec => []Inv` for its inductive invariant, and
`TypeCorrect`, `Spec => []TypeOK`. Each `Inv` was checked with TLC, with the faults on,
before it was proved.

### Assumptions

They are the named ones of the modules, and TLC evaluates them in every run.

* `RoleService`: active roles and the default role are in the catalog, there is a user,
  the pool is not empty, the fault switches are Booleans.
* `AuthService`: an id has one email, the default role is in the catalog, there are
  emails and passwords.
* `SecurityCell`: those of both, over the one catalog; and that no two ids it may draw
  have one email (`OneIdPerEmail`), as the shared cache key is named for the email. The
  proofs do not use the last.
* `Gateway`: there are clients and methods, status codes begin at 200, every path starts with `/`, and
  `PrefixFree`. Without the last, which entry is found depends on the order of the table
  and the table does not say what is permitted.
* `GatewayAuth`: clients and rivals are different people; the rest is `Gateway`'s, of
  the auth paths alone.
* `Startup` has none: the revisions are the real ones.

### The role service

`PendingWritesApplicable` is not inductive by itself. That an `INSERT` pending at
`commit` is of a role the user does not hold depends on what the slot passed on its
way: that an assignment past `find_role` is of an active role, that a slot at
`del_email` found a row, that a `read` never reaches an assignment's control points.
`ControlOK` says so, control point by control point, and `Inv` is the conjunction of
`TypeOK`, `ControlOK` and `PendingWritesApplicable`. The proof that a step preserves
it has one lemma per action. The interesting one is `Commit`: the slot's writes
change a table under the other slots' pending writes, and the exclusion in the
invariant (no two pending writes of one users row, no two pending deletes of one
grant, and no pending insert of a grant that a removal is deleting) is what keeps
the others' decisions valid.

The refinement needs `Inv` only at the commits: elsewhere both tables are unchanged.
At a commit, `PendingRole` and `PendingInsert` hold together (an assignment writes
both or neither) and the guards of `Assign` and `Remove` are the invariant.

### The auth service

A commit keeps `OneAccountPerEmail` because nothing else of its email is in the table
or on its way there (`PendingOK`). That holds because the `INSERT` waits for the unique
index, and because no id is drawn twice (`DrawnApart`). `CachedUsersExist` needs to
know what a handler holds when it writes to Redis: `ControlAt` says that a login or a
refresh works on a user of the table and a login on the one of its email. The answers
follow step by step. That a `200` gave the account's password *now* although the copy it
was checked against may be old rests on passwords never changing and rows never going;
that a `401` shuts out nobody who is active rests on `OffOK`: a copy is marked inactive
only if its user is, as no code activates a user again.

### The two services together

The proof reuses the components' lemmas through `INSTANCE`, each fed with the assumptions
of `SecurityCell`. `Inv` is the two component invariants, `held` containing the table's
roles, and `RolesWereHeld`. What is new is interference: a step of one service is, for the other,
a step of its environment. `OutsideInv` of either component says which such steps
keep its invariant (the auth service: no user comes or goes and keys are only deleted;
the role service: a user may come and nothing else of its state moves), and
`ServiceKeepsUsers` and `ServiceRegisters` that the other service's steps are of this
kind. `RolesHeld` then follows from `RolesPassOn`: a handler passes on a role it was
given, from the table, from a cache or from its own entity.

### The gateway

`VerdictPermits` compares the order of routers and middleware (`Verdict`) with what the
table says (`Permitted`): first match and the root fallback find the one entry whose
prefix the path has, by `PrefixFree`. The invariant adds to
`OnlyPermittedForwarded` only that a call is there exactly while its slot waits; a request
that waits for its body has been let through already and must be permitted too.

### Clients that retry

`AnswersSettle` relates what a client has been told to whose password the account has.
It needs to know where every call is. `ClientsOK` says that a slot of the auth service
which is to answer a client runs that client's request and is the only one (`Serving`);
that an answer which has arrived and is not yet relayed is still true
(`ComingAnswers`), which holds because accounts are never deleted nor activated again; and that
a client without doubts has no orphaned registration anywhere, and an account only if the answer is
on its way or here (`Undoubted`). A 409 is then somebody else's account, or the client's
own and the client has reason to suspect it. `LoginTells` follows from `RepliesTell` and
`RefusalsTell` of the auth service, carried over the wire by `ComingAnswers`.

### Startup

Within a transaction nothing is committed, so the work is at `CommitMigration`: the
objects of a version are what its statements add and none of them drops (`Effect`), which
`MadeByRole` and `MadeByAuth` evaluate for the real revisions. `ServesItsSchema` needs `AuthBehindRole`:
the auth service's third statement fails without `roles`, and from there on the role
service's first revision stays.

### Only model-checked

All liveness (`EveryRequestAnswered`, `EventuallyFresh`, `EventuallyCurrent`, `SessionsEnd`,
`DeactivationEnds`, `RetriesSettle`, `ComesUp`): the prover does not do fairness or
`ENABLED`. The properties of the five runs that expect a violation are false, and their
traces say why.

## 5. What is not modelled

* The contents of hashes, JWT signatures, bodies and headers: a token is good or
  bad, a response is its status.
* `save_role` and `validate_user_has_any_role`, and a registration with a role: nothing
  calls them. `Role.deactivate` neither; an inactive role is a constant.
* The role service serving before there is a `users` table: assignments are answered 500
  then, which `DbError` covers. `ALTER TABLE users` waiting for its transactions. Alembic's
  `downgrade` and offline mode.
* Data loss of PostgreSQL or Redis themselves.
* CORS, Swagger pages, logging, configuration, CI and container files.
* The role validation client, which nothing calls.
* slowapi's clock: a window may end at any time.

## 6. Plan

1. Proofs: abstract specifications of the accounts (`AuthService`) and of one client's
   sign-up (`GatewayAuth`), with the refinements, from the invariants that are proved.
2. `GatewayRoles`: an administrator whose assignment times out and who assigns again;
   the orphan may be executed after the acknowledged one.
3. `RateLimit`: the fixed window with a clock, and the bound it gives over any minute.
4. An abstract specification of a cache-aside copy that the three cached keys
   implement, and the repair (invalidate after commit) as a variant to compare.
