------------------------------ MODULE Startup ------------------------------
(***************************************************************************)
(* Bringing the containers up.  The auth service and the role service each *)
(* migrate one shared database before they serve (entrypoint.sh), in no    *)
(* given order, and the users table of the one refers to the roles table   *)
(* of the other.  A container that exits or is killed is started again     *)
(* (restart: unless-stopped).  Alembic runs all revisions a service lacks  *)
(* in one transaction: what it has done so far is not a variable but       *)
(* follows from the statement it has reached, as in RoleService.           *)
(***************************************************************************)
EXTENDS Naturals, FiniteSets

VARIABLES
    objects,    \* committed: the tables, columns, keys and roles rows there are
    version,    \* committed: revisions in alembic_version_auth, alembic_version_roles
    rows,       \* the users table has rows
    state,      \* what each service's container is doing
    next,       \* the statement of its Plan a migration is at
    seen,       \* services docker compose has found healthy while it waits
    gateway     \* the API gateway has been started

database == <<objects, version, rows>>
vars == <<database, state, next, seen, gateway>>

Services == {"auth", "role"}
Newest == 2         \* both services have two revisions

DefaultRole == "EMPLEADO"
FirstRoles == {DefaultRole, "EMPLEADO_MANTENIMIENTO", "EMPLEADO_INCIDENTES", "ADMINISTRADOR"}
SecondRoles == {"EMPLEADO_VEHICULOS", "EMPLEADO_ASIGNACIONES", "EMPLEADO_REPORTES"}

\* A statement of a revision: what it adds and drops, what it fails without,
\* and the lock it holds on the roles table to the end of the transaction.
Statement(rev, adds, drops, needs, lock) ==
    [rev |-> rev, adds |-> adds, drops |-> drops, needs |-> needs, lock |-> lock]

\* upgrade() of the revisions of each service, in order.  ADD COLUMN ... NOT
\* NULL without a default is the one that needs an empty table.
AddRoleId == Statement(2, {"users.role_id"}, {}, {"users"}, "none")

Plan == [
    role |-> <<Statement(1, {"roles"}, {}, {}, "none"),
               Statement(1, {"user_roles"}, {}, {"roles"}, "none"),
               Statement(1, FirstRoles, {}, {"roles"}, "write"),
               Statement(2, SecondRoles, {}, {"roles"}, "write")>>,
    auth |-> <<Statement(1, {"users", "users.role"}, {}, {}, "none"),
               AddRoleId,
               Statement(2, {"users.fk"}, {}, {"users.role_id", "roles"}, "share"),
               Statement(2, {}, {"users.role"}, {"users.role"}, "none")>>]

Effect(before, statements) ==
    (before \cup UNION {x.adds : x \in statements}) \ UNION {x.drops : x \in statements}

\* What the first v revisions of a service leave.
Made(s, v) == Effect({}, {x \in {Plan[s][i] : i \in DOMAIN Plan[s]} : x.rev <= v})
Objects == UNION {Plan[s][i].adds : s \in Services, i \in 1 .. 4}

TypeOK ==
    /\ objects \subseteq Objects
    /\ version \in [Services -> 0 .. Newest]
    /\ rows \in BOOLEAN
    /\ state \in [Services -> {"down", "migrating", "starting", "serving"}]
    /\ next \in [Services -> 1 .. 5]
    /\ seen \subseteq Services
    /\ gateway \in BOOLEAN

\* A database some earlier deployment left: any revisions the foreign key
\* allows, and users only once there is a table.
Init ==
    /\ version \in [Services -> 0 .. Newest]
    /\ version["auth"] = Newest => version["role"] >= 1
    /\ rows \in BOOLEAN
    /\ rows => version["auth"] >= 1
    /\ objects = Made("auth", version["auth"]) \cup Made("role", version["role"])
    /\ state = [s \in Services |-> "down"]
    /\ next = [s \in Services |-> 1]
    /\ seen = {}
    /\ gateway = FALSE

-----------------------------------------------------------------------------
\* alembic upgrade head

\* Mutant: both services keep their revision in Alembic's default table.
RevisionShared(s) == IF version["auth"] > version["role"] THEN version["auth"] ELSE version["role"]

\* The revision env.py finds in the service's own version table.
Revision(s) == version[s]

\* The statements of its open transaction.
Done(s) ==
    IF state[s] # "migrating" THEN {}
    ELSE {x \in {Plan[s][i] : i \in 1 .. next[s] - 1} : x.rev > Revision(s)}

Visible(s) == Effect(objects, Done(s))

\* INSERT INTO roles and the foreign key to roles exclude one another.
Waits(s) ==
    \E t \in Services \ {s} : \E x \in Done(t) :
        {x.lock, Plan[s][next[s]].lock} = {"write", "share"}

Succeeds(s) ==
    LET x == Plan[s][next[s]] IN
    /\ x.needs \subseteq Visible(s)
    /\ x.adds \cap Visible(s) = {}
    /\ x = AddRoleId => ~rows

Go(s, to) == state' = [state EXCEPT ![s] = to]

Begin(s) ==
    /\ state[s] = "down"
    /\ Go(s, "migrating")
    /\ next' = [next EXCEPT ![s] = 1 + Cardinality({i \in 1 .. 4 : Plan[s][i].rev <= Revision(s)})]
    /\ UNCHANGED <<database, seen, gateway>>

\* Mutant: each statement is committed by itself.
ApplyAutocommit(s) ==
    /\ state[s] = "migrating" /\ next[s] <= 4
    /\ Succeeds(s) /\ ~Waits(s)
    /\ next' = [next EXCEPT ![s] = @ + 1]
    /\ objects' = Effect(objects, {Plan[s][next[s]]})
    /\ UNCHANGED <<version, rows, state, seen, gateway>>

Apply(s) ==
    /\ state[s] = "migrating" /\ next[s] <= 4
    /\ Succeeds(s) /\ ~Waits(s)
    /\ next' = [next EXCEPT ![s] = @ + 1]
    /\ UNCHANGED <<database, state, seen, gateway>>

\* Mutant: the entrypoint without "set -e".
FailServesOn(s) ==
    /\ state[s] = "migrating" /\ next[s] <= 4
    /\ ~Succeeds(s)
    /\ Go(s, "starting")
    /\ next' = [next EXCEPT ![s] = 1]
    /\ UNCHANGED <<database, seen, gateway>>

\* The statement raises: rollback, and "set -e" ends the container.
Fail(s) ==
    /\ state[s] = "migrating" /\ next[s] <= 4
    /\ ~Succeeds(s)
    /\ Go(s, "down")
    /\ next' = [next EXCEPT ![s] = 1]
    /\ UNCHANGED <<database, seen, gateway>>

\* Mutant: a revision is counted for every statement.
CommitMigrationMiscounted(s) ==
    /\ state[s] = "migrating" /\ next[s] = 5
    /\ objects' = Visible(s)
    /\ version' = [version EXCEPT ![s] = @ + Cardinality(Done(s))]
    /\ Go(s, "starting")
    /\ next' = [next EXCEPT ![s] = 1]
    /\ UNCHANGED <<rows, seen, gateway>>

CommitMigration(s) ==
    /\ state[s] = "migrating" /\ next[s] = 5
    /\ objects' = Visible(s)
    /\ version' = [version EXCEPT ![s] = Newest]
    /\ Go(s, "starting")
    /\ next' = [next EXCEPT ![s] = 1]
    /\ UNCHANGED <<rows, seen, gateway>>

-----------------------------------------------------------------------------
\* exec uvicorn, and what then comes in.

Serve(s) ==
    /\ state[s] = "starting"
    /\ Go(s, "serving")
    /\ UNCHANGED <<database, next, seen, gateway>>

\* The first account; a registration the schema does not fit is answered 500.
Register ==
    /\ state["auth"] = "serving"
    /\ {"users.role_id", DefaultRole} \subseteq objects
    /\ rows' = TRUE
    /\ UNCHANGED <<objects, version, state, next, seen, gateway>>

\* The container dies, or is stopped and started by hand.
Kill(s) ==
    /\ state[s] # "down"
    /\ Go(s, "down")
    /\ next' = [next EXCEPT ![s] = 1]
    /\ UNCHANGED <<database, seen, gateway>>

\* Mutant: condition: service_started, as in docker-compose.prod.yml.
HealthyStarted(s) ==
    /\ state[s] # "down" /\ s \notin seen
    /\ seen' = seen \cup {s}
    /\ UNCHANGED <<database, state, next, gateway>>

\* The healthcheck's GET /health succeeds.
Healthy(s) ==
    /\ state[s] = "serving" /\ s \notin seen
    /\ seen' = seen \cup {s}
    /\ UNCHANGED <<database, state, next, gateway>>

\* depends_on ... condition: service_healthy, for both services.
StartGateway ==
    /\ seen = Services /\ ~gateway
    /\ gateway' = TRUE
    /\ UNCHANGED <<database, state, next, seen>>

Step(s) == Begin(s) \/ Apply(s) \/ Fail(s) \/ CommitMigration(s) \/ Serve(s)

Routine ==
    \/ \E s \in Services : Step(s) \/ Healthy(s)
    \/ Register \/ StartGateway

Next == Routine \/ \E s \in Services : Kill(s)

\* Docker starts a container that has ended again, and PostgreSQL's lock queues
\* are FIFO.
Fairness == \A s \in Services : SF_vars(Step(s))

Spec == Init /\ [][Next]_vars /\ Fairness

-----------------------------------------------------------------------------
\* Properties.

\* The schema is always the one the two version tables name, whatever
\* migration failed or was killed at whichever statement, so the next attempt
\* starts from where Alembic believes it does (context.begin_transaction in
\* both env.py, one version table per service).
SchemaMatchesVersions ==
    objects = Made("auth", version["auth"]) \cup Made("role", version["role"])

\* A service that serves finds its whole schema, the other service's part
\* included: users refers to roles, and the role a registration writes is a
\* row of roles (entrypoint.sh, alembic upgrade head before uvicorn).
ServesItsSchema ==
    /\ \A s \in Services : state[s] = "serving" => Made(s, Newest) \subseteq objects
    /\ state["auth"] = "serving" => {"roles", DefaultRole} \subseteq objects

\* No request comes through the gateway before all of it is there, although
\* the role service by itself serves before there is a users table
\* (depends_on of docker-compose.yml).
GatewayBehindSchema == gateway => objects = Made("auth", Newest) \cup Made("role", Newest)

\* Accounts of a database at the auth service's first revision, which the
\* second revision cannot migrate.
Blocked == version["auth"] = 1 /\ rows

\* Started in any order over any database, both services serve in the end if
\* they are not killed for ever; a database with accounts at the auth service's
\* first revision stops that service and not the other (0c2fee775deb refers to
\* the table of the role service's 001, and only the restarts order the two).
ComesUp ==
    <>[][Routine]_vars =>
        /\ <>[](state["role"] = "serving")
        /\ [](~Blocked) => <>[](state["auth"] = "serving")
=============================================================================
