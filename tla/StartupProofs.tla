--------------------------- MODULE StartupProofs ---------------------------
(***************************************************************************)
(* Proofs about Startup: whatever database the deployment finds, however   *)
(* often containers fail or are killed, and at whichever statement.        *)
(***************************************************************************)
EXTENDS Startup, FiniteSetTheorems, TLAPS

\* The statements of the two plans, one by one.
LEMMA RolePlan ==
    /\ DOMAIN Plan["role"] = 1 .. 4
    /\ Plan["role"][1] = Statement(1, {"roles"}, {}, {}, "none")
    /\ Plan["role"][2] = Statement(1, {"user_roles"}, {}, {"roles"}, "none")
    /\ Plan["role"][3] = Statement(1, FirstRoles, {}, {"roles"}, "write")
    /\ Plan["role"][4] = Statement(2, SecondRoles, {}, {"roles"}, "write")
  BY DEF Plan

\* The auth service's revisions, statement by statement.
LEMMA AuthPlan ==
    /\ DOMAIN Plan["auth"] = 1 .. 4
    /\ Plan["auth"][1] = Statement(1, {"users", "users.role"}, {}, {}, "none")
    /\ Plan["auth"][2] = Statement(2, {"users.role_id"}, {}, {"users"}, "none")
    /\ Plan["auth"][3] = Statement(2, {"users.fk"}, {}, {"users.role_id", "roles"}, "share")
    /\ Plan["auth"][4] = Statement(2, {}, {"users.role"}, {"users.role"}, "none")
  BY DEF Plan, AddRoleId

\* What a set of statements leaves: what was there or is added, unless dropped.
LEMMA EffectMembers ==
    ASSUME NEW before, NEW statements, NEW o
    PROVE  o \in Effect(before, statements) <=>
             /\ o \in before \/ \E x \in statements : o \in x.adds
             /\ \A x \in statements : o \notin x.drops
  BY DEF Effect

\* What the revisions of each service leave, as a table.
RoleObjects(v) ==
    (IF v >= 1 THEN {"roles", "user_roles"} \cup FirstRoles ELSE {})
        \cup (IF v >= 2 THEN SecondRoles ELSE {})
AuthObjects(v) ==
    CASE v = 0 -> {}
      [] v = 1 -> {"users", "users.role"}
      [] v = 2 -> {"users", "users.role_id", "users.fk"}

\* What the role service's revisions leave behind.
LEMMA MadeByRole ==
    ASSUME NEW v \in 0 .. Newest
    PROVE  Made("role", v) = RoleObjects(v)
<1> DEFINE all == {Plan["role"][i] : i \in DOMAIN Plan["role"]}
           some == {x \in all : x.rev <= v}
<1>1. all = {Plan["role"][1], Plan["role"][2], Plan["role"][3], Plan["role"][4]}
  BY RolePlan
<1>2. /\ \A x \in all : x.drops = {}
      /\ Plan["role"][1].adds = {"roles"} /\ Plan["role"][1].rev = 1
      /\ Plan["role"][2].adds = {"user_roles"} /\ Plan["role"][2].rev = 1
      /\ Plan["role"][3].adds = FirstRoles /\ Plan["role"][3].rev = 1
      /\ Plan["role"][4].adds = SecondRoles /\ Plan["role"][4].rev = 2
  BY <1>1, RolePlan DEF Statement
<1>3. ASSUME NEW o PROVE o \in Effect({}, some) <=> o \in RoleObjects(v)
  <2>1. o \in Effect({}, some) <=> \E x \in some : o \in x.adds
    BY <1>2, EffectMembers
  <2>2. (\E x \in some : o \in x.adds) <=>
          \/ v >= 1 /\ (o \in {"roles", "user_roles"} \/ o \in FirstRoles)
          \/ v >= 2 /\ o \in SecondRoles
    BY <1>1, <1>2 DEF Newest
  <2> QED
    BY <2>1, <2>2 DEF RoleObjects
<1> QED
  BY <1>3 DEF Made

\* What the auth service's revisions leave behind: users.role goes with the second.
LEMMA MadeByAuth ==
    ASSUME NEW v \in 0 .. Newest
    PROVE  Made("auth", v) = AuthObjects(v)
<1> DEFINE all == {Plan["auth"][i] : i \in DOMAIN Plan["auth"]}
           some == {x \in all : x.rev <= v}
<1>1. all = {Plan["auth"][1], Plan["auth"][2], Plan["auth"][3], Plan["auth"][4]}
  BY AuthPlan
<1>2. /\ Plan["auth"][1].adds = {"users", "users.role"} /\ Plan["auth"][1].rev = 1
      /\ Plan["auth"][2].adds = {"users.role_id"} /\ Plan["auth"][2].rev = 2
      /\ Plan["auth"][3].adds = {"users.fk"} /\ Plan["auth"][3].rev = 2
      /\ Plan["auth"][4].adds = {} /\ Plan["auth"][4].rev = 2
      /\ Plan["auth"][1].drops = {} /\ Plan["auth"][2].drops = {}
      /\ Plan["auth"][3].drops = {} /\ Plan["auth"][4].drops = {"users.role"}
  BY AuthPlan DEF Statement
<1>3. ASSUME NEW o PROVE o \in Effect({}, some) <=> o \in AuthObjects(v)
  <2>1. o \in Effect({}, some) <=> /\ \E x \in some : o \in x.adds
                                   /\ \A x \in some : o \notin x.drops
    BY EffectMembers
  <2>2. (\E x \in some : o \in x.adds) <=>
          \/ v >= 1 /\ o \in {"users", "users.role"}
          \/ v >= 2 /\ o \in {"users.role_id", "users.fk"}
    BY <1>1, <1>2 DEF Newest
  <2>3. (\A x \in some : o \notin x.drops) <=> ~(v >= 2 /\ o = "users.role")
    BY <1>1, <1>2 DEF Newest
  <2>4. v \in {0, 1, 2}
    BY DEF Newest
  <2> QED
    BY <2>1, <2>2, <2>3, <2>4 DEF AuthObjects
<1> QED
  BY <1>3 DEF Made

-----------------------------------------------------------------------------
\* The inductive invariant.

\* Only a committed migration lets a service start, and compose only finds a
\* service healthy that has once served.
StartedMigrated ==
    \A s \in Services :
        state[s] \in {"starting", "serving"} \/ s \in seen => version[s] = Newest

\* The foreign key: the second revision of the auth service gets past its third
\* statement, and to its commit, only over the role service's first revision.
AuthBehindRole ==
    /\ version["auth"] = Newest => version["role"] >= 1
    /\ state["auth"] = "migrating" /\ next["auth"] >= 4 => version["role"] >= 1

Inv ==
    /\ TypeOK
    /\ SchemaMatchesVersions
    /\ StartedMigrated
    /\ AuthBehindRole
    /\ gateway => seen = Services

\* The tables of the role service are there from its first revision on, and no
\* statement of the auth service makes them.
LEMMA SchemaObjects ==
    ASSUME Inv
    PROVE  /\ objects = AuthObjects(version["auth"]) \cup RoleObjects(version["role"])
           /\ version["auth"] \in 0 .. Newest /\ version["role"] \in 0 .. Newest
<1>1. version["auth"] \in 0 .. Newest /\ version["role"] \in 0 .. Newest
  BY DEF Inv, TypeOK, Services
<1> QED
  BY <1>1, MadeByRole, MadeByAuth DEF Inv, SchemaMatchesVersions

\* The roles table is there from the role service's first revision on.
LEMMA RolesTable ==
    ASSUME Inv
    PROVE  "roles" \in objects <=> version["role"] >= 1
<1>1. "roles" \in RoleObjects(version["role"]) <=> version["role"] >= 1
  BY SchemaObjects DEF RoleObjects, Newest, FirstRoles, SecondRoles, DefaultRole
<1>2. version["auth"] \in {0, 1, 2}
  BY SchemaObjects DEF Newest
<1>3. "roles" \notin AuthObjects(version["auth"])
  BY <1>2 DEF AuthObjects
<1> QED
  BY <1>1, <1>3, SchemaObjects

\* The start, on a database of any pair of versions.
LEMMA InitInv == Init => Inv
<1> SUFFICES ASSUME Init PROVE Inv
  OBVIOUS
<1>1. version["auth"] \in 0 .. Newest /\ version["role"] \in 0 .. Newest
  BY DEF Init, Services
<1>2. objects \subseteq Objects
  <2>1. \A s \in Services : \A o : o \in Made(s, version[s]) =>
          \E x \in {Plan[s][i] : i \in DOMAIN Plan[s]} : o \in x.adds
    BY EffectMembers DEF Made
  <2>2. \A s \in Services : DOMAIN Plan[s] = 1 .. 4
    BY RolePlan, AuthPlan DEF Services
  <2>3. \A s \in Services : Made(s, version[s]) \subseteq Objects
    BY <2>1, <2>2 DEF Objects
  <2> QED
    BY <2>3 DEF Init, Services
<1>3. TypeOK
  <2>1. /\ version \in [Services -> 0 .. Newest] /\ rows \in BOOLEAN /\ seen \subseteq Services
        /\ gateway = FALSE
    BY DEF Init
  <2>2. /\ state \in [Services -> {"down", "migrating", "starting", "serving"}]
        /\ next \in [Services -> 1 .. 5]
    BY DEF Init
  <2> QED
    BY <1>2, <2>1, <2>2, Zenon DEF TypeOK
<1> QED
  BY <1>3 DEF Init, Inv, SchemaMatchesVersions, StartedMigrated, AuthBehindRole, Services

-----------------------------------------------------------------------------
\* One lemma per action that does more than move its service on.

\* Where a migration starts: after the statements of the revisions it has.
LEMMA BeginInv == ASSUME Inv, NEW s \in Services, Begin(s) PROVE Inv'
<1> USE DEF Inv
<1> DEFINE done == {i \in 1 .. 4 : Plan[s][i].rev <= Revision(s)}
<1>1. /\ state' = [state EXCEPT ![s] = "migrating"]
      /\ next' = [next EXCEPT ![s] = 1 + Cardinality(done)]
      /\ UNCHANGED <<objects, version, rows, seen, gateway>>
  BY DEF Begin, Go, database
<1>2. Cardinality(done) \in 0 .. 4
  <2>1. IsFiniteSet(1 .. 4) /\ Cardinality(1 .. 4) = 4
    <3>1. 1 \in Int /\ 4 \in Int /\ ~(1 > 4) /\ 4 - 1 + 1 = 4
      OBVIOUS
    <3> QED
      BY <3>1, FS_Interval
  <2>2. IsFiniteSet(done) /\ Cardinality(done) <= 4
    BY <2>1, FS_Subset
  <2> QED
    BY <2>2, FS_CardinalityType
<1>3. TypeOK'
  BY <1>1, <1>2 DEF TypeOK
<1>4. SchemaMatchesVersions'
  BY <1>1 DEF SchemaMatchesVersions
<1>5. StartedMigrated'
  BY <1>1 DEF StartedMigrated, TypeOK
<1>6. AuthBehindRole'
  <2>1. CASE s = "role"
    BY <1>1, <2>1 DEF AuthBehindRole, TypeOK
  <2>2. CASE s = "auth" /\ version["auth"] = Newest
    BY <1>1, <2>2 DEF AuthBehindRole
  <2>3. CASE s = "auth" /\ version["auth"] # Newest
    <3>1. version["auth"] \in {0, 1}
      BY <2>3 DEF TypeOK, Services, Newest
    <3>2. /\ Plan[s][1].rev = 1 /\ Plan[s][2].rev = 2
          /\ Plan[s][3].rev = 2 /\ Plan[s][4].rev = 2
      BY <2>3, AuthPlan DEF Statement
    <3>3. done \subseteq {1}
      BY <2>3, <3>1, <3>2 DEF Revision
    <3>4. IsFiniteSet({1}) /\ Cardinality({1}) = 1
      BY FS_Singleton
    <3>5. Cardinality(done) <= 1
      BY <3>3, <3>4, FS_Subset
    <3>6. next'["auth"] < 4
      BY <1>1, <1>2, <2>3, <3>5 DEF TypeOK, Services
    <3> QED
      <4>1. ~(next'["auth"] >= 4)
        BY <1>3, <3>6 DEF TypeOK, Services
      <4> QED
        BY <1>1, <2>3, <4>1 DEF AuthBehindRole
  <2> QED
    BY <2>1, <2>2, <2>3 DEF Services
<1> QED
  BY <1>1, <1>3, <1>4, <1>5, <1>6

\* ADD CONSTRAINT ... REFERENCES roles fails while there is no table to refer to.
LEMMA ApplyInv == ASSUME Inv, NEW s \in Services, Apply(s) PROVE Inv'
<1> USE DEF Inv
<1>1. /\ next' = [next EXCEPT ![s] = next[s] + 1] /\ next[s] \in 1 .. 4
      /\ state[s] = "migrating"
      /\ UNCHANGED <<objects, version, rows, state, seen, gateway>>
  BY DEF Apply, database, TypeOK
<1>2. TypeOK'
  BY <1>1 DEF TypeOK
<1>3. SchemaMatchesVersions' /\ StartedMigrated'
  BY <1>1 DEF SchemaMatchesVersions, StartedMigrated
<1>4. AuthBehindRole'
  <2>1. CASE s = "role"
    BY <1>1, <2>1 DEF AuthBehindRole, TypeOK
  <2>2. CASE s = "auth" /\ next["auth"] # 3
    BY <1>1, <2>2 DEF AuthBehindRole, TypeOK, Services
  <2>3. CASE s = "auth" /\ next["auth"] = 3
    <3>1. "roles" \in Visible(s)
      BY <2>3, AuthPlan DEF Apply, Succeeds, Statement
    <3>2. \A x \in Done(s) : "roles" \notin x.adds
      <4>1. \A i \in 1 .. 4 : "roles" \notin Plan[s][i].adds
        BY <2>3, AuthPlan DEF Statement
      <4> QED
        BY <1>1, <4>1 DEF Done
    <3>3. "roles" \in objects
      BY <3>1, <3>2, EffectMembers DEF Visible
    <3> QED
      BY <1>1, <3>3, RolesTable DEF AuthBehindRole
  <2> QED
    BY <2>1, <2>2, <2>3 DEF Services
<1> QED
  BY <1>1, <1>2, <1>3, <1>4

\* What a complete migration commits is the newest schema of its service, and
\* the other service's part of the database is as it was.
LEMMA CommittedObjects ==
    ASSUME Inv, NEW s \in Services, CommitMigration(s)
    PROVE  objects' = Made("auth", version'["auth"]) \cup Made("role", version'["role"])
<1> USE DEF Inv
<1>1. objects' = Effect(objects, Done(s)) /\ version' = [version EXCEPT ![s] = Newest]
  BY DEF CommitMigration, Visible
<1>2. Done(s) = {x \in {Plan[s][1], Plan[s][2], Plan[s][3], Plan[s][4]} : x.rev > version[s]}
  BY DEF CommitMigration, Done, Revision
<1>3. version["auth"] \in {0, 1, 2} /\ version["role"] \in {0, 1, 2}
  BY SchemaObjects DEF Newest
<1>4. CASE s = "role"
  <2>1. version'["auth"] = version["auth"] /\ version'["role"] = 2
    BY <1>1, <1>4 DEF TypeOK, Services, Newest
  <2>2. /\ Plan[s][1].adds = {"roles"} /\ Plan[s][1].rev = 1 /\ Plan[s][1].drops = {}
        /\ Plan[s][2].adds = {"user_roles"} /\ Plan[s][2].rev = 1 /\ Plan[s][2].drops = {}
        /\ Plan[s][3].adds = FirstRoles /\ Plan[s][3].rev = 1 /\ Plan[s][3].drops = {}
        /\ Plan[s][4].adds = SecondRoles /\ Plan[s][4].rev = 2 /\ Plan[s][4].drops = {}
    BY <1>4, RolePlan DEF Statement
  <2>3. ASSUME NEW o
        PROVE  o \in objects' <=> o \in AuthObjects(version["auth"]) \/ o \in RoleObjects(2)
    <3>1. o \in objects' <=> o \in objects \/ \E x \in Done(s) : o \in x.adds
      BY <1>1, <1>2, <2>2, EffectMembers
    <3>2. (\E x \in Done(s) : o \in x.adds) <=>
            \/ version["role"] < 1 /\ (o \in {"roles", "user_roles"} \/ o \in FirstRoles)
            \/ version["role"] < 2 /\ o \in SecondRoles
      BY <1>2, <1>3, <1>4, <2>2
    <3> QED
      BY <1>3, <3>1, <3>2, SchemaObjects DEF RoleObjects
  <2>4. objects' = AuthObjects(version["auth"]) \cup RoleObjects(2)
    BY <2>3
  <2> QED
    BY <2>1, <2>4, SchemaObjects, MadeByAuth, MadeByRole DEF Newest
<1>5. CASE s = "auth"
  <2>1. version'["role"] = version["role"] /\ version'["auth"] = 2
    BY <1>1, <1>5 DEF TypeOK, Services, Newest
  <2>2. /\ Plan[s][1].adds = {"users", "users.role"} /\ Plan[s][1].rev = 1
        /\ Plan[s][2].adds = {"users.role_id"} /\ Plan[s][2].rev = 2
        /\ Plan[s][3].adds = {"users.fk"} /\ Plan[s][3].rev = 2
        /\ Plan[s][4].adds = {} /\ Plan[s][4].rev = 2
        /\ Plan[s][1].drops = {} /\ Plan[s][2].drops = {}
        /\ Plan[s][3].drops = {} /\ Plan[s][4].drops = {"users.role"}
    BY <1>5, AuthPlan DEF Statement
  <2>3. ASSUME NEW o
        PROVE  o \in objects' <=> o \in AuthObjects(2) \/ o \in RoleObjects(version["role"])
    <3>1. o \in objects' <=> /\ o \in objects \/ \E x \in Done(s) : o \in x.adds
                             /\ \A x \in Done(s) : o \notin x.drops
      BY <1>1, EffectMembers
    <3>2. (\E x \in Done(s) : o \in x.adds) <=>
            \/ version["auth"] < 1 /\ o \in {"users", "users.role"}
            \/ version["auth"] < 2 /\ o \in {"users.role_id", "users.fk"}
      BY <1>2, <1>3, <1>5, <2>2
    <3>3. (\A x \in Done(s) : o \notin x.drops) <=> ~(version["auth"] < 2 /\ o = "users.role")
      BY <1>2, <1>3, <1>5, <2>2
    <3>4. "users.role" \notin RoleObjects(version["role"])
      BY <1>3 DEF RoleObjects, FirstRoles, SecondRoles, DefaultRole
    <3>5. o \in objects <=> o \in AuthObjects(version["auth"]) \/ o \in RoleObjects(version["role"])
      BY SchemaObjects
    <3> QED
      BY <1>3, <3>1, <3>2, <3>3, <3>4, <3>5 DEF AuthObjects
  <2>4. objects' = AuthObjects(2) \cup RoleObjects(version["role"])
    BY <2>3
  <2> QED
    BY <2>1, <2>4, SchemaObjects, MadeByAuth, MadeByRole DEF Newest
<1> QED
  BY <1>4, <1>5 DEF Services

\* A revision is committed: version and objects change together.
LEMMA CommitInv == ASSUME Inv, NEW s \in Services, CommitMigration(s) PROVE Inv'
<1> USE DEF Inv
<1>1. /\ version' = [version EXCEPT ![s] = Newest]
      /\ state' = [state EXCEPT ![s] = "starting"] /\ next' = [next EXCEPT ![s] = 1]
      /\ state[s] = "migrating" /\ next[s] = 5
      /\ UNCHANGED <<rows, seen, gateway>>
  BY DEF CommitMigration, Go
<1>2. SchemaMatchesVersions'
  BY CommittedObjects DEF SchemaMatchesVersions
<1>3. TypeOK'
  <2>1. \A o : o \in objects' => o \in objects \/ \E x \in Done(s) : o \in x.adds
    BY EffectMembers DEF CommitMigration, Visible
  <2>2. Done(s) \subseteq {Plan[s][i] : i \in 1 .. 4}
    BY <1>1 DEF Done
  <2>3. objects' \subseteq Objects
    BY <2>1, <2>2 DEF Objects, TypeOK
  <2> QED
    BY <1>1, <2>3 DEF TypeOK, Newest
<1>4. StartedMigrated'
  BY <1>1 DEF StartedMigrated, TypeOK
<1>5. AuthBehindRole'
  BY <1>1 DEF AuthBehindRole, TypeOK, Services, Newest
<1> QED
  BY <1>1, <1>2, <1>3, <1>4, <1>5

\* The container ends: what it had not committed is rolled back.
LEMMA DownInv ==
    ASSUME Inv, NEW s \in Services, Go(s, "down"), next' = [next EXCEPT ![s] = 1],
           UNCHANGED <<database, seen, gateway>>
    PROVE  Inv'
<1> USE DEF Inv
<1>1. TypeOK' /\ SchemaMatchesVersions'
  BY DEF TypeOK, SchemaMatchesVersions, Go, database
<1>2. StartedMigrated' /\ AuthBehindRole'
  BY DEF StartedMigrated, AuthBehindRole, Go, database, TypeOK, Services
<1> QED
  BY <1>1, <1>2

\* A service that has migrated begins to serve.
LEMMA ServeInv == ASSUME Inv, NEW s \in Services, Serve(s) PROVE Inv'
<1> USE DEF Inv
<1>1. TypeOK' /\ SchemaMatchesVersions'
  BY DEF TypeOK, SchemaMatchesVersions, Serve, Go, database
<1>2. StartedMigrated' /\ AuthBehindRole'
  BY DEF StartedMigrated, AuthBehindRole, Serve, Go, database, TypeOK, Services
<1> QED
  BY <1>1, <1>2 DEF Serve

\* A serving container becomes healthy.
LEMMA HealthyInv == ASSUME Inv, NEW s \in Services, Healthy(s) PROVE Inv'
<1> USE DEF Inv
<1>1. TypeOK' /\ SchemaMatchesVersions' /\ AuthBehindRole'
  BY DEF TypeOK, SchemaMatchesVersions, AuthBehindRole, Healthy, database
<1>2. StartedMigrated'
  BY DEF StartedMigrated, Healthy, database
<1>3. gateway' => seen' = Services
  BY DEF Healthy, TypeOK
<1> QED
  BY <1>1, <1>2, <1>3

\* Accounts and the gateway do not touch the schema.
LEMMA RestInv == ASSUME Inv, Register \/ StartGateway \/ UNCHANGED vars PROVE Inv'
<1> SUFFICES ASSUME Inv, Register \/ StartGateway \/ UNCHANGED vars PROVE Inv'
  OBVIOUS
<1>1. /\ UNCHANGED <<objects, version, state, next, seen>> /\ rows' \in BOOLEAN
      /\ gateway' = gateway \/ (gateway' = TRUE /\ seen = Services)
  BY DEF Inv, TypeOK, Register, StartGateway, vars, database
<1>2. gateway' \in BOOLEAN /\ (gateway' => seen = Services)
  <2>1. gateway \in BOOLEAN /\ (gateway => seen = Services)
    BY DEF Inv, TypeOK
  <2>2. CASE gateway' = gateway
    BY <2>1, <2>2, Zenon
  <2>3. CASE gateway' = TRUE /\ seen = Services
    BY <2>3, Zenon
  <2> QED
    BY <1>1, <2>2, <2>3
<1>3. TypeOK'
  BY <1>1, <1>2, Zenon DEF Inv, TypeOK
<1> QED
  BY <1>1, <1>2, <1>3 DEF Inv, SchemaMatchesVersions, StartedMigrated, AuthBehindRole

\* Every step of the specification.
LEMMA NextInv == Inv /\ [Next]_vars => Inv'
<1> SUFFICES ASSUME Inv, [Next]_vars PROVE Inv'
  OBVIOUS
<1>1. ASSUME NEW s \in Services, Step(s) PROVE Inv'
  BY <1>1, BeginInv, ApplyInv, DownInv, CommitInv, ServeInv DEF Step, Fail
<1>2. ASSUME NEW s \in Services, Kill(s) PROVE Inv'
  BY <1>2, DownInv DEF Kill
<1> QED
  BY <1>1, <1>2, HealthyInv, RestInv DEF Next, Routine

\* In every behaviour, from any database an earlier deployment left.
THEOREM InvHolds == Spec => []Inv
<1> QED
  BY InitInv, NextInv, PTL DEF Spec

\* The variables keep their types.
THEOREM TypeCorrect == Spec => []TypeOK
<1>1. Inv => TypeOK
  BY DEF Inv
<1> QED
  BY <1>1, InvHolds, PTL

\* Whatever migration failed or was killed at whichever statement, the schema
\* is the one that the two version tables name.
THEOREM SchemaMatches == Spec => []SchemaMatchesVersions
<1>1. Inv => SchemaMatchesVersions
  BY DEF Inv
<1> QED
  BY <1>1, InvHolds, PTL

\* A service that serves has its schema, and what that refers to.
THEOREM SchemaServed == Spec => []ServesItsSchema
<1>1. Inv => ServesItsSchema
  <2> SUFFICES ASSUME Inv PROVE ServesItsSchema
    OBVIOUS
  <2>1. \A s \in Services : state[s] = "serving" => Made(s, Newest) \subseteq objects
    BY DEF Inv, StartedMigrated, SchemaMatchesVersions, Services
  <2>2. version["role"] >= 1 => {"roles", DefaultRole} \subseteq objects
    BY SchemaObjects DEF RoleObjects, FirstRoles
  <2>3. state["auth"] = "serving" => version["role"] >= 1
    BY DEF Inv, StartedMigrated, AuthBehindRole, Services
  <2> QED
    BY <2>1, <2>2, <2>3 DEF ServesItsSchema
<1> QED
  BY <1>1, InvHolds, PTL

\* The gateway, once started, has the whole schema behind it.
THEOREM GatewayComesLast == Spec => []GatewayBehindSchema
<1>1. Inv => GatewayBehindSchema
  BY DEF Inv, GatewayBehindSchema, StartedMigrated, SchemaMatchesVersions, Services
<1> QED
  BY <1>1, InvHolds, PTL
=============================================================================
