-------------------------- MODULE RoleAssignments --------------------------
(***************************************************************************)
(* What the role service promises about the two tables it writes,          *)
(* whatever the interleaving of requests, cache traffic and faults: every  *)
(* change is one of three atomic steps.  A user is registered, a role is   *)
(* assigned (it becomes the current role in users.role_id AND a new row of *)
(* user_roles, together or not at all), or a row of user_roles is removed. *)
(***************************************************************************)
CONSTANTS
    Users,          \* user ids
    Catalog,        \* the rows of the roles table
    Active,         \* the catalog rows with is_active = true
    DefaultRole     \* EMPLEADO, the role of a freshly registered user

VARIABLES
    currentRole,    \* users.role_id: {} while there is no row, {r} afterwards
    userRoles       \* user_roles: the set of roles granted to each user

vars == <<currentRole, userRoles>>

Init ==
    /\ currentRole = [u \in Users |-> {}]
    /\ userRoles = [u \in Users |-> {}]

Register(u) ==
    /\ currentRole[u] = {}
    /\ currentRole' = [currentRole EXCEPT ![u] = {DefaultRole}]
    /\ UNCHANGED userRoles

\* Only a registered user, an active role, and a role not yet held.
Assign(u, r) ==
    /\ currentRole[u] # {}
    /\ r \notin userRoles[u]
    /\ currentRole' = [currentRole EXCEPT ![u] = {r}]
    /\ userRoles' = [userRoles EXCEPT ![u] = @ \cup {r}]

\* The current role is left alone, even when it is the role removed.
Remove(u, r) ==
    /\ r \in userRoles[u]
    /\ userRoles' = [userRoles EXCEPT ![u] = @ \ {r}]
    /\ UNCHANGED currentRole

Next ==
    \E u \in Users :
        \/ Register(u)
        \/ \E r \in Active : Assign(u, r)
        \/ \E r \in Catalog : Remove(u, r)

Spec == Init /\ [][Next]_vars
=============================================================================
