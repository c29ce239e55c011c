--------------------------- MODULE MCGatewayAuth ---------------------------
(***************************************************************************)
(* Instances of GatewayAuth for TLC.  The route table plays no part for    *)
(* POST /auth/register and POST /auth/login; one deployment is enough.     *)
(***************************************************************************)
EXTENDS GatewayAuth

Others == {"vehicles", "assignments", "incidents", "maintenance", "reports"}
MCSettings == {[prefix |-> [s \in Others |-> "/other"],
                url |-> [s \in Others \cup {"auth", "role"} |-> "http"]]}

\* Every path starts with "/"; none of the other prefixes is asked for.
MCStarts == {"/auth/register", "/auth/login", "/health"} \X {"/"}

\* The view of the states: what an idle slot of the auth service was last asked
\* and answered is overwritten by its next request before anything reads it, so
\* states that differ in nothing else have the same steps.
InUse(f, none) == [a \in AuthSlots |-> IF at[a] = "idle" THEN none ELSE f[a]]
Relevant ==
    <<gatewayVars, currentRole, emailCache, idCache, hash, inactive, emailOff, idOff, tokens,
      InUse(request, {}), at, loaded, InUse(reply, 0), serves, taken, history>>
=============================================================================
