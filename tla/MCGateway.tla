----------------------------- MODULE MCGateway -----------------------------
(***************************************************************************)
(* Instances of Gateway for TLC: two deployments, the usual one and one    *)
(* whose vehicles service has the prefix "/" (the fallback, third in the   *)
(* table) and whose reports service has no URL.                            *)
(***************************************************************************)
EXTENDS Gateway, TLC

DefaultPrefix == [vehicles |-> "/vehiculos", assignments |-> "/asignaciones",
                  incidents |-> "/incidentes", maintenance |-> "/mantenimiento",
                  reports |-> "/reportes"]
AllUp == [s \in Services |-> "http"]

MCSettings == {[prefix |-> DefaultPrefix, url |-> AllUp],
               [prefix |-> [DefaultPrefix EXCEPT !["vehicles"] = "/"],
                url |-> [AllUp EXCEPT !["reports"] = ""]]}

\* "/reportesX" starts with "/reportes" as a string; every path starts with "/".
MCStarts == {<<"/auth/login", "/auth">>, <<"/reportesX", "/reportes">>}
              \cup ({"/auth/login", "/reportesX", "/health"} \X {"/"})
=============================================================================
