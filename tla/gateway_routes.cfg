SPECIFICATION FairSpec
CONSTANTS
    Clients = {c1}
    Methods = {"GET", "POST", "HEAD"}
    Paths = {"/auth/login", "/reportesX", "/health"}
    AuthPaths = {"/auth/login"}
    HealthPath = "/health"
    Roles = {"ADMINISTRADOR", "EMPLEADO_VEHICULOS"}
    Settings <- MCSettings
    Root = "/"
    Starts <- MCStarts
    UpstreamStatus = {200, 409}
    Limit = 1
    Slots = {s1, s2}
    MayCrash = TRUE
INVARIANTS TypeOK OnlyPermittedForwarded
PROPERTIES AnswersTruthful EveryRequestAnswered
