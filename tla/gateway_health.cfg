SPECIFICATION Spec
CONSTANTS
    Clients = {c1}
    Methods = {"GET"}
    Paths = {"/auth/login", "/reportesX", "/health"}
    AuthPaths = {"/auth/login"}
    HealthPath = "/health"
    Roles = {"ADMINISTRADOR", "EMPLEADO_REPORTES"}
    Settings <- MCSettings
    Root = "/"
    Starts <- MCStarts
    UpstreamStatus = {200, 409}
    Limit = 1
    Slots = {s1}
    MayCrash = FALSE
PROPERTY HealthAnswered200
