SPECIFICATION FairSpec
CONSTANTS
    Clients = {c1}
    Rivals = {d1}
    Email = e1
    Users = {u1, u2}
    DefaultRole = emp
    AuthSlots = {a1, a2}
    RegisterPath = "/auth/register"
    LoginPath = "/auth/login"
    HealthPath = "/health"
    Settings <- MCSettings
    Root = "/"
    Starts <- MCStarts
    Limit = 1
    RedisMayFail = TRUE
    DbMayFail = TRUE
    MayCrash = TRUE
    MayDeactivate = TRUE
INVARIANTS TypeOK AnswersSettle
PROPERTIES LoginTells RetriesSettle
VIEW Relevant
