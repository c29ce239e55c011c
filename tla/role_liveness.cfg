SPECIFICATION FairSpec
CONSTANTS
    Users = {u1}
    RoleNames = {emp}
    Catalog = {emp}
    Active = {emp}
    DefaultRole = emp
    Slots = {s1, s2, s3}
    PoolSize = 2
    RedisMayFail = TRUE
    DbMayFail = FALSE
    MayCrash = FALSE
PROPERTIES EveryRequestAnswered EventuallyFresh
