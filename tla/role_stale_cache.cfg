SPECIFICATION Spec
CONSTANTS
    Users = {u1}
    RoleNames = {emp, adm}
    Catalog = {emp, adm}
    Active = {emp, adm}
    DefaultRole = emp
    Slots = {s1, s2}
    PoolSize = 2
    RedisMayFail = FALSE
    DbMayFail = FALSE
    MayCrash = FALSE
INVARIANT QuiescentlyFresh
