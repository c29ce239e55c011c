SPECIFICATION Spec
CONSTANTS
    Users = {u1}
    RoleNames = {emp, adm}
    Catalog = {emp, adm}
    Active = {emp, adm}
    DefaultRole = emp
    Slots = {s1}
    PoolSize = 1
    RedisMayFail = FALSE
    DbMayFail = FALSE
    MayCrash = FALSE
PROPERTY RemovalEndsRole
