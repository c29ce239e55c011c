SPECIFICATION FairSpec
CONSTANTS
    u1 = u1
    e1 = e1
    Users = {u1}
    Emails = {e1}
    EmailOf <- OneEmail
    RoleNames = {emp, adm}
    Passwords = {p1}
    Catalog = {emp, adm}
    Active = {adm}
    DefaultRole = emp
    RoleSlots = {r1}
    AuthSlots = {a1}
    PoolSize = 2
    RedisMayFail = FALSE
    DbMayFail = FALSE
    MayCrash = TRUE
INVARIANTS TypeOK RolesWereHeld
PROPERTIES RefinesAssignments EventuallyCurrent
