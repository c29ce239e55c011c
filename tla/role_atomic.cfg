SPECIFICATION Spec
CONSTANTS
    Users = {u1}
    RoleNames = {emp, adm, ghost}
    Catalog = {emp, adm}
    Active = {emp, adm}
    DefaultRole = emp
    Slots = {s1, s2, s3}
    PoolSize = 2
    RedisMayFail = FALSE
    DbMayFail = TRUE
    MayCrash = TRUE
SYMMETRY SlotSymmetry
INVARIANTS TypeOK PendingWritesApplicable
PROPERTIES RefinesAssignments AckedMeansCommitted
