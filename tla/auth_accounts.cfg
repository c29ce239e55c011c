SPECIFICATION FairSpec
CONSTANTS
    e1 = e1
    u1 = u1
    u2 = u2
    Users = {u1, u2}
    Emails = {e1}
    EmailOf <- TwoForOne
    Passwords = {p1}
    MayDeactivate = TRUE
    Catalog = {emp}
    DefaultRole = emp
    Slots = {s1, s2}
    RedisMayFail = TRUE
    DbMayFail = TRUE
    MayCrash = TRUE
INVARIANTS TypeOK OneAccountPerEmail CachedUsersExist
PROPERTIES RepliesTruthful DeactivationEnds SessionsEnd EveryRequestAnswered
