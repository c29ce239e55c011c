SPECIFICATION Spec
CONSTANTS
    e1 = e1
    u1 = u1
    u2 = u2
    Users = {u1, u2}
    Emails = {e1}
    EmailOf <- TwoForOne
    Passwords = {p1}
    MayDeactivate = FALSE
    Catalog = {emp}
    DefaultRole = emp
    Slots = {s1, s2}
    RedisMayFail = FALSE
    DbMayFail = FALSE
    MayCrash = FALSE
PROPERTY DuplicateEmailAnswered409
