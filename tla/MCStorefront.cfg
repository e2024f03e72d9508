\* One account that is an administrator's, one that is not made yet, two tabs.
CONSTANTS
    t1 = t1
    t2 = t2
    k1 = k1
    k2 = k2
    k3 = k3
    e1 = e1
    e2 = e2
    b1 = b1
    b2 = b2
    None = None
    Tab = {t1, t2}
    Proc <- MCProc
    User = {1, 2, 3}
    Email = {e1, e2}
    Token = {k1, k2, k3}
    Begun <- MCBegun
    Admins = {1}
    Order = {b1, b2}
    Kinds = {"login", "register", "admin", "order"}
    MaxEvents = 4
SPECIFICATION Spec
SYMMETRY Interchangeable
INVARIANTS TypeOK OneAccount RightsEnd ShownUser 
CHECK_DEADLOCK FALSE
