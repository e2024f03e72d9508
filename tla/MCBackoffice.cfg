\* Two requests, of this administrator or of others, two renders or moves, one failure.
CONSTANTS
    me = me
    other = other
    o1 = o1
    o2 = o2
    o3 = o3
    s1 = s1
    s2 = s2
    a1 = a1
    None = None
    Me = me
    Proc = {me, other}
    Product = {1, 2}
    Option = {o1, o2, o3}
    Sku = {s1, s2}
    Order = {a1}
    Begun <- MCBegun
    Traffic <- MCTraffic
    Sections = {"orders", "products", "inventory"}
    PageSize = 1
    MaxStock = 1
    MaxChanges = 2
    MaxLoads = 4
    MaxTurns = 1
    MaxFaults = 1
    MaxEvents = 3
SPECIFICATION Spec
INVARIANTS TypeOK  OneStream
PROPERTIES Reconnects
CHECK_DEADLOCK FALSE
