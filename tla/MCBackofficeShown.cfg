\* One administrator at the orders or the stock: one render, one action, nothing fails.
CONSTANTS
    me = me
    other = other
    o1 = o1
    o2 = o2
    o3 = o3
    s1 = s1
    s2 = s2
    a1 = a1
    None = None
    Me = me
    Proc = {me}
    Product = {1}
    Option = {o1}
    Sku = {s1}
    Order = {a1}
    Begun <- MCBegun
    Traffic <- MCTraffic
    Sections = {"orders", "inventory"}
    PageSize = 1
    MaxStock = 1
    MaxChanges = 1
    MaxLoads = 4
    MaxTurns = 1
    MaxFaults = 0
    MaxEvents = 2
SPECIFICATION Spec
INVARIANT ConnectedShows
CHECK_DEADLOCK FALSE
