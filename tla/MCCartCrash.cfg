\* The server process may die between two commands.
CONSTANTS
    Proc = {p1}
    CartId = {c1}
    User = {u1}
    Option = {o1}
    Quantity = {1}
    MaxUnits = 2
    Crashes = TRUE
    None = None
SPECIFICATION Spec
INVARIANT IdleCartsExpire
CHECK_DEADLOCK FALSE
