\* Two requests at a time, any of which may die half way; the guest's key may expire at any moment.
CONSTANTS
    Proc = {p1, p2}
    CartId = {c1}
    User = {u1}
    Option = {o1, o2}
    Quantity = {1}
    MaxUnits = 2
    Crashes = TRUE
    None = None
SPECIFICATION Spec
SYMMETRY Symmetric
INVARIANT TypeOK
PROPERTIES TtlFollows LoginLosesNothing CartSpec
\* A request that would pass MaxUnits waits for ever.
CHECK_DEADLOCK FALSE
