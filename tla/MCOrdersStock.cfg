SPECIFICATION Spec
CONSTANTS
    Proc = {p1, p2, p3}
    OrderId = {o1, o2}
    None = None
    Option = {1, 2}
    OptionId = {1, 2}
    Baskets <- TwoBaskets
    MaxStock = 1
    Traffic = {"create", "status", "restock"}
    AdminTargets = {"CANCELLED"}
    Faults = {"abort"}
    StageOrder <- TwoStages
SYMMETRY Symmetric
INVARIANTS IInv NoOversell StockConserved ReturnedOnce CheckoutsDoNotDeadlock
PROPERTIES LedgerSpec
