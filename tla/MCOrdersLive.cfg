SPECIFICATION SweptSpec
CONSTANTS
    Proc = {p1, p2}
    OrderId = {o1, o2}
    None = None
    Option = {1, 2}
    OptionId = {1, 2}
    Baskets <- Crossing
    MaxStock = 1
    Traffic = {"create", "sweep", "confirm", "status"}
    AdminTargets = {"CANCELLED"}
    Faults = {"gateway"}
    StageOrder <- TwoStages
PROPERTIES RequestsAnswered OverdueLeavesPending
