\* One request at a time, whose transaction may be rolled back; the gateway always answers.
SPECIFICATION Spec
CONSTANTS
    Proc = {p1}
    OrderId = {o1}
    None = None
    Option = {1}
    OptionId = {1}
    Baskets <- OneBasket
    MaxStock = 1
    Traffic = {"create", "confirm", "status"}
    AdminTargets = {"PAID", "SHIPPED", "CANCELLED"}
    Faults = {"abort"}
    StageOrder <- TwoStages
INVARIANTS RevenueIsCharged
