SPECIFICATION Spec
CONSTANTS
    Proc = {p1}
    OrderId = {o1}
    None = None
    Option = {1}
    OptionId = {1}
    Baskets <- OneBasket
    MaxStock = 1
    Traffic = {"create", "sweep", "status"}
    AdminTargets = {"PENDING", "PAID", "SHIPPED", "DELIVERED", "CANCELLED", "EXPIRED"}
    Faults = {"abort", "gateway", "late"}
    StageOrder <- TwoStages
INVARIANTS ExpiredGaveBack
