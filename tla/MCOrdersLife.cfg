SPECIFICATION Spec
CONSTANTS
    Proc = {p1, p2, p3}
    OrderId = {o1}
    None = None
    Option = {1}
    OptionId = {1, 3}
    Baskets <- MissingOne
    MaxStock = 1
    Traffic = {"create", "sweep", "confirm", "status", "delivery"}
    AdminTargets = {"PENDING", "PAID", "SHIPPED", "DELIVERED", "CANCELLED"}
    Faults = {"abort", "gateway", "late"}
    StageOrder <- AllStages
SYMMETRY Symmetric
INVARIANTS IInv PaymentsAgree ReturnedOnce DeliveryInOrder
PROPERTIES NoChargeAfterPending LedgerSpec
