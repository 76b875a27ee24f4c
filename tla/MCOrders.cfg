SPECIFICATION MCSpec
CONSTANTS
    o1 = o1
    o2 = o2
    Orders = {o1, o2}
    Qty <- MCQty
    PaymentIds <- MCPaymentIds
    NoPaymentId = NoPaymentId
    Sweepers = {w1}
    SafetyBuffer = 0
    InitialOnHand = 2
    Adjustments <- MCAdjustments
    MaxOnHand = 4
    CardOrders = {o2}
    LeadRef <- OwnRef
    EventKinds = {"PAYMENT_CREATED", "PAYMENT_CONFIRMED", "PAYMENT_RECEIVED", "PAYMENT_REFUNDED", "PAYMENT_DELETED", "PAYMENT_BANK_SLIP_CANCELLED"}
    Handlers = {h1, h2}
    MaxFaults = 2
INVARIANTS
    LifecycleTypeOK
    FailedCallHoldsNothing
    EventAppliedOnce
    PaymentServedOrFlagged
    StatusMatchesStock
PROPERTIES
    ImplementsSales
    UsesInventory
SYMMETRY HandlerSymmetry
CHECK_DEADLOCK FALSE
