SPECIFICATION FairSpec
CONSTANTS
    o1 = o1
    o2 = o2
    Orders = {o1, o2}
    Qty <- MCQty
    PaymentIds <- MCPaymentIds
    NoPaymentId = NoPaymentId
    Sweepers = {w1}
    SafetyBuffer = 0
    InitialOnHand = 3
    Adjustments <- MCAdjustments
    MaxOnHand = 4
    CardOrders = {o2}
    LeadRef <- OneRef
    EventKinds = {"PAYMENT_CONFIRMED", "PAYMENT_DELETED"}
    Handlers = {h1}
    MaxFaults = 1
INVARIANT SaleHasItsPaidEvent
PROPERTY HoldsEventuallyClose
CHECK_DEADLOCK FALSE
