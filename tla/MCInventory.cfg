SPECIFICATION MCSpec
CONSTANTS
    o1 = o1
    o2 = o2
    Orders = {o1, o2}
    Qty <- MCQty
    PaymentIds = {p1, p2}
    NoPaymentId = NoPaymentId
    Sweepers = {w1, w2}
    SafetyBuffer = 1
    InitialOnHand = 3
    Adjustments <- MCAdjustments
    MaxOnHand = 4
INVARIANTS
    InventoryTypeOK
    CountersMatchReservations
    NoOversell
    LedgerExplainsReservations
PROPERTIES
    ImplementsPromises
