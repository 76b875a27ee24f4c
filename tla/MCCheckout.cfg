SPECIFICATION MCSpec
CONSTANTS
    Workers = {"w1", "w2"}
    Turns <- MCTurns
    Messages <- MCMessages
    Fallback = {"city"}
    MaxQuantity = 2
    MaxCheckoutAttempts = 2
    EscalationThreshold = 2
    MaxMessages = 4
    MaxToolCalls = 2
    MaxFaults = 1
INVARIANTS
    SessionTypeOK
    OverlapBounded
    FieldsAreKept
    OneChargePerCollection
    ChargesWhatWasAnnounced
    AddressLoopBounded
CHECK_DEADLOCK FALSE
