SPECIFICATION MCSpec
CONSTANTS
    Workers = {"w1", "w2"}
    Leads = {"l1"}
    Tasks <- MCTasks
    Throttle = 2
    MaxInbound = 4
    MaxFaults = 1
    Orders = {"o1", "o2"}
    Buyer <- MCBuyer
    Kinds = {"received_usage", "delivery_15d"}
    Delay <- MCDelay
    Labellers = {"b1", "b2"}
    Trackers = {"h1", "h2"}
    Dispatchers = {"d1", "d2"}
    LastDay = 1
    MaxParcels = 2
    Candidates = {"i1", "i2"}
    Queues = {"team", "script"}
    Looping = {"team"}
    Reviewers = {"r1", "r2"}
    MaxReviews = 3
    MaxOutages = 1
INVARIANTS
    RecordsTypeOK
    DeliveryIsFollowedUp
    FollowupSentOnce
    OptOutPurgesMemory
PROPERTY
    PromotionOverwritesApproval
CHECK_DEADLOCK FALSE
