SPECIFICATION MCSpec
CONSTANTS
    Workers = {"w1", "w2"}
    Leads = {"l1"}
    Tasks <- MCTasks
    Throttle = 1
    MaxInbound = 2
    MaxFaults = 0
    Orders = {"o1", "o2"}
    Buyer <- MCBuyer
    Kinds = {"received_usage", "delivery_15d"}
    Delay <- MCDelay
    Labellers = {"b1", "b2"}
    Trackers = {"h1", "h2"}
    Dispatchers = {"d1", "d2"}
    LastDay = 1
    MaxParcels = 1
    Candidates = {"i1", "i2"}
    Queues = {"team", "script"}
    Looping = {"team"}
    Reviewers = {"r1", "r2"}
    MaxReviews = 0
    MaxOutages = 0
PROPERTY
    OptedOutIsNotSummarised
CHECK_DEADLOCK FALSE
