SPECIFICATION MCSpec
CONSTANTS
    w1 = w1
    w2 = w2
    t1 = t1
    t2 = t2
    o1 = o1
    o2 = o2
    l1 = l1
    g = g
    r3 = r3
    r4 = r4
    Workers = {w1, w2}
    Tenants = {t1, t2}
    Callers <- MCCallers
    Numbers <- MCNumbers
    Messages <- MCMessages
    MaxAttempts = 2
    EnqueueAttempts = 2
    EarlyLimit = 1
    MidLimit = 2
    FullLimit = 3
    FirstDay = 3
    LastDay = 4
    MaxFaults = 3
    Orders = {o1, o2}
    Leads = {l1}
    LeadOf <- MCLeadOf
    Due <- MCDue
    Pollers <- MCPollers
    Lookahead = 1
    Reporters <- MCReporters
    Group = g
    ReportOf <- MCReportOf
    Desks <- MCDesks
    Reply = reply
    MaxReplies = 4
INVARIANTS
    ToolTypeOK
    OneInFlightPerNumber
    WarmUpOverrunBounded
    CopiesExplained
    ReminderOnce
    LateRemindersBounded
    ReportOncePerDay
    TakenDayIsReported
CHECK_DEADLOCK FALSE
