SPECIFICATION FairSpec
CONSTANTS
    Leads = {l1}
    Stages = {"post_offer"}
    Workers = {w1, w2}
    SignalChoices <- MCSignals
    MaxChanges = 1
    MaxFaults = 1
PROPERTY ScheduledIsTakenUp
