SPECIFICATION Spec
CONSTANTS
    Leads = {l1}
    Stages = {"post_offer", "post_link"}
    Workers = {w1, w2}
    SignalChoices <- MCSignals
    MaxChanges = 1
    MaxFaults = 0
PROPERTY RiskIsNotContacted
