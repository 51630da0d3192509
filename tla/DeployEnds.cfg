SPECIFICATION FairSpec
CONSTANTS
    App = {a1}
    Dep = {d1, d2}
    Sha = {c1}
    Slot = {s1, s2}
    None = None
    MaxStalls = 1
    MaxCrashes = 1
    Faults = {"build", "remove", "create"}
PROPERTIES DeploymentsEnd ImplementsFairLifecycle
CHECK_DEADLOCK FALSE
