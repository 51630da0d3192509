SPECIFICATION Spec
CONSTANTS
    App = {a1}
    Dep = {d1, d2}
    Sha = {c1}
    Slot = {s1, s2}
    None = None
    MaxStalls = 1
    MaxCrashes = 0
    Faults = {"start"}
INVARIANTS FailureKeepsOld
CHECK_DEADLOCK FALSE
