SPECIFICATION Spec
CONSTANTS
    App = {a1}
    Dep = {d1, d2, d3}
    Sha = {c1, c2, c3}
    Slot = {s1, s2}
    None = None
    MaxStalls = 1
    MaxCrashes = 0
    Faults = {"enqueue", "github", "prepare", "clone", "build", "env", "stop", "create", "start", "publish"}
SYMMETRY Symmetry
INVARIANTS TypeOK LastSwapServes ResidueBounded 
CHECK_DEADLOCK FALSE
