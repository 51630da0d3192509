SPECIFICATION Spec
CONSTANTS
    App = {a1, a2}
    Dep = {d1, d2}
    Sha = {c1}
    Slot = {s1, s2}
    None = None
    MaxStalls = 1
    MaxCrashes = 2
    Faults = {"create", "enqueue", "prepare"}
SYMMETRY Symmetry
INVARIANTS NoStrandedRow
PROPERTIES OutcomeIsFinal ImplementsLifecycle
CHECK_DEADLOCK FALSE
