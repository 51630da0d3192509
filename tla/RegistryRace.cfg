SPECIFICATION Spec
CONSTANTS
    App = {a1, a2}
    Slug = {x, y}
    Port = {p1, p2}
    Repo = {r1, r2}
    Branch = {main}
    Mount = {m1, m2}
    Handler = {h1, h2}
    None = None
    MaxAttempts = 2
    MaxVolumes = 2
SYMMETRY Symmetry
INVARIANTS TypeOK RefusedForGoodReason VolumesDiffer 
 
CHECK_DEADLOCK FALSE
