SPECIFICATION Spec
CONSTANTS
    User = {u1, u2, u3}
    Email = {root, e1, e2}
    Root = root
    Token = {t1, t2}
    Session = {s1}
    Browser = {b1, b2}
    None = None
    Gone = Gone
    MaxAborts = 1
SYMMETRY Symmetry
INVARIANT ToldIsDeleted
CHECK_DEADLOCK FALSE
