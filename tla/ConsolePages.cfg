SPECIFICATION Spec
CONSTANTS
    Conn = {k1, k2}
    Inst = {i1, i2}
    None = None
    Size <- MCSize
    MaxShells = 1
SYMMETRY Symmetry
INVARIANTS TypeOK PagesInOrder  RepoOfItsInstallation 
CHECK_DEADLOCK FALSE
