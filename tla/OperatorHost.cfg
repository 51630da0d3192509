SPECIFICATION Spec
CONSTANTS
    MaxVersion = 2
    MaxCommands = 4
    MaxBackups = 1
    MaxFaults = 2
    MaxRows = 1
INVARIANTS TypeOK KeyOpensData   RestoreReproduces
CHECK_DEADLOCK FALSE
