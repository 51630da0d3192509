SPECIFICATION Spec
CONSTANTS
    MaxVersion = 2
    MaxCommands = 2
    MaxBackups = 0
    MaxFaults = 0
    MaxRows = 0
INVARIANTS UpdateRunsVersion
CHECK_DEADLOCK FALSE
