SPECIFICATION FairSpec
CONSTANTS
    Conn = {c1, c2}
    Site = {s1}
    MaxWrites = 2
    MaxDeaths = 1
    Faults = {"io", "reload", "timeout", "power"}
INVARIANTS TypeOK NeverPartial TempsCleaned
PROPERTIES ReloadTakesEffect ImplementsSiteStore
CHECK_DEADLOCK FALSE
