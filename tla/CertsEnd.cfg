SPECIFICATION FairSpec
CONSTANTS
    Host = {h1}
    App = {a1}
    Req = {r1}
    Slot = {s1}
    Acme = Acme
    None = None
    MaxAdds = 2
    MaxQueue = 2
    MaxStalls = 1
    MaxCrashes = 1
    Faults = {"helper", "timeout", "certbot", "record", "enqueue", "dns"}
INVARIANTS TypeOK TlsHasCert  NoStrandedDomain
PROPERTIES PendingEnds ImplementsDomainLifecycle
CHECK_DEADLOCK FALSE
