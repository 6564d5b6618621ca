CONSTANTS
    t1 = t1
    Tenants = {t1}
    TenantOf <- OneTenant
    Docs = {d1}
    Procs = {p1}
    Tiers = {"urgent", "bulk"}
    MaxVersion = 2
    Updatable = {d1}
    Deletable = {}
    BadKinds = {"invalid", "refused"}
    Budget <- LiveFaults
SPECIFICATION FairSpec
INVARIANTS
    IndexMatchesSource
    CommittedDeadLettered
PROPERTIES
    PublishedIsIndexed
    LanesDrain
