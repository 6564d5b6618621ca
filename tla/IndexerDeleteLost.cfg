CONSTANTS
    t1 = t1
    Tenants = {t1}
    TenantOf <- OneTenant
    Docs = {d1}
    Procs = {p1}
    Tiers = {"bulk"}
    MaxVersion = 1
    Updatable = {d1}
    Deletable = {d1}
    BadKinds = {}
    Budget <- NoFaults
SPECIFICATION Spec
INVARIANTS
    IndexMatchesSource
