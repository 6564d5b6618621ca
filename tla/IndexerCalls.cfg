CONSTANTS
    t1 = t1
    Tenants = {t1}
    TenantOf <- OneTenant
    Docs = {d1, d2}
    Procs = {p1}
    Tiers = {"urgent"}
    MaxVersion = 2
    Updatable = {d1}
    Deletable = {d1}
    BadKinds = {"refused"}
    Budget <- CallFaults
SPECIFICATION Spec
INVARIANTS
    TypeOK
    CommittedSettled
    QdrantNeverAhead
    GuardBelowAuthority
    StoresAgreeUndisturbed
    WritesAnnounced
