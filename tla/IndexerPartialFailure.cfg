CONSTANTS
    t1 = t1
    Tenants = {t1}
    TenantOf <- OneTenant
    Docs = {d1}
    Procs = {p1}
    Tiers = {"urgent"}
    MaxVersion = 1
    Updatable = {d1}
    Deletable = {}
    BadKinds = {}
    Budget <- EmbedFault
SPECIFICATION Spec
INVARIANTS
    StoresAgree
