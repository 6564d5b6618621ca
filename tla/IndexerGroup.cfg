CONSTANTS
    t1 = t1
    Tenants = {t1}
    TenantOf <- OneTenant
    Docs = {d1}
    Procs = {p1, p2}
    Tiers = {"bulk"}
    MaxVersion = 2
    Updatable = {d1}
    Deletable = {d1}
    BadKinds = {}
    Budget <- GroupFaults
SPECIFICATION Spec
SYMMETRY ProcSymmetry
INVARIANTS
    IndInv
PROPERTIES
    ImplementsAuthority
