SPECIFICATION Spec
CONSTANTS
    t1 = t1
    Global = Global
    Tenants = {t1, t2}
    Scopes = {t1, Global}
    Queries = {q1}
    TopicOf <- OneTopic
    Filters = {f1, f2}
    Requests = {r1, r2}
    MaxAsks = 3
    MaxWrites <- OneWrite
    Budget <- AllFaults
SYMMETRY ServingSymmetry
INVARIANTS
    TypeOK
    Fresh
    Isolation
    FiltersRespected
CHECK_DEADLOCK FALSE
