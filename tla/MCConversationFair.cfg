SPECIFICATION FairSpec
CONSTANTS
    NULL = NULL
    k1 = k1
    t1 = t1
    t2 = t2
    Customers = {k1}
    Tenants = {t1, t2}
    TenantOf <- OneTenant
    Staff <- StaffOne
    Conv = {c1, c2}
    Reqs = {r1, r2}
    MaxToolIter = 1
    Faults = TRUE
PROPERTIES
    TenantIsolation
    FallbackReachesQueue
