SPECIFICATION Spec
CONSTANTS
    NULL = NULL
    k1 = k1
    t1 = t1
    t2 = t2
    Customers = {k1}
    Tenants = {t1}
    TenantOf <- OneTenant
    Staff <- StaffTwo
    Conv = {c1, c2}
    Reqs = {r1, r2, r3}
    MaxToolIter = 1
    Faults = FALSE
SYMMETRY Symmetry
INVARIANTS
    OneOpenPerCustomer
    UntaintedLockStep
    ClaimsBounded
    DroppedOnlyAfterClose
