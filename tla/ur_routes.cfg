SPECIFICATION FairSpec
CONSTANTS
    r1 = r1
    r2 = r2
    r3 = r3
    t1 = t1
    t2 = t2
    k1 = k1
    k2 = k2
    k3 = k3
    Tenant = {t1, t2}
    Alias = {k1, k2, k3}
    TenantOf <- MCTenantOf
    Request = {r1, r2, r3}
    Streaming = {r1}
    Route <- MCRoute
    Unbuildable <- MCUnbuildable
INVARIANT InOrder
INVARIANT TriedOnce
INVARIANT ErrorIsEarned
INVARIANT OpenIsEarned
INVARIANT AttemptsBounded
PROPERTY WalksItsRoute
PROPERTY EveryRequestEnds
CHECK_DEADLOCK FALSE
