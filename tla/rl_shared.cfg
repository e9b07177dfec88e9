SPECIFICATION FairSpec
CONSTANTS
    r1 = r1
    r2 = r2
    r3 = r3
    r4 = r4
    r5 = r5
    b1 = b1
    b2 = b2
    NoBucket = NoBucket
    Request = {r1, r2, r3, r4, r5}
    Bucket = {b1, b2}
    BucketOf <- MCBucketOf
    CapacityOf <- MCCapacityOf
INVARIANT TypeOK
INVARIANT WithinBudget
INVARIANT RefusedAfterLimit
PROPERTY BlockLifts
