SPECIFICATION FairSpec
CONSTANTS
    r1 = r1
    r2 = r2
    r3 = r3
    Request = {r1, r2, r3}
    acme = "acme"
    Zero = "zero"
    Nothing = Nothing
    Registered <- MCRegistered
    Letter <- MCLetter
    NoHint = NoHint
    Chunk = 10
    ScanLimit = 50
    Arrivals <- MCArrivals
    Permits = 1
    Seconds = 1
    Production = TRUE
INVARIANTS
    OneTenant
    StatusIsEarned
PROPERTIES
    PermitsReturn
CHECK_DEADLOCK FALSE
