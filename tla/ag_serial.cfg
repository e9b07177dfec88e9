SPECIFICATION Spec
CONSTANTS
    r1 = r1
    r2 = r2
    r3 = r3
    r4 = r4
    s1 = s1
    a = a
    b = b
    c = c
    Unreadable = Unreadable
    Storm = Storm
    Request = {r1, r2, r3, r4}
    Session = {s1}
    Signature = {a, b, c}
    SessionOf <- OneSession
    CallsOf <- MixedCalls
    MaxSession = 3
    MaxIdentical = 2
    TTL = 2
    Horizon = 3
    Parallel = FALSE
    Drops = TRUE
    Evicts = FALSE
INVARIANT TypeOK
INVARIANT LoopIsStopped
INVARIANT StormIsStopped
CHECK_DEADLOCK FALSE
