SPECIFICATION Spec
CONSTANTS
    r1 = r1
    r2 = r2
    r3 = r3
    r4 = r4
    s1 = s1
    a = a
    b = b
    c = c
    Unreadable = Unreadable
    Storm = Storm
    Request = {r1, r2, r3, r4}
    Session = {s1}
    Signature = {a, b, c}
    SessionOf <- OneSession
    CallsOf <- SameCall
    MaxSession = 4
    MaxIdentical = 1
    TTL = 2
    Horizon = 2
    Parallel = TRUE
    Drops = TRUE
    Evicts = TRUE
PROPERTY BansEnd
CHECK_DEADLOCK FALSE
