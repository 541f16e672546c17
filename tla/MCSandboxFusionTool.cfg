SPECIFICATION SandboxSpec
CONSTANTS
    a = a
    b = b
    c1 = c1
    c2 = c2
    c3 = c3
    c4 = c4
    c5 = c5
    Tools = {a, b}
    Calls = {c1, c2, c3, c4, c5}
    ToolOf <- MCToolOf
    NumWorkers = 2
    RateLimitOf <- MCRateLimitOf
    None = None
INVARIANT RateLimited
PROPERTY Served
CHECK_DEADLOCK FALSE
