CONSTANTS
    p1 = p1  p2 = p2
    Proc = {p1, p2}
    NoProc = NoProc
    User = {"a", "u", "v"}
    Creator = "a"
    Asked = {"reader", "commenter", "writer", "admin"}
    Legacy <- MCLegacy
    MaxOps = 3
    MaxFaults = 1
    Token = {"t"}
    Prober = {1, 2}
    Info = {"none", "visible"}
    Ttl = 2
    Timeout = 2
    MaxClock = 6
    Mixes <- GapMixes
SPECIFICATION MCSpec
CHECK_DEADLOCK FALSE
INVARIANT GapGrantsSurvive
