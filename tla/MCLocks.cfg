SPECIFICATION MCSpec
CONSTANTS
    p1 = p1  p2 = p2  p3 = p3  k1 = k1  k2 = k2  k3 = k3
    Proc = {p1, p2, p3}
    Key = {k1, k2}
    Entry = {e1, e2, e3}
    NoEntry = NoEntry
    NoProc = NoProc
    Caller = {p1, p2, p3}
    AppOf <- MCAppOf
    LockKey = {k1, k2, k3}
    HashOf <- MCHashOf
    LockConns = 2
    QueryConns = 1
    NoSession = NoSession
INVARIANTS
    TypeOK
    MutualExclusion
    MapBoundedByRequests
PROPERTIES
    NoStarvation
    ImplementsLocker
    AdvisoryImplementsLocker
    LockIsServed
