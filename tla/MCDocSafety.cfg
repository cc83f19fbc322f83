SPECIFICATION MCSpec
CONSTANTS
    p1 = p1
    p2 = p2
    e1 = e1
    e2 = e2
    e3 = e3
    alice = alice
    bob = bob
    s1 = s1
    s2 = s2
    NoProc = NoProc
    Proc = {p1, p2}
    Uid = {alice, bob}
    Space = {s1, s2}
    Edit = {e1, e2, e3}
    Asset = {a1, a2}
    MaxVersion = 3
    Attempts = 2
    Mixes <- SafetyMixes
    Request <- MCRequests
SYMMETRY Symmetry
INVARIANTS
    TypeOK
    AckedVersionsKept
    NoOneSidedDelete
    RegistrationIsCurrent
PROPERTIES
    MetadataGoesLast
    AutoVersionIsFresh
    NoLostUpdate
    DraftKept
    IdentityKept
