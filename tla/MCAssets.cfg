SPECIFICATION Spec
CONSTANTS
    s1 = s1
    s2 = s2
    Slug = {s1, s2}
    Sha = {"h"}
    Client = {c1}
    Gc = Gc
    NoProc = NoProc
    Uploads <- MCUploads
    Ref <- MCRef
    Width = 2
    MaxSlide = 3
    Grace = 1
    MaxTime = 1
INVARIANTS
    ListedIsServed
PROPERTIES
    OwnReferenceKept
    VersionReferenceKept
    PassCollects
