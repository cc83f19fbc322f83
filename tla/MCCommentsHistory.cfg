SPECIFICATION MCSpec
CONSTANTS
    p1 = p1
    p2 = p2
    Proc = {p1, p2}
    NoProc = NoProc
    Login = {"u1", "u2"}
    Emoji = {"thumb"}
    Anchors <- MCAnchors
    Artifacts <- MCArtifacts
    Pins <- MCPins
    Locals <- MCLocals
    Kinds = {"create", "reply", "patch_anchor", "delete", "wipe", "react", "agent", "publish"}
    MaxVersion = 2
    MaxOps = 5
    FarVersion = 999999
    VersionLatest = 1000000
    Lower <- MCLower
    AgentEmoji <- MCAgentEmoji
    Mixes <- HistoryMixes
CHECK_DEADLOCK FALSE
INVARIANTS
    UniqueIds
    NoAckedEventLost
PROPERTIES
    PastContentStable
    PublishIsNonDestructive
    AnchorsResolve
    DeletedForGood
    ReplyReactToggles
