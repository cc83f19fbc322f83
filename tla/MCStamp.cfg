SPECIFICATION MCSpec
CONSTANTS
    Mixes <- StampMixes
    Pieces <- MCPieces
    Letters <- MCLetters
    Fragments <- MCFragments
    MaxEdits = 1
INVARIANTS
    OneReading
    IndexIsServed
PROPERTIES
    RestampIsStable
    StampingKeepsTheTree
    ReplacementIsPublished
CHECK_DEADLOCK FALSE
