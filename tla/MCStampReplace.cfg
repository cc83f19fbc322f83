SPECIFICATION MCSpec
CONSTANTS
    Mixes <- ImageMixes
    Pieces <- MCPieces
    Letters <- MCLetters
    Fragments <- ImageFragments
    MaxEdits = 1
PROPERTY ReplacementIsPublished
CHECK_DEADLOCK FALSE
