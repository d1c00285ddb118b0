CONSTANTS
    MaxTokens = 6
    MaxRun = 2
    MaxDepth = 1
    Passes = 5
    Name = {x, y}
SYMMETRY Symmetry
SPECIFICATION LRSpec
INVARIANT FlatRangesSound
CHECK_DEADLOCK FALSE
