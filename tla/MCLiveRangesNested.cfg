CONSTANTS
    MaxTokens = 7
    MaxRun = 2
    MaxDepth = 2
    Passes = 5
    Name = {x, y}
SYMMETRY Symmetry
SPECIFICATION LRSpec
INVARIANT RangesSound
CHECK_DEADLOCK FALSE
