CONSTANTS
    MaxTokens = 7
    MaxRun = 1
    MaxDepth = 3
    Passes = 5
SPECIFICATION ExecSpec
INVARIANTS
    TypeOK
    PlainTargetsEmitted
    ReturnsWhenChecked
    LiveKept
    OrderIrrelevant
    StopsWhereSourceDoes
PROPERTIES
    FollowsSource
    KeepsMoving
CHECK_DEADLOCK FALSE
