SPECIFICATION Spec
CONSTANTS
    N = 5
    W = 4
    Maps <- MCMaps
    PAGE = 4
    Wrap = 80
    End = 2
    Small = 3
INVARIANTS TypeOK NoPageTwice PoolsAreUsable SummariesRight StopsForMemory StartsComplete
PROPERTIES Owned BootsUp
CHECK_DEADLOCK FALSE
