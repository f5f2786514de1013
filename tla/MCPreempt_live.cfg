SPECIFICATION FairSpec
CONSTANTS
    N = 2
    Steps = 2
    YieldEvery = 2
    EarlyTimer = FALSE
PROPERTIES
    MainRunsAgain
    FinishesOrCaught
