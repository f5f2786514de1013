SPECIFICATION Spec
CONSTANTS
    Pins <- MCPins
    Nirq = 24
    Garbage <- MCGarbage
    MaxDepth = 2
INVARIANTS TypeOK PicQuiet Gated OneEoi InterruptsOn BootIsQuiet
PROPERTIES NoDevicePreempts TimerEndsTurn
CHECK_DEADLOCK FALSE
