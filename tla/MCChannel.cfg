SPECIFICATION Spec
CONSTANTS
    Size = 4
    MaxCount = 9
    Frames = {f1, f2}
    Torn = Torn
INVARIANTS
    CountChain
    NoSlotRace
PROPERTIES
    IsFifo
    NeverFullForever
