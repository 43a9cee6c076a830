SPECIFICATION FairSpec
CONSTANTS
    Buf = {b1, b2, b3}
    Eos = eos
    NoBuf = nobuf
    MaxSlots = 3
    Off = {0}
    Depth = 4
    Disciplined = TRUE
    FreeWhileBusy = FALSE
    MaxUse = 4
INVARIANTS UseCount OnePlace FlushAnsweredOnce
PROPERTIES AnsweredFlushIsDone PacketsInOrder FlushCompletes
