SPECIFICATION Spec
CONSTANTS
    Buf = {b1, b2}
    Filler = {f1, f2}
    Bpp = bpp
    NoBuf = nobuf
    Ops = {"flush", "eos", "pause", "refill", "next", "resize"}
    LastFrameFails = TRUE
    MaxImages = 2
    MaxEos = 1
INVARIANTS TypeOK UseCount OnePlace FlushAnsweredOnce PauseAnsweredOnce
PROPERTIES FlushAnsweredIsDone
SYMMETRY Symmetry
