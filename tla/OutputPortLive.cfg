SPECIFICATION Spec
CONSTANTS
    Buf = {b1, b2}
    Filler = {f1}
    Bpp = bpp
    NoBuf = nobuf
    Ops = {"flush", "eos", "resize"}
    LastFrameFails = FALSE
    MaxImages = 2
    MaxEos = 2
INVARIANT EofOnce
PROPERTY FlushCompletes

