SPECIFICATION Spec
CONSTANTS
    Buf = {b1, b2, b3}
    Filler = {f1, f2}
    Bpp = bpp
    NoBuf = nobuf
    Ops = {"pause", "stop"}
    LastFrameFails = FALSE
    MaxImages = 5
    MaxEos = 0
INVARIANTS LentAccounted
SYMMETRY Symmetry
