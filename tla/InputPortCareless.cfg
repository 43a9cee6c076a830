\* A client that submits buffers it does not own and has several flushes under
\* way at once; one node in the message queue.
SPECIFICATION Spec
CONSTANTS
    Buf = {b1, b2}
    Eos = eos
    NoBuf = nobuf
    MaxSlots = 2
    Off = {0, 1}
    Depth = 1
    Disciplined = FALSE
    FreeWhileBusy = FALSE
    MaxUse = 2
INVARIANTS LinkedOnce
SYMMETRY Symmetry
