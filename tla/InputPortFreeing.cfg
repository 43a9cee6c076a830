\* channel_unbind_user_buffer does not look at the queue: buffers are freed, and
\* slots moved, while others are linked.
SPECIFICATION Spec
CONSTANTS
    Buf = {b1, b2}
    Eos = eos
    NoBuf = nobuf
    MaxSlots = 2
    Off = {0}
    Depth = 3
    Disciplined = TRUE
    FreeWhileBusy = TRUE
    MaxUse = 3
INVARIANTS EosFlag OnePlace
SYMMETRY Symmetry
