\* The release of the queue against the claim that teardown touches no freed
\* memory.
SPECIFICATION Spec
CONSTANTS
    Reader = {c1}
    Node = {n1, n2}
    Msg = {bufdone, flushed}
    WithData = {bufdone}
    Junk = Junk
    MaxPolls = 2
    MaxPosts = 2
INVARIANT NoTouchAfterRelease
CHECK_DEADLOCK FALSE
