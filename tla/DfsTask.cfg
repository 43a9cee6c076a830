\* The channel list may end empty with the task gone: the device is closed.
CONSTANTS
    c1 = c1
    c2 = c2
    None = None
    Chan <- MCChan
    Native <- MCNative
    Frames = 2
    MaxAsk = 3
SPECIFICATION FairSpec
CHECK_DEADLOCK FALSE
INVARIANTS AtWorkIsAlive ActivationIsDue StallIsTold
PROPERTIES RequestAnswered
