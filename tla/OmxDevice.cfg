\* Deadlock is not checked: every channel is used up in the end, and a close that
\* lost its place in the list holds omxvdec_mutex.
CONSTANTS
    f1 = f1
    f2 = f2
    c1 = c1
    c2 = c2
    c3 = c3
    None = None
    File <- MCFile
    Chan <- MCChan
    Secure <- MCSecure
    MaxOpen = 2
SPECIFICATION Spec
CHECK_DEADLOCK FALSE
INVARIANTS FirmwareCounted FirmwareHasPower CallbacksFindOwner CloseLeavesNothing WalkStaysOnList
SYMMETRY Symmetry
