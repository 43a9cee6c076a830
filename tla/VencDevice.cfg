\* Every descriptor is the same number in both processes; a file can always be
\* opened or closed, so deadlock is checked.
CONSTANTS
    f1 = f1
    f2 = f2
    c1 = c1
    c2 = c2
    c3 = c3
    None = None
    File <- MCFile
    Chn <- MCChn
    Fd = {fd1}
    MaxChn = 2
    MaxMaps = 2
    MaxRefs = 3
    MaxIgnored = 1
SPECIFICATION Spec
INVARIANTS ChannelsOwned TaskSeesReceiving PowerBalanced ReferencesHeld
SYMMETRY Symmetry
