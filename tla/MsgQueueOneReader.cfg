\* One reader, as the OMX component and the test programs have; the life of
\* the queue ends with its release.
SPECIFICATION FairSpec
CONSTANTS
    Reader = {c1}
    Node = {n1, n2}
    Msg = {bufdone, flushed}
    WithData = {bufdone}
    Junk = Junk
    MaxPolls = 10
    MaxPosts = 4
INVARIANTS TypeOK NodesConserved OwnPayload FreedUnderReader
PROPERTIES ImplementsChannel DeinitCompletes
CHECK_DEADLOCK FALSE
