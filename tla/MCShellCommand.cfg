SPECIFICATION FairSpec
CONSTANTS
    Leader = leader
    Kids = {k1, k2}
    Streams = {stdout, stderr}
INVARIANTS
    NothingLeftRunning
    OutputIsComplete
    NoReaderLeft
PROPERTIES
    DetachedReaderEnds
    CommandEnds
