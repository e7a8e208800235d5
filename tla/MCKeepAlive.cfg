SPECIFICATION FairSpec
CONSTANTS
    D = 4
    F = 2
    Cap = 2
INVARIANTS
    TypeOK
    SilenceBounded
PROPERTIES
    DeadPeerNoticed
    KeepAliveEnds
