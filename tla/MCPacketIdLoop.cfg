SPECIFICATION Spec
CONSTANTS
    PKID_MAX = 3
    Tokens = {t1, t2, t3, t4}
    NoToken = NoToken
    Panic = Panic
INVARIANTS
    TypeOK
    ScanInv
PROPERTIES
    DroppedTokensAreResolved
    GetIdReturns
    RefinesAllocator
