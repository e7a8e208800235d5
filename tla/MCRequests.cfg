SPECIFICATION Spec
CONSTANTS
    PKID_MAX = 2
    Tokens = {t1, t2, t3}
    NoToken = NoToken
    Topics = {a}
    MaxConns = 1
    OUTGOING_CAP = 1
    MSG_CAP = 1
    LateFlush = TRUE
    CleanSession = TRUE
    MultiThread = TRUE
    Requests = {"Publish0", "Publish1", "Publish2"}
    ByHand = TRUE
    MayCancel = TRUE
    AutoReconnect = TRUE
    MaxRetries = 0
    Unlimited = Unlimited
    CNT_MAX = 3
    NoCall = NoCall
SYMMETRY TokenSymmetry
INVARIANTS
    TypeOK
    AckMatchesToken
    NoLostToken
    SuccessIsReal
