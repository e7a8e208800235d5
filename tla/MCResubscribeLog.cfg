SPECIFICATION Spec
CONSTANTS
    PKID_MAX = 2
    Tokens = {t1, t2}
    NoToken = NoToken
    Topics = {a}
    MaxConns = 2
    OUTGOING_CAP = 1
    MSG_CAP = 1
    LateFlush = FALSE
    CleanSession = TRUE
    MultiThread = FALSE
    Requests = {"Subscribe"}
    ByHand = FALSE
    MayCancel = FALSE
    AutoReconnect = TRUE
    MaxRetries = 1
    Unlimited = Unlimited
    CNT_MAX = 3
    NoCall = NoCall
SYMMETRY TokenSymmetry
INVARIANTS
    ResubscribeSuccess
