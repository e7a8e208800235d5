SPECIFICATION Spec
CONSTANTS
    PKID_MAX = 2
    Tokens = {t1, t2}
    NoToken = NoToken
    Topics = {a, b}
    MaxConns = 3
    OUTGOING_CAP = 1
    MSG_CAP = 1
    LateFlush = FALSE
    CleanSession = TRUE
    MultiThread = FALSE
    Requests = {"Subscribe", "Disconnect"}
    ByHand = FALSE
    MayCancel = FALSE
    AutoReconnect = TRUE
    MaxRetries = Unlimited
    Unlimited = Unlimited
    CNT_MAX = 1
    NoCall = NoCall
SYMMETRY TokenSymmetry
INVARIANTS
    HandlersAreFed
    HandlersAttachedBeforeAck
