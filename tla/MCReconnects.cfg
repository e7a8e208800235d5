SPECIFICATION Spec
CONSTANTS
    PKID_MAX = 1
    Tokens = {t1, t2}
    NoToken = NoToken
    Topics = {a}
    MaxConns = 2
    OUTGOING_CAP = 1
    MSG_CAP = 1
    LateFlush = TRUE
    CleanSession = FALSE
    MultiThread = TRUE
    Requests = {"Publish1", "Publish2", "Subscribe", "Unsubscribe"}
    ByHand = TRUE
    MayCancel = TRUE
    AutoReconnect = TRUE
    MaxRetries = 0
    Unlimited = Unlimited
    CNT_MAX = 3
    NoCall = NoCall
SYMMETRY TokenSymmetry
INVARIANTS
    OneLiveConnection
    HandlersRemembered
PROPERTIES
    SuccessIsFinal
