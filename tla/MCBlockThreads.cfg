SPECIFICATION Spec
CONSTANTS
    PKID_MAX = 2
    Tokens = {t1, t2}
    NoToken = NoToken
    Topics = {a}
    MaxConns = 2
    OUTGOING_CAP = 1
    MSG_CAP = 1
    LateFlush = FALSE
    CleanSession = TRUE
    MultiThread = TRUE
    Requests = {"Subscribe", "Unsubscribe", "Disconnect"}
    ByHand = FALSE
    MayCancel = TRUE
    AutoReconnect = TRUE
    MaxRetries = 1
    Unlimited = Unlimited
    CNT_MAX = 3
    NoCall = NoCall
SYMMETRY TokenSymmetry
INVARIANTS
    HandlersAreFed
    NoLostToken
    PermitIsCurrent
    HandlersAttachedBeforeAck
PROPERTIES
    ConnectedIsSupervised
