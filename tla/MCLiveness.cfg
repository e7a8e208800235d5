SPECIFICATION FairSpec
CONSTANTS
    PKID_MAX = 2
    Tokens = {t1, t2}
    NoToken = NoToken
    Topics = {a}
    MaxConns = 1
    OUTGOING_CAP = 1
    MSG_CAP = 1
    LateFlush = FALSE
    CleanSession = FALSE
    MultiThread = FALSE
    Requests = {"Publish2", "Disconnect"}
    ByHand = TRUE
    MayCancel = FALSE
    AutoReconnect = TRUE
    MaxRetries = Unlimited
    Unlimited = Unlimited
    CNT_MAX = 1
    NoCall = NoCall
PROPERTIES
    LostRequestsResolve
    DeadConnectionNoticed
    BlockReacts
