SPECIFICATION FairSpec
CONSTANTS
    PKID_MAX = 2
    Tokens = {t1, t2}
    NoToken = NoToken
    Topics = {a}
    MaxConns = 1
    OUTGOING_CAP = 1
    MSG_CAP = 1
    LateFlush = TRUE
    CleanSession = TRUE
    MultiThread = TRUE
    Requests = {"Publish1", "Subscribe"}
    ByHand = TRUE
    MayCancel = FALSE
    AutoReconnect = FALSE
    MaxRetries = 1
    Unlimited = Unlimited
    CNT_MAX = 1
    NoCall = NoCall
PROPERTIES
    LostRequestsResolve
