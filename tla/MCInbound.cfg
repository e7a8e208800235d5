SPECIFICATION FairSpec
CONSTANTS
    Ids = {1,2}
    Qos0 = {z}
    Qos1 = {p}
    Qos2 = {m, n}
    NoMsg = NoMsg
    MSG_CAP = 1
    MaxConns = 2
INVARIANTS
    TypeOK
    AtMostOnce
    AcknowledgedWasHanded
PROPERTIES
    NoStaleDelivery
    ExchangeEnds
