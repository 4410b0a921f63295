\* Three connections for one session: pairing, displacement, timeouts.
CONSTANTS
    c1 = c1  c2 = c2  c3 = c3  c4 = c4  s1 = s1  s2 = s2
    NoConn = NoConn
    BadToken = BadToken
    NoMessage = NoMessage
    Conns <- MCConns3
    Sessions <- MCSessions1
SPECIFICATION Spec
INVARIANTS PendingIsLive NoOrphanSocket SplicePairsOpposites
PROPERTIES HandlerReturns PairingSpec
CHECK_DEADLOCK FALSE
