\* Four connections, one session: how many pairs can be spliced?
CONSTANTS
    c1 = c1  c2 = c2  c3 = c3  c4 = c4  s1 = s1  s2 = s2
    NoConn = NoConn
    BadToken = BadToken
    NoMessage = NoMessage
    Conns <- MCConns4
    Sessions <- MCSessions1
SPECIFICATION Spec
INVARIANTS PairOnce
SYMMETRY ConnSymmetry
CHECK_DEADLOCK FALSE
