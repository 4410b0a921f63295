\* A client that sends a forwarding header of its choice is not held to
\* the window bound (getClientIP trusts X-Forwarded-For).
CONSTANTS
    a1 = a1
    a2 = a2
    NoHeader = NoHeader
    Addrs <- MCAddrs
    Clients <- MCClients
    Scale = 2
    Rate = 1
    Burst = 2
    Horizon = 4
    Window = 3
    MaxPerTick = 3
SPECIFICATION Spec
INVARIANTS
    ClientBound
