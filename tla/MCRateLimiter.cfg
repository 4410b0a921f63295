\* Every identity the limiter keys on stays within its window bound, and
\* the janitor only ever deletes full buckets.
CONSTANTS
    a1 = a1
    a2 = a2
    NoHeader = NoHeader
    Addrs <- MCAddrs
    Clients <- MCClients
    Scale = 2
    Rate = 1
    Burst = 2
    Horizon = 4
    Window = 3
    MaxPerTick = 3
SPECIFICATION Spec
INVARIANTS
    EvictOnlyFull
    WindowBound
PROPERTIES
    BucketsSpec
