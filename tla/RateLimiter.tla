----------------------------- MODULE RateLimiter -----------------------------
(***************************************************************************)
(* The per-identity rate limiter of package ratelimit (bridge.go 269-362)  *)
(* in front of the rendezvous server's create and join handlers, with the *)
(* identity getClientIP derives from a request (part_005 299-319).        *)
(*                                                                         *)
(* A Limiter maps an identity to a rate.Limiter bucket (golang.org/x/time *)
(* /rate): Allow refills tokens = min(burst, tokens + elapsed * rate) and *)
(* takes one token if there is one. Time is discrete and relative: every *)
(* bucket keeps its level as of now (refilling at each tick gives the     *)
(* same level as the library's lazy refill, since the cap composes) and   *)
(* its idle time since lastSeen; the janitor's ticker counts down to its  *)
(* next sweep. Tokens are counted in 1/Scale units so that a fractional   *)
(* rate (10/60 per second) is an integer Rate per tick.                   *)
(*                                                                         *)
(* grants keeps, per identity and per calling client, the number of       *)
(* successful Allow calls in each of the last Window ticks (slot 1 is the *)
(* current tick), to state the spec's window bound.                       *)
(***************************************************************************)
EXTENDS Naturals

CONSTANTS
    Addrs,      \* addresses: the remote address of a client, or a header value
    Clients,    \* the callers; a client's remote address is itself
    NoHeader,   \* a request without X-Forwarded-For and X-Real-IP
    Scale,      \* token units per token
    Rate,       \* token units refilled per tick
    Burst,      \* bucket capacity, in tokens
    Horizon,    \* l.cleanup: the ticker period and the idle threshold, in ticks
    Window,     \* the length of the window the bound is stated over, in ticks
    MaxPerTick  \* bound on the requests of one client in one tick

ASSUME RateLimiterAssumption ==
    /\ Clients \subseteq Addrs /\ NoHeader \notin Addrs
    /\ Scale \in Nat \ {0} /\ Rate \in Nat \ {0} /\ Burst \in Nat \ {0}
    /\ Horizon \in Nat \ {0} /\ Window \in Nat \ {0} /\ MaxPerTick \in Nat
    \* the janitor's horizon is at least the time to refill a bucket
    /\ Horizon * Rate >= Burst * Scale

VARIABLES
    present,  \* the keys of l.limiters
    level,    \* the bucket's tokens now, in units
    idle,     \* ticks since client.lastSeen, capped at Horizon + 1
    timer,    \* ticks until the janitor's ticker fires
    grants,   \* identity -> successful Allow calls per tick, last Window ticks
    calls     \* client -> successful Allow calls per tick, last Window ticks

vars == <<present, level, idle, timer, grants, calls>>

Cap == Burst * Scale

Slots == 1..Window

TypeOK ==
    /\ present \subseteq Addrs
    /\ level \in [Addrs -> 0..Cap]
    /\ idle \in [Addrs -> 0..Horizon + 1]
    /\ timer \in 0..Horizon
    /\ grants \in [Addrs -> [Slots -> Nat]]
    /\ calls \in [Clients -> [Slots -> 0..MaxPerTick]]

\* getClientIP: the first X-Forwarded-For entry (or X-Real-IP) if the
\* request has one, else the remote address.
ClientIP(c, h) == IF h = NoHeader THEN c ELSE h

Init ==
    /\ present = {}
    /\ level = [a \in Addrs |-> Cap]
    /\ idle = [a \in Addrs |-> 0]
    /\ timer = Horizon
    /\ grants = [a \in Addrs |-> [i \in Slots |-> 0]]
    /\ calls = [c \in Clients |-> [i \in Slots |-> 0]]

\* Count one more success in the current slot.
Bump(f, x) == [f EXCEPT ![x][1] = @ + 1]

-----------------------------------------------------------------------------
\* Mutant: lastSeen is set only when the bucket is created.
AllowSeenOnCreate(c, h) ==
    LET ip == ClientIP(c, h)
        lv == IF ip \in present THEN level[ip] ELSE Cap IN
    /\ calls[c][1] < MaxPerTick
    /\ present' = present \cup {ip}
    /\ idle' = IF ip \in present THEN idle ELSE [idle EXCEPT ![ip] = 0]
    /\ UNCHANGED timer
    /\ IF lv >= Scale
       THEN /\ level' = [level EXCEPT ![ip] = lv - Scale]
            /\ grants' = Bump(grants, ip)
            /\ calls' = Bump(calls, c)
       ELSE /\ level' = [level EXCEPT ![ip] = lv]
            /\ UNCHANGED <<grants, calls>>

\* Mutant: Allow creates a bucket but never stores it in l.limiters.
AllowNoStore(c, h) ==
    LET ip == ClientIP(c, h)
        lv == IF ip \in present THEN level[ip] ELSE Cap IN
    /\ calls[c][1] < MaxPerTick
    /\ idle' = [idle EXCEPT ![ip] = 0]
    /\ UNCHANGED <<present, timer>>
    /\ IF lv >= Scale
       THEN /\ level' = [level EXCEPT ![ip] = lv - Scale]
            /\ grants' = Bump(grants, ip)
            /\ calls' = Bump(calls, c)
       ELSE /\ level' = [level EXCEPT ![ip] = lv]
            /\ UNCHANGED <<grants, calls>>

\* A request of client c with header value h reaches AllowCreate (or
\* AllowJoin): under l.mu the identity's bucket is found or created full,
\* lastSeen is set, and one token is taken if there is one.
Allow(c, h) ==
    LET ip == ClientIP(c, h)
        lv == IF ip \in present THEN level[ip] ELSE Cap IN
    /\ calls[c][1] < MaxPerTick
    /\ present' = present \cup {ip}
    /\ idle' = [idle EXCEPT ![ip] = 0]
    /\ UNCHANGED timer
    /\ IF lv >= Scale
       THEN /\ level' = [level EXCEPT ![ip] = lv - Scale]
            /\ grants' = Bump(grants, ip)
            /\ calls' = Bump(calls, c)
       ELSE /\ level' = [level EXCEPT ![ip] = lv]
            /\ UNCHANGED <<grants, calls>>

\* One tick passes: buckets refill up to their capacity, idle times grow,
\* the windows slide and the ticker counts down. The tick that brings the
\* ticker to zero waits for the sweep it triggers.
Tick ==
    /\ timer > 0
    /\ level' = [a \in Addrs |->
                   IF level[a] + Rate > Cap THEN Cap ELSE level[a] + Rate]
    /\ idle' = [a \in Addrs |->
                  IF idle[a] > Horizon THEN idle[a] ELSE idle[a] + 1]
    /\ timer' = timer - 1
    /\ grants' = [a \in Addrs |-> [i \in Slots |->
                    IF i = 1 THEN 0 ELSE grants[a][i - 1]]]
    /\ calls' = [c \in Clients |-> [i \in Slots |->
                   IF i = 1 THEN 0 ELSE calls[c][i - 1]]]
    /\ UNCHANGED present

\* Mutant: the sweep's threshold is time.Now().Add(l.cleanup), so every
\* bucket is older than it.
CleanupAll ==
    /\ timer = 0
    /\ present' = {}
    /\ level' = [a \in Addrs |-> Cap]
    /\ idle' = [a \in Addrs |-> 0]
    /\ timer' = Horizon
    /\ UNCHANGED <<grants, calls>>

\* cleanupLoop -> doCleanup: under l.mu, delete every bucket whose
\* lastSeen is before now - l.cleanup. A deleted bucket's state is reset
\* (it is recreated full).
DoCleanup ==
    LET stale == {a \in present : idle[a] > Horizon} IN
    /\ timer = 0
    /\ present' = present \ stale
    /\ level' = [a \in Addrs |-> IF a \in stale THEN Cap ELSE level[a]]
    /\ idle' = [a \in Addrs |-> IF a \in stale THEN 0 ELSE idle[a]]
    /\ timer' = Horizon
    /\ UNCHANGED <<grants, calls>>

Next ==
    \/ \E c \in Clients, h \in Addrs \cup {NoHeader} : Allow(c, h)
    \/ Tick
    \/ DoCleanup

Spec == Init /\ [][Next]_vars

-----------------------------------------------------------------------------
(***************************************************************************)
(* Properties.                                                             *)
(***************************************************************************)

\* Successes counted in the first n slots of a window function g.
InFirst(g, n) ==
    LET s[k \in 0..n] == IF k = 0 THEN 0 ELSE s[k - 1] + g[k] IN s[n]

\* (Spec, section 8, property 5) for every identity the limiter keys on,
\* the successful Allow calls within any span of n - 1 ticks number at
\* most burst + rate * (n - 1), across refills, idle periods and janitor
\* sweeps that delete and recreate the bucket (Limiter.Allow, doCleanup).
WindowBound ==
    \A a \in Addrs, n \in Slots :
        Scale * InFirst(grants[a], n) <= Cap + Rate * (n - 1)

\* The same bound for every calling client, whatever headers it sends.
ClientBound ==
    \A c \in Clients, n \in Slots :
        Scale * InFirst(calls[c], n) <= Cap + Rate * (n - 1)

\* The janitor only deletes full buckets: a bucket idle for longer than
\* l.cleanup has refilled, so deleting it and recreating it full on the
\* next request grants no extra token (doCleanup against Allow).
EvictOnlyFull ==
    \A a \in present : idle[a] > Horizon => level[a] = Cap

\* (Spec, section 4.2) the janitor is invisible: seen through the mapping
\* that takes a bucket's level as the abstract bucket (an address with no
\* stored bucket has level Cap, as Allow would recreate it), the limiter is
\* a set of token buckets that are never deleted. Every Allow is a Take or
\* a refusal, every tick an Elapse, and every doCleanup sweep a stutter.
Buckets == INSTANCE TokenBucket WITH
    Ids <- Addrs, Unit <- Scale, Refill <- Rate, Full <- Cap, tokens <- level

BucketsSpec == Buckets!Spec

=============================================================================
