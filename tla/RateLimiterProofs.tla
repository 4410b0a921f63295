-------------------------- MODULE RateLimiterProofs --------------------------
(***************************************************************************)
(* Proofs about the rate limiter: its variables keep their types, and the  *)
(* janitor only deletes full buckets (EvictOnlyFull), for every rate,     *)
(* burst and horizon with Horizon * Rate >= Burst * Scale. The inductive  *)
(* invariant says a bucket has refilled at least Rate units per tick it   *)
(* has been idle: Allow resets both its idle time and, at worst, its      *)
(* level, and every tick adds one to the first and Rate to the second.    *)
(***************************************************************************)
EXTENDS RateLimiter, TLAPS

\* The tokens a bucket idle for i ticks holds at least.
Floor(i) == IF i * Rate >= Cap THEN Cap ELSE i * Rate

\* Every stored bucket holds at least what it refilled since lastSeen.
Refilled == \A a \in present : level[a] >= Floor(idle[a])

\* An address with no stored bucket has a full one: Allow would create it
\* with burst tokens.
AbsentFull == \A a \in Addrs \ present : level[a] = Cap

LimiterInv == TypeOK /\ Refilled /\ AbsentFull

LEMMA CapNat == Cap \in Nat
  BY RateLimiterAssumption DEF Cap

\* Rate units refilled over i ticks: a natural, monotone in i, and one
\* more tick adds Rate.
LEMMA RefillNat == ASSUME NEW i \in Nat PROVE i * Rate \in Nat
  BY RateLimiterAssumption

LEMMA RefillMono ==
  ASSUME NEW i \in Nat, NEW j \in Nat, i >= j PROVE i * Rate >= j * Rate
  <1>1. (i - j) * Rate \in Nat
    BY RefillNat
  <1>2. i * Rate = j * Rate + (i - j) * Rate
    BY RateLimiterAssumption
  <1>3. QED
    BY <1>1, <1>2, RefillNat

LEMMA RefillStep ==
  ASSUME NEW i \in Nat PROVE (i + 1) * Rate = i * Rate + Rate
  BY RateLimiterAssumption

\* Taking k units from a level in 0..m that holds at least k stays in 0..m.
LEMMA TakeInRange ==
  ASSUME NEW m \in Nat, NEW x \in 0..m, NEW k \in Nat, x >= k
  PROVE  x - k \in 0..m
  OBVIOUS

\* One more success in the current slot of a window of naturals is a
\* natural (the current tick is slot 1, and a window has at least one).
LEMMA BumpNat ==
  ASSUME NEW g \in [Addrs -> [Slots -> Nat]], NEW a \in Addrs
  PROVE  g[a][1] + 1 \in Nat
  <1>1. 1 \in Slots
    BY RateLimiterAssumption DEF Slots
  <1>2. QED
    BY <1>1

LEMMA InitLimiterInv == Init => LimiterInv
  BY RateLimiterAssumption, CapNat
     DEF Init, LimiterInv, TypeOK, Refilled, AbsentFull, Slots

LEMMA NextLimiterInv == LimiterInv /\ [Next]_vars => LimiterInv'
  <1> SUFFICES ASSUME LimiterInv, [Next]_vars PROVE LimiterInv'
    OBVIOUS
  <1> USE RateLimiterAssumption, CapNat DEF LimiterInv, TypeOK, Slots
  <1>1. ASSUME NEW c \in Clients, NEW h \in Addrs \cup {NoHeader}, Allow(c, h)
        PROVE  LimiterInv'
    <2> DEFINE ip == ClientIP(c, h)
               lv == IF ip \in present THEN level[ip] ELSE Cap
    <2>1. ip \in Addrs /\ lv \in 0..Cap
      BY DEF ClientIP
    <2>2. /\ present' = present \cup {ip}
          /\ idle' = [idle EXCEPT ![ip] = 0]
          /\ timer' = timer
          /\ calls[c][1] < MaxPerTick
      BY <1>1 DEF Allow
    <2>3. ASSUME lv >= Scale PROVE TypeOK' /\ Refilled'
      <3>1. /\ level' = [level EXCEPT ![ip] = lv - Scale]
            /\ grants' = Bump(grants, ip)
            /\ calls' = Bump(calls, c)
        BY <1>1, <2>3 DEF Allow
      <3>2. level' \in [Addrs -> 0..Cap]
        <4>1. lv - Scale \in 0..Cap
          <5>1. Scale \in Nat
            BY RateLimiterAssumption
          <5>2. QED
            BY <2>1, <2>3, <5>1, CapNat, TakeInRange
        <4>2. QED
          BY <2>1, <3>1, <4>1
      <3>3. grants' \in [Addrs -> [Slots -> Nat]]
        <4>1. grants[ip][1] + 1 \in Nat
          BY <2>1, BumpNat, Zenon
        <4>2. QED
          BY <2>1, <3>1, <4>1 DEF Bump
      <3>4. calls' \in [Clients -> [Slots -> 0..MaxPerTick]]
        <4>1. calls[c][1] + 1 \in 0..MaxPerTick
          BY <2>2
        <4>2. QED
          BY <3>1, <4>1 DEF Bump
      <3>5. TypeOK'
        <4>1. present' \subseteq Addrs /\ timer' \in 0..Horizon
          BY <2>1, <2>2
        <4>2. idle' \in [Addrs -> 0..Horizon + 1]
          BY <2>1, <2>2
        <4>3. QED
          BY <3>2, <3>3, <3>4, <4>1, <4>2
      <3>6. Refilled'
        <4> SUFFICES ASSUME NEW a \in present' PROVE level'[a] >= Floor(idle'[a])
          BY DEF Refilled
        <4>1. CASE a = ip
          BY <2>1, <2>2, <2>3, <3>1, <4>1 DEF Floor
        <4>2. CASE a # ip
          BY <2>1, <2>2, <3>1, <4>2 DEF Refilled
        <4>3. QED
          BY <4>1, <4>2
      <3>7. QED
        BY <3>5, <3>6
    <2>4. ASSUME ~(lv >= Scale) PROVE TypeOK' /\ Refilled'
      <3>1. /\ level' = [level EXCEPT ![ip] = lv]
            /\ UNCHANGED <<grants, calls>>
        BY <1>1, <2>4 DEF Allow
      <3>2. TypeOK'
        <4>1. present' \subseteq Addrs /\ timer' \in 0..Horizon
          BY <2>1, <2>2
        <4>2. idle' \in [Addrs -> 0..Horizon + 1]
          BY <2>1, <2>2
        <4>3. level' \in [Addrs -> 0..Cap]
          BY <2>1, <3>1
        <4>4. QED
          BY <3>1, <4>1, <4>2, <4>3
      <3>3. Refilled'
        <4> SUFFICES ASSUME NEW a \in present' PROVE level'[a] >= Floor(idle'[a])
          BY DEF Refilled
        <4>1. CASE a = ip
          BY <2>1, <2>2, <3>1, <4>1 DEF Floor
        <4>2. CASE a # ip
          BY <2>1, <2>2, <3>1, <4>2 DEF Refilled
        <4>3. QED
          BY <4>1, <4>2
      <3>4. QED
        BY <3>2, <3>3
    <2>5. AbsentFull'
      <3> SUFFICES ASSUME NEW a \in Addrs \ present' PROVE level'[a] = Cap
        BY DEF AbsentFull
      <3>1. a # ip /\ a \in Addrs \ present
        BY <2>2
      <3>2. level'[a] = level[a]
        BY <1>1, <2>1, <3>1 DEF Allow
      <3>3. QED
        BY <3>1, <3>2 DEF AbsentFull
    <2>6. QED
      BY <2>3, <2>4, <2>5
  <1>2. CASE Tick
    <2>1. /\ timer > 0
          /\ level' = [a \in Addrs |->
                         IF level[a] + Rate > Cap THEN Cap ELSE level[a] + Rate]
          /\ idle' = [a \in Addrs |->
                        IF idle[a] > Horizon THEN idle[a] ELSE idle[a] + 1]
          /\ timer' = timer - 1
          /\ grants' = [a \in Addrs |-> [i \in Slots |->
                          IF i = 1 THEN 0 ELSE grants[a][i - 1]]]
          /\ calls' = [c \in Clients |-> [i \in Slots |->
                         IF i = 1 THEN 0 ELSE calls[c][i - 1]]]
          /\ present' = present
      BY <1>2 DEF Tick
    <2>2. TypeOK'
      BY <2>1
    <2>3. Refilled'
      <3> SUFFICES ASSUME NEW a \in present PROVE level'[a] >= Floor(idle'[a])
        BY <2>1 DEF Refilled
      <3>1. level[a] >= Floor(idle[a])
        BY DEF Refilled
      <3>2. CASE idle[a] > Horizon
        <4>0. idle[a] \in Nat /\ Horizon \in Nat /\ idle[a] >= Horizon
          BY <3>2
        <4>1. idle[a] * Rate >= Horizon * Rate
          BY <4>0, RefillMono, Zenon
        <4>2. level[a] = Cap /\ idle'[a] = idle[a]
          BY <2>1, <3>1, <3>2, <4>1 DEF Floor, Cap
        <4>3. QED
          BY <2>1, <4>2 DEF Floor
      <3>3. CASE ~(idle[a] > Horizon)
        <4>1. idle'[a] = idle[a] + 1
          BY <2>1, <3>3
        <4>2. (idle[a] + 1) * Rate = idle[a] * Rate + Rate
          BY RefillStep
        <4>3. idle[a] * Rate \in Nat
          BY RefillNat
        <4>4. QED
          BY <2>1, <3>1, <4>1, <4>2, <4>3 DEF Floor
      <3>4. QED
        BY <3>2, <3>3
    <2>4. AbsentFull'
      <3> SUFFICES ASSUME NEW a \in Addrs \ present PROVE level'[a] = Cap
        BY <2>1 DEF AbsentFull
      <3>1. level[a] = Cap
        BY DEF AbsentFull
      <3>2. QED
        BY <2>1, <3>1
    <2>5. QED
      BY <2>2, <2>3, <2>4
  <1>3. CASE DoCleanup
    <2> DEFINE stale == {a \in present : idle[a] > Horizon}
    <2>1. /\ present' = present \ stale
          /\ level' = [a \in Addrs |-> IF a \in stale THEN Cap ELSE level[a]]
          /\ idle' = [a \in Addrs |-> IF a \in stale THEN 0 ELSE idle[a]]
          /\ timer' = Horizon
          /\ UNCHANGED <<grants, calls>>
      BY <1>3 DEF DoCleanup
    <2>2. TypeOK'
      BY <2>1
    <2>3. Refilled'
      BY <2>1 DEF Refilled
    <2>4. AbsentFull'
      BY <2>1 DEF AbsentFull
    <2>5. QED
      BY <2>2, <2>3, <2>4
  <1>4. CASE UNCHANGED vars
    BY <1>4 DEF vars, Refilled, AbsentFull
  <1>5. QED
    BY <1>1, <1>2, <1>3, <1>4 DEF Next

\* The limiter's variables always have their types.
THEOREM LimiterTypeCorrect == Spec => []TypeOK
  <1>1. LimiterInv => TypeOK
    BY DEF LimiterInv
  <1>2. QED
    BY InitLimiterInv, NextLimiterInv, <1>1, PTL DEF Spec

\* A bucket the janitor would delete is full.
LEMMA InvEvictOnlyFull == LimiterInv => EvictOnlyFull
  <1> SUFFICES ASSUME LimiterInv, NEW a \in present, idle[a] > Horizon
               PROVE  level[a] = Cap
    BY DEF EvictOnlyFull
  <1>1. level[a] \in 0..Cap /\ level[a] >= Floor(idle[a])
    BY DEF LimiterInv, TypeOK, Refilled
  <1>2. idle[a] \in Nat /\ Horizon \in Nat /\ idle[a] >= Horizon
    BY RateLimiterAssumption DEF LimiterInv, TypeOK
  <1>3. idle[a] * Rate >= Horizon * Rate
    BY <1>2, RefillMono, Zenon
  <1>4. idle[a] * Rate >= Cap
    <2>1. Horizon * Rate >= Cap
      BY RateLimiterAssumption DEF Cap
    <2>2. idle[a] * Rate \in Nat /\ Horizon * Rate \in Nat
      BY <1>2, RefillNat
    <2>3. QED
      BY <1>3, <2>1, <2>2, CapNat
  <1>5. Floor(idle[a]) = Cap
    BY <1>4 DEF Floor
  <1>6. QED
    BY <1>1, <1>5, CapNat

\* doCleanup only ever deletes a bucket that Allow would recreate in the
\* same state, full: deleting idle buckets never grants a token
\* (EvictOnlyFull), for every rate, burst and horizon the assumption admits.
THEOREM EvictOnlyFullHolds == Spec => []EvictOnlyFull
  BY InitLimiterInv, NextLimiterInv, InvEvictOnlyFull, PTL DEF Spec

\* The abstract initial state: every bucket full.
LEMMA InitBuckets == Init => Buckets!Init
  BY DEF Init, Buckets!Init

\* Every step of the limiter is a step of the never-evicting buckets or
\* leaves them as they are: Allow takes a token or refuses, a tick is an
\* Elapse, and doCleanup resets only buckets that are already full.
LEMMA NextBuckets == LimiterInv /\ [Next]_vars => [Buckets!Next]_level
  <1> SUFFICES ASSUME LimiterInv, [Next]_vars PROVE [Buckets!Next]_level
    OBVIOUS
  <1> USE DEF LimiterInv, TypeOK
  <1>1. ASSUME NEW c \in Clients, NEW h \in Addrs \cup {NoHeader}, Allow(c, h)
        PROVE  [Buckets!Next]_level
    <2> DEFINE ip == ClientIP(c, h)
    <2>1. ip \in Addrs
      BY RateLimiterAssumption DEF ClientIP
    <2>2. (IF ip \in present THEN level[ip] ELSE Cap) = level[ip]
      BY <2>1 DEF AbsentFull
    <2>3. CASE level[ip] >= Scale
      <3>1. level' = [level EXCEPT ![ip] = level[ip] - Scale]
        BY <1>1, <2>2, <2>3 DEF Allow
      <3>2. Buckets!Take(ip)
        BY <2>3, <3>1 DEF Buckets!Take
      <3>3. QED
        BY <2>1, <3>2 DEF Buckets!Next
    <2>4. CASE ~(level[ip] >= Scale)
      <3>1. level' = [level EXCEPT ![ip] = level[ip]]
        BY <1>1, <2>2, <2>4 DEF Allow
      <3>2. QED
        BY <2>1, <3>1
    <2>5. QED
      BY <2>3, <2>4
  <1>2. CASE Tick
    BY <1>2 DEF Tick, Buckets!Next, Buckets!Elapse
  <1>3. CASE DoCleanup
    <2>1. EvictOnlyFull
      BY InvEvictOnlyFull
    <2>2. level' = level
      BY <1>3, <2>1 DEF DoCleanup, EvictOnlyFull
    <2>3. QED
      BY <2>2
  <1>4. CASE UNCHANGED vars
    BY <1>4 DEF vars
  <1>5. QED
    BY <1>1, <1>2, <1>3, <1>4 DEF Next

\* The janitor is invisible to callers (spec, section 4.2): every behaviour
\* of Limiter.Allow, the refill and doCleanup is a behaviour of one token
\* bucket per address that is never deleted, for every rate, burst and
\* horizon the assumption admits.
THEOREM BucketsRefined == Spec => BucketsSpec
  BY InitLimiterInv, NextLimiterInv, InitBuckets, NextBuckets, PTL
     DEF Spec, BucketsSpec, Buckets!Spec

=============================================================================
