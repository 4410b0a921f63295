----------------------------- MODULE RelayProofs -----------------------------
(***************************************************************************)
(* Proofs about the relay (module Relay) for every set of connections and *)
(* sessions: the type invariant, and the inductive invariant RelayInv, of  *)
(* which PendingIsLive, NoOrphanSocket and SplicePairsOpposites are parts. *)
(***************************************************************************)
EXTENDS Relay, TLAPS

-----------------------------------------------------------------------------
(* Type correctness: every step keeps each variable in its type.           *)

LEMMA InitTypeOK == Init => TypeOK
  BY ConstAssumption DEF Init, TypeOK, AuthMsg, HState

LEMMA NextTypeOK == TypeOK /\ [Next]_vars => TypeOK'
  <1> SUFFICES ASSUME TypeOK, [Next]_vars PROVE TypeOK'
    OBVIOUS
  <1> USE DEF TypeOK, AuthMsg, HState
  <1>1. ASSUME NEW c \in Conns, NEW m \in AuthMsg, Accept(c, m) PROVE TypeOK'
    BY <1>1 DEF Accept
  <1>2. ASSUME NEW c \in Conns, Hangup(c) PROVE TypeOK'
    BY <1>2 DEF Hangup
  <1>3. ASSUME NEW c \in Conns, AuthFail(c) PROVE TypeOK'
    BY <1>3 DEF AuthFail
  <1>4. ASSUME NEW c \in Conns, Register(c) PROVE TypeOK'
    BY <1>4 DEF Register, PendingRole, Claims
  <1>5. ASSUME NEW c \in Conns, PairTimeoutElapses(c) PROVE TypeOK'
    BY <1>5 DEF PairTimeoutElapses
  <1>6. ASSUME NEW c \in Conns, WaitForPair(c) PROVE TypeOK'
    BY <1>6 DEF WaitForPair, Claims
  <1>7. ASSUME NEW c \in Conns, MaxSessionElapses(c) PROVE TypeOK'
    BY <1>7 DEF MaxSessionElapses
  <1>8. ASSUME NEW c \in Conns, CopyEnds(c) PROVE TypeOK'
    BY <1>8 DEF CopyEnds
  <1>9. ASSUME NEW c \in Conns, SpliceEnds(c) PROVE TypeOK'
    BY <1>9 DEF SpliceEnds
  <1>10. CASE Cleanup
    BY <1>10 DEF Cleanup, Stale
  <1>11. CASE UNCHANGED vars
    BY <1>11 DEF vars
  <1>12. ASSUME NEW c \in Conns, ValidateRemote(c) PROVE TypeOK'
    BY <1>12 DEF ValidateRemote
  <1>13. ASSUME NEW c \in Conns, RemoteAnswer(c) PROVE TypeOK'
    BY <1>13 DEF RemoteAnswer
  <1>14. QED
    BY <1>1, <1>2, <1>3, <1>4, <1>5, <1>6, <1>7, <1>8, <1>9, <1>10, <1>11,
       <1>12, <1>13 DEF Next, HandlerStep

\* The relay's variables always have their types.
THEOREM TypeCorrect == Spec => []TypeOK
  BY InitTypeOK, NextTypeOK, PTL DEF Spec

-----------------------------------------------------------------------------
(* The inductive invariant RelayInv.                                       *)

\* A connection is parked for at most one session: its own claim's.
LEMMA PendingInjective ==
  ASSUME TypeOK, PendingIsLive,
         NEW x \in Sessions, NEW y \in Sessions,
         pending[x] # NoConn, pending[x] = pending[y]
  PROVE  x = y
  BY DEF PendingIsLive, TypeOK

LEMMA InitInv == Init => RelayInv
  BY ConstAssumption, InitTypeOK
     DEF Init, RelayInv, Bookkeeping, PendingIsLive, NoOrphanSocket,
         SplicePairsOpposites

LEMMA NextInv == RelayInv /\ [Next]_vars => RelayInv'
  <1> SUFFICES ASSUME RelayInv, [Next]_vars
               PROVE  Bookkeeping' /\ PendingIsLive' /\ NoOrphanSocket'
                      /\ SplicePairsOpposites'
    BY NextTypeOK DEF RelayInv
  <1> USE ConstAssumption DEF RelayInv, TypeOK, AuthMsg, HState
  <1>1. ASSUME NEW c \in Conns, NEW m \in AuthMsg, Accept(c, m)
        PROVE  Bookkeeping' /\ PendingIsLive' /\ NoOrphanSocket'
               /\ SplicePairsOpposites'
    <2> USE <1>1 DEF Accept
    <2>1. Bookkeeping'
      BY DEF Bookkeeping, PendingIsLive
    <2>2. PendingIsLive'
      BY DEF PendingIsLive
    <2>3. NoOrphanSocket'
      BY DEF NoOrphanSocket, IsPending
    <2>4. SplicePairsOpposites'
      <3>1. copy[c] = "idle"
        BY DEF Bookkeeping
      <3>2. \A d \in Conns : copy[d] # "idle" => peer[d] # c /\ d # c
        BY <3>1 DEF Bookkeeping
      <3>3. QED
        BY <3>2 DEF SplicePairsOpposites
    <2>5. QED
      BY <2>1, <2>2, <2>3, <2>4
  <1>2. ASSUME NEW c \in Conns, Hangup(c)
        PROVE  Bookkeeping' /\ PendingIsLive' /\ NoOrphanSocket'
               /\ SplicePairsOpposites'
    BY <1>2 DEF Hangup, Bookkeeping, PendingIsLive, NoOrphanSocket, IsPending,
                SplicePairsOpposites
  <1>3. ASSUME NEW c \in Conns, AuthFail(c)
        PROVE  Bookkeeping' /\ PendingIsLive' /\ NoOrphanSocket'
               /\ SplicePairsOpposites'
    <2> USE <1>3 DEF AuthFail
    <2>1. Bookkeeping'
      BY DEF Bookkeeping, PendingIsLive
    <2>2. PendingIsLive'
      BY DEF PendingIsLive
    <2>3. NoOrphanSocket'
      BY DEF NoOrphanSocket, IsPending
    <2>4. SplicePairsOpposites'
      BY DEF SplicePairsOpposites
    <2>5. QED
      BY <2>1, <2>2, <2>3, <2>4
  <1>4. ASSUME NEW c \in Conns, Register(c)
        PROVE  Bookkeeping' /\ PendingIsLive' /\ NoOrphanSocket'
               /\ SplicePairsOpposites'
    <2> DEFINE s == claim[c].sid
               r == claim[c].role
               p == pending[s]
    <2>0. /\ hstate[c] = "handshake"
          /\ claim[c] \in Claims
          /\ s \in Sessions /\ r \in Roles
          /\ copy[c] = "idle"
          /\ sock[c] = "open"
          /\ \A x \in Sessions : pending[x] # c
          /\ UNCHANGED <<hup, claim, deadlinePassed>>
      BY <1>4 DEF Register, Claims, Bookkeeping, PendingIsLive
    <2>1. CASE p # NoConn /\ PendingRole(s) # r
      <3> USE <2>0, <2>1
      <3>0. /\ p \in Conns /\ p # c
            /\ hstate[p] = "waiting" /\ claim[p] \in Claims
            /\ claim[p].sid = s /\ claim[p].role # r /\ copy[p] = "idle"
            /\ pending' = [pending EXCEPT ![s] = NoConn]
            /\ hstate' = [hstate EXCEPT ![c] = "splicing"]
            /\ peer' = [peer EXCEPT ![c] = p, ![p] = c]
            /\ copy' = [copy EXCEPT ![c] = "run", ![p] = "run"]
            /\ UNCHANGED <<sock, pairExpired>>
        BY <1>4 DEF Register, PendingRole, PendingIsLive, Bookkeeping
      <3>1. \A x \in Sessions : pending'[x] # NoConn =>
               /\ x # s /\ pending'[x] = pending[x]
               /\ pending[x] # c /\ pending[x] # p
        BY <3>0 DEF PendingIsLive
      <3>7. \A d \in Conns : copy[d] # "idle" =>
               /\ d \notin {c, p} /\ peer[d] \in Conns \ {c, p}
               /\ copy[peer[d]] # "idle"
        BY <3>0 DEF Bookkeeping, SplicePairsOpposites
      <3>2. Bookkeeping'
        <4>1. \A d \in Conns : copy'[d] # "idle" => copy'[peer'[d]] # "idle"
          BY <3>0, <3>7
        <4>2. \A d \in Conns : hstate'[d] \in {"idle", "handshake", "validating"} =>
                 copy'[d] = "idle"
          BY <3>0 DEF Bookkeeping
        <4>3. \A d \in Conns : hstate'[d] \in {"handshake", "validating"} =>
                 sock'[d] = "open"
          BY <3>0 DEF Bookkeeping
        <4>4. \A x \in Sessions : pending'[x] # NoConn =>
                 /\ claim'[pending'[x]] \in Claims
                 /\ copy'[pending'[x]] = "idle"
          BY <3>0, <3>1 DEF Bookkeeping
        <4>5. QED
          BY <4>1, <4>2, <4>3, <4>4 DEF Bookkeeping
      <3>3. PendingIsLive'
        BY <3>0, <3>1 DEF PendingIsLive
      <3>4. NoOrphanSocket'
        BY <3>0, <3>1 DEF NoOrphanSocket, IsPending
      <3>5. SplicePairsOpposites'
        <4> SUFFICES ASSUME NEW d \in Conns, copy'[d] # "idle"
                     PROVE  /\ peer'[d] \in Conns
                            /\ peer'[peer'[d]] = d
                            /\ claim'[d] \in Claims /\ claim'[peer'[d]] \in Claims
                            /\ claim'[d].sid = claim'[peer'[d]].sid
                            /\ claim'[d].role # claim'[peer'[d]].role
          BY DEF SplicePairsOpposites
        <4>1. CASE d = c
          BY <3>0, <4>1 DEF Claims
        <4>2. CASE d = p
          BY <3>0, <4>2 DEF Claims
        <4>3. CASE d \notin {c, p}
          <5>1. copy[d] # "idle"
            BY <3>0, <4>3
          <5>2. copy[peer[d]] # "idle" /\ peer[d] \in Conns
            BY <5>1 DEF Bookkeeping, SplicePairsOpposites
          <5>3. peer[d] \notin {c, p}
            BY <3>0, <5>2
          <5>4. peer'[d] = peer[d] /\ peer'[peer[d]] = peer[peer[d]]
            BY <3>0, <4>3, <5>2, <5>3
          <5>5. QED
            BY <5>1, <5>4 DEF SplicePairsOpposites
        <4>4. QED
          BY <4>1, <4>2, <4>3
      <3>6. QED
        BY <3>2, <3>3, <3>4, <3>5
    <2>2. CASE ~(p # NoConn /\ PendingRole(s) # r)
      <3> USE <2>0, <2>2
      <3>0. /\ sock' = IF p # NoConn THEN [sock EXCEPT ![p] = "closed"] ELSE sock
            /\ pending' = [pending EXCEPT ![s] = c]
            /\ hstate' = [hstate EXCEPT ![c] = "waiting"]
            /\ UNCHANGED <<peer, copy, pairExpired>>
            /\ p # NoConn => /\ p \in Conns /\ p # c
                             /\ hstate[p] = "waiting" /\ claim[p].sid = s
        BY <1>4 DEF Register, PendingRole, PendingIsLive
      <3>1. p # NoConn => \A x \in Sessions : x # s => pending[x] # p
        BY <3>0, PendingInjective
      <3>2. Bookkeeping'
        BY <3>0, <3>1 DEF Bookkeeping
      <3>3. PendingIsLive'
        BY <3>0, <3>1 DEF PendingIsLive
      <3>4. NoOrphanSocket'
        BY <3>0, <3>1 DEF NoOrphanSocket, IsPending
      <3>5. SplicePairsOpposites'
        BY <3>0 DEF SplicePairsOpposites
      <3>6. QED
        BY <3>2, <3>3, <3>4, <3>5
    <2>3. QED
      BY <2>1, <2>2
  <1>5. ASSUME NEW c \in Conns, PairTimeoutElapses(c)
        PROVE  Bookkeeping' /\ PendingIsLive' /\ NoOrphanSocket'
               /\ SplicePairsOpposites'
    BY <1>5 DEF PairTimeoutElapses, Bookkeeping, PendingIsLive, NoOrphanSocket,
                IsPending, SplicePairsOpposites
  <1>6. ASSUME NEW c \in Conns, WaitForPair(c)
        PROVE  Bookkeeping' /\ PendingIsLive' /\ NoOrphanSocket'
               /\ SplicePairsOpposites'
    <2> DEFINE s == claim[c].sid
    <2>0. /\ hstate[c] = "waiting"
          /\ pending' = IF pending[s] = c THEN [pending EXCEPT ![s] = NoConn]
                                          ELSE pending
          /\ hstate' = [hstate EXCEPT ![c] = "done"]
          /\ sock' = [sock EXCEPT ![c] = "closed"]
          /\ UNCHANGED <<hup, claim, peer, copy, pairExpired, deadlinePassed>>
      BY <1>6 DEF WaitForPair
    <2>1. \A x \in Sessions : pending'[x] # NoConn =>
             pending'[x] = pending[x] /\ pending[x] # c
      BY <2>0 DEF PendingIsLive
    <2>2. Bookkeeping'
      BY <2>0, <2>1 DEF Bookkeeping
    <2>3. PendingIsLive'
      BY <2>0, <2>1 DEF PendingIsLive
    <2>4. NoOrphanSocket'
      BY <2>0, <2>1 DEF NoOrphanSocket, IsPending
    <2>5. SplicePairsOpposites'
      BY <2>0 DEF SplicePairsOpposites
    <2>6. QED
      BY <2>2, <2>3, <2>4, <2>5
  <1>7. ASSUME NEW c \in Conns, MaxSessionElapses(c)
        PROVE  Bookkeeping' /\ PendingIsLive' /\ NoOrphanSocket'
               /\ SplicePairsOpposites'
    <2>0. UNCHANGED <<hstate, sock, hup, claim, pending, peer, copy, pairExpired>>
      BY <1>7 DEF MaxSessionElapses
    <2>1. QED
      BY <2>0 DEF Bookkeeping, PendingIsLive, NoOrphanSocket, IsPending,
                  SplicePairsOpposites
  <1>8. ASSUME NEW c \in Conns, CopyEnds(c)
        PROVE  Bookkeeping' /\ PendingIsLive' /\ NoOrphanSocket'
               /\ SplicePairsOpposites'
    <2>0. /\ copy[c] = "run"
          /\ copy' = [copy EXCEPT ![c] = "done"]
          /\ sock' = [sock EXCEPT ![peer[c]] = "closed"]
          /\ UNCHANGED <<hstate, hup, claim, pending, peer, pairExpired,
                         deadlinePassed>>
      BY <1>8 DEF CopyEnds
    <2>1. peer[c] \in Conns /\ copy[peer[c]] # "idle"
      BY <2>0 DEF SplicePairsOpposites, Bookkeeping
    <2>2. Bookkeeping'
      BY <2>0, <2>1 DEF Bookkeeping
    <2>3. PendingIsLive'
      BY <2>0, <2>1 DEF PendingIsLive, Bookkeeping
    <2>4. NoOrphanSocket'
      BY <2>0, <2>1 DEF NoOrphanSocket, IsPending
    <2>5. SplicePairsOpposites'
      BY <2>0 DEF SplicePairsOpposites
    <2>6. QED
      BY <2>2, <2>3, <2>4, <2>5
  <1>9. ASSUME NEW c \in Conns, SpliceEnds(c)
        PROVE  Bookkeeping' /\ PendingIsLive' /\ NoOrphanSocket'
               /\ SplicePairsOpposites'
    <2>0. /\ hstate[c] = "splicing"
          /\ hstate' = [hstate EXCEPT ![c] = "done"]
          /\ sock' = [sock EXCEPT ![c] = "closed"]
          /\ UNCHANGED <<hup, claim, pending, peer, copy, pairExpired,
                         deadlinePassed>>
      BY <1>9 DEF SpliceEnds
    <2>1. \A x \in Sessions : pending[x] # c
      BY <2>0 DEF PendingIsLive
    <2>2. QED
      BY <2>0, <2>1 DEF Bookkeeping, PendingIsLive, NoOrphanSocket, IsPending,
                        SplicePairsOpposites
  <1>10. CASE Cleanup
    <2>0. /\ sock' = [d \in Conns |->
                        IF \E x \in Stale : pending[x] = d THEN "closed" ELSE sock[d]]
          /\ pending' = [x \in Sessions |-> IF x \in Stale THEN NoConn ELSE pending[x]]
          /\ UNCHANGED <<hstate, hup, claim, peer, copy, pairExpired, deadlinePassed>>
      BY <1>10 DEF Cleanup
    <2>1. \A x \in Sessions : pending'[x] # NoConn =>
             /\ pending'[x] = pending[x]
             /\ sock'[pending[x]] = sock[pending[x]]
      <3> SUFFICES ASSUME NEW x \in Sessions, pending'[x] # NoConn
                   PROVE  /\ pending'[x] = pending[x]
                          /\ sock'[pending[x]] = sock[pending[x]]
        OBVIOUS
      <3>1. x \notin Stale /\ pending'[x] = pending[x] /\ pending[x] # NoConn
        BY <2>0
      <3>2. \A y \in Stale : pending[y] # pending[x]
        BY <3>1, PendingInjective DEF Stale
      <3>3. QED
        BY <2>0, <3>1, <3>2
    <2>2. Bookkeeping'
      <3>1. \A d \in Conns : hstate[d] \in {"handshake", "validating"} =>
               sock'[d] = sock[d]
        <4> SUFFICES ASSUME NEW d \in Conns, hstate[d] \in {"handshake", "validating"}
                     PROVE  sock'[d] = sock[d]
          OBVIOUS
        <4>1. \A x \in Sessions : pending[x] # d
          BY DEF PendingIsLive
        <4>2. ~\E x \in Stale : pending[x] = d
          BY <4>1 DEF Stale
        <4>3. QED
          BY <2>0, <4>2
      <3>2. QED
        BY <2>0, <2>1, <3>1 DEF Bookkeeping
    <2>3. PendingIsLive'
      BY <2>0, <2>1 DEF PendingIsLive
    <2>4. NoOrphanSocket'
      <3> SUFFICES ASSUME NEW d \in Conns, sock'[d] = "open"
                   PROVE  \/ hstate'[d] \in {"handshake", "validating"}
                          \/ \E x \in Sessions : pending'[x] = d
                          \/ copy'[d] # "idle"
        BY DEF NoOrphanSocket, IsPending
      <3>1. sock[d] = "open" /\ \A x \in Stale : pending[x] # d
        <4>1. ~\E x \in Stale : pending[x] = d
          BY <2>0, Zenon
        <4>2. QED
          BY <2>0, <4>1
      <3>2. CASE \E x \in Sessions : pending[x] = d
        <4>1. PICK x \in Sessions : pending[x] = d
          BY <3>2
        <4>2. x \notin Stale /\ pending'[x] = d
          BY <2>0, <3>1, <4>1
        <4>3. QED
          BY <4>2
      <3>3. CASE ~\E x \in Sessions : pending[x] = d
        BY <2>0, <3>1, <3>3 DEF NoOrphanSocket, IsPending
      <3>4. QED
        BY <3>2, <3>3
    <2>5. SplicePairsOpposites'
      BY <2>0 DEF SplicePairsOpposites
    <2>6. QED
      BY <2>2, <2>3, <2>4, <2>5
  <1>11. CASE UNCHANGED vars
    BY <1>11 DEF vars, Bookkeeping, PendingIsLive, NoOrphanSocket, IsPending,
                 SplicePairsOpposites
  <1>12. ASSUME NEW c \in Conns, ValidateRemote(c)
        PROVE  Bookkeeping' /\ PendingIsLive' /\ NoOrphanSocket'
               /\ SplicePairsOpposites'
    <2> USE <1>12 DEF ValidateRemote
    <2>1. Bookkeeping'
      BY DEF Bookkeeping, PendingIsLive
    <2>2. PendingIsLive'
      BY DEF PendingIsLive
    <2>3. NoOrphanSocket'
      BY DEF NoOrphanSocket, IsPending
    <2>4. SplicePairsOpposites'
      BY DEF SplicePairsOpposites
    <2>5. QED
      BY <2>1, <2>2, <2>3, <2>4
  <1>13. ASSUME NEW c \in Conns, RemoteAnswer(c)
        PROVE  Bookkeeping' /\ PendingIsLive' /\ NoOrphanSocket'
               /\ SplicePairsOpposites'
    <2> USE <1>13 DEF RemoteAnswer
    <2>1. Bookkeeping'
      BY DEF Bookkeeping, PendingIsLive
    <2>2. PendingIsLive'
      BY DEF PendingIsLive
    <2>3. NoOrphanSocket'
      BY DEF NoOrphanSocket, IsPending
    <2>4. SplicePairsOpposites'
      BY DEF SplicePairsOpposites
    <2>5. QED
      BY <2>1, <2>2, <2>3, <2>4
  <1>14. QED
    BY <1>1, <1>2, <1>3, <1>4, <1>5, <1>6, <1>7, <1>8, <1>9, <1>10, <1>11,
       <1>12, <1>13 DEF Next, HandlerStep

\* RelayInv holds in every reachable state of the relay.
THEOREM RelayInvariant == Spec => []RelayInv
  BY InitInv, NextInv, PTL DEF Spec

\* No open socket is orphaned by a displacement or a reaped entry, for any
\* number of connections and sessions (NoOrphanSocket, checked by TLC).
THEOREM NoOrphanSocketHolds == Spec => []NoOrphanSocket
  BY RelayInvariant, PTL DEF RelayInv

\* Every r.pending entry is a live parked connection (PendingIsLive).
THEOREM PendingIsLiveHolds == Spec => []PendingIsLive
  BY RelayInvariant, PTL DEF RelayInv

\* Every splice joins a host and a joiner of one session (SplicePairsOpposites).
THEOREM SplicePairsOppositesHolds == Spec => []SplicePairsOpposites
  BY RelayInvariant, PTL DEF RelayInv

-----------------------------------------------------------------------------
(* Refinement of Pairing. RelayInv lacks two facts the mapping needs: a   *)
(* connection gets a peer only when its copy goroutine starts, so one in  *)
(* its handshake, or parked in r.pending, has no partner yet; and a        *)
(* goroutine in waitForPair holds valid claims, so the session it looks up *)
(* is a session.                                                           *)

PeerIdle == \A c \in Conns : copy[c] = "idle" => peer[c] = NoConn

WaitingClaimed == \A c \in Conns : hstate[c] = "waiting" => claim[c] \in Claims

PairingInv == PeerIdle /\ WaitingClaimed

LEMMA InitPairingInv == Init => PairingInv
  BY DEF Init, PairingInv, PeerIdle, WaitingClaimed

LEMMA NextPairingInv == RelayInv /\ PairingInv /\ [Next]_vars => PairingInv'
  <1> SUFFICES ASSUME RelayInv, PairingInv, [Next]_vars PROVE PairingInv'
    OBVIOUS
  <1> USE DEF RelayInv, TypeOK, PairingInv, PeerIdle, WaitingClaimed
  <1>1. ASSUME NEW c \in Conns, Register(c) PROVE PairingInv'
    BY <1>1 DEF Register, PendingRole
  <1>2. ASSUME NEW c \in Conns, CopyEnds(c) PROVE PairingInv'
    BY <1>2 DEF CopyEnds
  <1>3. ASSUME NEW c \in Conns, NEW m \in AuthMsg, Accept(c, m)
        PROVE  PairingInv'
    BY <1>3 DEF Accept
  <1>4. ASSUME NEW c \in Conns,
               \/ AuthFail(c) \/ ValidateRemote(c) \/ RemoteAnswer(c)
               \/ WaitForPair(c) \/ SpliceEnds(c)
        PROVE  PairingInv'
    BY <1>4 DEF AuthFail, ValidateRemote, RemoteAnswer, WaitForPair,
                SpliceEnds
  <1>5. CASE UNCHANGED <<hstate, claim, peer, copy>>
    BY <1>5
  <1>6. QED
    BY <1>1, <1>2, <1>3, <1>4, <1>5
       DEF Next, HandlerStep, Hangup, PairTimeoutElapses, MaxSessionElapses,
           Cleanup, vars

\* A connection that is neither spliced nor waiting is free in Pairing.
LEMMA FreeWhenIdle ==
  ASSUME RelayInv, PairingInv, NEW c \in Conns,
         hstate[c] \in {"idle", "handshake"}
  PROVE  Abstract!Free(c)
  <1>1. peer[c] = NoConn
    BY DEF RelayInv, Bookkeeping, PairingInv, PeerIdle
  <1>2. \A s \in Sessions : pending[s] # c
    BY ConstAssumption DEF RelayInv, TypeOK, PendingIsLive
  <1>3. QED
    BY <1>1, <1>2 DEF Abstract!Free

LEMMA InitPairing == Init => Abstract!Init
  BY DEF Init, Abstract!Init, AuthMsg

LEMMA NextPairing ==
  RelayInv /\ PairingInv /\ [Next]_vars => [Abstract!Next]_Abstract!vars
  <1> SUFFICES ASSUME RelayInv, PairingInv, [Next]_vars
               PROVE  [Abstract!Next]_Abstract!vars
    OBVIOUS
  <1> USE DEF RelayInv, TypeOK
  <1>1. CASE UNCHANGED <<claim, pending, peer>>
    BY <1>1 DEF Abstract!vars
  <1>2. ASSUME NEW c \in Conns, NEW m \in AuthMsg, Accept(c, m)
        PROVE  Abstract!Arrive(c, m)
    BY <1>2, FreeWhenIdle DEF Accept, Abstract!Arrive
  <1>3. ASSUME NEW c \in Conns, Register(c) PROVE Abstract!Next
    <2> DEFINE s == claim[c].sid
               p == pending[s]
    <2>1. /\ hstate[c] = "handshake" /\ claim[c] \in Claims
          /\ s \in Sessions /\ Abstract!Free(c)
      BY <1>3, FreeWhenIdle DEF Register, Claims
    <2>2. CASE p # NoConn /\ PendingRole(s) # claim[c].role
      <3>1. peer[p] = NoConn
        BY <2>1, <2>2 DEF Bookkeeping, PairingInv, PeerIdle
      <3>2. Abstract!Match(c)
        BY <1>3, <2>1, <2>2, <3>1
           DEF Register, PendingRole, Abstract!Match, Claims, Roles,
               Abstract!Claims
      <3>3. QED
        BY <3>2 DEF Abstract!Next
    <2>3. CASE ~(p # NoConn /\ PendingRole(s) # claim[c].role)
      <3>1. Abstract!Park(c)
        BY <1>3, <2>1, <2>3
           DEF Register, PendingRole, Abstract!Park, Claims, Roles,
               Abstract!Claims
      <3>2. QED
        BY <3>1 DEF Abstract!Next
    <2>4. QED
      BY <2>2, <2>3
  <1>4. ASSUME NEW c \in Conns, WaitForPair(c)
        PROVE  [Abstract!Next]_Abstract!vars
    <2> DEFINE s == claim[c].sid
    <2>1. s \in Sessions
      BY <1>4 DEF WaitForPair, PairingInv, WaitingClaimed, Claims
    <2>2. CASE pending[s] = c
      <3>1. pending' = [pending EXCEPT ![s] = NoConn]
        BY <1>4, <2>2 DEF WaitForPair
      <3>2. pending' = [i \in Sessions |-> IF i \in {s} THEN NoConn
                                                    ELSE pending[i]]
        BY <3>1
      <3>3. pending[s] # NoConn
        BY <2>2, ConstAssumption
      <3>4. Abstract!Abandon({s})
        BY <1>4, <3>2, <3>3 DEF WaitForPair, Abstract!Abandon
      <3>5. QED
        BY <2>1, <3>4 DEF Abstract!Next
    <2>3. CASE pending[s] # c
      BY <1>4, <2>3 DEF WaitForPair, Abstract!vars
    <2>4. QED
      BY <2>2, <2>3
  <1>5. CASE Cleanup
    <2>1. Abstract!Abandon(Stale)
      BY <1>5 DEF Cleanup, Stale, Abstract!Abandon
    <2>2. Stale \in SUBSET Sessions
      BY DEF Stale
    <2>3. QED
      BY <2>1, <2>2 DEF Abstract!Next
  <1>6. QED
    BY <1>1, <1>2, <1>3, <1>4, <1>5
       DEF Next, HandlerStep, Abstract!Next, Hangup, AuthFail,
           ValidateRemote, RemoteAnswer, PairTimeoutElapses,
           MaxSessionElapses, CopyEnds, SpliceEnds, vars

\* The relay implements Pairing for any number of connections and sessions
\* (PairingSpec, checked by TLC on the relay_pass instance): r.pending and
\* the splice peers change only by parking, pairing with an opposite-role
\* entry of the same session, or giving parked entries up.
THEOREM PairingRefined == Spec => PairingSpec
  <1>1. Spec => [](RelayInv /\ PairingInv)
    BY RelayInvariant, InitPairingInv, NextPairingInv, PTL DEF Spec
  <1>2. QED
    BY <1>1, InitPairing, NextPairing, PTL DEF Spec, PairingSpec, Abstract!Spec

=============================================================================
