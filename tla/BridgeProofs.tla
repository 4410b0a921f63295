----------------------------- MODULE BridgeProofs -----------------------------
(***************************************************************************)
(* Proofs about the bridge: its variables keep their types, a copy loop   *)
(* returns only once both connections are closed (DoneMeansClosed), the  *)
(* byte counters run ahead of the chunks written by at most the one chunk  *)
(* of a failed write (CountsMatchWrites), for every MaxChunks; and b.state *)
(* follows the spec's transition table (BridgeStatesRefined).              *)
(*                                                                         *)
(* The inductive invariant adds:                                           *)
(*  - Accounting: every chunk a loop read has been counted, and it has     *)
(*    delivered at most what it counted (this bounds the counters);       *)
(*  - Stopped: once stopCh is closed the caller is in its select, waits   *)
(*    for the game or the loops, or has returned, so nothing dials a      *)
(*    connection or sets the state again;                                 *)
(*  - SelectCli: only runHost / runJoin reach the select, whose cancel    *)
(*    case returns with the loops still running;                          *)
(*  - LauncherStopsBridge: the launcher has returned only with both loops *)
(*    idle or done, so Close after the game exits reaches no running loop *)
(*    once the launcher is back at its menu.                              *)
(***************************************************************************)
EXTENDS Bridge, TLAPS

Accounting ==
    \A d \in Dirs :
        /\ counter[d] + avail[Src[d]] = sent[Src[d]]
        /\ delivered[d] <= counter[d]
        /\ loop[d] = "write" => delivered[d] < counter[d]

\* Where the caller is once ConnectRelay has started the loops.
Late == {"select", "gamewait", "drain", "exit"}

Started == \A d \in Dirs : loop[d] # "idle" => main \in Late

SelectCli == main = "select" => mode = "cli"

LauncherStopsBridge ==
    (mode = "launcher" /\ main = "exit") =>
        \A d \in Dirs : loop[d] \in {"idle", "done"}

Stopped ==
    stopped =>
        /\ main \in Late
        /\ state = "StateDisconnected"
        /\ \A s \in Socks : conn[s] # "open"

BridgeInv ==
    /\ TypeOK /\ Accounting /\ Started /\ Stopped
    /\ DoneMeansClosed /\ SelectCli /\ LauncherStopsBridge

\* What one Close step leaves behind, from any state of the invariant.
LEMMA CloseEffect ==
  ASSUME BridgeInv, Close, main \in Late
  PROVE  /\ stopped' = TRUE
         /\ state' = "StateDisconnected"
         /\ conn' \in [Socks -> {"nil", "open", "closed"}]
         /\ \A s \in Socks : conn'[s] # "open"
  <1>1. CASE stopped
    BY <1>1 DEF Close, CloseVars, BridgeInv, TypeOK, Stopped
  <1>2. CASE ~stopped
    BY <1>2 DEF Close, CloseEnd, BridgeInv, TypeOK
  <1>3. QED
    BY <1>1, <1>2

LEMMA InitBridgeInv == Init => BridgeInv
  <1> SUFFICES ASSUME Init PROVE BridgeInv
    OBVIOUS
  <1>1. TypeOK
    <2>1. main \in MainPCs /\ state \in States
      BY DEF Init, MainPCs, States
    <2>2. /\ conn \in [Socks -> {"nil", "open", "closed"}]
          /\ peer \in [Socks -> {"open", "eof", "reset"}]
          /\ avail \in [Socks -> 0..MaxChunks]
          /\ sent \in [Socks -> 0..MaxChunks]
      BY BridgeAssumption DEF Init
    <2>3. /\ loop \in [Dirs -> {"idle", "check", "read", "write", "done"}]
          /\ counter \in [Dirs -> 0..MaxChunks]
          /\ delivered \in [Dirs -> 0..MaxChunks]
      BY BridgeAssumption DEF Init
    <2>4. QED
      BY <2>1, <2>2, <2>3 DEF Init, TypeOK
  <1>2. Accounting
    BY DEF Init, Accounting, Src, Socks, Dirs
  <1>3. Started /\ Stopped /\ DoneMeansClosed /\ SelectCli
        /\ LauncherStopsBridge
    BY DEF Init, Started, Stopped, DoneMeansClosed, SelectCli,
           LauncherStopsBridge
  <1>4. QED
    BY <1>1, <1>2, <1>3 DEF BridgeInv

\* A step that leaves the bridge's close state, the loops, the counters and
\* the mode alone, and the state and the connections too once stopCh is
\* closed; the caller stays late once the loops run, enters the select
\* only from itself, and returns only with the loops idle or done.
LEMMA QuietStep ==
  ASSUME BridgeInv, TypeOK',
         UNCHANGED <<stopped, loop, counter, delivered, avail,
                     sent, mode>>,
         stopped => UNCHANGED <<state, conn>> /\ main' \in Late,
         \A d \in Dirs : loop[d] # "idle" => main' \in Late,
         main' = "select" => main = "select",
         main' = "exit" =>
             main = "exit" \/ \A d \in Dirs : loop[d] \in {"idle", "done"}
  PROVE  BridgeInv'
  BY DEF BridgeInv, Accounting, Started, Stopped, DoneMeansClosed,
         SelectCli, LauncherStopsBridge

\* A step of the caller before the loops run, which does not reach the
\* select.
LEMMA EarlyStep ==
  ASSUME BridgeInv, TypeOK',
         main \notin Late, main' # "select",
         UNCHANGED <<stopped, loop, counter, delivered, avail,
                     sent, mode>>
  PROVE  BridgeInv'
  <1>1. ~stopped /\ \A d \in Dirs : loop[d] = "idle"
    BY DEF BridgeInv, Stopped, Started, TypeOK, Late
  <1>2. QED
    BY <1>1, QuietStep

LEMMA NextBridgeInv == BridgeInv /\ [Next]_vars => BridgeInv'
  <1> SUFFICES ASSUME BridgeInv, [Next]_vars PROVE BridgeInv'
    OBVIOUS
  <1> USE BridgeAssumption
  <1>1. CASE Start \/ LauncherStart \/ ProbeTimeout \/ ProbeReady
    BY <1>1, EarlyStep DEF Start, LauncherStart, ProbeTimeout, ProbeReady,
                           Fixed, Env, BridgeInv, TypeOK, MainPCs, Returned,
                           States, Late
  <1>2. CASE CreateSession \/ JoinSession
    BY <1>2, EarlyStep DEF CreateSession, JoinSession, Failed, Fixed, Env,
                           BridgeInv, TypeOK, MainPCs, Returned, Late
  <1>3. CASE RelayConnect \/ LaunchGame \/ GameListening
    <2>1. CASE RelayConnect
      BY <2>1, EarlyStep DEF RelayConnect, Fixed, Env, BridgeInv, TypeOK,
                             MainPCs, Returned, Late, Socks
    <2>2. CASE LaunchGame
      <3>1. main = "launch" /\ main' \in {"listen", "exit"}
        BY <2>2 DEF LaunchGame
      <3>2. UNCHANGED <<stopped, loop, counter, delivered, avail,
                        sent, mode>>
        BY <2>2 DEF LaunchGame, Fixed, Env
      <3>3. TypeOK'
        BY <2>2, <3>1 DEF LaunchGame, Fixed, Env, BridgeInv, TypeOK, MainPCs,
                          Returned, Socks
      <3>4. QED
        BY <3>1, <3>2, <3>3, EarlyStep DEF Late
    <2>3. CASE GameListening
      BY <2>3, EarlyStep DEF GameListening, Fixed, Env, BridgeInv, TypeOK,
                             MainPCs, Late
    <2>4. QED
      BY <1>3, <2>1, <2>2, <2>3
  <1>4. CASE ConnectRelay
    <2>1. ~stopped /\ main = "bridge" /\ \A d \in Dirs : loop[d] = "idle"
      BY <1>4 DEF ConnectRelay, BridgeInv, Stopped, Started, TypeOK, Late
    <2>2. UNCHANGED <<stopped, counter, delivered, avail, sent,
                      mode>>
      BY <1>4 DEF ConnectRelay, Fixed, Env
    <2>3. TypeOK'
      BY <1>4 DEF ConnectRelay, Fixed, Env, BridgeInv, TypeOK, MainPCs,
                  Returned, States, Socks, Dirs
    <2>4. \/ /\ main' = IF mode = "cli" THEN "select" ELSE "gamewait"
             /\ loop' = [d \in Dirs |-> "check"]
          \/ main' = "exit" /\ UNCHANGED loop
      BY <1>4 DEF ConnectRelay
    <2>5. QED
      BY <2>1, <2>2, <2>3, <2>4
         DEF BridgeInv, Accounting, Started, Stopped,
             DoneMeansClosed, SelectCli, LauncherStopsBridge, Late
  <1>5. CASE SelectCancel \/ GameExitSeen
    <2>1. \/ main = "select" /\ mode = "cli" /\ main' = "exit"
          \/ main = "gamewait" /\ main' = "drain"
      BY <1>5 DEF SelectCancel, GameExitSeen, BridgeInv, SelectCli
    <2>2. /\ stopped' = TRUE
          /\ state' = "StateDisconnected"
          /\ conn' \in [Socks -> {"nil", "open", "closed"}]
          /\ \A s \in Socks : conn'[s] # "open"
      BY <1>5, <2>1, CloseEffect DEF SelectCancel, GameExitSeen, Late
    <2>3. UNCHANGED <<launched, loop, counter, delivered>>
          /\ UNCHANGED <<Fixed, Env>>
      BY <1>5 DEF SelectCancel, GameExitSeen
    <2>4. QED
      BY <2>1, <2>2, <2>3
         DEF Fixed, Env, BridgeInv, TypeOK, MainPCs, Returned, States,
             Accounting, Started, Stopped, DoneMeansClosed,
             SelectCli, LauncherStopsBridge, Late
  <1>6. CASE SelectDone \/ Drain
    <2>1. main \in {"select", "drain"} /\ main' = "exit"
          /\ \A d \in Dirs : loop[d] = "done"
      BY <1>6 DEF SelectDone, Drain
    <2>2. QED
      BY <1>6, <2>1, QuietStep
         DEF SelectDone, Drain, Fixed, Env, BridgeInv, TypeOK, MainPCs,
             Returned, Late
  <1>7. ASSUME NEW d \in Dirs, Check(d) PROVE BridgeInv'
    BY <1>7 DEF Check, Fixed, Env, BridgeInv, TypeOK, Accounting, Started,
                Stopped, DoneMeansClosed, SelectCli,
                LauncherStopsBridge
  <1>8. ASSUME NEW d \in Dirs, Read(d) PROVE BridgeInv'
    <2> DEFINE s == Src[d]
    <2>1. s \in Socks /\ loop[d] = "read" /\ main \in Late
      BY <1>8 DEF Read, Src, Socks, Dirs, BridgeInv, Started
    <2>2. UNCHANGED <<main, launched, delivered, peer, sent, gameUp,
                      deadline, cancelled, exited>>
          /\ UNCHANGED Fixed
      BY <1>8 DEF Read
    <2>3. \A e \in Dirs : e # d => Src[e] # s
      BY DEF Src, Dirs
    <2>4. ~(mode = "launcher" /\ main = "exit")
      BY <2>1 DEF BridgeInv, LauncherStopsBridge
    <2>5. CASE /\ conn[s] = "open" /\ avail[s] > 0
               /\ avail' = [avail EXCEPT ![s] = @ - 1]
               /\ counter' = [counter EXCEPT ![d] = @ + 1]
               /\ loop' = [loop EXCEPT ![d] = "write"]
               /\ UNCHANGED CloseVars
      <3>1. TypeOK'
        BY <2>1, <2>2, <2>5 DEF CloseVars, Fixed, BridgeInv, TypeOK,
                                Accounting
      <3>2. Accounting'
        BY <2>1, <2>2, <2>3, <2>5 DEF BridgeInv, TypeOK, Accounting
      <3>3. QED
        BY <2>1, <2>2, <2>4, <2>5, <3>1, <3>2
           DEF CloseVars, Fixed, BridgeInv, Started, Stopped,
               DoneMeansClosed, SelectCli, LauncherStopsBridge
    <2>6. CASE /\ conn[s] = "closed" \/ (avail[s] = 0 /\ peer[s] # "open")
               /\ Close
               /\ loop' = [loop EXCEPT ![d] = "done"]
               /\ UNCHANGED <<avail, counter>>
      <3>1. /\ stopped' = TRUE
            /\ state' = "StateDisconnected"
            /\ conn' \in [Socks -> {"nil", "open", "closed"}]
            /\ \A t \in Socks : conn'[t] # "open"
        BY <2>1, <2>6, CloseEffect
      <3>2. QED
        BY <2>1, <2>2, <2>4, <2>6, <3>1
           DEF Fixed, BridgeInv, TypeOK, MainPCs, Returned, States,
               Accounting, Started, Stopped, DoneMeansClosed,
               SelectCli, LauncherStopsBridge
    <2>7. QED
      BY <1>8, <2>5, <2>6 DEF Read
  <1>9. ASSUME NEW d \in Dirs, Write(d) PROVE BridgeInv'
    <2> DEFINE t == Dst[d]
    <2>1. t \in Socks /\ loop[d] = "write" /\ main \in Late
      BY <1>9 DEF Write, Dst, Socks, Dirs, BridgeInv, Started
    <2>2. UNCHANGED <<main, launched, counter, avail, peer, sent, gameUp,
                      deadline, cancelled, exited>>
          /\ UNCHANGED Fixed
      BY <1>9 DEF Write
    <2>3. ~(mode = "launcher" /\ main = "exit")
      BY <2>1 DEF BridgeInv, LauncherStopsBridge
    <2>4. CASE /\ conn[t] = "open" /\ peer[t] # "reset"
               /\ delivered' = [delivered EXCEPT ![d] = @ + 1]
               /\ loop' = [loop EXCEPT ![d] = "check"]
               /\ UNCHANGED CloseVars
      <3>1. TypeOK'
        BY <2>1, <2>2, <2>4 DEF CloseVars, Fixed, BridgeInv, TypeOK,
                                Accounting
      <3>2. Accounting'
        BY <2>1, <2>2, <2>4 DEF BridgeInv, TypeOK, Accounting
      <3>3. QED
        BY <2>1, <2>2, <2>3, <2>4, <3>1, <3>2
           DEF CloseVars, Fixed, BridgeInv, Started, Stopped,
               DoneMeansClosed, SelectCli, LauncherStopsBridge
    <2>5. CASE /\ conn[t] = "closed" \/ peer[t] # "open"
               /\ Close
               /\ loop' = [loop EXCEPT ![d] = "done"]
               /\ UNCHANGED delivered
      <3>1. /\ stopped' = TRUE
            /\ state' = "StateDisconnected"
            /\ conn' \in [Socks -> {"nil", "open", "closed"}]
            /\ \A u \in Socks : conn'[u] # "open"
        BY <2>1, <2>5, CloseEffect
      <3>2. QED
        BY <2>1, <2>2, <2>3, <2>5, <3>1
           DEF Fixed, BridgeInv, TypeOK, MainPCs, Returned, States,
               Accounting, Started, Stopped, DoneMeansClosed,
               SelectCli, LauncherStopsBridge
    <2>6. QED
      BY <1>9, <2>4, <2>5 DEF Write
  <1>10. CASE GameStarts \/ DeadlinePasses \/ Interrupt
    <2>1. /\ UNCHANGED <<main, role, mode, skipWait, launched, state, stopped,
                         conn, loop, counter, delivered, avail,
                         sent, peer, exited>>
          /\ gameUp' \in BOOLEAN /\ deadline' \in BOOLEAN
          /\ cancelled' \in BOOLEAN
      <3>1. CASE GameStarts
        BY <3>1 DEF GameStarts, Own, BridgeInv, TypeOK
      <3>2. CASE DeadlinePasses
        BY <3>2 DEF DeadlinePasses, Own, BridgeInv, TypeOK
      <3>3. CASE Interrupt
        BY <3>3 DEF Interrupt, Own, BridgeInv, TypeOK
      <3>4. QED
        BY <1>10, <3>1, <3>2, <3>3
    <2>2. TypeOK'
      BY <2>1, Zenon DEF BridgeInv, TypeOK
    <2>3. QED
      BY <2>1, <2>2, QuietStep DEF BridgeInv, Started, Stopped
  <1>11. ASSUME NEW s \in Socks, PeerSends(s) PROVE BridgeInv'
    <2>1. PICK e \in Dirs : Src[e] = s
      BY DEF Src, Dirs, Socks
    <2>2. avail[s] <= sent[s] /\ sent[s] < MaxChunks
      BY <1>11, <2>1 DEF PeerSends, BridgeInv, TypeOK, Accounting
    <2>3. /\ avail' = [avail EXCEPT ![s] = @ + 1]
          /\ sent' = [sent EXCEPT ![s] = @ + 1]
          /\ UNCHANGED <<peer, gameUp, deadline, cancelled, exited>>
          /\ UNCHANGED Own
      BY <1>11 DEF PeerSends
    <2>4. TypeOK'
      BY <2>2, <2>3 DEF Own, BridgeInv, TypeOK
    <2>5. Accounting'
      BY <2>3 DEF Own, BridgeInv, TypeOK, Accounting, Src, Dirs
    <2>6. QED
      BY <2>3, <2>4, <2>5
         DEF Own, BridgeInv, Started, Stopped, DoneMeansClosed,
             SelectCli, LauncherStopsBridge
  <1>12. CASE GameExits \/ \E s \in Socks : PeerEnds(s)
    <2>1. /\ UNCHANGED <<main, role, mode, skipWait, launched, state, stopped,
                         conn, loop, counter, delivered, avail,
                         sent, deadline, cancelled>>
          /\ peer' \in [Socks -> {"open", "eof", "reset"}]
          /\ gameUp' \in BOOLEAN /\ exited' \in BOOLEAN
      <3>1. CASE GameExits
        BY <3>1 DEF GameExits, Own, BridgeInv, TypeOK
      <3>2. CASE \E s \in Socks : PeerEnds(s)
        BY <3>2 DEF PeerEnds, Own, BridgeInv, TypeOK
      <3>3. QED
        BY <1>12, <3>1, <3>2
    <2>2. TypeOK'
      BY <2>1, Zenon DEF BridgeInv, TypeOK
    <2>3. QED
      BY <2>1, <2>2, QuietStep DEF BridgeInv, Started, Stopped
  <1>13. CASE UNCHANGED vars
    BY <1>13 DEF vars, BridgeInv, TypeOK, Accounting, Started,
                 Stopped, DoneMeansClosed, SelectCli, LauncherStopsBridge
  <1>14. QED
    BY <1>1, <1>2, <1>3, <1>4, <1>5, <1>6, <1>7, <1>8, <1>9, <1>10, <1>11,
       <1>12, <1>13
       DEF Next, Caller, Loop, Environment

\* The bridge's variables always have their types.
THEOREM BridgeTypeCorrect == Spec => []TypeOK
  <1>1. BridgeInv => TypeOK
    BY DEF BridgeInv
  <1>2. QED
    BY InitBridgeInv, NextBridgeInv, <1>1, PTL DEF Spec

\* forwardToLocal and forwardToRelay return only after Close has closed
\* stopCh, set StateDisconnected and closed both connections
\* (DoneMeansClosed), for every MaxChunks.
THEOREM DoneMeansClosedHolds == Spec => []DoneMeansClosed
  <1>1. BridgeInv => DoneMeansClosed
    BY DEF BridgeInv
  <1>2. QED
    BY InitBridgeInv, NextBridgeInv, <1>1, PTL DEF Spec


-----------------------------------------------------------------------------
(* The byte counters. With Accounting (a loop at its write has counted one *)
(* chunk more than it delivered), CountsMatchWrites is inductive: a read   *)
(* counts one chunk and moves to the write, a successful write delivers it *)
(* and goes back to the check, a failed one ends the loop.                 *)

LEMMA InitCounts == Init => CountsMatchWrites
  BY DEF Init, CountsMatchWrites

LEMMA NextCounts ==
  BridgeInv /\ CountsMatchWrites /\ [Next]_vars => CountsMatchWrites'
  <1> SUFFICES ASSUME BridgeInv, CountsMatchWrites, [Next]_vars
               PROVE  CountsMatchWrites'
    OBVIOUS
  <1> USE DEF BridgeInv, TypeOK
  <1>1. ASSUME NEW d \in Dirs, Check(d) PROVE CountsMatchWrites'
    BY <1>1 DEF Check, CountsMatchWrites
  <1>2. ASSUME NEW d \in Dirs, Read(d) PROVE CountsMatchWrites'
    BY <1>2 DEF Read, CountsMatchWrites
  <1>3. ASSUME NEW d \in Dirs, Write(d) PROVE CountsMatchWrites'
    <2>1. counter[d] = delivered[d] + 1
      BY <1>3 DEF Write, CountsMatchWrites, Accounting
    <2>2. CASE delivered' = [delivered EXCEPT ![d] = @ + 1]
              /\ loop' = [loop EXCEPT ![d] = "check"]
      BY <1>3, <2>1, <2>2 DEF Write, CountsMatchWrites
    <2>3. CASE UNCHANGED delivered /\ loop' = [loop EXCEPT ![d] = "done"]
      BY <1>3, <2>1, <2>3 DEF Write, CountsMatchWrites
    <2>4. QED
      BY <1>3, <2>2, <2>3 DEF Write
  <1>4. CASE ConnectRelay
    <2>1. \A d \in Dirs : loop[d] = "idle"
      BY <1>4 DEF ConnectRelay, Started, Late
    <2>2. \A d \in Dirs : counter[d] = delivered[d]
      BY <2>1 DEF CountsMatchWrites
    <2>3. QED
      BY <1>4, <2>1, <2>2 DEF ConnectRelay, CountsMatchWrites
  <1>5. CASE UNCHANGED <<loop, counter, delivered>>
    BY <1>5 DEF CountsMatchWrites
  <1>6. CASE Caller /\ ~ConnectRelay
    BY <1>6, <1>5
       DEF Caller, Start, LauncherStart, ProbeTimeout, ProbeReady,
           CreateSession, JoinSession, RelayConnect, LaunchGame,
           GameListening, SelectCancel, SelectDone, GameExitSeen, Drain
  <1>7. CASE Environment
    BY <1>7, <1>5
       DEF Environment, GameStarts, DeadlinePasses, Interrupt, GameExits,
           PeerSends, PeerEnds, Own
  <1>8. QED
    BY <1>1, <1>2, <1>3, <1>4, <1>5, <1>6, <1>7 DEF Next, Loop, vars

\* forwardToLocal and forwardToRelay add a chunk to BytesIn / BytesOut
\* before writing it, yet the counters never run ahead of what was
\* written by more than the one chunk of a failed write, which ends the
\* loop (CountsMatchWrites), for every MaxChunks.
THEOREM CountsMatchWritesHolds == Spec => []CountsMatchWrites
  <1>1. BridgeInv /\ CountsMatchWrites /\ [Next]_vars => CountsMatchWrites'
    BY NextCounts
  <1>2. QED
    BY InitBridgeInv, NextBridgeInv, InitCounts, <1>1, PTL DEF Spec

-----------------------------------------------------------------------------
(* Refinement of BridgeLifecycle. Before ConnectRelay the state follows    *)
(* the caller's position: init at the start, waiting in the probe, and     *)
(* init or ready from the session request to ConnectRelay. With Stopped   *)
(* (stopCh is closed only once the caller is late), this is what makes    *)
(* each setState a transition of the table.                               *)

StateByPhase ==
    /\ main = "start" => state = "StateInit"
    /\ main = "probe" => state = "StateWaitingForGame"
    /\ main \in {"session", "relay", "launch", "listen", "bridge"} =>
           state \in {"StateInit", "StateReady"}

LEMMA InitStateByPhase == Init => StateByPhase
  BY DEF Init, StateByPhase

\* A step that leaves the state and the caller's position alone, or that
\* moves the caller within or out of the early positions without setting
\* the state, keeps StateByPhase when the target position allows the state.
LEMMA NextStateByPhase ==
  BridgeInv /\ StateByPhase /\ [Next]_vars => StateByPhase'
  <1> SUFFICES ASSUME BridgeInv, StateByPhase, [Next]_vars
               PROVE  StateByPhase'
    OBVIOUS
  <1> USE DEF BridgeInv, TypeOK, StateByPhase
  <1>1. CASE Start \/ LauncherStart \/ ProbeTimeout \/ ProbeReady
    BY <1>1 DEF Start, LauncherStart, ProbeTimeout, ProbeReady, Returned
  <1>2. CASE CreateSession \/ JoinSession \/ RelayConnect \/ LaunchGame
             \/ GameListening
    BY <1>2 DEF CreateSession, JoinSession, RelayConnect, LaunchGame,
                GameListening, Failed, Returned
  <1>3. CASE ConnectRelay \/ SelectCancel \/ SelectDone \/ GameExitSeen
             \/ Drain
    BY <1>3 DEF ConnectRelay, SelectCancel, SelectDone, GameExitSeen, Drain
  <1>4. ASSUME NEW d \in Dirs, Loop(d) PROVE StateByPhase'
    <2>1. main \in Late /\ main' = main
      BY <1>4 DEF Loop, Check, Read, Write, Started
    <2>2. QED
      BY <2>1 DEF Late
  <1>5. CASE Environment \/ UNCHANGED vars
    BY <1>5 DEF Environment, GameStarts, DeadlinePasses, Interrupt,
                GameExits, PeerSends, PeerEnds, Own, vars
  <1>6. QED
    BY <1>1, <1>2, <1>3, <1>4, <1>5 DEF Next, Caller

\* A Close step is a stutter of the table when stopCh is closed already,
\* and its Stop otherwise.
LEMMA CloseStops == Close => [Lifecycle!Next]_Lifecycle!vars
  BY DEF Close, CloseVars, Lifecycle!Next, Lifecycle!Stop, Lifecycle!vars

LEMMA InitBridgeStates == Init => Lifecycle!Init
  BY DEF Init, Lifecycle!Init

LEMMA NextBridgeStates ==
  BridgeInv /\ StateByPhase /\ [Next]_vars => [Lifecycle!Next]_Lifecycle!vars
  <1> SUFFICES ASSUME BridgeInv, StateByPhase, [Next]_vars
               PROVE  [Lifecycle!Next]_Lifecycle!vars
    OBVIOUS
  <1> DEFINE Quiet == UNCHANGED <<state, stopped>>
  <1>0. Quiet => [Lifecycle!Next]_Lifecycle!vars
    BY DEF Lifecycle!vars
  <1>1. main \notin Late => ~stopped
    BY DEF BridgeInv, Stopped
  <1>2. CASE Start
    <2>1. CASE skipWait
      BY <1>0, <1>2, <2>1 DEF Start
    <2>2. CASE ~skipWait
      <3>1. Lifecycle!Wait
        BY <1>1, <1>2, <2>2 DEF Start, StateByPhase, Late, Lifecycle!Wait
      <3>2. QED
        BY <3>1 DEF Lifecycle!Next
    <2>3. QED
      BY <2>1, <2>2
  <1>3. CASE ProbeReady
    <2>1. Lifecycle!Probed
      BY <1>1, <1>3 DEF ProbeReady, StateByPhase, Late, Lifecycle!Probed
    <2>2. QED
      BY <2>1 DEF Lifecycle!Next
  <1>4. CASE ConnectRelay
    <2>1. Lifecycle!Attach
      BY <1>1, <1>4 DEF ConnectRelay, StateByPhase, Late, Lifecycle!Attach
    <2>2. QED
      BY <2>1 DEF Lifecycle!Next
  <1>5. CASE SelectCancel \/ GameExitSeen
    BY <1>5, CloseStops DEF SelectCancel, GameExitSeen
  <1>6. ASSUME NEW d \in Dirs, Read(d) \/ Write(d)
        PROVE  [Lifecycle!Next]_Lifecycle!vars
    BY <1>0, <1>6, CloseStops DEF Read, Write, CloseVars
  <1>7. CASE \/ LauncherStart \/ ProbeTimeout \/ CreateSession \/ JoinSession
             \/ RelayConnect \/ LaunchGame \/ GameListening \/ SelectDone
             \/ Drain
    BY <1>0, <1>7 DEF LauncherStart, ProbeTimeout, CreateSession,
                      JoinSession, RelayConnect, LaunchGame, GameListening,
                      SelectDone, Drain
  <1>8. ASSUME NEW d \in Dirs, Check(d) PROVE [Lifecycle!Next]_Lifecycle!vars
    BY <1>0, <1>8 DEF Check
  <1>9. CASE Environment \/ UNCHANGED vars
    BY <1>0, <1>9 DEF Environment, GameStarts, DeadlinePasses, Interrupt,
                      GameExits, PeerSends, PeerEnds, Own, vars
  <1>10. QED
    BY <1>2, <1>3, <1>4, <1>5, <1>6, <1>7, <1>8, <1>9 DEF Next, Caller, Loop

\* The bridge's state follows the spec's transition table (BridgeStatesSpec,
\* checked by TLC on bridge_pass), for every MaxChunks and both callers:
\* waiting only from init, ready only after waiting, connected or error
\* only from ConnectRelay on an init or ready bridge, and disconnected,
\* for good, from Close.
THEOREM BridgeStatesRefined == Spec => BridgeStatesSpec
  <1>1. Spec => [](BridgeInv /\ StateByPhase)
    BY InitBridgeInv, NextBridgeInv, InitStateByPhase, NextStateByPhase,
       PTL DEF Spec
  <1>2. QED
    BY <1>1, InitBridgeStates, NextBridgeStates, PTL
       DEF Spec, BridgeStatesSpec, Lifecycle!Spec

=============================================================================
