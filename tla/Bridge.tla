-------------------------------- MODULE Bridge --------------------------------
(***************************************************************************)
(* The peer-side bridge (src/internal/client/bridge/bridge.go 1-258) as    *)
(* its two kinds of caller in src/cmd/sfo-helper/main.go drive it: the     *)
(* host and join commands runHost / runJoin (mode "cli", 1792-2025; the   *)
(* same functions appear in src/unnamed/part_010 641-869), and the menu's *)
(* launcher flows runLauncherHost / runLauncherJoin (mode "launcher",    *)
(* 305-651), which launch the game themselves, connect the bridge once it *)
(* listens and tear it down when the game exits, then return to the menu. *)
(*                                                                         *)
(* Three goroutines share the Bridge: the caller (the variable main) and  *)
(* the copy loops forwardToLocal ("in": relay -> local) and               *)
(* forwardToRelay ("out": local -> relay), the variable loop.             *)
(* The signal goroutine only cancels the context (Interrupt). Close runs *)
(* under b.mu and is one step; a loop's read and its write are separate   *)
(* steps, with the counter added in between as the code does.             *)
(*                                                                         *)
(* The two sockets are the relay connection and the local game          *)
(* connection. For each, conn is our end (nil until dialled, open,      *)
(* closed), peer the far end (open, eof after a FIN, reset), and avail    *)
(* the chunks the far end sent that the loop has not read yet.           *)
(***************************************************************************)
EXTENDS Naturals

CONSTANT MaxChunks  \* chunks each far end sends at most

ASSUME BridgeAssumption == MaxChunks \in Nat

VARIABLES
    main,        \* the caller's position in its function
    role,        \* "host" (runHost, runLauncherHost) or "join"
    mode,        \* "cli" (runHost / runJoin) or "launcher" (the menu flows)
    launched,    \* the launcher has started the game process
    skipWait,    \* the --skip-wait flag
    state,       \* b.state
    stopped,     \* b.stopCh has been closed
    conn,        \* socket -> our end: "nil", "open" or "closed"
    peer,        \* socket -> the far end: "open", "eof" or "reset"
    avail,       \* socket -> chunks sent by the far end, not yet read
    sent,        \* socket -> chunks sent by the far end so far
    loop,        \* direction -> position of its copy loop
    counter,     \* direction -> stats.BytesIn / BytesOut, in chunks
    delivered,   \* direction -> chunks written to the destination socket
    gameUp,      \* the game listens on the target port
    deadline,    \* WaitForGame's deadline has passed
    cancelled,   \* the context was cancelled (SIGINT / SIGTERM)
    exited       \* the game process the launcher started has exited

vars == <<main, role, mode, skipWait, launched, state, stopped,
          conn, peer, avail, sent, loop, counter, delivered, gameUp, deadline,
          cancelled, exited>>

States == {"StateInit", "StateWaitingForGame", "StateReady",
           "StateConnectingRelay", "StateConnected", "StateDisconnected",
           "StateError"}

Socks == {"relay", "local"}

Dirs == {"in", "out"}

\* forwardToLocal reads the relay connection and writes the local one;
\* forwardToRelay the other way round.
Src == [d \in Dirs |-> IF d = "in" THEN "relay" ELSE "local"]

Dst == [d \in Dirs |-> IF d = "in" THEN "local" ELSE "relay"]

\* The caller has returned, or log.Fatalf ended the process.
Returned == {"exit", "fatal"}

MainPCs == {"start", "probe", "session", "relay", "launch", "listen",
            "bridge", "select", "gamewait", "drain"} \cup Returned

\* Where a failed session request leaves the caller: runHost / runJoin
\* call log.Fatalf, the launcher flows print the error and return.
Failed == IF mode = "cli" THEN "fatal" ELSE "exit"

TypeOK ==
    /\ main \in MainPCs
    /\ role \in {"host", "join"}
    /\ mode \in {"cli", "launcher"}
    /\ launched \in BOOLEAN
    /\ skipWait \in BOOLEAN
    /\ state \in States
    /\ stopped \in BOOLEAN
    /\ conn \in [Socks -> {"nil", "open", "closed"}]
    /\ peer \in [Socks -> {"open", "eof", "reset"}]
    /\ avail \in [Socks -> 0..MaxChunks]
    /\ sent \in [Socks -> 0..MaxChunks]
    /\ loop \in [Dirs -> {"idle", "check", "read", "write", "done"}]
    /\ counter \in [Dirs -> 0..MaxChunks]
    /\ delivered \in [Dirs -> 0..MaxChunks]
    /\ gameUp \in BOOLEAN
    /\ deadline \in BOOLEAN
    /\ cancelled \in BOOLEAN
    /\ exited \in BOOLEAN

\* NewBridge: StateInit, no connections, stopCh open.
Init ==
    /\ main = "start"
    /\ role \in {"host", "join"}
    /\ mode \in {"cli", "launcher"}
    /\ launched = FALSE
    /\ skipWait \in BOOLEAN
    /\ state = "StateInit"
    /\ stopped = FALSE
    /\ conn = [s \in Socks |-> "nil"]
    /\ peer = [s \in Socks |-> "open"]
    /\ avail = [s \in Socks |-> 0]
    /\ sent = [s \in Socks |-> 0]
    /\ loop = [d \in Dirs |-> "idle"]
    /\ counter = [d \in Dirs |-> 0]
    /\ delivered = [d \in Dirs |-> 0]
    /\ gameUp \in BOOLEAN
    /\ deadline = FALSE
    /\ cancelled = FALSE
    /\ exited = FALSE

-----------------------------------------------------------------------------
(***************************************************************************)
(* Close, the only step that closes stopCh. It leaves main and the loops  *)
(* to its caller.                                                          *)
(***************************************************************************)

\* Closing an open end; nil (never dialled) and closed ends stay as they are.
CloseEnd(c) == IF c = "open" THEN "closed" ELSE c

CloseVars == <<stopped, conn, state>>

\* Mutant: Close forgets b.localConn.Close().
CloseKeepsLocal ==
    IF stopped THEN UNCHANGED CloseVars
    ELSE /\ stopped' = TRUE
         /\ conn' = [conn EXCEPT !["relay"] = CloseEnd(@)]
         /\ state' = "StateDisconnected"

\* Mutant: Close forgets b.state = StateDisconnected.
CloseNoState ==
    IF stopped THEN UNCHANGED CloseVars
    ELSE /\ stopped' = TRUE
         /\ conn' = [s \in Socks |-> CloseEnd(conn[s])]
         /\ UNCHANGED state

\* Under b.mu: return if stopCh is closed, else close it, close both
\* connections that are set, and set StateDisconnected.
Close ==
    IF stopped THEN UNCHANGED CloseVars
    ELSE /\ stopped' = TRUE
         /\ conn' = [s \in Socks |-> CloseEnd(conn[s])]
         /\ state' = "StateDisconnected"

-----------------------------------------------------------------------------
(***************************************************************************)
(* The caller: runHost / runJoin (mode "cli") and runLauncherHost /      *)
(* runLauncherJoin (mode "launcher"). The two share the session request, *)
(* the relay dial and ConnectRelay; the launcher starts the game between  *)
(* the relay dial and ConnectRelay, and waits for the game to exit rather *)
(* than for the bridge.                                                   *)
(***************************************************************************)

Env == <<peer, avail, sent, gameUp, deadline, cancelled, exited>>

\* The caller's parameters, fixed for a run.
Fixed == <<role, mode, skipWait>>

\* Unless --skip-wait, WaitForGame starts: setState(StateWaitingForGame).
Start ==
    /\ mode = "cli"
    /\ main = "start"
    /\ main' = IF skipWait THEN "session" ELSE "probe"
    /\ state' = IF skipWait THEN state ELSE "StateWaitingForGame"
    /\ UNCHANGED <<launched, stopped, conn, loop, counter,
                   delivered>>
    /\ UNCHANGED <<Fixed, Env>>

\* The launcher's checks before any request: the game directory is known,
\* the game is not running already (isGameRunning, a tasklist query that
\* says "not running" whenever it fails), and for the host the ports 1628
\* and 1627 are free and the embedded servers start; the joiner reads a
\* code and the host's address. A failed check prints and returns to the
\* menu. A game found listening later may be one the check missed.
LauncherStart ==
    /\ mode = "launcher"
    /\ main = "start"
    /\ main' \in {"session", "exit"}
    /\ UNCHANGED <<launched, state, stopped, conn, loop, counter,
                   delivered>>
    /\ UNCHANGED <<Fixed, Env>>

\* A WaitForGame iteration past its deadline returns an error (the state
\* stays StateWaitingForGame); runHost returns if the context is cancelled
\* and calls log.Fatalf otherwise. stopCh is closed only by Close, which
\* the caller reaches after ConnectRelay, so the "cancelled" branch on
\* stopCh cannot be taken here.
ProbeTimeout ==
    /\ main = "probe"
    /\ deadline
    /\ main' = IF cancelled THEN "exit" ELSE "fatal"
    /\ UNCHANGED <<launched, state, stopped, conn, loop, counter,
                   delivered>>
    /\ UNCHANGED <<Fixed, Env>>

\* An iteration before the deadline whose isPortListening dial succeeds:
\* setState(StateReady) and WaitForGame returns nil. (An iteration whose
\* dial fails only sleeps.)
ProbeReady ==
    /\ main = "probe"
    /\ ~deadline
    /\ gameUp
    /\ state' = "StateReady"
    /\ main' = "session"
    /\ UNCHANGED <<launched, stopped, conn, loop, counter,
                   delivered>>
    /\ UNCHANGED <<Fixed, Env>>

\* The host's signaling.CreateSession, a POST that fails on a transport
\* error, a non-200 status or a bad body.
CreateSession ==
    /\ role = "host"
    /\ main = "session"
    /\ main' \in {"relay", Failed}
    /\ UNCHANGED <<launched, state, stopped, conn, loop, counter,
                   delivered>>
    /\ UNCHANGED <<Fixed, Env>>

\* The joiner's signaling.JoinSession(code), a POST that fails on a
\* transport error, 404, 429, another status or a bad body.
JoinSession ==
    /\ role = "join"
    /\ main = "session"
    /\ main' \in {"relay", Failed}
    /\ UNCHANGED <<launched, state, stopped, conn, loop, counter,
                   delivered>>
    /\ UNCHANGED <<Fixed, Env>>

\* relayClient.Connect: dial (10 s), send the auth line and read the reply
\* under a 15 s deadline. On any error Connect has closed its connection
\* and the caller returns. The launcher goes on to start the game.
RelayConnect ==
    /\ main = "relay"
    /\ \/ /\ conn' = [conn EXCEPT !["relay"] = "open"]
          /\ main' = IF mode = "cli" THEN "bridge" ELSE "launch"
       \/ /\ main' = "exit"
          /\ UNCHANGED conn
    /\ UNCHANGED <<launched, state, stopped, loop, counter,
                   delivered>>
    /\ UNCHANGED <<Fixed, Env>>

\* launchGame: exec.Command(...).Start(). If it fails the launcher closes
\* the relay client and returns.
LaunchGame ==
    /\ main = "launch"
    /\ \/ /\ launched' = TRUE
          /\ main' = "listen"
          /\ UNCHANGED conn
       \/ /\ conn' = [conn EXCEPT !["relay"] = "closed"]
          /\ main' = "exit"
          /\ UNCHANGED launched
    /\ UNCHANGED <<state, stopped, loop, counter, delivered>>
    /\ UNCHANGED <<Fixed, Env>>

\* The launcher's wait for the game: findGameListeningAddr and a dial of
\* what it finds, once a second, with no deadline and no other way out.
\* An iteration that finds the game listening leaves the loop; one that
\* does not only sleeps.
GameListening ==
    /\ main = "listen"
    /\ gameUp
    /\ main' = "bridge"
    /\ UNCHANGED <<launched, state, stopped, conn, loop, counter,
                   delivered>>
    /\ UNCHANGED <<Fixed, Env>>

\* Mutant: ConnectRelay starts forwardToLocal only (wg.Add(2) stays).
ConnectRelayOneLoop ==
    /\ main = "bridge"
    /\ \/ /\ gameUp
          /\ conn' = [conn EXCEPT !["local"] = "open"]
          /\ state' = "StateConnected"
          /\ loop' = [loop EXCEPT !["in"] = "check"]
          /\ main' = IF mode = "cli" THEN "select" ELSE "gamewait"
       \/ /\ conn' = [conn EXCEPT !["relay"] =
                        IF mode = "cli" THEN "closed" ELSE @]
          /\ state' = "StateError"
          /\ main' = "exit"
          /\ UNCHANGED loop
    /\ UNCHANGED <<launched, stopped, counter, delivered>>
    /\ UNCHANGED <<Fixed, Env>>

\* br.ConnectRelay: setState(StateConnectingRelay), dial the game. On
\* success store both connections, setState(StateConnected) and start the
\* two loops; on error setState(StateError), and the caller returns:
\* runHost / runJoin through their deferred relayClient.Close(), which
\* closes the relay connection, the launcher flows with no Close at all.
\* No other goroutine touches the bridge yet, so the method is one step.
ConnectRelay ==
    /\ main = "bridge"
    /\ \/ /\ gameUp
          /\ conn' = [conn EXCEPT !["local"] = "open"]
          /\ state' = "StateConnected"
          /\ loop' = [d \in Dirs |-> "check"]
          /\ main' = IF mode = "cli" THEN "select" ELSE "gamewait"
       \/ /\ conn' = [conn EXCEPT !["relay"] =
                        IF mode = "cli" THEN "closed" ELSE @]
          /\ state' = "StateError"
          /\ main' = "exit"
          /\ UNCHANGED loop
    /\ UNCHANGED <<launched, stopped, counter, delivered>>
    /\ UNCHANGED <<Fixed, Env>>

\* The select's ctx.Done() case: br.Close(), return (the deferred
\* relayClient.Close() finds the relay connection closed already).
SelectCancel ==
    /\ main = "select"
    /\ cancelled
    /\ Close
    /\ main' = "exit"
    /\ UNCHANGED <<launched, loop, counter, delivered>>
    /\ UNCHANGED <<Fixed, Env>>

\* The select's doneCh case: br.Wait() returned, both loops are done.
SelectDone ==
    /\ main = "select"
    /\ \A d \in Dirs : loop[d] = "done"
    /\ main' = "exit"
    /\ UNCHANGED <<launched, state, stopped, conn, loop, counter,
                   delivered>>
    /\ UNCHANGED <<Fixed, Env>>

\* waitForGameExit returns: activeBridge.Close(), relayClient.Close() (a
\* second close of the relay connection Close has closed) and, for the
\* host, cancel() of the embedded servers' context; then <-bridgeDone.
GameExitSeen ==
    /\ main = "gamewait"
    /\ exited
    /\ Close
    /\ main' = "drain"
    /\ UNCHANGED <<launched, loop, counter, delivered>>
    /\ UNCHANGED <<Fixed, Env>>


\* <-bridgeDone returns once activeBridge.Wait() has: both loops are done.
\* The launcher then returns to the menu.
Drain ==
    /\ main = "drain"
    /\ \A d \in Dirs : loop[d] = "done"
    /\ main' = "exit"
    /\ UNCHANGED <<launched, state, stopped, conn, loop, counter,
                   delivered>>
    /\ UNCHANGED <<Fixed, Env>>

-----------------------------------------------------------------------------
(***************************************************************************)
(* The copy loops forwardToLocal (d = "in") and forwardToRelay ("out").   *)
(***************************************************************************)

\* The select on stopCh at the top of the loop.
Check(d) ==
    /\ loop[d] = "check"
    /\ loop' = [loop EXCEPT ![d] = IF stopped THEN "done" ELSE "read"]
    /\ UNCHANGED <<main, launched, state, stopped, conn, counter,
                   delivered>>
    /\ UNCHANGED <<Fixed, Env>>

\* Mutant: a read error returns without calling b.Close().
ReadNoClose(d) ==
    LET s == Src[d] IN
    /\ loop[d] = "read"
    /\ \/ /\ conn[s] = "open"
          /\ avail[s] > 0
          /\ avail' = [avail EXCEPT ![s] = @ - 1]
          /\ counter' = [counter EXCEPT ![d] = @ + 1]
          /\ loop' = [loop EXCEPT ![d] = "write"]
          /\ UNCHANGED CloseVars
       \/ /\ conn[s] = "closed" \/ (avail[s] = 0 /\ peer[s] # "open")
          /\ loop' = [loop EXCEPT ![d] = "done"]
          /\ UNCHANGED <<avail, counter, stopped, conn, state>>
    /\ UNCHANGED <<main, launched, delivered, peer, sent, gameUp, deadline,
                   cancelled, exited>>
    /\ UNCHANGED Fixed

\* Read from the source. A chunk is counted (BytesIn / BytesOut .Add)
\* before it is written. A read of a closed connection fails, and one
\* past the far end's FIN or reset returns EOF or an error: either way
\* b.Close() and return (wg.Done).
Read(d) ==
    LET s == Src[d] IN
    /\ loop[d] = "read"
    /\ \/ /\ conn[s] = "open"
          /\ avail[s] > 0
          /\ avail' = [avail EXCEPT ![s] = @ - 1]
          /\ counter' = [counter EXCEPT ![d] = @ + 1]
          /\ loop' = [loop EXCEPT ![d] = "write"]
          /\ UNCHANGED CloseVars
       \/ /\ conn[s] = "closed" \/ (avail[s] = 0 /\ peer[s] # "open")
          /\ Close
          /\ loop' = [loop EXCEPT ![d] = "done"]
          /\ UNCHANGED <<avail, counter>>
    /\ UNCHANGED <<main, launched, delivered, peer, sent, gameUp, deadline,
                   cancelled, exited>>
    /\ UNCHANGED Fixed

\* Mutant: a failed write is only logged and the loop goes on reading.
WriteIgnoresError(d) ==
    LET t == Dst[d] IN
    /\ loop[d] = "write"
    /\ \/ /\ conn[t] = "open"
          /\ peer[t] # "reset"
          /\ delivered' = [delivered EXCEPT ![d] = @ + 1]
       \/ /\ conn[t] = "closed" \/ peer[t] # "open"
          /\ UNCHANGED delivered
    /\ loop' = [loop EXCEPT ![d] = "check"]
    /\ UNCHANGED CloseVars
    /\ UNCHANGED <<main, launched, counter, avail, peer, sent, gameUp,
                   deadline, cancelled, exited>>
    /\ UNCHANGED Fixed

\* Write the chunk to the destination. It fails on a closed connection or
\* a reset far end, and may fail once the far end sent its FIN; on error
\* b.Close() and return.
Write(d) ==
    LET t == Dst[d] IN
    /\ loop[d] = "write"
    /\ \/ /\ conn[t] = "open"
          /\ peer[t] # "reset"
          /\ delivered' = [delivered EXCEPT ![d] = @ + 1]
          /\ loop' = [loop EXCEPT ![d] = "check"]
          /\ UNCHANGED CloseVars
       \/ /\ conn[t] = "closed" \/ peer[t] # "open"
          /\ Close
          /\ loop' = [loop EXCEPT ![d] = "done"]
          /\ UNCHANGED delivered
    /\ UNCHANGED <<main, launched, counter, avail, peer, sent, gameUp,
                   deadline, cancelled, exited>>
    /\ UNCHANGED Fixed

-----------------------------------------------------------------------------
(***************************************************************************)
(* The environment: the game, the far ends, the clock and the user.       *)
(***************************************************************************)

Own == <<main, role, mode, skipWait, launched, state, stopped,
         conn, loop, counter, delivered>>

\* The game starts listening on the target port: any time for the host and
\* join commands, which expect a game the user runs, and only while the
\* process the launcher started runs for the launcher flows.
GameStarts ==
    /\ mode = "cli" \/ (launched /\ ~exited)
    /\ ~gameUp
    /\ gameUp' = TRUE
    /\ UNCHANGED <<peer, avail, sent, deadline, cancelled, exited>>
    /\ UNCHANGED Own

\* The far end of a connection sends a chunk.
PeerSends(s) ==
    /\ conn[s] = "open"
    /\ peer[s] = "open"
    /\ sent[s] < MaxChunks
    /\ avail' = [avail EXCEPT ![s] = @ + 1]
    /\ sent' = [sent EXCEPT ![s] = @ + 1]
    /\ UNCHANGED <<peer, gameUp, deadline, cancelled, exited>>
    /\ UNCHANGED Own

\* The far end closes (FIN) or resets its end.
PeerEnds(s) ==
    /\ conn[s] # "nil"
    /\ peer[s] = "open"
    /\ \E how \in {"eof", "reset"} : peer' = [peer EXCEPT ![s] = how]
    /\ UNCHANGED <<avail, sent, gameUp, deadline, cancelled, exited>>
    /\ UNCHANGED Own

\* WaitForGame's five-minute deadline passes.
DeadlinePasses ==
    /\ main = "probe"
    /\ ~deadline
    /\ deadline' = TRUE
    /\ UNCHANGED <<peer, avail, sent, gameUp, cancelled, exited>>
    /\ UNCHANGED Own

\* SIGINT or SIGTERM: the signal goroutine of runHost / runJoin calls
\* cancel(). (The menu installs no handler: a signal ends the process.)
Interrupt ==
    /\ mode = "cli"
    /\ main \notin Returned
    /\ ~cancelled
    /\ cancelled' = TRUE
    /\ UNCHANGED <<peer, avail, sent, gameUp, deadline, exited>>
    /\ UNCHANGED Own

\* The game process the launcher started exits (the user quits it, or it
\* crashes): it no longer listens, and the system closes its end of the
\* local connection.
GameExits ==
    /\ launched
    /\ ~exited
    /\ exited' = TRUE
    /\ gameUp' = FALSE
    /\ peer' = [peer EXCEPT !["local"] =
                   IF conn["local"] # "nil" /\ @ = "open" THEN "eof" ELSE @]
    /\ UNCHANGED <<avail, sent, deadline, cancelled>>
    /\ UNCHANGED Own

-----------------------------------------------------------------------------

Caller ==
    \/ Start \/ LauncherStart \/ ProbeTimeout \/ ProbeReady
    \/ CreateSession \/ JoinSession \/ RelayConnect \/ LaunchGame
    \/ GameListening \/ ConnectRelay \/ SelectCancel \/ SelectDone
    \/ GameExitSeen \/ Drain

Loop(d) == Check(d) \/ Read(d) \/ Write(d)

Environment ==
    \/ GameStarts \/ DeadlinePasses \/ Interrupt \/ GameExits
    \/ \E s \in Socks : PeerSends(s) \/ PeerEnds(s)

Next == Caller \/ (\E d \in Dirs : Loop(d)) \/ Environment

Spec == Init /\ [][Next]_vars

\* The caller and both loops are goroutines the Go scheduler runs; the
\* deadline is wall-clock time. The game, the far ends and the user owe
\* nothing.
Fairness ==
    /\ WF_vars(Caller)
    /\ \A d \in Dirs : WF_vars(Loop(d))
    /\ WF_vars(DeadlinePasses)

FairSpec == Spec /\ Fairness

-----------------------------------------------------------------------------
(***************************************************************************)
(* Properties.                                                             *)
(***************************************************************************)

\* (Spec 4.6) a copy loop returns only once the bridge has failed as a
\* whole: stopCh closed, StateDisconnected, and neither connection left
\* open for the other loop to block on (forwardToLocal / forwardToRelay
\* calling Close on every exit path).
DoneMeansClosed ==
    \A d \in Dirs : loop[d] = "done" =>
        /\ stopped
        /\ state = "StateDisconnected"
        /\ \A s \in Socks : conn[s] # "open"

\* The byte counters stats.BytesIn / BytesOut are exact whenever a loop is
\* between chunks, and overcount by at most the one chunk whose write
\* failed and ended the loop: a failed write is never followed by another
\* read. (The spec counts after each successful write; forwardToLocal and
\* forwardToRelay add before the write, so this is as close as they get.)
CountsMatchWrites ==
    \A d \in Dirs :
        /\ counter[d] <= delivered[d] + 1
        /\ loop[d] \in {"idle", "check", "read"} => counter[d] = delivered[d]

\* Once forwarding has started and either far end has closed or reset,
\* runHost / runJoin returns: the loop that sees the error closes both
\* connections, so the other loop's blocked read fails too, and Wait
\* returns. (The launcher flows wait for the game to exit instead.)
ExitWhenPeerEnds ==
    (mode = "cli" /\ loop["in"] # "idle" /\ \E s \in Socks : peer[s] # "open")
        ~> main \in Returned

\* (Spec 5, cancellation) once cancelled, the bridge stops polling: the
\* probe does not go on to READY and a session (WaitForGame only watches
\* stopCh, while the signal handler cancels the context).
NoPollAfterCancel ==
    [][cancelled /\ main = "probe" => main' \in {"probe"} \cup Returned]_vars

-----------------------------------------------------------------------------
\* (Spec 4.6, the bridge's transition table) b.state only moves as
\* BridgeLifecycle allows: WaitForGame's setState calls, ConnectRelay's
\* Connected or Error from init or ready, and Close's StateDisconnected
\* once stopCh is closed, after which nothing sets the state again.
Lifecycle == INSTANCE BridgeLifecycle
BridgeStatesSpec == Lifecycle!Spec

=============================================================================
