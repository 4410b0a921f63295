---------------------------------- MODULE P2P ----------------------------------
(***************************************************************************)
(* The WebRTC P2P mode of sfo-helper: runP2PHost and runP2PJoin           *)
(* (src/cmd/sfo-helper/main.go 656-1003), the signalling client and the   *)
(* peer connection they use (src/unnamed/part_001), and the signal server *)
(* the host runs in its own process (src/internal/p2p/signal_server.go).  *)
(*                                                                         *)
(* The host starts the server, creates one session, sends its offer and   *)
(* polls for the joiner's answer; the joiner joins by code, polls for the *)
(* offer and sends its answer. Both then wait for ICE, launch the game and *)
(* start a bridge goroutine that waits for the game to listen on port    *)
(* 1626 and pipes the data channel to it; when the game exits the caller *)
(* closes its peer connection and waits for that goroutine.              *)
(*                                                                         *)
(* Each server handler holds s.mu or session.mu for its whole work and is *)
(* one step, together with the client call that sent it. The host talks  *)
(* to localhost; the joiner's requests cross the network, so a joiner    *)
(* request may be lost before the server sees it, or its answer after the *)
(* server has acted. SDP contents are abstracted to the signal's type and *)
(* the joiner attempt that made it.                                       *)
(***************************************************************************)
EXTENDS Naturals, Sequences

CONSTANT MaxAttempts  \* times the user runs "join" with the code

ASSUME P2PAssumption == MaxAttempts \in Nat \ {0}

VARIABLES
    hp,           \* position of runP2PHost
    jp,           \* position of runP2PJoin
    attempt,      \* runP2PJoin calls so far (the current one's number)
    late,         \* peer -> the deadline of its current timed wait passed
    serverUp,     \* the host's signal server is serving (ctx not cancelled)
    session,      \* the host's session exists on the server
    hostSignals,  \* session.HostSignals
    joinSignals,  \* session.JoinSignals
    hostIndex,    \* session.HostIndex
    joinIndex,    \* session.JoinIndex
    answerOf,     \* attempt whose answer the host applied (0: none)
    connected,    \* peer -> connectedCh of its current PeerConnection closed
    closed,       \* peer -> its current PeerConnection is closed
    game,         \* peer -> its game process
    bridge,       \* peer -> its bridge goroutine
    copying       \* peer -> the BridgeToTCP copy loops still running

vars == <<hp, jp, attempt, late, serverUp, session, hostSignals, joinSignals,
          hostIndex, joinIndex, answerOf, connected, closed, game, bridge,
          copying>>

Peers == {"host", "joiner"}

Other(p) == IF p = "host" THEN "joiner" ELSE "host"

\* The two goroutines of BridgeToTCP: data channel -> TCP and TCP -> data
\* channel.
Loops == {"rtc2tcp", "tcp2rtc"}

\* A SignalMessage: its type and, for an answer, the joiner attempt that
\* produced it (an offer is the host's single offer, by = 0).
Signals == [type : {"offer", "answer"}, by : 0..MaxAttempts]

HostPCs == {"create", "offer", "wait", "connect", "play", "drain", "menu"}

JoinPCs == {"menu", "waitoffer", "answer", "connect", "play", "drain"}

TypeOK ==
    /\ hp \in HostPCs
    /\ jp \in JoinPCs
    /\ attempt \in 0..MaxAttempts
    /\ late \in [Peers -> BOOLEAN]
    /\ serverUp \in BOOLEAN
    /\ session \in BOOLEAN
    /\ hostSignals \in Seq(Signals)
    /\ joinSignals \in Seq(Signals)
    /\ hostIndex \in 0..Len(joinSignals)
    /\ joinIndex \in 0..Len(hostSignals)
    /\ answerOf \in 0..MaxAttempts
    /\ connected \in [Peers -> BOOLEAN]
    /\ closed \in [Peers -> BOOLEAN]
    /\ game \in [Peers -> {"none", "starting", "listening", "exited"}]
    /\ bridge \in [Peers -> {"none", "probe", "copy", "done"}]
    /\ copying \in [Peers -> SUBSET Loops]

\* The user has chosen "host" (the checks of game dir and a running game
\* passed); the joiner's helper is at its menu.
Init ==
    /\ hp = "create"
    /\ jp = "menu"
    /\ attempt = 0
    /\ late = [p \in Peers |-> FALSE]
    /\ serverUp = FALSE
    /\ session = FALSE
    /\ hostSignals = << >>
    /\ joinSignals = << >>
    /\ hostIndex = 0
    /\ joinIndex = 0
    /\ answerOf = 0
    /\ connected = [p \in Peers |-> FALSE]
    /\ closed = [p \in Peers |-> FALSE]
    /\ game = [p \in Peers |-> "none"]
    /\ bridge = [p \in Peers |-> "none"]
    /\ copying = [p \in Peers |-> {}]

\* A joiner request reaches a RunSignalServer route whose lookup of the
\* session under s.mu.RLock succeeds (JoinSession, AddSignal, GetSignal);
\* otherwise the dial fails (server stopped) or the route answers 4xx.
Serving == serverUp /\ session

\* AddSignal appends the signal to the list of the sender's role.
AddSignal(list, sig) == Append(list, sig)

-----------------------------------------------------------------------------
(* runP2PHost. Its deferred cancel() stops the signal server and its      *)
(* deferred peerConn.Close() closes the peer connection on every return.  *)

\* runP2PHost returns to the menu.
HostReturns ==
    /\ hp' = "menu"
    /\ serverUp' = FALSE
    /\ closed' = [closed EXCEPT !["host"] = TRUE]

\* go RunSignalServer; Sleep(500ms); CreateSession over localhost. If the
\* server is not listening yet, the POST fails and runP2PHost returns.
HostCreate ==
    /\ hp = "create"
    /\ \/ /\ hp' = "offer"
          /\ serverUp' = TRUE
          /\ session' = TRUE
          /\ UNCHANGED closed
       \/ HostReturns /\ UNCHANGED session
    /\ UNCHANGED <<jp, attempt, late, hostSignals, joinSignals, hostIndex,
                   joinIndex, answerOf, connected, game, bridge, copying>>

\* NewPeerConnection, CreateOffer (waits for ICE gathering) and SendSignal
\* of the offer: AddSignal appends it to HostSignals. Then WaitForSignal
\* starts its 2-minute deadline. A failure of any local step returns.
HostOffer ==
    /\ hp = "offer"
    /\ \/ /\ hostSignals' = AddSignal(hostSignals, [type |-> "offer", by |-> 0])
          /\ hp' = "wait"
          /\ late' = [late EXCEPT !["host"] = FALSE]
          /\ UNCHANGED <<serverUp, closed>>
       \/ /\ HostReturns
          /\ UNCHANGED <<hostSignals, late>>
    /\ UNCHANGED <<jp, attempt, session, joinSignals, hostIndex, joinIndex,
                   answerOf, connected, game, bridge, copying>>

\* One poll of WaitForSignal that finds a signal: GetSignal hands out
\* JoinSignals[HostIndex] and advances HostIndex. exchangeAsHost applies
\* it if it is an answer and starts WaitForConnection's 2-minute wait,
\* or returns an error. A poll that finds nothing (204) changes nothing.
HostPoll ==
    /\ hp = "wait"
    /\ ~late["host"]
    /\ hostIndex < Len(joinSignals)
    /\ LET sig == joinSignals[hostIndex + 1] IN
       /\ hostIndex' = hostIndex + 1
       /\ IF sig.type = "answer"
            THEN /\ hp' = "connect"
                 /\ answerOf' = sig.by
                 /\ late' = [late EXCEPT !["host"] = FALSE]
                 /\ UNCHANGED <<serverUp, closed>>
            ELSE /\ HostReturns
                 /\ UNCHANGED <<answerOf, late>>
    /\ UNCHANGED <<jp, attempt, session, hostSignals, joinSignals, joinIndex,
                   connected, game, bridge, copying>>

\* Mutant: WaitForSignal polls with no deadline (a bare for loop).
HostGiveUpNoDeadline ==
    /\ hp = "connect" /\ (late["host"] \/ closed["host"])
    /\ HostReturns
    /\ UNCHANGED <<jp, attempt, late, session, hostSignals, joinSignals,
                   hostIndex, joinIndex, answerOf, connected, game, bridge,
                   copying>>

\* WaitForSignal's deadline passes ("timeout waiting for signal"), or
\* WaitForConnection gives up: 2 minutes passed, or closeCh was closed.
HostGiveUp ==
    /\ \/ hp = "wait" /\ late["host"]
       \/ hp = "connect" /\ (late["host"] \/ closed["host"])
    /\ HostReturns
    /\ UNCHANGED <<jp, attempt, late, session, hostSignals, joinSignals,
                   hostIndex, joinIndex, answerOf, connected, game, bridge,
                   copying>>

\* WaitForConnection sees connectedCh closed; launchGame starts the game
\* and the bridge goroutine, or fails and runP2PHost returns.
HostLaunch ==
    /\ hp = "connect"
    /\ connected["host"]
    /\ \/ /\ hp' = "play"
          /\ game' = [game EXCEPT !["host"] = "starting"]
          /\ bridge' = [bridge EXCEPT !["host"] = "probe"]
          /\ UNCHANGED <<serverUp, closed>>
       \/ /\ HostReturns
          /\ UNCHANGED <<game, bridge>>
    /\ UNCHANGED <<jp, attempt, late, session, hostSignals, joinSignals,
                   hostIndex, joinIndex, answerOf, connected, copying>>

\* waitForGameExit returns; peerConn.Close(); cancel().
HostGameExit ==
    /\ hp = "play"
    /\ game["host"] = "exited"
    /\ hp' = "drain"
    /\ serverUp' = FALSE
    /\ closed' = [closed EXCEPT !["host"] = TRUE]
    /\ UNCHANGED <<jp, attempt, late, session, hostSignals, joinSignals,
                   hostIndex, joinIndex, answerOf, connected, game, bridge,
                   copying>>

\* <-bridgeDone returns once the bridge goroutine has ended.
HostDrain ==
    /\ hp = "drain"
    /\ bridge["host"] = "done"
    /\ hp' = "menu"
    /\ UNCHANGED <<jp, attempt, late, serverUp, session, hostSignals,
                   joinSignals, hostIndex, joinIndex, answerOf, connected, closed,
                   game, bridge, copying>>

Host == HostCreate \/ HostOffer \/ HostPoll \/ HostGiveUp \/ HostLaunch
        \/ HostGameExit \/ HostDrain

-----------------------------------------------------------------------------
(* runP2PJoin, once per time the user chooses "join". Its deferred        *)
(* peerConn.Close() closes the attempt's peer connection on every return. *)

\* runP2PJoin returns to the menu.
JoinReturns ==
    /\ jp' = "menu"
    /\ closed' = [closed EXCEPT !["joiner"] = TRUE]

\* The isGameRunning check, then JoinSession with the code: the server
\* finds the session under s.mu (200) or answers 404, and the request may
\* be lost. On success NewPeerConnection makes a fresh peer connection and
\* exchangeAsJoiner's WaitForSignal starts its 2-minute deadline.
JoinStart ==
    /\ jp = "menu"
    /\ attempt < MaxAttempts
    /\ game["joiner"] \in {"none", "exited"}
    /\ attempt' = attempt + 1
    /\ \/ /\ Serving
          /\ jp' = "waitoffer"
          /\ late' = [late EXCEPT !["joiner"] = FALSE]
          /\ closed' = [closed EXCEPT !["joiner"] = FALSE]
          /\ connected' = [connected EXCEPT !["joiner"] = FALSE]
       \/ UNCHANGED <<jp, late, closed, connected>>
    /\ UNCHANGED <<hp, serverUp, session, hostSignals, joinSignals, hostIndex,
                   joinIndex, answerOf, game, bridge, copying>>

\* Mutant: GetSignal's joiner branch advances HostIndex (the host branch
\* copied).
JoinPollWrongIndex ==
    /\ jp = "waitoffer"
    /\ ~late["joiner"]
    /\ Serving
    /\ joinIndex < Len(hostSignals)
    /\ hostIndex' = hostIndex + 1
    /\ \/ IF hostSignals[joinIndex + 1].type = "offer"
            THEN jp' = "answer" /\ UNCHANGED closed
            ELSE JoinReturns
       \/ UNCHANGED <<jp, closed>>
    /\ UNCHANGED <<hp, attempt, late, serverUp, session, hostSignals,
                   joinSignals, joinIndex, answerOf, connected, game, bridge,
                   copying>>

\* A poll of WaitForSignal that reaches a server with a signal for the
\* joiner: GetSignal advances JoinIndex under session.mu. If the response
\* arrives, exchangeAsJoiner checks that it is an offer; if it is lost, or
\* its body does not decode, WaitForSignal sleeps and polls again.
JoinPoll ==
    /\ jp = "waitoffer"
    /\ ~late["joiner"]
    /\ Serving
    /\ joinIndex < Len(hostSignals)
    /\ joinIndex' = joinIndex + 1
    /\ \/ IF hostSignals[joinIndex + 1].type = "offer"
            THEN jp' = "answer" /\ UNCHANGED closed
            ELSE JoinReturns
       \/ UNCHANGED <<jp, closed>>
    /\ UNCHANGED <<hp, attempt, late, serverUp, session, hostSignals,
                   joinSignals, hostIndex, answerOf, connected, game, bridge,
                   copying>>

\* Mutant: SendSignal's caller retries the POST after a lost 200.
JoinAnswerRetry ==
    /\ jp = "answer"
    /\ \/ /\ Serving
          /\ joinSignals' = AddSignal(joinSignals,
                                   [type |-> "answer", by |-> attempt])
          /\ \/ /\ jp' = "connect"
                /\ late' = [late EXCEPT !["joiner"] = FALSE]
             \/ UNCHANGED <<jp, late>>
          /\ UNCHANGED closed
       \/ JoinReturns /\ UNCHANGED <<joinSignals, late>>
    /\ UNCHANGED <<hp, attempt, serverUp, session, hostSignals, hostIndex,
                   joinIndex, answerOf, connected, game, bridge, copying>>

\* HandleOffer makes the answer; SendSignal posts it and AddSignal appends
\* it to JoinSignals. Success starts WaitForConnection's 2-minute wait. A
\* lost request, a server that is gone, or a lost 200 return an error.
JoinAnswer ==
    /\ jp = "answer"
    /\ \/ /\ Serving
          /\ joinSignals' = AddSignal(joinSignals,
                                   [type |-> "answer", by |-> attempt])
          /\ \/ /\ jp' = "connect"
                /\ late' = [late EXCEPT !["joiner"] = FALSE]
                /\ UNCHANGED closed
             \/ JoinReturns /\ UNCHANGED late
       \/ JoinReturns /\ UNCHANGED <<joinSignals, late>>
    /\ UNCHANGED <<hp, attempt, serverUp, session, hostSignals, hostIndex,
                   joinIndex, answerOf, connected, game, bridge, copying>>

\* WaitForSignal's deadline passes, or WaitForConnection gives up.
JoinGiveUp ==
    /\ \/ jp = "waitoffer" /\ late["joiner"]
       \/ jp = "connect" /\ (late["joiner"] \/ closed["joiner"])
    /\ JoinReturns
    /\ UNCHANGED <<hp, attempt, late, serverUp, session, hostSignals,
                   joinSignals, hostIndex, joinIndex, answerOf, connected,
                   game, bridge, copying>>

\* WaitForConnection sees connectedCh closed; launchGame and the bridge
\* goroutine, or an error return.
JoinLaunch ==
    /\ jp = "connect"
    /\ connected["joiner"]
    /\ \/ /\ jp' = "play"
          /\ game' = [game EXCEPT !["joiner"] = "starting"]
          /\ bridge' = [bridge EXCEPT !["joiner"] = "probe"]
          /\ copying' = [copying EXCEPT !["joiner"] = {}]
          /\ UNCHANGED closed
       \/ JoinReturns /\ UNCHANGED <<game, bridge, copying>>
    /\ UNCHANGED <<hp, attempt, late, serverUp, session, hostSignals,
                   joinSignals, hostIndex, joinIndex, answerOf, connected>>

\* waitForGameExit returns; peerConn.Close().
JoinGameExit ==
    /\ jp = "play"
    /\ game["joiner"] = "exited"
    /\ jp' = "drain"
    /\ closed' = [closed EXCEPT !["joiner"] = TRUE]
    /\ UNCHANGED <<hp, attempt, late, serverUp, session, hostSignals,
                   joinSignals, hostIndex, joinIndex, answerOf, connected,
                   game, bridge, copying>>

\* <-bridgeDone.
JoinDrain ==
    /\ jp = "drain"
    /\ bridge["joiner"] = "done"
    /\ jp' = "menu"
    /\ UNCHANGED <<hp, attempt, late, serverUp, session, hostSignals,
                   joinSignals, hostIndex, joinIndex, answerOf, connected,
                   closed, game, bridge, copying>>

Joiner == JoinPoll \/ JoinAnswer \/ JoinGiveUp \/ JoinLaunch \/ JoinGameExit
          \/ JoinDrain

-----------------------------------------------------------------------------
(* The bridge goroutine of each side: sleep, then probe the game's port   *)
(* every second until a dial succeeds, then BridgeToTCP, which dials      *)
(* again and runs two copy loops until both have ended.                   *)

\* The probe's dial succeeds once the game listens; BridgeToTCP's own dial
\* may still fail if the game went away in between. While the game does
\* not listen the loop only sleeps and probes again: no state changes.
BridgeDial(p) ==
    /\ bridge[p] = "probe"
    /\ game[p] = "listening"
    /\ \/ bridge' = [bridge EXCEPT ![p] = "copy"]
          /\ copying' = [copying EXCEPT ![p] = Loops]
       \/ bridge' = [bridge EXCEPT ![p] = "done"] /\ UNCHANGED copying

\* rtc2tcp's p.Read returns EOF once closeCh is closed; tcp2rtc's
\* conn.Read fails once the game has exited, and its p.Write fails once
\* the data channel is closed.
LoopEnds(p, l) ==
    IF l = "rtc2tcp" THEN closed[p] ELSE game[p] = "exited" \/ closed[p]

\* A copy loop returns; wg.Wait() returns after the second one.
CopyEnds(p, l) ==
    /\ bridge[p] = "copy"
    /\ l \in copying[p]
    /\ LoopEnds(p, l)
    /\ copying' = [copying EXCEPT ![p] = @ \ {l}]
    /\ bridge' = [bridge EXCEPT ![p] = IF copying[p] = {l} THEN "done"
                                                             ELSE "copy"]

Bridge(p) ==
    /\ \/ BridgeDial(p)
       \/ \E l \in Loops : CopyEnds(p, l)
    /\ UNCHANGED <<hp, jp, attempt, late, serverUp, session, hostSignals,
                   joinSignals, hostIndex, joinIndex, answerOf, connected,
                   closed, game>>

-----------------------------------------------------------------------------
(* ICE, pion's callbacks, the clock, the games and the user.              *)

\* The joiner peer connection the host's answer came from has been closed
\* (by its attempt's return, or because a later attempt replaced it).
PeerPCClosed(p) ==
    IF p = "host" THEN closed["joiner"] \/ attempt # answerOf
                  ELSE closed["host"]

\* ICE connects the host's peer connection with the one of the joiner
\* attempt whose answer the host applied, while both are open; both
\* OnConnectionStateChange callbacks close connectedCh.
IceConnects ==
    /\ hp = "connect"
    /\ ~connected["host"]
    /\ answerOf = attempt
    /\ ~closed["host"]
    /\ ~closed["joiner"]
    /\ connected' = [p \in Peers |-> TRUE]
    /\ UNCHANGED <<hp, jp, attempt, late, serverUp, session, hostSignals,
                   joinSignals, hostIndex, joinIndex, answerOf, closed, game,
                   bridge, copying>>

\* The data channel's OnClose callback (setupDataChannel) calls p.Close()
\* once the other side has closed its peer connection.
DataChannelCloses(p) ==
    /\ connected[p]
    /\ PeerPCClosed(p)
    /\ ~closed[p]
    /\ closed' = [closed EXCEPT ![p] = TRUE]
    /\ UNCHANGED <<hp, jp, attempt, late, serverUp, session, hostSignals,
                   joinSignals, hostIndex, joinIndex, answerOf, connected,
                   game, bridge, copying>>

\* The side is in one of WaitForSignal's or WaitForConnection's 2-minute
\* waits.
InTimedWait(p) ==
    IF p = "host" THEN hp \in {"wait", "connect"}
                  ELSE jp \in {"waitoffer", "connect"}

TimePasses(p) ==
    /\ InTimedWait(p)
    /\ ~late[p]
    /\ late' = [late EXCEPT ![p] = TRUE]
    /\ UNCHANGED <<hp, jp, attempt, serverUp, session, hostSignals,
                   joinSignals, hostIndex, joinIndex, answerOf, connected,
                   closed, game, bridge, copying>>

\* The game opens its server port 1626, or exits (with or without ever
\* listening).
GameListens(p) ==
    /\ game[p] = "starting"
    /\ game' = [game EXCEPT ![p] = "listening"]
    /\ UNCHANGED <<hp, jp, attempt, late, serverUp, session, hostSignals,
                   joinSignals, hostIndex, joinIndex, answerOf, connected,
                   closed, bridge, copying>>

GameExits(p) ==
    /\ game[p] \in {"starting", "listening"}
    /\ game' = [game EXCEPT ![p] = "exited"]
    /\ UNCHANGED <<hp, jp, attempt, late, serverUp, session, hostSignals,
                   joinSignals, hostIndex, joinIndex, answerOf, connected,
                   closed, bridge, copying>>

Environment ==
    \/ IceConnects
    \/ JoinStart
    \/ \E p \in Peers : DataChannelCloses(p) \/ TimePasses(p)
                        \/ GameListens(p) \/ GameExits(p)

Next == Host \/ Joiner \/ (\E p \in Peers : Bridge(p)) \/ Environment

Spec == Init /\ [][Next]_vars

\* The two helpers' goroutines run, pion delivers its callbacks and time
\* passes. ICE success, the games and the user's retries get no fairness.
Fairness ==
    /\ WF_vars(Host)
    /\ WF_vars(Joiner)
    /\ \A p \in Peers : /\ WF_vars(Bridge(p))
                        /\ WF_vars(DataChannelCloses(p))
                        /\ WF_vars(TimePasses(p))

FairSpec == Spec /\ Fairness

-----------------------------------------------------------------------------
(* Properties.                                                            *)

\* The server's JoinSignals holds only answers, at most one per runP2PJoin
\* attempt, in the order of the attempts and none from an attempt not yet
\* started, however requests and responses are lost: exchangeAsJoiner
\* sends its answer once and a retry is a new attempt. So the host's type
\* check never fails and the answer it applies is the oldest one stored.
AnswersInOrder ==
    /\ \A i \in 1..Len(joinSignals) :
          joinSignals[i].type = "answer" /\ joinSignals[i].by \in 1..attempt
    /\ \A i, j \in 1..Len(joinSignals) :
          i < j => joinSignals[i].by < joinSignals[j].by

\* The server's session behaves as SignalMailbox: HostSignals and
\* JoinSignals only grow at their end (AddSignal's append), HostIndex and
\* JoinIndex only step to the next unread signal (GetSignal), none of it
\* changes unless RunSignalServer serves the session, and once runP2PHost's
\* deferred cancel() has stopped the server it never serves it again.
\* runP2PHost's own polls do not check this: they rely on the server
\* running for as long as the host is between CreateSession and cancel().
Mailbox == INSTANCE SignalMailbox WITH Msgs <- Signals, created <- session,
                                       live <- Serving
MailboxSpec == Mailbox!Spec

\* Whatever the network loses and whichever attempt the host's answer came
\* from, every WaitForSignal and WaitForConnection of either side ends:
\* the 2-minute deadlines of part_001 (WaitForSignal) and
\* PeerConnection.WaitForConnection bound the exchange.
SignallingEnds == \A p \in Peers : InTimedWait(p) ~> ~InTimedWait(p)

\* After the game exits, runP2PHost / runP2PJoin closes the peer
\* connection and, once the bridge goroutine has ended, returns to the menu
\* (its "Session ended."), whether or not the game ever listened.
ReturnsAfterGameExit ==
    \A p \in Peers :
        (game[p] = "exited" /\ (IF p = "host" THEN hp ELSE jp) = "drain")
            ~> (IF p = "host" THEN hp ELSE jp) = "menu"

=============================================================================
