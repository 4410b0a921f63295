---------------------------- MODULE SignalMailbox ----------------------------
(***************************************************************************)
(* What the P2P signal server (src/internal/p2p/signal_server.go, which  *)
(* the spec does not describe) gives a session's two clients through      *)
(* AddSignal and GetSignal, with no HTTP, codes or SDP: once the session is *)
(* created, each side's signals are kept in the order they were sent and  *)
(* each side reads the other's signals one at a time, in that order, each *)
(* once; nothing is sent or read while the server does not serve the     *)
(* session, and a server that has stopped never serves it again. P2P      *)
(* refines this module under created <- session, live <- Serving.         *)
(***************************************************************************)
EXTENDS Naturals, Sequences

CONSTANT Msgs  \* what a client may post as a signal

VARIABLES
    created,      \* CreateSession has run
    live,         \* the server serves the session
    hostSignals,  \* signals the host sent, in order
    joinSignals,  \* signals the joiner sent, in order
    hostIndex,    \* joiner signals the host has read
    joinIndex     \* host signals the joiner has read

vars == <<created, live, hostSignals, joinSignals, hostIndex, joinIndex>>

Init ==
    /\ created = FALSE
    /\ live = FALSE
    /\ hostSignals = << >>
    /\ joinSignals = << >>
    /\ hostIndex = 0
    /\ joinIndex = 0

\* The session is created, once, and served from then on.
Create ==
    /\ ~created
    /\ created' = TRUE
    /\ live' = TRUE
    /\ UNCHANGED <<hostSignals, joinSignals, hostIndex, joinIndex>>

\* A side's signal is appended to its own list.
SendHost(m) ==
    /\ live
    /\ hostSignals' = Append(hostSignals, m)
    /\ UNCHANGED <<created, live, joinSignals, hostIndex, joinIndex>>

SendJoin(m) ==
    /\ live
    /\ joinSignals' = Append(joinSignals, m)
    /\ UNCHANGED <<created, live, hostSignals, hostIndex, joinIndex>>

\* A side reads the oldest signal of the other that it has not read.
ReceiveHost ==
    /\ live
    /\ hostIndex < Len(joinSignals)
    /\ hostIndex' = hostIndex + 1
    /\ UNCHANGED <<created, live, hostSignals, joinSignals, joinIndex>>

ReceiveJoin ==
    /\ live
    /\ joinIndex < Len(hostSignals)
    /\ joinIndex' = joinIndex + 1
    /\ UNCHANGED <<created, live, hostSignals, joinSignals, hostIndex>>

\* The server stops serving, for good.
Shutdown ==
    /\ live
    /\ live' = FALSE
    /\ UNCHANGED <<created, hostSignals, joinSignals, hostIndex, joinIndex>>

Next ==
    \/ Create
    \/ \E m \in Msgs : SendHost(m) \/ SendJoin(m)
    \/ ReceiveHost \/ ReceiveJoin
    \/ Shutdown

Spec == Init /\ [][Next]_vars

=============================================================================
