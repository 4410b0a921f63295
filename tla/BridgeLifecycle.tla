--------------------------- MODULE BridgeLifecycle ---------------------------
(***************************************************************************)
(* What the bridge promises about its state (spec 4.6, the transition     *)
(* table), with no sockets, loops or caller: from init the bridge waits    *)
(* for the local listener, becomes ready when it answers, and is attached  *)
(* to a relay socket, which either starts forwarding (StateConnected) or   *)
(* fails (StateError); the wait may time out into StateError; and a close  *)
(* from any state stops the bridge for good (StateDisconnected). A caller *)
(* that does its own probing attaches from init. Bridge refines this       *)
(* module under state <- state, stopped <- stopped.                        *)
(***************************************************************************)
VARIABLES
    state,    \* b.state
    stopped   \* b.stopCh has been closed

vars == <<state, stopped>>

Init ==
    /\ state = "StateInit"
    /\ stopped = FALSE

\* The caller asks to wait for the local listener.
Wait ==
    /\ ~stopped
    /\ state = "StateInit"
    /\ state' = "StateWaitingForGame"
    /\ UNCHANGED stopped

\* A dial of the target succeeds within the wait.
Probed ==
    /\ ~stopped
    /\ state = "StateWaitingForGame"
    /\ state' = "StateReady"
    /\ UNCHANGED stopped

\* The wait's deadline passes.
TimedOut ==
    /\ ~stopped
    /\ state = "StateWaitingForGame"
    /\ state' = "StateError"
    /\ UNCHANGED stopped

\* The caller supplies an open relay socket: forwarding starts, or the
\* local dial fails.
Attach ==
    /\ ~stopped
    /\ state \in {"StateInit", "StateReady"}
    /\ state' \in {"StateConnected", "StateError"}
    /\ UNCHANGED stopped

\* Cancellation, or either copy direction ending: the bridge stops.
Stop ==
    /\ ~stopped
    /\ stopped' = TRUE
    /\ state' = "StateDisconnected"

Next == Wait \/ Probed \/ TimedOut \/ Attach \/ Stop

Spec == Init /\ [][Next]_vars

=============================================================================
