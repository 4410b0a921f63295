------------------------------- MODULE Pairing -------------------------------
(***************************************************************************)
(* What the relay promises about pairing (spec, section 4.5), with no      *)
(* sockets, no goroutines and no clock: an authenticated connection is     *)
(* either parked for its session or paired at once with the opposite-role *)
(* connection parked there; a parked connection may be given up; a pair,  *)
(* once made, is mutual and permanent. Relay refines this module under    *)
(* parked <- pending, partner <- peer.                                     *)
(***************************************************************************)
CONSTANTS
    Conns,     \* connections
    Sessions,  \* session ids
    NoConn,    \* no connection
    Msgs       \* what a client may send as its auth line

Claims == [sid : Sessions, role : {"host", "joiner"}]

VARIABLES
    claim,    \* the auth line of each connection
    parked,   \* session -> the connection waiting for its peer, or NoConn
    partner   \* connection -> the connection it is paired with, or NoConn

vars == <<claim, parked, partner>>

Free(c) == partner[c] = NoConn /\ \A s \in Sessions : parked[s] # c

Init ==
    /\ claim \in [Conns -> Msgs]
    /\ parked = [s \in Sessions |-> NoConn]
    /\ partner = [c \in Conns |-> NoConn]

\* A connection neither parked nor paired presents an auth line.
Arrive(c, m) ==
    /\ Free(c)
    /\ claim' = [claim EXCEPT ![c] = m]
    /\ UNCHANGED <<parked, partner>>

\* An authenticated connection parks for its session, replacing a
\* connection of the same role, if any.
Park(c) ==
    LET s == claim[c].sid IN
    /\ claim[c] \in Claims
    /\ Free(c)
    /\ parked[s] = NoConn \/ claim[parked[s]].role = claim[c].role
    /\ parked' = [parked EXCEPT ![s] = c]
    /\ UNCHANGED <<claim, partner>>

\* An authenticated connection is paired with the opposite-role connection
\* parked for its session, which stops being parked.
Match(c) ==
    LET s == claim[c].sid
        p == parked[s] IN
    /\ claim[c] \in Claims
    /\ Free(c)
    /\ p # NoConn
    /\ partner[p] = NoConn
    /\ claim[p].role # claim[c].role
    /\ parked' = [parked EXCEPT ![s] = NoConn]
    /\ partner' = [partner EXCEPT ![c] = p, ![p] = c]
    /\ UNCHANGED claim

\* The parked connections of the sessions in S are given up.
Abandon(S) ==
    /\ \A s \in S : parked[s] # NoConn
    /\ parked' = [s \in Sessions |-> IF s \in S THEN NoConn ELSE parked[s]]
    /\ UNCHANGED <<claim, partner>>

Next ==
    \/ \E c \in Conns : (\E m \in Msgs : Arrive(c, m)) \/ Park(c) \/ Match(c)
    \/ \E S \in SUBSET Sessions : Abandon(S)

Spec == Init /\ [][Next]_vars

=============================================================================
