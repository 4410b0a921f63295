-------------------------------- MODULE Relay --------------------------------
(***************************************************************************)
(* The relay of src/server/internal/session/store.go (package relay, the   *)
(* second file of that source): one goroutine per accepted connection runs *)
(* HandleConnection; authenticated connections meet in the table pending,  *)
(* guarded by r.mu; a parked connection polls in waitForPair; the second   *)
(* connection of a session runs pairConnections, whose two copy goroutines *)
(* each close the socket they write to when their io.Copy returns; the    *)
(* janitor cleanup reaps entries older than the pair timeout.             *)
(*                                                                         *)
(* Time is abstracted into flags: pairExpired[c] says that the pair        *)
(* timeout counted from c's installation has elapsed (CreatedAt for the   *)
(* janitor, the local deadline for waitForPair), and deadlinePassed[c]     *)
(* that the max-session deadline set on c by pairConnections has passed.  *)
(* Each critical section of r.mu is one action.                            *)
(***************************************************************************)
CONSTANTS
    Conns,      \* connections accepted by the relay's listener
    Sessions,   \* session ids carried by valid relay tokens
    NoConn,     \* "no connection": an empty slot of pending or peer
    BadToken,   \* an auth line whose token does not verify
    NoMessage   \* the client never writes a well-formed auth line

Roles == {"host", "joiner"}

\* The claims a valid relay token carries (TokenClaims minus the expiry).
Claims == [sid : Sessions, role : Roles]

ASSUME ConstAssumption ==
    /\ NoConn \notin Conns
    /\ BadToken \notin Claims
    /\ NoMessage \notin Claims
    /\ BadToken # NoMessage

VARIABLES
    hstate,         \* where each HandleConnection goroutine is
    sock,           \* the relay's end of each socket: "none", "open", "closed"
    hup,            \* the client has closed its end (the relay reads EOF)
    claim,          \* what the client sends: valid claims, BadToken, NoMessage
    pending,        \* r.pending: session id -> parked connection, or NoConn
    peer,           \* the connection each spliced connection is copied to
    copy,           \* the io.Copy goroutine reading from each connection
    pairExpired,    \* the pair timeout of the connection has elapsed
    deadlinePassed  \* the max-session deadline of the connection has passed

vars == <<hstate, sock, hup, claim, pending, peer, copy,
          pairExpired, deadlinePassed>>

HState == {"idle", "handshake", "validating", "waiting", "splicing", "done"}

AuthMsg == Claims \cup {BadToken, NoMessage}

TypeOK ==
    /\ hstate \in [Conns -> HState]
    /\ sock \in [Conns -> {"none", "open", "closed"}]
    /\ hup \in [Conns -> BOOLEAN]
    /\ claim \in [Conns -> AuthMsg]
    /\ pending \in [Sessions -> Conns \cup {NoConn}]
    /\ peer \in [Conns -> Conns \cup {NoConn}]
    /\ copy \in [Conns -> {"idle", "run", "done"}]
    /\ pairExpired \in [Conns -> BOOLEAN]
    /\ deadlinePassed \in [Conns -> BOOLEAN]

-----------------------------------------------------------------------------
\* Helper state formulae.

\* Role of the conn that is parked for session s (PendingConnection.Role).
PendingRole(s) == claim[pending[s]].role

IsPending(c) == \E s \in Sessions : pending[s] = c

-----------------------------------------------------------------------------
Init ==
    /\ hstate = [c \in Conns |-> "idle"]
    /\ sock = [c \in Conns |-> "none"]
    /\ hup = [c \in Conns |-> FALSE]
    /\ claim = [c \in Conns |-> NoMessage]
    /\ pending = [s \in Sessions |-> NoConn]
    /\ peer = [c \in Conns |-> NoConn]
    /\ copy = [c \in Conns |-> "idle"]
    /\ pairExpired = [c \in Conns |-> FALSE]
    /\ deadlinePassed = [c \in Conns |-> FALSE]

\* acceptLoop: a client dials and the relay starts HandleConnection; m is
\* the auth line the client will send (RelayClient.Connect), if any.
Accept(c, m) ==
    /\ hstate[c] = "idle"
    /\ hstate' = [hstate EXCEPT ![c] = "handshake"]
    /\ sock' = [sock EXCEPT ![c] = "open"]
    /\ claim' = [claim EXCEPT ![c] = m]
    /\ UNCHANGED <<hup, pending, peer, copy, pairExpired, deadlinePassed>>

\* The client closes its end of the socket, at any time.
Hangup(c) ==
    /\ hstate[c] # "idle"
    /\ ~hup[c]
    /\ hup' = [hup EXCEPT ![c] = TRUE]
    /\ UNCHANGED <<hstate, sock, claim, pending, peer, copy, pairExpired,
                   deadlinePassed>>

\* Mutant: no handshake deadline (conn.SetDeadline omitted), so a client
\* that never writes its auth line holds the handshake until it hangs up.
AuthFailNoDeadline(c) ==
    /\ hstate[c] = "handshake"
    /\ claim[c] \in Claims \/ hup[c]
    /\ hstate' = [hstate EXCEPT ![c] = "done"]
    /\ sock' = [sock EXCEPT ![c] = "closed"]
    /\ UNCHANGED <<hup, claim, pending, peer, copy, pairExpired, deadlinePassed>>

\* HandleConnection's early returns around a locally verified token: the
\* auth line is malformed or does not arrive before the 10 s deadline, or
\* the token verifies but its claims do not match the line's session and
\* role, or the success reply cannot be written. The deferred
\* conn.Close() runs; no shared state is touched.
AuthFail(c) ==
    /\ hstate[c] = "handshake"
    /\ claim[c] # BadToken
    /\ hstate' = [hstate EXCEPT ![c] = "done"]
    /\ sock' = [sock EXCEPT ![c] = "closed"]
    /\ UNCHANGED <<hup, claim, pending, peer, copy, pairExpired, deadlinePassed>>

\* tokenValidator.Validate: signer.Verify fails (a forged or expired
\* token), so validateRemote POSTs it to the rendezvous server's
\* /internal/validate with http.Post, whose default client has no timeout;
\* the 10 s deadline set on conn does not bound it.
ValidateRemote(c) ==
    /\ hstate[c] = "handshake"
    /\ claim[c] = BadToken
    /\ hstate' = [hstate EXCEPT ![c] = "validating"]
    /\ UNCHANGED <<sock, hup, claim, pending, peer, copy, pairExpired,
                   deadlinePassed>>

\* The POST returns: a transport error, or handleValidate's 401, since the
\* rendezvous server verifies with the same secret. Validate fails, the
\* handler sends its failure reply and returns, closing conn.
RemoteAnswer(c) ==
    /\ hstate[c] = "validating"
    /\ hstate' = [hstate EXCEPT ![c] = "done"]
    /\ sock' = [sock EXCEPT ![c] = "closed"]
    /\ UNCHANGED <<hup, claim, pending, peer, copy, pairExpired, deadlinePassed>>

\* Mutant: the displaced same-role connection is not closed.
RegisterNoDisplaceClose(c) ==
    LET s == claim[c].sid
        r == claim[c].role IN
    /\ hstate[c] = "handshake"
    /\ claim[c] \in Claims
    /\ IF pending[s] # NoConn /\ PendingRole(s) # r
       THEN LET p == pending[s] IN
            /\ pending' = [pending EXCEPT ![s] = NoConn]
            /\ hstate' = [hstate EXCEPT ![c] = "splicing"]
            /\ peer' = [peer EXCEPT ![c] = p, ![p] = c]
            /\ copy' = [copy EXCEPT ![c] = "run", ![p] = "run"]
            /\ UNCHANGED <<sock, pairExpired>>
       ELSE /\ pending' = [pending EXCEPT ![s] = c]
            /\ hstate' = [hstate EXCEPT ![c] = "waiting"]
            /\ UNCHANGED <<sock, peer, copy, pairExpired>>
    /\ UNCHANGED <<hup, claim, deadlinePassed>>

\* Mutant: any pending entry is paired, whatever its role.
RegisterAnyRole(c) ==
    LET s == claim[c].sid IN
    /\ hstate[c] = "handshake"
    /\ claim[c] \in Claims
    /\ IF pending[s] # NoConn
       THEN LET p == pending[s] IN
            /\ pending' = [pending EXCEPT ![s] = NoConn]
            /\ hstate' = [hstate EXCEPT ![c] = "splicing"]
            /\ peer' = [peer EXCEPT ![c] = p, ![p] = c]
            /\ copy' = [copy EXCEPT ![c] = "run", ![p] = "run"]
            /\ UNCHANGED <<sock, pairExpired>>
       ELSE /\ pending' = [pending EXCEPT ![s] = c]
            /\ hstate' = [hstate EXCEPT ![c] = "waiting"]
            /\ UNCHANGED <<sock, peer, copy, pairExpired>>
    /\ UNCHANGED <<hup, claim, deadlinePassed>>

\* Mutant: the pairing branch splices but forgets delete(r.pending, sid).
RegisterKeepsEntry(c) ==
    LET s == claim[c].sid
        r == claim[c].role IN
    /\ hstate[c] = "handshake"
    /\ claim[c] \in Claims
    /\ IF pending[s] # NoConn /\ PendingRole(s) # r
       THEN LET p == pending[s] IN
            /\ hstate' = [hstate EXCEPT ![c] = "splicing"]
            /\ peer' = [peer EXCEPT ![c] = p, ![p] = c]
            /\ copy' = [copy EXCEPT ![c] = "run", ![p] = "run"]
            /\ UNCHANGED <<sock, pending, pairExpired>>
       ELSE /\ sock' = IF pending[s] # NoConn
                       THEN [sock EXCEPT ![pending[s]] = "closed"]
                       ELSE sock
            /\ pending' = [pending EXCEPT ![s] = c]
            /\ hstate' = [hstate EXCEPT ![c] = "waiting"]
            /\ UNCHANGED <<peer, copy, pairExpired>>
    /\ UNCHANGED <<hup, claim, deadlinePassed>>

\* HandleConnection after a successful handshake for claims (s, r) read
\* from the client and verified: the critical section on r.mu. An opposite-role entry is removed and the
\* two are spliced (pairConnections sets the max-session deadline and
\* starts both copies); otherwise a same-role entry is closed and replaced
\* and the goroutine goes on to waitForPair.
Register(c) ==
    LET s == claim[c].sid
        r == claim[c].role IN
    /\ hstate[c] = "handshake"
    /\ claim[c] \in Claims
    /\ IF pending[s] # NoConn /\ PendingRole(s) # r
       THEN LET p == pending[s] IN
            /\ pending' = [pending EXCEPT ![s] = NoConn]
            /\ hstate' = [hstate EXCEPT ![c] = "splicing"]
            /\ peer' = [peer EXCEPT ![c] = p, ![p] = c]
            /\ copy' = [copy EXCEPT ![c] = "run", ![p] = "run"]
            /\ UNCHANGED <<sock, pairExpired>>
       ELSE /\ sock' = IF pending[s] # NoConn
                       THEN [sock EXCEPT ![pending[s]] = "closed"]
                       ELSE sock
            /\ pending' = [pending EXCEPT ![s] = c]
            /\ hstate' = [hstate EXCEPT ![c] = "waiting"]
            /\ UNCHANGED <<peer, copy, pairExpired>>
    /\ UNCHANGED <<hup, claim, deadlinePassed>>

\* Time passes beyond the pair timeout of a parked connection.
PairTimeoutElapses(c) ==
    /\ hstate[c] = "waiting"
    /\ ~pairExpired[c]
    /\ pairExpired' = [pairExpired EXCEPT ![c] = TRUE]
    /\ UNCHANGED <<hstate, sock, hup, claim, pending, peer, copy, deadlinePassed>>

\* One iteration of waitForPair that returns: the entry for the session
\* is gone or belongs to another connection, or the deadline has passed
\* (then the entry is deleted if it is still c's). HandleConnection then
\* returns and its deferred conn.Close() closes c. An iteration that
\* finds c still parked before its deadline only sleeps.
WaitForPair(c) ==
    LET s == claim[c].sid IN
    /\ hstate[c] = "waiting"
    /\ pending[s] # c \/ pairExpired[c]
    /\ pending' = IF pending[s] = c THEN [pending EXCEPT ![s] = NoConn]
                                    ELSE pending
    /\ hstate' = [hstate EXCEPT ![c] = "done"]
    /\ sock' = [sock EXCEPT ![c] = "closed"]
    /\ UNCHANGED <<hup, claim, peer, copy, pairExpired, deadlinePassed>>

\* cleanup: the janitor closes and deletes every entry older than the
\* pair timeout, in one critical section.
Stale == {s \in Sessions : pending[s] # NoConn /\ pairExpired[pending[s]]}

\* Mutant: the janitor closes stale connections but forgets to delete.
CleanupKeepsEntry ==
    /\ Stale # {}
    /\ sock' = [c \in Conns |->
                   IF \E s \in Stale : pending[s] = c THEN "closed" ELSE sock[c]]
    /\ UNCHANGED <<pending, hstate, hup, claim, peer, copy, pairExpired,
                   deadlinePassed>>

Cleanup ==
    /\ Stale # {}
    /\ sock' = [c \in Conns |->
                   IF \E s \in Stale : pending[s] = c THEN "closed" ELSE sock[c]]
    /\ pending' = [s \in Sessions |-> IF s \in Stale THEN NoConn ELSE pending[s]]
    /\ UNCHANGED <<hstate, hup, claim, peer, copy, pairExpired, deadlinePassed>>

\* The max-session deadline set by pairConnections passes (on both sockets).
MaxSessionElapses(c) ==
    /\ copy[c] # "idle"
    /\ ~deadlinePassed[c]
    /\ deadlinePassed' = [deadlinePassed EXCEPT ![c] = TRUE, ![peer[c]] = TRUE]
    /\ UNCHANGED <<hstate, sock, hup, claim, pending, peer, copy, pairExpired>>

\* io.Copy(peer, c) returns: EOF from the client, a read on a socket the
\* relay closed, the deadline, or a write to a closed peer socket; the
\* copy goroutine then closes the socket it writes to.
CopyEnds(c) ==
    /\ copy[c] = "run"
    /\ \/ hup[c]
       \/ sock[c] = "closed"
       \/ sock[peer[c]] = "closed"
       \/ deadlinePassed[c]
    /\ copy' = [copy EXCEPT ![c] = "done"]
    /\ sock' = [sock EXCEPT ![peer[c]] = "closed"]
    /\ UNCHANGED <<hstate, hup, claim, pending, peer, pairExpired, deadlinePassed>>

\* wg.Wait() returns in pairConnections; HandleConnection returns and its
\* deferred conn.Close() runs.
SpliceEnds(c) ==
    /\ hstate[c] = "splicing"
    /\ copy[c] = "done"
    /\ copy[peer[c]] = "done"
    /\ hstate' = [hstate EXCEPT ![c] = "done"]
    /\ sock' = [sock EXCEPT ![c] = "closed"]
    /\ UNCHANGED <<hup, claim, pending, peer, copy, pairExpired, deadlinePassed>>

\* The steps the relay itself takes on c (the client's are Accept, Hangup).
HandlerStep(c) ==
    \/ AuthFail(c)
    \/ ValidateRemote(c)
    \/ RemoteAnswer(c)
    \/ Register(c)

Next ==
    \/ \E c \in Conns :
          \/ \E m \in AuthMsg : Accept(c, m)
          \/ Hangup(c)
          \/ HandlerStep(c)
          \/ PairTimeoutElapses(c)
          \/ WaitForPair(c)
          \/ MaxSessionElapses(c)
          \/ CopyEnds(c)
          \/ SpliceEnds(c)
    \/ Cleanup

\* The relay's goroutines and the clock are fair; clients are not. The
\* rendezvous server's answer to /internal/validate is part of
\* HandlerStep: handleValidate never blocks but on s.mu, and the default
\* transport's TCP keep-alive ends a POST to a dead peer.
Fairness ==
    /\ \A c \in Conns :
          /\ WF_vars(HandlerStep(c))
          /\ WF_vars(PairTimeoutElapses(c))
          /\ WF_vars(WaitForPair(c))
          /\ WF_vars(MaxSessionElapses(c))
          /\ WF_vars(CopyEnds(c))
          /\ WF_vars(SpliceEnds(c))
    /\ WF_vars(Cleanup)

Spec == Init /\ [][Next]_vars /\ Fairness

-----------------------------------------------------------------------------
(***************************************************************************)
(* Properties.                                                             *)
(***************************************************************************)

\* Every entry of r.pending names a connection whose goroutine is still in
\* waitForPair, that authenticated for that session, and whose socket the
\* relay has not closed: so the splice started by a later opposite-role
\* connection (HandleConnection's pairing branch) never gets a socket that
\* the janitor, a displacement or a pair timeout has already closed.
PendingIsLive ==
    \A s \in Sessions : pending[s] # NoConn =>
        /\ hstate[pending[s]] = "waiting"
        /\ sock[pending[s]] = "open"
        /\ claim[pending[s]].sid = s

\* The relay never keeps a socket open that nobody will use: an open
\* socket belongs to a handshake in progress, a parked entry of r.pending
\* or a running splice. A displaced same-role connection and a reaped
\* entry are closed in the same critical section that forgets them
\* (HandleConnection's displacement branch, cleanup).
NoOrphanSocket ==
    \A c \in Conns : sock[c] = "open" =>
        \/ hstate[c] \in {"handshake", "validating"}
        \/ IsPending(c)
        \/ copy[c] # "idle"

\* pairConnections only ever splices a host with a joiner of the same
\* session, each copied to the other.
SplicePairsOpposites ==
    \A c \in Conns : copy[c] # "idle" =>
        /\ peer[c] \in Conns
        /\ peer[peer[c]] = c
        /\ claim[c] \in Claims /\ claim[peer[c]] \in Claims
        /\ claim[c].sid = claim[peer[c]].sid
        /\ claim[c].role # claim[peer[c]].role

\* Every HandleConnection goroutine returns: the handshake deadline, the
\* answer of /internal/validate, the pair timeout and the max-session
\* deadline end each phase, whatever the clients do.
HandlerReturns ==
    \A c \in Conns : hstate[c] # "idle" ~> hstate[c] = "done"

\* (Spec, section 4.5) a spliced connection stays open until its client
\* hangs up, its peer's client hangs up or the max-session deadline
\* passes: the relay itself never cuts a live splice.
SpliceIntact ==
    \A c \in Conns :
        (/\ copy[c] # "idle"
         /\ ~hup[c] /\ ~hup[peer[c]]
         /\ ~deadlinePassed[c]) => sock[c] = "open"

\* (Spec, section 8, property 6) pairing is at most once per session id:
\* however many connections authenticate for a session, at most one pair
\* is ever spliced.
PairOnce ==
    \A s \in Sessions :
        \A a, b \in Conns :
            (/\ copy[a] # "idle" /\ copy[b] # "idle"
             /\ claim[a].sid = s /\ claim[b].sid = s)
            => b \in {a, peer[a]}

-----------------------------------------------------------------------------
(***************************************************************************)
(* The inductive invariant behind PendingIsLive, NoOrphanSocket and        *)
(* SplicePairsOpposites (proved in RelayProofs). The extra facts say that  *)
(* a connection's copy goroutines start only when it is spliced, that a   *)
(* socket is open throughout its handshake, that both ends of a splice    *)
(* have started copying, and that a parked connection                     *)
(* holds valid claims and has not been spliced yet.                        *)
(***************************************************************************)
Bookkeeping ==
    /\ \A c \in Conns : hstate[c] \in {"idle", "handshake", "validating"} =>
                          copy[c] = "idle"
    /\ \A c \in Conns : hstate[c] \in {"handshake", "validating"} =>
                          sock[c] = "open"
    /\ \A c \in Conns : copy[c] # "idle" => copy[peer[c]] # "idle"
    /\ \A s \in Sessions : pending[s] # NoConn =>
          /\ claim[pending[s]] \in Claims
          /\ copy[pending[s]] = "idle"

RelayInv ==
    /\ TypeOK
    /\ Bookkeeping
    /\ PendingIsLive
    /\ NoOrphanSocket
    /\ SplicePairsOpposites

-----------------------------------------------------------------------------
\* (Spec, section 4.5) the relay implements the pairing of module Pairing:
\* an authenticated connection is parked for its session or paired with
\* the opposite-role connection parked there, which leaves r.pending in the
\* same critical section; a pair is mutual and never undone or redone;
\* waitForPair and the janitor only give up parked entries.
Abstract == INSTANCE Pairing WITH parked <- pending, partner <- peer,
                                  Msgs <- AuthMsg
PairingSpec == Abstract!Spec

=============================================================================
