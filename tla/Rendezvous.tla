------------------------------ MODULE Rendezvous ------------------------------
(***************************************************************************)
(* The rendezvous server: the HTTP handlers of src/unnamed/part_005        *)
(* (package main of cmd/signaling) over the session Store of               *)
(* src/server/internal/session/store.go. Every Store method runs under     *)
(* s.mu, and each handler calls at most one mutating Store method, so a   *)
(* handler is one atomic step: what it answers and what it changes.       *)
(*                                                                         *)
(* Ids are drawn fresh (128-bit random ids do not collide); codes are     *)
(* drawn from Codes with no redraw, as generateCode does, so two sessions *)
(* may share one. Time is abstracted into expired[id] (now is after       *)
(* ExpiresAt). The rate limiter's verdict is an input of each handler.    *)
(* resp is the answer of the last request: the handler, the HTTP status, *)
(* and the session it names.                                               *)
(***************************************************************************)
EXTENDS Naturals

CONSTANTS
    Ids,    \* session ids (generateID(16))
    Codes,  \* join codes (generateCode)
    NoId    \* no session: a missing entry of byCodes, an answer with no id

ASSUME RendezvousAssumption == NoId \notin Ids /\ Codes # {}

VARIABLES
    live,      \* the keys of s.sessions
    used,      \* every id ever drawn
    code,      \* Session.Code
    joined,    \* Session.JoinToken != ""
    hostConn,  \* Session.HostConnected
    joinConn,  \* Session.JoinConnected
    expired,   \* time.Now().After(Session.ExpiresAt)
    byCodes,   \* s.byCodes: code -> session id, or NoId
    resp       \* the last answer

vars == <<live, used, code, joined, hostConn, joinConn, expired,
          byCodes, resp>>

Ops == {"none", "create", "join", "status", "connect", "delete"}

Statuses == {0, 200, 401, 403, 404, 429}

Resp == [op : Ops, status : Statuses, id : Ids \cup {NoId}]

TypeOK ==
    /\ live \subseteq used /\ used \subseteq Ids
    /\ code \in [Ids -> Codes]
    /\ joined \in [Ids -> BOOLEAN]
    /\ hostConn \in [Ids -> BOOLEAN]
    /\ joinConn \in [Ids -> BOOLEAN]
    /\ expired \in [Ids -> BOOLEAN]
    /\ byCodes \in [Codes -> Ids \cup {NoId}]
    /\ resp \in Resp

\* The record is present and not expired (GetByID, GetByCode, Join).
Valid(id) == id \in live /\ ~expired[id]

Answer(op, status, id) == resp' = [op |-> op, status |-> status, id |-> id]

Init ==
    /\ live = {} /\ used = {}
    /\ code = [id \in Ids |-> CHOOSE k \in Codes : TRUE]
    /\ joined = [id \in Ids |-> FALSE]
    /\ hostConn = [id \in Ids |-> FALSE]
    /\ joinConn = [id \in Ids |-> FALSE]
    /\ expired = [id \in Ids |-> FALSE]
    /\ byCodes = [k \in Codes |-> NoId]
    /\ resp = [op |-> "none", status |-> 0, id |-> NoId]

-----------------------------------------------------------------------------
\* Any handler whose rate-limit bucket is empty: 429, no work done.
RateLimited ==
    /\ \E op \in {"create", "join"} : Answer(op, 429, NoId)
    /\ UNCHANGED <<live, used, code, joined, hostConn, joinConn,
                   expired, byCodes>>

\* handleCreate -> Store.Create: a fresh id and a random code, indexed by
\* the code without checking whether it is taken.
HandleCreate ==
    \E id \in Ids \ used, k \in Codes :
        /\ live' = live \cup {id}
        /\ used' = used \cup {id}
        /\ code' = [code EXCEPT ![id] = k]
        /\ byCodes' = [byCodes EXCEPT ![k] = id]
        /\ Answer("create", 200, id)
        /\ UNCHANGED <<joined, hostConn, joinConn, expired>>

\* Store.Join on code k, and handleJoin's answer: every error of Join,
\* unknown code, expired session or a session that already has a joiner,
\* is answered 404.
Join(k) ==
    LET id == byCodes[k] IN
    IF id = NoId \/ ~Valid(id) \/ joined[id]
    THEN /\ Answer("join", 404, NoId)
         /\ UNCHANGED joined
    ELSE /\ joined' = [joined EXCEPT ![id] = TRUE]
         /\ Answer("join", 200, id)

\* handleJoin with a normalized code k (the normalization is JoinCode's).
HandleJoin(k) ==
    /\ Join(k)
    /\ UNCHANGED <<live, used, code, hostConn, joinConn, expired, byCodes>>

\* handleStatus -> GetByID.
HandleStatus(id) ==
    /\ IF Valid(id) THEN Answer("status", 200, id)
                    ELSE Answer("status", 404, NoId)
    /\ UNCHANGED <<live, used, code, joined, hostConn, joinConn,
                   expired, byCodes>>

\* handleConnect -> SetHostConnected / SetJoinConnected: the flag is set
\* on any record still in the map, expired or not.
HandleConnect(id, role, b) ==
    /\ IF id \in live
       THEN /\ hostConn' = IF role = "host"
                           THEN [hostConn EXCEPT ![id] = b] ELSE hostConn
            /\ joinConn' = IF role = "joiner"
                           THEN [joinConn EXCEPT ![id] = b] ELSE joinConn
            /\ Answer("connect", 200, id)
       ELSE /\ Answer("connect", 404, NoId)
            /\ UNCHANGED <<hostConn, joinConn>>
    /\ UNCHANGED <<live, used, code, joined, expired, byCodes>>

\* Mutant: Delete removes the record but not its code index.
DeleteKeepsCode(id) ==
    /\ live' = live \ {id}
    /\ UNCHANGED byCodes

\* Store.Delete: the record and the code index entry of its code, whatever
\* session that entry names now.
Delete(id) ==
    /\ live' = live \ {id}
    /\ byCodes' = [byCodes EXCEPT ![code[id]] = NoId]

\* Mutant: handleDelete looks the session up without the expiry check.
HandleDeleteExpired(id, tok) ==
    /\ CASE tok = "none" ->
              Answer("delete", 401, NoId) /\ UNCHANGED <<live, byCodes>>
         [] tok = "host" /\ id \in live ->
              Delete(id) /\ Answer("delete", 200, id)
         [] OTHER ->
              Answer("delete", 403, NoId) /\ UNCHANGED <<live, byCodes>>
    /\ UNCHANGED <<used, code, joined, hostConn, joinConn, expired>>

\* handleDelete with an Authorization header tok: absent (401), not the
\* session's host token (403, also for an unknown or expired session), or
\* the host token.
HandleDelete(id, tok) ==
    /\ CASE tok = "none" ->
              Answer("delete", 401, NoId) /\ UNCHANGED <<live, byCodes>>
         [] tok = "host" /\ Valid(id) ->
              Delete(id) /\ Answer("delete", 200, id)
         [] OTHER ->
              Answer("delete", 403, NoId) /\ UNCHANGED <<live, byCodes>>
    /\ UNCHANGED <<used, code, joined, hostConn, joinConn, expired>>

\* Time passes beyond a session's ExpiresAt.
Expire(id) ==
    /\ id \in live /\ ~expired[id]
    /\ expired' = [expired EXCEPT ![id] = TRUE]
    /\ UNCHANGED <<live, used, code, joined, hostConn, joinConn,
                   byCodes, resp>>

\* cleanup: the janitor removes every expired record and the code index
\* entry of its code.
Cleanup ==
    LET gone == {id \in live : expired[id]} IN
    /\ gone # {}
    /\ live' = live \ gone
    /\ byCodes' = [k \in Codes |->
                     IF \E id \in gone : code[id] = k THEN NoId ELSE byCodes[k]]
    /\ UNCHANGED <<used, code, joined, hostConn, joinConn, expired,
                   resp>>

Next ==
    \/ RateLimited
    \/ HandleCreate
    \/ \E k \in Codes : HandleJoin(k)
    \/ \E id \in Ids :
          \/ HandleStatus(id)
          \/ \E role \in {"host", "joiner"}, b \in BOOLEAN :
                HandleConnect(id, role, b)
          \/ \E tok \in {"none", "host", "other"} : HandleDelete(id, tok)
          \/ Expire(id)
    \/ Cleanup

Spec == Init /\ [][Next]_vars

-----------------------------------------------------------------------------
(***************************************************************************)
(* Properties.                                                             *)
(***************************************************************************)

\* The code index never dangles: an entry of s.byCodes names a record that
\* is still in s.sessions and carries that code, across creates with a
\* colliding code, deletes and janitor sweeps (Store.Delete, cleanup).
CodeIndexSound ==
    \A k \in Codes : byCodes[k] # NoId =>
        byCodes[k] \in live /\ code[byCodes[k]] = k

\* A session's phase as the store shows it: never drawn, living, joined, or
\* dead once it has expired or been removed (Valid, Session.JoinToken).
Phase == [id \in Ids |->
            IF id \notin used THEN "unused"
            ELSE IF ~Valid(id) THEN "dead"
            ELSE IF joined[id] THEN "joined" ELSE "open"]

\* The last answer, when it was a 200.
Last == IF resp.status = 200 THEN [op |-> resp.op, id |-> resp.id]
        ELSE [op |-> "none", id |-> NoId]

\* (Spec, sections 3 and 4.3) seen through Phase and Last, the handlers and
\* the store are the session life cycle: create succeeds once per fresh
\* id, join at most once and only while the session lives, status and
\* delete only for a living session, and an expired or deleted session
\* never comes back, whatever the code index and the janitor do
\* (handleCreate, handleJoin, handleStatus, handleDelete, Store).
Lifecycle == INSTANCE SessionLifecycle WITH phase <- Phase, last <- Last

LifecycleSpec == Lifecycle!Spec

=============================================================================
