--------------------------- MODULE SessionLifecycle ---------------------------
(***************************************************************************)
(* What the rendezvous server promises about a session (spec, sections 3  *)
(* and 4.3), with no store, no code index and no janitor: a session is    *)
(* created once, joined at most once while it lives, and once dead (expired *)
(* or deleted) it never comes back. last is the last successful answer:   *)
(* which request succeeded, for which session. A refused request leaves   *)
(* no success behind. Rendezvous refines this module.                     *)
(***************************************************************************)
CONSTANTS
    Ids,   \* session ids
    NoId   \* no session

VARIABLES
    phase,  \* id -> "unused", "open", "joined" or "dead"
    last    \* the last successful answer: [op, id], or op "none"

vars == <<phase, last>>

Living == {"open", "joined"}

None == [op |-> "none", id |-> NoId]

Succeed(op, id) == last' = [op |-> op, id |-> id]

Init ==
    /\ phase = [id \in Ids |-> "unused"]
    /\ last = None

\* A session is created, with an id never used before.
Create(id) ==
    /\ phase[id] = "unused"
    /\ phase' = [phase EXCEPT ![id] = "open"]
    /\ Succeed("create", id)

\* The one successful join of a living session.
Join(id) ==
    /\ phase[id] = "open"
    /\ phase' = [phase EXCEPT ![id] = "joined"]
    /\ Succeed("join", id)

\* A status answer names a living session.
Status(id) ==
    /\ phase[id] \in Living
    /\ Succeed("status", id)
    /\ UNCHANGED phase

\* The relay's connect notification is accepted for any session not yet
\* swept away; nothing here depends on it.
Connect(id) ==
    /\ phase[id] # "unused"
    /\ Succeed("connect", id)
    /\ UNCHANGED phase

\* The host deletes a living session.
Delete(id) ==
    /\ phase[id] \in Living
    /\ phase' = [phase EXCEPT ![id] = "dead"]
    /\ Succeed("delete", id)

\* A living session runs out of time.
Expire(id) ==
    /\ phase[id] \in Living
    /\ phase' = [phase EXCEPT ![id] = "dead"]
    /\ UNCHANGED last

\* A request that is refused.
Refuse ==
    /\ last' = None
    /\ UNCHANGED phase

Next ==
    \/ Refuse
    \/ \E id \in Ids :
          Create(id) \/ Join(id) \/ Status(id) \/ Connect(id) \/ Delete(id)
          \/ Expire(id)

Spec == Init /\ [][Next]_vars

=============================================================================
