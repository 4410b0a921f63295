----------------------------- MODULE TokenBucket -----------------------------
(***************************************************************************)
(* What a rate limiter promises its callers (spec, section 4.2): one      *)
(* refilling token bucket per identity, created full and never forgotten. *)
(* allow(identity) succeeds iff the bucket holds a token and takes it;    *)
(* time refills every bucket up to its capacity. There is no janitor and  *)
(* no map of buckets: eviction is an implementation matter that must be   *)
(* invisible here, which is what RateLimiter's refinement of this module  *)
(* states.                                                                  *)
(***************************************************************************)
EXTENDS Naturals

CONSTANTS
    Ids,     \* the identities a limiter keys on
    Unit,    \* what one allowed call costs
    Refill,  \* what one tick refills
    Full     \* a bucket's capacity

VARIABLE tokens  \* identity -> what its bucket holds now

Init == tokens = [i \in Ids |-> Full]

\* allow(i) when the bucket holds a token: the call is let through and the
\* token is gone. (A refused call changes nothing: a stuttering step.)
Take(i) ==
    /\ tokens[i] >= Unit
    /\ tokens' = [tokens EXCEPT ![i] = @ - Unit]

\* Time passes: every bucket refills, up to its capacity.
Elapse ==
    tokens' = [i \in Ids |->
                 IF tokens[i] + Refill > Full THEN Full ELSE tokens[i] + Refill]

Next == (\E i \in Ids : Take(i)) \/ Elapse

Spec == Init /\ [][Next]_tokens

=============================================================================
