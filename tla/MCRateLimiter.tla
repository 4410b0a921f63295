---------------------------- MODULE MCRateLimiter ----------------------------
(***************************************************************************)
(* The rate limiter for TLC: one client, which may name itself or a second *)
(* address in a forwarding header. A token is two units and one unit      *)
(* refills per tick (a bucket refills in Burst * Scale / Rate = 4 ticks,  *)
(* as the create limiter refills in 18 s); the janitor's horizon is the   *)
(* smallest the assumption allows, and the window spans three ticks.      *)
(***************************************************************************)
EXTENDS RateLimiter, TLC

CONSTANTS a1, a2

MCAddrs == {a1, a2}
MCClients == {a1}

=============================================================================
