---------------------------- MODULE MCRateLimiter ----------------------------
(* Small instances of RateLimiter for TLC. *)
EXTENDS RateLimiter

CONSTANTS w1, w2, r1, r2, k1, u1, u2, u3

(* One goroutine per replica. *)
MCHome == [w \in Workers |-> IF w = w1 THEN r1 ELSE r2]
=============================================================================
