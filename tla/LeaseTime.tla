------------------------------ MODULE LeaseTime -----------------------------
(***************************************************************************)
(* Two sides compute how long a pair may take.  The server gives a lease   *)
(* (claim_pairs), the client a time limit to the program that plays the    *)
(* pair (play_pair), each from the time control of the test and the speed  *)
(* of the computer, with factors of its own.  Times are in milliseconds;   *)
(* the cpu_factor of the client is p / q.                                  *)
(***************************************************************************)
EXTENDS Integers

\* lround(time * cpu_factor)
Scaled(time, p, q) == (2 * time * p + q) \div (2 * q)

\* The client: base and 200 increments of two games of two sides, scaled and
\* rounded one by one, and two minutes.
PlayLimit(base, increment, p, q) ==
    4 * (Scaled(base, p, q) + 200 * Scaled(increment, p, q)) + 120000

\* The server: six times the estimate of base and 60 increments, scaled, of two
\* games of two sides, and never less than CAPI_LEASE_TTL_MIN_S.
EstimateOf(base, increment) == 4 * (base + 60 * increment)
LeaseOf(base, increment, p, q, ttl) ==
    LET sixfold == (6 * EstimateOf(base, increment) * p) \div q IN
    IF ttl >= sixfold THEN ttl ELSE sixfold
=============================================================================
