--------------------------- MODULE MCRateLimiter ----------------------------
(***************************************************************************)
(* Small instances of RateLimiter for TLC.                                 *)
(***************************************************************************)
EXTENDS RateLimiter, TLC

\* A call costs two units: one tick refills half a call on the slow axes.
SmallBurst == [session |-> 2, ip |-> 4, ip_session_create |-> 2]
SmallRate == [session |-> 1, ip |-> 2, ip_session_create |-> 1]

KeySymmetry == Permutations(Session) \cup Permutations(Ip)
=============================================================================
