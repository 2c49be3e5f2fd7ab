----------------------- MODULE MCSlidingWindowLimiter -----------------------
(* A limiter that holds two of three keys: callers ask for keys 1 and 2    *)
(* together or for 2 alone with AllowAll, and for key 3 with Allow and     *)
(* Check, and push each other's keys out.                                  *)
EXTENDS SlidingWindowLimiter, TLC

MCKey    == {1, 2, 3}
MCLimit  == <<1, 1, 2>>
MCWindow == <<3, 1, 3>>
MCSingle == {3}
MCGroup  == {{1, 2}, {2}}

Symmetry == Permutations(Caller)
=============================================================================
