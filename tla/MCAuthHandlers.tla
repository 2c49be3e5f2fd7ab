---------------------------- MODULE MCAuthHandlers ----------------------------
(* Two usernames and two emails share a store that has room for what is    *)
(* live at once until MaxTime: the two global keys, two failed sign-ins    *)
(* and the keys of one registration.                                       *)
EXTENDS AuthHandlers, TLC

CONSTANTS u1, u2, e1, e2

Symmetry == Permutations(Request)

StoreKey         == 1 .. 10
StoreFailureKey  == u1 :> 3 @@ u2 :> 4 @@ e1 :> 5 @@ e2 :> 6
StoreRegisterKey == u1 :> 7 @@ u2 :> 8 @@ e1 :> 9 @@ e2 :> 10
StoreLimit       == [k \in StoreKey |-> 1]
StoreWindow      == [k \in StoreKey |-> 2]
=============================================================================
