----------------------------- MODULE ArrayFilter ------------------------------
(***************************************************************************)
(* Array.prototype.filter, as the client uses it: the elements of an array *)
(* that pass a test, in their order. The test is the set of what passes.   *)
(***************************************************************************)
EXTENDS Integers, Sequences

Filter(array, passing) ==
  LET kept[n \in 0 .. Len(array)] ==
        IF n = 0 THEN <<>>
        ELSE IF array[n] \in passing THEN Append(kept[n - 1], array[n])
        ELSE kept[n - 1]
  IN kept[Len(array)]
=============================================================================
