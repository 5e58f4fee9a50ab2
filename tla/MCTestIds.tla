------------------------------- MODULE MCTestIds -------------------------------
(* Three tests, the first with two goroutines. *)
EXTENDS TestIds, TLC

CONSTANTS t1, t2, t3, r1, r2, r3, r4

MCTestOf == (r1 :> t1) @@ (r2 :> t1) @@ (r3 :> t2) @@ (r4 :> t3)
=============================================================================
