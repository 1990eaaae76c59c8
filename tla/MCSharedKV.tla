----------------------------- MODULE MCSharedKV -----------------------------
(* SharedKV for TLC: a one-layer and a two-layer model on one arena.        *)
EXTENDS SharedKV

CONSTANTS A, B

LayersAB == A :> 1 @@ B :> 2
HalfAB == A :> 1 @@ B :> 1
TargetAB == A :> 4 @@ B :> 8
LimitAB == A :> 6 @@ B :> 8

Symmetry == Permutations(Request)
=============================================================================
