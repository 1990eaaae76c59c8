------------------------------ MODULE MCSplitPD ------------------------------
(* SplitPD for TLC.  Tokens come in pages of 2; a short lane of 6 tokens has *)
(* room for one of a and b, a long one of 4 has none for d.                  *)
EXTENDS SplitPD, TLC

CONSTANTS a, b, c, d

Of(f) == [r \in Request |-> f[r]]

LaneOfABCD == Of(a :> 0 @@ b :> 0 @@ c :> 1 @@ d :> 1)
PromptABCD == Of(a :> 1 @@ b :> 3 @@ c :> 1 @@ d :> 4)
OutputABCD == Of(a :> 3 @@ b :> 1 @@ c :> 3 @@ d :> 1)
SlotsSL == 0 :> 2 @@ 1 :> 1
TokensSL == 0 :> 6 @@ 1 :> 4
=============================================================================
