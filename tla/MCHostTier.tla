------------------------------ MODULE MCHostTier ------------------------------
(* HostTier for TLC: one prompt of two full blocks and a token.                 *)
EXTENDS HostTier

OnePrompt == {<<1, 1, 2, 2, 3>>}
=============================================================================
