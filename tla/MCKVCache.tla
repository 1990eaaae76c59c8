------------------------------ MODULE MCKVCache ------------------------------
(* KVCache for TLC: two prompts that share their first block.                   *)
EXTENDS KVCache

Shared == {<<1, 1, 2, 2, 3>>, <<1, 1, 4>>}
=============================================================================
