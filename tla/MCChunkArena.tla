---------------------------- MODULE MCChunkArena ----------------------------
(* ChunkArena for TLC: two models with pages of two and of three units.     *)
EXTENDS ChunkArena, TLC

Symmetry == Permutations(Model)
=============================================================================
