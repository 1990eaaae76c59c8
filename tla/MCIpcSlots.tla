------------------------------ MODULE MCIpcSlots ------------------------------
(* IpcSlots for TLC: provider p1 reserves two slots, p2 one. *)
EXTENDS IpcSlots

CONSTANTS p1, p2, c1, c2

CountTwoOne == [r \in Provider |-> IF r = p1 THEN 2 ELSE 1]
=============================================================================
