----------------------------- MODULE MCPDRoles -----------------------------
(* PDRoles for TLC: two generations of one request, of which P and D have room *)
(* for one at a time.                                                          *)
EXTENDS PDRoles

CONSTANTS a1, a2

IdA == [r \in Request |-> "a"]
GenerationA == [r \in Request |-> IF r = a2 THEN 2 ELSE 1]
DemandTwoOne == [w \in Role |-> [r \in Request |-> IF w = "P" THEN 2 ELSE 1]]
PagesTwo == [r \in Request |-> 2]
CapacityOne == [w \in Role |-> IF w = "P" THEN 3 ELSE 1]
=============================================================================
