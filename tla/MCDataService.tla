---------------------------- MODULE MCDataService ----------------------------
(* DataService for TLC: producers p1 and p2 have the same bytes for identity x, *)
(* p3 has others; consumers c1 and c2 belong to one process.                     *)
EXTENDS DataService

CONSTANTS p1, p2, p3, c1, c2, x, role

IdentityX == [r \in Producer |-> x]
BytesOne == [r \in Producer |-> 1]
SumOther == [r \in Producer |-> IF r = p3 THEN "other" ELSE "same"]
WantedX == [r \in Consumer |-> x]
\* Three producers and a consumer of a service that is not restarted, and two
\* consumers of two producers over a restart.
CastsBoth == {[clients |-> {p1, p2, p3, c1}, inc |-> 2],
              [clients |-> {p1, p2, c1, c2}, inc |-> 1]}
OneProcess == [r \in Consumer |-> role]
=============================================================================
