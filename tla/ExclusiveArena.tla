--------------------------- MODULE ExclusiveArena ---------------------------
(***************************************************************************)
(* What the shared KV arena promises to the models that share it: every    *)
(* unit of GPU memory has at most one holder, the GPU works for a model    *)
(* only on units that model holds, and units pass to another model only    *)
(* when no submitted work of the old holder can still touch them.  A model *)
(* that dies keeps its units: nobody can tell which of them the GPU or a   *)
(* late request may still refer to.                                        *)
(***************************************************************************)
EXTENDS Naturals, Sequences

CONSTANTS
  Units,    \* of the arena's memory
  Holder,   \* the models
  Nobody    \* holds the free units; not a model

VARIABLES
  holder,   \* who holds each unit
  working   \* of each model, the unit sets of its submitted GPU work, in order

vars == <<holder, working>>

Init ==
  /\ holder = [u \in Units |-> Nobody]
  /\ working = [h \in Holder |-> <<>>]

Held(h) == {u \in Units : holder[u] = h}

\* Free units are granted to h.
Grant(h) ==
  /\ UNCHANGED working
  /\ \A u \in Units : holder'[u] = holder[u] \/ (u \in Held(Nobody) /\ holder'[u] = h)

Quiet(h, u) == \A k \in DOMAIN working[h] : u \notin working[h][k]

\* Units of h that its submitted work does not touch become free.
Return(h) ==
  /\ UNCHANGED working
  /\ \A u \in Units : \/ holder'[u] = holder[u]
                      \/ u \in Held(h) /\ Quiet(h, u) /\ holder'[u] = Nobody

\* h submits work on units it holds.
Submit(h) ==
  /\ UNCHANGED holder
  /\ Len(working'[h]) = Len(working[h]) + 1
  /\ LET U == working'[h][Len(working'[h])] IN
     /\ U \subseteq Held(h)
     /\ working' = [working EXCEPT ![h] = Append(@, U)]

Complete(h) ==
  /\ UNCHANGED holder
  /\ working[h] # <<>>
  /\ working' = [working EXCEPT ![h] = Tail(@)]

Die(h) ==
  /\ UNCHANGED holder
  /\ working' = [working EXCEPT ![h] = <<>>]

Next == \E h \in Holder : Grant(h) \/ Return(h) \/ Submit(h) \/ Complete(h) \/ Die(h)

Spec == Init /\ [][Next]_vars

\* Submitted work touches only units of the model that submitted it.
WorkIsHeld ==
  \A h \in Holder : \A k \in DOMAIN working[h] : working[h][k] \subseteq Held(h)
=============================================================================
