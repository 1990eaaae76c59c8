----------------------------- MODULE DataProtocol -----------------------------
(***************************************************************************)
(* What the clients of the node agent have in common (data::DataClient).   *)
(* transact opens a connection, sends one request and waits for the answer *)
(* up to a deadline; without one it returns not_ready.  Calls that are     *)
(* safe to repeat are sent once more when that happens.  A client is a     *)
(* record: the call it waits for (or where it rests), the attempt, the     *)
(* argument of the call, and what it holds between calls.                  *)
(***************************************************************************)
EXTENDS Integers

CONSTANTS
  Nothing,   \* no value
  Resent     \* calls that are sent again after not_ready

Waiting(call, arg, held) == [at |-> call, try |-> 1, arg |-> arg, held |-> held]
Resting(at, held) == [at |-> at, try |-> 0, arg |-> Nothing, held |-> held]

IsWaiting(k) == k.try > 0

\* The requests client c puts on the wire when it becomes k.
Sent(c, k) ==
  IF IsWaiting(k) THEN {[from |-> c, call |-> k.at, try |-> k.try, arg |-> k.arg]} ELSE {}

\* The answer to request r is the one its client k waits for: an earlier
\* attempt is answered on a connection that is closed.
Awaits(k, r) == k.at = r.call /\ k.try = r.try

Repeats(k, status) == status = "not_ready" /\ k.at \in Resent /\ k.try = 1
Again(k) == [k EXCEPT !.try = 2]

\* What the agent makes of a request: the state it is left in, and the answer.
Reply(s, status, value) == [state |-> s, status |-> status, value |-> value]
Refuse(s, status) == Reply(s, status, Nothing)

\* The map f with the value v under the key k, and without the key k.
With(f, k, v) == [x \in DOMAIN f \cup {k} |-> IF x = k THEN v ELSE f[x]]
Without(f, k) == [x \in DOMAIN f \ {k} |-> f[x]]
=============================================================================
