------------------------------ MODULE MCToolbox -------------------------------
(***************************************************************************)
(* A small instance of Toolbox for TLC.                                    *)
(***************************************************************************)
EXTENDS Toolbox, TLC

\* Two events of one session, which arrive in either order, and one of another.
SessionOfDef == [a1 |-> "A", a2 |-> "A", b1 |-> "B"]
OccurredAtDef == [a1 |-> 0, a2 |-> 2, b1 |-> 1]

\* States are only stored and compared, and flushes are calls that start alike.
Symmetry == Permutations(States) \cup Permutations(Flushes)

\* Evidence of two sessions, one whose flow is upgraded on its way, with a
\* copy, a contradiction, and ends that do not agree.
Said(id, type, at, s, v, key, outcome) ==
  [id |-> id, type |-> type, at |-> at, session |-> s, version |-> v, key |-> key,
   outcome |-> outcome, pos |-> 0, from |-> Nobody, to |-> Nobody]
Turn(id, at, s, v, pos, from, to, outcome) ==
  [Said(id, "turn", at, s, v, <<s, pos>>, outcome) EXCEPT !.pos = pos, !.from = from, !.to = to]

PoolDef == {
  Said(1, "session_start", 0, "S", 1, Nobody, Nobody),
  Turn(2, 0, "S", 1, 0, "A", "A", "validation_error"),
  Turn(3, 0, "S", 1, 0, "A", "A", "validation_error"),
  Turn(4, 1, "S", 1, 1, "A", "B", "success"),
  Turn(5, 1, "S", 1, 1, "A", "C", "success"),
  Said(6, "session_end", 2, "S", 1, Nobody, "completed"),
  Said(7, "session_end", 1, "S", 1, Nobody, "expired"),
  Said(8, "provider_end", 2, "S", 1, Nobody, "Incomplete"),
  Said(9, "session_start", 0, "T", 1, Nobody, Nobody),
  Turn(10, 1, "T", 2, 0, "A", Nobody, "flow_restart"),
  Said(11, "business_outcome", 1, "T", 2, <<"order", 1>>, "completed"),
  Said(12, "business_outcome", 2, "T", 2, <<"order", 1>>, "cancelled") }
=============================================================================
