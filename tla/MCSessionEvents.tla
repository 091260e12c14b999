-------------------------- MODULE MCSessionEvents --------------------------
(***************************************************************************)
(* A small instance of SessionEvents for TLC.                              *)
(***************************************************************************)
EXTENDS SessionEvents, TLC

Symmetry == Permutations(Workers)

\* Two that agree, one of the same time, one of another status, and one of
\* another caller.
E(b, t, s, d) == [binding |-> b, occurredAt |-> t, status |-> s, detail |-> d]
FiveEvents ==
  {E("c1", 1, "ok", 1), E("c1", 2, "ok", 1), E("c1", 2, "ok", 2),
   E("c1", 2, "bad", 1), E("c2", 1, "ok", 1)}
=============================================================================
