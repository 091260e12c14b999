--------------------------- MODULE MCTurnGateway ---------------------------
(***************************************************************************)
(* Small instances of TurnGateway for TLC.                                 *)
(***************************************************************************)
EXTENDS TurnGateway, TLC

Symmetry == Permutations(Requests)

\* The initial screen only.
OneScreen == {<<>>}
\* The initial screen, then one keypress.
TwoScreens == {<<>>, <<1>>}
\* Two keypresses, of two kinds: gaps, conflicts and stale turns occur.
Forks == {<<>>, <<1>>, <<2>>, <<1, 1>>}
=============================================================================
