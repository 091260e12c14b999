------------------------------- MODULE MCMenu -------------------------------
(***************************************************************************)
(* A small instance of Menu for TLC: a home text, a paginated menu "cities"*)
(* and an unpaginated one "plans" that a city leads to.  Plans refreshes   *)
(* on 0; in PlansOn2, with the key of its second item.                     *)
(***************************************************************************)
EXTENDS Menu

Next0Def == [home |-> None, cities |-> "plans", plans |-> "done", done |-> None]
RoutesDef ==
  [home |-> [k \in {1, 2} |-> [target |-> "cities", silent |-> k = 2]],
   done |-> [k \in {0, 1, 2} |-> [target |-> CASE k = 1 -> None [] k = 2 -> "cities" [] OTHER -> "plans",
                                silent |-> FALSE]]]
ListsDef == [cities |-> {<<"x", "y", "z">>, <<"z", "x">>, <<>>}, plans |-> {<<"p", "q">>, <<"q">>, <<"q", "p", "r">>}]
PageSizeDef == [cities |-> 2, plans |-> 0]
RefreshDef == [cities |-> 7, plans |-> 0]
PlansOn2 == [cities |-> 7, plans |-> 2]
=============================================================================
