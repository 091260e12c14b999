------------------------------ MODULE Compiler ------------------------------
(***************************************************************************)
(* The SDK's compiler (compiler.js): what a declared state becomes.  A     *)
(* builder says where its inputs go; its configuration answers every input *)
(* and carries the metadata that the analysis of the flow reads.           *)
(*                                                                         *)
(* An answer is the kind of its text ("CON" or "END"), the state whose     *)
(* prompt the text is, the next state and the fields it saves.             *)
(***************************************************************************)
EXTENDS Naturals, Sequences, FiniteSets, SequencesExt

CONSTANT InputKeys  \* the inputs considered, other than the empty one

NoInput == ""
Inputs == InputKeys \cup {NoInput}
NoState == "none"
NoField == "none"

-----------------------------------------------------------------------------
(* Builders                                                                *)

\* A route has an END, a target and a text of its own, or any of them.
NoRoute == [end |-> FALSE, target |-> NoState, text |-> FALSE]
Goto(s) == [NoRoute EXCEPT !.target = s]
ReplyRoute == [NoRoute EXCEPT !.text = TRUE]
EndRoute == [NoRoute EXCEPT !.end = TRUE]

\* message(): a state with a text, and no way on yet.
Message ==
  [end |-> FALSE, next |-> NoState, routes |-> <<>>, run |-> FALSE, static |-> TRUE,
   save |-> NoField, allowed |-> Inputs, role |-> "none"]
Ends(b) == [b EXCEPT !.end = TRUE]
Continues(b, s) == [b EXCEPT !.next = s]
On(b, routes) == [b EXCEPT !.routes = routes]
Runs(b) == [b EXCEPT !.run = TRUE, !.static = FALSE]
Saves(b, field, allowed) == [b EXCEPT !.save = field, !.allowed = allowed]

\* menu(title, items): a route for every item, and its keys as a validator.
MenuOf(items) ==
  [On(Message, items) EXCEPT !.allowed = IF "*" \in DOMAIN items THEN Inputs
                                         ELSE DOMAIN items \cup {NoInput}]

-----------------------------------------------------------------------------
(* form(name, ...): a state for each field, then a confirmation            *)

FieldNextSkips(fields, i, complete) ==  \* mutant
  IF i + 1 >= Len(fields) THEN complete ELSE fields[i + 2]
FieldNext(fields, i, complete) == IF i = Len(fields) THEN complete ELSE fields[i + 1]

\* Without a confirmation or a state to complete in, the last field's own
\* prompt is marked as the end.
Field(fields, i, allowed, complete) ==
  LET next == FieldNext(fields, i, complete)
  IN  [Saves(Continues(Message, next), fields[i], allowed)
         EXCEPT !.end = next = NoState, !.role = "field"]

Confirmation(routes) == [On(Runs(Message), routes) EXCEPT !.static = TRUE, !.role = "confirm"]

Form(fields, allowed, complete) ==
  [f \in Range(fields) |->
     Field(fields, CHOOSE i \in DOMAIN fields : fields[i] = f, allowed, complete)]

-----------------------------------------------------------------------------
(* The handler of a state (buildHandler)                                   *)

RouteFor(b, key) ==
  CASE key # NoInput /\ key \in DOMAIN b.routes -> b.routes[key]
    [] key # NoInput /\ key \notin DOMAIN b.routes /\ "*" \in DOMAIN b.routes -> b.routes["*"]
    [] OTHER -> NoRoute

NextAlways(b, key) ==  \* mutant
  LET route == RouteFor(b, key)
  IN  IF route.end THEN NoState
      ELSE IF route.target # NoState THEN route.target
      ELSE IF route.text THEN NoState ELSE b.next

\* next() applies to an input that no route takes over.
NextFor(b, key) ==
  LET route == RouteFor(b, key)
  IN  IF route.end THEN NoState
      ELSE IF route.target # NoState THEN route.target
      ELSE IF route.text \/ key = NoInput THEN NoState ELSE b.next

\* Whether the answer shows the prompt of the next state.
Resolves(b, key) ==
  LET route == RouteFor(b, key)
  IN  IF route.target # NoState THEN ~route.text ELSE ~b.run

Handled(builders, s, key) ==
  LET b == builders[s]
      route == RouteFor(b, key)
      next == NextFor(b, key)
      resolved == next \in DOMAIN builders /\ Resolves(b, key)
      ends == IF resolved THEN builders[next].end
              ELSE route.end \/ (route = NoRoute /\ b.end)
  IN  [says |-> IF ends THEN "END" ELSE "CON",
       shows |-> IF resolved \/ route.target # NoState THEN next
                 ELSE IF route.end THEN NoState ELSE s,
       next |-> next,
       saves |-> IF key = NoInput \/ b.save = NoField THEN {} ELSE {b.save}]

-----------------------------------------------------------------------------
(* The configuration of a state (compile)                                  *)

EdgesOfRoutes(b, s) ==  \* mutant: next() is not declared
  {[input |-> key, terminal |-> b.routes[key].end,
    to |-> IF b.routes[key].end THEN NoState
           ELSE IF b.routes[key].target = NoState THEN s ELSE b.routes[key].target] :
      key \in DOMAIN b.routes}
EdgesOf(b, s) ==
  {[input |-> key, terminal |-> b.routes[key].end,
    to |-> IF b.routes[key].end THEN NoState
           ELSE IF b.routes[key].target = NoState THEN s ELSE b.routes[key].target] :
      key \in DOMAIN b.routes}
  \cup {[input |-> "any", terminal |-> FALSE, to |-> to] : to \in {b.next} \ {NoState}}

Configured(builders, s) ==
  LET b == builders[s]
  IN  [handler |-> [key \in Inputs |-> Handled(builders, s, key)],
       allowed |-> b.allowed,
       local |-> DOMAIN b.routes \ {"*"},
       terminal |-> IF b.end THEN "yes" ELSE "no",
       dynamic |-> b.run /\ ~b.static,
       edges |-> EdgesOf(b, s),
       role |-> b.role,
       field |-> b.save]

Compile(initial, builders) ==
  [initial |-> initial, states |-> [s \in DOMAIN builders |-> Configured(builders, s)]]

-----------------------------------------------------------------------------
(* The application's builder (AppBuilder.js)                               *)

\* state() and form() add their states, all of them or, when a name is
\* taken, none.
Collides(states, new) == DOMAIN states \cap DOMAIN new # {}
Added(states, new) == IF Collides(states, new) THEN states ELSE new @@ states

\* start(initial), the additions in their order, and build().
Build(initial, additions) == Compile(initial, FoldLeft(Added, <<>>, additions))
=============================================================================
