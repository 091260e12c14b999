-------------------------------- MODULE Flow --------------------------------
(***************************************************************************)
(* A flow, what its analysis says of it (FlowAnalysis.js), and a session   *)
(* that walks it through the engine with back navigation                   *)
(* (USSDStateMachine.processInput, goBack).  The flow, compiled by the SDK *)
(* or written by hand, is chosen once.                                     *)
(***************************************************************************)
EXTENDS Compiler

CONSTANTS
  Flows,   \* flows: [initial, states], each state configured
  MaxBack  \* bound on the back-navigation history

VARIABLES
  flow,
  report,   \* what its analysis says, asked once
  visit,    \* the stored session: state, history, saved fields, done
  asked,    \* the state whose prompt the last answer showed, or NoState
  stranded, \* whether the last turn threw StateNotFoundError
  lost      \* fields whose write failed after the state had moved on
flowVars == <<flow, report, visit, asked, stranded, lost>>

Fresh == [state |-> NoState, history |-> <<>>, saved |-> {}, done |-> FALSE]
Here == IF visit.state = NoState THEN flow.initial ELSE visit.state

-----------------------------------------------------------------------------
(* The analysis                                                            *)

MissingTarget(f, e) == ~e.terminal /\ e.to \notin DOMAIN f.states
Conflicts(f, s) ==
  \E d, e \in f.states[s].edges : d.input = e.input /\ d.input # "any" /\ d.to # e.to

\* No diagnostic of severity error.
Valid(f) ==
  /\ f.initial \in DOMAIN f.states
  /\ \A s \in DOMAIN f.states :
       /\ ~Conflicts(f, s)
       /\ \A e \in f.states[s].edges :
            /\ e.terminal = (e.to = NoState)
            /\ ~MissingTarget(f, e)
            /\ f.states[s].terminal = "yes" => e.terminal
            /\ e.input = "0" => "0" \in f.states[s].local

Outgoing(f, s) ==
  IF f.states[s].terminal = "yes" THEN {}
  ELSE {e \in f.states[s].edges : ~MissingTarget(f, e)}

\* What the traversal from the initial state finds: it starts there, follows
\* the edges of what it has found, and finds nothing else.
Traversed(f, found) ==
  /\ {f.initial} \cap DOMAIN f.states \subseteq found
  /\ \A s \in found : \A e \in Outgoing(f, s) : ~e.terminal => e.to \in found
Reachable(f) ==
  {s \in DOMAIN f.states :
     \A found \in SUBSET DOMAIN f.states : Traversed(f, found) => s \in found}

\* reachabilityUnknown.
Opaque(f, s) == f.states[s].dynamic \/ f.states[s].terminal = "unknown"
Unknown(f) == \E s \in Reachable(f) : Opaque(f, s)

Analysis(f) ==
  [valid |-> Valid(f), unknown |-> Unknown(f), reachable |-> Reachable(f),
   ends |-> \E s \in Reachable(f) :
              \/ f.states[s].terminal = "yes"
              \/ \E e \in f.states[s].edges : e.terminal]

-----------------------------------------------------------------------------
(* A turn: the handler's answer, then the engine's writes in their order.  *)
(* A turn whose storage fails has made any prefix of them and is answered  *)
(* with an error text, which asks for nothing.                             *)

Written(v, answer) == [v EXCEPT !.saved = @ \cup answer.saves]
Over(v, answer) == [v EXCEPT !.done = answer.says = "END"]

Shown(v, answer) ==
  /\ visit' = Over(Written(v, answer), answer)
  /\ asked' = answer.shows
  /\ UNCHANGED lost

\* The writes of a failed turn: history, state, and with them the data or not.
Breaks(before, placed, answer) ==
  /\ visit' \in before \cup {placed, Written(placed, answer)}
  /\ asked' = NoState
  /\ lost' = IF visit' = placed THEN lost \cup (answer.saves \ placed.saved) ELSE lost

AsksBack(key) ==
  key = "0" /\ visit.history # <<>> /\ "0" \notin flow.states[Here].local

Moves(answer) == answer.next # NoState /\ answer.next \in DOMAIN flow.states

Advance(key) ==
  LET answer == flow.states[Here].handler[key]
      pushed == IF Moves(answer) /\ answer.next # Here
                THEN [visit EXCEPT !.history = Append(@, Here)] ELSE visit
      placed == IF Moves(answer) THEN [pushed EXCEPT !.state = answer.next]
                ELSE [pushed EXCEPT !.state = Here]
  IN  /\ ~AsksBack(key)
      /\ key \in flow.states[Here].allowed
      /\ answer.next = NoState \/ Moves(answer)
      /\ Len(pushed.history) <= MaxBack
      /\ Shown(placed, answer) \/ Breaks({visit, pushed}, placed, answer)
      /\ stranded' = FALSE
      /\ UNCHANGED <<flow, report>>

\* A target that the flow does not have: StateNotFoundError before any write,
\* unless the answer ends the session.
Missed(key) ==
  LET answer == flow.states[Here].handler[key]
  IN  /\ ~AsksBack(key)
      /\ key \in flow.states[Here].allowed
      /\ answer.next # NoState /\ ~Moves(answer)
      /\ IF answer.says = "END" THEN Shown([visit EXCEPT !.state = Here], answer)
         ELSE asked' = NoState /\ UNCHANGED <<visit, lost>>
      /\ stranded' = (answer.says # "END")
      /\ UNCHANGED <<flow, report>>

\* goBack, then the previous state's handler with the empty input; the next
\* state that it names is ignored, its data is written.
GoBack(key) ==
  LET n == Len(visit.history)
      previous == visit.history[n]
      popped == [visit EXCEPT !.history = SubSeq(@, 1, n - 1)]
      placed == [popped EXCEPT !.state = previous]
      answer == flow.states[previous].handler[NoInput]
  IN  /\ AsksBack(key)
      /\ Shown(placed, answer) \/ Breaks({visit, popped}, placed, answer)
      /\ stranded' = FALSE
      /\ UNCHANGED <<flow, report>>

\* The session expires, or its terminal answer is delivered and it is dialled
\* again later.
Redial ==
  /\ visit # Fresh
  /\ visit' = Fresh /\ asked' = NoState /\ stranded' = FALSE /\ lost' = {}
  /\ UNCHANGED <<flow, report>>

FlowInit ==
  /\ flow \in Flows /\ report = Analysis(flow)
  /\ visit = Fresh /\ asked = NoState /\ stranded = FALSE /\ lost = {}

FlowNext ==
  \/ Redial
  \/ ~visit.done /\ \E key \in Inputs : Advance(key) \/ Missed(key) \/ GoBack(key)

FlowSpec == FlowInit /\ [][FlowNext]_flowVars

-----------------------------------------------------------------------------
(* Properties                                                              *)

(***************************************************************************)
(* "Re-enter the previous state with empty input to show its menu"         *)
(* (USSDStateMachine.js:375): what an answered turn asks for is what the   *)
(* session will take.  A prompt that is shown belongs to the stored state, *)
(* whatever routes, defaults and back keys led there.                      *)
(***************************************************************************)
AsksForWhatItTakes == asked # NoState => asked = visit.state

(***************************************************************************)
(* What the analysis says holds of every session: in a flow without errors *)
(* whose reachable states are all declared, a session never visits a state *)
(* reported unreachable, never meets a missing target, and ends only if    *)
(* some reachable state ends.                                              *)
(***************************************************************************)
AnalysisIsSound ==
  report.valid /\ ~report.unknown =>
    /\ Here \in report.reachable
    /\ ~stranded
    /\ visit.done => report.ends

(***************************************************************************)
(* A form reaches its confirmation with every field saved, through back    *)
(* navigation and repeated answers; a field is missing only if the write   *)
(* of its data failed after the state had moved on, in a turn answered     *)
(* with an error.                                                          *)
(***************************************************************************)
FormComplete ==
  flow.states[Here].role = "confirm" =>
    {flow.states[s].field : s \in {t \in DOMAIN flow.states : flow.states[t].role = "field"}}
      \subseteq visit.saved \cup lost
=============================================================================
