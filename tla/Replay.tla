-------------------------------- MODULE Replay --------------------------------
(***************************************************************************)
(* Replay and test export (Replay.js, TraceSchema.js): a session's history *)
(* becomes a draft, the draft a template, and a developer fills it in; a   *)
(* replay drives a fresh machine through the fixture, with a virtual clock *)
(* and scripted effects.                                                   *)
(*                                                                         *)
(* The machine is the application's: its handlers call effects, sleep on   *)
(* the clock, swallow errors, and may leave work behind that calls later.  *)
(* Inputs are "redacted", "open" (a placeholder) or "given", and so are    *)
(* the responses of effects; texts and limits of size are left out.        *)
(***************************************************************************)
EXTENDS Naturals, Sequences, SequencesExt

CONSTANTS
  Histories,  \* of workbench sessions: the times of their turns
  Scripts,    \* the effects a developer may write for a turn
  Operations, \* what handlers call
  MaxClock    \* bound of the virtual clock

ASSUME ReplayAssumption ==
  /\ Histories \subseteq Seq(Nat)
  /\ Scripts \subseteq Seq([op : Operations, at : Nat])

VARIABLES
  fixture,  \* provenance and turns, each with its time, input and effects
  stage,    \* "edit", "between", "turn", "checked", "passed" or "failed"
  turn,     \* the turns begun
  calls,    \* effects called in the turn
  active, clock,
  failure,  \* the replay's sticky error
  behind,   \* the handlers left work behind
  served, refused  \* history: effects answered, by turn; turns of refused calls
replayVars == <<fixture, stage, turn, calls, active, clock, failure, behind, served, refused>>
runVars == <<turn, calls, active, clock, failure, behind, served, refused>>

Monotonic(times) == \A i, j \in DOMAIN times : i <= j => times[i] <= times[j]

\* createReplayDraft, from a history that was recorded whole; a draft whose
\* clock went back is refused.
SinceStart(history) ==
  [i \in DOMAIN history |-> IF history[i] < history[1] THEN 0 ELSE history[i] - history[1]]
Draft(history) ==
  [provenance |-> "captured-redacted",
   turns |-> [i \in DOMAIN history |-> [at |-> SinceStart(history)[i], input |-> "redacted", external |-> <<>>]]]

\* syntheticTemplate: placeholders for what was redacted.
Template(f) ==
  [provenance |-> "synthetic",
   turns |-> [i \in DOMAIN f.turns |->
     [f.turns[i] EXCEPT !.input = IF f.provenance = "synthetic" THEN @ ELSE "open"]]]

\* executableFixture.
Times(f) == FlattenSeq([i \in DOMAIN f.turns |->
              <<f.turns[i].at>> \o [k \in DOMAIN f.turns[i].external |-> f.turns[i].external[k].at]])
Executable(f) ==
  /\ f.provenance = "synthetic"
  /\ \A i \in DOMAIN f.turns : f.turns[i].input = "given"
  /\ Monotonic(Times(f))

-----------------------------------------------------------------------------
(* Authoring                                                               *)

Generate ==
  /\ stage = "edit" /\ fixture # Template(fixture)
  /\ fixture' = Template(fixture)
  /\ UNCHANGED <<stage, runVars>>

\* The developer writes the input and the effects of a turn.
Fill(i) ==
  /\ stage = "edit" /\ fixture.provenance = "synthetic"
  /\ fixture.turns[i].input = "open"
  /\ \E script \in Scripts :
       fixture' = [fixture EXCEPT !.turns[i] =
                     [at |-> @.at, input |-> "given", external |-> script]]
  /\ UNCHANGED <<stage, runVars>>

\* replayScenario; a fixture that is not executable is refused.  The factory
\* makes a machine over the given clock and storage, or it fails.
Replay ==
  /\ stage = "edit" /\ Executable(fixture)
  /\ stage' \in {"between", "failed"}
  /\ UNCHANGED <<fixture, runVars>>

-----------------------------------------------------------------------------
(* The turns                                                               *)

\* The clock moves to the turn, unless a handler has slept beyond it.
BeginTurn ==
  LET at == fixture.turns[turn + 1].at IN
  /\ stage = "between" /\ turn < Len(fixture.turns)
  /\ turn' = turn + 1
  /\ IF at < clock THEN stage' = "failed" /\ UNCHANGED <<clock, calls, active>>
     ELSE stage' = "turn" /\ clock' = at /\ calls' = 0 /\ active' = TRUE
  /\ UNCHANGED <<fixture, failure, behind, served, refused>>

Working == stage = "turn" \/ (behind /\ stage \in {"between", "checked"})
Script == IF turn = 0 THEN <<>> ELSE fixture.turns[turn].external

\* effects.call, in a handler or by what it left behind.
Matches(op) ==
  /\ active /\ calls < Len(Script)
  /\ Script[calls + 1].op = op /\ Script[calls + 1].at >= clock
Call(op) ==
  /\ Working /\ calls <= Len(Script)
  /\ calls' = IF active THEN calls + 1 ELSE calls
  /\ IF Matches(op)
     THEN /\ clock' = Script[calls + 1].at
          /\ served' = [served EXCEPT ![turn] = Append(@, op)]
          /\ UNCHANGED <<failure, refused>>
     ELSE /\ failure' = TRUE
          /\ refused' = refused \cup {<<turn, stage>>}
          /\ UNCHANGED <<clock, served>>
  /\ UNCHANGED <<fixture, stage, turn, active, behind>>

\* clock.sleep.
Sleep ==
  /\ Working /\ clock < MaxClock /\ clock' = clock + 1
  /\ UNCHANGED <<fixture, stage, turn, calls, active, failure, behind, served, refused>>

LeaveBehind ==
  /\ stage = "turn" /\ ~behind /\ behind' = TRUE
  /\ UNCHANGED <<fixture, stage, turn, calls, active, clock, failure, served, refused>>

ScriptDone ==  \* mutant: the error of a refused call is not kept
  calls = Len(Script)
Clean == ~failure /\ calls = Len(Script)

\* The machine has answered, in whatever way it took the errors: the replay
\* looks for its own, for the turn's observation, and for effects not called.
TurnAnswered ==
  /\ stage = "turn"
  /\ \/ Clean /\ stage' = "checked"
     \/ stage' = "failed"
  /\ UNCHANGED <<fixture, runVars>>

\* The outcome and the state are as expected, or not.
Expected ==
  /\ stage = "checked"
  /\ \/ stage' = "between" /\ active' = FALSE
     \/ stage' = "failed" /\ UNCHANGED active
  /\ UNCHANGED <<fixture, turn, calls, clock, failure, behind, served, refused>>

\* All turns are over; the machine is cleaned up, which may fail.
ReplayOver ==
  /\ stage = "between" /\ turn = Len(fixture.turns)
  /\ stage' \in {"passed", "failed"}
  /\ UNCHANGED <<fixture, runVars>>

ReplayInit ==
  /\ fixture \in {Draft(h) : h \in {x \in Histories : Monotonic(SinceStart(x))}}
  /\ stage = "edit" /\ turn = 0 /\ calls = 0 /\ active = FALSE /\ clock = 0
  /\ failure = FALSE /\ behind = FALSE /\ refused = {}
  /\ served = [i \in DOMAIN fixture.turns |-> <<>>]

ReplayNext ==
  \/ Generate \/ Replay \/ BeginTurn \/ Sleep \/ LeaveBehind \/ TurnAnswered \/ Expected \/ ReplayOver
  \/ \E i \in DOMAIN fixture.turns : Fill(i)
  \/ \E op \in Operations : Call(op)

ReplaySpec == ReplayInit /\ [][ReplayNext]_replayVars

(***************************************************************************)
(* A replay that passes has had every scripted effect called, in its turn  *)
(* and in its order, and refused no call before the last turn was checked: *)
(* "Catching an unscripted-call error inside application code cannot make  *)
(* the test pass" (docs/REPLAY-AND-TEST-EXPORT.md:74), whatever handlers   *)
(* do with errors and the clock, and whatever work they leave behind.      *)
(***************************************************************************)
ReplayHonest ==
  stage = "passed" =>
    /\ \A i \in DOMAIN fixture.turns :
         served[i] = [k \in DOMAIN fixture.turns[i].external |-> fixture.turns[i].external[k].op]
    /\ \A r \in refused : r[1] = Len(fixture.turns) /\ r[2] # "turn"
=============================================================================
