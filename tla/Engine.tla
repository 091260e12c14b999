-------------------------------- MODULE Engine --------------------------------
(***************************************************************************)
(* USSDStateMachine.processInput and endSession on one session, inside the *)
(* lock of SessionLock: flow versions and retained flows, completion and   *)
(* its replay, back navigation, transitions, middleware and failures, on   *)
(* the storage operations of InMemoryStorage.                              *)
(*                                                                         *)
(* run[c].at is the await at which call c stands.  A storage call may fail *)
(* before or after it took effect; a handler, a validator and middleware   *)
(* may throw.  The session may expire at any time, also inside a turn.     *)
(* Of a session's data only the reserved keys are kept: the pinned flow    *)
(* version and the completed response (the call that gave it).             *)
(***************************************************************************)
EXTENDS SessionLock, Sequences

CONSTANTS
  Machines,    \* the machines that share the storage object
  Versions,    \* flow versions
  Version,     \* flowVersion of each machine, or None
  Retained,    \* previousFlows of each machine
  StatesOf,    \* names of each machine's states
  Initial,     \* initialState of each machine
  AllStates,   \* names a handler may return, also unknown ones
  MaxHistory,  \* maxHistorySize of the storage
  MaxLives,    \* bound of a model: how often the session is created
  None

ASSUME MachinesAssumption ==
  /\ Version \in [Machines -> Versions \cup {None}]
  /\ Retained \in [Machines -> SUBSET Machines]
  /\ StatesOf \in [Machines -> SUBSET AllStates]
  /\ Initial \in [Machines -> AllStates]
  /\ \A m \in Machines : Initial[m] \in StatesOf[m]
  /\ \A m \in Machines : Retained[m] /= {} => Version[m] /= None
  /\ \A m \in Machines : \A r \in Retained[m] :
       Version[r] /= None /\ Version[r] /= Version[m]
  /\ \A m \in Machines : \A r, q \in Retained[m] :
       Version[r] = Version[q] => r = q
\* A version names one set of states, whichever machine carries it.
ASSUME VersionAssumption ==
  \A m, n \in Machines :
    Version[m] /= None /\ Version[m] = Version[n] => StatesOf[m] = StatesOf[n]
Sessions ==
  [state : AllStates \cup {None}, version : Versions \cup {None},
   done : Calls \cup {None}, history : Seq(AllStates)]
ASSUME NoneAssumption == None \notin AllStates \cup Versions \cup Calls \cup Sessions
ASSUME HistoryAssumption == MaxHistory \in Nat \ {0} /\ MaxLives \in Nat

VARIABLES
  session,   \* the stored session, or None
  run,       \* what each call has read and decided
  lives,     \* history: how often the session was created
  before,    \* history: the session each input found, until its turn is accepted
  overrun,   \* history: calls inside when the session expired
  announced, \* history: <<life, call>> of every onSessionEnd
  adopted    \* history: lives that were to be pinned beside an old history

engineVars == <<session, run, lives, before, overrun, announced, adopted>>
allVars == <<vars, engineVars>>
-----------------------------------------------------------------------------
(* The stored session.                                                     *)

Blank == [state |-> None, version |-> None, done |-> None, history |-> <<>>]
Live == IF session = None THEN Blank ELSE session

StateSet(q) == [Live EXCEPT !.state = q]
VersionSet(v) == [Live EXCEPT !.version = IF v = None THEN @ ELSE v]
Completed(c, v) == [Live EXCEPT !.done = c, !.version = IF v = None THEN @ ELSE v]

\* The newest MaxHistory of a history.
Bounded(h) ==
  IF Len(h) > MaxHistory THEN SubSeq(h, Len(h) - MaxHistory + 1, Len(h)) ELSE h
Pushed(q) == [Live EXCEPT !.history = Bounded(Append(@, q))]

\* The front of a history.
Front(h) == SubSeq(h, 1, Len(h) - 1)
Popped == [session EXCEPT !.history = Front(@)]
HasHistory == session /= None /\ session.history /= <<>>
-----------------------------------------------------------------------------
(* Moving a call on.  Operators marked "Wrong:" are deliberate errors: in  *)
(* the place of the definition that follows them they break a property.    *)

Fresh ==
  [at |-> "state", flow |-> None, from |-> None, version |-> None, done |-> None,
   target |-> None, reply |-> "CON", data |-> FALSE, error |-> "other"]

At(c) == run[c].at
Go(c, label) == run' = [run EXCEPT ![c].at = label]
Steps(c, label) == pc[c] = "inside" /\ At(c) = label
Fail(c) == run' = [run EXCEPT ![c] = [Fresh EXCEPT !.at = "failed"]]
Throw(c, kind) ==
  run' = [run EXCEPT ![c] =
    [Fresh EXCEPT !.at = "caught", !.error = kind,
                  !.flow = run[c].flow, !.from = run[c].from]]

\* Of the variables only session, lives and run change.
RestBut == UNCHANGED <<vars, before, overrun, announced>>
Rest == RestBut /\ UNCHANGED adopted

\* The session becomes s, whose creation is counted.
Put(s) ==
  /\ session' = s
  /\ lives' = IF session = None /\ s /= None THEN lives + 1 ELSE lives
Keep == UNCHANGED <<session, lives>>

\* A storage write: done, refused, or done with its answer lost.
Write(c, s, label) ==
  \/ Put(s) /\ Go(c, label)
  \/ (Keep \/ Put(s)) /\ Throw(c, "other")

\* The same outside of the try block of processInput.
WriteBare(c, s, label) ==
  \/ Put(s) /\ Go(c, label)
  \/ (Keep \/ Put(s)) /\ Fail(c)

Flow(c) == run[c].flow
Current(c) == IF run[c].from = None THEN Initial[Flow(c)] ELSE run[c].from
-----------------------------------------------------------------------------
(* Reading the session and selecting its flow.                             *)

\* getState, for an input that came through machine m.  The input itself is
\* chosen where it is looked at.
ReadState(c) ==
  /\ Steps(c, "state") /\ c \in Inputs
  /\ before' = [before EXCEPT ![c] = session]
  /\ \/ Fail(c)
     \/ \E m \in Machines :
          run' = [run EXCEPT ![c].at = "data", ![c].flow = m,
                             ![c].from = Live.state]
  /\ Keep /\ UNCHANGED <<vars, overrun, announced, adopted>>

\* Wrong: an unversioned machine takes a session of any version.
IncompatibleLax(m, version, from) ==
  Version[m] /= None /\ (version /= None \/ from /= None) /\ version /= Version[m]

\* The session belongs to another version, or to none.
Incompatible(m, version, from) ==
  \/ version /= None /\ version /= Version[m]
  \/ Version[m] /= None /\ from /= None /\ version = None

\* The machines the entrypoint m retains for a version.
Selected(m, version) == {r \in Retained[m] : Version[r] = version}

\* getData, and everything up to the next await: the flow is selected; the
\* turn fails if the input is too long, or if the state is unknown to an
\* unversioned flow.
ReadData(c) ==
  LET m == Flow(c)
      version == Live.version
      done == Live.done
      unfit == done = None /\ Incompatible(m, version, run[c].from)
      known(f) == run[c].from \in StatesOf[f] \cup {None} \/ done /= None
      Enter(f) ==
        \/ /\ known(f)
           /\ run' = [run EXCEPT ![c].at = "before", ![c].flow = f,
                                 ![c].version = version, ![c].done = done]
        \/ ~known(f) /\ Version[f] /= None /\ Go(c, "restart")
  IN
  /\ Steps(c, "data")
  /\ \/ Fail(c)
     \/ unfit /\ \E r \in Selected(m, version) : Enter(r)
     \/ unfit /\ Selected(m, version) = {} /\ Go(c, "restart")
     \/ ~unfit /\ Enter(m)
  /\ Keep /\ Rest

\* The flow is not there any more: the restart response completes the
\* session.
Restart(c) ==
  /\ Steps(c, "restart")
  /\ WriteBare(c, Completed(c, None), "restarted")
  /\ Rest

\* Wrong: a completed session is not replayed.
ReplayNever(c) == run[c].done = c

\* The session has been completed.
Replay(c) == run[c].done /= None

\* getSession and the beforeProcess middleware, which may block the turn,
\* throw, or change the input; then a completed session is replayed.
BeforeProcess(c) ==
  /\ Steps(c, "before")
  /\ \/ (Fail(c) \/ Go(c, "blocked")) /\ UNCHANGED before
     \/ Replay(c) /\ Go(c, "replayed") /\ UNCHANGED before
     \/ /\ ~Replay(c)
        /\ before' = [before EXCEPT ![c] = None]
        /\ run' = [run EXCEPT ![c].version = None, ![c].done = None,
             ![c].at = IF Version[Flow(c)] /= None /\ run[c].version = None
                       THEN "pin" ELSE "choose"]
  /\ Keep /\ UNCHANGED <<vars, overrun, announced, adopted>>

\* The first accepted turn pins the flow version, also of a session that has
\* a history and no state yet: a failed first turn pushed its origin.
Pin(c) ==
  /\ Steps(c, "pin")
  /\ WriteBare(c, VersionSet(Version[Flow(c)]), "choose")
  /\ adopted' = IF Live.history = <<>> THEN adopted ELSE adopted \cup {lives}
  /\ RestBut
-----------------------------------------------------------------------------
(* Back navigation.                                                        *)

\* "0" goes back unless the state claims the key; any other input is
\* validated.
Choose(c) ==
  /\ Steps(c, "choose")
  /\ \/ Go(c, "pop") \/ Go(c, "handle")
     \/ Throw(c, "validation") \/ Throw(c, "other")
  /\ Keep /\ Rest

\* goBack: popStateHistory, for the key or for a handler that asked.
Pop(c, label, none, some) ==
  /\ Steps(c, label)
  /\ \/ /\ ~HasHistory
        /\ Go(c, none) /\ Keep
     \/ /\ HasHistory
        /\ Put(Popped)
        /\ run' = [run EXCEPT ![c].at = some, ![c].target = session.history[Len(session.history)]]
     \/ Throw(c, "other") /\ (Keep \/ (HasHistory /\ Put(Popped)))
  /\ Rest

\* Wrong: a handler's goBack pops the history and leaves the state.
PopOnly(c) == Pop(c, "handlerpop", "setdata", "setdata")

PopForKey(c) == Pop(c, "pop", "handle", "backset")
PopForHandler(c) == Pop(c, "handlerpop", "setdata", "handlerset")

\* What came from an adopted history may outlive its session's expiry.
Inherited == adopted' = IF lives \in adopted THEN adopted \cup {lives'} ELSE adopted

\* goBack: setState.  A state the flow does not have cannot be shown: the
\* present state handles the key instead.
BackSet(c) ==
  /\ Steps(c, "backset")
  /\ LET label == IF run[c].target \in StatesOf[Flow(c)] THEN "reenter" ELSE "handle"
     IN  Write(c, StateSet(run[c].target), label)
  /\ Inherited /\ RestBut

HandlerSet(c) ==
  /\ Steps(c, "handlerset")
  /\ Write(c, StateSet(run[c].target), "setdata")
  /\ Inherited /\ RestBut

\* getData, and the handler of the state gone back to, with empty input.
Reenter(c) ==
  /\ Steps(c, "reenter")
  /\ \/ /\ c \notin aborted
        /\ \E reply \in {"CON", "END"}, data \in BOOLEAN :
             run' = [run EXCEPT ![c].at = "setdata", ![c].reply = reply, ![c].data = data]
     \/ Throw(c, "validation") \/ Throw(c, "other")
  /\ Keep /\ Rest
-----------------------------------------------------------------------------
(* The present state's handler.                                            *)

\* Where a handler's result sends the turn: a terminal response may name a
\* state that does not exist, a continuing one may not.
Moves(f, reply, next) == next /= None /\ (reply = "CON" \/ next \in StatesOf[f])

Handle(c) ==
  LET f == Flow(c) IN
  /\ Steps(c, "handle")
  /\ \/ Throw(c, "validation") \/ Throw(c, "other")
     \/ \E reply \in {"CON", "END"}, data \in BOOLEAN,
           next \in AllStates \cup {None}, back \in BOOLEAN :
          /\ c \notin aborted
          /\ next /= None => ~back
          /\ \/ /\ Moves(f, reply, next) /\ next \notin StatesOf[f]
                /\ Throw(c, "other")
             \/ /\ Moves(f, reply, next) => next \in StatesOf[f]
                /\ run' = [run EXCEPT ![c].reply = reply, ![c].data = data,
                     ![c].target =
                       IF Moves(f, reply, next) THEN next
                       ELSE IF ~back /\ (reply = "CON" \/ run[c].from = None)
                       THEN Current(c) ELSE None,
                     ![c].at =
                       IF Moves(f, reply, next)
                       THEN IF next = Current(c) THEN "set" ELSE "push"
                       ELSE IF back THEN "handlerpop"
                       ELSE IF reply = "CON" \/ run[c].from = None THEN "set"
                       ELSE "setdata"]
  /\ Keep /\ Rest

Push(c) ==
  /\ Steps(c, "push")
  /\ Write(c, Pushed(Current(c)), "set")
  /\ Rest

Set(c) ==
  /\ Steps(c, "set")
  /\ Write(c, StateSet(run[c].target), "setdata")
  /\ Rest

\* The handler's data is merged in, with the flow's version.  A terminal
\* response may carry it in the write that records the completion.
SetData(c) ==
  /\ Steps(c, "setdata")
  /\ \/ run[c].data /\ Write(c, VersionSet(Version[Flow(c)]), "after")
     \/ ~run[c].data /\ Keep /\ Go(c, "after")
     \/ run[c].data /\ run[c].reply = "END" /\ Keep /\ Go(c, "complete")
  /\ Rest

\* The afterProcess middleware, which may replace the response or throw.
AfterProcess(c) ==
  /\ Steps(c, "after")
  /\ \/ \E reply \in {"CON", "END"} :
          run' = [run EXCEPT ![c].reply = reply,
                             ![c].at = IF reply = "END" THEN "complete" ELSE "announce"]
     \/ Throw(c, "validation") \/ Throw(c, "other")
  /\ Keep /\ Rest

Complete(c) ==
  LET s == Completed(c, IF run[c].data THEN Version[Flow(c)] ELSE None) IN
  /\ Steps(c, "complete")
  /\ Write(c, s, "announce")
  /\ Rest

\* The notifications; they cannot fail the turn any more.
Announce(c) ==
  /\ Steps(c, "announce")
  /\ Go(c, "handled")
  /\ announced' = IF run[c].reply = "END" THEN announced \cup {<<lives, c>>}
                  ELSE announced
  /\ Keep /\ UNCHANGED <<vars, before, overrun, adopted>>

\* onError, which may throw itself; a validation error keeps the state and
\* asks again, any other is the caller's.
Catch(c) ==
  /\ Steps(c, "caught")
  /\ \/ Fail(c)
     \/ run[c].error = "validation" /\ Go(c, "retry")
  /\ Keep /\ Rest

Retry(c) ==
  /\ Steps(c, "retry")
  /\ WriteBare(c, StateSet(Current(c)), "retried")
  /\ Rest
-----------------------------------------------------------------------------
(* endSession.                                                             *)

\* Wrong: the end of a completed session is announced again.
OwesFarewellAlways == Live.state /= None \/ Live.version /= None

\* Nobody has announced the end of the session.
OwesFarewell == Live.done = None

Look(c) ==
  /\ Steps(c, "state") /\ c \in Endings
  /\ \/ Fail(c)
     \/ session = None /\ Go(c, "ended")
     \/ /\ session /= None
        /\ run' = [run EXCEPT ![c].at = "remove",
                              ![c].done = IF OwesFarewell THEN None ELSE session.done]
  /\ Keep /\ Rest

Remove(c) ==
  /\ Steps(c, "remove")
  /\ WriteBare(c, None, "farewell")
  /\ Rest

Farewell(c) ==
  /\ Steps(c, "farewell")
  /\ Go(c, "ended")
  /\ announced' = IF run[c].done = None THEN announced \cup {<<lives, c>>}
                  ELSE announced
  /\ Keep /\ UNCHANGED <<vars, before, overrun, adopted>>
-----------------------------------------------------------------------------
Over == {"restarted", "blocked", "replayed", "handled", "retried", "failed", "ended"}

\* The session's time to live ends.
Expire ==
  /\ session /= None
  /\ lives < MaxLives
  /\ Put(None)
  /\ overrun' = overrun \cup Inside
  /\ UNCHANGED <<vars, run, before, announced, adopted>>

EngineStep(c) ==
  \/ ReadState(c) \/ ReadData(c) \/ Restart(c) \/ BeforeProcess(c) \/ Pin(c)
  \/ Choose(c) \/ PopForKey(c) \/ PopForHandler(c) \/ BackSet(c) \/ HandlerSet(c)
  \/ Reenter(c) \/ Handle(c) \/ Push(c) \/ Set(c) \/ SetData(c) \/ AfterProcess(c)
  \/ Complete(c) \/ Announce(c) \/ Catch(c) \/ Retry(c)
  \/ Look(c) \/ Remove(c) \/ Farewell(c)

\* The lock's steps; a call leaves it when its run is over.
Leaves(c) ==
  /\ At(c) \in Over /\ Release(c)
  /\ run' = [run EXCEPT ![c] = Fresh]
  /\ before' = [before EXCEPT ![c] = None]
  /\ overrun' = overrun \ {c}
  /\ UNCHANGED <<session, lives, announced, adopted>>
Resumes(c) == Resume(c) /\ UNCHANGED engineVars

LockStep(c) ==
  Leaves(c) \/ Resumes(c) \/ ((Arrive(c) \/ Abort(c)) /\ UNCHANGED engineVars)

EngineInit ==
  /\ Init
  /\ session = None
  /\ run = [c \in Calls |-> Fresh]
  /\ lives = 0 /\ before = [c \in Calls |-> None]
  /\ overrun = {} /\ announced = {} /\ adopted = {}

EngineNext == (\E c \in Calls : EngineStep(c) \/ LockStep(c)) \/ Expire

EngineSpec == EngineInit /\ [][EngineNext]_allVars

\* Microtasks run, and storage, handlers and middleware settle.
Runs(c) == (pc[c] = "inside" /\ (EngineStep(c) \/ Leaves(c))) \/ Resumes(c)

LiveSpec == EngineSpec /\ \A c \in Calls : WF_allVars(Runs(c))
-----------------------------------------------------------------------------
(* Properties.                                                             *)

\* A pinned session stands in a state of its own version's flow, and can
\* only go back to such states: a retained machine keeps its "own [...]
\* navigation" (docs/FLOW-DEFINITIONS.md:31), and "when enabling versions,
\* existing active unversioned sessions also receive this controlled
\* restart" (:39).  It is violated: a session whose first turn failed after
\* its history was pushed and before its state was set is pinned as if it
\* were new, with that history.
InItsFlow ==
  session /= None /\ session.version /= None =>
    \A m \in Machines : Version[m] = session.version =>
      /\ session.state \in StatesOf[m] \cup {None}
      /\ \A i \in 1..Len(session.history) : session.history[i] \in StatesOf[m]

\* No handler of one version meets another's states: a pinned session is in
\* its flow through upgrades, rollbacks, retained flows, expiry and failures,
\* unless its first accepted turn adopted the history of such a failure.
StateOfItsFlow == lives \notin adopted => InItsFlow

\* Where a handler runs, or its result is being stored.
Handling == {"pin", "choose", "pop", "backset", "reenter", "handle", "push", "set",
             "handlerpop", "handlerset", "setdata", "after", "complete"}

\* No handler runs in a completed session.
NoTurnAfterEnd ==
  \A c \in Inside : c \in Inputs /\ At(c) \in Handling => Live.done = None

\* The end of a session is announced at most once, by the turn that ends it,
\* by endSession, or by a turn and an endSession that race.
EndAnnouncedOnce == \A a, b \in announced : a[1] = b[1] => a = b

\* A session ends once: no input runs in it any more, and nobody hears of its
\* end a second time.
EndIsFinal == NoTurnAfterEnd /\ EndAnnouncedOnce

\* "The engine must not claim an uncommitted transition succeeded"
\* (docs/RUNTIME-CONTRACT.md:22): when a turn is answered, and its session
\* has not expired meanwhile, the session is in the state the answer is
\* about, completed if and only if the answer says so; what a validation
\* error answers keeps the state; a replay, a block and a refusal keep all.
AnswerIsStored ==
  \A c \in Inside : c \in Inputs \ overrun =>
    LET r == run[c] IN
    /\ At(c) \in {"announce", "handled"} =>
         /\ r.target /= None => Live.state = r.target
         /\ Live.done = (IF r.reply = "END" THEN c ELSE None)
         /\ Version[r.flow] /= None => Live.version = Version[r.flow]
    /\ At(c) = "retried" => Live.state = Current(c) /\ Live.done = None
    /\ At(c) \in {"blocked", "replayed"} => session = before[c]
    /\ At(c) = "replayed" => session.done /= None
=============================================================================
