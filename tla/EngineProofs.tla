----------------------------- MODULE EngineProofs -----------------------------
(***************************************************************************)
(* Theorems about SessionLock and Engine: for any calls, finitely many or  *)
(* not, any machines that share a storage, any versions, retained flows    *)
(* and states, and any bound of the history.  First the lock, then the     *)
(* invariant of the engine that runs inside it, then one lemma for each    *)
(* await of processInput and endSession.                                   *)
(***************************************************************************)
EXTENDS Engine, SequenceTheorems, TLAPS

-----------------------------------------------------------------------------
(* The lock of a session.                                                  *)

LockInv == TypeOK /\ MutualExclusion /\ NoLostWakeup

LEMMA LockInit == Init => LockInv
BY DEF Init, LockInv, TypeOK, MutualExclusion, NoLostWakeup, Inside

\* Making or joining an entry, from outside or woken.
LEMMA CompetePreserves ==
  ASSUME LockInv, NEW c \in Calls, pc[c] \in {"outside", "woken"},
         Compete(c), UNCHANGED aborted
  PROVE  LockInv'
<1> USE DEF LockInv, TypeOK, MutualExclusion, NoLostWakeup, Inside, Goto
<1>1. CASE locked
  <2>1. waiters' = waiters \cup {c} /\ locked' = locked
        /\ pc' = [pc EXCEPT ![c] = "waiting"]
    BY <1>1 DEF Compete
  <2>2. Inside' = Inside BY <2>1
  <2>3. QED BY <1>1, <2>1, <2>2
<1>2. CASE ~locked
  <2>1. waiters' = {} /\ locked' = TRUE
        /\ pc' = [pc EXCEPT ![c] = "inside"]
    BY <1>2 DEF Compete
  <2>2. Inside = {} /\ waiters = {} BY <1>2
  <2>3. Inside' = {c} BY <2>1, <2>2
  <2>4. {d \in Calls : pc'[d] = "waiting"} = {} BY <2>1, <2>2
  <2>5. QED BY <2>1, <2>3, <2>4
<1>3. QED BY <1>1, <1>2

\* A call that is aborted before it got in.
LEMMA FailPreserves ==
  ASSUME LockInv, NEW c \in Calls, pc[c] \in {"outside", "woken"},
         Goto(c, "failed"), UNCHANGED <<locked, waiters, aborted>>
  PROVE  LockInv'
<1> USE DEF LockInv, TypeOK, MutualExclusion, NoLostWakeup, Inside, Goto
<1>1. Inside' = Inside OBVIOUS
<1>2. {d \in Calls : pc'[d] = "waiting"} = {d \in Calls : pc[d] = "waiting"}
  OBVIOUS
<1>3. QED BY <1>1, <1>2

LEMMA AbortPreserves ==
  ASSUME LockInv, NEW c \in Calls, Abort(c)
  PROVE  LockInv'
<1> USE DEF LockInv, TypeOK, MutualExclusion, NoLostWakeup, Inside, Goto
<1>1. aborted' = aborted \cup {c} /\ c \in Inputs BY DEF Abort
<1>2. CASE pc[c] = "waiting"
  <2>1. /\ pc' = [pc EXCEPT ![c] = "failed"]
        /\ waiters' = waiters \ {c} /\ locked' = locked
    BY <1>2 DEF Abort, Reject
  <2>2. Inside' = Inside BY <1>2, <2>1
  <2>3. {d \in Calls : pc'[d] = "waiting"} = waiters \ {c} BY <2>1
  <2>4. QED BY <1>1, <2>1, <2>2, <2>3
<1>3. CASE pc[c] /= "waiting"
  BY <1>1, <1>3 DEF Abort
<1>4. QED BY <1>2, <1>3

LEMMA ReleasePreserves ==
  ASSUME LockInv, NEW c \in Calls, Release(c)
  PROVE  LockInv'
<1> USE DEF LockInv, TypeOK, MutualExclusion, NoLostWakeup, Inside
<1>1. /\ pc' = [d \in Calls |-> IF d = c THEN "done"
                                ELSE IF d \in waiters THEN "woken" ELSE pc[d]]
      /\ locked' = FALSE /\ waiters' = {} /\ aborted' = aborted
  BY DEF Release, Wake
<1>2. Inside = {c} BY DEF Release
<1>3. Inside' = {} BY <1>1, <1>2
<1>4. {d \in Calls : pc'[d] = "waiting"} = {} BY <1>1
<1>5. pc' \in [Calls -> {"outside", "waiting", "woken", "inside", "done", "failed"}]
  BY <1>1
<1>6. QED BY <1>1, <1>3, <1>4, <1>5

LEMMA LockStepInv == LockInv /\ [Next]_vars => LockInv'
<1> SUFFICES ASSUME LockInv, [Next]_vars PROVE LockInv'
  OBVIOUS
<1>1. CASE UNCHANGED vars
  BY <1>1 DEF LockInv, TypeOK, MutualExclusion, NoLostWakeup, Inside, vars
<1>2. CASE Next
  <2>1. PICK c \in Calls : Arrive(c) \/ Resume(c) \/ Abort(c) \/ Release(c)
    BY <1>2 DEF Next
  <2>2. CASE Arrive(c)
    <3>1. pc[c] = "outside" /\ UNCHANGED aborted BY <2>2 DEF Arrive
    <3>2. \/ Goto(c, "failed") /\ UNCHANGED <<locked, waiters>>
          \/ Compete(c)
      BY <2>2 DEF Arrive
    <3>3. QED BY <3>1, <3>2, CompetePreserves, FailPreserves
  <2>3. CASE Resume(c)
    <3>1. pc[c] = "woken" /\ UNCHANGED aborted BY <2>3 DEF Resume
    <3>2. \/ Goto(c, "failed") /\ UNCHANGED <<locked, waiters>>
          \/ Compete(c)
      BY <2>3 DEF Resume
    <3>3. QED BY <3>1, <3>2, CompetePreserves, FailPreserves
  <2>4. CASE Abort(c) BY <2>4, AbortPreserves
  <2>5. CASE Release(c) BY <2>5, ReleasePreserves
  <2>6. QED BY <2>1, <2>2, <2>3, <2>4, <2>5
<1>3. QED BY <1>1, <1>2

LEMMA LockInvariant == Spec => []LockInv
BY LockInit, LockStepInv, PTL DEF Spec

\* At most one call of a session is inside, and nobody deletes the entry
\* of the one that is.
THEOREM OneInside == Spec => []MutualExclusion
BY LockInvariant, PTL DEF LockInv

\* A sleeping call is always registered with the present entry.
THEOREM NobodyForgotten == Spec => []NoLostWakeup
BY LockInvariant, PTL DEF LockInv

\* Every variable of the lock's model keeps its type.
THEOREM LockTypes == Spec => []TypeOK
BY LockInvariant, PTL DEF LockInv
-----------------------------------------------------------------------------
(* The invariant of a session and of the calls inside its lock.            *)

Labels ==
  {"state", "data", "restart", "before", "caught", "retry", "announce", "remove", "farewell"}
  \cup Handling \cup Over

RunType ==
  [at : Labels, flow : Machines \cup {None}, from : AllStates \cup {None},
   version : Versions \cup {None}, done : Calls \cup {None},
   target : AllStates \cup {None}, reply : {"CON", "END"}, data : BOOLEAN,
   error : {"other", "validation"}]

Types ==
  /\ session \in Sessions \cup {None}
  /\ run \in [Calls -> RunType]
  /\ lives \in Nat
  /\ before \in [Calls -> Sessions \cup {None}]
  /\ overrun \subseteq Calls
  /\ announced \subseteq Nat \X Calls
  /\ adopted \subseteq Nat

\* A call that is not inside has read nothing.
IdleInv ==
  \A c \in Calls \ Inside : run[c] = Fresh /\ before[c] = None /\ c \notin overrun

\* Nobody has announced the end of the present life.
Unannounced == \A a \in announced : a[1] /= lives

\* A session s is in the flow f, with its history.
InFlow(s, f) ==
  s.state \in StatesOf[f] \cup {None} /\ s.history \in Seq(StatesOf[f])

\* What holds of the session between any two steps.
SessionInv ==
  /\ \A n \in adopted : n <= lives
  /\ \A a \in announced : a[1] <= lives
  /\ session /= None /\ session.done = None => Unannounced
  /\ EndAnnouncedOnce
  /\ session /= None /\ session.version /= None /\ lives \notin adopted =>
       \A m \in Machines : Version[m] = session.version => InFlow(session, m)

\* The session of call c expired meanwhile, and none has taken its place.
Gone(c) == c \in overrun /\ session = None

\* Until its turn is accepted, an input leaves what it read as it is.
LookInv(c) ==
  LET r == run[c] IN
  /\ At(c) = "data" =>
       r.flow \in Machines /\ (Gone(c) \/ (session = before[c] /\ r.from = Live.state))
  /\ At(c) = "before" =>
       /\ r.flow \in Machines
       /\ \/ Gone(c)
          \/ /\ session = before[c] /\ r.from = Live.state
             /\ r.version = Live.version /\ r.done = Live.done
       /\ r.done = None =>
            /\ r.from \in StatesOf[r.flow] \cup {None}
            /\ r.version \in {None, Version[r.flow]}
            /\ r.version = None /\ Version[r.flow] /= None => r.from = None
  /\ At(c) \in {"blocked", "replayed"} => Gone(c) \/ session = before[c]
  /\ At(c) = "replayed" => Gone(c) \/ Live.done /= None

\* An accepted turn of flow f runs in a session of that flow, or in a new one
\* since its session expired.
FlowInv(c) ==
  LET r == run[c]  f == run[c].flow IN
  /\ At(c) \in Handling \cup {"caught", "retry"} =>
       f \in Machines /\ r.from \in StatesOf[f] \cup {None}
  /\ At(c) = "pin" =>
       Version[f] /= None /\ Live.version = None /\ Live.state = None
  /\ At(c) \in (Handling \ {"pin"}) \cup {"caught", "retry"} =>
       Live.version \in {None, Version[f]}
  /\ At(c) \in Handling \ {"pin"} =>
       /\ c \notin overrun => Live.version = Version[f]
       /\ session /= None /\ Version[f] /= None /\ lives \notin adopted => InFlow(session, f)
  /\ At(c) \in {"backset", "handlerset"} =>
       /\ r.target /= None
       /\ Version[f] /= None /\ lives \notin adopted => r.target \in StatesOf[f]
  /\ At(c) \in {"push", "set"} => r.target \in StatesOf[f]

\* What an accepted turn has stored.
TurnInv(c) ==
  LET r == run[c] IN
  /\ At(c) \in Handling \cup {"retry"} => Live.done = None
  /\ At(c) = "caught" /\ r.error = "validation" => Live.done = None
  /\ c \notin overrun /\ At(c) \in {"reenter", "setdata", "after", "complete", "announce", "handled"} =>
       r.target \in {None, Live.state}
  /\ c \notin overrun /\ At(c) \in {"announce", "handled"} =>
       /\ Live.done = (IF r.reply = "END" THEN c ELSE None)
       /\ Version[r.flow] /= None => Live.version = Version[r.flow]
  /\ At(c) = "handlerpop" => r.target = None
  /\ At(c) = "complete" => r.reply = "END"
  /\ At(c) = "announce" /\ r.reply = "END" =>
       Unannounced /\ (session = None \/ session.done /= None)
  /\ At(c) = "retried" => Gone(c) \/ c \in overrun \/ (Live.state = Current(c) /\ Live.done = None)

InputInv(c) ==
  At(c) \notin {"remove", "farewell", "ended"} /\ LookInv(c) /\ FlowInv(c) /\ TurnInv(c)

EndingInv(c) ==
  /\ At(c) \in {"state", "remove", "farewell", "ended", "failed"}
  /\ At(c) \in {"remove", "farewell"} /\ run[c].done = None => Unannounced
  /\ At(c) = "farewell" => session = None

CallInv(c) == IF c \in Inputs THEN InputInv(c) ELSE EndingInv(c)

EngineInv ==
  /\ TypeOK /\ MutualExclusion /\ NoLostWakeup
  /\ Types
  /\ IdleInv /\ SessionInv /\ \A c \in Inside : CallInv(c)
-----------------------------------------------------------------------------
(* What a step of a call inside does to the variables.                     *)

\* Only the run of c and what it found change.
Others(c) ==
  \A d \in Calls \ {c} : run'[d] = run[d] /\ before'[d] = before[d]

LEMMA StepOf ==
  ASSUME EngineInv, NEW c \in Calls, pc[c] = "inside", UNCHANGED <<vars, overrun>>,
         Types', Others(c), SessionInv', CallInv(c)'
  PROVE  EngineInv'
<1>1. Inside' = Inside /\ Inside = {c}
  BY DEF EngineInv, vars, Inside, MutualExclusion
<1>2. TypeOK' /\ MutualExclusion' /\ NoLostWakeup'
  BY DEF EngineInv, TypeOK, MutualExclusion, NoLostWakeup, Inside, vars
<1>3. IdleInv'
  BY <1>1 DEF EngineInv, IdleInv, Types, Others
<1>4. QED
  BY <1>1, <1>2, <1>3 DEF EngineInv

LEMMA GoTo ==
  ASSUME Types, NEW c \in Calls, NEW label \in Labels, Go(c, label)
  PROVE  /\ run' \in [Calls -> RunType]
         /\ \A d \in Calls \ {c} : run'[d] = run[d]
         /\ run'[c] = [run[c] EXCEPT !.at = label]
         /\ run'[c].at = label /\ run'[c].flow = run[c].flow
         /\ run'[c].from = run[c].from /\ run'[c].version = run[c].version
         /\ run'[c].done = run[c].done /\ run'[c].target = run[c].target
         /\ run'[c].reply = run[c].reply /\ run'[c].data = run[c].data
         /\ run'[c].error = run[c].error
<1>1. run'[c] = [run[c] EXCEPT !.at = label] BY DEF Types, Go
<1>2. run[c] \in RunType BY DEF Types
<1>3. run'[c] \in RunType BY <1>1, <1>2 DEF RunType
<1>4. QED BY <1>1, <1>2, <1>3 DEF Types, Go, RunType

LEMMA FailTo ==
  ASSUME Types, NEW c \in Calls, Fail(c)
  PROVE  /\ run' \in [Calls -> RunType]
         /\ \A d \in Calls \ {c} : run'[d] = run[d]
         /\ run'[c].at = "failed"
BY DEF Types, Fail, Fresh, RunType, Labels, Over

LEMMA ThrowTo ==
  ASSUME Types, NEW c \in Calls, NEW kind \in {"other", "validation"}, Throw(c, kind)
  PROVE  /\ run' \in [Calls -> RunType]
         /\ \A d \in Calls \ {c} : run'[d] = run[d]
         /\ run'[c].at = "caught" /\ run'[c].error = kind
         /\ run'[c].flow = run[c].flow /\ run'[c].from = run[c].from
BY DEF Types, Throw, Fresh, RunType, Labels

\* A session in which nothing was stored.
LEMMA KeepInv ==
  ASSUME SessionInv, UNCHANGED <<session, lives, announced, adopted>>
  PROVE  SessionInv'
BY DEF SessionInv, Unannounced, InFlow, EndAnnouncedOnce

\* A write of s, in the session's present life or its next one.
LEMMA PutTo ==
  ASSUME Types, NEW s \in Sessions, Put(s)
  PROVE  /\ session' = s /\ session' /= None /\ Live' = s
         /\ lives' \in Nat
         /\ lives' = IF session = None THEN lives + 1 ELSE lives
BY NoneAssumption DEF Types, Put, Live

LEMMA LiveType == Types => Live \in Sessions
BY DEF Types, Live, Blank, Sessions

LEMMA WriteInv ==
  ASSUME Types, SessionInv, NEW s \in Sessions, Put(s), UNCHANGED announced,
         adopted \subseteq adopted', adopted' \subseteq adopted \cup {lives, lives'},
         s.done = None => Live.done = None,
         NEW f \in Machines,
         s.version /= None /\ lives' \notin adopted' => s.version = Version[f] /\ InFlow(s, f)
  PROVE  SessionInv'
<1>1. /\ session' = s /\ s /= None /\ lives' \in Nat
      /\ lives' = IF session = None THEN lives + 1 ELSE lives
  BY PutTo
<1>2. \A n \in adopted' : n <= lives'
  BY <1>1 DEF Types, SessionInv
<1>3. \A a \in announced' : a[1] <= lives'
  BY <1>1 DEF Types, SessionInv
<1>4. s.done = None => Unannounced'
  <2>1. CASE session = None
    BY <1>1, <2>1 DEF Types, SessionInv, Unannounced
  <2>2. CASE session /= None
    BY <1>1, <2>2 DEF Types, SessionInv, Unannounced, Live
  <2>3. QED BY <2>1, <2>2
<1>5. ASSUME session'.version /= None, lives' \notin adopted',
             NEW m \in Machines, Version[m] = session'.version
      PROVE  InFlow(session', m)
  <2>1. Version[m] = Version[f] /\ InFlow(s, f) /\ Version[m] /= None
    BY <1>1, <1>5
  <2>2. StatesOf[m] = StatesOf[f] BY <2>1, VersionAssumption
  <2>3. QED BY <1>1, <2>1, <2>2 DEF InFlow
<1>6. EndAnnouncedOnce' BY DEF SessionInv, EndAnnouncedOnce
<1>7. QED BY <1>1, <1>2, <1>3, <1>4, <1>5, <1>6 DEF SessionInv, InFlow
-----------------------------------------------------------------------------
(* A call that fails, or whose turn throws.                                *)

LEMMA FailInv ==
  ASSUME EngineInv, NEW c \in Calls, pc[c] = "inside", Fail(c),
         UNCHANGED <<vars, overrun, announced>>, SessionInv',
         session' \in Sessions \cup {None}, lives' \in Nat, adopted' \subseteq Nat,
         before' \in [Calls -> Sessions \cup {None}],
         \A d \in Calls \ {c} : before'[d] = before[d]
  PROVE  EngineInv'
<1>1. /\ run' \in [Calls -> RunType] /\ run'[c].at = "failed"
      /\ \A d \in Calls \ {c} : run'[d] = run[d]
  BY FailTo DEF EngineInv
<1>2. Types' /\ Others(c) BY <1>1 DEF EngineInv, Types, Others
<1>3. CallInv(c)'
  BY <1>1 DEF CallInv, InputInv, EndingInv, LookInv, FlowInv, TurnInv, At, Handling
<1>4. QED BY <1>2, <1>3, StepOf

\* The session after an accepted turn of c has written s, or has not.
Turns(c) == pc[c] = "inside" /\ c \in Inputs /\ At(c) \in Handling \ {"pin"}
WrittenBy(c, s) ==
  /\ Put(s) /\ s \in Sessions
  /\ s.version \in {None, Version[Flow(c)]}
  /\ Version[Flow(c)] /= None /\ lives' \notin adopted' => InFlow(s, Flow(c))
  /\ adopted \subseteq adopted' /\ adopted' \subseteq adopted \cup {lives'}

LEMMA TurnWrites ==
  ASSUME EngineInv, NEW c \in Calls, Turns(c), NEW s, WrittenBy(c, s), UNCHANGED announced
  PROVE  /\ SessionInv' /\ session' = s /\ session' /= None /\ Live' = s
         /\ lives' \in Nat /\ lives' = IF session = None THEN lives + 1 ELSE lives
         /\ adopted' \subseteq Nat
<1>1. c \in Inside BY DEF Turns, Inside
<1>2. Flow(c) \in Machines /\ Live.done = None
  BY <1>1 DEF EngineInv, Turns, CallInv, InputInv, FlowInv, TurnInv, Flow, At
<1>3. /\ session' = s /\ session' /= None /\ Live' = s /\ lives' \in Nat
      /\ lives' = IF session = None THEN lives + 1 ELSE lives
  BY PutTo DEF EngineInv, WrittenBy
<1>4. SessionInv'
  BY <1>2, WriteInv DEF EngineInv, WrittenBy
<1>5. QED BY <1>3, <1>4 DEF EngineInv, Types, WrittenBy

LEMMA ThrowInv ==
  ASSUME EngineInv, NEW c \in Calls, Turns(c), NEW kind \in {"other", "validation"},
         Throw(c, kind), UNCHANGED <<vars, before, overrun, announced>>,
         \/ UNCHANGED <<session, lives, adopted>>
         \/ kind = "other" /\ \E s : WrittenBy(c, s)
  PROVE  EngineInv'
<1>1. /\ run' \in [Calls -> RunType] /\ run'[c].at = "caught" /\ run'[c].error = kind
      /\ run'[c].flow = run[c].flow /\ run'[c].from = run[c].from
      /\ \A d \in Calls \ {c} : run'[d] = run[d]
  BY ThrowTo DEF EngineInv
<1>2. c \in Inside /\ pc[c] = "inside" /\ c \in Inputs BY DEF Turns, Inside
<1>3. /\ run[c].flow \in Machines /\ run[c].from \in StatesOf[run[c].flow] \cup {None}
      /\ Live.version \in {None, Version[run[c].flow]} /\ Live.done = None
  BY <1>2 DEF EngineInv, Turns, CallInv, InputInv, FlowInv, TurnInv, Flow, At
<1>4. CASE UNCHANGED <<session, lives, adopted>>
  <2>1. SessionInv' BY <1>4, KeepInv DEF EngineInv
  <2>2. Types' /\ Others(c) BY <1>1, <1>4 DEF EngineInv, Types, Others
  <2>3. Live' = Live BY <1>4 DEF Live
  <2>4. CallInv(c)'
    BY <1>1, <1>2, <1>3, <2>3
    DEF CallInv, InputInv, LookInv, FlowInv, TurnInv, At, Handling
  <2>5. QED BY <1>2, <2>1, <2>2, <2>4, StepOf
<1>5. ASSUME kind = "other", NEW s, WrittenBy(c, s) PROVE EngineInv'
  <2>1. /\ SessionInv' /\ session' = s /\ Live' = s /\ lives' \in Nat /\ adopted' \subseteq Nat
    BY <1>5, TurnWrites
  <2>2. Types' /\ Others(c) BY <1>1, <1>5, <2>1 DEF EngineInv, Types, Others, WrittenBy
  <2>3. CallInv(c)'
    BY <1>1, <1>2, <1>3, <1>5, <2>1
    DEF CallInv, InputInv, LookInv, FlowInv, TurnInv, At, Handling, WrittenBy, Flow
  <2>4. QED BY <1>2, <2>1, <2>2, <2>3, StepOf
<1>6. QED BY <1>4, <1>5

-----------------------------------------------------------------------------
(* Reading the session and selecting its flow.                             *)

LEMMA ReadStateInv ==
  ASSUME EngineInv, NEW c \in Calls, ReadState(c)
  PROVE  EngineInv'
<1>1. /\ c \in Inputs /\ pc[c] = "inside" /\ UNCHANGED vars
      /\ UNCHANGED <<session, lives, overrun, announced, adopted>>
      /\ before' = [before EXCEPT ![c] = session]
  BY DEF ReadState, Steps, Keep
<1>2. SessionInv' BY <1>1, KeepInv DEF EngineInv
<1>3. /\ before' \in [Calls -> Sessions \cup {None}] /\ before'[c] = session
      /\ \A d \in Calls \ {c} : before'[d] = before[d]
  BY <1>1 DEF EngineInv, Types
<1>4. CASE Fail(c)
  BY <1>1, <1>2, <1>3, <1>4, FailInv DEF EngineInv, Types
<1>5. ASSUME NEW m \in Machines,
             run' = [run EXCEPT ![c].at = "data", ![c].flow = m, ![c].from = Live.state]
      PROVE  EngineInv'
  <2>1. Types /\ Live \in Sessions /\ Live' = Live BY <1>1, LiveType DEF EngineInv, Live
  <2>2. /\ run' \in [Calls -> RunType] /\ \A d \in Calls \ {c} : run'[d] = run[d]
        /\ run'[c].at = "data" /\ run'[c].flow = m /\ run'[c].from = Live.state
    <3>1. run[c] \in RunType /\ Live.state \in AllStates \cup {None} BY <2>1 DEF Types, Sessions
    <3>2. run'[c] = [run[c] EXCEPT !.at = "data", !.flow = m, !.from = Live.state]
      BY <1>5, <2>1 DEF Types
    <3>3. run'[c] \in RunType BY <3>1, <3>2 DEF RunType, Labels
    <3>4. QED BY <1>5, <2>1, <3>1, <3>2, <3>3 DEF Types, RunType
  <2>3. CallInv(c)'
    BY <1>1, <1>3, <2>1, <2>2
    DEF CallInv, InputInv, LookInv, FlowInv, TurnInv, At, Handling
  <2>4. Types' /\ Others(c) BY <1>1, <1>3, <2>2 DEF EngineInv, Types, Others
  <2>5. QED BY <1>1, <1>2, <2>3, <2>4, StepOf
<1>6. QED BY <1>4, <1>5 DEF ReadState

\* The facts with which most of the steps begin.
LEMMA AtInv ==
  ASSUME EngineInv, NEW c \in Calls, NEW label, Steps(c, label)
  PROVE  /\ pc[c] = "inside" /\ run[c].at = label /\ c \in Inside /\ CallInv(c)
         /\ Types /\ SessionInv /\ run[c] \in RunType
BY DEF EngineInv, Types, Steps, At, Inside

LEMMA ReadDataInv ==
  ASSUME EngineInv, NEW c \in Calls, ReadData(c)
  PROVE  EngineInv'
<1> DEFINE m == run[c].flow
<1>1. Steps(c, "data") /\ Keep /\ Rest BY DEF ReadData
<1>2. /\ pc[c] = "inside" /\ run[c].at = "data" /\ CallInv(c) /\ Types /\ SessionInv
      /\ run[c] \in RunType
  BY <1>1, AtInv
<1>3. /\ UNCHANGED <<vars, before, overrun, announced, session, lives, adopted>>
      /\ Live' = Live /\ SessionInv'
  BY <1>1, <1>2, KeepInv DEF Rest, RestBut, Keep, Live
<1>4. /\ c \in Inputs /\ m \in Machines
      /\ Gone(c) \/ (session = before[c] /\ run[c].from = Live.state)
  BY <1>2 DEF CallInv, InputInv, EndingInv, LookInv, At
<1>5. CASE Fail(c)
  BY <1>2, <1>3, <1>5, FailInv DEF EngineInv, Types
<1>6. CASE Go(c, "restart")
  <2>1. /\ run' \in [Calls -> RunType] /\ \A d \in Calls \ {c} : run'[d] = run[d]
        /\ run'[c].at = "restart"
    BY <1>2, <1>6, GoTo DEF Labels
  <2>2. CallInv(c)'
    BY <1>4, <2>1 DEF CallInv, InputInv, LookInv, FlowInv, TurnInv, At, Handling
  <2>3. Types' /\ Others(c) BY <1>2, <1>3, <2>1 DEF Types, Others
  <2>4. QED BY <1>2, <1>3, <2>2, <2>3, StepOf
<1>7. ASSUME NEW f \in Machines,
             run' = [run EXCEPT ![c].at = "before", ![c].flow = f,
                                ![c].version = Live.version, ![c].done = Live.done],
             Live.done = None =>
               /\ run[c].from \in StatesOf[f] \cup {None}
               /\ Live.version \in {None, Version[f]}
               /\ Live.version = None /\ Version[f] /= None => run[c].from = None
      PROVE  EngineInv'
  <2>1. Live \in Sessions BY <1>2, LiveType
  <2>2. /\ run' \in [Calls -> RunType] /\ \A d \in Calls \ {c} : run'[d] = run[d]
        /\ run'[c].at = "before" /\ run'[c].flow = f /\ run'[c].from = run[c].from
        /\ run'[c].version = Live.version /\ run'[c].done = Live.done
    BY <1>2, <1>7, <2>1, ZenonT(40) DEF Types, RunType, Labels, Sessions
  <2>3. CallInv(c)'
    BY <1>3, <1>4, <1>7, <2>2
    DEF CallInv, InputInv, LookInv, FlowInv, TurnInv, At, Handling, Gone
  <2>4. Types' /\ Others(c) BY <1>2, <1>3, <2>2 DEF Types, Others
  <2>5. QED BY <1>2, <1>3, <2>3, <2>4, StepOf
<1>8. ASSUME NEW r \in Selected(m, Live.version), Live.done = None,
             Incompatible(m, Live.version, run[c].from)
      PROVE  Version[r] = Live.version /\ r \in Machines /\ Live.version /= None
  BY <1>4, <1>8, MachinesAssumption DEF Selected
<1>9. ASSUME ~(Live.done = None /\ Incompatible(m, Live.version, run[c].from)),
             Live.done = None
      PROVE  /\ Live.version \in {None, Version[m]}
             /\ Live.version = None /\ Version[m] /= None => run[c].from = None
  BY <1>9 DEF Incompatible
<1>10. QED
  BY <1>4, <1>5, <1>6, <1>7, <1>8, <1>9 DEF ReadData, Flow

LEMMA RestartInv ==
  ASSUME EngineInv, NEW c \in Calls, Restart(c)
  PROVE  EngineInv'
<1> DEFINE s == Completed(c, None)
<1>1. Steps(c, "restart") /\ WriteBare(c, s, "restarted") /\ Rest BY DEF Restart
<1>2. /\ pc[c] = "inside" /\ run[c].at = "restart" /\ CallInv(c) /\ Types /\ SessionInv
      /\ run[c] \in RunType
  BY <1>1, AtInv
<1>3. c \in Inputs BY <1>2 DEF CallInv, EndingInv, At
<1>4. UNCHANGED <<vars, before, overrun, announced, adopted>> BY <1>1 DEF Rest, RestBut
<1>5. Live \in Sessions BY <1>2, LiveType
<1>6. /\ s \in Sessions /\ s.done /= None /\ s.version = Live.version
      /\ s.state = Live.state /\ s.history = Live.history
  BY <1>5, NoneAssumption DEF Completed, Sessions
<1>7. ASSUME Put(s) PROVE SessionInv' /\ Types /\ session' \in Sessions /\ lives' \in Nat
  <2>1. /\ session' = s /\ s /= None /\ lives' \in Nat
        /\ lives' = IF session = None THEN lives + 1 ELSE lives
    BY <1>2, <1>6, <1>7, PutTo
  <2>2. /\ \A n \in adopted' : n <= lives' 
        /\ \A a \in announced' : a[1] <= lives'
        /\ EndAnnouncedOnce'
    BY <1>2, <1>4, <2>1 DEF Types, SessionInv, EndAnnouncedOnce
  <2>3. ASSUME s.version /= None, lives' \notin adopted',
               NEW m \in Machines, Version[m] = s.version
        PROVE  InFlow(s, m)
    <3>1. session /= None BY <1>6, <2>3 DEF Live, Blank
    <3>2. Live = session /\ lives' = lives BY <2>1, <3>1 DEF Live
    <3>3. InFlow(session, m) BY <1>2, <1>4, <1>6, <2>3, <3>1, <3>2 DEF SessionInv
    <3>4. QED BY <1>6, <3>2, <3>3 DEF InFlow
  <2>4. QED BY <1>2, <1>6, <2>1, <2>2, <2>3 DEF SessionInv, InFlow
<1>8. CASE Fail(c) /\ (Keep \/ Put(s))
  <2>1. CASE Keep
    BY <1>2, <1>4, <1>8, <2>1, KeepInv, FailInv DEF Types, Keep
  <2>2. CASE Put(s)
    BY <1>2, <1>4, <1>7, <1>8, <2>2, FailInv DEF Types
  <2>3. QED BY <1>8, <2>1, <2>2
<1>9. CASE Put(s) /\ Go(c, "restarted")
  <2>1. /\ run' \in [Calls -> RunType] /\ \A d \in Calls \ {c} : run'[d] = run[d]
        /\ run'[c].at = "restarted"
    BY <1>2, <1>9, GoTo DEF Labels, Over
  <2>2. CallInv(c)'
    BY <1>3, <2>1 DEF CallInv, InputInv, LookInv, FlowInv, TurnInv, At, Handling
  <2>3. Types' /\ Others(c) BY <1>2, <1>4, <1>7, <1>9, <2>1 DEF Types, Others
  <2>4. QED BY <1>2, <1>4, <1>7, <1>9, <2>2, <2>3, StepOf
<1>10. QED BY <1>1, <1>8, <1>9 DEF WriteBare

LEMMA BeforeProcessInv ==
  ASSUME EngineInv, NEW c \in Calls, BeforeProcess(c)
  PROVE  EngineInv'
<1> DEFINE f == run[c].flow
<1>1. Steps(c, "before") /\ Keep /\ UNCHANGED <<vars, overrun, announced, adopted>>
  BY DEF BeforeProcess
<1>2. /\ pc[c] = "inside" /\ run[c].at = "before" /\ CallInv(c) /\ Types /\ SessionInv
      /\ run[c] \in RunType
  BY <1>1, AtInv
<1>3. /\ UNCHANGED <<session, lives>> /\ Live' = Live /\ SessionInv'
  BY <1>1, <1>2, KeepInv DEF Keep, Live
<1>4. /\ c \in Inputs /\ f \in Machines
      /\ \/ Gone(c)
         \/ /\ session = before[c] /\ run[c].from = Live.state
            /\ run[c].version = Live.version /\ run[c].done = Live.done
      /\ run[c].done = None =>
           /\ run[c].from \in StatesOf[f] \cup {None}
           /\ run[c].version \in {None, Version[f]}
           /\ run[c].version = None /\ Version[f] /= None => run[c].from = None
  BY <1>2 DEF CallInv, InputInv, EndingInv, LookInv, At
<1>5. CASE Fail(c) /\ UNCHANGED before
  BY <1>1, <1>2, <1>3, <1>5, FailInv DEF Types
<1>6. ASSUME NEW label \in {"blocked", "replayed"}, Go(c, label), UNCHANGED before,
             label = "replayed" => Replay(c)
      PROVE  EngineInv'
  <2>1. /\ run' \in [Calls -> RunType] /\ \A d \in Calls \ {c} : run'[d] = run[d]
        /\ run'[c].at = label /\ run'[c].done = run[c].done
    BY <1>2, <1>6, GoTo DEF Labels, Over
  <2>2. CallInv(c)'
    BY <1>1, <1>3, <1>4, <1>6, <2>1
    DEF CallInv, InputInv, LookInv, FlowInv, TurnInv, At, Handling, Gone, Replay
  <2>3. Types' /\ Others(c) BY <1>1, <1>2, <1>3, <1>6, <2>1 DEF Types, Others
  <2>4. QED BY <1>1, <1>2, <1>3, <2>2, <2>3, StepOf
<1>7. ASSUME ~Replay(c), before' = [before EXCEPT ![c] = None],
             NEW label, label = IF Version[f] /= None /\ run[c].version = None
                                THEN "pin" ELSE "choose",
             run' = [run EXCEPT ![c].version = None, ![c].done = None, ![c].at = label]
      PROVE  EngineInv'
  <2>1. /\ run' \in [Calls -> RunType] /\ \A d \in Calls \ {c} : run'[d] = run[d]
        /\ run'[c].at = label /\ run'[c].flow = f /\ run'[c].from = run[c].from
    BY <1>2, <1>7 DEF Types, RunType, Labels, Handling
  <2>2. Types' /\ Others(c) BY <1>1, <1>2, <1>3, <1>7, <2>1 DEF Types, Others
  <2>3. run[c].done = None BY <1>7 DEF Replay
  <2>4. Live.done = None /\ (Gone(c) => Live = Blank)
    BY <1>4, <2>3 DEF Gone, Live, Blank
  <2>5. ASSUME label = "choose", session /= None, Version[f] /= None, lives \notin adopted
        PROVE  InFlow(session, f)
    <3>1. session.version = Version[f] BY <1>4, <1>7, <2>3, <2>5 DEF Gone, Live
    <3>2. QED BY <1>2, <1>4, <2>5, <3>1 DEF SessionInv
  <2>6. LookInv(c)' BY <2>1, <1>7 DEF LookInv, At
  <2>7. FlowInv(c)'
    BY <1>1, <1>3, <1>4, <1>7, <2>1, <2>3, <2>4, <2>5
    DEF FlowInv, At, Handling, Gone, Blank, InFlow
  <2>8. TurnInv(c)'
    BY <1>1, <1>3, <1>7, <2>1, <2>4 DEF TurnInv, At, Handling
  <2>9. CallInv(c)' BY <1>4, <1>7, <2>1, <2>6, <2>7, <2>8 DEF CallInv, InputInv, At
  <2>10. QED BY <1>1, <1>2, <1>3, <2>2, <2>9, StepOf
<1>8. QED BY <1>5, <1>6, <1>7 DEF BeforeProcess, Flow

-----------------------------------------------------------------------------
(* An accepted turn.                                                       *)

LEMMA PinInv ==
  ASSUME EngineInv, NEW c \in Calls, Pin(c)
  PROVE  EngineInv'
<1> DEFINE f == run[c].flow  s == VersionSet(Version[f])
<1>1. /\ Steps(c, "pin") /\ WriteBare(c, s, "choose")
      /\ adopted' = IF Live.history = <<>> THEN adopted ELSE adopted \cup {lives}
      /\ UNCHANGED <<vars, before, overrun, announced>>
  BY DEF Pin, Flow, RestBut
<1>2. /\ pc[c] = "inside" /\ run[c].at = "pin" /\ CallInv(c) /\ Types /\ SessionInv
      /\ run[c] \in RunType
  BY <1>1, AtInv
<1>3. /\ c \in Inputs /\ f \in Machines /\ run[c].from \in StatesOf[f] \cup {None}
      /\ Version[f] /= None /\ Live.version = None /\ Live.state = None /\ Live.done = None
  BY <1>2 DEF CallInv, InputInv, EndingInv, FlowInv, TurnInv, At, Handling
<1>4. Live \in Sessions BY <1>2, LiveType
<1>5. /\ s \in Sessions /\ s.done = None /\ s.version = Version[f]
      /\ s.state = None /\ s.history = Live.history
  BY <1>3, <1>4, MachinesAssumption DEF VersionSet, Sessions
<1>6. adopted \subseteq adopted' /\ adopted' \subseteq adopted \cup {lives} /\ adopted' \subseteq Nat
  BY <1>1, <1>2 DEF Types
<1>7. ASSUME lives' \notin adopted', Put(s) PROVE InFlow(s, f)
  <2>1. lives' = IF session = None THEN lives + 1 ELSE lives
    BY <1>2, <1>5, <1>7, PutTo
  <2>2. Live.history = <<>> BY <1>1, <1>7, <2>1 DEF Live, Blank
  <2>3. QED BY <1>5, <2>2 DEF InFlow
<1>8. ASSUME Put(s)
      PROVE  SessionInv' /\ session' = s /\ session' /= None /\ Live' = s /\ lives' \in Nat
  BY <1>1, <1>2, <1>3, <1>5, <1>6, <1>7, <1>8, WriteInv, PutTo
<1>9. ASSUME Keep PROVE SessionInv'
  <2>1. \A n \in adopted' : n <= lives' BY <1>2, <1>6, <1>9 DEF Types, SessionInv, Keep
  <2>2. session' = session /\ lives' = lives /\ announced' = announced
    BY <1>1, <1>9 DEF Keep
  <2>3. ASSUME session' /= None, session'.version /= None PROVE FALSE
    BY <1>3, <2>2, <2>3 DEF Live
  <2>4. QED BY <1>2, <2>1, <2>2, <2>3 DEF SessionInv, Unannounced, EndAnnouncedOnce
<1>10. CASE Fail(c) /\ (Keep \/ Put(s))
  <2>1. CASE Keep
    BY <1>1, <1>2, <1>6, <1>9, <1>10, <2>1, FailInv DEF Types, Keep
  <2>2. CASE Put(s)
    BY <1>1, <1>2, <1>5, <1>6, <1>8, <1>10, <2>2, FailInv DEF Types
  <2>3. QED BY <1>10, <2>1, <2>2
<1>11. CASE Put(s) /\ Go(c, "choose")
  <2>1. /\ run' \in [Calls -> RunType] /\ \A d \in Calls \ {c} : run'[d] = run[d]
        /\ run'[c].at = "choose" /\ run'[c].flow = f /\ run'[c].from = run[c].from
    BY <1>2, <1>11, GoTo DEF Labels, Handling
  <2>2. CallInv(c)'
    BY <1>3, <1>5, <1>7, <1>8, <1>11, <2>1
    DEF CallInv, InputInv, LookInv, FlowInv, TurnInv, At, Handling
  <2>3. Types' /\ Others(c)
    BY <1>1, <1>2, <1>5, <1>6, <1>8, <1>11, <2>1 DEF Types, Others
  <2>4. QED BY <1>1, <1>2, <1>8, <1>11, <2>2, <2>3, StepOf
<1>12. QED BY <1>1, <1>10, <1>11 DEF WriteBare

\* What is known of an accepted turn at one of its steps.
LEMMA TurnAt ==
  ASSUME EngineInv, NEW c \in Calls, NEW label \in Handling \ {"pin"}, Steps(c, label)
  PROVE  /\ Turns(c) /\ c \in Inputs /\ pc[c] = "inside" /\ run[c].at = label
         /\ CallInv(c) /\ Types /\ SessionInv /\ run[c] \in RunType /\ Live \in Sessions
         /\ run[c].flow \in Machines /\ run[c].from \in StatesOf[run[c].flow] \cup {None}
         /\ Live.version \in {None, Version[run[c].flow]} /\ Live.done = None
         /\ c \notin overrun => Live.version = Version[run[c].flow]
         /\ session /= None /\ Version[run[c].flow] /= None /\ lives \notin adopted =>
              InFlow(session, run[c].flow)
<1>1. /\ pc[c] = "inside" /\ run[c].at = label /\ CallInv(c) /\ Types /\ SessionInv
      /\ run[c] \in RunType
  BY AtInv
<1>2. c \in Inputs BY <1>1 DEF CallInv, EndingInv, At, Handling
<1>3. Live \in Sessions BY <1>1, LiveType
<1>4. QED BY <1>1, <1>2, <1>3 DEF Turns, CallInv, InputInv, FlowInv, TurnInv, At

\* The present session, or the new one that a write would make of it.
LEMMA LiveInFlow ==
  ASSUME NEW f \in Machines,
         session /= None /\ Version[f] /= None /\ lives \notin adopted => InFlow(session, f),
         Version[f] /= None, session = None \/ lives \notin adopted
  PROVE  InFlow(Live, f)
<1>1. CASE session = None
  <2>1. Live.state = None /\ Live.history = <<>> BY <1>1 DEF Live, Blank
  <2>2. QED BY <2>1 DEF InFlow
<1>2. CASE session /= None
  BY <1>2 DEF Live
<1>3. QED BY <1>1, <1>2

\* A step of an accepted turn that stores nothing and goes to a plain label.
LEMMA TurnKeeps ==
  ASSUME EngineInv, NEW c \in Calls, Turns(c), Keep, Rest, Types', Others(c),
         run'[c].flow = run[c].flow, run'[c].from = run[c].from,
         run'[c].at \in {"pop", "handle", "push", "set", "handlerpop", "setdata", "after", "complete", "announce"},
         run'[c].at \in {"push", "set"} => run'[c].target \in StatesOf[run[c].flow],
         run'[c].at \in {"setdata", "after", "complete", "announce"} /\ c \notin overrun =>
           run'[c].target \in {None, Live.state},
         run'[c].at = "handlerpop" => run'[c].target = None,
         run'[c].at = "complete" => run'[c].reply = "END",
         run'[c].at = "announce" => run'[c].reply = "CON"
  PROVE  EngineInv'
<1>1. Steps(c, run[c].at) /\ run[c].at \in Handling \ {"pin"}
  BY DEF Turns, Steps, At
<1>2. /\ c \in Inputs /\ pc[c] = "inside" /\ Types /\ SessionInv /\ Live \in Sessions
      /\ run[c].flow \in Machines /\ run[c].from \in StatesOf[run[c].flow] \cup {None}
      /\ Live.version \in {None, Version[run[c].flow]} /\ Live.done = None
      /\ c \notin overrun => Live.version = Version[run[c].flow]
      /\ session /= None /\ Version[run[c].flow] /= None /\ lives \notin adopted =>
           InFlow(session, run[c].flow)
  BY <1>1, TurnAt
<1>3. /\ UNCHANGED <<vars, before, overrun, announced, adopted, session, lives>>
      /\ Live' = Live /\ SessionInv'
  BY <1>2, KeepInv DEF Rest, RestBut, Keep, Live
<1>4. LookInv(c)' BY DEF LookInv, At
<1>5. FlowInv(c)' BY <1>2, <1>3 DEF FlowInv, At, Handling, InFlow
<1>6. TurnInv(c)' BY <1>2, <1>3 DEF TurnInv, At, Handling
<1>7. CallInv(c)' BY <1>2, <1>4, <1>5, <1>6 DEF CallInv, InputInv, At
<1>8. QED BY <1>2, <1>3, <1>7, StepOf

\* A throw of an accepted turn, where nothing is stored.
LEMMA TurnThrows ==
  ASSUME EngineInv, NEW c \in Calls, Turns(c), Keep, Rest,
         NEW kind \in {"other", "validation"}, Throw(c, kind)
  PROVE  EngineInv'
BY ThrowInv DEF Keep, Rest, RestBut

LEMMA ChooseInv ==
  ASSUME EngineInv, NEW c \in Calls, Choose(c)
  PROVE  EngineInv'
<1>1. Steps(c, "choose") /\ Keep /\ Rest BY DEF Choose
<1>2. Turns(c) /\ Types BY <1>1, TurnAt DEF Handling
<1>3. ASSUME NEW label \in {"pop", "handle"}, Go(c, label) PROVE EngineInv'
  <2>1. /\ run' \in [Calls -> RunType] /\ \A d \in Calls \ {c} : run'[d] = run[d]
        /\ run'[c].at = label /\ run'[c].flow = run[c].flow /\ run'[c].from = run[c].from
    BY <1>2, <1>3, GoTo DEF Labels, Handling
  <2>2. Types' /\ Others(c)
    BY <1>1, <1>2, <2>1 DEF Types, Others, Rest, RestBut, Keep
  <2>3. QED BY <1>1, <1>2, <2>1, <2>2, TurnKeeps
<1>4. QED BY <1>1, <1>2, <1>3, TurnThrows DEF Choose

LEMMA HandleInv ==
  ASSUME EngineInv, NEW c \in Calls, Handle(c)
  PROVE  EngineInv'
<1> DEFINE f == run[c].flow
<1>1. Steps(c, "handle") /\ Keep /\ Rest BY DEF Handle
<1>2. /\ Turns(c) /\ Types /\ f \in Machines /\ run[c].from \in StatesOf[f] \cup {None}
  BY <1>1, TurnAt DEF Handling
<1>3. Current(c) \in StatesOf[f] /\ StatesOf[f] \subseteq AllStates
  BY <1>2, MachinesAssumption, NoneAssumption DEF Current, Flow
<1>4. ASSUME NEW reply \in {"CON", "END"}, NEW data \in BOOLEAN,
             NEW next \in AllStates \cup {None}, NEW back \in BOOLEAN,
             Moves(f, reply, next) => next \in StatesOf[f],
             run' = [run EXCEPT ![c].reply = reply, ![c].data = data,
                     ![c].target =
                       IF Moves(f, reply, next) THEN next
                       ELSE IF ~back /\ (reply = "CON" \/ run[c].from = None)
                       THEN Current(c) ELSE None,
                     ![c].at =
                       IF Moves(f, reply, next)
                       THEN IF next = Current(c) THEN "set" ELSE "push"
                       ELSE IF back THEN "handlerpop"
                       ELSE IF reply = "CON" \/ run[c].from = None THEN "set"
                       ELSE "setdata"]
      PROVE  EngineInv'
  <2> DEFINE target == IF Moves(f, reply, next) THEN next
                       ELSE IF ~back /\ (reply = "CON" \/ run[c].from = None)
                       THEN Current(c) ELSE None
             label == IF Moves(f, reply, next)
                       THEN IF next = Current(c) THEN "set" ELSE "push"
                       ELSE IF back THEN "handlerpop"
                       ELSE IF reply = "CON" \/ run[c].from = None THEN "set"
                       ELSE "setdata"
  <2>1. target \in AllStates \cup {None} /\ label \in {"set", "push", "handlerpop", "setdata"}
    BY <1>3
  <2>2. /\ label \in {"push", "set"} => target \in StatesOf[f]
        /\ label \in {"setdata", "handlerpop"} => target = None
    BY <1>3, <1>4
  <2>3. run' = [run EXCEPT ![c].reply = reply, ![c].data = data,
                           ![c].target = target, ![c].at = label]
    BY <1>4
  <2> HIDE DEF target, label
  <2>4. /\ run' \in [Calls -> RunType] /\ \A d \in Calls \ {c} : run'[d] = run[d]
        /\ run'[c].at = label /\ run'[c].flow = f /\ run'[c].from = run[c].from
        /\ run'[c].target = target
    <3>1. run[c] \in RunType BY <1>2 DEF Types
    <3>2. run'[c] = [run[c] EXCEPT !.reply = reply, !.data = data, !.target = target, !.at = label]
      BY <1>2, <2>3 DEF Types
    <3>3. run'[c] \in RunType BY <2>1, <3>1, <3>2, ZenonT(40) DEF RunType, Labels, Handling
    <3>4. QED BY <1>2, <2>3, <3>1, <3>2, <3>3 DEF Types, RunType
  <2>5. Types' /\ Others(c)
    BY <1>1, <1>2, <2>4 DEF Types, Others, Rest, RestBut, Keep
  <2>6. QED BY <1>1, <1>2, <2>1, <2>2, <2>4, <2>5, TurnKeeps
<1>5. ASSUME NEW kind \in {"validation", "other"}, Throw(c, kind) PROVE EngineInv'
  BY <1>1, <1>2, <1>5, TurnThrows
<1>6. CASE \E reply \in {"CON", "END"}, data \in BOOLEAN,
              next \in AllStates \cup {None}, back \in BOOLEAN :
          /\ c \notin aborted
          /\ next /= None => ~back
          /\ \/ /\ Moves(f, reply, next) /\ next \notin StatesOf[f]
                /\ Throw(c, "other")
             \/ /\ Moves(f, reply, next) => next \in StatesOf[f]
                /\ run' = [run EXCEPT ![c].reply = reply, ![c].data = data,
                     ![c].target =
                       IF Moves(f, reply, next) THEN next
                       ELSE IF ~back /\ (reply = "CON" \/ run[c].from = None)
                       THEN Current(c) ELSE None,
                     ![c].at =
                       IF Moves(f, reply, next)
                       THEN IF next = Current(c) THEN "set" ELSE "push"
                       ELSE IF back THEN "handlerpop"
                       ELSE IF reply = "CON" \/ run[c].from = None THEN "set"
                       ELSE "setdata"]
  <2>1. PICK reply \in {"CON", "END"}, data \in BOOLEAN,
                next \in AllStates \cup {None}, back \in BOOLEAN :
            /\ c \notin aborted
            /\ next /= None => ~back
            /\ \/ /\ Moves(f, reply, next) /\ next \notin StatesOf[f]
                  /\ Throw(c, "other")
               \/ /\ Moves(f, reply, next) => next \in StatesOf[f]
                  /\ run' = [run EXCEPT ![c].reply = reply, ![c].data = data,
                       ![c].target =
                         IF Moves(f, reply, next) THEN next
                         ELSE IF ~back /\ (reply = "CON" \/ run[c].from = None)
                         THEN Current(c) ELSE None,
                       ![c].at =
                         IF Moves(f, reply, next)
                         THEN IF next = Current(c) THEN "set" ELSE "push"
                         ELSE IF back THEN "handlerpop"
                         ELSE IF reply = "CON" \/ run[c].from = None THEN "set"
                         ELSE "setdata"]
    BY <1>6, Zenon
  <2>2. CASE Throw(c, "other") BY <1>5, <2>2
  <2>3. CASE Moves(f, reply, next) => next \in StatesOf[f]
    BY <1>4, <2>1, <2>3, Zenon
  <2>4. QED BY <2>1, <2>2, <2>3, Zenon
<1>7. QED BY <1>5, <1>6, Zenon DEF Handle, Flow

-----------------------------------------------------------------------------
(* What an accepted turn stores.                                           *)

LEMMA FrontIn ==
  ASSUME NEW S, NEW h \in Seq(S), h /= <<>>
  PROVE  Front(h) \in Seq(S) /\ h[Len(h)] \in S
<1>1. Len(h) \in Nat /\ Len(h) >= 1 BY EmptySeq, LenProperties
<1>2. \A i \in 1 .. Len(h) - 1 : h[i] \in S BY <1>1, ElementOfSeq
<1>3. Front(h) \in Seq(S) BY <1>1, <1>2, SubSeqProperties DEF Front
<1>4. QED BY <1>1, <1>3, ElementOfSeq

LEMMA PushedIn ==
  ASSUME NEW S, NEW h \in Seq(S), NEW q \in S
  PROVE  Bounded(Append(h, q)) \in Seq(S)
<1> DEFINE g == Append(h, q)
<1>1. g \in Seq(S) BY AppendProperties
<1>2. CASE Len(g) > MaxHistory
  <2>1. Len(g) \in Nat /\ MaxHistory \in Nat \ {0} BY <1>1, LenProperties, HistoryAssumption
  <2>2. SubSeq(g, Len(g) - MaxHistory + 1, Len(g)) \in Seq(S)
    BY <1>1, <1>2, <2>1, SubSeqProperties
  <2>3. QED BY <1>2, <2>2 DEF Bounded
<1>3. QED BY <1>1, <1>2 DEF Bounded

\* A write of an accepted turn that goes on.
LEMMA TurnStores ==
  ASSUME EngineInv, NEW c \in Calls, Turns(c), NEW s, WrittenBy(c, s),
         UNCHANGED <<vars, before, overrun, announced>>,
         run' \in [Calls -> RunType], \A d \in Calls \ {c} : run'[d] = run[d],
         run'[c].flow = run[c].flow, run'[c].from = run[c].from,
         s.done = None, c \notin overrun => s.version = Version[run[c].flow],
         run'[c].at \in {"set", "setdata", "after", "handle", "reenter", "backset", "handlerset"},
         run'[c].at = "set" => run'[c].target \in StatesOf[run[c].flow],
         run'[c].at \in {"reenter", "setdata", "after"} /\ c \notin overrun =>
           run'[c].target \in {None, s.state},
         run'[c].at \in {"backset", "handlerset"} =>
           /\ run'[c].target /= None
           /\ Version[run[c].flow] /= None /\ lives' \notin adopted' =>
                run'[c].target \in StatesOf[run[c].flow]
  PROVE  EngineInv'
<1>1. Steps(c, run[c].at) /\ run[c].at \in Handling \ {"pin"}
  BY DEF Turns, Steps, At
<1>2. /\ c \in Inputs /\ pc[c] = "inside" /\ Types /\ SessionInv
      /\ run[c].flow \in Machines /\ run[c].from \in StatesOf[run[c].flow] \cup {None}
  BY <1>1, TurnAt
<1>3. /\ SessionInv' /\ session' = s /\ session' /= None /\ Live' = s
      /\ lives' \in Nat /\ adopted' \subseteq Nat
  BY TurnWrites
<1>4. /\ s \in Sessions /\ s.version \in {None, Version[run[c].flow]}
      /\ Version[run[c].flow] /= None /\ lives' \notin adopted' => InFlow(s, run[c].flow)
  BY DEF WrittenBy, Flow
<1>5. Types' /\ Others(c) BY <1>2, <1>3, <1>4 DEF Types, Others
<1>6. LookInv(c)' BY DEF LookInv, At
<1>7. FlowInv(c)' BY <1>2, <1>3, <1>4 DEF FlowInv, At, Handling, InFlow
<1>8. TurnInv(c)' BY <1>3 DEF TurnInv, At, Handling
<1>9. CallInv(c)' BY <1>2, <1>6, <1>7, <1>8 DEF CallInv, InputInv, At
<1>10. QED BY <1>2, <1>3, <1>5, <1>9, StepOf

\* The parts of a write: done, refused, or done with its answer lost.
LEMMA TurnWrite ==
  ASSUME EngineInv, NEW c \in Calls, Turns(c), NEW s, NEW label, Write(c, s, label),
         UNCHANGED <<vars, before, overrun, announced>>,
         Keep => UNCHANGED adopted, Put(s) => WrittenBy(c, s),
         Put(s) /\ Go(c, label) => EngineInv'
  PROVE  EngineInv'
BY ThrowInv DEF Write, Keep

LEMMA SetInv ==
  ASSUME EngineInv, NEW c \in Calls, Set(c)
  PROVE  EngineInv'
<1> DEFINE f == run[c].flow  s == StateSet(run[c].target)
<1>1. Steps(c, "set") /\ Write(c, s, "setdata") /\ Rest BY DEF Set
<1>2. /\ Turns(c) /\ Types /\ CallInv(c) /\ c \in Inputs /\ run[c].at = "set"
      /\ Live \in Sessions /\ Live.done = None /\ f \in Machines
      /\ Live.version \in {None, Version[f]}
      /\ c \notin overrun => Live.version = Version[f]
      /\ session /= None /\ Version[f] /= None /\ lives \notin adopted => InFlow(session, f)
  BY <1>1, TurnAt DEF Handling
<1>3. run[c].target \in StatesOf[f] /\ run[c].target \in AllStates
  BY <1>2, MachinesAssumption DEF CallInv, InputInv, FlowInv, At
<1>4. /\ s \in Sessions /\ s.state = run[c].target /\ s.done = None
      /\ s.version = Live.version /\ s.history = Live.history
  BY <1>2, <1>3 DEF StateSet, Sessions
<1>5. Put(s) => WrittenBy(c, s)
  <2>1. SUFFICES ASSUME Put(s) PROVE WrittenBy(c, s) OBVIOUS
  <2>2. lives' = IF session = None THEN lives + 1 ELSE lives BY <1>2, <1>4, <2>1, PutTo
  <2>3. adopted' = adopted BY <1>1 DEF Rest
  <2>4. Version[f] /= None /\ lives' \notin adopted' => InFlow(s, f)
    BY <1>2, <1>3, <1>4, <2>2, <2>3, LiveInFlow DEF InFlow
  <2>5. QED BY <1>2, <1>4, <2>1, <2>3, <2>4 DEF WrittenBy, Flow
<1>6. ASSUME Put(s), Go(c, "setdata") PROVE EngineInv'
  <2>1. /\ run' \in [Calls -> RunType] /\ \A d \in Calls \ {c} : run'[d] = run[d]
        /\ run'[c].at = "setdata" /\ run'[c].flow = f /\ run'[c].from = run[c].from
        /\ run'[c].target = run[c].target
    BY <1>2, <1>6, GoTo DEF Labels, Handling
  <2>2. QED BY <1>1, <1>2, <1>4, <1>5, <1>6, <2>1, TurnStores DEF Rest, RestBut
<1>7. QED BY <1>1, <1>2, <1>5, <1>6, TurnWrite DEF Rest, RestBut

LEMMA PushInv ==
  ASSUME EngineInv, NEW c \in Calls, Push(c)
  PROVE  EngineInv'
<1> DEFINE f == run[c].flow  s == Pushed(Current(c))
<1>1. Steps(c, "push") /\ Write(c, s, "set") /\ Rest BY DEF Push
<1>2. /\ Turns(c) /\ Types /\ CallInv(c) /\ c \in Inputs /\ run[c].at = "push"
      /\ Live \in Sessions /\ Live.done = None /\ f \in Machines
      /\ run[c].from \in StatesOf[f] \cup {None}
      /\ Live.version \in {None, Version[f]}
      /\ c \notin overrun => Live.version = Version[f]
      /\ session /= None /\ Version[f] /= None /\ lives \notin adopted => InFlow(session, f)
  BY <1>1, TurnAt DEF Handling
<1>3. run[c].target \in StatesOf[f] 
  BY <1>2 DEF CallInv, InputInv, FlowInv, At
<1>4. Current(c) \in StatesOf[f] /\ Current(c) \in AllStates
  BY <1>2, MachinesAssumption, NoneAssumption DEF Current, Flow
<1>5. /\ s.state = Live.state /\ s.done = None /\ s.version = Live.version
      /\ s.history = Bounded(Append(Live.history, Current(c)))
  BY <1>2 DEF Pushed, Sessions
<1>6. s \in Sessions
  <2>1. Bounded(Append(Live.history, Current(c))) \in Seq(AllStates)
    BY <1>2, <1>4, PushedIn DEF Sessions
  <2>2. QED BY <1>2, <2>1 DEF Pushed, Sessions
<1>7. Put(s) => WrittenBy(c, s)
  <2>1. SUFFICES ASSUME Put(s) PROVE WrittenBy(c, s) OBVIOUS
  <2>2. lives' = IF session = None THEN lives + 1 ELSE lives BY <1>2, <1>6, <2>1, PutTo
  <2>3. adopted' = adopted BY <1>1 DEF Rest
  <2>4. ASSUME Version[f] /= None, lives' \notin adopted' PROVE InFlow(s, f)
    <3>1. InFlow(Live, f) BY <1>2, <2>2, <2>3, <2>4, LiveInFlow
    <3>2. QED BY <1>4, <1>5, <3>1, PushedIn DEF InFlow
  <2>5. QED BY <1>2, <1>5, <1>6, <2>1, <2>3, <2>4 DEF WrittenBy, Flow
<1>8. ASSUME Put(s), Go(c, "set") PROVE EngineInv'
  <2>1. /\ run' \in [Calls -> RunType] /\ \A d \in Calls \ {c} : run'[d] = run[d]
        /\ run'[c].at = "set" /\ run'[c].flow = f /\ run'[c].from = run[c].from
        /\ run'[c].target = run[c].target
    BY <1>2, <1>8, GoTo DEF Labels, Handling
  <2>2. QED BY <1>1, <1>2, <1>3, <1>5, <1>7, <1>8, <2>1, TurnStores DEF Rest, RestBut
<1>9. QED BY <1>1, <1>2, <1>7, <1>8, TurnWrite DEF Rest, RestBut

\* The state gone back to, from the history, is stored.
LEMMA BackInv ==
  ASSUME EngineInv, NEW c \in Calls,
         NEW label \in {"backset", "handlerset"}, Steps(c, label),
         NEW next \in {"reenter", "handle", "setdata"},
         Write(c, StateSet(run[c].target), next), Inherited, RestBut
  PROVE  EngineInv'
<1> DEFINE f == run[c].flow  s == StateSet(run[c].target)
<1>2. /\ Turns(c) /\ Types /\ SessionInv /\ CallInv(c) /\ c \in Inputs /\ run[c].at = label
      /\ run[c] \in RunType /\ Live \in Sessions /\ Live.done = None /\ f \in Machines
      /\ Live.version \in {None, Version[f]}
      /\ c \notin overrun => Live.version = Version[f]
      /\ session /= None /\ Version[f] /= None /\ lives \notin adopted => InFlow(session, f)
  BY TurnAt DEF Handling
<1>3. /\ run[c].target \in AllStates
      /\ Version[f] /= None /\ lives \notin adopted => run[c].target \in StatesOf[f]
  BY <1>2 DEF CallInv, InputInv, FlowInv, At, RunType
<1>4. /\ s \in Sessions /\ s.state = run[c].target /\ s.done = None
      /\ s.version = Live.version /\ s.history = Live.history
  BY <1>2, <1>3 DEF StateSet, Sessions
<1>5. Put(s) => WrittenBy(c, s)
  <2>1. SUFFICES ASSUME Put(s) PROVE WrittenBy(c, s) OBVIOUS
  <2>2. lives' = IF session = None THEN lives + 1 ELSE lives BY <1>2, <1>4, <2>1, PutTo
  <2>3. /\ adopted \subseteq adopted' /\ adopted' \subseteq adopted \cup {lives'}
        /\ lives' \notin adopted' => lives \notin adopted
    BY DEF Inherited
  <2>4. Version[f] /= None /\ lives' \notin adopted' => InFlow(s, f)
    BY <1>2, <1>3, <1>4, <2>2, <2>3, LiveInFlow DEF InFlow
  <2>5. QED BY <1>2, <1>4, <2>1, <2>3, <2>4 DEF WrittenBy, Flow
<1>6. ASSUME Put(s), Go(c, next) PROVE EngineInv'
  <2>1. /\ run' \in [Calls -> RunType] /\ \A d \in Calls \ {c} : run'[d] = run[d]
        /\ run'[c].at = next /\ run'[c].flow = f /\ run'[c].from = run[c].from
        /\ run'[c].target = run[c].target
    BY <1>2, <1>6, GoTo DEF Labels, Handling
  <2>2. QED BY <1>2, <1>4, <1>5, <1>6, <2>1, TurnStores DEF RestBut
<1>7. Keep => UNCHANGED adopted
  BY DEF Keep, Inherited
<1>8. QED BY <1>2, <1>5, <1>6, <1>7, TurnWrite DEF RestBut

LEMMA BackSetInv ==
  ASSUME EngineInv, NEW c \in Calls, BackSet(c) \/ HandlerSet(c)
  PROVE  EngineInv'
BY BackInv DEF BackSet, HandlerSet

LEMMA PopInv ==
  ASSUME EngineInv, NEW c \in Calls,
         \/ PopForKey(c)
         \/ PopForHandler(c)
  PROVE  EngineInv'
<1> DEFINE f == run[c].flow
<1>1. PICK label \in {"pop", "handlerpop"}, none \in {"handle", "setdata"},
           some \in {"backset", "handlerset"} :
        Pop(c, label, none, some) /\ (none = "setdata" => label = "handlerpop")
  BY DEF PopForKey, PopForHandler
<1>2. Steps(c, label) /\ Rest BY <1>1 DEF Pop
<1>3. /\ Turns(c) /\ Types /\ CallInv(c) /\ c \in Inputs /\ run[c].at = label
      /\ run[c] \in RunType /\ Live \in Sessions /\ Live.done = None /\ f \in Machines
      /\ Live.version \in {None, Version[f]}
      /\ c \notin overrun => Live.version = Version[f]
      /\ session /= None /\ Version[f] /= None /\ lives \notin adopted => InFlow(session, f)
  BY <1>2, TurnAt DEF Handling
<1>4. ASSUME HasHistory
      PROVE  /\ Live = session /\ session /= None /\ Popped \in Sessions /\ Popped.done = None
             /\ Popped.version = session.version
             /\ session.history[Len(session.history)] \in AllStates
             /\ \A S : session.history \in Seq(S) =>
                  Popped.history \in Seq(S) /\ session.history[Len(session.history)] \in S
             /\ Popped.state = session.state
  <2>1. session /= None /\ session.history /= <<>> /\ Live = session BY <1>4 DEF HasHistory, Live
  <2>2. \A S : session.history \in Seq(S) =>
          Front(session.history) \in Seq(S) /\ session.history[Len(session.history)] \in S
    BY <2>1, FrontIn
  <2>3. session \in Sessions BY <1>3, <2>1
  <2>4. Front(session.history) \in Seq(AllStates) /\ session.history[Len(session.history)] \in AllStates
    BY <2>2, <2>3 DEF Sessions
  <2>5. /\ Popped.history = Front(session.history) /\ Popped.done = session.done
        /\ Popped.version = session.version /\ Popped.state = session.state
    BY <2>3 DEF Popped, Sessions
  <2>6. Popped \in Sessions BY <2>3, <2>4 DEF Popped, Sessions
  <2>7. QED BY <1>3, <2>1, <2>2, <2>4, <2>5, <2>6
<1>5. ASSUME HasHistory, Put(Popped) PROVE WrittenBy(c, Popped) /\ lives' = lives
  <2>1. lives' = lives BY <1>3, <1>4, <1>5, PutTo
  <2>2. adopted' = adopted BY <1>2 DEF Rest
  <2>3. Version[f] /= None /\ lives' \notin adopted' => InFlow(Popped, f)
    BY <1>3, <1>4, <1>5, <2>1, <2>2 DEF InFlow
  <2>4. QED BY <1>3, <1>4, <1>5, <2>1, <2>2, <2>3 DEF WrittenBy, Flow
<1>6. CASE Go(c, none) /\ Keep
  <2>1. /\ run' \in [Calls -> RunType] /\ \A d \in Calls \ {c} : run'[d] = run[d]
        /\ run'[c].at = none /\ run'[c].flow = f /\ run'[c].from = run[c].from
        /\ run'[c].target = run[c].target
    BY <1>3, <1>6, GoTo DEF Labels, Handling
  <2>2. none = "setdata" => run'[c].target = None
    <3>1. label = "handlerpop" => run[c].target = None
      BY <1>3 DEF CallInv, InputInv, TurnInv, At
    <3>2. QED BY <1>1, <2>1, <3>1
  <2>3. Types' /\ Others(c)
    BY <1>2, <1>3, <1>6, <2>1 DEF Types, Others, Rest, RestBut, Keep
  <2>4. QED BY <1>2, <1>3, <1>6, <2>1, <2>2, <2>3, TurnKeeps
<1>7. ASSUME HasHistory, Put(Popped),
             run' = [run EXCEPT ![c].at = some, ![c].target = session.history[Len(session.history)]]
      PROVE  EngineInv'
  <2> DEFINE target == session.history[Len(session.history)]
  <2>1. target \in AllStates /\ target /= None BY <1>4, <1>7, NoneAssumption
  <2>2. /\ run' \in [Calls -> RunType] /\ \A d \in Calls \ {c} : run'[d] = run[d]
        /\ run'[c].at = some /\ run'[c].target = target
        /\ run'[c].flow = f /\ run'[c].from = run[c].from
    <3>1. run'[c] = [run[c] EXCEPT !.at = some, !.target = target] BY <1>3, <1>7 DEF Types
    <3>2. run'[c] \in RunType BY <1>3, <2>1, <3>1, ZenonT(40) DEF RunType, Labels, Handling
    <3>3. QED BY <1>3, <1>7, <3>1, <3>2 DEF Types, RunType
  <2>3. WrittenBy(c, Popped) /\ lives' = lives BY <1>5, <1>7
  <2>4. adopted' = adopted BY <1>2 DEF Rest
  <2>5. Version[f] /= None /\ lives' \notin adopted' => target \in StatesOf[f]
    BY <1>3, <1>4, <1>7, <2>3, <2>4 DEF InFlow
  <2>6. c \notin overrun => Popped.version = Version[f]
    BY <1>3, <1>4, <1>7
  <2>7. Popped.done = None BY <1>4, <1>7
  <2> HIDE DEF target
  <2>8. UNCHANGED <<vars, before, overrun, announced>> BY <1>2 DEF Rest, RestBut
  <2>9. run'[c].at \in {"backset", "handlerset"} BY <2>2
  <2>10. QED BY <1>3, <2>1, <2>2, <2>3, <2>5, <2>6, <2>7, <2>8, <2>9, TurnStores
<1>8. CASE Throw(c, "other") /\ (Keep \/ (HasHistory /\ Put(Popped)))
  BY <1>2, <1>3, <1>5, <1>8, ThrowInv DEF Keep, Rest, RestBut
<1>9. QED BY <1>1, <1>6, <1>7, <1>8 DEF Pop


LEMMA ReenterInv ==
  ASSUME EngineInv, NEW c \in Calls, Reenter(c)
  PROVE  EngineInv'
<1>1. Steps(c, "reenter") /\ Keep /\ Rest BY DEF Reenter
<1>2. /\ Turns(c) /\ Types /\ CallInv(c) /\ c \in Inputs /\ run[c].at = "reenter"
      /\ run[c] \in RunType
  BY <1>1, TurnAt DEF Handling
<1>3. ASSUME NEW reply \in {"CON", "END"}, NEW data \in BOOLEAN,
             run' = [run EXCEPT ![c].at = "setdata", ![c].reply = reply, ![c].data = data]
      PROVE  EngineInv'
  <2>1. /\ run' \in [Calls -> RunType] /\ \A d \in Calls \ {c} : run'[d] = run[d]
        /\ run'[c].at = "setdata" /\ run'[c].target = run[c].target
        /\ run'[c].flow = run[c].flow /\ run'[c].from = run[c].from
    <3>1. run'[c] = [run[c] EXCEPT !.at = "setdata", !.reply = reply, !.data = data]
      BY <1>2, <1>3 DEF Types
    <3>2. run'[c] \in RunType BY <1>2, <3>1 DEF RunType, Labels, Handling
    <3>3. QED BY <1>2, <1>3, <3>1, <3>2 DEF Types, RunType
  <2>2. c \notin overrun => run[c].target \in {None, Live.state}
    BY <1>2 DEF CallInv, InputInv, TurnInv, At
  <2>3. Types' /\ Others(c)
    BY <1>1, <1>2, <2>1 DEF Types, Others, Rest, RestBut, Keep
  <2>4. QED BY <1>1, <1>2, <2>1, <2>2, <2>3, TurnKeeps
<1>4. QED BY <1>1, <1>2, <1>3, TurnThrows DEF Reenter

LEMMA SetDataInv ==
  ASSUME EngineInv, NEW c \in Calls, SetData(c)
  PROVE  EngineInv'
<1> DEFINE f == run[c].flow  s == VersionSet(Version[f])
<1>1. Steps(c, "setdata") /\ Rest BY DEF SetData
<1>2. /\ Turns(c) /\ Types /\ CallInv(c) /\ c \in Inputs /\ run[c].at = "setdata"
      /\ Live \in Sessions /\ Live.done = None /\ f \in Machines
      /\ Live.version \in {None, Version[f]}
      /\ c \notin overrun => Live.version = Version[f]
      /\ session /= None /\ Version[f] /= None /\ lives \notin adopted => InFlow(session, f)
  BY <1>1, TurnAt DEF Handling
<1>3. c \notin overrun => run[c].target \in {None, Live.state}
  BY <1>2 DEF CallInv, InputInv, TurnInv, At
<1>4. /\ s.state = Live.state /\ s.done = None /\ s.version = Version[f]
      /\ s.history = Live.history /\ s \in Sessions
  BY <1>2, MachinesAssumption DEF VersionSet, Sessions
<1>5. Put(s) => WrittenBy(c, s)
  <2>1. SUFFICES ASSUME Put(s) PROVE WrittenBy(c, s) OBVIOUS
  <2>2. lives' = IF session = None THEN lives + 1 ELSE lives BY <1>2, <1>4, <2>1, PutTo
  <2>3. adopted' = adopted BY <1>1 DEF Rest
  <2>4. Version[f] /= None /\ lives' \notin adopted' => InFlow(s, f)
    BY <1>2, <1>4, <2>2, <2>3, LiveInFlow DEF InFlow
  <2>5. QED BY <1>2, <1>4, <2>1, <2>3, <2>4 DEF WrittenBy, Flow
<1>6. ASSUME Put(s), Go(c, "after") PROVE EngineInv'
  <2>1. /\ run' \in [Calls -> RunType] /\ \A d \in Calls \ {c} : run'[d] = run[d]
        /\ run'[c].at = "after" /\ run'[c].flow = f /\ run'[c].from = run[c].from
        /\ run'[c].target = run[c].target
    BY <1>2, <1>6, GoTo DEF Labels, Handling
  <2>2. QED BY <1>1, <1>2, <1>3, <1>4, <1>5, <1>6, <2>1, TurnStores DEF Rest, RestBut
<1>7. ASSUME NEW label \in {"after", "complete"}, Keep, Go(c, label),
             label = "complete" => run[c].reply = "END"
      PROVE  EngineInv'
  <2>1. /\ run' \in [Calls -> RunType] /\ \A d \in Calls \ {c} : run'[d] = run[d]
        /\ run'[c].at = label /\ run'[c].flow = f /\ run'[c].from = run[c].from
        /\ run'[c].target = run[c].target /\ run'[c].reply = run[c].reply
    BY <1>2, <1>7, GoTo DEF Labels, Handling
  <2>2. Types' /\ Others(c)
    BY <1>1, <1>2, <1>7, <2>1 DEF Types, Others, Rest, RestBut, Keep
  <2>3. QED BY <1>1, <1>2, <1>3, <1>7, <2>1, <2>2, TurnKeeps
<1>8. ASSUME Write(c, s, "after") PROVE EngineInv'
  BY <1>1, <1>2, <1>5, <1>6, <1>8, TurnWrite DEF Rest, RestBut
<1>9. QED BY <1>7, <1>8 DEF SetData, Flow

LEMMA AfterProcessInv ==
  ASSUME EngineInv, NEW c \in Calls, AfterProcess(c)
  PROVE  EngineInv'
<1>1. Steps(c, "after") /\ Keep /\ Rest BY DEF AfterProcess
<1>2. /\ Turns(c) /\ Types /\ CallInv(c) /\ c \in Inputs /\ run[c].at = "after"
      /\ run[c] \in RunType
  BY <1>1, TurnAt DEF Handling
<1>3. ASSUME NEW reply \in {"CON", "END"}, NEW label,
             label = IF reply = "END" THEN "complete" ELSE "announce",
             run' = [run EXCEPT ![c].reply = reply, ![c].at = label]
      PROVE  EngineInv'
  <2>1. /\ run' \in [Calls -> RunType] /\ \A d \in Calls \ {c} : run'[d] = run[d]
        /\ run'[c].at = label /\ run'[c].reply = reply /\ run'[c].target = run[c].target
        /\ run'[c].flow = run[c].flow /\ run'[c].from = run[c].from
    <3>1. run'[c] = [run[c] EXCEPT !.reply = reply, !.at = label]
      BY <1>2, <1>3 DEF Types
    <3>2. label \in Labels BY <1>3 DEF Labels, Handling
    <3>3. run'[c] \in RunType BY <1>2, <3>1, <3>2 DEF RunType
    <3>4. QED BY <1>2, <1>3, <3>1, <3>3 DEF Types, RunType
  <2>2. c \notin overrun => run[c].target \in {None, Live.state}
    BY <1>2 DEF CallInv, InputInv, TurnInv, At
  <2>3. Types' /\ Others(c)
    BY <1>1, <1>2, <2>1 DEF Types, Others, Rest, RestBut, Keep
  <2>4. QED BY <1>1, <1>2, <1>3, <2>1, <2>2, <2>3, TurnKeeps
<1>4. QED BY <1>1, <1>2, <1>3, TurnThrows DEF AfterProcess

LEMMA CompleteInv ==
  ASSUME EngineInv, NEW c \in Calls, Complete(c)
  PROVE  EngineInv'
<1> DEFINE f == run[c].flow
           s == Completed(c, IF run[c].data THEN Version[f] ELSE None)
<1>1. Steps(c, "complete") /\ Write(c, s, "announce") /\ Rest BY DEF Complete, Flow
<1>2. /\ Turns(c) /\ Types /\ SessionInv /\ CallInv(c) /\ c \in Inputs /\ pc[c] = "inside"
      /\ run[c].at = "complete" /\ Live \in Sessions /\ Live.done = None /\ f \in Machines
      /\ run[c].from \in StatesOf[f] \cup {None}
      /\ Live.version \in {None, Version[f]}
      /\ c \notin overrun => Live.version = Version[f]
      /\ session /= None /\ Version[f] /= None /\ lives \notin adopted => InFlow(session, f)
  BY <1>1, TurnAt DEF Handling
<1>3. /\ c \notin overrun => run[c].target \in {None, Live.state}
      /\ run[c].reply = "END"
  BY <1>2 DEF CallInv, InputInv, TurnInv, At
<1>4. /\ s.state = Live.state /\ s.done = c /\ c /= None
      /\ s.version \in {Live.version, Version[f]}
      /\ s.history = Live.history /\ s \in Sessions
      /\ c \notin overrun => s.version = Version[f]
  BY <1>2, MachinesAssumption, NoneAssumption DEF Completed, Sessions
<1>5. Put(s) => WrittenBy(c, s)
  <2>1. SUFFICES ASSUME Put(s) PROVE WrittenBy(c, s) OBVIOUS
  <2>2. lives' = IF session = None THEN lives + 1 ELSE lives BY <1>2, <1>4, <2>1, PutTo
  <2>3. adopted' = adopted BY <1>1 DEF Rest
  <2>4. Version[f] /= None /\ lives' \notin adopted' => InFlow(s, f)
    BY <1>2, <1>4, <2>2, <2>3, LiveInFlow DEF InFlow
  <2>5. QED BY <1>2, <1>4, <2>1, <2>3, <2>4 DEF WrittenBy, Flow
<1>6. ASSUME Put(s), Go(c, "announce") PROVE EngineInv'
  <2>1. /\ run' \in [Calls -> RunType] /\ \A d \in Calls \ {c} : run'[d] = run[d]
        /\ run'[c].at = "announce" /\ run'[c].flow = f /\ run'[c].from = run[c].from
        /\ run'[c].target = run[c].target /\ run'[c].reply = "END"
    BY <1>2, <1>3, <1>6, GoTo DEF Labels
  <2>2. UNCHANGED <<vars, before, overrun, announced, adopted>> BY <1>1 DEF Rest, RestBut
  <2>3. /\ SessionInv' /\ session' = s /\ session' /= None /\ Live' = s
        /\ lives' \in Nat /\ lives' = IF session = None THEN lives + 1 ELSE lives
        /\ adopted' \subseteq Nat
    BY <1>2, <1>5, <1>6, <2>2, TurnWrites
  <2>4. Unannounced'
    <3>1. CASE session = None
      BY <1>2, <2>2, <2>3, <3>1 DEF SessionInv, Types, Unannounced
    <3>2. CASE session /= None
      BY <1>2, <2>2, <2>3, <3>2 DEF SessionInv, Types, Unannounced, Live
    <3>3. QED BY <3>1, <3>2
  <2>5. Types' /\ Others(c) BY <1>2, <1>4, <2>1, <2>2, <2>3 DEF Types, Others
  <2>6. LookInv(c)' /\ FlowInv(c)' BY <2>1 DEF LookInv, FlowInv, At, Handling
  <2>7. TurnInv(c)'
    BY <1>3, <1>4, <2>1, <2>2, <2>3, <2>4 DEF TurnInv, At, Handling
  <2>8. CallInv(c)' BY <1>2, <2>1, <2>6, <2>7 DEF CallInv, InputInv, At
  <2>9. QED BY <1>2, <2>2, <2>3, <2>5, <2>8, StepOf
<1>7. QED BY <1>1, <1>2, <1>5, <1>6, TurnWrite DEF Rest, RestBut
-----------------------------------------------------------------------------
(* The end of a turn.                                                      *)

\* The end of the present life is announced by c.
LEMMA AnnounceTo ==
  ASSUME Types, SessionInv, NEW c \in Calls, UNCHANGED <<session, lives, adopted>>,
         announced' = announced \cup {<<lives, c>>},
         Unannounced, session = None \/ session.done /= None
  PROVE  SessionInv' /\ announced' \subseteq Nat \X Calls
<1>1. EndAnnouncedOnce' BY DEF SessionInv, EndAnnouncedOnce, Unannounced
<1>2. \A a \in announced' : a[1] <= lives' BY DEF SessionInv, Types
<1>3. QED BY <1>1, <1>2 DEF SessionInv, Types, InFlow

LEMMA AnnounceInv ==
  ASSUME EngineInv, NEW c \in Calls, Announce(c)
  PROVE  EngineInv'
<1>1. /\ Steps(c, "announce") /\ Go(c, "handled") /\ Keep
      /\ announced' = IF run[c].reply = "END" THEN announced \cup {<<lives, c>>} ELSE announced
      /\ UNCHANGED <<vars, before, overrun, adopted>>
  BY DEF Announce
<1>2. /\ pc[c] = "inside" /\ run[c].at = "announce" /\ CallInv(c) /\ Types /\ SessionInv
  BY <1>1, AtInv
<1>3. /\ c \in Inputs /\ InputInv(c) BY <1>2 DEF CallInv, EndingInv, At
<1>4. SessionInv' /\ announced' \subseteq Nat \X Calls
  <2>1. CASE run[c].reply = "END"
    BY <1>1, <1>2, <1>3, <2>1, AnnounceTo DEF InputInv, TurnInv, At, Keep
  <2>2. CASE run[c].reply /= "END"
    BY <1>1, <1>2, <2>2, KeepInv DEF Keep, Types
  <2>3. QED BY <2>1, <2>2
<1>5. /\ run' \in [Calls -> RunType] /\ \A d \in Calls \ {c} : run'[d] = run[d]
      /\ run'[c].at = "handled" /\ run'[c].flow = run[c].flow /\ run'[c].from = run[c].from
      /\ run'[c].target = run[c].target /\ run'[c].reply = run[c].reply
  BY <1>1, <1>2, GoTo DEF Labels, Over
<1>6. Live' = Live BY <1>1 DEF Live, Keep
<1>7. CallInv(c)'
  <2>1. LookInv(c)' /\ FlowInv(c)' BY <1>5 DEF LookInv, FlowInv, At, Handling
  <2>2. TurnInv(c) BY <1>3 DEF InputInv
  <2>3. TurnInv(c)' BY <1>1, <1>2, <1>5, <1>6, <2>2 DEF TurnInv, At, Handling
  <2>4. QED BY <1>3, <1>5, <2>1, <2>3 DEF CallInv, InputInv, At
<1>8. Types' /\ Others(c) BY <1>1, <1>2, <1>4, <1>5 DEF Types, Others, Keep
<1>9. QED BY <1>1, <1>2, <1>4, <1>7, <1>8, StepOf

LEMMA CatchInv ==
  ASSUME EngineInv, NEW c \in Calls, Catch(c)
  PROVE  EngineInv'
<1>1. Steps(c, "caught") /\ Keep /\ Rest BY DEF Catch
<1>2. /\ pc[c] = "inside" /\ run[c].at = "caught" /\ CallInv(c) /\ Types /\ SessionInv
  BY <1>1, AtInv
<1>3. c \in Inputs /\ InputInv(c) BY <1>2 DEF CallInv, EndingInv, At
<1>4. /\ UNCHANGED <<vars, before, overrun, announced, adopted, session, lives>>
      /\ Live' = Live /\ SessionInv'
  BY <1>1, <1>2, KeepInv DEF Rest, RestBut, Keep, Live
<1>5. CASE Fail(c)
  BY <1>2, <1>4, <1>5, FailInv DEF Types
<1>6. CASE run[c].error = "validation" /\ Go(c, "retry")
  <2>1. /\ run' \in [Calls -> RunType] /\ \A d \in Calls \ {c} : run'[d] = run[d]
        /\ run'[c].at = "retry" /\ run'[c].flow = run[c].flow /\ run'[c].from = run[c].from
    BY <1>2, <1>6, GoTo DEF Labels
  <2>2. CallInv(c)'
    <3>1. LookInv(c)' BY <2>1 DEF LookInv, At
    <3>2. FlowInv(c) /\ TurnInv(c) BY <1>3 DEF InputInv
    <3>3. FlowInv(c)' BY <1>2, <1>4, <2>1, <3>2 DEF FlowInv, At, Handling
    <3>4. TurnInv(c)' BY <1>2, <1>4, <1>6, <2>1, <3>2 DEF TurnInv, At, Handling
    <3>5. QED BY <1>3, <2>1, <3>1, <3>3, <3>4 DEF CallInv, InputInv, At
  <2>3. Types' /\ Others(c) BY <1>2, <1>4, <2>1 DEF Types, Others
  <2>4. QED BY <1>2, <1>4, <2>2, <2>3, StepOf
<1>7. QED BY <1>5, <1>6 DEF Catch

LEMMA RetryInv ==
  ASSUME EngineInv, NEW c \in Calls, Retry(c)
  PROVE  EngineInv'
<1> DEFINE f == run[c].flow  s == StateSet(Current(c))
<1>1. Steps(c, "retry") /\ WriteBare(c, s, "retried") /\ Rest BY DEF Retry
<1>2. /\ pc[c] = "inside" /\ run[c].at = "retry" /\ CallInv(c) /\ Types /\ SessionInv
      /\ Live \in Sessions
  BY <1>1, AtInv, LiveType
<1>3. /\ c \in Inputs /\ f \in Machines /\ run[c].from \in StatesOf[f] \cup {None}
      /\ Live.version \in {None, Version[f]} /\ Live.done = None
  BY <1>2 DEF CallInv, InputInv, EndingInv, FlowInv, TurnInv, At
<1>4. Current(c) \in StatesOf[f] /\ Current(c) \in AllStates
  BY <1>3, MachinesAssumption, NoneAssumption DEF Current, Flow
<1>5. /\ s \in Sessions /\ s.state = Current(c) /\ s.done = None
      /\ s.version = Live.version /\ s.history = Live.history
  BY <1>2, <1>3, <1>4 DEF StateSet, Sessions
<1>6. UNCHANGED <<vars, before, overrun, announced, adopted>> BY <1>1 DEF Rest, RestBut
<1>7. ASSUME Put(s)
      PROVE  SessionInv' /\ session' = s /\ Live' = s /\ lives' \in Nat
  <2>1. /\ session' = s /\ Live' = s /\ lives' \in Nat
        /\ lives' = IF session = None THEN lives + 1 ELSE lives
    BY <1>2, <1>5, <1>7, PutTo
  <2>2. ASSUME s.version /= None, lives' \notin adopted'
        PROVE  s.version = Version[f] /\ InFlow(s, f)
    <3>1. session /= None /\ Live = session BY <1>5, <2>2 DEF Live, Blank
    <3>2. s.version = Version[f] BY <1>3, <1>5, <2>2
    <3>3. InFlow(session, f) 
      BY <1>2, <1>3, <1>5, <1>6, <2>1, <2>2, <3>1, <3>2 DEF SessionInv
    <3>4. QED BY <1>4, <1>5, <3>1, <3>2, <3>3 DEF InFlow
  <2>3. QED BY <1>2, <1>3, <1>5, <1>6, <1>7, <2>1, <2>2, WriteInv
<1>8. CASE Fail(c) /\ (Keep \/ Put(s))
  <2>1. CASE Keep
    BY <1>2, <1>6, <1>8, <2>1, KeepInv, FailInv DEF Types, Keep
  <2>2. CASE Put(s)
    BY <1>2, <1>5, <1>6, <1>7, <1>8, <2>2, FailInv DEF Types
  <2>3. QED BY <1>8, <2>1, <2>2
<1>9. CASE Put(s) /\ Go(c, "retried")
  <2>1. /\ run' \in [Calls -> RunType] /\ \A d \in Calls \ {c} : run'[d] = run[d]
        /\ run'[c].at = "retried" /\ run'[c].flow = f /\ run'[c].from = run[c].from
    BY <1>2, <1>9, GoTo DEF Labels, Over
  <2>2. Current(c)' = Current(c) BY <2>1 DEF Current, Flow
  <2>3. CallInv(c)'
    BY <1>3, <1>5, <1>7, <1>9, <2>1, <2>2
    DEF CallInv, InputInv, LookInv, FlowInv, TurnInv, At, Handling
  <2>4. Types' /\ Others(c) BY <1>2, <1>5, <1>6, <1>7, <1>9, <2>1 DEF Types, Others
  <2>5. QED BY <1>2, <1>6, <1>7, <1>9, <2>3, <2>4, StepOf
<1>10. QED BY <1>1, <1>8, <1>9 DEF WriteBare
-----------------------------------------------------------------------------
(* endSession, expiry and the lock.                                        *)

LEMMA LookStepInv ==
  ASSUME EngineInv, NEW c \in Calls, Look(c)
  PROVE  EngineInv'
<1>1. Steps(c, "state") /\ c \in Endings /\ Keep /\ Rest BY DEF Look
<1>2. /\ pc[c] = "inside" /\ run[c].at = "state" /\ Types /\ SessionInv /\ run[c] \in RunType
      /\ c \notin Inputs
  BY <1>1, AtInv, CallsAssumption
<1>3. /\ UNCHANGED <<vars, before, overrun, announced, adopted, session, lives>> /\ SessionInv'
  BY <1>1, <1>2, KeepInv DEF Rest, RestBut, Keep
<1>4. CASE Fail(c)
  BY <1>2, <1>3, <1>4, FailInv DEF Types
<1>5. CASE Go(c, "ended")
  <2>1. /\ run' \in [Calls -> RunType] /\ \A d \in Calls \ {c} : run'[d] = run[d]
        /\ run'[c].at = "ended"
    BY <1>2, <1>5, GoTo DEF Labels, Over
  <2>2. CallInv(c)' BY <1>2, <2>1 DEF CallInv, EndingInv, At
  <2>3. Types' /\ Others(c) BY <1>2, <1>3, <2>1 DEF Types, Others
  <2>4. QED BY <1>2, <1>3, <2>2, <2>3, StepOf
<1>6. ASSUME session /= None, NEW done,
             done = IF OwesFarewell THEN None ELSE session.done,
             run' = [run EXCEPT ![c].at = "remove", ![c].done = done]
      PROVE  EngineInv'
  <2>1. session \in Sessions /\ session.done \in Calls \cup {None} 
    BY <1>2, <1>6 DEF Types, Sessions
  <2>2. /\ run' \in [Calls -> RunType] /\ \A d \in Calls \ {c} : run'[d] = run[d]
        /\ run'[c].at = "remove" /\ run'[c].done = done
    <3>1. run'[c] = [run[c] EXCEPT !.at = "remove", !.done = done] BY <1>2, <1>6 DEF Types
    <3>2. done \in Calls \cup {None} /\ "remove" \in Labels BY <1>6, <2>1 DEF Labels
    <3>3. run[c] \in RunType BY <1>2 DEF Types
    <3>4. run'[c] \in RunType BY <3>1, <3>2, <3>3 DEF RunType
    <3>5. run'[c].at = "remove" /\ run'[c].done = done BY <3>1, <3>3 DEF RunType
    <3>6. QED BY <1>2, <1>6, <3>4, <3>5 DEF Types
  <2>3. done = None => Unannounced
    BY <1>2, <1>6 DEF SessionInv, OwesFarewell, Live
  <2>4. CallInv(c)'
    BY <1>2, <1>3, <2>2, <2>3 DEF CallInv, EndingInv, At, Unannounced
  <2>5. Types' /\ Others(c) BY <1>2, <1>3, <2>2 DEF Types, Others
  <2>6. QED BY <1>2, <1>3, <2>4, <2>5, StepOf
<1>7. QED BY <1>4, <1>5, <1>6 DEF Look

LEMMA RemovedInv ==
  ASSUME Types, SessionInv, Put(None), UNCHANGED <<announced, adopted>>
  PROVE  SessionInv' /\ session' = None /\ lives' = lives
BY DEF Types, SessionInv, Put, EndAnnouncedOnce

LEMMA RemoveInv ==
  ASSUME EngineInv, NEW c \in Calls, Remove(c)
  PROVE  EngineInv'
<1>1. Steps(c, "remove") /\ WriteBare(c, None, "farewell") /\ Rest BY DEF Remove
<1>2. /\ pc[c] = "inside" /\ run[c].at = "remove" /\ CallInv(c) /\ Types /\ SessionInv
  BY <1>1, AtInv
<1>3. c \notin Inputs /\ EndingInv(c) BY <1>2 DEF CallInv, InputInv, At
<1>4. UNCHANGED <<vars, before, overrun, announced, adopted>> BY <1>1 DEF Rest, RestBut
<1>5. CASE Fail(c) /\ (Keep \/ Put(None))
  <2>1. CASE Keep
    BY <1>2, <1>4, <1>5, <2>1, KeepInv, FailInv DEF Types, Keep
  <2>2. CASE Put(None)
    BY <1>2, <1>4, <1>5, <2>2, RemovedInv, FailInv DEF Types
  <2>3. QED BY <1>5, <2>1, <2>2
<1>6. CASE Put(None) /\ Go(c, "farewell")
  <2>1. /\ run' \in [Calls -> RunType] /\ \A d \in Calls \ {c} : run'[d] = run[d]
        /\ run'[c].at = "farewell" /\ run'[c].done = run[c].done
    BY <1>2, <1>6, GoTo DEF Labels
  <2>2. SessionInv' /\ session' = None /\ lives' = lives
    BY <1>2, <1>4, <1>6, RemovedInv
  <2>3. CallInv(c)'
    BY <1>2, <1>3, <1>4, <2>1, <2>2 DEF CallInv, EndingInv, At, Unannounced
  <2>4. Types' /\ Others(c) BY <1>2, <1>4, <2>1, <2>2 DEF Types, Others
  <2>5. QED BY <1>2, <1>4, <2>2, <2>3, <2>4, StepOf
<1>7. QED BY <1>1, <1>5, <1>6 DEF WriteBare

LEMMA FarewellInv ==
  ASSUME EngineInv, NEW c \in Calls, Farewell(c)
  PROVE  EngineInv'
<1>1. /\ Steps(c, "farewell") /\ Go(c, "ended") /\ Keep
      /\ announced' = IF run[c].done = None THEN announced \cup {<<lives, c>>} ELSE announced
      /\ UNCHANGED <<vars, before, overrun, adopted>>
  BY DEF Farewell
<1>2. /\ pc[c] = "inside" /\ run[c].at = "farewell" /\ CallInv(c) /\ Types /\ SessionInv
  BY <1>1, AtInv
<1>3. c \notin Inputs /\ EndingInv(c) BY <1>2 DEF CallInv, InputInv, At
<1>4. SessionInv' /\ announced' \subseteq Nat \X Calls
  <2>1. CASE run[c].done = None
    BY <1>1, <1>2, <1>3, <2>1, AnnounceTo DEF EndingInv, At, Keep
  <2>2. CASE run[c].done /= None
    BY <1>1, <1>2, <2>2, KeepInv DEF Keep, Types
  <2>3. QED BY <2>1, <2>2
<1>5. /\ run' \in [Calls -> RunType] /\ \A d \in Calls \ {c} : run'[d] = run[d]
      /\ run'[c].at = "ended"
  BY <1>1, <1>2, GoTo DEF Labels, Over
<1>6. CallInv(c)' BY <1>3, <1>5 DEF CallInv, EndingInv, At
<1>7. Types' /\ Others(c) BY <1>1, <1>2, <1>4, <1>5 DEF Types, Others, Keep
<1>8. QED BY <1>1, <1>2, <1>4, <1>6, <1>7, StepOf

LEMMA ExpireInv ==
  ASSUME EngineInv, Expire
  PROVE  EngineInv'
<1>1. /\ session /= None /\ Put(None) /\ overrun' = overrun \cup Inside
      /\ UNCHANGED <<vars, run, before, announced, adopted>> /\ Types /\ SessionInv
  BY DEF Expire, EngineInv
<1>2. SessionInv' /\ session' = None /\ lives' = lives BY <1>1, RemovedInv
<1>3. Inside' = Inside /\ TypeOK' /\ MutualExclusion' /\ NoLostWakeup'
  BY <1>1 DEF EngineInv, TypeOK, MutualExclusion, NoLostWakeup, Inside, vars
<1>4. Types' BY <1>1, <1>2 DEF Types, Inside
<1>5. IdleInv' BY <1>1, <1>3 DEF EngineInv, IdleInv, Inside
<1>6. Live' = Blank BY <1>2 DEF Live
<1>7. ASSUME NEW c \in Inside PROVE CallInv(c)'
  <2>1. CallInv(c) /\ c \in overrun' /\ c \in Calls BY <1>1 DEF EngineInv, Inside
  <2>2. CASE c \in Inputs
    <3>1. LookInv(c) /\ FlowInv(c) /\ TurnInv(c) /\ At(c) \notin {"remove", "farewell", "ended"}
      BY <2>1, <2>2 DEF CallInv, InputInv
    <3>2. LookInv(c)' BY <1>1, <1>2, <2>1, <3>1 DEF LookInv, At, Gone
    <3>3. FlowInv(c)'
      BY <1>1, <1>2, <1>6, <2>1, <3>1 DEF FlowInv, At, Handling, Blank
    <3>4. TurnInv(c)'
      BY <1>1, <1>2, <1>6, <2>1, <3>1 DEF TurnInv, At, Handling, Blank, Unannounced
    <3>5. QED BY <1>1, <2>2, <3>1, <3>2, <3>3, <3>4 DEF CallInv, InputInv, At
  <2>3. CASE c \notin Inputs
    BY <1>1, <1>2, <2>1, <2>3 DEF CallInv, EndingInv, At, Unannounced
  <2>4. QED BY <2>2, <2>3
<1>8. QED BY <1>2, <1>3, <1>4, <1>5, <1>7 DEF EngineInv

\* The lock's own steps.
LEMMA LockPart == EngineInv => LockInv
BY DEF EngineInv, LockInv

LEMMA LockStepPreserves ==
  ASSUME EngineInv, NEW c \in Calls, LockStep(c)
  PROVE  EngineInv'
<1>1. [Next]_vars BY DEF LockStep, Leaves, Resumes, Next
<1>2. TypeOK' /\ MutualExclusion' /\ NoLostWakeup'
  BY <1>1, LockPart, LockStepInv DEF LockInv
<1>3. Types /\ SessionInv /\ IdleInv /\ TypeOK /\ \A d \in Inside : CallInv(d)
  BY DEF EngineInv
<1>4. UNCHANGED <<session, lives, announced, adopted>>
  BY DEF LockStep, Leaves, Resumes, engineVars
<1>5. SessionInv' BY <1>3, <1>4, KeepInv
<1>6. CASE Leaves(c)
  <2>1. /\ pc[c] = "inside"
        /\ pc' = [d \in Calls |-> IF d = c THEN "done" ELSE IF d \in waiters THEN "woken" ELSE pc[d]]
        /\ run' = [run EXCEPT ![c] = Fresh] /\ before' = [before EXCEPT ![c] = None]
        /\ overrun' = overrun \ {c}
    BY <1>6 DEF Leaves, Release, Wake
  <2>2. Inside = {c} /\ Inside' = {} BY <2>1 DEF EngineInv, Inside, MutualExclusion
  <2>3. Fresh \in RunType BY DEF Fresh, RunType, Labels
  <2>4. Types' BY <1>3, <1>4, <2>1, <2>3 DEF Types
  <2>5. IdleInv' BY <1>3, <2>1, <2>2 DEF IdleInv, Types
  <2>6. QED BY <1>2, <1>5, <2>2, <2>4, <2>5 DEF EngineInv
<1>7. CASE (Resume(c) \/ Arrive(c) \/ Abort(c)) /\ UNCHANGED engineVars
  <2>1. UNCHANGED <<session, run, lives, before, overrun, announced, adopted>>
    BY <1>7 DEF engineVars
  <2>2. Inside' = Inside \/ (pc[c] /= "inside" /\ Inside' = Inside \cup {c})
    BY <1>3, <1>7 DEF Resume, Arrive, Abort, Reject, Compete, Goto, Inside, TypeOK
  <2>3. Types' BY <1>3, <2>1 DEF Types
  <2>4. IdleInv' BY <1>3, <2>1, <2>2 DEF IdleInv
  <2>5. Live' = Live BY <2>1 DEF Live
  <2>6. ASSUME NEW d \in Inside PROVE CallInv(d)'
    <3>1. CallInv(d) BY <1>3
    <3>2. (LookInv(d) => LookInv(d)') /\ (FlowInv(d) => FlowInv(d)')
      BY <2>1, <2>5 DEF LookInv, FlowInv, At, Gone, InFlow
    <3>3. TurnInv(d) => TurnInv(d)'
      BY <2>1, <2>5 DEF TurnInv, At, Gone, Unannounced, Current, Flow
    <3>4. EndingInv(d) => EndingInv(d)'
      BY <2>1 DEF EndingInv, At, Unannounced
    <3>5. QED BY <2>1, <3>1, <3>2, <3>3, <3>4 DEF CallInv, InputInv, At
  <2>7. ASSUME pc[c] /= "inside" PROVE CallInv(c)'
    <3>1. run[c] = Fresh BY <1>3, <2>7 DEF IdleInv, Inside
    <3>2. run'[c].at = "state" BY <2>1, <3>1 DEF Fresh
    <3>3. QED BY <3>2 DEF CallInv, InputInv, EndingInv, LookInv, FlowInv, TurnInv, At, Handling
  <2>8. QED BY <1>2, <1>5, <2>2, <2>3, <2>4, <2>6, <2>7 DEF EngineInv
<1>8. QED BY <1>6, <1>7 DEF LockStep, Resumes
-----------------------------------------------------------------------------
(* The invariant and what follows from it.                                 *)

LEMMA EngineInitInv == EngineInit => EngineInv
<1> SUFFICES ASSUME EngineInit PROVE EngineInv OBVIOUS
<1> USE DEF EngineInit
<1>1. TypeOK /\ MutualExclusion /\ NoLostWakeup /\ Inside = {}
  BY LockInit DEF LockInv, Init, Inside
<1>2. Types BY DEF Types, Fresh, RunType, Labels
<1>3. IdleInv BY <1>1 DEF IdleInv
<1>4. SessionInv BY DEF SessionInv, EndAnnouncedOnce
<1>5. QED BY <1>1, <1>2, <1>3, <1>4 DEF EngineInv

LEMMA EngineStepInv == EngineInv /\ [EngineNext]_allVars => EngineInv'
<1> SUFFICES ASSUME EngineInv, [EngineNext]_allVars PROVE EngineInv' OBVIOUS
<1>1. ASSUME NEW c \in Calls, EngineStep(c) PROVE EngineInv'
  BY <1>1, ReadStateInv, ReadDataInv, RestartInv, BeforeProcessInv, PinInv, ChooseInv,
     PopInv, BackSetInv, ReenterInv, HandleInv, PushInv, SetInv, SetDataInv,
     AfterProcessInv, CompleteInv, AnnounceInv, CatchInv, RetryInv, LookStepInv,
     RemoveInv, FarewellInv
  DEF EngineStep
<1>2. ASSUME NEW c \in Calls, LockStep(c) PROVE EngineInv'
  BY <1>2, LockStepPreserves
<1>3. CASE UNCHANGED allVars
  <2>1. UNCHANGED <<vars, session, run, lives, before, overrun, announced, adopted>>
    BY <1>3 DEF allVars, engineVars
  <2>2. /\ TypeOK' = TypeOK /\ MutualExclusion' = MutualExclusion
        /\ NoLostWakeup' = NoLostWakeup /\ Inside' = Inside
    BY <2>1 DEF vars, TypeOK, MutualExclusion, NoLostWakeup, Inside
  <2>3. Types' /\ IdleInv' BY <2>1, <2>2 DEF EngineInv, Types, IdleInv
  <2>4. SessionInv' BY <2>1, KeepInv DEF EngineInv
  <2>5. Live' = Live BY <2>1 DEF Live
  <2>6. ASSUME NEW d \in Inside PROVE CallInv(d)'
    <3>1. CallInv(d) BY DEF EngineInv
    <3>2. (LookInv(d) => LookInv(d)') /\ (FlowInv(d) => FlowInv(d)')
      BY <2>1, <2>5 DEF LookInv, FlowInv, At, Gone, InFlow
    <3>3. TurnInv(d) => TurnInv(d)'
      BY <2>1, <2>5 DEF TurnInv, At, Gone, Unannounced, Current, Flow
    <3>4. EndingInv(d) => EndingInv(d)'
      BY <2>1 DEF EndingInv, At, Unannounced
    <3>5. QED BY <2>1, <3>1, <3>2, <3>3, <3>4 DEF CallInv, InputInv, At
  <2>7. QED BY <2>2, <2>3, <2>4, <2>6 DEF EngineInv
<1>4. QED BY <1>1, <1>2, <1>3, ExpireInv DEF EngineNext

LEMMA EngineInvariant == EngineSpec => []EngineInv
BY EngineInitInv, EngineStepInv, PTL DEF EngineSpec

\* A pinned session stands in its own version's flow and can only go back
\* within it, for any machines, versions, retained flows and number of calls,
\* whatever fails and whenever the session expires, unless its first accepted
\* turn adopted the history of a first turn that had failed.
THEOREM PinnedInItsFlow == EngineSpec => []StateOfItsFlow
<1>1. EngineInv => StateOfItsFlow
  <2> SUFFICES ASSUME EngineInv, lives \notin adopted, session /= None, session.version /= None,
                      NEW m \in Machines, Version[m] = session.version
               PROVE  /\ session.state \in StatesOf[m] \cup {None}
                      /\ \A i \in 1..Len(session.history) : session.history[i] \in StatesOf[m]
    BY DEF StateOfItsFlow, InItsFlow
  <2>1. InFlow(session, m) BY DEF EngineInv, SessionInv
  <2>2. QED BY <2>1, ElementOfSeq DEF InFlow
<1>2. QED BY <1>1, EngineInvariant, PTL

\* No handler runs in a completed session, and its end is announced at most
\* once, by whichever of the turns and the endSession calls that race.
THEOREM SessionsEndOnce == EngineSpec => []EndIsFinal
<1>1. EngineInv => EndIsFinal
  BY DEF EngineInv, SessionInv, EndIsFinal, NoTurnAfterEnd, CallInv, InputInv, TurnInv, Inside
<1>2. QED BY <1>1, EngineInvariant, PTL

\* An answered turn is stored, a validation error keeps the state, and a
\* replay, a block or a refusal keeps everything, wherever storage calls
\* failed before or after their effect.
THEOREM AnswersAreStored == EngineSpec => []AnswerIsStored
<1>1. EngineInv => AnswerIsStored
  <2> SUFFICES ASSUME EngineInv, NEW c \in Inside, c \in Inputs \ overrun
               PROVE  /\ At(c) \in {"announce", "handled"} =>
                           /\ run[c].target /= None => Live.state = run[c].target
                           /\ Live.done = (IF run[c].reply = "END" THEN c ELSE None)
                           /\ Version[run[c].flow] /= None => Live.version = Version[run[c].flow]
                      /\ At(c) = "retried" => Live.state = Current(c) /\ Live.done = None
                      /\ At(c) \in {"blocked", "replayed"} => session = before[c]
                      /\ At(c) = "replayed" => session.done /= None
    BY DEF AnswerIsStored
  <2>1. LookInv(c) /\ TurnInv(c) BY DEF EngineInv, CallInv, InputInv
  <2>2. Live.done /= None => session.done = Live.done BY DEF Live, Blank
  <2>3. QED BY <2>1, <2>2 DEF LookInv, TurnInv, Gone
<1>2. QED BY <1>1, EngineInvariant, PTL

\* The engine's calls keep the lock's promise: one of them is inside.
THEOREM EngineExcludes == EngineSpec => []MutualExclusion
BY EngineInvariant, PTL DEF EngineInv
=============================================================================
