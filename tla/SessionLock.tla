----------------------------- MODULE SessionLock -----------------------------
(***************************************************************************)
(* The engine's lock of one session (USSDStateMachine._sessionLocks): the  *)
(* calls of processInput and endSession on one storage in one process take *)
(* turns.  A call is a chain of microtasks: what runs between two awaits   *)
(* is one step.                                                            *)
(*                                                                         *)
(* The map's entry is not owned by a call: a release deletes whatever      *)
(* entry is there.  Woken waiters compete again, with each other and with  *)
(* calls that arrive meanwhile, which may overtake them.                   *)
(***************************************************************************)
EXTENDS Naturals, FiniteSets

CONSTANTS
  Inputs,   \* calls of processInput, with the caller's abort signal
  Endings   \* calls of endSession, which takes none

Calls == Inputs \cup Endings

ASSUME CallsAssumption == Inputs \cap Endings = {}

VARIABLES
  locked,   \* whether the map has an entry for the session
  waiters,  \* the waiters of that entry
  pc,       \* where each call stands
  aborted   \* the inputs whose signal has fired

vars == <<locked, waiters, pc, aborted>>

Init ==
  /\ locked = FALSE
  /\ waiters = {}
  /\ pc = [c \in Calls |-> "outside"]
  /\ aborted = {}

Goto(c, label) == pc' = [pc EXCEPT ![c] = label]
-----------------------------------------------------------------------------
(* Operators marked "Wrong:" are deliberate errors: in the place of the    *)
(* definition that follows them they break a property.                     *)

\* Wrong: the lock is taken without looking at it again.
CompeteOnce(c) ==
  \/ /\ locked /\ pc[c] = "outside"
     /\ waiters' = waiters \cup {c} /\ Goto(c, "waiting") /\ UNCHANGED locked
  \/ /\ ~locked \/ pc[c] = "woken"
     /\ locked' = TRUE /\ waiters' = {} /\ Goto(c, "inside")

\* Join the waiters of the entry, or make an entry.
Compete(c) ==
  \/ /\ locked
     /\ waiters' = waiters \cup {c} /\ Goto(c, "waiting") /\ UNCHANGED locked
  \/ /\ ~locked
     /\ locked' = TRUE /\ waiters' = {} /\ Goto(c, "inside")

\* A call arrives, with its signal perhaps already aborted.
Arrive(c) ==
  /\ pc[c] = "outside"
  /\ \/ c \in aborted /\ Goto(c, "failed") /\ UNCHANGED <<locked, waiters>>
     \/ c \notin aborted /\ Compete(c)
  /\ UNCHANGED aborted

\* A woken waiter's loop goes round.
Resume(c) ==
  /\ pc[c] = "woken"
  /\ \/ c \in aborted /\ Goto(c, "failed") /\ UNCHANGED <<locked, waiters>>
     \/ c \notin aborted /\ Compete(c)
  /\ UNCHANGED aborted

\* An aborted waiter leaves the entry's waiters; it has acquired nothing,
\* so it releases nothing.
Reject(c) ==
  /\ Goto(c, "failed")
  /\ waiters' = waiters \ {c} /\ UNCHANGED locked

\* The signal of an input that is not settled fires.  A call that is inside
\* goes on: its run looks at the signal when it comes to it, and ends or
\* fails by Release.
Abort(c) ==
  /\ c \in Inputs \ aborted
  /\ pc[c] \notin {"done", "failed"}
  /\ aborted' = aborted \cup {c}
  /\ \/ pc[c] = "waiting" /\ Reject(c)
     \/ pc[c] /= "waiting" /\ UNCHANGED <<locked, waiters, pc>>

\* Wrong: only one waiter is woken.
WakeOne == {c \in waiters : c = CHOOSE d \in waiters : TRUE}

\* All the waiters of the entry are woken.
Wake == waiters

\* The run of a call ends, however it ends: the entry is deleted and its
\* waiters wake.
Release(c) ==
  /\ pc[c] = "inside"
  /\ pc' = [d \in Calls |-> IF d = c THEN "done"
                            ELSE IF d \in Wake THEN "woken"
                            ELSE pc[d]]
  /\ locked' = FALSE /\ waiters' = {}
  /\ UNCHANGED aborted

Next ==
  \E c \in Calls : Arrive(c) \/ Resume(c) \/ Abort(c) \/ Release(c)

\* Microtasks run, and a run ends some time.
Fairness == \A c \in Calls : WF_vars(Resume(c)) /\ WF_vars(Release(c))

Spec == Init /\ [][Next]_vars /\ Fairness
-----------------------------------------------------------------------------
(* Properties.                                                             *)

\* Every variable stays in its type.
TypeOK ==
  /\ locked \in BOOLEAN
  /\ waiters \subseteq Calls
  /\ pc \in [Calls -> {"outside", "waiting", "woken", "inside", "done", "failed"}]
  /\ aborted \subseteq Inputs

Inside == {c \in Calls : pc[c] = "inside"}

\* At most one call is inside, and the entry is there exactly while one
\* is: no call that never got in, no aborted waiter and no overtaking
\* newcomer removes it.
MutualExclusion ==
  /\ \A c, d \in Inside : c = d
  /\ locked <=> Inside /= {}

\* Whoever sleeps is registered with the present entry, so that a release
\* to come will wake it; an abort leaves no callback behind.
NoLostWakeup ==
  /\ waiters = {c \in Calls : pc[c] = "waiting"}
  /\ waiters /= {} => locked

\* Every call that arrived gets its turn or was aborted, whatever other
\* calls overtake it.
Settles ==
  \A c \in Calls :
    pc[c] = "waiting" ~> pc[c] = "done" \/ (pc[c] = "failed" /\ c \in aborted)
=============================================================================
