--------------------------- MODULE DistributedLock ---------------------------
(***************************************************************************)
(* DistributedLock on one session id: leases in Redis, their renewal, and  *)
(* withSessionLock of createDistributedLockManager, for calls of several   *)
(* processes.                                                              *)
(*                                                                         *)
(* The lock's key holds the value of the call that owns it and expires.    *)
(* Time is abstract: a lease that is renewed at every half of its life     *)
(* cannot expire; one whose renewal failed or came late (missed) can, and  *)
(* so can one that nobody renews.  A process renews the acquisition that   *)
(* its _activeLocks names, and that entry is not owned by a call: every    *)
(* release deletes it.                                                     *)
(***************************************************************************)
EXTENDS Naturals

CONSTANTS
  Calls,    \* critical sections, each run once
  Procs,    \* processes
  ProcOf,   \* the process of each call
  Admins,   \* processes that use forceRelease or releaseAll, once each
  Nobody

ASSUME ProcOfAssumption == ProcOf \in [Calls -> Procs] /\ Admins \subseteq Procs
ASSUME NobodyAssumption == Nobody \notin Calls

VARIABLES
  lease,       \* the call whose value is in the key, or Nobody
  registered,  \* _activeLocks of each process: a call, or Nobody
  lpc,         \* where each call stands
  missed,      \* calls whose last renewal failed or is late
  admin,       \* the administrative release of each process
  lapsed       \* history: calls that lost their lease while they had the lock

lockVars == <<lease, registered, lpc, missed, admin, lapsed>>

LockInit ==
  /\ lease = Nobody
  /\ registered = [p \in Procs |-> Nobody]
  /\ lpc = [c \in Calls |-> "outside"]
  /\ missed = {}
  /\ admin = [p \in Procs |-> "idle"]
  /\ lapsed = {}

Holding(c) == lpc[c] \in {"granted", "inside"}
Goto(c, label) == lpc' = [lpc EXCEPT ![c] = label]

Lose(c) == lapsed' = IF Holding(c) THEN lapsed \cup {c} ELSE lapsed
-----------------------------------------------------------------------------
(* acquire.                                                                *)

Ask(c) ==
  /\ lpc[c] = "outside"
  /\ Goto(c, "asking")
  /\ UNCHANGED <<lease, registered, missed, admin, lapsed>>

\* SET NX PX.  When the key is there the call asks again until it gives up;
\* when the command fails it may still have taken effect.
Acquire(c) ==
  /\ lpc[c] = "asking"
  /\ \/ lease = Nobody /\ lease' = c /\ Goto(c, "granted")
     \/ lease = Nobody /\ lease' = c /\ Goto(c, "failed")
     \/ UNCHANGED lease /\ Goto(c, "failed")
  /\ UNCHANGED <<registered, missed, admin, lapsed>>

\* The reply arrives: the lock is registered, and the renewal is started.
Enter(c) ==
  /\ lpc[c] = "granted"
  /\ registered' = [registered EXCEPT ![ProcOf[c]] = c]
  /\ Goto(c, "inside")
  /\ UNCHANGED <<lease, missed, admin, lapsed>>
-----------------------------------------------------------------------------
(* Renewal.                                                                *)

\* The renewal timer of a call is late, or its command fails: the error is
\* swallowed and the call goes on.
Miss(c) ==
  /\ lpc[c] = "inside" /\ c \notin missed
  /\ missed' = missed \cup {c}
  /\ UNCHANGED <<lease, registered, lpc, admin, lapsed>>

\* extend: the timer of a call renews the lease that its process has
\* registered, if the key still holds that value.
Extend(c) ==
  LET r == registered[ProcOf[c]] IN
  /\ lpc[c] = "inside"
  /\ r \in missed /\ lease = r
  /\ missed' = missed \ {r}
  /\ UNCHANGED <<lease, registered, lpc, admin, lapsed>>

Renewed(c) == lpc[c] = "inside" /\ registered[ProcOf[c]] = c /\ c \notin missed

Expire ==
  /\ lease /= Nobody /\ ~Renewed(lease)
  /\ lease' = Nobody /\ Lose(lease)
  /\ UNCHANGED <<registered, lpc, missed, admin>>
-----------------------------------------------------------------------------
(* Release.  Operators marked "Wrong:" are deliberate errors: in the place *)
(* of the definition that follows them they break a property.              *)

\* The work of the call is over, well or not, and its renewal is stopped.
Leave(c) ==
  /\ lpc[c] = "inside"
  /\ Goto(c, "leaving")
  /\ missed' = missed \ {c}
  /\ UNCHANGED <<lease, registered, admin, lapsed>>

\* Wrong: the key is deleted whoever owns it.
FreeAnyway(c) == lease' = Nobody

\* Check and delete.
Free(c) == lease = c /\ lease' = Nobody

\* _release: the script finds the caller's value, or another, or fails with
\* or without effect.
Release(c) ==
  /\ lpc[c] = "leaving"
  /\ Goto(c, "released")
  /\ Free(c) \/ UNCHANGED lease
  /\ UNCHANGED <<registered, missed, admin, lapsed>>

\* The registration goes after the release has been awaited, whose ever it
\* is by then.
Forget(c) ==
  /\ lpc[c] = "released"
  /\ registered' = [registered EXCEPT ![ProcOf[c]] = Nobody]
  /\ Goto(c, "done")
  /\ UNCHANGED <<lease, missed, admin, lapsed>>

\* forceRelease deletes any owner's key, releaseAll that of the registered
\* acquisition.
ForceRelease(p) ==
  /\ p \in Admins /\ admin[p] = "idle"
  /\ lease /= Nobody /\ lease' = Nobody /\ Lose(lease)
  /\ admin' = [admin EXCEPT ![p] = "forced"]
  /\ UNCHANGED <<registered, lpc, missed>>

ReleaseAll(p) ==
  /\ p \in Admins /\ admin[p] = "idle" /\ registered[p] /= Nobody
  /\ \/ Free(registered[p]) /\ Lose(registered[p])
     \/ UNCHANGED <<lease, lapsed>>
  /\ admin' = [admin EXCEPT ![p] = "forced"]
  /\ UNCHANGED <<registered, lpc, missed>>

ForgetAll(p) ==
  /\ admin[p] = "forced"
  /\ registered' = [registered EXCEPT ![p] = Nobody]
  /\ admin' = [admin EXCEPT ![p] = "over"]
  /\ UNCHANGED <<lease, lpc, missed, lapsed>>

\* A process dies: its calls end where they stand and its lease stays.
CrashLock(p) ==
  /\ lpc' = [c \in Calls |-> IF ProcOf[c] = p /\ lpc[c] /= "outside" THEN "failed"
                             ELSE lpc[c]]
  /\ registered' = [registered EXCEPT ![p] = Nobody]
  /\ missed' = {c \in missed : ProcOf[c] /= p}
  /\ UNCHANGED <<lease, admin, lapsed>>

CallStep(c) ==
  \/ Ask(c) \/ Acquire(c) \/ Enter(c) \/ Miss(c) \/ Extend(c)
  \/ Leave(c) \/ Release(c) \/ Forget(c)

LockNext ==
  \/ \E c \in Calls : CallStep(c)
  \/ \E p \in Procs : ForceRelease(p) \/ ReleaseAll(p) \/ ForgetAll(p) \/ CrashLock(p)
  \/ Expire

LockSpec == LockInit /\ [][LockNext]_lockVars
-----------------------------------------------------------------------------
(* Properties.                                                             *)

LockTypeOK ==
  /\ lease \in Calls \cup {Nobody}
  /\ registered \in [Procs -> Calls \cup {Nobody}]
  /\ lpc \in [Calls -> {"outside", "asking", "granted", "inside", "leaving",
                        "released", "done", "failed"}]
  /\ missed \subseteq Calls
  /\ admin \in [Procs -> {"idle", "forced", "over"}]
  /\ lapsed \subseteq Calls

Inside == {c \in Calls : lpc[c] = "inside"}

\* Workers are serialized while their leases are valid
\* (docs/STORAGE-CONFORMANCE.md:33): two calls are inside at once only when
\* one of them has lost its lease, and whoever lost one takes nobody else's
\* down when it leaves.
LeaseExclusion == \A c, d \in Inside \ lapsed : c = d
=============================================================================
