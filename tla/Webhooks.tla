------------------------------- MODULE Webhooks -------------------------------
(***************************************************************************)
(* WebhookManager for one webhook that process Home registers: receive,    *)
(* cancel and the timeout race in several processes.  A process runs its   *)
(* operations on a webhook one after another (_withWebhookLock); between   *)
(* processes the storage helps with withSessionLock (DistributedLock),     *)
(* with setDataIfStatus, with both or with neither.  The record expires at *)
(* any time: its time to live and the timer are both about the timeout.    *)
(***************************************************************************)
EXTENDS DistributedLock, Sequences

CONSTANTS
  Receives,  \* calls of receive
  Cancels,   \* calls of cancel
  Timeout,   \* the call that Home's timer makes
  Home       \* the process that registers the webhook

ASSUME WebhookAssumption ==
  /\ Calls = Receives \cup Cancels \cup {Timeout}
  /\ Receives \cap Cancels = {} /\ Timeout \notin Receives \cup Cancels
  /\ Home \in Procs /\ ProcOf[Timeout] = Home

VARIABLES
  locks,    \* whether the storage has withSessionLock
  cas,      \* whether the storage has setDataIfStatus
  hook,     \* status of the stored record; "none": there is no record
  stage,    \* progress of register
  timer,    \* Home's timer
  queue,    \* _locks of each process: the operations that wait for another
  at,       \* where each operation stands
  crashed,  \* processes that died
  won       \* history: operations that have reported their outcome

hookVars == <<locks, cas, hook, stage, timer, queue, at, crashed, won>>
allVars == <<lockVars, hookVars>>

Outcome(c) ==
  IF c \in Receives THEN "received" ELSE IF c \in Cancels THEN "cancelled" ELSE "timeout"

Step(c, label) == at' = [at EXCEPT ![c] = label]
Stays(vs) == UNCHANGED <<locks, cas, vs>>
-----------------------------------------------------------------------------
(* register.                                                               *)

\* The record is stored, or the write fails with or without effect.
Register ==
  /\ stage = "new"
  /\ \/ stage' = "stored" /\ hook' = "pending"
     \/ stage' = "failed" /\ hook' \in {"none", "pending"}
  /\ Stays(<<lockVars, timer, queue, at, crashed, won>>)

\* The timer starts, and the caller learns the id.
StartTimer ==
  /\ stage = "stored" /\ Home \notin crashed
  /\ stage' = "known" /\ timer' = "armed"
  /\ Stays(<<lockVars, hook, queue, at, crashed, won>>)

ExpireRecord ==
  /\ hook /= "none"
  /\ hook' = "none"
  /\ Stays(<<lockVars, stage, timer, queue, at, crashed, won>>)
-----------------------------------------------------------------------------
(* _withWebhookLock.  Operators marked "Wrong:" are deliberate errors: in  *)
(* the place of the definition that follows them they break a property.    *)

\* An operation joins the chain of its process; the timer's when it fires.
Join(c) ==
  /\ stage = "known" /\ at[c] = "new" /\ ProcOf[c] \notin crashed
  /\ \/ c = Timeout /\ timer = "armed" /\ timer' = "fired"
     \/ c /= Timeout /\ UNCHANGED timer
  /\ Step(c, "queued")
  /\ queue' = [queue EXCEPT ![ProcOf[c]] = Append(@, c)]
  /\ Stays(<<lockVars, hook, stage, crashed, won>>)

\* Wrong: an operation does not wait for the one before it.
FirstOrNot(c) == at[c] = "queued"

\* The operation before it is over.
First(c) == at[c] = "queued" /\ Head(queue[ProcOf[c]]) = c

Begin(c) ==
  /\ First(c)
  /\ IF locks THEN Ask(c) ELSE UNCHANGED lockVars
  /\ Step(c, IF locks THEN "locking" ELSE "read")
  /\ Stays(<<hook, stage, timer, queue, crashed, won>>)

\* acquire ends: inside, or with an error.
Locking(c) ==
  /\ at[c] = "locking"
  /\ \/ Acquire(c) \/ Enter(c)
  /\ Step(c, IF lpc'[c] = "inside" THEN "read"
             ELSE IF lpc'[c] = "failed" THEN "over" ELSE "locking")
  /\ Stays(<<hook, stage, timer, queue, crashed, won>>)

\* The operation's own work is over; the lock is released, and the next in
\* the chain goes on.
Unlocking(c) ==
  /\ at[c] = "leave"
  /\ \/ lpc[c] = "outside" /\ UNCHANGED lockVars /\ Step(c, "over")
     \/ Leave(c) /\ UNCHANGED at
     \/ Release(c) /\ UNCHANGED at
     \/ Forget(c) /\ Step(c, "over")
  /\ Stays(<<hook, stage, timer, queue, crashed, won>>)

Done(c) ==
  /\ at[c] = "over"
  /\ Step(c, "gone")
  /\ queue' = [queue EXCEPT ![ProcOf[c]] = Tail(@)]
  /\ Stays(<<lockVars, hook, stage, timer, crashed, won>>)
-----------------------------------------------------------------------------
(* receive, cancel, _handleTimeout.                                        *)

\* The operation reads the record, or fails; it ends unless the webhook is
\* pending and, for a receive, the secret is right.  The timeout's timer is
\* forgotten before.
ReadHook(c) ==
  /\ at[c] = "read"
  /\ timer' = IF c = Timeout THEN "none" ELSE timer
  /\ \/ Step(c, "leave")
     \/ hook = "pending" /\ Step(c, "write")
  /\ Stays(<<lockVars, hook, stage, queue, crashed, won>>)

\* Wrong: the record need only exist.
MayStoreAny(c) == cas => hook /= "none"

\* _setPendingStatus with setDataIfStatus: only a pending record changes.
MayStore(c) == cas => hook = "pending"

\* The new status is stored, refused, or fails with or without effect.
WriteHook(c) ==
  /\ at[c] = "write"
  /\ \/ MayStore(c) /\ hook' = Outcome(c) /\ (Step(c, "report") \/ Step(c, "leave"))
     \/ UNCHANGED hook /\ Step(c, "leave")
  /\ Stays(<<lockVars, stage, timer, queue, crashed, won>>)

\* The timer of this process is cleared, and the callback is called or the
\* caller told.
Report(c) ==
  /\ at[c] = "report"
  /\ timer' = IF ProcOf[c] = Home /\ timer = "armed" THEN "none" ELSE timer
  /\ won' = won \cup {c}
  /\ Step(c, "leave")
  /\ Stays(<<lockVars, hook, stage, queue, crashed>>)

\* What the lock does beside the operations.
LockEvents ==
  /\ \/ Expire
     \/ \E c \in Calls : Miss(c) \/ Extend(c)
     \/ \E p \in Procs \ crashed : ForceRelease(p) \/ ReleaseAll(p) \/ ForgetAll(p)
  /\ locks
  /\ UNCHANGED hookVars

Crash(p) ==
  /\ p \notin crashed
  /\ crashed' = crashed \cup {p}
  /\ timer' = IF p = Home THEN "none" ELSE timer
  /\ at' = [c \in Calls |-> IF ProcOf[c] = p THEN "gone" ELSE at[c]]
  /\ queue' = [queue EXCEPT ![p] = <<>>]
  /\ CrashLock(p)
  /\ Stays(<<hook, stage, won>>)

Init ==
  /\ LockInit
  /\ locks \in BOOLEAN /\ cas \in BOOLEAN
  /\ hook = "none" /\ stage = "new" /\ timer = "none"
  /\ queue = [p \in Procs |-> <<>>]
  /\ at = [c \in Calls |-> "new"]
  /\ crashed = {} /\ won = {}

Operation(c) ==
  Join(c) \/ Begin(c) \/ Locking(c) \/ Unlocking(c) \/ Done(c)
  \/ ReadHook(c) \/ WriteHook(c) \/ Report(c)

Next ==
  \/ Register \/ StartTimer \/ ExpireRecord \/ LockEvents
  \/ \E c \in Calls : Operation(c)
  \/ \E p \in Procs : Crash(p)

Spec == Init /\ [][Next]_allVars
-----------------------------------------------------------------------------
(* Properties.                                                             *)

\* Where the storage decides, or serializes the processes without a lost
\* lease, or there is one process.
OneProcess == \A c, d \in Calls : ProcOf[c] = ProcOf[d]
Guarded == cas \/ (locks /\ lapsed = {}) \/ OneProcess

\* A webhook has one outcome: at most one of its callbacks, timeouts and
\* cancellations is told that it decided (README.md:436), and what it was
\* told is on record until the record goes.
SettledOnce ==
  Guarded =>
    /\ \A c, d \in won : c = d
    /\ \A c \in won : hook \in {Outcome(c), "none"}

\* Within a chain no release takes the registration of a later holder away:
\* the lease of the operation that runs is the one its process renews,
\* unless it lost it or an administrator cleared the registrations.
RenewsItsOwn ==
  \A c \in Inside \ lapsed :
    admin[ProcOf[c]] = "idle" => registered[ProcOf[c]] = c
=============================================================================
