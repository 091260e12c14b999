---------------------------- MODULE WebhooksProofs ----------------------------
(***************************************************************************)
(* First the distributed lock: workers are serialized while their leases   *)
(* are valid, for any set of calls and processes, whatever renewals fail,  *)
(* commands take effect without an answer, locks are released by force and *)
(* processes die.  Then one outcome per webhook, for any number of         *)
(* callbacks, cancellations and processes, in each of the three settings   *)
(* that serialize them: a storage that decides, leases that are kept, or a *)
(* single process.                                                         *)
(***************************************************************************)
EXTENDS Webhooks, TLAPS

-----------------------------------------------------------------------------
(* The lock.                                                               *)

\* A call that has the lock, and has not lost its lease, owns the key.
Leased == \A c \in Calls : Holding(c) /\ c \notin lapsed => lease = c

LockInv == LockTypeOK /\ Leased

-----------------------------------------------------------------------------
LEMMA LockInitially == LockInit => LockInv
  BY DEF LockInit, LockInv, LockTypeOK, Leased, Holding

\* A call that moves to a place where it does not hold the lock, with the
\* lease unchanged, leaves the others theirs.
LEMMA StepsAside ==
  ASSUME LockInv, NEW c \in Calls,
         NEW label \in {"asking", "leaving", "released", "done", "failed"},
         Goto(c, label), UNCHANGED <<lease, lapsed>>
  PROVE  Leased'
  BY DEF LockInv, LockTypeOK, Leased, Holding, Goto

\* The key goes, and whoever had the lock by it is recorded.
LEMMA LosesLease ==
  ASSUME LockInv, lease \in Calls, lease' = Nobody, Lose(lease), UNCHANGED lpc
  PROVE  Leased' /\ lapsed' \subseteq Calls
  BY DEF LockInv, LockTypeOK, Leased, Holding, Lose

LEMMA AcquireKeeps ==
  ASSUME LockInv, NEW c \in Calls, Acquire(c)
  PROVE  LockInv'
<1>1. LockTypeOK' BY DEF LockInv, LockTypeOK, Acquire, Goto
<1>2. CASE lease = Nobody /\ lease' = c
  \* Nobody else has a valid lease.
  <2>1. \A d \in Calls \ {c} : ~(Holding(d) /\ d \notin lapsed)
    BY <1>2, NobodyAssumption DEF LockInv, Leased
  <2>2. \A d \in Calls \ {c} : Holding(d)' <=> Holding(d)
    BY DEF Acquire, Goto, Holding, LockInv, LockTypeOK
  <2>3. ASSUME NEW d \in Calls, Holding(d)', d \notin lapsed'
        PROVE  lease' = d
    <3>1. d \notin lapsed BY <2>3 DEF Acquire
    <3>2. QED BY <1>2, <2>1, <2>2, <2>3, <3>1
  <2>4. QED BY <1>1, <2>3 DEF Leased, LockInv
<1>3. CASE UNCHANGED lease /\ Goto(c, "failed")
  BY <1>3, <1>1, StepsAside DEF Acquire, LockInv
<1>4. QED BY <1>1, <1>2, <1>3 DEF Acquire, LockInv

LEMMA ReleaseKeeps ==
  ASSUME LockInv, NEW c \in Calls, Release(c)
  PROVE  LockInv'
<1>1. LockTypeOK' BY DEF LockInv, LockTypeOK, Release, Goto, Free
<1>2. CASE Free(c)
  \* Only the caller's own key is deleted, and the caller is not inside.
  <2>1. \A d \in Calls : ~(Holding(d) /\ d \notin lapsed)
    BY <1>2 DEF LockInv, Leased, Free, Release, Holding
  <2>2. \A d \in Calls : Holding(d)' => Holding(d)
    BY DEF Release, Goto, Holding, LockInv, LockTypeOK
  <2>3. QED BY <1>1, <2>1, <2>2 DEF Leased, Release, LockInv
<1>3. CASE UNCHANGED lease
  BY <1>1, <1>3, StepsAside DEF Release, LockInv
<1>4. QED BY <1>2, <1>3 DEF Release

LEMMA CallKeeps ==
  ASSUME LockInv, NEW c \in Calls, CallStep(c)
  PROVE  LockInv'
<1>1. CASE Ask(c)
  <2>1. LockTypeOK' BY <1>1 DEF LockInv, LockTypeOK, Ask, Goto
  <2>2. QED BY <1>1, <2>1, StepsAside DEF Ask, LockInv
<1>2. CASE Acquire(c) BY <1>2, AcquireKeeps
<1>3. CASE Enter(c)
  <2>1. LockTypeOK'
    BY <1>3, ProcOfAssumption DEF LockInv, LockTypeOK, Enter, Goto
  <2>2. \A d \in Calls : Holding(d)' <=> Holding(d)
    BY <1>3 DEF Enter, Goto, Holding, LockInv, LockTypeOK
  <2>3. QED BY <1>3, <2>1, <2>2 DEF Enter, Leased, LockInv
<1>4. CASE Miss(c) BY <1>4 DEF Miss, LockInv, LockTypeOK, Leased, Holding
<1>5. CASE Extend(c) BY <1>5 DEF Extend, LockInv, LockTypeOK, Leased, Holding
<1>6. CASE Leave(c)
  <2>1. LockTypeOK' BY <1>6 DEF LockInv, LockTypeOK, Leave, Goto
  <2>2. QED BY <1>6, <2>1, StepsAside DEF Leave, LockInv
<1>7. CASE Release(c) BY <1>7, ReleaseKeeps
<1>8. CASE Forget(c)
  <2>1. LockTypeOK'
    BY <1>8, ProcOfAssumption DEF LockInv, LockTypeOK, Forget, Goto
  <2>2. QED BY <1>8, <2>1, StepsAside DEF Forget, LockInv
<1>9. QED BY <1>1, <1>2, <1>3, <1>4, <1>5, <1>6, <1>7, <1>8 DEF CallStep

LEMMA AdminKeeps ==
  ASSUME LockInv, NEW p \in Procs,
         ForceRelease(p) \/ ReleaseAll(p) \/ ForgetAll(p) \/ CrashLock(p)
  PROVE  LockInv'
<1>1. CASE ForceRelease(p)
  <2>1. lease \in Calls BY <1>1 DEF ForceRelease, LockInv, LockTypeOK
  <2>2. Leased' /\ lapsed' \subseteq Calls
    BY <1>1, <2>1, LosesLease DEF ForceRelease
  <2>3. QED BY <1>1, <2>2 DEF ForceRelease, LockInv, LockTypeOK
<1>2. CASE ReleaseAll(p)
  <2>1. CASE Free(registered[p]) /\ Lose(registered[p])
    <3>1. lease \in Calls /\ lease' = Nobody /\ Lose(lease)
      BY <1>2, <2>1 DEF ReleaseAll, Free, LockInv, LockTypeOK
    <3>2. Leased' /\ lapsed' \subseteq Calls
      BY <1>2, <3>1, LosesLease DEF ReleaseAll
    <3>3. QED BY <1>2, <3>1, <3>2 DEF ReleaseAll, LockInv, LockTypeOK
  <2>2. CASE UNCHANGED <<lease, lapsed>>
    BY <1>2, <2>2 DEF ReleaseAll, LockInv, LockTypeOK, Leased, Holding
  <2>3. QED BY <1>2, <2>1, <2>2 DEF ReleaseAll
<1>3. CASE ForgetAll(p)
  BY <1>3 DEF ForgetAll, LockInv, LockTypeOK, Leased, Holding
<1>4. CASE CrashLock(p)
  <2>1. LockTypeOK' BY <1>4 DEF CrashLock, LockInv, LockTypeOK
  <2>2. \A d \in Calls : Holding(d)' => Holding(d)
    BY <1>4 DEF CrashLock, Holding, LockInv, LockTypeOK
  <2>3. QED BY <1>4, <2>1, <2>2 DEF CrashLock, Leased, LockInv
<1>5. QED BY <1>1, <1>2, <1>3, <1>4

LEMMA ExpireKeeps ==
  ASSUME LockInv, Expire
  PROVE  LockInv'
<1>1. lease \in Calls BY DEF Expire, LockInv, LockTypeOK
<1>2. Leased' /\ lapsed' \subseteq Calls BY <1>1, LosesLease DEF Expire
<1>3. QED BY <1>2 DEF Expire, LockInv, LockTypeOK

LEMMA LockStep ==
  ASSUME LockInv, [LockNext]_lockVars
  PROVE  LockInv'
<1>1. CASE \E c \in Calls : CallStep(c) BY <1>1, CallKeeps
<1>2. CASE \E p \in Procs :
             ForceRelease(p) \/ ReleaseAll(p) \/ ForgetAll(p) \/ CrashLock(p)
  BY <1>2, AdminKeeps
<1>3. CASE Expire BY <1>3, ExpireKeeps
<1>4. CASE UNCHANGED lockVars
  BY <1>4 DEF lockVars, LockInv, LockTypeOK, Leased, Holding
<1>5. QED BY <1>1, <1>2, <1>3, <1>4 DEF LockNext

-----------------------------------------------------------------------------
\* Two calls are inside the critical section at once only when one of them
\* has lost its lease, and whoever lost one takes nobody else's down when it
\* leaves (docs/STORAGE-CONFORMANCE.md:33).
THEOREM LeasesExclude == LockSpec => []LeaseExclusion
<1>1. LockInv => LeaseExclusion
  BY DEF LockInv, Leased, LeaseExclusion, Inside, Holding
<1>2. QED BY LockInitially, LockStep, <1>1, PTL DEF LockSpec
-----------------------------------------------------------------------------
(* The webhooks.                                                           *)

HookTypeOK ==
  /\ locks \in BOOLEAN /\ cas \in BOOLEAN
  /\ hook \in {"none", "pending", "received", "cancelled", "timeout"}
  /\ queue \in [Procs -> Seq(Calls)]
  /\ at \in [Calls -> {"new", "queued", "locking", "read", "write", "report",
                       "leave", "over", "gone"}]
  /\ won \subseteq Calls

Works(c) == at[c] \in {"read", "write", "report"}
Active(c) == Works(c) \/ at[c] \in {"locking", "leave", "over"}

\* An active operation is the head of its process's chain, and whoever waits
\* is in it.
InChain(c) ==
  LET q == queue[ProcOf[c]] IN
  /\ Active(c) => q # <<>> /\ q[1] = c
  /\ at[c] = "queued" => \E i \in 1 .. Len(q) : q[i] = c
Chained == \A c \in Calls : InChain(c)

\* Where an operation stands in the lock, as far as the storage has one.
Placed ==
  \A c \in Calls :
    /\ at[c] \in {"new", "queued"} => lpc[c] = "outside"
    /\ at[c] = "locking" => lpc[c] \in {"asking", "granted"}
    /\ Works(c) => lpc[c] = "inside" \/ ~locks
    /\ at[c] \in {"over", "gone"} => lpc[c] \in {"outside", "done", "failed"}

\* Only a known webhook has operations.
Known == \A c \in Calls : at[c] \notin {"new", "gone"} \/ c \in won => stage = "known"

ChainInv == LockInv /\ HookTypeOK /\ Chained /\ Placed /\ Known

\* The operations that have decided the webhook, whether they have reported
\* it or not.
Deciders == won \cup {c \in Calls : at[c] = "report"}

Decided ==
  Guarded =>
    /\ \A c, d \in Deciders : c = d
    /\ \A c \in Deciders : hook \in {Outcome(c), "none"}
    /\ ~cas => \A c \in Calls : at[c] = "write" => Deciders = {}

-----------------------------------------------------------------------------
(* The lock's part of a step.                                              *)

LEMMA StepOfLock == Next => LockNext \/ UNCHANGED lockVars
<1> SUFFICES ASSUME Next PROVE LockNext \/ UNCHANGED lockVars
  OBVIOUS
<1>1. CASE Register \/ StartTimer \/ ExpireRecord
  BY <1>1 DEF Register, StartTimer, ExpireRecord, Stays
<1>2. CASE LockEvents
  BY <1>2 DEF LockEvents, LockNext, CallStep
<1>3. ASSUME NEW c \in Calls, Operation(c) PROVE LockNext \/ UNCHANGED lockVars
  <2>1. CASE Join(c) \/ Done(c) \/ ReadHook(c) \/ WriteHook(c) \/ Report(c)
    BY <2>1 DEF Join, Done, ReadHook, WriteHook, Report, Stays
  <2>2. CASE Begin(c) BY <2>2 DEF Begin, LockNext, CallStep
  <2>3. CASE Locking(c) BY <2>3 DEF Locking, LockNext, CallStep
  <2>4. CASE Unlocking(c) BY <2>4 DEF Unlocking, LockNext, CallStep
  <2>5. QED BY <1>3, <2>1, <2>2, <2>3, <2>4 DEF Operation
<1>4. ASSUME NEW p \in Procs, Crash(p) PROVE LockNext \/ UNCHANGED lockVars
  BY <1>4 DEF Crash, LockNext
<1>5. QED BY <1>1, <1>2, <1>3, <1>4 DEF Next

\* A call that lost its lease stays recorded.
LEMMA LapsedStays == [LockNext]_lockVars => lapsed \subseteq lapsed'
<1> SUFFICES ASSUME [LockNext]_lockVars PROVE lapsed \subseteq lapsed'
  OBVIOUS
<1>1. ASSUME NEW c \in Calls, CallStep(c) PROVE lapsed \subseteq lapsed'
  BY <1>1 DEF CallStep, Ask, Acquire, Enter, Miss, Extend, Leave, Release, Forget
<1>2. ASSUME NEW p \in Procs,
             ForceRelease(p) \/ ReleaseAll(p) \/ ForgetAll(p) \/ CrashLock(p)
      PROVE  lapsed \subseteq lapsed'
  BY <1>2 DEF ForceRelease, ReleaseAll, ForgetAll, CrashLock, Lose
<1>3. CASE Expire BY <1>3 DEF Expire, Lose
<1>4. CASE UNCHANGED lockVars BY <1>4 DEF lockVars
<1>5. QED BY <1>1, <1>2, <1>3, <1>4 DEF LockNext

LEMMA GuardedBefore == [Next]_allVars /\ Guarded' => Guarded
<1> SUFFICES ASSUME [Next]_allVars, Guarded' PROVE Guarded
  OBVIOUS
<1>1. lapsed \subseteq lapsed'
  BY StepOfLock, LapsedStays DEF allVars
<1>2. UNCHANGED <<locks, cas>>
  <2>1. ASSUME NEW c \in Calls, Operation(c) PROVE UNCHANGED <<locks, cas>>
    BY <2>1 DEF Operation, Join, Begin, Locking, Unlocking, Done, ReadHook, WriteHook,
                Report, Stays
  <2>2. QED
    BY <2>1 DEF Next, allVars, hookVars, Register, StartTimer, ExpireRecord,
                LockEvents, Crash, Stays
<1>3. QED BY <1>1, <1>2 DEF Guarded, OneProcess

LEMMA LockKeeps ==
  ASSUME LockInv, [Next]_allVars
  PROVE  LockInv'
<1>1. [LockNext]_lockVars BY StepOfLock DEF allVars
<1>2. QED BY <1>1, LockStep

-----------------------------------------------------------------------------
(* The chains.                                                             *)

LEMMA ChainInitially == Init => ChainInv
  BY LockInitially, ProcOfAssumption
  DEF Init, LockInit, ChainInv, HookTypeOK, Chained, InChain, Placed, Known, Active, Works

\* The head of a chain goes on.
LEMMA HeadGoesOn ==
  ASSUME HookTypeOK, Chained, NEW c \in Calls, NEW label, label # "queued",
         Step(c, label), UNCHANGED queue,
         queue[ProcOf[c]] # <<>>, queue[ProcOf[c]][1] = c
  PROVE  Chained'
<1> SUFFICES ASSUME NEW d \in Calls PROVE InChain(d)'
  BY DEF Chained
<1>1. CASE d = c BY <1>1 DEF Step, HookTypeOK, InChain
<1>2. CASE d # c
  <2>1. at'[d] = at[d] BY <1>2 DEF Step, HookTypeOK
  <2>2. QED BY <2>1 DEF Chained, InChain, Active, Works
<1>3. QED BY <1>1, <1>2

LEMMA JoinKeepsChain ==
  ASSUME HookTypeOK, Chained, NEW c \in Calls, Join(c)
  PROVE  Chained'
<1> DEFINE p == ProcOf[c]
<1>1. p \in Procs /\ queue[p] \in Seq(Calls) BY ProcOfAssumption DEF HookTypeOK
<1>2. queue' = [queue EXCEPT ![p] = Append(queue[p], c)] BY DEF Join
<1>3. queue'[p] = Append(queue[p], c) BY <1>1, <1>2 DEF HookTypeOK
<1>4. \A q \in Procs \ {p} : queue'[q] = queue[q] BY <1>2 DEF HookTypeOK
<1>5. at' = [at EXCEPT ![c] = "queued"] BY DEF Join, Step
<1> HIDE DEF p
<1> SUFFICES ASSUME NEW d \in Calls PROVE InChain(d)'
  BY DEF Chained
<1>6. CASE d = c
  <2>1. at'[d] = "queued" BY <1>5, <1>6 DEF HookTypeOK
  <2>2. ~Active(d)' BY <2>1 DEF Active, Works
  <2>3. Len(queue'[p]) \in 1 .. Len(queue'[p]) /\ queue'[p][Len(queue'[p])] = c
    BY <1>1, <1>3
  <2>4. QED BY <1>6, <2>2, <2>3 DEF p, InChain
<1>7. CASE d # c
  <2>1. at'[d] = at[d] BY <1>5, <1>7 DEF HookTypeOK
  <2>2. Active(d)' <=> Active(d) BY <2>1 DEF Active, Works
  <2>3. CASE ProcOf[d] = p
    <3>1. Active(d) => queue'[p] # <<>> /\ queue'[p][1] = d
      BY <1>1, <1>3, <2>3 DEF Chained, InChain
    <3>2. ASSUME at[d] = "queued" PROVE \E i \in 1 .. Len(queue'[p]) : queue'[p][i] = d
      <4>1. PICK i \in 1 .. Len(queue[p]) : queue[p][i] = d BY <3>2, <2>3 DEF Chained, InChain
      <4>2. i \in 1 .. Len(queue'[p]) /\ queue'[p][i] = d BY <1>1, <1>3, <4>1
      <4>3. QED BY <4>2
    <3>3. QED BY <2>1, <2>2, <2>3, <3>1, <3>2 DEF InChain
  <2>4. CASE ProcOf[d] # p
    <3>1. queue'[ProcOf[d]] = queue[ProcOf[d]] BY <1>4, <2>4, ProcOfAssumption
    <3>2. QED BY <2>1, <2>2, <3>1 DEF Chained, InChain
  <2>5. QED BY <2>3, <2>4
<1>8. QED BY <1>6, <1>7

LEMMA DoneKeepsChain ==
  ASSUME HookTypeOK, Chained, NEW c \in Calls, Done(c)
  PROVE  Chained' /\ queue' \in [Procs -> Seq(Calls)]
<1> DEFINE p == ProcOf[c]
           q == queue[p]
<1>1. p \in Procs /\ q \in Seq(Calls) BY ProcOfAssumption DEF HookTypeOK
<1>2. q # <<>> /\ q[1] = c BY DEF Done, Chained, InChain, Active
<1>3. queue' = [queue EXCEPT ![p] = Tail(q)] BY DEF Done
<1>4. queue'[p] = Tail(q) BY <1>1, <1>3 DEF HookTypeOK
<1>5. \A r \in Procs \ {p} : queue'[r] = queue[r] BY <1>3 DEF HookTypeOK
<1>6. at' = [at EXCEPT ![c] = "gone"] BY DEF Done, Step
<1>7. queue' \in [Procs -> Seq(Calls)] BY <1>1, <1>2, <1>3 DEF HookTypeOK
<1>8. ASSUME NEW d \in Calls PROVE InChain(d)'
  <2>1. CASE d = c BY <1>6, <2>1 DEF HookTypeOK, Active, Works, InChain
  <2>2. CASE d # c
    <3>1. at'[d] = at[d] BY <1>6, <2>2 DEF HookTypeOK
    <3>2. Active(d)' <=> Active(d) BY <3>1 DEF Active, Works
    <3>3. CASE ProcOf[d] = p
      <4>1. ~Active(d) BY <1>2, <2>2, <3>3 DEF Chained, InChain
      <4>2. ASSUME at[d] = "queued" PROVE \E i \in 1 .. Len(Tail(q)) : Tail(q)[i] = d
        <5>1. PICK i \in 1 .. Len(q) : q[i] = d BY <4>2, <3>3 DEF Chained, InChain
        <5> HIDE DEF q
        <5>2. i # 1 BY <1>2, <2>2, <5>1
        <5>3. i - 1 \in 1 .. Len(Tail(q)) /\ Tail(q)[i - 1] = d
          BY <1>1, <1>2, <5>1, <5>2
        <5>4. QED BY <5>3
      <4>3. QED BY <1>4, <3>1, <3>2, <3>3, <4>1, <4>2 DEF InChain
    <3>4. CASE ProcOf[d] # p
      <4>1. queue'[ProcOf[d]] = queue[ProcOf[d]] BY <1>5, <3>4, ProcOfAssumption
      <4>2. QED BY <3>1, <3>2, <4>1 DEF Chained, InChain
    <3>5. QED BY <3>3, <3>4
  <2>3. QED BY <2>1, <2>2
<1>9. QED BY <1>7, <1>8 DEF Chained, InChain

\* What a step does to no operation it does not do to the chains.
LEMMA ChainUnmoved ==
  ASSUME Chained, UNCHANGED <<at, queue>>
  PROVE  Chained'
  BY DEF Chained, InChain, Active, Works

LEMMA SettingKeepsChain ==
  ASSUME ChainInv, Register \/ StartTimer \/ ExpireRecord \/ LockEvents
  PROVE  HookTypeOK' /\ Chained' /\ Placed' /\ Known'
<1>1. UNCHANGED <<locks, cas, queue, at, won>>
  BY DEF Register, StartTimer, ExpireRecord, LockEvents, hookVars, Stays
<1>2. HookTypeOK'
  <2>1. hook' \in {"none", "pending", "received", "cancelled", "timeout"}
    BY DEF Register, StartTimer, ExpireRecord, LockEvents, hookVars, Stays, ChainInv,
           HookTypeOK
  <2>2. QED BY <1>1, <2>1 DEF ChainInv, HookTypeOK
<1>3. Chained' BY <1>1, ChainUnmoved DEF ChainInv
<1>4. UNCHANGED lpc
  BY DEF Register, StartTimer, ExpireRecord, LockEvents, Stays, lockVars, Expire,
         Miss, Extend, ForceRelease, ReleaseAll, ForgetAll
<1>5. Placed' BY <1>1, <1>4 DEF ChainInv, Placed, Works
<1>6. Known'
  <2>1. stage = "known" => stage' = "known"
    BY DEF Register, StartTimer, ExpireRecord, LockEvents, hookVars, Stays
  <2>2. QED BY <1>1, <2>1 DEF ChainInv, Known
<1>7. QED BY <1>2, <1>3, <1>5, <1>6

\* An operation at the head of its chain goes on to a place that fits what
\* its call in the lock has become.
LEMMA StepKeepsChain ==
  ASSUME ChainInv, NEW c \in Calls,
         NEW label \in {"locking", "read", "write", "report", "leave", "over"},
         Step(c, label), Active(c) \/ (at[c] = "queued" /\ First(c)),
         UNCHANGED <<locks, cas, queue, stage>>,
         hook' \in {"none", "pending", "received", "cancelled", "timeout"},
         won' = won \/ won' = won \cup {c},
         NEW place, lpc' = [lpc EXCEPT ![c] = place],
         label = "locking" => place \in {"asking", "granted"},
         label \in {"read", "write", "report"} => place = "inside" \/ ~locks,
         label = "over" => place \in {"outside", "done", "failed"}
  PROVE  HookTypeOK' /\ Chained' /\ Placed' /\ Known'
<1>1. HookTypeOK' BY DEF ChainInv, HookTypeOK, Step
<1>2. Chained'
  <2>1. queue[ProcOf[c]] \in Seq(Calls) BY ProcOfAssumption DEF ChainInv, HookTypeOK
  <2>2. queue[ProcOf[c]] # <<>> /\ queue[ProcOf[c]][1] = c
    BY <2>1 DEF ChainInv, Chained, InChain, First
  <2>3. QED BY <2>2, HeadGoesOn DEF ChainInv
<1>3. Placed'
  <2> SUFFICES ASSUME NEW d \in Calls
      PROVE  /\ at'[d] \in {"new", "queued"} => lpc'[d] = "outside"
             /\ at'[d] = "locking" => lpc'[d] \in {"asking", "granted"}
             /\ Works(d)' => lpc'[d] = "inside" \/ ~locks'
             /\ at'[d] \in {"over", "gone"} => lpc'[d] \in {"outside", "done", "failed"}
    BY DEF Placed
  <2>1. CASE d = c
    <3>1. at'[d] = label BY <2>1 DEF Step, ChainInv, HookTypeOK
    <3>2. lpc'[d] = place BY <2>1 DEF ChainInv, LockInv, LockTypeOK
    <3>3. QED BY <3>1, <3>2 DEF Works
  <2>2. CASE d # c
    <3>1. at'[d] = at[d] BY <2>2 DEF Step, ChainInv, HookTypeOK
    <3>2. lpc'[d] = lpc[d] BY <2>2 DEF ChainInv, LockInv, LockTypeOK
    <3>3. QED BY <3>1, <3>2 DEF ChainInv, Placed, Works
  <2>3. QED BY <2>1, <2>2
<1>4. Known'
  <2>1. stage = "known" BY DEF ChainInv, Known, Active, Works
  <2>2. QED BY <2>1 DEF Known
<1>5. QED BY <1>1, <1>2, <1>3, <1>4

LEMMA OperationKeepsChain ==
  ASSUME ChainInv, NEW c \in Calls, Operation(c)
  PROVE  HookTypeOK' /\ Chained' /\ Placed' /\ Known'
<1>0. /\ lpc = [lpc EXCEPT ![c] = lpc[c]]
      /\ Works(c) => lpc[c] = "inside" \/ ~locks
  BY DEF ChainInv, LockInv, LockTypeOK, Placed
<1>1. CASE Join(c)
  <2>1. HookTypeOK'
    <3>1. queue[ProcOf[c]] \in Seq(Calls) BY ProcOfAssumption DEF ChainInv, HookTypeOK
    <3>2. Append(queue[ProcOf[c]], c) \in Seq(Calls) BY <3>1
    <3>3. QED BY <1>1, <3>2 DEF Join, Step, Stays, ChainInv, HookTypeOK
  <2>2. Chained' BY <1>1, JoinKeepsChain DEF ChainInv
  <2>3. Placed'
    BY <1>1 DEF Join, Step, Stays, ChainInv, HookTypeOK, Placed, Works, lockVars
  <2>4. Known' BY <1>1 DEF Join, Stays, Known
  <2>5. QED BY <2>1, <2>2, <2>3, <2>4
<1>2. CASE Begin(c)
  <2>1. CASE locks
    <3>1. Step(c, "locking") /\ lpc' = [lpc EXCEPT ![c] = "asking"]
      BY <1>2, <2>1 DEF Begin, Ask, Goto
    <3> DEFINE label == "locking"  place == "asking"
    <3>2. at[c] = "queued" /\ First(c) /\ hook' = hook /\ won' = won
          /\ UNCHANGED <<locks, cas, queue, stage>>
      BY <1>2 DEF Begin, First, Stays
    <3>3. /\ hook' \in {"none", "pending", "received", "cancelled", "timeout"}
          /\ label \in {"locking", "read", "write", "report", "leave", "over"}
          /\ label = "locking" => place \in {"asking", "granted"}
          /\ label \in {"read", "write", "report"} => place = "inside" \/ ~locks
          /\ label = "over" => place \in {"outside", "done", "failed"}
      BY <3>2 DEF ChainInv, HookTypeOK
    <3>4. Step(c, label) /\ lpc' = [lpc EXCEPT ![c] = place] BY <3>1
    <3> HIDE DEF label, place
    <3>5. QED BY <3>2, <3>3, <3>4, StepKeepsChain
  <2>2. CASE ~locks
    <3>1. Step(c, "read") /\ lpc' = [lpc EXCEPT ![c] = lpc[c]]
      BY <1>0, <1>2, <2>2 DEF Begin, lockVars
    <3> DEFINE label == "read"
    <3>2. at[c] = "queued" /\ First(c) /\ hook' = hook /\ won' = won
          /\ UNCHANGED <<locks, cas, queue, stage>>
      BY <1>2 DEF Begin, First, Stays
    <3>3. /\ hook' \in {"none", "pending", "received", "cancelled", "timeout"}
          /\ label \in {"locking", "read", "write", "report", "leave", "over"}
          /\ label = "locking" => lpc[c] \in {"asking", "granted"}
          /\ label \in {"read", "write", "report"} => lpc[c] = "inside" \/ ~locks
          /\ label = "over" => lpc[c] \in {"outside", "done", "failed"}
      BY <2>2, <3>2 DEF ChainInv, HookTypeOK
    <3>4. Step(c, label) BY <3>1
    <3> HIDE DEF label
    <3>5. QED BY <3>1, <3>2, <3>3, <3>4, StepKeepsChain
  <2>3. QED BY <2>1, <2>2 DEF ChainInv, HookTypeOK
<1>3. CASE Locking(c)
  <2> DEFINE label == IF lpc'[c] = "inside" THEN "read"
                      ELSE IF lpc'[c] = "failed" THEN "over" ELSE "locking"
             place == lpc'[c]
  <2>1. lpc' = [lpc EXCEPT ![c] = place] /\ place \in {"granted", "failed", "inside"}
    BY <1>3 DEF Locking, Acquire, Enter, Goto, ChainInv, LockInv, LockTypeOK
  <2>2. /\ Active(c) /\ hook' = hook /\ won' = won
        /\ UNCHANGED <<locks, cas, queue, stage>>
    BY <1>3 DEF Locking, Active, Stays
  <2>3. /\ hook' \in {"none", "pending", "received", "cancelled", "timeout"}
        /\ label \in {"locking", "read", "write", "report", "leave", "over"}
        /\ label = "locking" => place \in {"asking", "granted"}
        /\ label \in {"read", "write", "report"} => place = "inside" \/ ~locks
        /\ label = "over" => place \in {"outside", "done", "failed"}
    BY <2>1, <2>2 DEF ChainInv, HookTypeOK
  <2>4. Step(c, label) BY <1>3 DEF Locking
  <2> HIDE DEF label, place
  <2>5. QED BY <2>1, <2>2, <2>3, <2>4, StepKeepsChain
<1>4. CASE Unlocking(c)
  <2>1. /\ at[c] = "leave" /\ hook' = hook /\ won' = won
        /\ UNCHANGED <<locks, cas, queue, stage>>
    BY <1>4 DEF Unlocking, Stays
  <2>2. PICK label \in {"leave", "over"} : \E place :
          /\ Step(c, label) /\ lpc' = [lpc EXCEPT ![c] = place]
          /\ label = "over" => place \in {"outside", "done"}
    <3>1. CASE lpc[c] = "outside" /\ UNCHANGED lockVars /\ Step(c, "over")
      BY <1>0, <3>1 DEF lockVars
    <3>2. at = [at EXCEPT ![c] = "leave"] BY <2>1 DEF ChainInv, HookTypeOK
    <3>3. CASE Leave(c) /\ UNCHANGED at BY <3>2, <3>3 DEF Leave, Goto, Step
    <3>4. CASE Release(c) /\ UNCHANGED at BY <3>2, <3>4 DEF Release, Goto, Step
    <3>5. CASE Forget(c) /\ Step(c, "over") BY <3>5 DEF Forget, Goto
    <3>6. QED BY <1>4, <3>1, <3>3, <3>4, <3>5 DEF Unlocking
  <2>3. PICK place : /\ Step(c, label) /\ lpc' = [lpc EXCEPT ![c] = place]
                     /\ label = "over" => place \in {"outside", "done"}
    BY <2>2
  <2>4. /\ hook' \in {"none", "pending", "received", "cancelled", "timeout"}
        /\ Active(c)
    BY <2>1 DEF ChainInv, HookTypeOK, Active
  <2>5. QED BY <2>1, <2>3, <2>4, StepKeepsChain
<1>5. CASE Done(c)
  <2>1. Chained' /\ queue' \in [Procs -> Seq(Calls)]
    BY <1>5, DoneKeepsChain DEF ChainInv
  <2>2. HookTypeOK'
    BY <1>5, <2>1 DEF Done, Step, Stays, ChainInv, HookTypeOK
  <2>3. Placed'
    BY <1>5 DEF Done, Step, Stays, ChainInv, HookTypeOK, Placed, Works, lockVars
  <2>4. Known' BY <1>5 DEF Done, Step, Stays, Known, ChainInv, HookTypeOK
  <2>5. QED BY <2>1, <2>2, <2>3, <2>4
<1>6. CASE ReadHook(c) \/ WriteHook(c) \/ Report(c)
  <2>1. Works(c) /\ lpc' = [lpc EXCEPT ![c] = lpc[c]]
        /\ UNCHANGED <<locks, cas, queue, stage>>
    BY <1>0, <1>6 DEF ReadHook, WriteHook, Report, Works, Stays, lockVars
  <2>2. PICK label \in {"write", "report", "leave"} : Step(c, label)
    BY <1>6 DEF ReadHook, WriteHook, Report
  <2>3. hook' \in {"none", "pending", "received", "cancelled", "timeout"}
    BY <1>6 DEF ReadHook, WriteHook, Report, Outcome, Stays, ChainInv, HookTypeOK
  <2>4. won' = won \/ won' = won \cup {c}
    BY <1>6 DEF ReadHook, WriteHook, Report, Stays
  <2>5. Active(c) BY <2>1 DEF Active
  <2>6. QED BY <1>0, <2>1, <2>2, <2>3, <2>4, <2>5, StepKeepsChain
<1>7. QED BY <1>1, <1>2, <1>3, <1>4, <1>5, <1>6 DEF Operation

LEMMA CrashKeepsChain ==
  ASSUME ChainInv, NEW p \in Procs, Crash(p)
  PROVE  HookTypeOK' /\ Chained' /\ Placed' /\ Known'
<1>1. HookTypeOK' BY DEF Crash, Stays, ChainInv, HookTypeOK
<1>2. Chained'
  <2> SUFFICES ASSUME NEW d \in Calls PROVE InChain(d)'
    BY DEF Chained
  <2>1. CASE ProcOf[d] = p
    BY <2>1 DEF Crash, InChain, Active, Works
  <2>2. CASE ProcOf[d] # p
    <3>1. at'[d] = at[d] BY <2>2 DEF Crash
    <3>2. queue'[ProcOf[d]] = queue[ProcOf[d]]
      BY <2>2, ProcOfAssumption DEF Crash, ChainInv, HookTypeOK
    <3>3. QED BY <3>1, <3>2 DEF ChainInv, Chained, InChain, Active, Works
  <2>3. QED BY <2>1, <2>2
<1>3. Placed'
  <2> SUFFICES ASSUME NEW d \in Calls
      PROVE  /\ at'[d] \in {"new", "queued"} => lpc'[d] = "outside"
             /\ at'[d] = "locking" => lpc'[d] \in {"asking", "granted"}
             /\ Works(d)' => lpc'[d] = "inside" \/ ~locks'
             /\ at'[d] \in {"over", "gone"} => lpc'[d] \in {"outside", "done", "failed"}
    BY DEF Placed
  <2>1. CASE ProcOf[d] = p
    BY <2>1 DEF Crash, CrashLock, Works
  <2>2. CASE ProcOf[d] # p
    <3>1. at'[d] = at[d] /\ lpc'[d] = lpc[d] /\ locks' = locks
      BY <2>2 DEF Crash, CrashLock, Stays
    <3>2. QED BY <3>1 DEF ChainInv, Placed, Works
  <2>3. QED BY <2>1, <2>2
<1>4. Known' BY DEF Crash, Stays, ChainInv, Known
<1>5. QED BY <1>1, <1>2, <1>3, <1>4

LEMMA ChainStep ==
  ASSUME ChainInv, [Next]_allVars
  PROVE  ChainInv'
<1>1. LockInv' BY LockKeeps DEF ChainInv
<1>2. CASE Register \/ StartTimer \/ ExpireRecord \/ LockEvents
  BY <1>1, <1>2, SettingKeepsChain DEF ChainInv
<1>3. CASE \E c \in Calls : Operation(c) BY <1>1, <1>3, OperationKeepsChain DEF ChainInv
<1>4. CASE \E p \in Procs : Crash(p) BY <1>1, <1>4, CrashKeepsChain DEF ChainInv
<1>5. CASE UNCHANGED allVars
  <2>1. Chained' BY <1>5, ChainUnmoved DEF allVars, hookVars, ChainInv
  <2>2. QED
    BY <1>1, <1>5, <2>1
    DEF allVars, hookVars, lockVars, ChainInv, HookTypeOK, Placed, Known, Works
<1>6. QED BY <1>2, <1>3, <1>4, <1>5 DEF Next

-----------------------------------------------------------------------------
\* The lease of the operation that runs is the one its process renews: no
\* release within a chain takes the registration of a later holder away,
\* unless an administrator clears the registrations.
RenewsOwn ==
  \A c \in Inside : admin[ProcOf[c]] = "idle" => registered[ProcOf[c]] = c

\* Who stands in the lock is the head of its chain.
LEMMA OneInChain ==
  ASSUME ChainInv, NEW c \in Calls, NEW d \in Calls, ProcOf[c] = ProcOf[d],
         Active(c), Active(d)
  PROVE  c = d
  BY DEF ChainInv, Chained, InChain

LEMMA InsideActive ==
  ASSUME ChainInv, NEW c \in Calls, lpc[c] \in {"granted", "inside", "released"}
  PROVE  Active(c)
  BY DEF ChainInv, HookTypeOK, Placed, Active, Works
LEMMA RegistrationStep ==
  ASSUME ChainInv, RenewsOwn, [LockNext]_lockVars
  PROVE  RenewsOwn'
<1> SUFFICES ASSUME NEW c \in Calls, lpc'[c] = "inside", admin'[ProcOf[c]] = "idle"
             PROVE  registered'[ProcOf[c]] = c
  BY DEF RenewsOwn, Inside
<1> DEFINE p == ProcOf[c]
<1>1. /\ p \in Procs
      /\ lpc \in [Calls -> {"outside", "asking", "granted", "inside", "leaving",
                            "released", "done", "failed"}]
      /\ registered \in [Procs -> Calls \cup {Nobody}]
      /\ admin \in [Procs -> {"idle", "forced", "over"}]
  BY ProcOfAssumption DEF ChainInv, LockInv, LockTypeOK
<1>2. lpc[c] = "inside" /\ admin[p] = "idle" => registered[p] = c
  BY DEF RenewsOwn, Inside
<1>3. ASSUME NEW d \in Calls, CallStep(d) PROVE registered'[p] = c
  <2>1. admin' = admin
    BY <1>3 DEF CallStep, Ask, Acquire, Enter, Miss, Extend, Leave, Release, Forget
  <2>2. CASE Ask(d) \/ Acquire(d) \/ Leave(d) \/ Release(d)
    <3>1. lpc[c] = "inside" /\ registered' = registered
      BY <1>1, <2>2 DEF Ask, Acquire, Leave, Release, Goto
    <3>2. QED BY <1>2, <2>1, <3>1
  <2>3. CASE Miss(d) \/ Extend(d)
    BY <1>2, <2>1, <2>3 DEF Miss, Extend
  <2>4. CASE Enter(d)
    <3>1. CASE d = c BY <1>1, <2>4, <3>1 DEF Enter
    <3>2. CASE d # c
      <4>1. lpc[c] = "inside" /\ lpc[d] = "granted"
        BY <1>1, <2>4, <3>2 DEF Enter, Goto
      <4>2. ProcOf[d] # p BY <3>2, <4>1, InsideActive, OneInChain
      <4>3. registered'[p] = registered[p] BY <1>1, <2>4, <4>2 DEF Enter
      <4>4. QED BY <1>2, <2>1, <4>1, <4>3
    <3>3. QED BY <3>1, <3>2
  <2>5. CASE Forget(d)
    <3>1. lpc[c] = "inside" /\ lpc[d] = "released" /\ c # d
      BY <1>1, <2>5 DEF Forget, Goto
    <3>2. ProcOf[d] # p BY <3>1, InsideActive, OneInChain
    <3>3. registered'[p] = registered[p] BY <1>1, <2>5, <3>2 DEF Forget
    <3>4. QED BY <1>2, <2>1, <3>1, <3>3
  <2>6. QED BY <1>3, <2>2, <2>3, <2>4, <2>5 DEF CallStep
<1>4. ASSUME NEW q \in Procs,
             ForceRelease(q) \/ ReleaseAll(q) \/ ForgetAll(q) \/ CrashLock(q)
      PROVE  registered'[p] = c
  <2>1. CASE ForceRelease(q) \/ ReleaseAll(q)
    <3>1. /\ admin' = [admin EXCEPT ![q] = "forced"]
          /\ UNCHANGED <<lpc, registered>>
      BY <2>1 DEF ForceRelease, ReleaseAll
    <3>2. p # q /\ admin[p] = "idle" BY <1>1, <3>1
    <3>3. QED BY <1>2, <3>1, <3>2
  <2>2. CASE ForgetAll(q)
    <3>1. p # q /\ admin[p] = "idle" BY <1>1, <2>2 DEF ForgetAll
    <3>2. QED BY <1>1, <1>2, <2>2, <3>1 DEF ForgetAll
  <2>3. CASE CrashLock(q)
    <3>1. p # q /\ lpc[c] = "inside" BY <1>1, <2>3 DEF CrashLock
    <3>2. registered'[p] = registered[p] /\ admin' = admin
      BY <1>1, <2>3, <3>1 DEF CrashLock
    <3>3. QED BY <1>2, <3>1, <3>2
  <2>4. QED BY <1>4, <2>1, <2>2, <2>3
<1>5. CASE Expire BY <1>2, <1>5 DEF Expire
<1>6. CASE UNCHANGED lockVars BY <1>2, <1>6 DEF lockVars
<1>7. QED BY <1>3, <1>4, <1>5, <1>6 DEF LockNext

-----------------------------------------------------------------------------
(* One outcome.                                                            *)

\* Where the storage does not decide, one operation works at a time.
LEMMA OneWorks ==
  ASSUME ChainInv, Guarded, ~cas, NEW c \in Calls, NEW d \in Calls,
         Works(c), Works(d)
  PROVE  c = d
<1>1. CASE locks /\ lapsed = {}
  <2>1. lpc[c] = "inside" /\ lpc[d] = "inside" BY <1>1 DEF ChainInv, Placed
  <2>2. QED BY <1>1, <2>1 DEF ChainInv, LockInv, Leased, Holding
<1>2. CASE OneProcess BY <1>2, OneInChain DEF OneProcess, Active
<1>3. QED BY <1>1, <1>2 DEF Guarded

\* The history and the record are left alone, or the record is gone.
LEMMA NothingDecided ==
  ASSUME Decided, Guarded, Deciders' \subseteq Deciders, hook' \in {hook, "none"},
         UNCHANGED cas,
         \A c \in Calls : at'[c] = "write" => at[c] = "write" \/ Deciders = {}
  PROVE  Decided'
  BY DEF Decided, Outcome

LEMMA WriteDecides ==
  ASSUME ChainInv, Decided, Guarded, NEW c \in Calls, WriteHook(c)
  PROVE  Decided'
<1>1. at[c] = "write" /\ won' = won /\ cas' = cas BY DEF WriteHook, Stays
<1>2. PICK label \in {"report", "leave"} : Step(c, label) BY DEF WriteHook
<1>3. \A d \in Calls \ {c} : at'[d] = at[d] BY <1>2 DEF Step, ChainInv, HookTypeOK
<1>4. at'[c] = label BY <1>2 DEF Step, ChainInv, HookTypeOK
<1>5. CASE UNCHANGED hook /\ label = "leave"
  <2>1. Deciders' \subseteq Deciders BY <1>1, <1>3, <1>4, <1>5 DEF Deciders
  <2>2. QED BY <1>1, <1>3, <1>4, <1>5, <2>1, NothingDecided
<1>6. CASE MayStore(c) /\ hook' = Outcome(c)
  <2>1. Deciders = {}
    <3>1. CASE cas
      BY <1>6, <3>1 DEF MayStore, Decided, Outcome
    <3>2. CASE ~cas BY <1>1, <3>2 DEF Decided
    <3>3. QED BY <3>1, <3>2
  <2>2. Deciders' \subseteq {c} BY <1>1, <1>3, <2>1 DEF Deciders
  <2>3. ASSUME ~cas, NEW d \in Calls, at'[d] = "write" PROVE FALSE
    <3>1. d # c /\ at[d] = "write" BY <1>3, <1>4, <2>3
    <3>2. QED BY <1>1, <2>3, <3>1, OneWorks DEF Works
  <2>4. \A e \in Deciders' : hook' = Outcome(e)' BY <1>6, <2>2 DEF Outcome
  <2>5. QED BY <1>1, <2>2, <2>3, <2>4 DEF Decided
<1>7. QED
  <2>1. \/ MayStore(c) /\ hook' = Outcome(c)
        \/ UNCHANGED hook /\ Step(c, "leave")
    BY DEF WriteHook
  <2>2. Step(c, "leave") => label = "leave"
    BY <1>4 DEF Step, ChainInv, HookTypeOK
  <2>3. QED BY <1>5, <1>6, <2>1, <2>2

LEMMA DecidedStep ==
  ASSUME ChainInv, Decided, [Next]_allVars
  PROVE  Decided'
<1> SUFFICES ASSUME Guarded' PROVE Decided'
  BY DEF Decided
<1>0. Guarded BY GuardedBefore
<1>1. CASE Register
  <2>1. Deciders = {} BY <1>1 DEF Register, ChainInv, Known, HookTypeOK, Deciders
  <2>2. Deciders' = {} BY <1>1, <2>1 DEF Register, Stays, Deciders
  <2>3. QED BY <2>2 DEF Decided
<1>2. CASE StartTimer \/ ExpireRecord \/ LockEvents \/ UNCHANGED allVars
  <2>1. UNCHANGED <<at, won, cas>> /\ hook' \in {hook, "none"}
    BY <1>2 DEF StartTimer, ExpireRecord, LockEvents, allVars, hookVars, Stays
  <2>2. Deciders' = Deciders BY <2>1 DEF Deciders
  <2>3. QED BY <1>0, <2>1, <2>2, NothingDecided
<1>3. ASSUME NEW c \in Calls, Operation(c) PROVE Decided'
  <2>1. CASE Join(c) \/ Begin(c) \/ Locking(c) \/ Unlocking(c) \/ Done(c)
    <3>1. UNCHANGED <<won, cas, hook>>
      BY <2>1 DEF Join, Begin, Locking, Unlocking, Done, Stays
    <3>2. PICK label \in {"queued", "locking", "read", "leave", "over", "gone"} :
            Step(c, label) \/ UNCHANGED at
      BY <2>1 DEF Join, Begin, Locking, Unlocking, Done
    <3>3. \A d \in Calls : at'[d] = at[d] \/ at'[d] = label
      BY <3>2 DEF Step, ChainInv, HookTypeOK
    <3>4. Deciders' \subseteq Deciders BY <3>1, <3>2, <3>3 DEF Deciders
    <3>5. QED BY <1>0, <3>1, <3>2, <3>3, <3>4, NothingDecided
  <2>2. CASE ReadHook(c)
    <3>1. UNCHANGED <<won, cas, hook>> BY <2>2 DEF ReadHook, Stays
    <3>2. CASE Step(c, "leave")
      <4>1. \A d \in Calls : at'[d] = at[d] \/ at'[d] = "leave"
        BY <3>2 DEF Step, ChainInv, HookTypeOK
      <4>2. Deciders' \subseteq Deciders BY <3>1, <4>1 DEF Deciders
      <4>3. QED BY <1>0, <3>1, <4>1, <4>2, NothingDecided
    <3>3. CASE hook = "pending" /\ Step(c, "write")
      <4>1. \A d \in Calls : at'[d] = at[d] \/ at'[d] = "write"
        BY <3>3 DEF Step, ChainInv, HookTypeOK
      <4>2. Deciders = {} BY <1>0, <3>3 DEF Decided, Outcome
      <4>3. Deciders' \subseteq Deciders BY <3>1, <4>1 DEF Deciders
      <4>4. QED BY <1>0, <3>1, <4>1, <4>2, <4>3, NothingDecided
    <3>4. QED BY <2>2, <3>2, <3>3 DEF ReadHook
  <2>3. CASE WriteHook(c) BY <1>0, <2>3, WriteDecides
  <2>4. CASE Report(c)
    <3>1. UNCHANGED <<cas, hook>> /\ won' = won \cup {c} /\ at[c] = "report"
      BY <2>4 DEF Report, Stays
    <3>2. \A d \in Calls : at'[d] = at[d] \/ at'[d] = "leave"
      BY <2>4 DEF Report, Step, ChainInv, HookTypeOK
    <3>3. Deciders' \subseteq Deciders BY <3>1, <3>2 DEF Deciders
    <3>4. QED BY <1>0, <3>1, <3>2, <3>3, NothingDecided
  <2>5. QED BY <1>3, <2>1, <2>2, <2>3, <2>4 DEF Operation
<1>4. ASSUME NEW p \in Procs, Crash(p) PROVE Decided'
  <2>1. UNCHANGED <<won, cas, hook>> BY <1>4 DEF Crash, Stays
  <2>2. \A d \in Calls : at'[d] = at[d] \/ at'[d] = "gone" BY <1>4 DEF Crash
  <2>3. Deciders' \subseteq Deciders BY <2>1, <2>2 DEF Deciders
  <2>4. QED BY <1>0, <2>1, <2>2, <2>3, NothingDecided
<1>5. QED BY <1>1, <1>2, <1>3, <1>4 DEF Next

-----------------------------------------------------------------------------
(* The theorems.                                                           *)

LEMMA DecidedInitially == Init => Decided /\ RenewsOwn
  BY DEF Init, LockInit, Decided, Deciders, RenewsOwn, Inside

LEMMA HookAlways == Spec => [](ChainInv /\ Decided /\ RenewsOwn)
<1>1. ChainInv /\ Decided /\ RenewsOwn /\ [Next]_allVars
        => (ChainInv /\ Decided /\ RenewsOwn)'
  <2>1. [Next]_allVars => [LockNext]_lockVars BY StepOfLock DEF allVars
  <2>2. QED BY <2>1, ChainStep, DecidedStep, RegistrationStep
<1>2. QED BY ChainInitially, DecidedInitially, <1>1, PTL DEF Spec

\* A webhook has one outcome (README.md:436): in a storage that decides, or
\* under leases that are kept, or in one process, at most one operation is
\* told that it decided, and the record says so until it goes.
THEOREM OneOutcome == Spec => []SettledOnce
<1>1. Decided => SettledOnce BY DEF Decided, Deciders, SettledOnce
<1>2. QED BY HookAlways, <1>1, PTL

\* The registration that a process renews is that of the call inside.
THEOREM RenewalsAreOwn == Spec => []RenewsItsOwn
<1>1. RenewsOwn => RenewsItsOwn BY DEF RenewsOwn, RenewsItsOwn
<1>2. QED BY HookAlways, <1>1, PTL

\* Under the webhooks' use of the lock as well, two calls are inside at once
\* only when one has lost its lease.
THEOREM WebhooksExclude == Spec => []LeaseExclusion
<1>1. ChainInv => LeaseExclusion
  BY DEF ChainInv, LockInv, Leased, LeaseExclusion, Inside, Holding
<1>2. QED BY HookAlways, <1>1, PTL
=============================================================================
