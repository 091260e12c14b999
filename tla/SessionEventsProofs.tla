------------------------ MODULE SessionEventsProofs ------------------------
(***************************************************************************)
(* Theorems about SessionEvents, for any events, callers and workers, any  *)
(* capacity and any number of rounds.                                      *)
(***************************************************************************)
EXTENDS SessionEvents, FiniteSetTheorems, TLAPS

USE DeliverableAssumption, BoundsAssumption, StatusAssumption,
    AbsentAssumption

(***************************************************************************)
(* The inductive invariant.                                                *)
(***************************************************************************)
\* What a callback holds: an event from its arrival on, and while its ACCEPT
\* is on its way a journal that is the present one unless the revision has
\* moved past it, and that has room for the event and no trace of it.
CallInv(w) ==
  /\ pc[w] \in {"reading", "accepting"} => event[w] \in Event /\ attempt[w] > 0
  /\ pc[w] = "accepting" => wire[w] /= "none"
  /\ OnItsWay(w) =>
       /\ event[w] \in Event
       /\ Revision(seen[w]) <= Revision(journal)
       /\ Revision(seen[w]) = Revision(journal) => seen[w] = journal
       /\ ~BindingConflict(seen[w], event[w])
       /\ ~Duplicate(seen[w], event[w])
       /\ ~Full(seen[w])

JournalInv ==
  /\ journal /= None => journal.events /= {} /\ IsFiniteSet(journal.events)
  /\ OutcomeFromEvents
  /\ WithinCapacity

\* The archive of the present retention is the journal.
ArchiveInv ==
  /\ \A a \in archive :
       /\ a[1] <= epoch
       /\ a[1] = epoch => journal /= None /\ a[2] \in journal.events
  /\ \A e \in EventsOf(journal) : \E a \in archive : a[2] = e
  /\ \A w \in Workers :
       pc[w] = "accepting" /\ wire[w] = "installed" =>
         \E a \in archive : a[2] = event[w]
  /\ AcknowledgedOnce

\* Every round but the present one met a change; the present one has, once
\* its ACCEPT is stale.
RoundInv(w) ==
  /\ pc[w] \in {"reading", "accepting"} => changes >= began[w] + attempt[w] - 1
  /\ pc[w] = "accepting" =>
       \/ wire[w] = "sent" /\ Revision(seen[w]) = Revision(journal)
       \/ wire[w] \in {"binding", "installed"}
       \/ changes >= began[w] + attempt[w]
  /\ verdict[w] = "contention" => changes - began[w] >= MaxAttempts

IInv ==
  /\ TypeOK
  /\ JournalInv /\ ArchiveInv /\ SameCaller
  /\ \A w \in Workers : CallInv(w) /\ RoundInv(w)

LEMMA InitInv == Init => IInv
<1> SUFFICES ASSUME Init PROVE IInv OBVIOUS
<1> USE DEF Init
<1>1. TypeOK
  <2>1. attempt \in [Workers -> 0..MaxAttempts] OBVIOUS
  <2>2. archive \subseteq Nat \X Event \X Nat OBVIOUS
  <2>3. verdict \in [Workers -> Acknowledged \cup
          {"none", "binding", "capacity", "contention", "failed"}] OBVIOUS
  <2>4. QED BY <2>1, <2>2, <2>3 DEF TypeOK
<1>2. JournalInv /\ SameCaller
  BY DEF JournalInv, SameCaller, OutcomeFromEvents, WithinCapacity
<1>3. ArchiveInv BY DEF ArchiveInv, AcknowledgedOnce, EventsOf, Acknowledged
<1>4. \A w \in Workers : CallInv(w) /\ RoundInv(w)
  BY DEF CallInv, RoundInv, OnItsWay
<1>5. QED BY <1>1, <1>2, <1>3, <1>4 DEF IInv

(***************************************************************************)
(* Appending an event to the journal.                                      *)
(***************************************************************************)
LEMMA RevisionType ==
  ASSUME NEW j \in Journal \cup {None} PROVE Revision(j) \in Nat
BY DEF Revision, Journal

LEMMA AppendedType ==
  ASSUME NEW j \in Journal \cup {None}, NEW e \in Event
  PROVE  /\ Appended(j, e) \in Journal
         /\ Appended(j, e) /= None
         /\ Appended(j, e).revision = Revision(j) + 1
         /\ Appended(j, e).events = EventsOf(j) \cup {e}
         /\ Appended(j, e).binding = e.binding
         /\ Revision(j) \in Nat
<1>1. Revision(j) \in Nat /\ EventsOf(j) \subseteq Event
  BY DEF Revision, EventsOf, Journal
<1>2. e.binding \in Callers /\ e.status \in Statuses BY DEF Event
<1> DEFINE outcome == IF Diverges(j, e) \/ (j /= None /\ j.outcome = "conflict")
                      THEN "conflict" ELSE e.status
<1>3. outcome \in Statuses \cup {"conflict"} BY <1>2
<1>4. Appended(j, e) = [revision |-> Revision(j) + 1, binding |-> e.binding,
                        events |-> EventsOf(j) \cup {e}, outcome |-> outcome]
  BY DEF Appended
<1> HIDE DEF outcome
<1>5. Appended(j, e) \in Journal BY <1>1, <1>2, <1>3, <1>4 DEF Journal
<1>6. QED BY <1>1, <1>4, <1>5

\* The outcome stays a function of the events.
LEMMA AppendedOutcome ==
  ASSUME TypeOK, JournalInv, NEW e \in Event, e \notin EventsOf(journal),
         journal' = Appended(journal, e)
  PROVE  OutcomeFromEvents'
<1> DEFINE Differ(f, g) ==
      f /= g /\ (f.status /= g.status \/ f.occurredAt = g.occurredAt)
    new == Appended(journal, e)
<1>1. /\ new \in Journal /\ new /= None
      /\ new.events = EventsOf(journal) \cup {e}
  BY AppendedType DEF TypeOK
<1>2. new.outcome = IF Diverges(journal, e) \/ (journal /= None /\ journal.outcome = "conflict")
                    THEN "conflict" ELSE e.status
  BY DEF Appended
<1>3. e.status \in Statuses BY DEF Event
<1> HIDE DEF new
<1>4. CASE Diverges(journal, e)
  <2>1. PICK f \in EventsOf(journal) : f.status /= e.status \/ f.occurredAt = e.occurredAt
    BY <1>4 DEF Diverges
  <2>2. Differ(f, e) /\ f \in new.events /\ e \in new.events BY <1>1, <2>1
  <2>3. new.outcome = "conflict" BY <1>2, <1>4
  <2>4. QED BY <2>2, <2>3 DEF OutcomeFromEvents, new
<1>5. CASE ~Diverges(journal, e) /\ journal /= None /\ journal.outcome = "conflict"
  <2>1. \E f, g \in journal.events : Differ(f, g)
    <3>1. SUFFICES ASSUME ~(\E f, g \in journal.events : Differ(f, g)) PROVE FALSE
      OBVIOUS
    <3>2. \A f \in journal.events : f.status = "conflict"
      BY <1>5, <3>1 DEF JournalInv, OutcomeFromEvents
    <3>3. PICK f \in journal.events : TRUE BY <1>5 DEF JournalInv
    <3>4. f \in Event BY <1>5, <3>3 DEF TypeOK, Journal
    <3>5. QED BY <3>2, <3>3, <3>4 DEF Event
  <2>2. \E f, g \in new.events : Differ(f, g) BY <1>1, <1>5, <2>1 DEF EventsOf
  <2>3. new.outcome = "conflict" BY <1>2, <1>5
  <2>4. QED BY <2>2, <2>3 DEF OutcomeFromEvents, new
<1>6. CASE ~Diverges(journal, e) /\ ~(journal /= None /\ journal.outcome = "conflict")
  <2>1. new.outcome = e.status BY <1>2, <1>6
  <2>2. \A f \in EventsOf(journal) : f.status = e.status /\ f.occurredAt /= e.occurredAt
    BY <1>6 DEF Diverges
  <2>3. \A f, g \in EventsOf(journal) : ~Differ(f, g)
    BY <1>6 DEF JournalInv, OutcomeFromEvents, EventsOf
  <2>4. \A f, g \in new.events : ~Differ(f, g)
    <3> SUFFICES ASSUME NEW f \in new.events, NEW g \in new.events, Differ(f, g)
                 PROVE  FALSE
      OBVIOUS
    <3>1. f = e \/ f \in EventsOf(journal) BY <1>1
    <3>2. g = e \/ g \in EventsOf(journal) BY <1>1
    <3>3. QED BY <2>2, <2>3, <3>1, <3>2
  <2>5. \A f \in new.events : f.status = new.outcome BY <1>1, <2>1, <2>2
  <2>6. QED BY <2>4, <2>5 DEF OutcomeFromEvents, new
<1>7. QED BY <1>4, <1>5, <1>6

\* The journal counts its events and stays within its capacity.
LEMMA AppendedCapacity ==
  ASSUME TypeOK, JournalInv, NEW e \in Event, e \notin EventsOf(journal),
         ~Full(journal), ~BindingConflict(journal, e),
         journal' = Appended(journal, e)
  PROVE  WithinCapacity' /\ IsFiniteSet(journal'.events) /\ journal'.events /= {}
<1>1. /\ journal' \in Journal /\ journal' /= None
      /\ journal'.revision = Revision(journal) + 1
      /\ journal'.events = EventsOf(journal) \cup {e}
      /\ journal'.binding = e.binding
  BY AppendedType DEF TypeOK
<1>2. IsFiniteSet(EventsOf(journal)) /\ Cardinality(EventsOf(journal)) = Revision(journal)
  <2>1. CASE journal = None BY <2>1, FS_EmptySet DEF EventsOf, Revision
  <2>2. CASE journal /= None
    BY <2>2 DEF EventsOf, Revision, JournalInv, WithinCapacity
  <2>3. QED BY <2>1, <2>2
<1>3. /\ IsFiniteSet(journal'.events)
      /\ Cardinality(journal'.events) = Revision(journal) + 1
  BY <1>1, <1>2, FS_AddElement
<1>4. Revision(journal) + 1 <= MaxEvents
  <2>1. Revision(journal) \in Nat BY AppendedType DEF TypeOK
  <2>2. QED BY <1>2, <2>1 DEF Full
<1>5. \A f \in journal'.events : f.binding = journal'.binding
  <2>1. \A f \in EventsOf(journal) : f.binding = e.binding
    BY DEF EventsOf, BindingConflict, JournalInv, WithinCapacity
  <2>2. QED BY <1>1, <2>1
<1>6. QED BY <1>1, <1>3, <1>4, <1>5 DEF WithinCapacity

(***************************************************************************)
(* The steps.                                                              *)
(***************************************************************************)
Verdicts == Acknowledged \cup
              {"none", "binding", "capacity", "contention", "failed"}

\* Ending a callback, with any verdict that is earned.
LEMMA FinishInv ==
  ASSUME IInv, NEW w \in Workers, NEW result \in Verdicts,
         Finish(w, result),
         result \in Acknowledged => \E a \in archive : a[2] = event[w],
         result = "contention" => changes - began[w] >= MaxAttempts,
         UNCHANGED <<storeVars, arrived, epoch, changes, archive>>
  PROVE  IInv'
<1> USE DEF Finish, Goto, storeVars
<1>1. TypeOK'
  <2>1. attempt' \in [Workers -> 0..MaxAttempts] BY DEF IInv, TypeOK
  <2>2. verdict' \in [Workers -> Verdicts] BY DEF IInv, TypeOK, Verdicts
  <2>3. /\ event' \in [Workers -> Event \cup {None}]
        /\ seen' \in [Workers -> Journal \cup {None}]
        /\ began' \in [Workers -> Nat]
        /\ wire' \in [Workers -> {"none", "sent", "lost", "binding", "installed"}]
        /\ pc' \in [Workers -> {"idle", "reading", "accepting"}]
    BY DEF IInv, TypeOK
  <2>4. QED BY <2>1, <2>2, <2>3 DEF IInv, TypeOK, Verdicts
<1>2. JournalInv' /\ SameCaller'
  BY DEF IInv, JournalInv, SameCaller, OutcomeFromEvents, WithinCapacity
<1>3. ArchiveInv'
  <2>1. ASSUME NEW q \in Workers, verdict'[q] \in Acknowledged
        PROVE  \E a \in archive' : a[2] = event'[q]
    <3>1. CASE q = w BY <2>1, <3>1 DEF IInv, TypeOK
    <3>2. CASE q /= w
      BY <2>1, <3>2 DEF IInv, TypeOK, ArchiveInv, AcknowledgedOnce
    <3>3. QED BY <3>1, <3>2
  <2>2. ASSUME NEW q \in Workers, pc'[q] = "accepting", wire'[q] = "installed"
        PROVE  \E a \in archive' : a[2] = event'[q]
    BY <2>2 DEF IInv, TypeOK, ArchiveInv
  <2>3. QED BY <2>1, <2>2 DEF IInv, ArchiveInv, AcknowledgedOnce, EventsOf
<1>4. ASSUME NEW q \in Workers PROVE CallInv(q)'
  <2>1. CASE q = w
    BY <2>1 DEF IInv, TypeOK, CallInv, OnItsWay, Revision, BindingConflict,
                Duplicate, Full, EventsOf
  <2>2. CASE q /= w
    BY <2>2 DEF IInv, TypeOK, CallInv, OnItsWay, Revision, BindingConflict,
                Duplicate, Full, EventsOf
  <2>3. QED BY <2>1, <2>2
<1>5. ASSUME NEW q \in Workers PROVE RoundInv(q)'
  <2>1. CASE q = w BY <2>1 DEF IInv, TypeOK, RoundInv
  <2>2. CASE q /= w BY <2>2 DEF IInv, TypeOK, RoundInv, Revision
  <2>3. QED BY <2>1, <2>2
<1>6. QED BY <1>1, <1>2, <1>3, <1>4, <1>5 DEF IInv

LEMMA ReceiveInv ==
  ASSUME IInv, NEW w \in Workers, Receive(w) PROVE IInv'
<1> USE DEF Receive, Goto, storeVars, OnItsWay
<1>1. TypeOK' BY DEF IInv, TypeOK
<1>2. JournalInv' /\ SameCaller'
  BY DEF IInv, JournalInv, SameCaller, OutcomeFromEvents, WithinCapacity
<1>3. ArchiveInv'
  <2>1. ASSUME NEW q \in Workers, verdict'[q] \in Acknowledged
        PROVE  \E a \in archive' : a[2] = event'[q]
    BY <2>1 DEF IInv, TypeOK, ArchiveInv, AcknowledgedOnce, Acknowledged
  <2>2. ASSUME NEW q \in Workers, pc'[q] = "accepting", wire'[q] = "installed"
        PROVE  \E a \in archive' : a[2] = event'[q]
    BY <2>2 DEF IInv, TypeOK, ArchiveInv
  <2>3. QED BY <2>1, <2>2 DEF IInv, ArchiveInv, AcknowledgedOnce, EventsOf
<1>4. ASSUME NEW q \in Workers PROVE CallInv(q)'
  BY DEF IInv, TypeOK, CallInv, Revision, BindingConflict, Duplicate, Full,
         EventsOf
<1>5. ASSUME NEW q \in Workers PROVE RoundInv(q)'
  BY DEF IInv, TypeOK, RoundInv, Revision
<1>6. QED BY <1>1, <1>2, <1>3, <1>4, <1>5 DEF IInv

LEMMA RoundStepInv ==
  ASSUME IInv, NEW w \in Workers, Round(w) PROVE IInv'
<1>1. CASE Finish(w, "binding") \/ Finish(w, "capacity")
  BY <1>1, FinishInv DEF Round, Verdicts, Acknowledged
<1>2. CASE Duplicate(journal, event[w]) /\ Finish(w, "duplicate")
  <2>1. \E a \in archive : a[2] = event[w]
    BY <1>2 DEF Duplicate, IInv, ArchiveInv
  <2>2. QED BY <1>2, <2>1, FinishInv DEF Round, Verdicts, Acknowledged
<1>3. CASE /\ ~BindingConflict(journal, event[w]) /\ ~Duplicate(journal, event[w])
           /\ ~Full(journal)
           /\ seen' = [seen EXCEPT ![w] = journal]
           /\ wire' = [wire EXCEPT ![w] = "sent"]
           /\ Goto(w, "accepting")
           /\ UNCHANGED <<event, attempt, verdict, began>>
  <2> USE <1>3 DEF Round, Goto, storeVars
  <2>1. TypeOK' BY DEF IInv, TypeOK
  <2>2. JournalInv' /\ SameCaller'
    BY DEF IInv, JournalInv, SameCaller, OutcomeFromEvents, WithinCapacity
  <2>3. ArchiveInv'
    <3>1. ASSUME NEW q \in Workers, pc'[q] = "accepting", wire'[q] = "installed"
          PROVE  \E a \in archive' : a[2] = event'[q]
      BY <3>1 DEF IInv, TypeOK, ArchiveInv
    <3>2. QED BY <3>1 DEF IInv, ArchiveInv, AcknowledgedOnce, EventsOf
  <2>4. ASSUME NEW q \in Workers PROVE CallInv(q)'
    <3>1. Revision(journal) \in Nat BY RevisionType DEF IInv, TypeOK
    <3>2. CASE q = w
      <4>1. /\ seen'[w] = journal /\ journal' = journal /\ event'[w] = event[w]
            /\ wire'[w] = "sent" /\ pc'[w] = "accepting" /\ attempt'[w] = attempt[w]
        BY DEF IInv, TypeOK
      <4>2. event[w] \in Event /\ attempt[w] > 0
        BY DEF IInv, CallInv
      <4>3. /\ ~BindingConflict(journal, event[w])'
            /\ ~Duplicate(journal, event[w])' /\ ~Full(journal)'
        BY <4>1 DEF BindingConflict, Duplicate, Full, EventsOf
      <4>4. QED
        BY <3>1, <3>2, <4>1, <4>2, <4>3
        DEF CallInv, OnItsWay, Revision, BindingConflict, Duplicate, Full, EventsOf
    <3>3. CASE q /= w
      BY <3>3 DEF IInv, TypeOK, CallInv, OnItsWay, Revision, BindingConflict,
         Duplicate, Full, EventsOf
    <3>4. QED BY <3>2, <3>3
  <2>5. ASSUME NEW q \in Workers PROVE RoundInv(q)'
    BY DEF IInv, TypeOK, RoundInv, Revision
  <2>6. QED BY <2>1, <2>2, <2>3, <2>4, <2>5 DEF IInv
<1>4. QED BY <1>1, <1>2, <1>3 DEF Round

\* The store appends the event.
LEMMA InstallInv ==
  ASSUME IInv, NEW w \in Workers, OnItsWay(w),
         Current(w), ~BoundElsewhere(w),
         wire' = [wire EXCEPT ![w] = "installed"],
         journal' = Appended(seen[w], event[w]),
         closed' = TRUE,
         changes' = changes + 1,
         archive' = archive \cup {<<epoch, event[w], changes>>},
         UNCHANGED <<bound, arrived, epoch, began, pc, event, seen, attempt,
                     verdict>>
  PROVE  IInv'
<1> DEFINE e == event[w]
           entry == <<epoch, event[w], changes>>
<1>1. /\ e \in Event /\ seen[w] = journal /\ e \notin EventsOf(journal)
      /\ ~Full(journal) /\ ~BindingConflict(journal, e)
  BY DEF IInv, CallInv, Current, Duplicate
<1>2. journal' = Appended(journal, e) BY <1>1
<1>3. /\ journal' \in Journal /\ journal' /= None
      /\ Revision(journal') = Revision(journal) + 1
      /\ Revision(journal) \in Nat
      /\ EventsOf(journal') = EventsOf(journal) \cup {e}
      /\ journal'.events = EventsOf(journal) \cup {e}
      /\ journal'.binding = e.binding
  BY <1>1, <1>2, AppendedType DEF IInv, TypeOK, Revision, EventsOf
<1>4. entry \in Nat \X Event \X Nat BY <1>1 DEF IInv, TypeOK
<1>5. TypeOK'
  <2>1. archive' \subseteq Nat \X Event \X Nat BY <1>4 DEF IInv, TypeOK
  <2>2. wire' \in [Workers -> {"none", "sent", "lost", "binding", "installed"}]
    BY DEF IInv, TypeOK
  <2>3. changes' \in Nat BY DEF IInv, TypeOK
  <2>4. QED BY <1>3, <2>1, <2>2, <2>3 DEF IInv, TypeOK
<1>6. JournalInv'
  BY <1>1, <1>2, AppendedOutcome, AppendedCapacity DEF IInv, JournalInv
<1>7. SameCaller' BY <1>3 DEF SameCaller, BoundElsewhere
<1>8. ArchiveInv'
  <2>1. ASSUME NEW a \in archive'
        PROVE  /\ a[1] <= epoch'
               /\ a[1] = epoch' => journal' /= None /\ a[2] \in journal'.events
    <3>1. CASE a \in archive
      BY <1>3, <3>1 DEF IInv, ArchiveInv, EventsOf
    <3>2. CASE a = entry BY <1>3, <3>2 DEF IInv, TypeOK
    <3>3. QED BY <3>1, <3>2
  <2>2. ASSUME NEW f \in EventsOf(journal') PROVE \E a \in archive' : a[2] = f
    <3>1. CASE f = e
      <4>1. entry \in archive' /\ entry[2] = f BY <3>1
      <4>2. QED BY <4>1
    <3>2. CASE f \in EventsOf(journal) BY <3>2 DEF IInv, ArchiveInv
    <3>3. QED BY <1>3, <3>1, <3>2
  <2>3. ASSUME NEW q \in Workers, pc'[q] = "accepting", wire'[q] = "installed"
        PROVE  \E a \in archive' : a[2] = event'[q]
    <3>1. CASE q = w
      <4>1. entry \in archive' /\ entry[2] = event'[q] BY <3>1
      <4>2. QED BY <4>1
    <3>2. CASE q /= w BY <2>3, <3>2 DEF IInv, TypeOK, ArchiveInv
    <3>3. QED BY <3>1, <3>2
  <2>4. ASSUME NEW q \in Workers, verdict'[q] \in Acknowledged
        PROVE  \E a \in archive' : a[2] = event'[q]
    BY <2>4 DEF IInv, ArchiveInv, AcknowledgedOnce
  <2>5. ASSUME NEW a \in archive', NEW b \in archive', a[1] = b[1], a[2] = b[2]
        PROVE  a = b
    <3>1. \A x \in archive : ~(x[1] = entry[1] /\ x[2] = entry[2])
      BY <1>1 DEF IInv, ArchiveInv, EventsOf
    <3>2. CASE a \in archive /\ b \in archive
      BY <2>5, <3>2 DEF IInv, ArchiveInv, AcknowledgedOnce
    <3>3. CASE a = entry \/ b = entry BY <2>5, <3>1, <3>3
    <3>4. QED BY <3>2, <3>3
  <2>6. QED BY <2>1, <2>2, <2>3, <2>4, <2>5 DEF ArchiveInv, AcknowledgedOnce
<1>9. ASSUME NEW q \in Workers PROVE CallInv(q)'
  <2>1. CASE q = w BY <2>1 DEF IInv, TypeOK, CallInv, OnItsWay
  <2>2. CASE q /= w
    <3>1. wire'[q] = wire[q] BY <2>2 DEF IInv, TypeOK
    <3>2. Revision(seen[q]) \in Nat BY RevisionType DEF IInv, TypeOK
    <3>3. OnItsWay(q) => Revision(seen[q]) < Revision(journal')
      BY <1>3, <3>2 DEF IInv, CallInv
    <3>4. Revision(journal') = Revision(journal)' BY DEF Revision
    <3>5. QED
      BY <1>3, <3>1, <3>2, <3>3, <3>4
      DEF IInv, CallInv, OnItsWay, BindingConflict, Duplicate, Full, EventsOf,
          Revision
  <2>3. QED BY <2>1, <2>2
<1>10. ASSUME NEW q \in Workers PROVE RoundInv(q)'
  <2>1. began[q] \in Nat /\ attempt[q] \in Nat /\ changes \in Nat
    BY DEF IInv, TypeOK
  <2>2. CASE q = w BY <2>1, <2>2 DEF IInv, TypeOK, RoundInv
  <2>3. CASE q /= w BY <2>1, <2>3 DEF IInv, TypeOK, RoundInv
  <2>4. QED BY <2>2, <2>3
<1>11. QED BY <1>5, <1>6, <1>7, <1>8, <1>9, <1>10 DEF IInv

\* The store refuses: the journal moved on, or the ledger is another's.
LEMMA RefuseInv ==
  ASSUME IInv, NEW w \in Workers, OnItsWay(w), NEW result \in {"lost", "binding"},
         result = "lost" => ~Current(w),
         wire' = [wire EXCEPT ![w] = result],
         UNCHANGED <<storeVars, historyVars, pc, event, seen, attempt, verdict>>
  PROVE  IInv'
<1> USE DEF storeVars, historyVars
<1>1. TypeOK' BY DEF IInv, TypeOK
<1>2. JournalInv' /\ SameCaller'
  BY DEF IInv, JournalInv, SameCaller, OutcomeFromEvents, WithinCapacity
<1>3. ArchiveInv'
  <2>1. ASSUME NEW q \in Workers, pc'[q] = "accepting", wire'[q] = "installed"
        PROVE  \E a \in archive' : a[2] = event'[q]
    BY <2>1 DEF IInv, TypeOK, ArchiveInv
  <2>2. QED BY <2>1 DEF IInv, ArchiveInv, AcknowledgedOnce, EventsOf
<1>4. ASSUME NEW q \in Workers PROVE CallInv(q)'
  <2>1. CASE q = w BY <2>1 DEF IInv, TypeOK, CallInv, OnItsWay
  <2>2. CASE q /= w
    BY <2>2 DEF IInv, TypeOK, CallInv, OnItsWay, Revision, BindingConflict,
       Duplicate, Full, EventsOf
  <2>3. QED BY <2>1, <2>2
<1>5. ASSUME NEW q \in Workers PROVE RoundInv(q)'
  <2>1. CASE q = w
    BY <2>1 DEF IInv, TypeOK, RoundInv, OnItsWay, Current, Revision
  <2>2. CASE q /= w BY <2>2 DEF IInv, TypeOK, RoundInv, Revision
  <2>3. QED BY <2>1, <2>2
<1>6. QED BY <1>1, <1>2, <1>3, <1>4, <1>5 DEF IInv

LEMMA AnsweredInv ==
  ASSUME IInv, NEW w \in Workers, Answered(w) PROVE IInv'
<1> DEFINE verdictOf == Classification(seen[w], event[w])
<1>1. CASE wire[w] = "installed" /\ Finish(w, verdictOf)
  <2>1. verdictOf \in {"accepted", "stale", "conflict"} BY DEF Classification
  <2>2. \E a \in archive : a[2] = event[w]
    BY <1>1 DEF Answered, IInv, ArchiveInv
  <2> HIDE DEF verdictOf
  <2>3. QED
    BY <1>1, <2>1, <2>2, FinishInv DEF Answered, Verdicts, Acknowledged
<1>2. CASE wire[w] = "binding" /\ Finish(w, "binding")
  BY <1>2, FinishInv DEF Answered, Verdicts, Acknowledged
<1>3. CASE wire[w] = "lost" /\ attempt[w] = MaxAttempts /\ Finish(w, "contention")
  <2>1. changes - began[w] >= MaxAttempts
    BY <1>3 DEF Answered, IInv, RoundInv, TypeOK
  <2>2. QED BY <1>3, <2>1, FinishInv DEF Answered, Verdicts, Acknowledged
<1>4. CASE /\ wire[w] = "lost" /\ attempt[w] < MaxAttempts
           /\ attempt' = [attempt EXCEPT ![w] = @ + 1]
           /\ wire' = [wire EXCEPT ![w] = "none"]
           /\ seen' = [seen EXCEPT ![w] = None]
           /\ Goto(w, "reading")
           /\ UNCHANGED <<event, verdict, began>>
  <2> USE <1>4 DEF Answered, Goto, storeVars
  <2>1. TypeOK'
    <3>1. attempt' \in [Workers -> 0..MaxAttempts] BY DEF IInv, TypeOK
    <3>2. QED BY <3>1 DEF IInv, TypeOK
  <2>2. JournalInv' /\ SameCaller'
    BY DEF IInv, JournalInv, SameCaller, OutcomeFromEvents, WithinCapacity
  <2>3. ArchiveInv'
    <3>1. ASSUME NEW q \in Workers, pc'[q] = "accepting", wire'[q] = "installed"
          PROVE  \E a \in archive' : a[2] = event'[q]
      BY <3>1 DEF IInv, TypeOK, ArchiveInv
    <3>2. QED BY <3>1 DEF IInv, ArchiveInv, AcknowledgedOnce, EventsOf
  <2>4. ASSUME NEW q \in Workers PROVE CallInv(q)'
    <3>1. CASE q = w BY <3>1 DEF IInv, TypeOK, CallInv, OnItsWay
    <3>2. CASE q /= w
      BY <3>2 DEF IInv, TypeOK, CallInv, OnItsWay, Revision, BindingConflict,
         Duplicate, Full, EventsOf
    <3>3. QED BY <3>1, <3>2
  <2>5. ASSUME NEW q \in Workers PROVE RoundInv(q)'
    <3>1. CASE q = w BY <3>1 DEF IInv, TypeOK, RoundInv
    <3>2. CASE q /= w BY <3>2 DEF IInv, TypeOK, RoundInv, Revision
    <3>3. QED BY <3>1, <3>2
  <2>6. QED BY <2>1, <2>2, <2>3, <2>4, <2>5 DEF IInv
<1>5. QED BY <1>1, <1>2, <1>3, <1>4 DEF Answered

\* Turns and retention of the record touch neither journal nor callbacks.
LEMMA RecordStepInv ==
  ASSUME IInv, Bind \/ ForgetRecord PROVE IInv'
<1> USE DEF Bind, ForgetRecord, callVars, historyVars
<1>1. TypeOK' BY DEF IInv, TypeOK
<1>2. JournalInv' BY DEF IInv, JournalInv, OutcomeFromEvents, WithinCapacity
<1>3. SameCaller' BY DEF IInv, SameCaller
<1>4. ArchiveInv' BY DEF IInv, ArchiveInv, AcknowledgedOnce, EventsOf
<1>5. \A q \in Workers : CallInv(q)' /\ RoundInv(q)'
  BY DEF IInv, CallInv, RoundInv, OnItsWay, Revision, BindingConflict,
     Duplicate, Full, EventsOf
<1>6. QED BY <1>1, <1>2, <1>3, <1>4, <1>5 DEF IInv

LEMMA ForgetJournalInv ==
  ASSUME IInv, ForgetJournal PROVE IInv'
<1> USE DEF ForgetJournal, callVars
<1>1. TypeOK' BY DEF IInv, TypeOK
<1>2. JournalInv' /\ SameCaller'
  BY DEF JournalInv, SameCaller, OutcomeFromEvents, WithinCapacity
<1>3. ArchiveInv'
  <2>1. \A a \in archive : a[1] <= epoch /\ a[1] \in Nat
    BY DEF IInv, ArchiveInv, TypeOK
  <2>2. \A a \in archive' : a[1] < epoch'
    BY <2>1 DEF IInv, TypeOK
  <2>3. QED
    BY <2>1, <2>2 DEF IInv, TypeOK, ArchiveInv, AcknowledgedOnce, EventsOf
<1>4. ASSUME NEW q \in Workers PROVE CallInv(q)' /\ RoundInv(q)'
  BY DEF IInv, TypeOK, CallInv, RoundInv, OnItsWay
<1>5. QED BY <1>1, <1>2, <1>3, <1>4 DEF IInv

LEMMA StepInv == IInv /\ [Next]_vars => IInv'
<1> SUFFICES ASSUME IInv, [Next]_vars PROVE IInv' OBVIOUS
<1>1. ASSUME NEW w \in Workers, Receive(w) PROVE IInv' BY <1>1, ReceiveInv
<1>2. ASSUME NEW w \in Workers, Round(w) PROVE IInv' BY <1>2, RoundStepInv
<1>3. ASSUME NEW w \in Workers, StoreAccept(w) PROVE IInv'
  <2>1. CASE ~Current(w) /\ wire' = [wire EXCEPT ![w] = "lost"]
             /\ UNCHANGED <<storeVars, historyVars>>
    BY <1>3, <2>1, RefuseInv DEF StoreAccept
  <2>2. CASE wire' = [wire EXCEPT ![w] = "binding"]
             /\ UNCHANGED <<storeVars, historyVars>>
    BY <1>3, <2>2, RefuseInv DEF StoreAccept
  <2>3. CASE /\ Current(w) /\ ~BoundElsewhere(w)
             /\ wire' = [wire EXCEPT ![w] = "installed"]
             /\ journal' = Appended(seen[w], event[w])
             /\ closed' = TRUE
             /\ changes' = changes + 1
             /\ archive' = archive \cup {<<epoch, event[w], changes>>}
             /\ UNCHANGED <<bound, arrived, epoch, began>>
    BY <1>3, <2>3, InstallInv DEF StoreAccept
  <2>4. QED BY <1>3, <2>1, <2>2, <2>3 DEF StoreAccept
<1>4. ASSUME NEW w \in Workers, Answered(w) PROVE IInv' BY <1>4, AnsweredInv
<1>5. ASSUME NEW w \in Workers, Fail(w) PROVE IInv'
  BY <1>5, FinishInv DEF Fail, Verdicts, Acknowledged
<1>6. CASE Bind \/ ForgetRecord BY <1>6, RecordStepInv
<1>7. CASE ForgetJournal BY <1>7, ForgetJournalInv
<1>8. CASE UNCHANGED vars
  <2> USE <1>8 DEF vars, storeVars, callVars, historyVars
  <2>1. TypeOK' BY DEF IInv, TypeOK
  <2>2. JournalInv' /\ SameCaller' /\ ArchiveInv'
    BY DEF IInv, JournalInv, SameCaller, OutcomeFromEvents, WithinCapacity,
       ArchiveInv, AcknowledgedOnce, EventsOf
  <2>3. \A q \in Workers : CallInv(q)' /\ RoundInv(q)'
    BY DEF IInv, CallInv, RoundInv, OnItsWay, Revision, BindingConflict,
       Duplicate, Full, EventsOf
  <2>4. QED BY <2>1, <2>2, <2>3 DEF IInv
<1>9. QED
  BY <1>1, <1>2, <1>3, <1>4, <1>5, <1>6, <1>7, <1>8 DEF Next, Step

LEMMA Invariance == Spec => []IInv
BY InitInv, StepInv, PTL DEF Spec

(***************************************************************************)
(* The theorems.                                                           *)
(***************************************************************************)
\* Every variable of the event journal's model keeps its type.
THEOREM EventTypes == Spec => []TypeOK
<1>1. IInv => TypeOK BY DEF IInv
<1>2. QED BY Invariance, <1>1, PTL

\* RedisSessionEventStore's outcome is a function of the accepted events,
\* whatever order, races and retries they arrived in.
THEOREM OutcomeOrderFree == Spec => []OutcomeFromEvents
<1>1. IInv => OutcomeFromEvents BY DEF IInv, JournalInv
<1>2. QED BY Invariance, <1>1, PTL

\* maxEvents bounds the journal for any number of racing workers.
THEOREM CapacityKept == Spec => []WithinCapacity
<1>1. IInv => WithinCapacity BY DEF IInv, JournalInv
<1>2. QED BY Invariance, <1>1, PTL

\* A record with a ledger is closed by its own caller's events only.
THEOREM ClosedByItsCaller == Spec => []SameCaller
<1>1. IInv => SameCaller BY DEF IInv
<1>2. QED BY Invariance, <1>1, PTL

\* A 200 to the provider means the event was appended, exactly once.
THEOREM AcknowledgementsHold == Spec => []AcknowledgedOnce
<1>1. IInv => AcknowledgedOnce BY DEF IInv, ArchiveInv
<1>2. QED BY Invariance, <1>1, PTL

\* EVENT_CONTENTION is answered only after a change in every round.
THEOREM ContentionEarned == Spec => []ContentionIsReal
<1>1. IInv => ContentionIsReal BY DEF IInv, RoundInv, ContentionIsReal
<1>2. QED BY Invariance, <1>1, PTL

\* No race of compare-and-swap rounds loses an event.
THEOREM NoEventLost == Spec => EventsOnlyGrow
<1>1. IInv /\ [Next]_vars =>
        [journal /= None /\ journal' /= None =>
           /\ journal.events \subseteq journal'.events
           /\ journal'.binding = journal.binding]_vars
  <2> SUFFICES ASSUME IInv, [Next]_vars, journal /= None, journal' /= None
               PROVE  /\ journal.events \subseteq journal'.events
                      /\ journal'.binding = journal.binding
    OBVIOUS
  <2>1. CASE UNCHANGED journal BY <2>1
  <2>2. CASE \E w \in Workers : /\ OnItsWay(w) /\ Current(w)
                                /\ journal' = Appended(seen[w], event[w])
    <3>1. PICK w \in Workers : /\ OnItsWay(w) /\ Current(w)
                               /\ journal' = Appended(seen[w], event[w])
      BY <2>2
    <3>2. /\ seen[w] = journal /\ event[w] \in Event
          /\ ~BindingConflict(journal, event[w])
      BY <3>1 DEF IInv, CallInv, Current
    <3>3. /\ journal'.events = EventsOf(journal) \cup {event[w]}
          /\ journal'.binding = event[w].binding
      BY <3>1, <3>2, AppendedType DEF IInv, TypeOK
    <3>4. QED BY <3>2, <3>3 DEF EventsOf, BindingConflict
  <2>3. QED
    BY <2>1, <2>2 DEF Next, Step, Receive, Round, StoreAccept, Answered, Fail,
       Bind, ForgetRecord, ForgetJournal, storeVars, vars
<1>2. QED BY Invariance, <1>1, PTL DEF Spec, EventsOnlyGrow
=============================================================================
