--------------------------- MODULE SessionEvents ---------------------------
(***************************************************************************)
(* RedisSessionEventStore.accept and SessionEventGateway.handle: workers,  *)
(* each handling one callback after another, append a provider's end       *)
(* events to one session's bounded journal by compare-and-swap, beside     *)
(* turns that bind the session's record to a caller.                       *)
(*                                                                         *)
(* An event's fingerprint, a hash of all its fields, is the event itself;  *)
(* detail stands for the fields nothing else looks at.  The journal keeps  *)
(* its events sorted, so they are a set.  An ACCEPT that was sent may      *)
(* execute after its callback failed, and its answer may be lost.          *)
(***************************************************************************)
EXTENDS Integers, FiniteSets

CONSTANTS
  Workers,      \* callbacks handled at a time
  Callers,      \* caller/service/network bindings
  Statuses,     \* the provider's statuses
  Details,      \* the fields that only tell events apart
  Deliverable,  \* the events that may be delivered
  MaxEvents,    \* maxEvents
  MaxAttempts,  \* compare-and-swap rounds of one call: 8 in the code
  MaxForgets,   \* bound of a model: how often the journal is forgotten
  MaxCallbacks, \* bound of a model: how many callbacks arrive
  None

Event == [binding: Callers, occurredAt: Nat, status: Statuses,
          detail: Details]

ASSUME DeliverableAssumption == Deliverable \subseteq Event
ASSUME BoundsAssumption ==
  /\ MaxEvents \in Nat \ {0} /\ MaxAttempts \in Nat \ {0}
  /\ MaxForgets \in Nat /\ MaxCallbacks \in Nat
ASSUME StatusAssumption == "conflict" \notin Statuses

Journal == [revision: Nat \ {0}, binding: Callers,
            events: SUBSET Event, outcome: Statuses \cup {"conflict"}]

ASSUME AbsentAssumption == None \notin Journal \cup Event \cup Callers

VARIABLES
  journal,  \* the session's journal, or None
  bound,    \* binding of the session record's ledger, or None
  closed,   \* providerClosed of the session's record
  pc,       \* where each worker's accept() stands
  event,    \* the event of each worker's callback
  seen,     \* the journal it read in this round
  attempt,  \* the round it is in
  wire,     \* the ACCEPT it sent: none, sent or its result
  verdict,  \* the classification or the error it ended with
  arrived,  \* history: how many callbacks arrived
  epoch,    \* history: how often the journal was forgotten
  changes,  \* history: how often the journal's revision changed
  began,    \* history: changes when each worker's callback began
  archive   \* history: <<epoch, event, changes>> of every append

storeVars   == <<journal, bound, closed>>
callVars    == <<pc, event, seen, attempt, wire, verdict>>
historyVars == <<arrived, epoch, changes, began, archive>>
vars == <<storeVars, callVars, historyVars>>

Init ==
  /\ journal = None
  /\ bound \in Callers \cup {None}
  /\ closed = FALSE
  /\ pc = [w \in Workers |-> "idle"]
  /\ event = [w \in Workers |-> None]
  /\ seen = [w \in Workers |-> None]
  /\ attempt = [w \in Workers |-> 0]
  /\ wire = [w \in Workers |-> "none"]
  /\ verdict = [w \in Workers |-> "none"]
  /\ arrived = 0 /\ epoch = 0 /\ changes = 0
  /\ began = [w \in Workers |-> 0]
  /\ archive = {}
-----------------------------------------------------------------------------
(* The journal.  Operators marked "Wrong:" are deliberate errors: in the   *)
(* place of the definition that follows them they break a property.        *)

\* Wrong: an absent journal counts as revision -1.

Revision(j) == IF j = None THEN 0 ELSE j.revision
EventsOf(j) == IF j = None THEN {} ELSE j.events

Diverges(j, e) ==
  \E f \in EventsOf(j) :
    f.status /= e.status \/ f.occurredAt = e.occurredAt

Classification(j, e) ==
  CASE Diverges(j, e) -> "conflict"
    [] ~Diverges(j, e) /\ (\E f \in EventsOf(j) : f.occurredAt > e.occurredAt)
       -> "stale"
    [] OTHER -> "accepted"

\* Wrong: the last event decides the outcome.
AppendedLast(j, e) ==
  [revision |-> Revision(j) + 1,
   binding |-> e.binding,
   events |-> EventsOf(j) \cup {e},
   outcome |-> IF Diverges(j, e) THEN "conflict" ELSE e.status]

\* The journal ACCEPT installs for event e after journal j was read.
Appended(j, e) ==
  [revision |-> Revision(j) + 1,
   binding |-> e.binding,
   events |-> EventsOf(j) \cup {e},
   outcome |-> IF Diverges(j, e) \/ (j /= None /\ j.outcome = "conflict")
               THEN "conflict" ELSE e.status]

Goto(w, label) == pc' = [pc EXCEPT ![w] = label]
OnItsWay(w) == wire[w] = "sent"

\* The verdicts that are answered 200.
Acknowledged == {"accepted", "stale", "conflict", "duplicate"}

\* The callback ends; only an ACCEPT still on its way is left of it
\* (and what the properties look at).
Finish(w, result) ==
  /\ Goto(w, "idle")
  /\ verdict' = [verdict EXCEPT ![w] = result]
  /\ attempt' = [attempt EXCEPT ![w] = 0]
  /\ event' = [event EXCEPT ![w] =
       IF OnItsWay(w) \/ result \in Acknowledged THEN @ ELSE None]
  /\ wire' = [wire EXCEPT ![w] = IF OnItsWay(w) THEN @ ELSE "none"]
  /\ began' = [began EXCEPT ![w] = IF result = "contention" THEN @ ELSE 0]
  /\ seen' = [seen EXCEPT ![w] = IF OnItsWay(w) THEN @ ELSE None]
-----------------------------------------------------------------------------
(* One callback.                                                           *)

\* A well-formed end event arrives at a free worker.
Receive(w) ==
  /\ pc[w] = "idle" /\ ~OnItsWay(w)
  /\ arrived < MaxCallbacks
  /\ arrived' = arrived + 1
  /\ \E e \in Deliverable : event' = [event EXCEPT ![w] = e]
  /\ attempt' = [attempt EXCEPT ![w] = 1]
  /\ began' = [began EXCEPT ![w] = changes]
  /\ verdict' = [verdict EXCEPT ![w] = "none"]
  /\ wire' = [wire EXCEPT ![w] = "none"]
  /\ seen' = [seen EXCEPT ![w] = None]
  /\ Goto(w, "reading")
  /\ UNCHANGED <<storeVars, epoch, changes, archive>>

BindingConflict(j, e) == j /= None /\ j.binding /= e.binding
Duplicate(j, e) == e \in EventsOf(j)

Full(j) == Cardinality(EventsOf(j)) >= MaxEvents

\* A round: the journal is read, and already decides the answer, or the
\* event is to be appended to what was read.  What is decided depends on
\* the answer of the read only, so both are one step.
Round(w) ==
  LET e == event[w] IN
  /\ pc[w] = "reading"
  /\ \/ BindingConflict(journal, e) /\ Finish(w, "binding")
     \/ /\ ~BindingConflict(journal, e)
        /\ Duplicate(journal, e) /\ Finish(w, "duplicate")
     \/ /\ ~BindingConflict(journal, e) /\ ~Duplicate(journal, e)
        /\ Full(journal) /\ Finish(w, "capacity")
     \/ /\ ~BindingConflict(journal, e) /\ ~Duplicate(journal, e)
        /\ ~Full(journal)
        /\ seen' = [seen EXCEPT ![w] = journal]
        /\ wire' = [wire EXCEPT ![w] = "sent"]
        /\ Goto(w, "accepting")
        /\ UNCHANGED <<event, attempt, verdict, began>>
  /\ UNCHANGED <<storeVars, arrived, epoch, changes, archive>>

\* Wrong: the script does not compare the ledger's binding.
BoundElsewhereNever(w) == bound /= None /\ event[w] = None

\* The session's ledger is bound to another caller.
BoundElsewhere(w) == bound /= None /\ bound /= event[w].binding

\* Wrong: the script does not compare revisions.
CurrentAlways(w) == Revision(seen[w]) \in Nat

\* The journal is still the one that was read.
Current(w) == Revision(journal) = Revision(seen[w])

\* The store executes an ACCEPT that was sent, at any time, if ever.
StoreAccept(w) ==
  /\ OnItsWay(w)
  /\ \/ /\ ~Current(w)
        /\ wire' = [wire EXCEPT ![w] = "lost"]
        /\ UNCHANGED <<storeVars, historyVars>>
     \/ /\ Current(w) /\ BoundElsewhere(w)
        /\ wire' = [wire EXCEPT ![w] = "binding"]
        /\ UNCHANGED <<storeVars, historyVars>>
     \/ /\ Current(w) /\ ~BoundElsewhere(w)
        /\ wire' = [wire EXCEPT ![w] = "installed"]
        /\ journal' = Appended(seen[w], event[w])
        /\ closed' = TRUE
        /\ changes' = changes + 1
        /\ archive' = archive \cup {<<epoch, event[w], changes>>}
        /\ UNCHANGED <<bound, arrived, epoch, began>>
  /\ UNCHANGED <<pc, event, seen, attempt, verdict>>

\* The answer arrives: acknowledge, refuse, or try another round.
Answered(w) ==
  /\ pc[w] = "accepting"
  /\ \/ wire[w] = "installed" /\ Finish(w, Classification(seen[w], event[w]))
     \/ wire[w] = "binding" /\ Finish(w, "binding")
     \/ /\ wire[w] = "lost" /\ attempt[w] < MaxAttempts
        /\ attempt' = [attempt EXCEPT ![w] = @ + 1]
        /\ wire' = [wire EXCEPT ![w] = "none"]
        /\ seen' = [seen EXCEPT ![w] = None]
        /\ Goto(w, "reading")
        /\ UNCHANGED <<event, verdict, began>>
     \/ wire[w] = "lost" /\ attempt[w] = MaxAttempts /\ Finish(w, "contention")
  /\ UNCHANGED <<storeVars, arrived, epoch, changes, archive>>

\* A store call fails, or the worker dies: no acknowledgement.  A command
\* on its way is not stopped by it.
Fail(w) ==
  /\ pc[w] \in {"reading", "accepting"}
  /\ Finish(w, "failed")
  /\ UNCHANGED <<storeVars, arrived, epoch, changes, archive>>
-----------------------------------------------------------------------------
(* The surroundings: turns and retention.                                  *)

\* A first turn's CLAIM binds the session; it refuses a closed record.
Bind ==
  /\ bound = None /\ ~closed
  /\ \E caller \in Callers : bound' = caller
  /\ UNCHANGED <<journal, closed, callVars, historyVars>>

\* The record's key expires, ledger and closed flag together.
ForgetRecord ==
  /\ bound /= None \/ closed
  /\ bound' = None /\ closed' = FALSE
  /\ UNCHANGED <<journal, callVars, historyVars>>

\* The journal's key expires.  Its retention (a week by default) outlasts
\* the time from any callback's read to the execution of its ACCEPT.
ForgetJournal ==
  /\ journal /= None
  /\ epoch < MaxForgets
  /\ \A w \in Workers : ~OnItsWay(w)
  /\ journal' = None
  /\ epoch' = epoch + 1 /\ changes' = changes + 1
  /\ UNCHANGED <<bound, closed, callVars, arrived, began, archive>>

Step(w) ==
  \/ Receive(w) \/ Round(w) \/ StoreAccept(w) \/ Answered(w) \/ Fail(w)

Next == (\E w \in Workers : Step(w)) \/ Bind \/ ForgetRecord \/ ForgetJournal

Spec == Init /\ [][Next]_vars
-----------------------------------------------------------------------------
(* Properties.                                                             *)

\* Every variable stays in its type.
TypeOK ==
  /\ journal \in Journal \cup {None}
  /\ bound \in Callers \cup {None}
  /\ closed \in BOOLEAN
  /\ pc \in [Workers -> {"idle", "reading", "accepting"}]
  /\ event \in [Workers -> Event \cup {None}]
  /\ seen \in [Workers -> Journal \cup {None}]
  /\ attempt \in [Workers -> 0..MaxAttempts]
  /\ wire \in [Workers -> {"none", "sent", "lost", "binding", "installed"}]
  /\ verdict \in [Workers -> Acknowledged \cup
                    {"none", "binding", "capacity", "contention", "failed"}]
  /\ arrived \in Nat /\ epoch \in Nat /\ changes \in Nat
  /\ began \in [Workers -> Nat]
  /\ archive \subseteq Nat \X Event \X Nat

\* The outcome depends on the events only, not on the order they arrived
\* in: the common status of all, or a conflict when two of them differ in
\* status or share their time.  "Contradictory statuses never silently
\* overwrite a canonical result" (docs/SESSION-END-AND-CALLBACKS.md:16).
OutcomeFromEvents ==
  journal /= None =>
    LET contradictory ==
          \E e, f \in journal.events :
            e /= f /\ (e.status /= f.status \/ e.occurredAt = f.occurredAt)
    IN  IF contradictory THEN journal.outcome = "conflict"
        ELSE \A e \in journal.events : e.status = journal.outcome

\* The journal never grows past maxEvents, however many callbacks race at
\* its border, counts its events, and holds those of one caller.
WithinCapacity ==
  journal /= None =>
    /\ journal.revision = Cardinality(journal.events)
    /\ journal.revision <= MaxEvents
    /\ \A e \in journal.events : e.binding = journal.binding

\* A closed session with a ledger was closed by events of its own caller.
SameCaller ==
  journal /= None /\ bound /= None /\ closed => bound = journal.binding

\* An acknowledged event is in the journal's history, and of all callbacks
\* that deliver it within one retention exactly one appended it.
AcknowledgedOnce ==
  /\ \A w \in Workers : verdict[w] \in Acknowledged =>
       \E a \in archive : a[2] = event[w]
  /\ \A a, b \in archive : a[1] = b[1] /\ a[2] = b[2] => a = b

\* A callback is turned away for contention only if others changed the
\* journal in each of its rounds.
ContentionIsReal ==
  \A w \in Workers :
    verdict[w] = "contention" => changes - began[w] >= MaxAttempts

\* While the journal is retained no event in it is lost, by any race of
\* callbacks, nor its caller changed.
EventsOnlyGrow ==
  [][journal /= None /\ journal' /= None =>
       /\ journal.events \subseteq journal'.events
       /\ journal'.binding = journal.binding]_vars
=============================================================================
