----------------------------- MODULE MetricBuffer -----------------------------
(***************************************************************************)
(* MetricEventBuffer: evidence that is retained for a while, deleted on    *)
(* request and exported through a single slot.  Every operation reads a    *)
(* clock that may go back or be invalid, and prunes what has expired by    *)
(* the latest time read so far.  An export overlaps everything else; what  *)
(* removes evidence meanwhile invalidates it.                              *)
(*                                                                         *)
(* A generation matters only by whether it has changed since the export's  *)
(* snapshot (stale).  Checks of an event that depend on it and on nothing  *)
(* else here (form, labels, bytes, groups, chronology) may refuse any      *)
(* event.                                                                  *)
(***************************************************************************)
EXTENDS Naturals, FiniteSets

CONSTANTS
  Events, Sessions,
  SessionOf,  \* the session of each event
  OccurredAt, \* and its time
  RetentionMs, MaxFutureSkewMs,
  MaxEvents, MaxSessions, MaxTombstones,
  Flushes,    \* calls of flush
  MaxTime,    \* bound of the clock
  Null, Forever

ASSUME MetricAssumption ==
  /\ SessionOf \in [Events -> Sessions] /\ OccurredAt \in [Events -> Nat]
  /\ {RetentionMs, MaxFutureSkewMs, MaxEvents, MaxSessions, MaxTombstones, MaxTime} \subseteq Nat
  /\ RetentionMs > 0 /\ {Null, Forever} \cap Nat = {} /\ Null /= Forever /\ Null \notin Flushes

VARIABLES
  buffer,  \* _lastNow, _events, _sessions, _tombstones and _sealed
  closed,
  active,  \* _active: the export that has the slot, or Null
  jobs,    \* each flush: its stage, snapshot, signal and public result
  deleted  \* history: sessions that were deleted explicitly

metricVars == <<buffer, closed, active, jobs, deleted>>

Times == 0..MaxTime
Of(s) == {e \in Events : SessionOf[e] = s}
Lesser(a, b) == IF a = Null \/ b < a THEN b ELSE a
Denied(b) == {s \in Sessions : b.tombstones[s] /= Null}
Retained(b) == {s \in Sessions : b.sessions[s] /= Null}

NoJob == [stage |-> "new", events |-> {}, published |-> FALSE,
          stale |-> FALSE, aborted |-> FALSE, result |-> "none"]
-----------------------------------------------------------------------------
(* Removal.  Operators marked "Wrong:" are deliberate errors: in the place *)
(* of the definition that follows them they break a property.              *)

Removal(b, gone) ==
  [b EXCEPT !.events = {e \in @ : SessionOf[e] \notin gone},
            !.sessions = [s \in Sessions |-> IF s \in gone THEN Null ELSE @[s]]]

\* _deny, for each of a set of sessions: at capacity the buffer is sealed.
Deny(b, gone, until) ==
  LET fresh == gone \ Denied(b)
      room == IF Cardinality(fresh) <= MaxTombstones - Cardinality(Denied(b))
              THEN Cardinality(fresh)
              ELSE MaxTombstones - Cardinality(Denied(b))
      Kept == {d \in SUBSET fresh : Cardinality(d) = room}
  IN {[b EXCEPT !.tombstones = [s \in Sessions |->
                   IF s \in d \/ s \in gone \cap Denied(b) THEN until ELSE @[s]],
                !.sealed = @ \/ d /= fresh] : d \in Kept}

\* Wrong: a permanent tombstone counts as over.
OverAnyway(until, t) == until = Forever \/ until <= t

Over(until, t) == until /= Forever /\ until <= t

Forgotten(b, t) ==
  [b EXCEPT !.tombstones = [s \in Sessions |->
     IF @[s] /= Null /\ Over(@[s], t) THEN Null ELSE @[s]]]

Overdue(b, t) == {s \in Retained(b) : b.sessions[s] + RetentionMs <= t}

\* _time: a clock that goes back reads as the latest time read before.
Readings(b) == {IF v > b.now THEN v ELSE b.now : v \in Times}

\* _prune.
PrunedAt(b, t) ==
  LET gone == Overdue(b, t) IN
  Deny(Removal(Forgotten([b EXCEPT !.now = t], t), gone), gone, t + RetentionMs)
Pruned(b) == UNION {PrunedAt(b, t) : t \in Readings(b)}

\* _invalidate.
Invalidated ==
  [j \in Flushes |->
    IF j /= active THEN jobs[j]
    ELSE [jobs[j] EXCEPT !.stale = TRUE, !.aborted = TRUE,
                         !.result = IF @ = "none" THEN "invalidated" ELSE @]]

\* Wrong: expiry does not invalidate.
JobsAnyway(p) == jobs

\* A prune invalidates when it has removed something.
JobsAfter(p) == IF buffer.events \subseteq p.events THEN jobs ELSE Invalidated
-----------------------------------------------------------------------------
(* The operations.                                                         *)

\* A session expires by its earliest event.
Anchor(a, at) == Lesser(a, at)

Accepts(b, e) ==
  /\ ~b.sealed /\ b.tombstones[SessionOf[e]] = Null
  /\ OccurredAt[e] <= b.now + MaxFutureSkewMs
  /\ OccurredAt[e] + RetentionMs > b.now
  /\ e \notin b.events /\ Cardinality(b.events) < MaxEvents
  /\ SessionOf[e] \in Retained(b) \/ Cardinality(Retained(b)) < MaxSessions

Retain(b, e) ==
  [b EXCEPT !.events = @ \cup {e},
            !.sessions[SessionOf[e]] = Anchor(@, OccurredAt[e])]

\* record: retained, or refused, or a duplicate.
Record(e) ==
  /\ ~closed
  /\ \E p \in Pruned(buffer) :
       /\ buffer' \in {p} \cup (IF Accepts(p, e) THEN {Retain(p, e)} ELSE {})
       /\ jobs' = JobsAfter(p)
  /\ UNCHANGED <<closed, active, deleted>>

\* snapshot and stats.
Snapshot ==
  /\ ~closed
  /\ buffer' \in Pruned(buffer)
  /\ jobs' = JobsAfter(buffer')
  /\ UNCHANGED <<closed, active, deleted>>

DeleteEvidence(s) ==
  /\ ~closed
  /\ \E p \in Pruned(buffer) : buffer' \in Deny(Removal(p, {s}), {s}, Forever)
  /\ deleted' = deleted \cup {s}
  /\ jobs' = Invalidated
  /\ UNCHANGED <<closed, active>>

Erase ==
  /\ ~closed
  /\ buffer' = [buffer EXCEPT !.events = {}, !.sealed = TRUE,
                              !.sessions = [s \in Sessions |-> Null],
                              !.tombstones = [s \in Sessions |-> Null]]
  /\ jobs' = Invalidated
  /\ UNCHANGED <<active, deleted>>

ClearAll == Erase /\ UNCHANGED closed
Close == Erase /\ closed' = TRUE
-----------------------------------------------------------------------------
(* flush.                                                                  *)

\* An export takes the slot, with a snapshot; when the slot is taken or the
\* snapshot fails, a flush is a Snapshot.
Flush(j) ==
  /\ ~closed /\ active = Null /\ jobs[j].stage = "new"
  /\ \E p \in Pruned(buffer) : buffer' \in Pruned(p)
  /\ active' = j
  /\ jobs' = [jobs EXCEPT ![j] = [NoJob EXCEPT !.stage = "queued", !.events = buffer'.events]]
  /\ UNCHANGED <<closed, deleted>>

\* isCurrent prunes; a clock that fails aborts the export.
Current(j, js) == ~js[j].aborted /\ ~js[j].stale /\ ~closed
Checked(j) ==
  IF buffer' = buffer THEN {jobs, [jobs EXCEPT ![j].aborted = TRUE]} ELSE {JobsAfter(buffer')}

Ended(j, js, outcome) ==
  /\ jobs' = [js EXCEPT ![j].stage = "over", ![j].result = IF @ = "none" THEN outcome ELSE @]
  /\ active' = IF active = j THEN Null ELSE active

\* The exporter is called, unless the snapshot is out of date already.
StartExport(j) ==
  /\ jobs[j].stage = "queued"
  /\ buffer' \in Pruned(buffer)
  /\ \E js \in Checked(j) :
       IF Current(j, js)
       THEN jobs' = [js EXCEPT ![j].stage = "running"] /\ UNCHANGED active
       ELSE Ended(j, js, "invalidated")
  /\ UNCHANGED <<closed, deleted>>

\* The exporter asks isCurrent, and publishes at once.
Publish(j) ==
  /\ jobs[j].stage = "running" /\ ~jobs[j].published
  /\ buffer' \in Pruned(buffer)
  /\ \E js \in Checked(j) : jobs' = [js EXCEPT ![j].published = Current(j, js)]
  /\ UNCHANGED <<closed, active, deleted>>

\* Wrong: the deadline frees the slot.
SlotAtDeadline(j) == Null

\* The slot is the export's until its promise settles.
SlotAfter(j) == active

Timeout(j) ==
  /\ jobs[j].stage = "running" /\ jobs[j].result = "none"
  /\ jobs' = [jobs EXCEPT ![j].result = "timeout", ![j].aborted = TRUE]
  /\ active' = SlotAfter(j)
  /\ UNCHANGED <<buffer, closed, deleted>>

\* The exporter's promise settles.
Settle(j) ==
  /\ jobs[j].stage = "running"
  /\ \/ /\ buffer' \in Pruned(buffer)
        /\ \E js \in Checked(j) :
             Ended(j, js, IF Current(j, js) THEN "exported" ELSE "invalidated")
     \/ UNCHANGED buffer /\ Ended(j, jobs, "failed")
  /\ UNCHANGED <<closed, deleted>>

MetricInit ==
  /\ buffer = [now |-> 0, events |-> {}, sessions |-> [s \in Sessions |-> Null],
               tombstones |-> [s \in Sessions |-> Null], sealed |-> FALSE]
  /\ closed = FALSE /\ active = Null
  /\ jobs = [j \in Flushes |-> NoJob]
  /\ deleted = {}

MetricNext ==
  \/ \E e \in Events : Record(e)
  \/ Snapshot \/ ClearAll \/ Close
  \/ \E s \in Sessions : DeleteEvidence(s)
  \/ \E j \in Flushes : Flush(j) \/ StartExport(j) \/ Publish(j) \/ Timeout(j) \/ Settle(j)

MetricSpec == MetricInit /\ [][MetricNext]_metricVars
-----------------------------------------------------------------------------
(* Properties.                                                             *)

\* What was deleted on request never comes back, through expiry, a full
\* list of tombstones and a clock that goes back
\* (docs/METRIC-RETENTION.md:58).
DeletedForGood == \A e \in buffer.events : SessionOf[e] \notin deleted

\* After any operation no evidence is older than the retention allows, and
\* no cohort is left in part: what expires goes with its session
\* (docs/METRIC-RETENTION.md:52).
RetentionKept == \A e \in buffer.events : OccurredAt[e] + RetentionMs > buffer.now

\* Evidence that is gone, deleted or expired, stays gone.
GoneForGood == DeletedForGood /\ RetentionKept

\* An export succeeds, and a cooperative exporter publishes, only while all
\* of its evidence is still retained.
ExportIsCurrent ==
  [][\A j \in Flushes :
       \/ jobs'[j].result = "exported" /\ jobs[j].result /= "exported"
       \/ jobs'[j].published /\ ~jobs[j].published
       => jobs[j].events \subseteq buffer'.events]_metricVars

\* There is one physical export at a time, also when its public deadline is
\* over, when its snapshot was invalidated or the buffer closed
\* (docs/METRIC-RETENTION.md:70).
OneExport ==
  \A i, j \in Flushes :
    {jobs[i].stage, jobs[j].stage} \subseteq {"queued", "running"} => i = j

\* Exports come one after another, and none counts that is out of date.
ExportsInOrder == []OneExport /\ ExportIsCurrent
=============================================================================
