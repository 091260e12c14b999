-------------------------- MODULE MetricBufferProofs --------------------------
(***************************************************************************)
(* Evidence that is gone stays gone, and exports are in order, for any     *)
(* events, sessions, exports and limits.                                   *)
(***************************************************************************)
EXTENDS MetricBuffer, TLAPS

Buffers == [now : Nat, events : SUBSET Events, sessions : [Sessions -> Nat \cup {Null}],
            tombstones : [Sessions -> Nat \cup {Null, Forever}], sealed : BOOLEAN]

\* A session stands for its evidence, its earliest event decides its expiry,
\* and what was deleted is not there and will not be let in.
Kept(b) ==
  /\ \A e \in b.events :
       b.sessions[SessionOf[e]] # Null /\ b.sessions[SessionOf[e]] <= OccurredAt[e]
  /\ \A s \in Sessions : b.sessions[s] # Null => b.sessions[s] + RetentionMs > b.now
Gone(b, s) == b.sessions[s] = Null /\ (b.sealed \/ b.tombstones[s] = Forever)
Sound(b, D) == b \in Buffers /\ Kept(b) /\ \A s \in D : Gone(b, s)

-----------------------------------------------------------------------------
(* The operators on a buffer                                               *)

LEMMA RemovalFields ==
  ASSUME NEW b \in Buffers, NEW gone \in SUBSET Sessions
  PROVE  /\ Removal(b, gone) \in Buffers
         /\ Removal(b, gone).now = b.now
         /\ Removal(b, gone).sealed = b.sealed
         /\ Removal(b, gone).tombstones = b.tombstones
         /\ Removal(b, gone).events = {e \in b.events : SessionOf[e] \notin gone}
         /\ Removal(b, gone).sessions = [s \in Sessions |-> IF s \in gone THEN Null ELSE b.sessions[s]]
BY DEF Removal, Buffers

\* Denying takes nothing away, and each session denied has its tombstone or
\* seals the buffer.
LEMMA DenyFields ==
  ASSUME NEW b \in Buffers, NEW gone \in SUBSET Sessions,
         NEW until \in Nat \cup {Forever}, NEW p \in Deny(b, gone, until)
  PROVE  /\ p \in Buffers
         /\ p.now = b.now /\ p.events = b.events /\ p.sessions = b.sessions
         /\ b.sealed => p.sealed
         /\ \A s \in Sessions \ gone : p.tombstones[s] = b.tombstones[s]
         /\ \A s \in gone : p.sealed \/ p.tombstones[s] = until
<1>1. PICK d \in SUBSET (gone \ Denied(b)) :
        p = [b EXCEPT !.tombstones = [s \in Sessions |->
                        IF s \in d \/ s \in gone \cap Denied(b) THEN until ELSE @[s]],
                      !.sealed = @ \/ d /= gone \ Denied(b)]
  BY DEF Deny
<1> DEFINE marks == [s \in Sessions |->
                       IF s \in d \/ s \in gone \cap Denied(b) THEN until ELSE b.tombstones[s]]
           full == b.sealed \/ d /= gone \ Denied(b)
<1>2. p = [b EXCEPT !.tombstones = marks, !.sealed = full] BY <1>1
<1>3. marks \in [Sessions -> Nat \cup {Null, Forever}] BY DEF Buffers
<1>4. full \in BOOLEAN BY DEF Buffers
<1>5. /\ \A s \in Sessions \ gone : marks[s] = b.tombstones[s]
      /\ \A s \in gone : full \/ marks[s] = until
  OBVIOUS
<1> HIDE DEF marks, full
<1>6. /\ p \in Buffers /\ p.tombstones = marks /\ p.sealed = full
      /\ p.now = b.now /\ p.events = b.events /\ p.sessions = b.sessions
  BY <1>2, <1>3, <1>4 DEF Buffers
<1>7. b.sealed => full BY DEF full
<1>8. QED BY <1>5, <1>6, <1>7

LEMMA ForgottenFields ==
  ASSUME NEW b \in Buffers, NEW t \in Nat
  PROVE  /\ Forgotten(b, t) \in Buffers
         /\ Forgotten(b, t).now = b.now /\ Forgotten(b, t).events = b.events
         /\ Forgotten(b, t).sessions = b.sessions /\ Forgotten(b, t).sealed = b.sealed
         /\ \A s \in Sessions : b.tombstones[s] = Forever => Forgotten(b, t).tombstones[s] = Forever
<1> DEFINE marks == [s \in Sessions |-> IF b.tombstones[s] /= Null /\ Over(b.tombstones[s], t)
                                        THEN Null ELSE b.tombstones[s]]
<1>1. marks \in [Sessions -> Nat \cup {Null, Forever}] BY DEF Buffers
<1>2. \A s \in Sessions : b.tombstones[s] = Forever => marks[s] = Forever BY DEF Over
<1>3. Forgotten(b, t) = [b EXCEPT !.tombstones = marks] BY DEF Forgotten
<1> HIDE DEF marks
<1>4. QED BY <1>1, <1>2, <1>3 DEF Buffers

LEMMA PrunedSound ==
  ASSUME NEW D \in SUBSET Sessions, NEW b, Sound(b, D), NEW p \in Pruned(b)
  PROVE  Sound(p, D) /\ p.events \subseteq b.events
<1>1. PICK t \in Readings(b) : p \in PrunedAt(b, t) BY DEF Pruned
<1>2. b \in Buffers /\ Kept(b) BY DEF Sound
<1>3. RetentionMs \in Nat /\ t \in Nat
  BY <1>2, MetricAssumption DEF Readings, Buffers, Times
<1> DEFINE gone == Overdue(b, t)
           set == [b EXCEPT !.now = t]
           left == Removal(Forgotten(set, t), gone)
<1>4. gone \in SUBSET Sessions BY DEF Overdue, Retained
<1>5. /\ set \in Buffers /\ set.now = t /\ set.events = b.events
      /\ set.sessions = b.sessions /\ set.tombstones = b.tombstones /\ set.sealed = b.sealed
  BY <1>2, <1>3 DEF Buffers
<1>6. p \in Deny(left, gone, t + RetentionMs) BY <1>1 DEF PrunedAt
<1>7. \A s \in Sessions : s \in gone <=> b.sessions[s] # Null /\ b.sessions[s] + RetentionMs <= t
  BY DEF Overdue, Retained
<1> HIDE DEF gone, set
<1>8. /\ Forgotten(set, t) \in Buffers
      /\ Forgotten(set, t).now = t /\ Forgotten(set, t).events = b.events
      /\ Forgotten(set, t).sessions = b.sessions /\ Forgotten(set, t).sealed = b.sealed
      /\ \A s \in Sessions : b.tombstones[s] = Forever => Forgotten(set, t).tombstones[s] = Forever
  BY <1>3, <1>5, ForgottenFields
<1>9. /\ left \in Buffers /\ left.now = t /\ left.sealed = b.sealed
      /\ left.events = {e \in b.events : SessionOf[e] \notin gone}
      /\ left.sessions = [s \in Sessions |-> IF s \in gone THEN Null ELSE b.sessions[s]]
      /\ \A s \in Sessions : b.tombstones[s] = Forever => left.tombstones[s] = Forever
  BY <1>4, <1>8, RemovalFields
<1> HIDE DEF left
<1>10. /\ p \in Buffers /\ p.now = t
       /\ p.events = {e \in b.events : SessionOf[e] \notin gone}
       /\ p.sessions = [s \in Sessions |-> IF s \in gone THEN Null ELSE b.sessions[s]]
       /\ b.sealed => p.sealed
       /\ \A s \in Sessions \ gone : p.tombstones[s] = left.tombstones[s]
  BY <1>3, <1>4, <1>6, <1>9, DenyFields
<1>11. Kept(p)
  <2>1. \A e \in p.events : SessionOf[e] \in Sessions \ gone
    BY <1>2, <1>10, MetricAssumption DEF Buffers
  <2>2. \A e \in p.events : p.sessions[SessionOf[e]] = b.sessions[SessionOf[e]]
    BY <1>10, <2>1
  <2>3. \A e \in p.events : p.sessions[SessionOf[e]] # Null /\ p.sessions[SessionOf[e]] <= OccurredAt[e]
    BY <1>2, <1>10, <2>2 DEF Kept
  <2>4. ASSUME NEW s \in Sessions, p.sessions[s] # Null
        PROVE  p.sessions[s] + RetentionMs > p.now
    <3>1. s \notin gone /\ p.sessions[s] = b.sessions[s] BY <2>4, <1>10
    <3>2. b.sessions[s] \in Nat BY <1>2, <2>4, <3>1 DEF Buffers
    <3>3. ~(b.sessions[s] + RetentionMs <= t) BY <1>7, <2>4, <3>1
    <3>4. QED BY <1>3, <1>10, <3>1, <3>2, <3>3
  <2>5. QED BY <2>3, <2>4 DEF Kept
<1>12. ASSUME NEW s \in D PROVE Gone(p, s)
  <2>1. Gone(b, s) BY DEF Sound
  <2>2. s \in Sessions \ gone BY <1>7, <2>1 DEF Gone
  <2>3. p.sessions[s] = Null BY <1>10, <2>1, <2>2 DEF Gone
  <2>4. b.tombstones[s] = Forever => p.tombstones[s] = Forever
    BY <1>9, <1>10, <2>2
  <2>5. QED BY <1>10, <2>1, <2>3, <2>4 DEF Gone
<1>13. QED BY <1>10, <1>11, <1>12 DEF Sound

LEMMA RetainSound ==
  ASSUME NEW D \in SUBSET Sessions, NEW b, Sound(b, D), NEW e \in Events, Accepts(b, e)
  PROVE  Sound(Retain(b, e), D) /\ b.events \subseteq Retain(b, e).events
<1>1. b \in Buffers /\ Kept(b) BY DEF Sound
<1>2. SessionOf[e] \in Sessions /\ OccurredAt[e] \in Nat /\ RetentionMs \in Nat /\ Null \notin Nat
  BY MetricAssumption
<1> DEFINE s0 == SessionOf[e]
           expiry == Anchor(b.sessions[s0], OccurredAt[e])
           r == Retain(b, e)
<1>3. b.sessions[s0] \in Nat \cup {Null} BY <1>1, <1>2 DEF Buffers
<1>4. /\ expiry \in Nat /\ expiry <= OccurredAt[e]
      /\ b.sessions[s0] # Null => expiry <= b.sessions[s0]
      /\ expiry = b.sessions[s0] \/ expiry = OccurredAt[e]
  BY <1>2, <1>3 DEF Anchor, Lesser
<1>5. r = [b EXCEPT !.events = b.events \cup {e},
                    !.sessions = [b.sessions EXCEPT ![s0] = expiry]]
  BY DEF Retain
<1>6. [b.sessions EXCEPT ![s0] = expiry] \in [Sessions -> Nat \cup {Null}]
  BY <1>1, <1>4 DEF Buffers
<1>7. Accepts(b, e) => OccurredAt[e] + RetentionMs > b.now BY DEF Accepts
<1> HIDE DEF expiry, s0, r
<1>8. /\ r \in Buffers /\ r.now = b.now /\ r.sealed = b.sealed /\ r.tombstones = b.tombstones
      /\ r.events = b.events \cup {e}
      /\ r.sessions = [b.sessions EXCEPT ![s0] = expiry]
  BY <1>1, <1>5, <1>6 DEF Buffers
<1>9. b.sessions \in [Sessions -> Nat \cup {Null}] /\ s0 \in Sessions /\ b.now \in Nat
      /\ b.events \subseteq Events
  BY <1>1, <1>2 DEF Buffers, s0
<1>10. \A s \in Sessions : r.sessions[s] = IF s = s0 THEN expiry ELSE b.sessions[s]
  BY <1>8, <1>9
<1>11. Kept(r)
  <2>1. ASSUME NEW f \in r.events
        PROVE  r.sessions[SessionOf[f]] # Null /\ r.sessions[SessionOf[f]] <= OccurredAt[f]
    <3>1. CASE f = e BY <1>2, <1>4, <1>9, <1>10, <3>1 DEF s0
    <3>2. CASE f # e
      <4>1. f \in b.events /\ SessionOf[f] \in Sessions /\ OccurredAt[f] \in Nat
        BY <1>8, <1>9, <3>2, MetricAssumption
      <4>2. b.sessions[SessionOf[f]] # Null /\ b.sessions[SessionOf[f]] <= OccurredAt[f]
        BY <1>1, <4>1 DEF Kept
      <4>3. b.sessions[SessionOf[f]] \in Nat BY <1>9, <4>1, <4>2
      <4>4. CASE SessionOf[f] = s0
        <5>1. r.sessions[SessionOf[f]] = expiry BY <1>10, <4>1, <4>4
        <5>2. expiry <= b.sessions[SessionOf[f]] BY <1>4, <4>2, <4>4
        <5>3. QED BY <1>2, <1>4, <4>1, <4>2, <4>3, <5>1, <5>2
      <4>5. CASE SessionOf[f] # s0 BY <1>10, <4>1, <4>2, <4>5
      <4>6. QED BY <4>4, <4>5
    <3>3. QED BY <3>1, <3>2
  <2>2. ASSUME NEW s \in Sessions, r.sessions[s] # Null
        PROVE  r.sessions[s] + RetentionMs > r.now
    <3>1. CASE s = s0
      <4>1. CASE expiry = OccurredAt[e] BY <1>7, <1>8, <1>10, <3>1, <4>1
      <4>2. CASE expiry = b.sessions[s0]
        <5>1. b.sessions[s0] # Null BY <1>2, <1>4, <4>2
        <5>2. b.sessions[s0] + RetentionMs > b.now BY <1>1, <1>9, <5>1 DEF Kept
        <5>3. QED BY <1>8, <1>10, <3>1, <4>2, <5>2
      <4>3. QED BY <1>4, <4>1, <4>2
    <3>2. CASE s # s0 BY <1>1, <1>8, <1>10, <2>2, <3>2 DEF Kept
    <3>3. QED BY <3>1, <3>2
  <2>3. QED BY <2>1, <2>2 DEF Kept
<1>12. ASSUME NEW s \in D PROVE Gone(r, s)
  <2>1. Gone(b, s) BY DEF Sound
  <2>2. s # s0
    <3>1. ~b.sealed /\ b.tombstones[s0] = Null BY DEF Accepts, s0
    <3>2. QED BY <2>1, <3>1, MetricAssumption DEF Gone
  <2>3. QED BY <1>8, <1>10, <2>1, <2>2 DEF Gone
<1>13. QED BY <1>8, <1>11, <1>12 DEF Sound, r

LEMMA DeleteSound ==
  ASSUME NEW D \in SUBSET Sessions, NEW b, Sound(b, D), NEW s \in Sessions,
         NEW p \in Deny(Removal(b, {s}), {s}, Forever)
  PROVE  Sound(p, D \cup {s})
<1> DEFINE only == {s}
           left == Removal(b, only)
<1>1. b \in Buffers /\ Kept(b) BY DEF Sound
<1>2. /\ left \in Buffers /\ left.now = b.now /\ left.sealed = b.sealed
      /\ left.tombstones = b.tombstones
      /\ left.events = {e \in b.events : SessionOf[e] \notin only}
      /\ left.sessions = [t \in Sessions |-> IF t \in only THEN Null ELSE b.sessions[t]]
  BY <1>1, RemovalFields
<1>3. only \in SUBSET Sessions /\ p \in Deny(left, only, Forever) OBVIOUS
<1>4. \A t : t \in only <=> t = s OBVIOUS
<1> HIDE DEF only, left
<1>5. /\ p \in Buffers /\ p.now = b.now /\ p.events = left.events /\ p.sessions = left.sessions
      /\ b.sealed => p.sealed
      /\ \A t \in Sessions \ {s} : p.tombstones[t] = b.tombstones[t]
      /\ p.sealed \/ p.tombstones[s] = Forever
  <2> DEFINE until == Forever
  <2>1. until \in Nat \cup {Forever} /\ until = Forever /\ p \in Deny(left, only, until)
    BY <1>3
  <2> HIDE DEF until
  <2>2. /\ p \in Buffers
        /\ p.now = left.now /\ p.events = left.events /\ p.sessions = left.sessions
        /\ left.sealed => p.sealed
        /\ \A t \in Sessions \ only : p.tombstones[t] = left.tombstones[t]
        /\ \A t \in only : p.sealed \/ p.tombstones[t] = until
    BY <1>2, <1>3, <2>1, DenyFields
  <2>3. QED BY <1>2, <1>4, <2>1, <2>2
<1>6. \A t \in Sessions : p.sessions[t] = IF t = s THEN Null ELSE b.sessions[t]
  BY <1>2, <1>5, <1>4
<1>7. Kept(p)
  <2>1. \A e \in p.events : e \in b.events /\ SessionOf[e] \in Sessions /\ SessionOf[e] # s
    BY <1>1, <1>2, <1>5, <1>4, MetricAssumption DEF Buffers
  <2>2. QED BY <1>1, <1>5, <1>6, <2>1 DEF Kept
<1>8. ASSUME NEW t \in D \cup {s} PROVE Gone(p, t)
  <2>1. CASE t = s BY <1>5, <1>6, <2>1 DEF Gone
  <2>2. CASE t # s
    <3>1. t \in D /\ Gone(b, t) BY <1>8, <2>2 DEF Sound
    <3>2. QED BY <1>5, <1>6, <2>2, <3>1 DEF Gone
  <2>3. QED BY <2>1, <2>2
<1>9. QED BY <1>5, <1>7, <1>8 DEF Sound

LEMMA EraseSound ==
  ASSUME deleted \in SUBSET Sessions, Sound(buffer, deleted), Erase
  PROVE  Sound(buffer', deleted)
<1>1. buffer \in Buffers BY DEF Sound
<1>2. /\ buffer' \in Buffers /\ buffer'.events = {} /\ buffer'.sealed
      /\ buffer'.sessions = [s \in Sessions |-> Null]
  BY <1>1 DEF Erase, Buffers
<1>3. QED BY <1>2 DEF Sound, Kept, Gone

-----------------------------------------------------------------------------
(* Evidence that is gone stays gone                                        *)

EvidenceInv == deleted \in SUBSET Sessions /\ Sound(buffer, deleted)

LEMMA EvidenceInit == MetricInit => EvidenceInv
BY DEF MetricInit, EvidenceInv, Sound, Buffers, Kept

\* Most steps prune, once or twice, and change nothing else.
LEMMA OnlyPruned ==
  ASSUME EvidenceInv, buffer' \in Pruned(buffer) \/ buffer' = buffer, UNCHANGED deleted
  PROVE  EvidenceInv'
BY PrunedSound DEF EvidenceInv

LEMMA EvidenceNext == EvidenceInv /\ [MetricNext]_metricVars => EvidenceInv'
<1> SUFFICES ASSUME EvidenceInv, [MetricNext]_metricVars PROVE EvidenceInv' OBVIOUS
<1>1. ASSUME NEW e \in Events, Record(e) PROVE EvidenceInv'
  <2>1. PICK p \in Pruned(buffer) :
          buffer' \in {p} \cup (IF Accepts(p, e) THEN {Retain(p, e)} ELSE {})
    BY <1>1 DEF Record
  <2>2. Sound(p, deleted) BY PrunedSound DEF EvidenceInv
  <2>3. buffer' = p \/ (Accepts(p, e) /\ buffer' = Retain(p, e)) BY <2>1
  <2>4. Sound(buffer', deleted) BY <2>2, <2>3, RetainSound DEF EvidenceInv
  <2>5. QED BY <1>1, <2>4 DEF Record, EvidenceInv
<1>2. CASE Snapshot BY <1>2, OnlyPruned DEF Snapshot
<1>3. CASE ClearAll \/ Close
  <2>1. Erase BY <1>3 DEF ClearAll, Close
  <2>2. QED BY <2>1, EraseSound DEF Erase, EvidenceInv
<1>4. ASSUME NEW s \in Sessions, DeleteEvidence(s) PROVE EvidenceInv'
  <2>1. PICK p \in Pruned(buffer) : buffer' \in Deny(Removal(p, {s}), {s}, Forever)
    BY <1>4 DEF DeleteEvidence
  <2>2. Sound(p, deleted) BY PrunedSound DEF EvidenceInv
  <2>3. deleted' = deleted \cup {s} BY <1>4 DEF DeleteEvidence
  <2>4. Sound(buffer', deleted') BY <2>1, <2>2, <2>3, DeleteSound DEF EvidenceInv
  <2>5. QED BY <2>3, <2>4 DEF EvidenceInv
<1>5. ASSUME NEW j \in Flushes, Flush(j) PROVE EvidenceInv'
  <2>1. PICK p \in Pruned(buffer) : buffer' \in Pruned(p) BY <1>5 DEF Flush
  <2>2. Sound(p, deleted) BY PrunedSound DEF EvidenceInv
  <2>3. Sound(buffer', deleted) BY <2>1, <2>2, PrunedSound DEF EvidenceInv
  <2>4. QED BY <1>5, <2>3 DEF Flush, EvidenceInv
<1>6. ASSUME NEW j \in Flushes, StartExport(j) \/ Publish(j) \/ Timeout(j) \/ Settle(j)
      PROVE  EvidenceInv'
  BY <1>6, OnlyPruned DEF StartExport, Publish, Timeout, Settle
<1>7. CASE UNCHANGED metricVars BY <1>7 DEF metricVars, EvidenceInv
<1>8. QED BY <1>1, <1>2, <1>3, <1>4, <1>5, <1>6, <1>7 DEF MetricNext

LEMMA EvidenceGone == EvidenceInv => GoneForGood
<1> SUFFICES ASSUME EvidenceInv PROVE GoneForGood OBVIOUS
<1>1. buffer \in Buffers /\ Kept(buffer) BY DEF EvidenceInv, Sound
<1>2. ASSUME NEW e \in buffer.events
      PROVE  SessionOf[e] \notin deleted /\ OccurredAt[e] + RetentionMs > buffer.now
  <2>1. SessionOf[e] \in Sessions /\ OccurredAt[e] \in Nat /\ RetentionMs \in Nat
    BY <1>1, MetricAssumption DEF Buffers
  <2>2. buffer.sessions[SessionOf[e]] # Null /\ buffer.sessions[SessionOf[e]] <= OccurredAt[e]
    BY <1>1 DEF Kept
  <2>3. buffer.sessions[SessionOf[e]] + RetentionMs > buffer.now BY <1>1, <2>1, <2>2 DEF Kept
  <2>4. buffer.sessions[SessionOf[e]] \in Nat /\ buffer.now \in Nat BY <1>1, <2>1, <2>2 DEF Buffers
  <2>5. SessionOf[e] \notin deleted BY <2>2 DEF EvidenceInv, Sound, Gone
  <2>6. QED BY <2>1, <2>2, <2>3, <2>4, <2>5
<1>3. QED BY <1>2 DEF GoneForGood, DeletedForGood, RetentionKept

\* Whatever is recorded, deleted, exported, cleared and read from the clock,
\* for any limits, the buffer never holds evidence of a deleted session or
\* older than the retention.
THEOREM EvidenceStaysGone == MetricSpec => []GoneForGood
<1>1. QED BY EvidenceInit, EvidenceNext, EvidenceGone, PTL DEF MetricSpec

-----------------------------------------------------------------------------
(* Exports are in order                                                    *)

Outcomes == {"none", "invalidated", "timeout", "exported", "failed"}
Job == [stage : {"new", "queued", "running", "over"}, events : SUBSET Events,
        published : BOOLEAN, stale : BOOLEAN, aborted : BOOLEAN, result : Outcomes]

\* The export that is under way has the slot, and its evidence is all there
\* unless it has been told.
InOrder(js, slot, evidence) ==
  /\ js \in [Flushes -> Job]
  /\ \A j \in Flushes : js[j].stage \in {"queued", "running"} =>
       slot = j /\ (js[j].stale \/ js[j].events \subseteq evidence)

\* What a removal may do to the exports.
Told(js) ==
  \A j \in Flushes :
    /\ js[j].stage = jobs[j].stage /\ js[j].events = jobs[j].events
    /\ js[j].published = jobs[j].published
    /\ js[j].result = "exported" => jobs[j].result = "exported"

ExportInv == active \in Flushes \cup {Null} /\ InOrder(jobs, active, buffer.events)

LEMMA MoreEvidence ==
  ASSUME NEW js, NEW slot, NEW e, NEW f, InOrder(js, slot, e), e \subseteq f
  PROVE  InOrder(js, slot, f)
BY DEF InOrder

LEMMA InvalidatedInOrder ==
  ASSUME ExportInv, NEW evidence
  PROVE  InOrder(Invalidated, active, evidence) /\ Told(Invalidated)
<1>1. jobs \in [Flushes -> Job] BY DEF ExportInv, InOrder
<1>2. ASSUME NEW j \in Flushes, j = active
      PROVE  /\ Invalidated[j] \in Job /\ Invalidated[j].stale
             /\ Invalidated[j].stage = jobs[j].stage /\ Invalidated[j].events = jobs[j].events
             /\ Invalidated[j].published = jobs[j].published
             /\ Invalidated[j].result = "exported" => jobs[j].result = "exported"
  <2> DEFINE result == IF jobs[j].result = "none" THEN "invalidated" ELSE jobs[j].result
  <2>1. Invalidated[j] = [jobs[j] EXCEPT !.stale = TRUE, !.aborted = TRUE, !.result = result]
    BY <1>2 DEF Invalidated
  <2>2. jobs[j] \in Job BY <1>1
  <2>3. result \in Outcomes /\ (result = "exported" => jobs[j].result = "exported")
    BY <2>2 DEF Job, Outcomes
  <2> HIDE DEF result
  <2>4. QED BY <2>1, <2>2, <2>3 DEF Job
<1>3. \A j \in Flushes : j # active => Invalidated[j] = jobs[j] BY DEF Invalidated
<1>4. Invalidated \in [Flushes -> Job]
  <2>1. \A j \in Flushes : Invalidated[j] \in Job BY <1>1, <1>2, <1>3
  <2>2. QED BY <2>1 DEF Invalidated
<1>5. Told(Invalidated) BY <1>2, <1>3 DEF Told
<1>6. QED BY <1>2, <1>3, <1>4, <1>5 DEF ExportInv, InOrder

LEMMA AfterInOrder ==
  ASSUME ExportInv, NEW p
  PROVE  InOrder(JobsAfter(p), active, p.events) /\ Told(JobsAfter(p))
<1>1. CASE buffer.events \subseteq p.events
  <2>1. JobsAfter(p) = jobs BY <1>1 DEF JobsAfter
  <2>2. InOrder(jobs, active, p.events) BY <1>1, MoreEvidence DEF ExportInv
  <2>3. QED BY <2>1, <2>2 DEF Told
<1>2. CASE ~(buffer.events \subseteq p.events)
  <2>1. JobsAfter(p) = Invalidated BY <1>2 DEF JobsAfter
  <2>2. QED BY <2>1, InvalidatedInOrder
<1>3. QED BY <1>1, <1>2

\* isCurrent of the export j: told, and perhaps aborted.
LEMMA CheckedInOrder ==
  ASSUME ExportInv, NEW j \in Flushes, NEW js \in Checked(j)
  PROVE  InOrder(js, active, buffer'.events) /\ Told(js)
<1>1. CASE buffer' = buffer
  <2>1. jobs \in [Flushes -> Job] /\ jobs[j] \in Job BY DEF ExportInv, InOrder
  <2>2. js = jobs \/ js = [jobs EXCEPT ![j].aborted = TRUE] BY <1>1 DEF Checked
  <2>3. CASE js = jobs BY <1>1, <2>3 DEF ExportInv, Told
  <2>4. CASE js = [jobs EXCEPT ![j].aborted = TRUE]
    <3>1. js = [jobs EXCEPT ![j] = [jobs[j] EXCEPT !.aborted = TRUE]] BY <2>4
    <3> DEFINE r == [jobs[j] EXCEPT !.aborted = TRUE]
    <3>2. /\ r \in Job /\ r.stage = jobs[j].stage /\ r.events = jobs[j].events
          /\ r.published = jobs[j].published /\ r.result = jobs[j].result
          /\ r.stale = jobs[j].stale
      BY <2>1 DEF Job
    <3> HIDE DEF r
    <3>3. /\ js \in [Flushes -> Job] /\ js[j] = r
          /\ \A i \in Flushes : i # j => js[i] = jobs[i]
      BY <2>1, <3>1, <3>2 DEF r
    <3>4. QED BY <1>1, <3>2, <3>3 DEF ExportInv, InOrder, Told
  <2>5. QED BY <2>2, <2>3, <2>4
<1>2. CASE buffer' # buffer
  <2>1. js = JobsAfter(buffer') BY <1>2 DEF Checked
  <2>2. QED BY <2>1, AfterInOrder
<1>3. QED BY <1>1, <1>2

\* An export ends, and only one that is current ends as exported.
OnlyCurrent ==
  \A j \in Flushes :
    \/ jobs'[j].result = "exported" /\ jobs[j].result /= "exported"
    \/ jobs'[j].published /\ ~jobs[j].published
    => jobs[j].events \subseteq buffer'.events

LEMMA EndedInOrder ==
  ASSUME NEW j \in Flushes, NEW js, NEW outcome \in Outcomes,
         active \in Flushes \cup {Null},
         InOrder(js, active, buffer'.events), Told(js), jobs[j].stage \in {"queued", "running"},
         outcome = "exported" => Current(j, js),
         Ended(j, js, outcome)
  PROVE  ExportInv' /\ OnlyCurrent
<1> DEFINE result == IF js[j].result = "none" THEN outcome ELSE js[j].result
           r == [js[j] EXCEPT !.stage = "over", !.result = result]
<1>1. js \in [Flushes -> Job] /\ js[j] \in Job BY DEF InOrder
<1>2. jobs' = [js EXCEPT ![j] = r] BY DEF Ended
<1>3. result \in Outcomes /\ (result = "exported" => js[j].result = "exported" \/ outcome = "exported")
  BY <1>1 DEF Job, Outcomes
<1> HIDE DEF result
<1>4. /\ r \in Job /\ r.stage = "over" /\ r.result = result
      /\ r.published = js[j].published
  BY <1>1, <1>3 DEF Job
<1> HIDE DEF r
<1>5. /\ jobs' \in [Flushes -> Job] /\ jobs'[j] = r
      /\ \A i \in Flushes : i # j => jobs'[i] = js[i]
  BY <1>1, <1>2, <1>4
<1>6. active = j /\ active' = Null
  BY DEF InOrder, Told, Ended
<1>7. ExportInv' BY <1>4, <1>5, <1>6 DEF ExportInv, InOrder
<1>8. OnlyCurrent
  <2>1. ASSUME NEW i \in Flushes, i # j
        PROVE  /\ jobs'[i].result = "exported" => jobs[i].result = "exported"
               /\ jobs'[i].published = jobs[i].published
    BY <1>5, <2>1 DEF Told
  <2>2. jobs'[j].published = jobs[j].published BY <1>4, <1>5 DEF Told
  <2>3. ASSUME jobs'[j].result = "exported", jobs[j].result # "exported"
        PROVE  jobs[j].events \subseteq buffer'.events
    <3>1. outcome = "exported" BY <1>3, <1>4, <1>5, <2>3 DEF Told
    <3>2. ~js[j].stale BY <3>1 DEF Current
    <3>3. QED BY <3>2 DEF InOrder, Told
  <2>4. QED BY <2>1, <2>2, <2>3 DEF OnlyCurrent
<1>9. QED BY <1>7, <1>8

LEMMA ToldInOrder ==
  ASSUME ExportInv, Told(jobs'), InOrder(jobs', active, buffer'.events), UNCHANGED active
  PROVE  ExportInv' /\ OnlyCurrent
BY DEF ExportInv, Told, OnlyCurrent

LEMMA ExportInit == MetricInit => ExportInv
BY DEF MetricInit, ExportInv, InOrder, Job, NoJob, Outcomes

LEMMA FlushInOrder ==
  ASSUME ExportInv, EvidenceInv', NEW j \in Flushes, Flush(j)
  PROVE  ExportInv' /\ OnlyCurrent
<1> DEFINE r == [NoJob EXCEPT !.stage = "queued", !.events = buffer'.events]
<1>1. jobs' = [jobs EXCEPT ![j] = r] /\ active' = j /\ active = Null BY DEF Flush
<1>2. buffer'.events \subseteq Events BY DEF EvidenceInv, Sound, Buffers
<1>3. /\ r \in Job /\ r.stage = "queued" /\ r.events = buffer'.events /\ ~r.stale
      /\ ~r.published /\ r.result = "none"
  BY <1>2 DEF Job, NoJob, Outcomes
<1> HIDE DEF r
<1>4. /\ jobs' \in [Flushes -> Job] /\ jobs'[j] = r
      /\ \A i \in Flushes : i # j => jobs'[i] = jobs[i]
  BY <1>1, <1>3 DEF ExportInv, InOrder
<1>5. \A i \in Flushes : jobs[i].stage \notin {"queued", "running"}
  BY <1>1, MetricAssumption DEF ExportInv, InOrder
<1>6. ExportInv' BY <1>1, <1>3, <1>4, <1>5 DEF ExportInv, InOrder
<1>7. OnlyCurrent BY <1>3, <1>4 DEF OnlyCurrent
<1>8. QED BY <1>6, <1>7

LEMMA StartInOrder ==
  ASSUME ExportInv, NEW j \in Flushes, StartExport(j)
  PROVE  ExportInv' /\ OnlyCurrent
<1>1. PICK js \in Checked(j) :
        IF Current(j, js)
        THEN jobs' = [js EXCEPT ![j].stage = "running"] /\ UNCHANGED active
        ELSE Ended(j, js, "invalidated")
  BY DEF StartExport
<1>2. InOrder(js, active, buffer'.events) /\ Told(js) BY CheckedInOrder
<1>3. jobs[j].stage = "queued" BY DEF StartExport
<1>4. CASE Current(j, js)
  <2> DEFINE r == [js[j] EXCEPT !.stage = "running"]
  <2>1. js \in [Flushes -> Job] /\ js[j] \in Job BY <1>2 DEF InOrder
  <2>2. jobs' = [js EXCEPT ![j] = r] /\ active' = active BY <1>1, <1>4
  <2>3. /\ r \in Job /\ r.stage = "running" /\ r.events = js[j].events
        /\ r.published = js[j].published /\ r.result = js[j].result /\ r.stale = js[j].stale
    BY <2>1 DEF Job
  <2> HIDE DEF r
  <2>4. /\ jobs' \in [Flushes -> Job] /\ jobs'[j] = r
        /\ \A i \in Flushes : i # j => jobs'[i] = js[i]
    BY <2>1, <2>2, <2>3
  <2>5. js[j].stage = "queued" BY <1>2, <1>3 DEF Told
  <2>6. ExportInv' BY <1>2, <2>2, <2>3, <2>4, <2>5 DEF ExportInv, InOrder
  <2>7. OnlyCurrent BY <1>2, <2>3, <2>4 DEF OnlyCurrent, Told
  <2>8. QED BY <2>6, <2>7
<1>5. CASE ~Current(j, js)
  <2>1. Ended(j, js, "invalidated") BY <1>1, <1>5
  <2>2. "invalidated" \in Outcomes BY DEF Outcomes
  <2>3. QED BY <1>2, <1>3, <2>1, <2>2, EndedInOrder DEF ExportInv
<1>6. QED BY <1>4, <1>5

LEMMA PublishInOrder ==
  ASSUME ExportInv, NEW j \in Flushes, Publish(j)
  PROVE  ExportInv' /\ OnlyCurrent
<1>1. PICK js \in Checked(j) : jobs' = [js EXCEPT ![j].published = Current(j, js)]
  BY DEF Publish
<1>2. InOrder(js, active, buffer'.events) /\ Told(js) BY CheckedInOrder
<1>3. jobs[j].stage = "running" /\ active' = active BY DEF Publish
<1> DEFINE now == Current(j, js)
           r == [js[j] EXCEPT !.published = now]
<1>4. js \in [Flushes -> Job] /\ js[j] \in Job BY <1>2 DEF InOrder
<1>5. now \in BOOLEAN /\ (now => ~js[j].stale) BY DEF Current
<1>6. jobs' = [js EXCEPT ![j] = r] BY <1>1
<1> HIDE DEF now
<1>7. /\ r \in Job /\ r.stage = js[j].stage /\ r.events = js[j].events
      /\ r.published = now /\ r.result = js[j].result /\ r.stale = js[j].stale
  BY <1>4, <1>5 DEF Job
<1> HIDE DEF r
<1>8. /\ jobs' \in [Flushes -> Job] /\ jobs'[j] = r
      /\ \A i \in Flushes : i # j => jobs'[i] = js[i]
  BY <1>4, <1>6, <1>7
<1>9. js[j].stage = "running" /\ js[j].events = jobs[j].events BY <1>2, <1>3 DEF Told
<1>10. ExportInv' BY <1>2, <1>3, <1>7, <1>8 DEF ExportInv, InOrder
<1>11. OnlyCurrent
  <2>1. jobs'[j].published => jobs[j].events \subseteq buffer'.events
    BY <1>2, <1>5, <1>7, <1>8, <1>9 DEF InOrder
  <2>2. \A i \in Flushes : jobs'[i].result = "exported" => jobs[i].result = "exported"
    BY <1>2, <1>7, <1>8 DEF Told
  <2>3. \A i \in Flushes : i # j => jobs'[i].published = jobs[i].published
    BY <1>2, <1>8 DEF Told
  <2>4. QED BY <2>1, <2>2, <2>3 DEF OnlyCurrent
<1>12. QED BY <1>10, <1>11

LEMMA TimeoutInOrder ==
  ASSUME ExportInv, NEW j \in Flushes, Timeout(j)
  PROVE  ExportInv' /\ OnlyCurrent
<1> DEFINE r == [jobs[j] EXCEPT !.result = "timeout", !.aborted = TRUE]
<1>1. jobs \in [Flushes -> Job] /\ jobs[j] \in Job BY DEF ExportInv, InOrder
<1>2. jobs' = [jobs EXCEPT ![j] = r] /\ active' = active /\ buffer' = buffer
  BY DEF Timeout, SlotAfter
<1>3. /\ r \in Job /\ r.stage = jobs[j].stage /\ r.events = jobs[j].events
      /\ r.published = jobs[j].published /\ r.result = "timeout" /\ r.stale = jobs[j].stale
  BY <1>1 DEF Job, Outcomes
<1> HIDE DEF r
<1>4. /\ jobs' \in [Flushes -> Job] /\ jobs'[j] = r
      /\ \A i \in Flushes : i # j => jobs'[i] = jobs[i]
  BY <1>1, <1>2, <1>3
<1>5. InOrder(jobs', active, buffer'.events) BY <1>2, <1>3, <1>4 DEF ExportInv, InOrder
<1>6. Told(jobs') BY <1>3, <1>4 DEF Told
<1>7. QED BY <1>2, <1>5, <1>6, ToldInOrder

LEMMA SettleInOrder ==
  ASSUME ExportInv, NEW j \in Flushes, Settle(j)
  PROVE  ExportInv' /\ OnlyCurrent
<1>1. jobs[j].stage = "running" BY DEF Settle
<1>2. {"exported", "invalidated", "failed"} \subseteq Outcomes BY DEF Outcomes
<1>3. CASE UNCHANGED buffer /\ Ended(j, jobs, "failed")
  <2>1. InOrder(jobs, active, buffer'.events) /\ Told(jobs) BY <1>3 DEF ExportInv, Told
  <2>2. QED BY <1>1, <1>2, <1>3, <2>1, EndedInOrder DEF ExportInv
<1>4. CASE \E js \in Checked(j) :
             Ended(j, js, IF Current(j, js) THEN "exported" ELSE "invalidated")
  <2>1. PICK js \in Checked(j) :
          Ended(j, js, IF Current(j, js) THEN "exported" ELSE "invalidated")
    BY <1>4
  <2>2. InOrder(js, active, buffer'.events) /\ Told(js) BY CheckedInOrder
  <2>3. CASE Current(j, js)
    <3>1. Ended(j, js, "exported") BY <2>1, <2>3
    <3>2. QED BY <1>1, <1>2, <2>2, <2>3, <3>1, EndedInOrder DEF ExportInv
  <2>4. CASE ~Current(j, js)
    <3>1. Ended(j, js, "invalidated") BY <2>1, <2>4
    <3>2. QED BY <1>1, <1>2, <2>2, <3>1, EndedInOrder DEF ExportInv
  <2>5. QED BY <2>3, <2>4
<1>5. QED BY <1>3, <1>4 DEF Settle

LEMMA ExportNext ==
  EvidenceInv /\ EvidenceInv' /\ ExportInv /\ [MetricNext]_metricVars =>
    ExportInv' /\ (OnlyCurrent \/ UNCHANGED metricVars)
<1> SUFFICES ASSUME EvidenceInv, EvidenceInv', ExportInv, [MetricNext]_metricVars
             PROVE  ExportInv' /\ (OnlyCurrent \/ UNCHANGED metricVars)
  OBVIOUS
<1>1. ASSUME NEW e \in Events, Record(e) PROVE ExportInv' /\ OnlyCurrent
  <2>1. PICK p \in Pruned(buffer) :
          /\ buffer' \in {p} \cup (IF Accepts(p, e) THEN {Retain(p, e)} ELSE {})
          /\ jobs' = JobsAfter(p)
    BY <1>1 DEF Record
  <2>2. Sound(p, deleted) BY PrunedSound DEF EvidenceInv
  <2>3. p.events \subseteq buffer'.events
    <3>1. buffer' = p \/ (Accepts(p, e) /\ buffer' = Retain(p, e)) BY <2>1
    <3>2. QED BY <2>2, <3>1, RetainSound DEF EvidenceInv
  <2>4. InOrder(jobs', active, p.events) /\ Told(jobs') BY <2>1, AfterInOrder
  <2>5. InOrder(jobs', active, buffer'.events) BY <2>3, <2>4, MoreEvidence
  <2>6. QED BY <1>1, <2>4, <2>5, ToldInOrder DEF Record
<1>2. CASE Snapshot
  <2>1. InOrder(jobs', active, buffer'.events) /\ Told(jobs')
    BY <1>2, AfterInOrder DEF Snapshot
  <2>2. QED BY <1>2, <2>1, ToldInOrder DEF Snapshot
<1>3. ASSUME jobs' = Invalidated, UNCHANGED active PROVE ExportInv' /\ OnlyCurrent
  <2>1. InOrder(jobs', active, buffer'.events) /\ Told(jobs') BY <1>3, InvalidatedInOrder
  <2>2. QED BY <1>3, <2>1, ToldInOrder
<1>4. CASE ClearAll \/ Close BY <1>3, <1>4 DEF ClearAll, Close, Erase
<1>5. ASSUME NEW s \in Sessions, DeleteEvidence(s) PROVE ExportInv' /\ OnlyCurrent
  BY <1>3, <1>5 DEF DeleteEvidence
<1>6. ASSUME NEW j \in Flushes,
             Flush(j) \/ StartExport(j) \/ Publish(j) \/ Timeout(j) \/ Settle(j)
      PROVE  ExportInv' /\ OnlyCurrent
  BY <1>6, FlushInOrder, StartInOrder, PublishInOrder, TimeoutInOrder, SettleInOrder
<1>7. CASE UNCHANGED metricVars BY <1>7 DEF metricVars, ExportInv, InOrder
<1>8. QED BY <1>1, <1>2, <1>4, <1>5, <1>6, <1>7 DEF MetricNext

LEMMA ExportsOne == ExportInv => OneExport
BY DEF ExportInv, InOrder, OneExport

\* There is one physical export at a time, and none succeeds or publishes
\* after any of its evidence was removed, however many flushes, deadlines,
\* deletions and prunes overlap it.
THEOREM ExportsStayInOrder == MetricSpec => ExportsInOrder
<1>1. MetricInit => EvidenceInv /\ ExportInv BY EvidenceInit, ExportInit
<1>2. EvidenceInv /\ ExportInv /\ [MetricNext]_metricVars => (EvidenceInv /\ ExportInv)'
  BY EvidenceNext, ExportNext
<1>3. EvidenceInv /\ ExportInv /\ [MetricNext]_metricVars => [OnlyCurrent]_metricVars
  BY EvidenceNext, ExportNext
<1>4. OnlyCurrent =>
        \A j \in Flushes :
          \/ jobs'[j].result = "exported" /\ jobs[j].result /= "exported"
          \/ jobs'[j].published /\ ~jobs[j].published
          => jobs[j].events \subseteq buffer'.events
  BY DEF OnlyCurrent
<1>5. QED BY <1>1, <1>2, <1>3, <1>4, ExportsOne, PTL DEF MetricSpec, ExportsInOrder, ExportIsCurrent
=============================================================================
