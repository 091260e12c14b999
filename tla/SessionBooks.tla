---------------------------- MODULE SessionBooks ----------------------------
(***************************************************************************)
(* SessionManager.js over the in-memory storage, the one that keeps its    *)
(* metadata: sessions in the storage, and counters in memory beside them.  *)
(* The calls of one session do not overlap, those of different sessions    *)
(* do; sessions expire and the counters are reset at any time.             *)
(***************************************************************************)
EXTENDS Naturals, FiniteSets

CONSTANTS
  Callers,   \* session identifiers
  MaxStarts  \* bound on the sessions counted

ASSUME BooksAssumption == IsFiniteSet(Callers) /\ MaxStarts \in Nat

VARIABLES
  kept,    \* of each identifier: whether the storage has its session
  doing,   \* the call that waits for the storage, by session
  tally,   \* analytics.sessions: total, active, completed, abandoned
  whole    \* history: the last reset left no session and no call behind
booksVars == <<kept, doing, tally, whole>>

Zero == [total |-> 0, active |-> 0, completed |-> 0, abandoned |-> 0]

\* startSession, and getOrCreateSession of a session that is not there: the
\* session is stored, and counted when the storage has answered.
Begin(s) ==
  /\ doing[s] = "none" /\ tally.total < MaxStarts
  /\ kept' = [kept EXCEPT ![s] = TRUE]
  /\ doing' = [doing EXCEPT ![s] = "starting"]
  /\ UNCHANGED <<tally, whole>>
Begun(s) ==
  /\ doing[s] = "starting"
  /\ tally' = [tally EXCEPT !.total = @ + 1, !.active = @ + 1]
  /\ doing' = [doing EXCEPT ![s] = "none"]
  /\ UNCHANGED <<kept, whole>>

\* recordInteraction, recordError and updateMetadata: read, change, write.
Interact(s) ==
  /\ doing[s] = "none" /\ kept[s]
  /\ doing' = [doing EXCEPT ![s] = "recording"]
  /\ UNCHANGED <<kept, tally, whole>>
Interacted(s) ==
  /\ doing[s] = "recording"
  /\ doing' = [doing EXCEPT ![s] = "none"]
  /\ UNCHANGED <<kept, tally, whole>>

BookedAnyway(found, completed) ==  \* mutant
  [tally EXCEPT !.active = IF @ = 0 THEN 0 ELSE @ - 1,
                !.completed = IF completed THEN @ + 1 ELSE @,
                !.abandoned = IF completed THEN @ ELSE @ + 1]

\* endSession counts a session that it has found.
Booked(found, completed) ==
  IF ~found THEN tally
  ELSE [tally EXCEPT !.active = IF @ = 0 THEN 0 ELSE @ - 1,
                     !.completed = IF completed THEN @ + 1 ELSE @,
                     !.abandoned = IF completed THEN @ ELSE @ + 1]

End(s) ==
  /\ doing[s] = "none"
  /\ doing' = [doing EXCEPT ![s] = IF kept[s] THEN "ending" ELSE "missing"]
  /\ UNCHANGED <<kept, tally, whole>>
EndCounted(s, completed) ==
  /\ doing[s] \in {"ending", "missing"}
  /\ tally' = Booked(doing[s] = "ending", completed)
  /\ kept' = [kept EXCEPT ![s] = FALSE]
  /\ doing' = [doing EXCEPT ![s] = "none"]
  /\ UNCHANGED whole

\* resetAnalytics.
Reset ==
  /\ tally' = Zero
  /\ whole' = \A s \in Callers : ~kept[s] /\ doing[s] = "none"
  /\ UNCHANGED <<kept, doing>>

\* External: the session's time to live ends.  A write of a session that was
\* read before does not extend it.
Lapse(s) ==
  /\ kept[s]
  /\ kept' = [kept EXCEPT ![s] = FALSE]
  /\ UNCHANGED <<doing, tally, whole>>

BooksInit ==
  /\ kept = [s \in Callers |-> FALSE] /\ doing = [s \in Callers |-> "none"]
  /\ tally = Zero /\ whole = TRUE

BooksNext ==
  \/ Reset
  \/ \E s \in Callers :
       \/ Begin(s) \/ Begun(s) \/ Interact(s) \/ Interacted(s) \/ End(s) \/ Lapse(s)
       \/ \E completed \in BOOLEAN : EndCounted(s, completed)

BooksSpec == BooksInit /\ [][BooksNext]_booksVars

-----------------------------------------------------------------------------
\* Sessions that are counted as active for a reason: the storage has them,
\* or a call that has found them is about to count their end.
Open == {s \in Callers : doing[s] = "ending" \/ (kept[s] /\ doing[s] # "starting")}

(***************************************************************************)
(* The counters account for every session: each one counted is active,     *)
(* completed or abandoned, and the active ones include all that are open.  *)
(* Sessions that expired stay active; only a reset beside open sessions    *)
(* breaks the books.                                                       *)
(***************************************************************************)
BooksBalance ==
  whole =>
    /\ tally.total = tally.active + tally.completed + tally.abandoned
    /\ tally.active >= Cardinality(Open)
=============================================================================
