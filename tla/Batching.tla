------------------------------ MODULE Batching ------------------------------
(***************************************************************************)
(* BatchProcessor (Performance.js): calls are queued and processed         *)
(* together, when the batch is full or when the timer of its first call    *)
(* fires; each call's promise settles with its place in the results.       *)
(***************************************************************************)
EXTENDS Naturals, Sequences

CONSTANTS
  Items,      \* the items added
  BatchSize   \* maxSize

ASSUME BatchAssumption == BatchSize \in Nat \ {0}

VARIABLES
  queue,    \* the items waiting
  timer,    \* whether this.timeout is set
  flights,  \* the batches the processor is working on
  settled   \* of an item: "none" before its call, "waiting", or the outcome
batchVars == <<queue, timer, flights, settled>>

\* _flush takes the queue's first items and disarms the timer; an empty
\* queue is left alone.
FlushBatchShort(q) ==  \* mutant: the item that fills the batch is left behind
  /\ queue' = SubSeq(q, BatchSize, Len(q))
  /\ timer' = FALSE
  /\ flights' = IF q = <<>> THEN flights
                ELSE flights \cup {SubSeq(q, 1, IF Len(q) < BatchSize THEN Len(q) ELSE BatchSize - 1)}
FlushBatch(q) ==
  /\ queue' = SubSeq(q, BatchSize + 1, Len(q))
  /\ timer' = FALSE
  /\ flights' = IF q = <<>> THEN flights
                ELSE flights \cup {SubSeq(q, 1, IF Len(q) < BatchSize THEN Len(q) ELSE BatchSize)}

Add(item) ==
  /\ settled[item] = "none"
  /\ settled' = [settled EXCEPT ![item] = "waiting"]
  /\ IF Len(queue) + 1 >= BatchSize THEN FlushBatch(Append(queue, item))
     ELSE /\ queue' = Append(queue, item) /\ timer' = TRUE
          /\ UNCHANGED flights

TimerFires ==
  /\ timer /\ FlushBatch(queue)
  /\ UNCHANGED settled

Members(batch) == {batch[i] : i \in DOMAIN batch}

\* The processor answers, with a result for each place, or fails.
Processed(batch) ==
  /\ flights' = flights \ {batch}
  /\ \E outcome \in {"resolved", "rejected"} :
       settled' = [item \in Items |-> IF item \in Members(batch) THEN outcome ELSE settled[item]]
  /\ UNCHANGED <<queue, timer>>

BatchInit ==
  /\ queue = <<>> /\ timer = FALSE /\ flights = {}
  /\ settled = [item \in Items |-> "none"]

BatchNext ==
  \/ \E item \in Items : Add(item)
  \/ TimerFires
  \/ \E batch \in flights : Processed(batch)

BatchSpec == BatchInit /\ [][BatchNext]_batchVars

\* No call is forgotten: one that waits is queued behind an armed timer or is
\* being processed, whatever the order of additions, full batches, timers
\* and slow processors.
NothingStranded ==
  \A item \in Items : settled[item] = "waiting" =>
    \/ item \in Members(queue) /\ timer
    \/ \E batch \in flights : item \in Members(batch)
=============================================================================
