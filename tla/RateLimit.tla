------------------------------ MODULE RateLimit -------------------------------
(***************************************************************************)
(* The three rate limiters, for one session: SlidingWindowRateLimit, the   *)
(* fixed window of createRateLimitMiddleware and the Redis sorted set of   *)
(* createDistributedRateLimitMiddleware.  All of them keep timestamps with *)
(* a count: the starts of sub-windows, the start of the one window, or the *)
(* times of the requests.  The model keeps the counts by the age of the    *)
(* timestamp, in ticks, so time is cyclic; what the cleanup timers remove  *)
(* has an age that no check looks at, and is not kept.                     *)
(***************************************************************************)
EXTENDS Naturals, FiniteSets

CONSTANTS
  Kinds,        \* limiters to choose from: "sliding", "fixed", "distributed"
  WindowMs,     \* length of the window
  SubWindowMs,  \* length of its sub-windows (windowMs / precision)
  MaxRequests

ASSUME WindowAssumption ==
  /\ Kinds \subseteq {"sliding", "fixed", "distributed"}
  /\ WindowMs \in Nat /\ SubWindowMs \in 1..WindowMs /\ WindowMs % SubWindowMs = 0
  /\ MaxRequests \in Nat \ {0}

VARIABLES
  kind,    \* which limiter it is
  counts,  \* count of the timestamp of each age
  offset,  \* the present tick within its sub-window
  hits     \* history: requests let through on a count, by age

limitVars == <<kind, counts, offset, hits>>

Ages == 0..WindowMs
Counted(f, w) == UNION {{a} \X (1..f[a]) : a \in w}
Total(f, w) == Cardinality(Counted(f, w))
Nothing == [a \in Ages |-> 0]
More(f, a) == [f EXCEPT ![a] = @ + 1]

\* Bound: once at the limit, a count decides alike whatever it is.
Sated(f) == [a \in Ages |-> IF f[a] > MaxRequests THEN MaxRequests ELSE f[a]]

LimitInit ==
  /\ kind \in Kinds
  /\ counts = Nothing /\ hits = Nothing
  /\ offset \in IF kind = "sliding" THEN 0..(SubWindowMs - 1) ELSE {0}
-----------------------------------------------------------------------------
(* What a check finds, and stores.  Operators marked "Wrong:" are          *)
(* deliberate errors: in the place of the definition that follows them     *)
(* they break a property.                                                  *)

\* Wrong: the bucket at the very start of the window is left out.
InWindowStrict(a) == a < WindowMs

\* _getCount: timestamp >= windowStart.
InWindow(a) == a <= WindowMs

Sliding ==
  LET allowed == Total(counts, {a \in Ages : InWindow(a)}) < MaxRequests IN
  [allowed |-> allowed, counts |-> IF allowed THEN More(counts, offset) ELSE counts]

\* A window that is over (now - windowStart > windowMs) is replaced.
Fixed ==
  LET open == {a \in Ages : counts[a] > 0}
      start == IF open = {} THEN 0 ELSE CHOOSE a \in open : TRUE
  IN [allowed |-> counts[start] + 1 <= MaxRequests, counts |-> More(counts, start)]

\* ZREMRANGEBYSCORE, ZADD and ZCARD: refused requests are counted too.
Distributed ==
  LET kept == More([a \in Ages |-> IF a < WindowMs THEN counts[a] ELSE 0], 0) IN
  [allowed |-> Total(kept, Ages) <= MaxRequests, counts |-> kept]

Check ==
  CASE kind = "sliding" -> Sliding [] kind = "fixed" -> Fixed
    [] kind = "distributed" -> Distributed

Allow ==
  /\ Check.allowed
  /\ counts' = Sated(Check.counts) /\ hits' = More(hits, 0)
  /\ UNCHANGED <<kind, offset>>

Deny ==
  /\ ~Check.allowed
  /\ counts' = Sated(Check.counts)
  /\ UNCHANGED <<kind, offset, hits>>

\* Redis fails, with or without effect: the request passes uncounted.
FailOpen ==
  /\ kind = "distributed"
  /\ counts' \in {counts, Sated(Check.counts)}
  /\ UNCHANGED <<kind, offset, hits>>

ResetLimit ==
  /\ counts' = Nothing /\ hits' = Nothing
  /\ UNCHANGED <<kind, offset>>

Older(f) == [a \in Ages |-> IF a = 0 THEN 0 ELSE f[a - 1]]
LimitTick ==
  /\ counts' = Older(counts) /\ hits' = Older(hits)
  /\ offset' = IF kind = "sliding" THEN (offset + 1) % SubWindowMs ELSE 0
  /\ UNCHANGED kind
-----------------------------------------------------------------------------
(* Properties.                                                             *)

\* How far back a limiter remembers every request: a sub-window's hits
\* leave the window together, when its start does.
Memory ==
  CASE kind = "sliding" -> WindowMs - SubWindowMs + 1
    [] kind = "fixed" -> WindowMs
    [] kind = "distributed" -> WindowMs - 1

\* No stretch of that length has more than maxRequests requests let through
\* on a count (twice that for the fixed window, around its renewal).
Limited ==
  Total(hits, 0..Memory) <= IF kind = "fixed" THEN 2 * MaxRequests ELSE MaxRequests
=============================================================================
