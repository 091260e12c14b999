------------------------------- MODULE Health -------------------------------
(***************************************************************************)
(* HealthCheck (Lifecycle.js): probes that overlap and share one cached    *)
(* result.  A check looks at the storage first, then awaits the custom     *)
(* checks, and stamps the cache when it has finished.                      *)
(***************************************************************************)
EXTENDS Naturals

CONSTANTS
  Probers,      \* requests of readiness, health and status
  CacheTTL,     \* cacheTTL, 0 for no cache
  MaxDuration,  \* the time within which custom checks settle
  MaxNow        \* bound of the clock

ASSUME HealthAssumption == CacheTTL \in Nat /\ MaxDuration \in Nat

VARIABLES
  now,
  up,       \* whether the storage is connected
  startup,  \* the last run of the startup checks: "none", "passed" or "failed"
  cached,   \* _cachedResult and _cacheTimestamp
  probe     \* each request: stage, what its check saw and when, its answer
healthVars == <<now, up, startup, cached, probe>>

NoResult == [healthy |-> FALSE, probed |-> 0, stamp |-> 0, there |-> FALSE]
NoProbe == [stage |-> "idle", healthy |-> FALSE, probed |-> 0, answered |-> 0]

\* A run of the startup checks ends.  A rerun leaves the previous outcome in
\* force until then.
RunStartup == startup' \in {"passed", "failed"}

Age(c) == now - c.stamp
FreshAfterTtl == cached.there /\ Age(cached) <= CacheTTL  \* mutant
Fresh == CacheTTL > 0 /\ cached.there /\ Age(cached) < CacheTTL

Answers(p, healthy, probed) ==
  probe' = [probe EXCEPT ![p] = [stage |-> "answered", healthy |-> healthy,
                                 probed |-> probed, answered |-> now]]

\* readiness() before the startup checks have passed.
NotReady(p) ==
  /\ probe[p].stage \in {"idle", "answered"}
  /\ startup # "passed"
  /\ Answers(p, FALSE, now)
  /\ UNCHANGED <<now, up, startup, cached>>

\* check(), of readiness() once the startup checks have passed, or called by
\* itself: the cached result, or a new look at the storage.
FromCache(p) ==
  /\ probe[p].stage \in {"idle", "answered"}
  /\ Fresh
  /\ Answers(p, cached.healthy, cached.probed)
  /\ UNCHANGED <<now, up, startup, cached>>

Look(p) ==
  /\ probe[p].stage \in {"idle", "answered"}
  /\ ~Fresh
  /\ probe' = [probe EXCEPT ![p] = [stage |-> "checking", healthy |-> up,
                                    probed |-> now, answered |-> 0]]
  /\ UNCHANGED <<now, up, startup, cached>>

\* The custom checks have settled; one of them may have failed.
Finish(p) ==
  /\ probe[p].stage = "checking"
  /\ \E healthy \in {probe[p].healthy, FALSE} :
       /\ cached' = IF CacheTTL = 0 THEN cached
                    ELSE [healthy |-> healthy, probed |-> probe[p].probed,
                          stamp |-> now, there |-> TRUE]
       /\ Answers(p, healthy, probe[p].probed)
  /\ UNCHANGED <<now, up, startup>>

\* External: the storage's connection, and time; checks settle in time.
Connection == up' = ~up /\ UNCHANGED <<now, startup, cached, probe>>
HealthTick ==
  /\ now < MaxNow
  /\ \A p \in Probers : probe[p].stage = "checking" => now < probe[p].probed + MaxDuration
  /\ now' = now + 1
  /\ UNCHANGED <<up, startup, cached, probe>>

HealthInit ==
  /\ now = 0 /\ up = TRUE /\ startup = "none" /\ cached = NoResult
  /\ probe = [p \in Probers |-> NoProbe]

HealthNext ==
  \/ RunStartup /\ UNCHANGED <<now, up, cached, probe>>
  \/ Connection \/ HealthTick
  \/ \E p \in Probers : NotReady(p) \/ FromCache(p) \/ Look(p) \/ Finish(p)

HealthSpec == HealthInit /\ [][HealthNext]_healthVars

(***************************************************************************)
(* A healthy answer rests on a look at the storage that is no older than   *)
(* the cache's lifetime and one check: however requests overlap, and       *)
(* although a slow check stamps its old look as new.                       *)
(***************************************************************************)
HealthyIsRecent ==
  \A p \in Probers :
    probe[p].stage = "answered" /\ probe[p].healthy =>
      probe[p].answered < probe[p].probed + MaxDuration + (IF CacheTTL = 0 THEN 1 ELSE CacheTTL)
=============================================================================
