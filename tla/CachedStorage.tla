---------------------------- MODULE CachedStorage ----------------------------
(***************************************************************************)
(* createCachedStorage over an LRUCache (Performance.js): reads of a       *)
(* session's state and data go through one bounded cache of all sessions,  *)
(* whose entries expire, and writes update or drop the entry once the      *)
(* storage has answered.  The calls of one session come one after another, *)
(* as the engine makes them; those of different sessions overlap.          *)
(***************************************************************************)
EXTENDS LRUCache

CONSTANTS
  CachedSessions,
  CachedStates,  \* states a session may be in
  CachedFields,        \* fields of its data
  MaxSize,       \* entries the cache may hold
  Ttl            \* life of an entry, in ticks of the clock

ASSUME CacheAssumption == MaxSize \in Nat \ {0} /\ Ttl \in Nat \ {0}

VARIABLES
  cache,   \* the Map: [key, value, left] from the oldest to the newest; an
           \* entry with no ticks left is past its expiry
  stored,  \* what the storage holds under each key; Missing for null
  call,    \* the call of each session that waits for the storage
  lost     \* sessions whose stored session expired or whose write failed:
           \* their calls are not followed any further
cacheVars == <<cache, stored, call, lost>>

Missing == {"missing"}  \* values are sets, so that any two can be compared
Idle == [op |-> "idle"]
CacheKeys == {"state", "data"} \X CachedSessions

-----------------------------------------------------------------------------
(* The cache.                                                              *)

Entry(key, value) == [key |-> key, value |-> value, left |-> Ttl]
PastExpiry(e) == e.left = 0
Hit(key) == \E i \in At(cache, key) : ~PastExpiry(cache[i])

CacheSet(key, value) == cache' = WithEntry(Room(cache, MaxSize), Entry(key, value))
CacheDelete(keys) == cache' = Without(cache, keys)

Prune ==
  /\ \E i \in DOMAIN cache : PastExpiry(cache[i])
  /\ cache' = Sifted(cache, {i \in DOMAIN cache : ~PastExpiry(cache[i])})
  /\ UNCHANGED <<stored, call, lost>>

Emptied ==
  /\ cache # <<>> /\ cache' = <<>>
  /\ UNCHANGED <<stored, call, lost>>

-----------------------------------------------------------------------------
(* The adapter.  A call is asked, takes effect at the storage, and returns.*)

\* getState and getData: a hit returns at once, an expired entry is deleted.
Get(s, kind) ==
  LET key == <<kind, s>> IN
  /\ call[s] = Idle
  /\ IF Hit(key) THEN cache' = MovedToEnd(cache, key) /\ UNCHANGED call
     ELSE /\ CacheDelete({key})
          /\ call' = [call EXCEPT ![s] = [op |-> "get", key |-> key, value |-> stored[key]]]
  /\ UNCHANGED <<stored, lost>>

Fill(s) ==
  /\ call[s].op = "get"
  /\ IF call[s].value # Missing THEN CacheSet(call[s].key, call[s].value) ELSE UNCHANGED cache
  /\ call' = [call EXCEPT ![s] = Idle]
  /\ UNCHANGED <<stored, lost>>

Ask(s, op, value) ==
  /\ call[s] = Idle
  /\ call' = [call EXCEPT ![s] = [op |-> op, value |-> value, took |-> FALSE]]
  /\ UNCHANGED <<cache, stored, lost>>

Merged(data, fields) == IF data = Missing THEN fields ELSE data \cup fields

\* The write takes effect.
Effect(s) ==
  LET op == call[s].op
      value == call[s].value
  IN  /\ op \in {"setState", "setData", "setSession", "deleteSession"} /\ ~call[s].took
      /\ call' = [call EXCEPT ![s].took = TRUE]
      /\ stored' = [stored EXCEPT
           ![<<"state", s>>] = CASE op = "setState" -> value
                                 [] op = "setSession" -> value[1]
                                 [] op = "deleteSession" -> Missing [] OTHER -> @,
           ![<<"data", s>>] = CASE op = "setData" -> Merged(@, value)
                                [] op = "setSession" -> value[2]
                                [] op = "deleteSession" -> Missing [] OTHER -> @]
      /\ UNCHANGED <<cache, lost>>

\* A written state is cached; merged data cannot be, and is dropped.
SetReturnsUnmerged(s) ==  \* mutant: setData caches what it was given
  CASE call[s].op = "setState" -> CacheSet(<<"state", s>>, call[s].value)
    [] call[s].op = "setData" -> CacheSet(<<"data", s>>, call[s].value)
    [] OTHER -> CacheDelete({<<"state", s>>, <<"data", s>>})
SetReturns(s) ==
  CASE call[s].op = "setState" -> CacheSet(<<"state", s>>, call[s].value)
    [] call[s].op = "setData" -> CacheDelete({<<"data", s>>})
    [] OTHER -> CacheDelete({<<"state", s>>, <<"data", s>>})

Returned(s) ==
  /\ call[s].op \notin {"idle", "get"} /\ call[s].took
  /\ SetReturns(s)
  /\ call' = [call EXCEPT ![s] = Idle]
  /\ UNCHANGED <<stored, lost>>

\* A write that fails, with or without its effect, leaves the cache as it was.
Failed(s) ==
  /\ call[s].op \notin {"idle", "get"}
  /\ call' = [call EXCEPT ![s] = Idle] /\ lost' = lost \cup {s}
  /\ UNCHANGED <<cache, stored>>

\* The storage lets the session expire; the cache is not told.
StorageExpires(s) ==
  /\ stored[<<"state", s>>] # Missing \/ stored[<<"data", s>>] # Missing
  /\ stored' = [stored EXCEPT ![<<"state", s>>] = Missing, ![<<"data", s>>] = Missing]
  /\ lost' = lost \cup {s}
  /\ UNCHANGED <<cache, call>>

CacheTick ==
  /\ \E i \in DOMAIN cache : ~PastExpiry(cache[i])
  /\ cache' = [i \in DOMAIN cache |-> [cache[i] EXCEPT !.left = IF @ = 0 THEN 0 ELSE @ - 1]]
  /\ UNCHANGED <<stored, call, lost>>

CacheInit ==
  /\ cache = <<>> /\ stored = [k \in CacheKeys |-> Missing]
  /\ call = [s \in CachedSessions |-> Idle] /\ lost = {}

CacheNext ==
  \/ Prune \/ Emptied \/ CacheTick
  \/ \E s \in CachedSessions \ lost :
       \/ \E kind \in {"state", "data"} : Get(s, kind)
       \/ \E state \in CachedStates : Ask(s, "setState", {state})
       \/ \E f \in CachedFields : Ask(s, "setData", {f})
       \/ \E state \in CachedStates : Ask(s, "setSession", <<{state}, {"kept"}>>)
       \/ Ask(s, "deleteSession", Missing)
       \/ Fill(s) \/ Effect(s) \/ Returned(s) \/ Failed(s) \/ StorageExpires(s)

CacheSpec == CacheInit /\ [][CacheNext]_cacheVars

-----------------------------------------------------------------------------
(* Properties                                                              *)

\* The cache keeps to its size, and between the calls of a session, what a
\* hit would return is what the storage holds, whatever was evicted, expired
\* or filled for other sessions: unless the session expired in the storage or
\* a write of it failed, which the cache is not told of (Performance.js:472).
HitsAreCurrent ==
  /\ Len(cache) <= MaxSize
  /\ \A s \in CachedSessions \ lost :
       call[s] = Idle =>
         \A kind \in {"state", "data"} :
           Hit(<<kind, s>>) => EntryOf(cache, <<kind, s>>).value = stored[<<kind, s>>]
=============================================================================
