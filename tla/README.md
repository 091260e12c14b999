# Verification of USSD-State-Builder

TLA+ models of the library in `src/lib` and of its examples, the TLC instances
that check them, and TLAPS proofs of the results that should hold for every
configuration.

1. Inventory of the system
2. The modules and how they correspond to the code
3. What the runs check, their bounds and their fairness
4. What is proved, and along which argument
5. Assumptions worth knowing when the library is configured
6. Where code and documents disagree
7. What is not modelled, and why

## 1. Inventory

The library runs USSD conversations: a handset opens a session with a provider,
the provider posts each keypress to the application over HTTP, and the
application answers with one screen. A conversation is a state machine whose
state, data and history live in a storage shared by many worker processes.

| part | state it keeps | operations | what is hard | what makes it correct |
|---|---|---|---|---|
| **Turn gateway** `TurnGateway.js` | none of its own: a ledger per session in the store; per request a budget and an ownership monitor | `handle`, `process`, `recover` | every `await` lets other workers run; a provider retries; workers die; commands are delayed; acknowledgements are lost | a turn's handler runs once, a turn has one response, an answer is durable before it is sent |
| **Turn store** `TurnStore.js` | one Redis hash per session: ledger, snapshot, owner deadline, closed flag, key expiry | `read`, `claim`, `commit` | stale revisions, expired owners, commands arriving late | receipts are only appended; only the owner commits, in time |
| **Turn budget** `TurnBudget.js` | deadline, timer, abort signal, store-clock anchor | `run`, `check`, `shorten`, `abort` | a dependency that never settles, a timer racing a late answer | every request is answered; nothing is committed after the deadline |
| **Handset adapter** `AfricasTalkingAdapter.js` | none | `normalize`, `bindSession`, `compareTranscript`, `formatResponse` | reordered, skipped, forked transcripts; a reused session id | the receipts form one chain for one caller |
| **Provider end events** `RedisSessionEventStore.js`, `SessionEventGateway.js`, `AfricasTalkingEventAdapter.js` | a bounded event journal per session | `accept`, `read` | events race turns and each other; compare-and-swap under contention; contradictory events | accepted events fence ordinary turns; no contradiction is lost |
| **Conversation engine** `USSDStateMachine.js` | per-process session locks; state, data, history in storage | `processInput`, `endSession`, `prepareTurn`, back navigation, completion replay, retained flows | lock hand-over and aborted waiters; failures between storage calls; versions | one input of a session at a time; an answer never claims what is not stored |
| **Session manager** `SessionManager.js` | metadata per session, counters | create, extend, end, queries | expiry against activity | the counters and the registry agree |
| **Storage adapters** `InMemoryStorage`, `RedisStorage`, `MongoDBStorage`, `PostgreSQLStorage`, `SessionEncryption`, the file example | state, data, history, expiry | get/set, push/pop history, `setDataIfStatus`, `cleanup` | what an expired record leaves behind; encryption put around plain sessions | one contract for all adapters |
| **Distributed lock** `DistributedLock.js` | lock keys with a TTL, `_activeLocks` of the process | acquire, renew, release, `forceRelease`, `releaseAll`, `withSessionLock` | leases that expire under a running holder | one holder while leases are kept |
| **Circuit breaker, retry** `CircuitBreaker.js`, `RetryStrategy.js` | circuit state, counters | `execute`, `reset` | calls in flight across state changes | calls are admitted again and again |
| **Rate limits** `SlidingWindowRateLimit.js`, `Middleware.js`, `DistributedLock.js` | counters by time | `check` | rounding at bucket borders | at most the limit per window |
| **Webhooks** `WebhookManager.js` | pending webhooks in storage, timers and chains in the process | `register`, `receive`, `cancel`, timeout | callback against timeout against cancel, in several processes | one outcome per webhook |
| **Lifecycle** `Lifecycle.js` | pending-request count, shutdown flag, cached health | graceful shutdown, health checks, hot reload | shutdown racing requests, checks that overlap | storage closes after the requests; health is recent |
| **Caching and batching** `Performance.js` | LRU entries, batches | cached storage, `add`/flush | stale fills, capacity, timers | no older value after a newer, nobody forgotten |
| **Metric buffer** `MetricEventBuffer.js` | bounded events, tombstones, generation, one export slot | `record`, `deleteSession`, `clear`, `flush`, `close` | a deletion racing an export; clocks; capacity | deleted data stays gone and is not exported as current |
| **Reports** `MetricEvents.js`, `MetricReporting.js` | none: computed from evidence | aggregate, classify | evidence late, twice, contradicting | a report made again does not take back what was observed |
| **Middleware and plugins** `Middleware.js`, `PluginManager.js` | registries | chain, register, unregister | a registration that throws half way | a registered plugin can be used |
| **SDK** `sdk/` | builders; a menu's snapshot in the session | compile routes, forms, dynamic menus; flow analysis | a list that changes between display and number; back keys | a number means what was on the screen |
| **Workbench, replay** `LocalWorkbench.js`, `Replay.js` | sessions and busy flags; a fixture | create, inspect, send, reset, close; replay | clients and the close overlap; handlers that swallow errors | no session left behind; a replay that passes is honest |
| **Translations** `I18n.js` | translations and a cache of texts | `t`, add, set language, formatter | stale texts, cache keys | a cached text is what would be made now |
| **Market demo** `examples/live-market` | stock, orders, idempotency records | place, cancel, provider updates, recovery | retries after lost answers | stock moves once per order |
| **Validation, responses, errors, debug, metrics text, types, scripts** | none | pure functions | | |

How they interact. The HTTP layer gives a wire request to `TurnGateway.handle`;
the adapter normalizes it; the gateway reads the session's record and the event
journal, claims the turn in the store, runs the engine's handler on a staged copy
(`prepareTurn`), and commits the snapshot with the receipt in one store command.
End events reach `RedisSessionEventStore.accept`, whose script writes the journal
and a flag in the very record the gateway claims and commits. Direct
`processInput` calls (without a gateway) go to the storage under the engine's
session lock, after the `beforeProcess` chain (limiters, shutdown gate); the
storage may be wrapped by the distributed lock, retries, a circuit breaker, a
cache or encryption. Webhooks, the session manager and the applications' menus
keep their state in the same sessions.

PROJECT.json lists each part with its status, and each hazard at its line with
the property that covers it.

## 2. The modules

Definitions whose comment says "Wrong" or "mutant" are deliberate errors next to the
definition they distort. They are used by nothing; put in its place, each makes
the property named in PROJECT.json fail, which shows that the property depends
on that line of the code. Names of definitions are those of the code where
there is one.

### The gateway

`TurnStore`: the record of one session and the store's scripts as operators on
it. `Record` is the Redis hash; `Read`, `ClaimAllowed`/`Claim`,
`CommitAllowed`/`Commit`, `CloseAllowed`/`Close` are READ, CLAIM, COMMIT and
ACCEPT. Each script is atomic in Redis, so each is one operator. `expiresAt` is
the key's expiry, `activeExpiresAt` the field `turnExpiresAt`, `ownerExpiresAt`
the field `turnOwnerExpiresAt`.

`TurnGateway`: `process` for the requests of one session by any number of
workers. `pc[r]` is the await at which request r stands:

| `pc` | awaited in `_process` | leaves by |
|---|---|---|
| `reading`, `read` | `store.read` (:41) and its response | `ReadRecord`, `ObserveRecord` |
| `journal` | `eventStore.read` (:48) | `ReadJournal` |
| `deciding` | `sessionData` (:60) or nothing | `TurnAway`, `SendClaim`, `Oversized` |
| `claiming` | `store.claim` (:68) | `ClaimAnswered` |
| `rereading` | `store.read` after a lost claim (:71) | `Reread` |
| `owner`, `running` | `recoverTurn` / `prepareTurn` (:89, :94) | `StartHandler`, `Unresolved`, `SendCommit` |
| `committing` | `store.commit` (:114) | `CommitAnswered` |

`wire[r]` is the store command r sent. The store executes it in `StoreClaim` /
`StoreCommit`, at any later time and whether or not r still waits: this is how
delay, a worker that dies after sending, and a lost acknowledgement (the command
executes after r answered 503) are modelled. `Abort` (deadline, disconnect,
failing dependency, throwing handler), `LoseOwnership` (the monitor of :78) and
`Crash` may happen at every await. `HandlerEffect` is the business effect of the
handler, which neither an abort nor a crash recalls; `effects` is what
`recoverTurn` finds in the application's journal. `now` is the store's clock in
ticks; `Tick` also deletes keys whose time has come. `epoch`, `claimed` and
`archive` are history variables.

Abstracted: a transcript is a sequence of small numbers; the fingerprint is the
transcript, because one session is modelled and the position is its length; the
session snapshot, which travels with the ledger in the same command, is not
kept apart from it; a response is the request that produced it and whether it
begins with `END `; every 5xx is 503. Worker clocks and the store's clock tick at
the same rate (the code compares differences only, never the two clocks).
A size bound (`_bounded`) may refuse any claim or result.

`TurnLog`: what the gateway promises, without requests, stores or time: a log of
turns that grows one keypress at a time for one caller, is forgotten only as a
whole, and from which all answers come. `TurnGateway!ImplementsTurnLog` is the
refinement: `log` is the ledger's receipts (`LogOf`), `age` the retention epoch.

`SessionEvents`: `RedisSessionEventStore.accept` and `SessionEventGateway.handle`
for one session. Each worker handles callbacks one after another (`Receive`); a
`Round` is one pass of the loop of :41 up to sending ACCEPT, `StoreAccept` the
script, `Answered` the rest of the round, `Fail` a failing call or a worker that
dies. A read and what is decided from it are one step, since the decision looks
at nothing else. A sent ACCEPT may execute after its callback has failed. The
surroundings are the turns that bind the session (`Bind`, the CLAIM of a first
turn) and expiring keys (`ForgetRecord`, `ForgetJournal`). An event's fingerprint
hashes all its fields, so it is the event; the journal's list is kept sorted, so
it is a set. `MaxAttempts` is 8 in the code.

### The engine and its guards

`SessionLock`: `_acquireSessionLock`, `_waitSessionLock` and
`_releaseSessionLock` for one session. JavaScript runs a call from one await to
the next without interruption, so each such piece is one step: `Arrive` (the
fast path, or joining the waiters), `Resume` (a woken waiter's next pass of the
loop), `Abort` (the caller's signal), `Release` (the `finally`).

`Engine` extends it with what a call does inside: `processInput` and
`endSession`. `run[c].at` is the await at which a call stands: the `beforeProcess`
chain, the reads of the session, the completed-session replay, the choice of the
flow by the pinned version (retained flows, rollbacks, unversioned redeployments),
back navigation (pop, write, re-entry with empty input), the handler, the
validator and `afterProcess`, the history push, the state and data writes, the
completion mark. A storage call may fail before or after it took effect; a
handler, a validator and middleware may throw; the session may expire at any
time, also inside a turn. Of a session's data only the reserved keys are kept.
`adopted` is a history variable: the sessions whose first accepted turn found the
history of a first turn that had failed (section 6, `engine_adopts`).

`RateLimit`, `CircuitBreaker` and `Shutdown` are composed by `Service` in the
order in which a process has them on a request's path: the limiter and the
shutdown's middleware in the `beforeProcess` chain, then the handler, whose
storage call goes through the breaker (`createProtectedStorage`) and, inside it,
the retries. The three limiters (sliding window, the fixed window of
`createRateLimitMiddleware`, the sorted set of
`createDistributedRateLimitMiddleware`) are one module of counts by the age of
their timestamp. One clock drives the limiter's window, the breaker's reset
timeout and the shutdown's patience. `pending` is the count that the shutdown's
middleware keeps, with its `finally`.

`DistributedLock`: the Redis lock on one session id, for calls of several
processes. `lease` is the call whose value is in the key, `registered` the
process's `_activeLocks` entry, which every release deletes without looking whose
it is (:97). Time is abstract: a lease that is renewed at every half of its life
cannot expire; one whose renewal failed or came late can. `Webhooks` composes it
with `WebhookManager` for one webhook: a process runs its operations one after
another (`queue`, `_withWebhookLock`); between processes the storage offers a
lease (`locks`), compare-and-set (`cas`, `setDataIfStatus`), both or neither.

### Storage

`SessionStore` is the abstract store: a session with state, data, history and
time to live; reads never see an expired session, writes refresh its time,
data is merged, histories are bounded. `Storage` has the five adapters behind one
set of operations and differs where they differ (what an expired session leaves
behind, what a write to it inherits, when `left = 0` is noticed), with the
encrypting proxy around any of them, also put around sessions stored in the
clear. `ImplementsStore` is the refinement. A history pushed before the session's
first write is the one operation the contract leaves open (`SessionStore!Push`): the
entry is lost or begins the session, see section 5.

`LRUCache` has the operators of the bounded cache, for both of its users.
`CachedStorage` (`createCachedStorage`), `Batching`
(`BatchProcessor`), `Health` (`HealthCheck`), `SessionBooks` (the counters and
the registry of `SessionManager`), `MetricBuffer`, `Reports` and `I18n` are each
one component with its own actions, await by await where calls overlap.

In `MetricBuffer` every operation reads a clock that may go back or be invalid and
prunes by the latest time read so far; `DeleteSession` and `Clear` invalidate the
running export's snapshot (`stale`, the generation compared at its end). In
`Reports` evidence is a set of envelopes around facts; a report is made anew up to
its `asOf`, or refused because the evidence contradicts itself.

### Applications

`Menu`: a dynamic menu with the handler the SDK compiles around it and the order
in which the engine stores what that handler returns; `screen` is what the
subscriber saw, `choice` what the program took a number for.
`Compiler` turns declared states into answers (`compiler.js`, forms included);
`Flow` is a flow, compiled or written by hand, what `FlowAnalysis.js` says of it
(`Reachable`, the result of its traversal, is the least set of states that has the
initial one and is closed under edges), and a session that walks it through the engine with back navigation and failing
turns; `ExampleFlows` has the repository's own flows. `Market`: the three Redis
scripts of `marketStore.js` under the idempotency key of a turn, sessions that
come through the gateway (keyed) or through POST /ussd, recovery of a lost answer.
`Plugins`, `Workbench`, `Replay`: `PluginManager`, `LocalWorkbench` behind its
server, and replay of recorded histories.

### Instances and proofs

`MCTurnGateway`, `MCSessionEvents`, `MCEngine`, `MCWebhooks`, `MCMenu`, `MCToolbox` give
constants their values, `ExampleFlows` those of `examples_back`. `MCApplications`
(menus, flows, market, plugins, workbench, replay) and `Toolbox` (storage, cached
storage, metric buffer, reports, batching, health, session books, translations) put
components that share nothing into one specification: a behaviour picks one part, runs
it, and leaves the others as they are, so that the reachable states are the sum of the
parts' and not their product.

The theorems are in `TurnGatewayProofs`, `SessionEventsProofs`, `EngineProofs` (with
the session lock), `WebhooksProofs` (with the distributed lock), `ServiceProofs`
(limiters, breaker, shutdown), `ToolboxProofs` (storage, caches, batching, health,
session books, reports), `MetricBufferProofs` and `ApplicationsProofs` (menus, flows and their
compiler, plugins, market, workbench, replay).

## 3. The runs

| run | question | instance |
|---|---|---|
| `races` | `HandlerAtMostOnce`, `OneResponsePerTurn`, `ReceiptsChain`: do handlers run once, with one response per turn, and do the receipts form one chain? | 3 requests, transcripts `<<>>`, `1`, `2`, `11`, handlers that end, no expiry |
| `retention` | `ImplementsTurnLog`, `Answered`: is the log implemented when sessions and receipts expire, and is every request answered? | 2 requests, 2 screens, clock to 5, active 1, receipts 3, lease 1, deadline 2, capacity 1, fair clock and timers |
| `events` | `AnswersAreDurable`, `NoLateCommit`, `ClosedFence`: are all 200s durable and of the right caller, are commits in time, do end events fence turns? | 2 requests, 2 callers, end events at any time, clock to 3 |
| `end_events` | `OutcomeFromEvents`, `SameCaller`, `AcknowledgedOnce`: does the journal lose nothing and classify independently of order? | 2 workers, 4 callbacks, capacity 3, 2 rounds, 5 possible events of 2 callers, one expiry of the journal |
| `engine` | `StateOfItsFlow`, `EndIsFinal`, `AnswerIsStored`, `MutualExclusion`, `Settles`: does a session stay in its own flow, end once, and is the answer what is stored? | 2 inputs and an `endSession`, machines v1, v2 (which retains v1), an unversioned one and its redeployment without a state, history 1, the session created up to twice |
| `webhooks` | `SettledOnce`, `RenewsItsOwn`, `LeaseExclusion`: one outcome per webhook; do workers exclude each other while leases last? | 2 processes, 2 callbacks, a cancellation, the timeout, one administrator; with and without leases and compare-and-set |
| `service` | `Limited`, `ClosesDrained`, `ShutdownEnds`, `Recovers`: are requests limited, does a shutdown drain and end, does the breaker admit calls again? | 2 requests that come again and again, 3 limiters of 1 per window of 4 ticks (sub-windows of 2), breaker 2 failures, 1 probe, 1 retry, patience 1 |
| `applications` | `MenusAsShown`; `AsksForWhatItTakes`, `AnalysisIsSound`, `FormComplete`; `StockConserved`, `OrdersAsTold`; `PluginsUsable`; `BenchSound`; `ReplayHonest`: does what applications are built from do what they say? | below |
| `toolbox` | `ImplementsStore`; `CachesAreCurrent`; `GoneForGood`, `ExportsInOrder`; `ReportsStand`; `NothingStranded`; `HealthyIsRecent`; `BooksBalance`: do the parts around the engine keep what they are given? | below |
| `engine_adopts`, `menu_refresh`, `examples_back` | violations: section 6 | `engine` without `adopted`; one menu with refresh key 2; the six examples written by hand |

### Bounds

Gateway: two requests suffice for a claim race, a lost acknowledgement and a
retry, or an owner and its recovery; three add a bystander (a duplicate during a
recovery, the next turn during a retry). `MaxNow` bounds the store's clock, and a
request starts only when its whole budget fits below it, so deadlines always can
pass. `races` needs no expiry (it is `retention`'s subject), so its clock is 1.

End events: four callbacks fill a journal of three and leave one for its border; two workers
race, and two rounds let one of them lose both (a contention). The five events
are two that agree, one of the same time, one of another status and one of
another caller.

Engine: two inputs and an end are the smallest set in which a waiter is woken and
overtaken, or aborted, while a third call ends the session; a history of one makes
the border of the bounded history occur at once; two lives let a session expire
inside a turn and begin anew. The four machines meet in every order: upgrade,
rollback, retained flow, redeployment without the state that is stored. The
unversioned machine begins in a state that v2 lacks, so that what it leaves behind
is foreign there.

Webhooks: two callbacks of one process exercise its chain, a cancellation in the
other process races with them, and the administrator's `releaseAll` clears a
registration under a running operation. That a single process needs neither lease
nor compare-and-set is proved (`OneOutcome`), not run.

Service: requests repeat without end, time is cyclic (ages instead of
timestamps), so nothing is cut off by a clock. A limit of one makes each border
of a window decide; a window of two sub-windows is the smallest in which a bucket
leaves while a hit in it is inside the window.

`applications`: menus of two states with up to three items, pages, a refresh key
and failing sources, history 4; flows: all 512 of three states over eight shapes
of state, a form, the SDK and declared examples, walked with failing turns and a
back-navigation history of at most three; market: one article with stock 2, two shoppers,
one of them keyed, two turns each; plugins: three with dependencies and a state name in
common; workbench: two clients, a limit of one session; replay: four histories and four
scripts, clock to 3. `toolbox`: five adapters, two states, two fields, two times
to live, history 2; a cache of two entries for two sessions; three events of two
sessions, one tombstone, two exports, clock to 3; four items in batches of two;
two probes with a cache of 2 ticks; two sessions started up to three times; twelve
pieces of evidence; two languages and wordings, a cache of two texts. Each is the
smallest in which its limit is reached and passed.

CHECK_DEADLOCK is FALSE in all of them: requests and calls are finitely many or
the clock stops at its bound.

### Fairness

`Answered` assumes weak fairness of `Tick` (time passes) and of `DeadlineFires`
(the `setTimeout` of `TurnBudget.arm`, which Node runs unless its event loop is
blocked). Nothing is assumed of the store, the handler, the journal or the
recovery callback: each may hang. It does not say that a session makes progress:
an owner that dies leaves its turn pending until someone calls `recover`
(docs/DEADLINES-AND-RECOVERY.md:46).

`Settles` assumes that microtasks run (`Resume`) and that a call inside the lock
goes on: its storage calls, middleware and handler settle. The engine alone does
not bound a handler's time, so this is a demand on handlers; behind the gateway
the turn's deadline stands in for it. Newcomers may overtake woken waiters, so
with an endless stream of calls a waiter can starve; the instance has finitely
many.

`ShutdownEnds` and `Recovers` assume that time passes, that the shutdown's own
steps are taken (its timers and callbacks settle), and that a storage call, once
made, settles or is retried. Nothing is assumed of the chain or the handlers: a
request that hangs in the chain is what the shutdown's timeout is for. Without
the last assumption `Recovers` fails, see section 5.

## 4. What is proved

All theorems hold for every value of the constants that satisfies the named
assumptions; the runs check the same formulas on small instances.

### The gateway

`TurnGatewayProofs`, for any set of requests, callers and transcripts, any
deadline, lease, capacity and bound on the clock, under `TTLAssumption`,
`GatewayAssumption`, `RetentionAssumption` and (the last line only)
`FenceAssumption`:

| theorem | says |
|---|---|
| `TypeCorrect` | `TypeOK` always |
| `HandlersRunOnce` | `HandlerAtMostOnce` always |
| `Handover`, `ReceiptsSurvive` | `NoTakeover`, `ReceiptsOnlyGrow` |
| `CommitsInTime` | `NoLateCommit` |
| `OneResponse` | `OneResponsePerTurn` always |
| `ReceiptsAreChained` | `ReceiptsChain` always |
| `AnswersComeFromTheLedger` | `AnswersAreDurable` always |
| `GatewayImplementsTurnLog` | `ImplementsTurnLog`: every step logs one turn, forgets the log, hands out one entry, or leaves the log alone |
| `EventsFence` | `ClosedFence` |

So every safety property of the gateway that a run checks is proved. Three
invariants carry them, each inductive together with those before it.

`IInv`. None of the properties is inductive by itself, because a command on the
wire carries a ledger copied at an earlier time. `IInv` says what such a copy may be:

* `RecordInv`: the record's key outlives both the present and the session's
  activity by a request's deadline (this is where `RetentionAssumption` enters),
  and a pending turn's token is that of a claim that took effect.
* `LookInv`: a request that has looked holds a view that is `Current` until its
  deadline: the record still exists, its revision has not gone back, and if it is
  idle at that revision it has the view's turns. If the view shows a pending turn
  it is `Replaceable`: as long as that token owns the record, the view's turns
  are the record's.
* `ClaimInv`, `CommitInv`: the same of the ledger on the wire, at the moment the
  store may execute it; a taken claim is what the record holds, with an owner
  deadline inside the request's budget, and a commit adds one receipt, that of
  the pending turn.
* `HandlerInv`: a handler that started belongs to an ordinary claim that took
  effect, in this epoch or an earlier one.
* `Accounted`: the turn of every ordinary claim of the current epoch is still
  pending or has a receipt, so that no second claim of it can be allowed.
* `Distinct`: ordinary claims of one epoch have different transcripts.

`LedgerInv` is about receipts, wherever a ledger is. A ledger in the record, in a
view or on the wire is `WellChained`, and its receipts are `Durable`, in the
archive of a commit that took effect, except the last one of a commit still on
its way (`SeenInv`, `WireInv`). A 200 carries such a receipt (`ReplyInv`). What was
committed in the present retention is in the record (`PresentInv`); hence a new
commit's transcript, which is longer than all of them, is new, and a turn has one
response. The refinement maps a commit that takes effect to `LogTurn`, the expiry
of a ledger to `Forget`, a 200 to `AnswerFrom`, and every other step to a stutter.

`FenceInv` is about end events. What stops a turn is the record's closed flag, and
the record may expire before the journal does. `Fresh(d)`, which every ordinary
turn with deadline d relies on from its decision to its claim, says: until d,
whatever record there is lasts, and if an event is retained the record is closed.
A turn that found no ledger has it because it read the journal after the record,
a turn that found one because the record is `Current`. An event that meets no
record leaves one that lasts as long as the journal, at least as long as the
turn: this is `FenceAssumption`. `OwnerFence` adds that a pending recovery belongs
to a recovering request, so that a commit beside an event is a recovery's.

### The other components

`SessionEventsProofs`, for any workers, callers, events, capacity and number of
rounds: `EventTypes`, `OutcomeOrderFree` (`OutcomeFromEvents`), `CapacityKept`
(`WithinCapacity`), `ClosedByItsCaller` (`SameCaller`), `AcknowledgementsHold`
(`AcknowledgedOnce`), `ContentionEarned` (`ContentionIsReal`) and `NoEventLost`
(`EventsOnlyGrow`). The inductive invariant adds to the properties: `JournalInv`,
the journal's revision counts its events and its outcome follows from them;
`ArchiveInv`, the events appended in the current retention are exactly the
journal's; `CallInv`, what a worker read is, while its ACCEPT is on its way, the
journal itself whenever the revisions agree, and lacks the worker's event;
`RoundInv`, each lost round was paid for by a change of the journal.

`EngineProofs`, for any set of calls: `OneInside` (`MutualExclusion`),
`NobodyForgotten` (`NoLostWakeup`) and `LockTypes`. The three are inductive
together: mutual exclusion, because the entry exists exactly while a call is
inside, and an aborted waiter, having acquired nothing, deletes none. And for any
machines, versions, states, retained flows, history bound and number of inputs and
endings: `PinnedInItsFlow` (`StateOfItsFlow`), `SessionsEndOnce` (`EndIsFinal`),
`AnswersAreStored` (`AnswerIsStored`) and `EngineExcludes` (`MutualExclusion` of the
engine, whose steps are steps of the lock). Three parts make them inductive:

* `SessionInv`, of the session between steps: a pinned one that adopted nothing is
  `InFlow` of every machine of its version, and the end of a life that is not
  completed has not been announced.
* `LookInv`, of an input that has not been accepted: what it read is what is stored,
  unless the session expired under it (`Gone`). It rests on mutual exclusion, since
  only the call inside writes.
* `FlowInv` and `TurnInv`, of an accepted turn: it runs in a session of its own
  flow, its target is one of that flow's states, and what it has stored so far is
  what its answer will say. `EndingInv` says the like of `endSession`.

An accepted turn whose session expires goes on in the one its own next write makes;
`overrun` names such calls, and each part says what holds of them. The proof has one
lemma for each await.

`WebhooksProofs`, for any calls, processes and administrators of the lock:
`LeasesExclude` (`LeaseExclusion`). Inductive is `Leased`: a call that holds the
lock and has not lost its lease owns the key. No release takes another's key, since
deletion compares the value. For any number of callbacks, cancellations and
processes of one webhook: `OneOutcome` (`SettledOnce`), `RenewalsAreOwn`
(`RenewsItsOwn`) and `WebhooksExclude` (`LeaseExclusion` in the composition).
`ChainInv`: an active operation is the head of its process's chain, and its place in
the lock follows from its place in the operation. `Decided`: those who decided (also
without having reported it) are one, the record agrees with them, and without
compare-and-set nobody stands between its read and its write once somebody has
decided. Each of the three settings (a storage that compares, leases that are kept,
one process) gives it by another branch.

`ServiceProofs`, for any requests, window, sub-windows, limits, thresholds and
timeouts: `LimitsHold` (`Limited`), `ClosesAfterDraining` (`ClosesDrained`) and
`BreakerNotWedged` (`NeverWedged`, the safety half of `Recovers`). A sum of counts over
a stretch of ages is a cardinality (`Total`), about which the library has theorems; a
tick shifts all stretches by one. Each limiter has its own invariant: `SlidingInv`, a
sub-window's count is of requests at most a sub-window younger than it, so every
stretch of hits is below a stretch of counts; `FixedInv`, one window is open and the
hits before it were counted by the one before; `DistributedInv`, each hit is at its own
time. `ShutdownInv`: `pending` is the number of the requests inside the chain, through
every way out of it, so that zero means drained. The breaker's invariant holds of
calls that settle in any later state of the circuit.

`ToolboxProofs`. `StorageImplements` (`ImplementsStore`): under `View` as the
refinement mapping every step of every adapter, in the clear or behind the encrypting
proxy, is the contract's step or a stutter, for any states, fields, values, times to
live and history bound. What is needed beside types is small
(`StorageInv`: Redis holds nothing expired, nothing is sealed before the proxy is
there); the work is in what the five adapters make of an expired row, one lemma for
each operation. `NobodyStranded` (`NothingStranded`): the queue never holds a whole
batch and its timer is armed while it holds anything, so a flush takes all of it.
`AnswersAreRecent` (`HealthyIsRecent`): a running check is no older than `MaxDuration`,
what is cached was stamped within it, and so was what is answered. `BooksAlwaysBalance`
(`BooksBalance`), from types and the cardinality of the open sessions.

`CachesStayCurrent` (`CachesAreCurrent`) is the conjunction of `HitsStayCurrent` and
`TextsStayCurrent`. Both stand on lemmas about `LRUCache`, for any entries: what deletion
leaves is the other entries in their order (`SiftedIs`, by the bijection that counting
the kept positions is), and no operation makes two entries of one key (`OneEach`).

* `CacheInv`, for any sessions, states, fields, values, size and life, with reads, writes
  and deletions that overlap between sessions, take effect and fail: an entry is what
  storage holds except for the kinds that a write of its session has changed and whose
  answer is still to come (`Unsettled`), which that answer overwrites or drops; a read on
  its way carries what storage holds. Without the exception the invariant does not
  survive the moment between a write's effect and its return.
* `TextInv`, for any languages, wordings, counts and defaults: every entry is the text its
  key would give now for one of the defaults and one of the formatters, because adding
  translations empties the cache; a text depends on nothing else than its key says
  (`TextOf`).

`ReportsAreKept`, and of the toolbox `ReportsKeptInBox` (`ReportsStand`), for any
evidence, arriving one event at a time in any order. What the rows of a column count
altogether is the cardinality of the pairs of a row and something counted in it, so
that each sum is a partition (`Partition`): what is counted goes to one row, which the
report has. A retry and the turn it repeats are of one version and state, so no pair
falls between rows (`RetriesOfPart`); a business operation is in one version only because
contradicting evidence is refused (`BusinessVersions`, the one sum that needs `Agree`).
What was said grows with the clock and with late evidence (`SaidGrows`), and a set of
reasons that is still one is the set it was (`OneOf`), so an observed reason is kept or
becomes a conflict.

`MetricBufferProofs`, for any events, sessions, exports and limits:
`EvidenceStaysGone` (`GoneForGood`), from `Sound`: a session stands for its
evidence, its earliest event decides its expiry, and what was deleted is not there
and its tombstone, or the sealed buffer, refuses it; and `ExportsStayInOrder`
(`ExportsInOrder`), from the single slot and the snapshot each export carries.

### Applications

`ApplicationsProofs`.

*Menus.* `SelectionsAreAsShown` (`MenusAsShown`), for any menus, lists, page sizes, routes
and history bound, where no refresh key of a menu without pages is a number
(`Unambiguous`; without it `menu_refresh` is the counterexample). Inductive is
`MenuInv`: `Displayed` says that what is on the screen is a page of the *stored*
snapshot, that this snapshot is the stored state's own, and that its items are of that
menu's lists. A failed write clears the screen, so a stale screen is never chosen from.

*Flows.* Each property needs something of the flow, stated as a hypothesis on every
member of `Flows`, and the compiler's flows are shown to have it.

| theorem | of flows that | says |
|---|---|---|
| `PromptsAreOfTheirState` | show the prompt of the state they lead to (`ShowsWhereItLands`) | `AsksForWhatItTakes` |
| `AnalysisHolds` | declare an edge for each way their handlers take, but for states reported as opaque (`Declares`) | `AnalysisIsSound` |
| `CompiledFlowsAreSound` | the compiler made, of any states, routes and targets, `run()` without `next()` | both |
| `FormsAreComplete` | save every field on every way to the confirmation (`FieldsFirst`) | `FormComplete` |
| `CompiledFormsAreComplete` | the compiler made with one form among any other states, none of which leads into its middle (`Around`) | `FormComplete` |

All ask that a flow begin in a state it has (`WellMade`). `ShowsWhereItLands`,
`Declares` and `FieldsFirst` hold of all 517 flows of `applications`, and
`ShowsWhereItLands` of none of the six examples of `examples_back`. The argument is
common: a turn `Wrote` all of its writes and shows its answer, or a part of them and
shows nothing, and the history it leaves is of the old one and the state it left
(`HistoryKept`). The analysis is sound because sessions start where the traversal
starts and move along declared edges only. A form is complete because each field comes
after those before it (`ComesAfter`), in the state a session is in and in those it may
go back to (`HasFields`). `run()` combined with `next()` shows its own text while it
moves (section 6), which `CompiledFlowsAreSound` leaves out.

*Market*, for any products, stock, quantities, shoppers and turns: `StockIsConserved`
(`StockConserved`) and `CallersAreTold` (`OrdersAsTold`). What standing orders hold is
the cardinality of their units (`Units`), so that an order placed or cancelled adds or
takes a disjoint set. The second follows from the answers kept under the turns' keys
(`AnswersKept`): a repeated turn is told what it was told.

*Workbench*, for any sessions, requests and limit: `BenchIsSound` (`BenchSound`).
`OneAtWork`: a session's busy flag admits one operation; `InStep`: its machine's storage
is at most the turn being stored ahead of its record; `ReadsInOrder`: machines and turns
only go forward, so that the checks before and after an inspection's read enclose it;
`Orderly`: a closing server has no request left and takes the sessions there were.

*Replay*, for any histories, scripts and handlers: `ReplaysAreHonest` (`ReplayHonest`).
`Progress`: turns checked were served whole and in order, those to come not at all;
`Refusals`: what was refused when a turn is over was refused after its check.

*Plugins*, for any plugins, dependencies and state names: `PluginsStayUsable`
(`PluginsUsable`). The invariant says it also of plugins whose install hook still
runs, with registrations nested in it; a strict registration takes only states
that are free.

### Model-checked only

Liveness (`Answered`, `Settles`, `ShutdownEnds`, `Recovers`) is outside what TLAPS
proves, and so is what rests on `ENABLED`. Every other property that a passing run
checks is proved.

## 5. Assumptions worth knowing

`RetentionAssumption` (`TurnGateway`): receipt retention is at least a session's
activity timeout *plus one request's deadline*. The constructor of `TurnGateway`
(:15) checks the first part only. With `ReceiptTTL = ActiveTTL = 1` and
`Deadline = 2` (three requests, clock to 3) TLC violates `ReceiptsOnlyGrow`: a
claim decided on a record is still on its way when the record expires, a new
session of the same id reaches the same revision, and the claim then installs
the old ledger over it. The defaults (86400 s against 300 s and 5 s) are far from this.

`FenceAssumption` (`TurnGateway`): event retention is at least one request's
deadline. With `EventTTL = 2` and `Deadline = 3` `ClosedFence` fails, because the
closed flag on a record that only an event created is not refreshed by a later
event although the journal is. The default is 7 days.

`ForgetJournal` (`SessionEvents`) assumes that a journal does not expire between a
callback's read and the execution of its ACCEPT. Without that guard TLC violates
`AcknowledgedOnce` and `EventsOnlyGrow`: the journal expires, new events bring it
to the same revision, and the old ACCEPT replaces them. `accept` has no deadline
of its own, so nothing in the code bounds that time; the retention's default is a
week, its least permitted value one second.

The documents say that the gateway owns its session namespace
(docs/TURN-RECEIPTS.md:35); direct writers appear only as the orphan session in
`Init`. `Storage` models operations that do not overlap, as the engine's lock and
the distributed lock make them: `RedisStorage.setData` and its like read, merge and
write in separate commands, and `setSessionData` of the engine and the session
manager's updates are read-modify-writes outside the lock.

A history before its session: the engine pushes the origin of an unversioned flow's
first transition before its first write of a state (USSDStateMachine.js:446-451).
MongoDB and PostgreSQL only update an existing row (MongoDBStorage.js:235,
PostgreSQLStorage.js:288) and lose that entry; the in-memory adapter, Redis and the
file example keep it. The contract of the store admits both (`SessionStore!Push`), so
`ImplementsStore` promises an application no more than that.

Circuit breaker: a result settles in the state the circuit has by then, so a call
admitted while closed may decide for a probe; and a probe that never settles keeps
its attempt for good, so that `Recovers` needs storage calls that settle. An
`onStateChange` that throws inside `_reset` is counted as a failure.

The assumptions on the remaining constants (`StoreAssumption`, `BatchAssumption`,
`HealthAssumption`, `CacheAssumption`, `MarketAssumption`, `BenchAssumption`, `ReplayAssumption`,
`PluginsAssumption`, `WindowAssumption`, `BreakerAssumption`, `ShutdownAssumption`,
`MachinesAssumption` and their like) say what kind of value each is: limits and times are
natural numbers, positive where the constructors demand it, and `None` is no value of
another kind. `MenuDataAssumption` adds that lists are sequences, that a plain state's
routes lead to states, and that `None` is no snapshot; `VersionAssumption`, that two
machines of one version have the same states, which is what a version is for.

Rate limits: what `Limited` promises of the sliding window is a stretch of
`windowMs - subWindowMs + 1`, of the fixed window twice its maximum. The
distributed limiter counts refused requests too and fails open.

Shutdown: `pending` counts only the `beforeProcess` chain; handlers come after it
(docs/PRODUCTION.md:51 leaves draining to the server). A second signal exits while
the first drains.

Webhooks: with neither leases nor compare-and-set, and several processes, two
operations may both decide; `SettledOnce` says so by its premise `Guarded`. The
record lives `ceil(timeout/1000)` s and the timer starts after the write, so
`onTimeout` may find no record (WebhookManager.js:129-137). Renewal failures are
swallowed (DistributedLock.js:271): a holder is not told that its lease is gone.

## 6. Where code and documents disagree

Three runs expect a violation; each quotes what a document or comment says
(PROJECT.json, "findings").

* `engine_adopts`: the first transition of a session pushes its origin
  (USSDStateMachine.js:447) before any state is set (:451). When that turn fails in
  between, the session has a history and neither state nor version, and the check
  for a session of another flow looks at these two only (:285-286). A versioned
  machine then pins it as new with the history it has, and the back key leads to a
  state its flow does not have. docs/FLOW-DEFINITIONS.md:39 promises "existing active
  unversioned sessions also receive this controlled restart". `InItsFlow` fails in
  this run; `StateOfItsFlow`, which `engine` checks and `PinnedInItsFlow` proves,
  says the same of every session that did not begin so.
* `menu_refresh`: in a dynamic menu without pages a refresh key may equal an
  item's number; the key fetches a new list and then selects from it, though it was
  never displayed (DynamicMenuBuilder.js:211; docs/MIGRATING-TO-3.md:13). The
  instance of `applications` has no such key.
* `examples_back`: the examples written by hand show the prompt of the state they
  lead to, while back navigation re-enters the previous state's own handler
  (USSDStateMachine.js:375), so the back key shows the screen after the one stored.
  `applications` has the examples whose handlers show their own prompt.

Smaller things met while modelling, without a run of their own:

* Repository README:567 passes `lang` to `i18n.t`, whose option is `language`; the
  comment at I18n.js:129 says the cache key has all options, but `defaultValue` is
  not in it; `addFormatter` leaves finished texts stale; the constructor's
  `translations` are not flattened.
* `defaultShouldRetry` compares a lower-cased message with `READONLY`; a retried
  push or pop that had taken effect is applied twice.
* An LRU cache at capacity evicts another entry when a present key is overwritten
  (Performance.js:65); the fill after a miss may store what was read before a
  write (:472), which the calls of one session cannot meet one after another; the
  cached storage answers an expired session's state up to its own time to live and
  has neither `setDataIfStatus` nor `withSessionLock`.
* The history of a new session: a handler that returns `previousState` without
  history answers CON and stores no state (USSDStateMachine.js:453-456); a
  `ValidationError` thrown by a re-entered handler or `afterProcess` keeps the state
  although the history was already popped or pushed.
* Redis `setState` and `setData` set the expiry by a second command; a push or a
  `setSession` on a missing Redis key creates one that never expires.
* Session manager: its metadata lasts only in the in-memory storage; MongoDB's
  `setSession` after `startSession` writes `new Date(null)`, PostgreSQL's on a missing
  row does nothing. Two overlapping ends of one session count twice, sessions that
  expire stay active, and a reset beside open sessions leaves the books wrong:
  `BooksBalance` holds for calls of one session that follow each other, and says
  what it says of the counters with expiry and reset in view.
* Plugins: a registration that throws leaves its states and hooks, so that in
  strict mode it can never be repeated; otherwise hooks are doubled; unregistering
  a plugin removes another's state of the same name.
* Workbench: `createSession`'s own inspection, refused because another client's
  turn has started, deletes the session while that turn runs
  (LocalWorkbench.js:109-110); a reset whose install fails leaves the old machine
  without its stored session.
* Replay: an effect call left behind after the last turn's check is refused but the
  replay still passes; a late call in a later turn consumes that turn's script.
* Dynamic menus: a failed turn whose data write took effect leaves the stored page
  ahead of the screen; an expired session, or a menu entered through a route with a
  response of its own, takes the first number from a list that was not displayed.
* SDK: a form without `confirm` and `onComplete` marks its last field's own prompt
  END, so that field is never collected (FormBuilder.js:220-223); `.run(text).next(t)`
  shows its own text while moving to t (compiler.js:194); a state whose only route is
  a reply is not reported as a dead end; two fields of one name overwrite each
  other; the koa, fastify and hapi examples call `.handler`, which `StateBuilder` lacks;
  a back key `0` cannot be entered as a value once there is history.
* Health: a slow check that looked before the storage went down stamps its old
  look with the time of its end; custom checks have no timeout.
* Development helpers: `HotReloader.reloadAll` aliases the caller's object;
  `throttle` may execute twice per wait when its timer is late
  (Performance.js:279-293); `LazyLoader` loads twice on concurrent `get`.

## 7. What is not modelled, and why

* Code without state of its own: validators, the response builder, error classes,
  form checks of the adapters, exporters' text, diagrams, type declarations, scripts,
  benchmarks, test helpers, entry points.
* I/O around the components: HTTP servers (also the market's, whose POST /ussd binds
  a phone by a read and a later write, server.js:186-190), connection handling,
  schema set-up, statistics, the OpenTelemetry bridge.
* Development conveniences: `HotReloader`, the interactive simulator, the debug
  inspector, `memoize`, `debounce`, `throttle`, `LazyLoader`, the connection pool.
* Logging, metrics and validation middleware, whose part in the order of the chain
  is `Service`'s, but whose own bookkeeping no other part reads.
* In what is modelled: byte and group limits of metrics (a free refusal), durations,
  percentiles and rates of reports; a cart's clearing, `CONFIRM` by 2 and the time to
  live of the market's idempotency keys; an install hook that unregisters what it
  depends on; `close()` called directly in the middle of a creation; of the file
  example, that sanitized ids may share a file and that its inherited `setSession`
  starts a time to live.
* Writers beside the lock: `setSessionData` of the engine, the session manager's
  updates, and overlapping operations of one adapter (section 5).
