---------------------------- MODULE TurnGateway ----------------------------
(***************************************************************************)
(* TurnGateway.process / handle / recover (src/lib/TurnGateway.js) for the *)
(* requests of one handset session, run by any number of workers against   *)
(* one atomic turn store, with the provider's end events.                  *)
(*                                                                         *)
(* A request is a call of process.  Every await is a place where others    *)
(* run: the read and its response, the journal read, the claim, the        *)
(* handler, the commit.  A command to the store is sent, executed and      *)
(* answered in separate steps, so it may take effect after its worker gave *)
(* up or died, and its acknowledgement may be lost.                        *)
(***************************************************************************)
EXTENDS TurnStore

CONSTANTS
  Events,    \* is an eventStore configured?
  Endings,   \* may an execution's body begin with END: the outcomes met
  Deadline,  \* deadlineMs, in ticks
  Lease,     \* leaseMs, in ticks
  MaxTurns,  \* maxTurns, the receipt capacity
  MaxNow     \* bound of the store's clock in a model

\* The values below are numbers of ticks, but for Events and Endings.
ASSUME GatewayAssumption ==
  /\ Events \in BOOLEAN
  /\ Endings \subseteq BOOLEAN
  /\ Deadline \in Nat \ {0}
  /\ Lease \in Nat \ {0}
  /\ MaxTurns \in Nat \ {0}
  /\ MaxNow \in Nat
\* Retention outlasts a session's activity by at least one request.  The
\* constructor checks the first part only (receiptTTL >= every timeout); the
\* defaults (86400 s against 300 s and 5 s) leave room for the second.
ASSUME RetentionAssumption ==
  \A active \in ActiveTTLs : active + Deadline <= ReceiptTTL
\* A closed flag outlasts a request that read the record before the event.
\* The default is 7 days; the code accepts any whole number of seconds.
ASSUME FenceAssumption == Events => Deadline <= EventTTL

VARIABLES
  now,        \* the store's clock
  record,     \* the session's record in the store
  journal,    \* when the event journal's key expires; 0 = no such key
  pc,         \* where each request's process() stands
  turn,       \* the normalized turn of each request
  end,        \* end of each request's budget
  seen,       \* the view of the record each request decides on
  wire,       \* the store command each request sent
  handler,    \* the execution of each request's handler
  reply,      \* the HTTP answer of each request
  effects,    \* transcripts whose business effect is confirmed (external)
  epoch,      \* history: how often a ledger was forgotten by retention
  claimed,    \* history: epoch in which each request's claim took effect
  archive     \* history: <<epoch, caller, receipt>> of every commit

storeVars   == <<now, record, journal>>
historyVars == <<epoch, claimed, archive>>
localVars   == <<pc, turn, end, seen, wire, handler, reply>>
vars == <<storeVars, localVars, effects, historyVars>>

Turn  == [caller: Callers, transcript: Transcripts, recovering: BOOLEAN]
Sight == [view: View, at: Nat]
Reply == [status: {200, 409, 503}, receipt: Receipt \cup {None}]
Claiming == [op: {"claim"}, revision: Nat, ledger: Ledger,
             replace: Requests \cup {None}, lease: Nat, deadline: Int,
             result: {"sent", "yes", "no"}]
Committing == [op: {"commit"}, revision: Nat, token: Requests,
               ledger: {l \in Ledger : l.receipts /= <<>>},
               active: ActiveTTLs, result: {"sent", "yes", "no"}]

\* Nor is the absent value one of these.
ASSUME NoCommandAssumption ==
  /\ None \notin Turn /\ None \notin Sight /\ None \notin Reply
  /\ None \notin Claiming /\ None \notin Committing

Init ==
  /\ now = 0
  /\ \E lost \in BOOLEAN :
       record = [NoRecord EXCEPT !.orphan = lost,
                                 !.expiresAt = IF lost THEN 1 ELSE 0]
  /\ journal = 0
  /\ pc = [r \in Requests |-> "new"]
  /\ turn = [r \in Requests |-> None]
  /\ end = [r \in Requests |-> 0]
  /\ seen = [r \in Requests |-> None]
  /\ wire = [r \in Requests |-> None]
  /\ handler = [r \in Requests |-> "none"]
  /\ reply = [r \in Requests |-> None]
  /\ effects = {}
  /\ epoch = 0
  /\ claimed = [r \in Requests |-> None]
  /\ archive = {}

-----------------------------------------------------------------------------
(* Helpers.                                                                *)

\* TurnBudget.check: a task starts only inside the budget.
InBudget(r) == now < end[r]

\* Wrong: the binding is never compared.
BoundToAnyone(view, t) == view.ledger /= None => t.caller \in Callers

\* adapter.bindSession against the ledger that was read.
Bound(view, t) == view.ledger /= None => view.ledger.binding = t.caller

\* The receipts of the view for this very turn (same fingerprint).
ReceiptsFor(view, t) ==
  IF view.ledger = None THEN {}
  ELSE {view.ledger.receipts[i] : i \in
          {j \in 1..Len(view.ledger.receipts) :
             view.ledger.receipts[j].transcript = t.transcript}}

Extends(long, short) ==
  /\ Len(short) < Len(long)
  /\ SubSeq(long, 1, Len(short)) = short

\* Wrong: any longer transcript is the next one.
CompareTranscriptNoGap(transcript, previous) ==
  CASE previous = None ->
         IF Len(transcript) = 0 THEN "initial" ELSE "missing_initial"
    [] previous /= None /\ previous = transcript -> "repeat"
    [] previous /= None /\ Extends(previous, transcript) -> "stale"
    [] previous /= None /\ Extends(transcript, previous) -> "next"
    [] OTHER -> "conflict"

\* adapter.compareTranscript.
CompareTranscript(transcript, previous) ==
  CASE previous = None ->
         IF Len(transcript) = 0 THEN "initial" ELSE "missing_initial"
    [] previous /= None /\ previous = transcript -> "repeat"
    [] previous /= None /\ Extends(previous, transcript) -> "stale"
    [] previous /= None /\ Extends(transcript, previous) ->
         IF Len(transcript) = Len(previous) + 1 THEN "next" ELSE "gap"
    [] OTHER -> "conflict"

PreviousTranscript(view) ==
  IF view.ledger = None THEN None ELSE view.ledger.transcript

\* What process() decides on the view right after reading it.
Refused(view, t) ==
  \/ view.orphan
  \/ ~Bound(view, t)
Replayed(view, t) == ~Refused(view, t) /\ ReceiptsFor(view, t) /= {}
SeenClosed(view, t) ==
  /\ ~Refused(view, t)
  /\ ReceiptsFor(view, t) = {}
  /\ ~t.recovering /\ view.closed

\* The status a turn that is neither replayed nor closed is turned away
\* with, or 0 when it may claim.
Turnaway(view, t) ==
  LET pending == PendingOf(view)
      relation == CompareTranscript(t.transcript, PreviousTranscript(view))
      full == view.ledger /= None /\ Len(view.ledger.receipts) >= MaxTurns
  IN  IF pending /= None
      THEN IF ~t.recovering \/ pending.transcript /= t.transcript THEN 503
           ELSE IF full THEN 409 ELSE 0
      ELSE IF \/ t.recovering
              \/ relation \notin {"initial", "next"}
              \/ view.ledger /= None /\ view.ledger.completed
              \/ view.ledger /= None /\ view.activeExpiresAt <= view.now
              \/ full
           THEN 409 ELSE 0

\* The ledger a claim installs: the one read, or a fresh one, now pending.
ClaimedLedger(view, t, r) ==
  LET pending == [token |-> r, transcript |-> t.transcript,
                  kind |-> IF t.recovering THEN "recovery" ELSE "turn"]
  IN  IF view.ledger = None
      THEN [revision |-> 0, binding |-> t.caller, transcript |-> None,
            completed |-> FALSE, receipts |-> <<>>, pending |-> pending]
      ELSE [view.ledger EXCEPT !.pending = pending]

\* Wrong: a commit keeps the revision.
CommittedLedgerSameRevision(ledger, t, response) ==
  [ledger EXCEPT !.pending = None,
                 !.transcript = t.transcript,
                 !.completed = response.end,
                 !.receipts = Append(@, [transcript |-> t.transcript,
                                         response |-> response])]

\* The ledger a commit installs.
CommittedLedger(ledger, t, response) ==
  [ledger EXCEPT !.pending = None,
                 !.revision = @ + 1,
                 !.transcript = t.transcript,
                 !.completed = response.end,
                 !.receipts = Append(@, [transcript |-> t.transcript,
                                         response |-> response])]

Goto(r, label) == pc' = [pc EXCEPT ![r] = label]

\* What is left of a request that is over: a command still on its way (and
\* the end of the budget it was sent in).
OnItsWay(r) == wire[r] /= None /\ wire[r].result = "sent"
Leave(r) ==
  /\ seen' = [seen EXCEPT ![r] = None]
  /\ wire' = [wire EXCEPT ![r] = IF OnItsWay(r) THEN @ ELSE None]
  /\ end' = [end EXCEPT ![r] = IF OnItsWay(r) THEN @ ELSE 0]

Answer(r, status, receipt) ==
  /\ Goto(r, "done")
  /\ reply' = [reply EXCEPT ![r] = [status |-> status, receipt |-> receipt]]
  /\ Leave(r)
-----------------------------------------------------------------------------
(* One request, await by await.                                            *)

\* A wire request arrives: handle, or recover called by an operator.
Start(r) ==
  /\ pc[r] = "new"
  /\ now + Deadline <= MaxNow
  /\ \E t \in Turn : turn' = [turn EXCEPT ![r] = t]
  /\ end' = [end EXCEPT ![r] = now + Deadline]
  /\ Goto(r, "reading")
  /\ UNCHANGED <<storeVars, seen, wire, handler, reply, effects,
                 historyVars>>

\* The store executes the read of the record and its clock.
ReadRecord(r) ==
  /\ pc[r] = "reading"
  /\ InBudget(r)
  /\ seen' = [seen EXCEPT ![r] = [view |-> Read(record, now), at |-> now]]
  /\ Goto(r, "read")
  /\ UNCHANGED <<storeVars, turn, end, wire, handler, reply,
                 effects, historyVars>>

\* The response of the read arrives: anchor the store's clock, and answer at
\* once when the view already decides.
ObserveRecord(r) ==
  LET view == seen[r].view  t == turn[r] IN
  /\ pc[r] = "read"
  /\ \/ Refused(view, t) /\ Answer(r, 409, None)
     \/ /\ Replayed(view, t)
        /\ \E receipt \in ReceiptsFor(view, t) : Answer(r, 200, receipt)
     \/ SeenClosed(view, t) /\ Answer(r, 409, None)
     \/ /\ ~Refused(view, t)
        /\ ReceiptsFor(view, t) = {}
        /\ ~SeenClosed(view, t)
        /\ seen' = [seen EXCEPT ![r].at = now]
        /\ Goto(r, IF Events /\ ~t.recovering THEN "journal" ELSE "deciding")
        /\ UNCHANGED <<end, wire, reply>>
  /\ UNCHANGED <<storeVars, turn, handler, effects, historyVars>>

\* eventStore.read: an end event closes the session even when the record
\* carrying the closed flag is gone.
ReadJournal(r) ==
  /\ pc[r] = "journal"
  /\ InBudget(r)
  /\ \/ journal /= 0 /\ Answer(r, 409, None)
     \/ /\ journal = 0
        /\ Goto(r, "deciding")
        /\ UNCHANGED <<end, seen, wire, reply>>
  /\ UNCHANGED <<storeVars, turn, handler, effects, historyVars>>

\* Pending, order, activity and capacity checks on the view that was read.
TurnAway(r) ==
  /\ pc[r] = "deciding"
  /\ Turnaway(seen[r].view, turn[r]) /= 0
  /\ Answer(r, Turnaway(seen[r].view, turn[r]), None)
  /\ UNCHANGED <<storeVars, turn, handler, effects, historyVars>>

\* The budget shrinks to the lease and the claim is sent, carrying the
\* ownership deadline in the store's own time (budget.storeDeadline).
SendClaim(r) ==
  LET view == seen[r].view  t == turn[r]
      stop == Earlier(end[r], now + Lease)
  IN
  /\ pc[r] = "deciding"
  /\ Turnaway(view, t) = 0
  /\ InBudget(r)
  /\ end' = [end EXCEPT ![r] = stop]
  /\ wire' = [wire EXCEPT ![r] =
       [op |-> "claim", revision |-> Revision(view),
        ledger |-> ClaimedLedger(view, t, r),
        replace |-> IF t.recovering THEN PendingOf(view).token ELSE None,
        lease |-> stop - now, deadline |-> view.now + stop - seen[r].at,
        result |-> "sent"]]
  /\ seen' = [seen EXCEPT ![r] = None]
  /\ Goto(r, "claiming")
  /\ UNCHANGED <<storeVars, turn, handler, reply, effects, historyVars>>

\* The store executes a claim that was sent, at any time, if ever.
StoreClaim(r) ==
  /\ OnItsWay(r) /\ wire[r].op = "claim"
  /\ \/ /\ ClaimAllowed(record, wire[r], now)
        /\ record' = Claim(record, wire[r], now)
        /\ wire' = [wire EXCEPT ![r].result = "yes"]
        /\ claimed' = [claimed EXCEPT ![r] = epoch]
     \/ /\ ~ClaimAllowed(record, wire[r], now)
        /\ wire' = [wire EXCEPT ![r].result = "no"]
        /\ UNCHANGED <<record, claimed>>
  /\ UNCHANGED <<now, journal, pc, turn, end, seen, handler, reply, effects,
                 epoch, archive>>

\* The claim's answer arrives: own the turn, or look again.
ClaimAnswered(r) ==
  /\ pc[r] = "claiming"
  /\ ~OnItsWay(r)
  /\ Goto(r, IF wire[r].result = "yes" THEN "owner" ELSE "rereading")
  /\ UNCHANGED <<storeVars, turn, end, seen, wire, handler, reply, effects,
                 historyVars>>

\* The claim was lost: a competing commit may hold the exact response.
Reread(r) ==
  LET view == Read(record, now)  t == turn[r] IN
  /\ pc[r] = "rereading"
  /\ InBudget(r)
  /\ \/ ~Bound(view, t) /\ Answer(r, 409, None)
     \/ /\ Bound(view, t) /\ ReceiptsFor(view, t) /= {}
        /\ \E receipt \in ReceiptsFor(view, t) : Answer(r, 200, receipt)
     \/ /\ Bound(view, t) /\ ReceiptsFor(view, t) = {}
        /\ Answer(r, 503, None)
  /\ UNCHANGED <<storeVars, turn, handler, effects, historyVars>>

\* machine.prepareTurn runs the handler on a staged session.
StartHandler(r) ==
  /\ pc[r] = "owner" /\ ~turn[r].recovering
  /\ InBudget(r)
  /\ handler' = [handler EXCEPT ![r] = "running"]
  /\ Goto(r, "running")
  /\ UNCHANGED <<storeVars, turn, end, seen, wire, reply, effects,
                 historyVars>>

\* The handler's business effect happens.  It does not wait for a worker
\* that already gave up, or died after the call left.
HandlerEffect(r) ==
  /\ handler[r] = "running"
  /\ handler' = [handler EXCEPT ![r] = "done"]
  /\ effects' = effects \cup {turn[r].transcript}
  /\ UNCHANGED <<storeVars, pc, turn, end, seen, wire, reply, historyVars>>

\* The handler returned; or recoverTurn reconstructed the response of a
\* confirmed effect from the application's journal, without the handler.
Prepared(r) ==
  \/ pc[r] = "running" /\ handler[r] = "done"
  \/ pc[r] = "owner" /\ turn[r].recovering /\ turn[r].transcript \in effects

\* recoverTurn finds no confirmed outcome and returns null.
Unresolved(r) ==
  /\ pc[r] = "owner" /\ turn[r].recovering
  /\ turn[r].transcript \notin effects
  /\ Answer(r, 503, None)
  /\ UNCHANGED <<storeVars, turn, handler, effects, historyVars>>

\* The result passes the size bound and the budget is checked once more:
\* snapshot and receipt go out in one commit.
SendCommit(r) ==
  /\ Prepared(r)
  /\ InBudget(r)
  /\ \E ended \in Endings, active \in ActiveTTLs :
       wire' = [wire EXCEPT ![r] =
         [op |-> "commit", revision |-> wire[r].revision, token |-> r,
          ledger |-> CommittedLedger(wire[r].ledger, turn[r],
                                     [by |-> r, end |-> ended]),
          active |-> active, result |-> "sent"]]
  /\ Goto(r, "committing")
  /\ UNCHANGED <<storeVars, turn, end, seen, handler, reply, effects,
                 historyVars>>

\* The size bounds (_bounded): a claim too large is refused before the
\* execution, a result too large after it, and then the turn stays pending.
Oversized(r) ==
  /\ \/ pc[r] = "deciding" /\ Turnaway(seen[r].view, turn[r]) = 0
     \/ Prepared(r)
  /\ Answer(r, 409, None)
  /\ UNCHANGED <<storeVars, turn, handler, effects, historyVars>>

LastReceipt(ledger) == ledger.receipts[Len(ledger.receipts)]

\* The store executes a commit that was sent, at any time, if ever.
StoreCommit(r) ==
  /\ OnItsWay(r) /\ wire[r].op = "commit"
  /\ \/ /\ CommitAllowed(record, wire[r], now)
        /\ record' = Commit(record, wire[r], now)
        /\ wire' = [wire EXCEPT ![r].result = "yes"]
        /\ archive' = archive \cup
             {<<epoch, wire[r].ledger.binding, LastReceipt(wire[r].ledger)>>}
     \/ /\ ~CommitAllowed(record, wire[r], now)
        /\ wire' = [wire EXCEPT ![r].result = "no"]
        /\ UNCHANGED <<record, archive>>
  /\ UNCHANGED <<now, journal, pc, turn, end, seen, handler, reply, effects,
                 epoch, claimed>>

\* Wrong: a refused commit is answered as if it were durable.
CommitAnsweredAnyway(r) ==
  /\ pc[r] = "committing"
  /\ ~OnItsWay(r)
  /\ Answer(r, 200, LastReceipt(wire[r].ledger))
  /\ UNCHANGED <<storeVars, turn, handler, effects, historyVars>>

\* The commit's answer arrives.  Notifications are best effort and cannot
\* change a response that is already durable.
CommitAnswered(r) ==
  /\ pc[r] = "committing"
  /\ ~OnItsWay(r)
  /\ IF wire[r].result = "yes"
     THEN Answer(r, 200, LastReceipt(wire[r].ledger))
     ELSE Answer(r, 503, None)
  /\ UNCHANGED <<storeVars, turn, handler, effects, historyVars>>
-----------------------------------------------------------------------------
(* What can happen to a request at any await.                              *)

Working == {"reading", "read", "journal", "deciding", "claiming",
            "rereading", "owner", "running", "committing"}

\* Wrong: the budget does not bound the commit.
AbortBeforeCommit(r) ==
  /\ pc[r] \in Working \ {"committing"}
  /\ Answer(r, 503, None)
  /\ UNCHANGED <<storeVars, turn, handler, effects, historyVars>>

\* The budget is aborted: its timer fired, the caller disconnected, a
\* dependency failed or the handler threw.  Commands sent and the handler
\* are not stopped by it.  503 stands for every 5xx answer.
Abort(r) ==
  /\ pc[r] \in Working
  /\ Answer(r, 503, None)
  /\ UNCHANGED <<storeVars, turn, handler, effects, historyVars>>

\* The ownership monitor read the record and the turn is no longer this
\* request's.
LoseOwnership(r) ==
  LET view == Read(record, now) IN
  /\ pc[r] \in {"owner", "running", "committing"}
  /\ \/ PendingOf(view) = None
     \/ PendingOf(view) /= None /\ PendingOf(view).token /= r
     \/ Revision(view) /= wire[r].revision
     \/ ~turn[r].recovering /\ view.closed
  /\ Answer(r, 503, None)
  /\ UNCHANGED <<storeVars, turn, handler, effects, historyVars>>

\* The worker process dies: no answer, and nothing it held survives.
Crash(r) ==
  /\ pc[r] \in Working
  /\ Goto(r, "crashed")
  /\ Leave(r)
  /\ UNCHANGED <<storeVars, turn, handler, reply, effects, historyVars>>
-----------------------------------------------------------------------------
(* The surroundings.                                                       *)

\* RedisSessionEventStore's ACCEPT: journal and closed flag together.
ProviderClose ==
  /\ Events
  /\ \E caller \in Callers : CloseAllowed(record, caller)
  /\ journal' = now + EventTTL
  /\ record' = Close(record, now)
  /\ UNCHANGED <<now, localVars, effects, historyVars>>

\* Time passes in the store, and keys whose time has come are gone.
Tick ==
  /\ now < MaxNow
  /\ now' = now + 1
  /\ record' = ExpireRecord(record, now')
  /\ journal' = IF journal <= now' THEN 0 ELSE journal
  /\ epoch' = IF record.ledger /= None /\ record'.ledger = None
              THEN epoch + 1 ELSE epoch
  /\ UNCHANGED <<localVars, effects, claimed, archive>>

Step(r) ==
  \/ Start(r) \/ ReadRecord(r) \/ ObserveRecord(r) \/ ReadJournal(r)
  \/ TurnAway(r) \/ SendClaim(r) \/ StoreClaim(r) \/ ClaimAnswered(r)
  \/ Reread(r) \/ StartHandler(r) \/ HandlerEffect(r) \/ Unresolved(r)
  \/ SendCommit(r) \/ Oversized(r) \/ StoreCommit(r) \/ CommitAnswered(r)
  \/ Abort(r) \/ LoseOwnership(r) \/ Crash(r)

Next == (\E r \in Requests : Step(r)) \/ ProviderClose \/ Tick

Spec == Init /\ [][Next]_vars
-----------------------------------------------------------------------------
(* Fairness: the store's clock advances and the budget's timer fires once  *)
(* the deadline has passed (setTimeout in TurnBudget.arm).  Nothing else   *)
(* is promised: dependencies may hang and workers may die.                 *)

DeadlineFires(r) == now >= end[r] /\ Abort(r)

FairSpec ==
  /\ Spec
  /\ WF_vars(Tick)
  /\ \A r \in Requests : WF_vars(DeadlineFires(r))
-----------------------------------------------------------------------------
(* Properties.                                                             *)

\* Every variable stays in its type; a request past its claim has a command
\* on the wire and one that decides has a view.
TypeOK ==
  /\ now \in Nat
  /\ record \in Record
  /\ journal \in Nat
  /\ pc \in [Requests -> Working \cup {"new", "done", "crashed"}]
  /\ turn \in [Requests -> Turn \cup {None}]
  /\ end \in [Requests -> Nat]
  /\ seen \in [Requests -> Sight \cup {None}]
  /\ wire \in [Requests -> Claiming \cup Committing \cup {None}]
  /\ handler \in [Requests -> {"none", "running", "done"}]
  /\ reply \in [Requests -> Reply \cup {None}]
  /\ effects \in SUBSET Transcripts
  /\ epoch \in Nat
  /\ claimed \in [Requests -> Nat \cup {None}]
  /\ archive \in SUBSET (Nat \X Callers \X Receipt)

\* Within one retention period a turn's handler is started at most once,
\* whatever is retried, duplicated, lost, crashed or recovered: "A known
\* request returns its recorded [response] without rerunning handlers"
\* and a pending one blocks (docs/TURN-RECEIPTS.md).
HandlerAtMostOnce ==
  \A r, s \in Requests :
    /\ r /= s
    /\ handler[r] /= "none" /\ handler[s] /= "none"
    /\ claimed[r] = claimed[s]
    => turn[r].transcript /= turn[s].transcript

\* The ledger is a chain: as many receipts as revisions, each transcript one
\* input longer than the one before, nothing after an END, and the ledger's
\* transcript and completion are those of its last receipt.
ReceiptsChain ==
  LET ledger == record.ledger  n == Len(ledger.receipts) IN
  ledger /= None =>
    /\ ledger.revision = n
    /\ ledger.transcript =
         IF n = 0 THEN None ELSE ledger.receipts[n].transcript
    /\ ledger.completed = (n > 0 /\ ledger.receipts[n].response.end)
    /\ \A i \in 1..n :
         /\ Len(ledger.receipts[i].transcript) = i - 1
         /\ i > 1 => Extends(ledger.receipts[i].transcript,
                             ledger.receipts[i - 1].transcript)
         /\ i < n => ~ledger.receipts[i].response.end

\* A 200 answer was durable before it was sent, for that very turn and for
\* the caller the session is bound to; a lost claim's reread included.
AnswersAreDurable ==
  \A r \in Requests :
    reply[r] /= None /\ reply[r].status = 200 =>
      /\ reply[r].receipt.transcript = turn[r].transcript
      /\ \E e \in 0..epoch :
           <<e, turn[r].caller, reply[r].receipt>> \in archive

\* A turn has one response per retention period: a duplicate, a retry or a
\* recovery never installs a second one.
OneResponsePerTurn ==
  \A a, b \in archive :
    a[1] = b[1] /\ a[3].transcript = b[3].transcript => a = b

\* A commit that takes effect does so inside its request's budget, on the
\* store's clock: after the deadline's 503 no late snapshot is installed,
\* however long the claim or the commit was delayed on the way.
TakesEffect(r, op) ==
  /\ wire[r] /= None /\ wire'[r] /= None
  /\ wire[r].op = op /\ wire'[r].op = op
  /\ wire[r].result = "sent" /\ wire'[r].result = "yes"
NoLateCommit ==
  [][\A r \in Requests : TakesEffect(r, "commit") => now < end[r]]_vars

\* Once an end event is accepted, no ordinary claim or commit takes effect
\* while the event is retained, also for turns that read the record before
\* it; only a recovery may still commit.
ClosedFence ==
  [][\A r \in Requests :
       /\ TakesEffect(r, "claim") \/ TakesEffect(r, "commit")
       /\ journal /= 0
       => turn[r].recovering]_vars

\* While the record lives, receipts are only appended, one at a time, and
\* the caller binding never changes.
ReceiptsOnlyGrow ==
  [][record.ledger /= None /\ record'.ledger /= None =>
       LET old == record.ledger.receipts  new == record'.ledger.receipts IN
         /\ record'.ledger.binding = record.ledger.binding
         /\ Len(new) \in {Len(old), Len(old) + 1}
         /\ SubSeq(new, 1, Len(old)) = old]_vars

\* A pending turn changes hands only to a recovery of the same turn: no
\* automatic takeover, however old the owner's lease.
NoTakeover ==
  [][LET old == PendingOf(record)  new == PendingOf(record') IN
       old /= None /\ new /= None /\ new.token /= old.token =>
         new.kind = "recovery" /\ new.transcript = old.transcript]_vars

\* Every request that started is answered, unless its worker died.
Answered ==
  \A r \in Requests :
    pc[r] \in Working ~> pc[r] \in {"done", "crashed"}

(***************************************************************************)
(* The gateway implements TurnLog: the log is the ledger's receipts, and   *)
(* the entries carry the caller the ledger is bound to.                    *)
(***************************************************************************)
EntryOf(caller, receipt) ==
  [caller |-> caller, transcript |-> receipt.transcript,
   response |-> receipt.response]
LogOf(rec) ==
  IF rec.ledger = None THEN <<>>
  ELSE [i \in 1..Len(rec.ledger.receipts) |->
          EntryOf(rec.ledger.binding, rec.ledger.receipts[i])]
AnswerOf(r) ==
  IF reply[r] /= None /\ reply[r].status = 200
  THEN EntryOf(turn[r].caller, reply[r].receipt) ELSE None

Log == INSTANCE TurnLog WITH
  Entries <- [caller: Callers, transcript: Transcripts, response: Response],
  log <- LogOf(record), age <- epoch,
  archive <- {<<a[1], EntryOf(a[2], a[3])>> : a \in archive},
  answers <- [r \in Requests |-> AnswerOf(r)]

\* The gateway implements TurnLog.
ImplementsTurnLog == Log!LogSpec
=============================================================================
