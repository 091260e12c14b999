------------------------- MODULE TurnGatewayProofs -------------------------
(***************************************************************************)
(* Theorems about TurnGateway, for every value of its constants.           *)
(***************************************************************************)
EXTENDS TurnGateway, SequenceTheorems, TLAPS

(***************************************************************************)
(* Where a request stands says what it holds.                              *)
(***************************************************************************)
Looking == {"read", "journal", "deciding"}
Holding == {"claiming", "rereading", "owner", "running", "committing"}

Shape(r) ==
  /\ pc[r] = "new" => turn[r] = None
  /\ pc[r] /= "new" => turn[r] \in Turn
  /\ pc[r] \in {"new", "reading"} \cup Looking =>
       wire[r] = None /\ handler[r] = "none" /\ claimed[r] = None
  /\ pc[r] \in Looking => seen[r] \in Sight
  /\ pc[r] \in Holding => wire[r] /= None
  /\ pc[r] = "claiming" => wire[r].op = "claim"
  /\ pc[r] = "rereading" => wire[r].op = "claim" /\ wire[r].result = "no"
  /\ pc[r] \in {"owner", "running"} =>
       wire[r].op = "claim" /\ wire[r].result = "yes"
  /\ pc[r] = "committing" => wire[r].op = "commit"

TypeInv == TypeOK /\ \A r \in Requests : Shape(r)

USE TranscriptsAssumption, TTLAssumption, NoneAssumption, GatewayAssumption,
    NoCommandAssumption

LEMMA TypeInit == Init => TypeInv
<1> SUFFICES ASSUME Init PROVE TypeInv OBVIOUS
<1>1. record \in Record
  <2>1. PICK lost \in BOOLEAN :
          record = [NoRecord EXCEPT !.orphan = lost,
                                    !.expiresAt = IF lost THEN 1 ELSE 0]
    BY DEF Init
  <2>2. CASE lost BY <2>1, <2>2 DEF NoRecord, Record
  <2>3. CASE ~lost BY <2>1, <2>3 DEF NoRecord, Record
  <2>4. QED BY <2>2, <2>3
<1>2. TypeOK BY <1>1 DEF Init, TypeOK
<1>3. \A r \in Requests : Shape(r)
  BY DEF Init, Shape, Looking, Holding
<1>4. QED BY <1>2, <1>3 DEF TypeInv

\* The operators of the store and of the gateway stay in their types.
LEMMA ReadType ==
  ASSUME NEW rec \in Record, NEW t \in Nat
  PROVE  Read(rec, t) \in View
BY DEF Record, Read, View

LEMMA ClaimedLedgerType ==
  ASSUME NEW view \in View, NEW t \in Turn, NEW r \in Requests
  PROVE  ClaimedLedger(view, t, r) \in Ledger
<1> DEFINE pending == [token |-> r, transcript |-> t.transcript,
                       kind |-> IF t.recovering THEN "recovery" ELSE "turn"]
<1>1. pending \in Pending
  <2>1. (IF t.recovering THEN "recovery" ELSE "turn") \in {"turn", "recovery"}
    OBVIOUS
  <2>2. QED BY <2>1 DEF Pending, Turn
<1>2. ClaimedLedger(view, t, r) =
        IF view.ledger = None
        THEN [revision |-> 0, binding |-> t.caller, transcript |-> None,
              completed |-> FALSE, receipts |-> <<>>, pending |-> pending]
        ELSE [view.ledger EXCEPT !.pending = pending]
  BY DEF ClaimedLedger
<1> HIDE DEF pending
<1>3. CASE view.ledger = None BY <1>1, <1>2, <1>3 DEF Turn, Ledger
<1>4. CASE view.ledger /= None
  <2>1. view.ledger \in Ledger BY <1>4 DEF View
  <2>2. ClaimedLedger(view, t, r) = [view.ledger EXCEPT !.pending = pending]
    BY <1>2, <1>4
  <2>3. QED BY <1>1, <2>1, <2>2 DEF Ledger
<1>5. QED BY <1>3, <1>4

LEMMA CommittedLedgerType ==
  ASSUME NEW ledger \in Ledger, NEW t \in Turn, NEW response \in Response
  PROVE  CommittedLedger(ledger, t, response) \in {l \in Ledger : l.receipts /= <<>>}
<1> DEFINE receipt == [transcript |-> t.transcript, response |-> response]
<1>1. receipt \in Receipt BY DEF Receipt, Turn
<1> HIDE DEF receipt
<1>2. /\ Append(ledger.receipts, receipt) \in Seq(Receipt)
      /\ Append(ledger.receipts, receipt) /= <<>>
  BY <1>1 DEF Ledger
<1>3. ledger.revision + 1 \in Nat /\ t.transcript \in Transcripts
      /\ response.end \in BOOLEAN
  BY DEF Ledger, Turn, Response
<1>4. CommittedLedger(ledger, t, response) =
        [ledger EXCEPT !.pending = None, !.revision = ledger.revision + 1,
                       !.transcript = t.transcript, !.completed = response.end,
                       !.receipts = Append(ledger.receipts, receipt)]
  BY DEF CommittedLedger, receipt, Ledger
<1>5. QED BY <1>2, <1>3, <1>4 DEF Ledger

LEMMA LastReceiptType ==
  ASSUME NEW ledger \in Ledger, ledger.receipts /= <<>>
  PROVE  LastReceipt(ledger) \in Receipt
BY DEF LastReceipt, Ledger

LEMMA ReceiptsForType ==
  ASSUME NEW view \in View, NEW t \in Turn
  PROVE  ReceiptsFor(view, t) \subseteq Receipt
BY DEF View, Turn, ReceiptsFor, Ledger

LEMMA ClaimType ==
  ASSUME NEW rec \in Record, NEW cmd \in Claiming, NEW t \in Nat,
         ClaimAllowed(rec, cmd, t)
  PROVE  Claim(rec, cmd, t) \in Record
<1> DEFINE owner == Earlier(t + cmd.lease, cmd.deadline)
<1>1. owner \in Nat BY DEF Claiming, ClaimAllowed, Earlier
<1>2. Claim(rec, cmd, t) = [rec EXCEPT !.ledger = cmd.ledger,
                                       !.ownerExpiresAt = owner,
                                       !.expiresAt = t + ReceiptTTL]
  BY DEF Claim
<1> HIDE DEF owner
<1>3. cmd.ledger \in Ledger /\ t + ReceiptTTL \in Nat BY DEF Claiming
<1>4. QED BY <1>1, <1>2, <1>3 DEF Record

LEMMA CommitType ==
  ASSUME NEW rec \in Record, NEW cmd \in Committing, NEW t \in Nat
  PROVE  Commit(rec, cmd, t) \in Record
<1>1. cmd.ledger \in Ledger BY DEF Committing
<1>2. t + cmd.active \in Nat /\ t + ReceiptTTL \in Nat
  <2>1. PICK active \in ActiveTTLs : active = cmd.active BY DEF Committing
  <2>2. active \in Nat OBVIOUS
  <2>3. QED BY <2>1, <2>2
<1>3. QED BY <1>1, <1>2 DEF Record, Commit

LEMMA CloseType ==
  ASSUME NEW rec \in Record, NEW t \in Nat
  PROVE  Close(rec, t) \in Record
<1> DEFINE expiry == IF rec.expiresAt = 0 THEN t + EventTTL ELSE rec.expiresAt
<1>1. expiry \in Nat BY DEF Record
<1>2. Close(rec, t) = [rec EXCEPT !.closed = TRUE, !.expiresAt = expiry]
  BY DEF Close, Record
<1> HIDE DEF expiry
<1>3. QED BY <1>1, <1>2 DEF Record

LEMMA ExpireType ==
  ASSUME NEW rec \in Record, NEW t \in Nat
  PROVE  ExpireRecord(rec, t) \in Record
BY DEF Record, ExpireRecord, NoRecord

LEMMA TurnawayType ==
  ASSUME NEW view \in View, NEW t \in Turn, Turnaway(view, t) /= 0
  PROVE  Turnaway(view, t) \in {409, 503}
BY DEF Turnaway

(***************************************************************************)
(* Type correctness is preserved, action by action.                        *)
(***************************************************************************)
\* Answering, by any of the actions that answer.
LEMMA AnswerType ==
  ASSUME TypeInv, NEW r \in Requests, pc[r] \in Working,
         NEW status \in {200, 409, 503}, NEW receipt \in Receipt \cup {None},
         Answer(r, status, receipt),
         UNCHANGED <<storeVars, turn, handler, effects, historyVars>>
  PROVE  TypeInv'
<1> USE DEF Answer, Goto, Leave, storeVars, historyVars
<1>1. TypeOK'
  <2>1. reply' \in [Requests -> Reply \cup {None}]
    BY DEF TypeInv, TypeOK, Reply
  <2>2. end' \in [Requests -> Nat] /\ seen' \in [Requests -> Sight \cup {None}]
    BY DEF TypeInv, TypeOK
  <2>3. wire' \in [Requests -> Claiming \cup Committing \cup {None}]
    BY DEF TypeInv, TypeOK
  <2>4. QED BY <2>1, <2>2, <2>3 DEF TypeInv, TypeOK
<1>2. ASSUME NEW q \in Requests PROVE Shape(q)'
  <2>1. CASE q = r BY <2>1 DEF TypeInv, TypeOK, Shape, Looking, Holding, Working
  <2>2. CASE q /= r BY <2>2 DEF TypeInv, TypeOK, Shape
  <2>3. QED BY <2>1, <2>2
<1>3. QED BY <1>1, <1>2 DEF TypeInv

LEMMA StartType ==
  ASSUME TypeInv, NEW r \in Requests, Start(r) PROVE TypeInv'
<1> USE DEF Start, Goto, storeVars, historyVars
<1>1. TypeOK' BY DEF TypeInv, TypeOK, Working
<1>2. ASSUME NEW q \in Requests PROVE Shape(q)'
  BY DEF TypeInv, TypeOK, Shape, Looking, Holding
<1>3. QED BY <1>1, <1>2 DEF TypeInv

LEMMA ReadRecordType ==
  ASSUME TypeInv, NEW r \in Requests, ReadRecord(r) PROVE TypeInv'
<1> USE DEF ReadRecord, Goto, storeVars, historyVars
<1>1. [view |-> Read(record, now), at |-> now] \in Sight
  BY ReadType DEF TypeInv, TypeOK, Sight
<1>2. TypeOK' BY <1>1 DEF TypeInv, TypeOK, Working
<1>3. ASSUME NEW q \in Requests PROVE Shape(q)'
  BY <1>1 DEF TypeInv, TypeOK, Shape, Looking, Holding
<1>4. QED BY <1>2, <1>3 DEF TypeInv

LEMMA ObserveRecordType ==
  ASSUME TypeInv, NEW r \in Requests, ObserveRecord(r) PROVE TypeInv'
<1>1. seen[r] \in Sight /\ turn[r] \in Turn /\ pc[r] \in Working
  BY DEF TypeInv, ObserveRecord, Shape, Looking, Working
<1>2. seen[r].view \in View BY <1>1 DEF Sight
<1>3. ReceiptsFor(seen[r].view, turn[r]) \subseteq Receipt
  BY <1>1, <1>2, ReceiptsForType
<1>4. CASE \E receipt \in ReceiptsFor(seen[r].view, turn[r]) : Answer(r, 200, receipt)
  BY <1>1, <1>3, <1>4, AnswerType DEF ObserveRecord
<1>5. CASE Answer(r, 409, None)
  BY <1>1, <1>5, AnswerType DEF ObserveRecord
<1>6. CASE /\ seen' = [seen EXCEPT ![r].at = now]
           /\ Goto(r, IF Events /\ ~turn[r].recovering THEN "journal" ELSE "deciding")
           /\ UNCHANGED <<end, wire, reply>>
  <2> USE <1>1, <1>6 DEF ObserveRecord, Goto, storeVars, historyVars
  <2>1. [seen[r] EXCEPT !.at = now] \in Sight BY DEF TypeInv, TypeOK, Sight
  <2>2. TypeOK' BY <2>1 DEF TypeInv, TypeOK, Working
  <2>3. ASSUME NEW q \in Requests PROVE Shape(q)'
    BY <2>1 DEF TypeInv, TypeOK, Shape, Looking, Holding
  <2>4. QED BY <2>2, <2>3 DEF TypeInv
<1>7. QED BY <1>4, <1>5, <1>6 DEF ObserveRecord

LEMMA ReadJournalType ==
  ASSUME TypeInv, NEW r \in Requests, ReadJournal(r) PROVE TypeInv'
<1>1. pc[r] \in Working BY DEF ReadJournal, Working
<1>2. CASE Answer(r, 409, None) BY <1>1, <1>2, AnswerType DEF ReadJournal
<1>3. CASE Goto(r, "deciding") /\ UNCHANGED <<end, seen, wire, reply>>
  <2> USE <1>3 DEF ReadJournal, Goto, storeVars, historyVars
  <2>1. TypeOK' BY DEF TypeInv, TypeOK, Working
  <2>2. ASSUME NEW q \in Requests PROVE Shape(q)'
    BY DEF TypeInv, TypeOK, Shape, Looking, Holding
  <2>3. QED BY <2>1, <2>2 DEF TypeInv
<1>4. QED BY <1>2, <1>3 DEF ReadJournal

LEMMA TurnAwayType ==
  ASSUME TypeInv, NEW r \in Requests, TurnAway(r) PROVE TypeInv'
<1>1. seen[r] \in Sight /\ turn[r] \in Turn /\ pc[r] \in Working
  BY DEF TypeInv, TurnAway, Shape, Looking, Working
<1>2. Turnaway(seen[r].view, turn[r]) \in {409, 503}
  BY <1>1, TurnawayType DEF TurnAway, Sight
<1>3. QED BY <1>1, <1>2, AnswerType DEF TurnAway

LEMMA SendClaimType ==
  ASSUME TypeInv, NEW r \in Requests, SendClaim(r) PROVE TypeInv'
<1> DEFINE view == seen[r].view
           stop == Earlier(end[r], now + Lease)
           cmd  == [op |-> "claim", revision |-> Revision(view),
                    ledger |-> ClaimedLedger(view, turn[r], r),
                    replace |-> IF turn[r].recovering
                                THEN PendingOf(view).token ELSE None,
                    lease |-> stop - now,
                    deadline |-> view.now + stop - seen[r].at,
                    result |-> "sent"]
<1>1. seen[r] \in Sight /\ turn[r] \in Turn
  BY DEF TypeInv, SendClaim, Shape, Looking
<1>2. view \in View BY <1>1 DEF Sight
<1>3. /\ wire' = [wire EXCEPT ![r] = cmd]
      /\ end' = [end EXCEPT ![r] = stop]
  BY DEF SendClaim
<1>4. stop \in Nat /\ stop > now
  BY DEF SendClaim, InBudget, Earlier, TypeInv, TypeOK
<1>5. cmd \in Claiming
  <2>1. Revision(view) \in Nat BY <1>2 DEF View, Revision, Ledger
  <2>2. ClaimedLedger(view, turn[r], r) \in Ledger
    BY <1>1, <1>2, ClaimedLedgerType
  <2>3. (IF turn[r].recovering THEN PendingOf(view).token ELSE None)
          \in Requests \cup {None}
    <3>1. CASE turn[r].recovering
      <4>1. PendingOf(view) /= None
        BY <3>1 DEF SendClaim, Turnaway
      <4>2. PendingOf(view) \in Pending
        BY <1>2, <4>1 DEF PendingOf, View, Ledger
      <4>3. QED BY <3>1, <4>2 DEF Pending
    <3>2. QED BY <3>1
  <2>4. stop - now \in Nat /\ view.now + stop - seen[r].at \in Int
    BY <1>1, <1>2, <1>4 DEF Sight, View, TypeInv, TypeOK
  <2> HIDE DEF view, stop
  <2>5. QED BY <2>1, <2>2, <2>3, <2>4 DEF Claiming
<1> HIDE DEF cmd, stop, view
<1>6. TypeOK'
  BY <1>3, <1>4, <1>5
  DEF SendClaim, Goto, storeVars, historyVars, TypeInv, TypeOK, Working
<1>7. cmd.op = "claim" /\ cmd /= None
  BY <1>5 DEF Claiming
<1>8. ASSUME NEW q \in Requests PROVE Shape(q)'
  BY <1>3, <1>7, <1>1
  DEF SendClaim, Goto, storeVars, historyVars, TypeInv, TypeOK, Shape,
      Looking, Holding
<1>9. QED BY <1>6, <1>8 DEF TypeInv

LEMMA StoreClaimType ==
  ASSUME TypeInv, NEW r \in Requests, StoreClaim(r) PROVE TypeInv'
<1>1. wire[r] \in Claiming /\ wire[r].result = "sent"
  BY DEF StoreClaim, OnItsWay, TypeInv, TypeOK, Committing
<1>2. PICK answer \in {"yes", "no"} :
        /\ wire' = [wire EXCEPT ![r].result = answer]
        /\ answer = "yes" => /\ ClaimAllowed(record, wire[r], now)
                             /\ record' = Claim(record, wire[r], now)
                             /\ claimed' = [claimed EXCEPT ![r] = epoch]
        /\ answer = "no" => UNCHANGED <<record, claimed>>
  BY DEF StoreClaim
<1>3. [wire[r] EXCEPT !.result = answer] \in Claiming BY <1>1 DEF Claiming
<1>4. record' \in Record
  <2>1. CASE answer = "yes"
    BY <1>1, <1>2, <2>1, ClaimType DEF TypeInv, TypeOK
  <2>2. CASE answer = "no" BY <1>2, <2>2 DEF TypeInv, TypeOK
  <2>3. QED BY <2>1, <2>2
<1>5. claimed' \in [Requests -> Nat \cup {None}]
  BY <1>2 DEF TypeInv, TypeOK
<1>6. TypeOK'
  BY <1>2, <1>3, <1>4, <1>5 DEF StoreClaim, TypeInv, TypeOK
<1>7. pc[r] \notin {"new", "reading"} \cup Looking
      /\ pc[r] \notin {"rereading", "owner", "running", "committing"}
  BY <1>1, NoneAssumption
  DEF TypeInv, Shape, OnItsWay, StoreClaim, Looking
<1>8. ASSUME NEW q \in Requests PROVE Shape(q)'
  <2>1. CASE q = r
    BY <1>2, <1>3, <1>7, <2>1
    DEF StoreClaim, OnItsWay, TypeInv, TypeOK, Shape, Looking, Holding, Claiming
  <2>2. CASE q /= r
    BY <1>2, <2>2 DEF StoreClaim, TypeInv, TypeOK, Shape
  <2>3. QED BY <2>1, <2>2
<1>9. QED BY <1>6, <1>8 DEF TypeInv

LEMMA ClaimAnsweredType ==
  ASSUME TypeInv, NEW r \in Requests, ClaimAnswered(r) PROVE TypeInv'
<1> USE DEF ClaimAnswered, OnItsWay, Goto, storeVars, historyVars
<1>1. TypeOK' BY DEF TypeInv, TypeOK, Working
<1>2. wire[r] \in Claiming /\ wire[r].result \in {"yes", "no"}
  BY DEF TypeInv, TypeOK, Shape, Holding, Claiming, Committing
<1>3. ASSUME NEW q \in Requests PROVE Shape(q)'
  BY <1>2 DEF TypeInv, TypeOK, Shape, Looking, Holding
<1>4. QED BY <1>1, <1>3 DEF TypeInv

LEMMA RereadType ==
  ASSUME TypeInv, NEW r \in Requests, Reread(r) PROVE TypeInv'
<1>1. turn[r] \in Turn /\ pc[r] \in Working
  BY DEF TypeInv, Reread, Shape, Working
<1>2. Read(record, now) \in View BY ReadType DEF TypeInv, TypeOK
<1>3. ReceiptsFor(Read(record, now), turn[r]) \subseteq Receipt
  BY <1>1, <1>2, ReceiptsForType
<1>4. QED BY <1>1, <1>3, AnswerType DEF Reread

LEMMA StartHandlerType ==
  ASSUME TypeInv, NEW r \in Requests, StartHandler(r) PROVE TypeInv'
<1> USE DEF StartHandler, Goto, storeVars, historyVars
<1>1. TypeOK' BY DEF TypeInv, TypeOK, Working
<1>2. ASSUME NEW q \in Requests PROVE Shape(q)'
  BY DEF TypeInv, TypeOK, Shape, Looking, Holding
<1>3. QED BY <1>1, <1>2 DEF TypeInv

LEMMA HandlerEffectType ==
  ASSUME TypeInv, NEW r \in Requests, HandlerEffect(r) PROVE TypeInv'
<1> USE DEF HandlerEffect, storeVars, historyVars
<1>1. turn[r] \in Turn BY DEF TypeInv, TypeOK, Shape
<1>2. TypeOK' BY <1>1 DEF TypeInv, TypeOK, Turn
<1>3. ASSUME NEW q \in Requests PROVE Shape(q)'
  BY DEF TypeInv, TypeOK, Shape, Looking, Holding
<1>4. QED BY <1>2, <1>3 DEF TypeInv

\* The requests that answer without a receipt.
LEMMA RefusalType ==
  ASSUME TypeInv, NEW r \in Requests,
         Unresolved(r) \/ Oversized(r) \/ Abort(r) \/ LoseOwnership(r)
  PROVE  TypeInv'
<1>1. pc[r] \in Working
  BY DEF Unresolved, Oversized, Prepared, Abort, LoseOwnership, Working
<1>2. Answer(r, 503, None) \/ Answer(r, 409, None)
  BY DEF Unresolved, Oversized, Abort, LoseOwnership
<1>3. UNCHANGED <<storeVars, turn, handler, effects, historyVars>>
  BY DEF Unresolved, Oversized, Abort, LoseOwnership
<1>4. QED BY <1>1, <1>2, <1>3, AnswerType

LEMMA SendCommitType ==
  ASSUME TypeInv, NEW r \in Requests, SendCommit(r) PROVE TypeInv'
<1>1. /\ turn[r] \in Turn /\ pc[r] \in {"owner", "running"}
      /\ wire[r] \in Claiming
  BY DEF SendCommit, Prepared, TypeInv, TypeOK, Shape, Holding, Committing
<1>2. PICK ended \in Endings, active \in ActiveTTLs :
        wire' = [wire EXCEPT ![r] =
          [op |-> "commit", revision |-> wire[r].revision, token |-> r,
           ledger |-> CommittedLedger(wire[r].ledger, turn[r],
                                      [by |-> r, end |-> ended]),
           active |-> active, result |-> "sent"]]
  BY DEF SendCommit
<1> DEFINE ledger == CommittedLedger(wire[r].ledger, turn[r],
                                     [by |-> r, end |-> ended])
           cmd == [op |-> "commit", revision |-> wire[r].revision,
                   token |-> r, ledger |-> ledger, active |-> active,
                   result |-> "sent"]
<1>3. ledger \in {l \in Ledger : l.receipts /= <<>>}
  <2>1. [by |-> r, end |-> ended] \in Response BY DEF Response
  <2>2. wire[r].ledger \in Ledger BY <1>1 DEF Claiming
  <2>3. QED BY <1>1, <2>1, <2>2, CommittedLedgerType
<1> HIDE DEF ledger
<1>4. cmd \in Committing
  BY <1>1, <1>3 DEF Committing, Claiming
<1>5. wire' = [wire EXCEPT ![r] = cmd] BY <1>2 DEF ledger
<1>6. cmd.op = "commit" /\ cmd /= None BY <1>4 DEF Committing
<1> HIDE DEF cmd
<1> USE DEF SendCommit, Goto, storeVars, historyVars
<1>7. TypeOK' BY <1>4, <1>5 DEF TypeInv, TypeOK, Working
<1>8. ASSUME NEW q \in Requests PROVE Shape(q)'
  BY <1>1, <1>5, <1>6 DEF TypeInv, TypeOK, Shape, Looking, Holding
<1>9. QED BY <1>7, <1>8 DEF TypeInv

LEMMA StoreCommitType ==
  ASSUME TypeInv, NEW r \in Requests, StoreCommit(r) PROVE TypeInv'
<1>1. wire[r] \in Committing /\ wire[r].result = "sent"
  BY DEF StoreCommit, OnItsWay, TypeInv, TypeOK, Claiming
<1>2. PICK answer \in {"yes", "no"} :
        /\ wire' = [wire EXCEPT ![r].result = answer]
        /\ answer = "yes" =>
             /\ record' = Commit(record, wire[r], now)
             /\ archive' = archive \cup {<<epoch, wire[r].ledger.binding,
                                           LastReceipt(wire[r].ledger)>>}
        /\ answer = "no" => UNCHANGED <<record, archive>>
  BY DEF StoreCommit
<1>3. [wire[r] EXCEPT !.result = answer] \in Committing BY <1>1 DEF Committing
<1>4. record' \in Record /\ archive' \in SUBSET (Nat \X Callers \X Receipt)
  <2>1. CASE answer = "yes"
    <3>1. wire[r].ledger \in Ledger /\ wire[r].ledger.receipts /= <<>>
      BY <1>1 DEF Committing
    <3>2. LastReceipt(wire[r].ledger) \in Receipt BY <3>1, LastReceiptType
    <3>3. wire[r].ledger.binding \in Callers BY <3>1 DEF Ledger
    <3>4. record' \in Record
      BY <1>1, <1>2, <2>1, CommitType DEF TypeInv, TypeOK
    <3>5. QED BY <1>2, <2>1, <3>2, <3>3, <3>4 DEF TypeInv, TypeOK
  <2>2. CASE answer = "no" BY <1>2, <2>2 DEF TypeInv, TypeOK
  <2>3. QED BY <2>1, <2>2
<1>5. TypeOK' BY <1>2, <1>3, <1>4 DEF StoreCommit, TypeInv, TypeOK
<1>6. pc[r] \notin {"new", "reading", "claiming", "rereading", "owner",
                    "running"} \cup Looking
  BY <1>1 DEF TypeInv, Shape, OnItsWay, StoreCommit, Looking
<1>7. ASSUME NEW q \in Requests PROVE Shape(q)'
  <2>1. CASE q = r
    BY <1>2, <1>3, <1>6, <2>1
    DEF StoreCommit, OnItsWay, TypeInv, TypeOK, Shape, Looking, Holding,
        Committing
  <2>2. CASE q /= r
    BY <1>2, <2>2 DEF StoreCommit, TypeInv, TypeOK, Shape
  <2>3. QED BY <2>1, <2>2
<1>8. QED BY <1>5, <1>7 DEF TypeInv

LEMMA CommitAnsweredType ==
  ASSUME TypeInv, NEW r \in Requests, CommitAnswered(r) PROVE TypeInv'
<1>1. pc[r] \in Working /\ wire[r] \in Committing
  BY DEF CommitAnswered, TypeInv, TypeOK, Shape, Working, Holding, Claiming
<1>2. LastReceipt(wire[r].ledger) \in Receipt
  BY <1>1, LastReceiptType DEF Committing
<1>3. QED BY <1>1, <1>2, AnswerType DEF CommitAnswered

LEMMA CrashType ==
  ASSUME TypeInv, NEW r \in Requests, Crash(r) PROVE TypeInv'
<1> USE DEF Crash, Goto, Leave, storeVars, historyVars
<1>1. TypeOK' BY DEF TypeInv, TypeOK
<1>2. ASSUME NEW q \in Requests PROVE Shape(q)'
  BY DEF TypeInv, TypeOK, Shape, Looking, Holding, Working
<1>3. QED BY <1>1, <1>2 DEF TypeInv

LEMMA SurroundingsType ==
  ASSUME TypeInv, ProviderClose \/ Tick PROVE TypeInv'
<1>1. record' \in Record
  BY CloseType, ExpireType DEF ProviderClose, Tick, TypeInv, TypeOK
<1>2. now' \in Nat /\ journal' \in Nat /\ epoch' \in Nat
  BY DEF ProviderClose, Tick, TypeInv, TypeOK, historyVars
<1>3. UNCHANGED <<localVars, effects, claimed, archive>>
  BY DEF ProviderClose, Tick, historyVars
<1>4. TypeOK' BY <1>1, <1>2, <1>3 DEF TypeInv, TypeOK, localVars
<1>5. ASSUME NEW q \in Requests PROVE Shape(q)'
  BY <1>3 DEF localVars, TypeInv, Shape
<1>6. QED BY <1>4, <1>5 DEF TypeInv

LEMMA TypeNext == TypeInv /\ [Next]_vars => TypeInv'
<1> SUFFICES ASSUME TypeInv, [Next]_vars PROVE TypeInv' OBVIOUS
<1>1. ASSUME NEW r \in Requests, Step(r) PROVE TypeInv'
  BY <1>1, StartType, ReadRecordType, ObserveRecordType, ReadJournalType,
     TurnAwayType, SendClaimType, StoreClaimType, ClaimAnsweredType,
     RereadType, StartHandlerType, HandlerEffectType, RefusalType,
     SendCommitType, StoreCommitType, CommitAnsweredType, CrashType
  DEF Step
<1>2. CASE UNCHANGED vars
  BY <1>2
  DEF vars, storeVars, localVars, historyVars, TypeInv, TypeOK, Shape
<1>3. QED BY <1>1, <1>2, SurroundingsType DEF Next

LEMMA TypeAlways == Spec => []TypeInv
BY TypeInit, TypeNext, PTL DEF Spec

\* Every state the gateway reaches has the types TypeOK states, whatever
\* the number of requests, callers and transcripts, the timeouts, the
\* deadlines and the receipt capacity.
THEOREM TypeCorrect == Spec => []TypeOK
<1>1. TypeInv => TypeOK BY DEF TypeInv
<1>2. QED BY <1>1, TypeAlways, PTL

(***************************************************************************)
(* The inductive invariant.                                                *)
(*                                                                         *)
(* A request decides on a view that may be stale by the time its command   *)
(* reaches the store.  What makes the store's checks (revision, token,     *)
(* deadline) sufficient is that a stale view which passes them still has   *)
(* the receipts of the record: revisions grow while the record lives, a    *)
(* token is claimed once, and a record read while its session was active   *)
(* outlives the reader's deadline.                                         *)
(***************************************************************************)
SameTurns(a, b) ==
  a.revision = b.revision /\ a.receipts = b.receipts /\ a.binding = b.binding

\* A view with ledger l of an idle session, relied on until the deadline.
Current(l, deadline) ==
  now < deadline =>
    /\ record.ledger /= None
    /\ deadline <= record.expiresAt
    /\ l.revision <= record.ledger.revision
    /\ PendingOf(record) = None /\ l.revision = record.ledger.revision =>
         SameTurns(l, record.ledger)

OwnedBy(token) ==
  PendingOf(record) /= None /\ PendingOf(record).token = token

\* A view with ledger l of a session pending for a token and a transcript.
Replaceable(token, l, transcript) ==
  /\ token \in Requests /\ claimed[token] /= None
  /\ OwnedBy(token) =>
       SameTurns(l, record.ledger) /\ PendingOf(record).transcript = transcript

RecordInv ==
  /\ record.activeExpiresAt + Deadline <= now + ReceiptTTL
  /\ record.ledger /= None =>
       /\ now < record.expiresAt /\ record.expiresAt <= now + ReceiptTTL
       /\ record.activeExpiresAt + Deadline <= record.expiresAt
       /\ PendingOf(record) = None => record.ledger.revision > 0
       /\ PendingOf(record) /= None => claimed[PendingOf(record).token] /= None

LookInv(r) ==
  LET view == seen[r].view IN
  /\ pc[r] = "reading" => end[r] <= now + Deadline
  /\ pc[r] \in Looking =>
       /\ view.now <= seen[r].at /\ seen[r].at <= now
       /\ end[r] <= view.now + Deadline
       /\ pc[r] /= "read" => ReceiptsFor(view, turn[r]) = {}
       /\ /\ view.ledger /= None /\ PendingOf(view) = None
          /\ view.activeExpiresAt > view.now
          => Current(view.ledger, view.now + Deadline)
       /\ PendingOf(view) /= None =>
            Replaceable(PendingOf(view).token, view.ledger,
                        PendingOf(view).transcript)

ClaimInv(r) ==
  LET cmd == wire[r]  l == wire[r].ledger IN
  cmd /= None /\ cmd.op = "claim" =>
    /\ l.pending /= None /\ l.pending.token = r
    /\ l.pending.transcript = turn[r].transcript
    /\ turn[r].recovering => l.pending.kind = "recovery"
    /\ cmd.revision = l.revision
    /\ \A i \in 1..Len(l.receipts) :
         l.receipts[i].transcript /= turn[r].transcript
    /\ cmd.result = "sent" =>
         /\ handler[r] = "none" /\ claimed[r] = None
         /\ cmd.deadline <= end[r]
         /\ ~turn[r].recovering =>
              /\ cmd.replace = None
              /\ \/ l.revision = 0
                 \/ Current(l, cmd.deadline)
         /\ turn[r].recovering =>
              Replaceable(cmd.replace, l, turn[r].transcript)
    /\ cmd.result = "yes" =>
         /\ claimed[r] /= None
         /\ OwnedBy(r) =>
              record.ledger = l /\ record.ownerExpiresAt <= end[r]

CommitInv(r) ==
  LET cmd == wire[r]  l == wire[r].ledger IN
  cmd /= None /\ cmd.op = "commit" =>
    /\ claimed[r] /= None
    /\ l.pending = None /\ cmd.token = r
    /\ cmd.result = "sent" /\ OwnedBy(r) =>
         /\ l.revision = record.ledger.revision + 1
         /\ l.binding = record.ledger.binding
         /\ \E receipt \in Receipt :
              /\ receipt.transcript = PendingOf(record).transcript
              /\ l.receipts = Append(record.ledger.receipts, receipt)
         /\ record.ownerExpiresAt <= end[r]

HandlerInv(r) ==
  /\ handler[r] /= "none" => claimed[r] /= None /\ ~turn[r].recovering
  /\ claimed[r] /= None =>
       claimed[r] <= epoch
       /\ pc[r] \notin {"new", "reading"} \cup Looking

\* An ordinary claim of the current epoch is still pending or has become a
\* receipt, by its owner or by a recovery.
Accounted(r) ==
  claimed[r] = epoch /\ ~turn[r].recovering =>
    /\ record.ledger /= None
    /\ \/ /\ PendingOf(record) /= None
          /\ PendingOf(record).transcript = turn[r].transcript
       \/ \E i \in 1..Len(record.ledger.receipts) :
            record.ledger.receipts[i].transcript = turn[r].transcript

RequestInv(r) ==
  LookInv(r) /\ ClaimInv(r) /\ CommitInv(r) /\ HandlerInv(r) /\ Accounted(r)

Distinct ==
  \A r, s \in Requests :
    /\ r /= s /\ claimed[r] /= None /\ claimed[r] = claimed[s]
    /\ ~turn[r].recovering /\ ~turn[s].recovering
    => turn[r].transcript /= turn[s].transcript

IInv == TypeInv /\ RecordInv /\ Distinct /\ \A r \in Requests : RequestInv(r)

LEMMA InitInv == Init => IInv
<1> SUFFICES ASSUME Init PROVE IInv OBVIOUS
<1>1. TypeInv BY TypeInit
<1>2. record.ledger = None /\ record.activeExpiresAt = 0 /\ now = 0
  BY DEF Init, NoRecord
<1>3. RecordInv
  <2>1. Deadline <= ReceiptTTL
    <3>1. PICK active \in ActiveTTLs : TRUE OBVIOUS
    <3>2. active \in Nat /\ active + Deadline <= ReceiptTTL
      BY RetentionAssumption
    <3>3. QED BY <3>2
  <2>2. QED BY <1>2, <2>1 DEF RecordInv
<1>4. Distinct BY DEF Init, Distinct
<1>5. ASSUME NEW r \in Requests PROVE RequestInv(r)
  BY DEF Init, RequestInv, LookInv, ClaimInv, CommitInv, HandlerInv, Accounted,
         Looking
<1>6. QED BY <1>1, <1>3, <1>4, <1>5 DEF IInv

(***************************************************************************)
(* Steps that touch neither the store nor a claim's epoch: only what the   *)
(* acting request holds has to be looked at.                               *)
(***************************************************************************)
Untouched(q) ==
  /\ pc'[q] = pc[q] /\ end'[q] = end[q] /\ seen'[q] = seen[q]
  /\ wire'[q] = wire[q] /\ handler'[q] = handler[q]

LEMMA QuietStep ==
  ASSUME IInv, TypeInv', NEW r \in Requests,
         UNCHANGED <<now, record, epoch, claimed, turn>>,
         \A q \in Requests \ {r} : Untouched(q),
         RequestInv(r)'
  PROVE  IInv'
<1>1. ASSUME NEW q \in Requests PROVE RequestInv(q)'
  <2>1. CASE q = r BY <2>1
  <2>2. CASE q /= r
    <3>1. Untouched(q) /\ RequestInv(q) BY <2>2 DEF IInv
    <3>2. LookInv(q)'
      BY <3>1 DEF Untouched, RequestInv, LookInv, Current, Replaceable, OwnedBy
    <3>3. ClaimInv(q)'
      BY <3>1 DEF Untouched, RequestInv, ClaimInv, Current, Replaceable, OwnedBy
    <3>4. CommitInv(q)'
      BY <3>1 DEF Untouched, RequestInv, CommitInv, OwnedBy
    <3>5. HandlerInv(q)' /\ Accounted(q)'
      BY <3>1 DEF Untouched, RequestInv, HandlerInv, Accounted
    <3>6. QED BY <3>2, <3>3, <3>4, <3>5 DEF RequestInv
  <2>3. QED BY <2>1, <2>2
<1>2. RecordInv' BY DEF IInv, RecordInv, PendingOf
<1>3. Distinct' BY DEF IInv, Distinct
<1>4. QED BY <1>1, <1>2, <1>3 DEF IInv

\* A request that is over keeps at most a command on its way.
LEMMA LeaveInv ==
  ASSUME IInv, TypeInv', NEW r \in Requests, Leave(r),
         pc[r] \in Working,
         pc' = [pc EXCEPT ![r] = "done"] \/ pc' = [pc EXCEPT ![r] = "crashed"],
         UNCHANGED <<storeVars, turn, handler, historyVars>>
  PROVE  IInv'
<1> USE DEF Leave, storeVars, historyVars
<1>1. pc'[r] \in {"done", "crashed"}
  BY DEF IInv, TypeInv, TypeOK
<1>2. \/ wire'[r] = None
      \/ wire'[r] = wire[r] /\ end'[r] = end[r]
  BY DEF IInv, TypeInv, TypeOK
<1>3. RequestInv(r) BY DEF IInv
<1>4. LookInv(r)' BY <1>1 DEF LookInv, Looking
<1>5. ClaimInv(r)'
  BY <1>2, <1>3 DEF RequestInv, ClaimInv, Current, Replaceable, OwnedBy
<1>6. CommitInv(r)' BY <1>2, <1>3 DEF RequestInv, CommitInv, OwnedBy
<1>7. HandlerInv(r)' /\ Accounted(r)'
  BY <1>1, <1>3 DEF RequestInv, HandlerInv, Accounted, Looking
<1>8. RequestInv(r)' BY <1>4, <1>5, <1>6, <1>7 DEF RequestInv
<1>9. \A q \in Requests \ {r} : Untouched(q)
  BY DEF IInv, TypeInv, TypeOK, Untouched
<1>10. QED BY <1>8, <1>9, QuietStep

LEMMA AnswerInv ==
  ASSUME IInv, TypeInv', NEW r \in Requests, pc[r] \in Working,
         NEW status, NEW receipt, Answer(r, status, receipt),
         UNCHANGED <<storeVars, turn, handler, effects, historyVars>>
  PROVE  IInv'
BY LeaveInv DEF Answer, Goto

LEMMA StartInv ==
  ASSUME IInv, TypeInv', NEW r \in Requests, Start(r) PROVE IInv'
<1> USE DEF Start, Goto, storeVars, historyVars
<1>1. wire[r] = None /\ handler[r] = "none" /\ claimed[r] = None
  BY DEF IInv, TypeInv, Shape
<1>2. \A q \in Requests \ {r} : Untouched(q) /\ turn'[q] = turn[q]
  BY DEF IInv, TypeInv, TypeOK, Untouched
<1>3. RequestInv(r)'
  BY <1>1 DEF IInv, TypeInv, TypeOK, RequestInv, LookInv, ClaimInv, CommitInv,
              HandlerInv, Accounted, Looking
<1>4. ASSUME NEW q \in Requests, q /= r PROVE RequestInv(q)'
  <2>1. Untouched(q) /\ turn'[q] = turn[q] /\ RequestInv(q)
    BY <1>2, <1>4 DEF IInv
  <2>2. LookInv(q)'
    BY <2>1 DEF Untouched, RequestInv, LookInv, Current, Replaceable, OwnedBy
  <2>3. ClaimInv(q)'
    BY <2>1 DEF Untouched, RequestInv, ClaimInv, Current, Replaceable, OwnedBy
  <2>4. CommitInv(q)' BY <2>1 DEF Untouched, RequestInv, CommitInv, OwnedBy
  <2>5. HandlerInv(q)' /\ Accounted(q)'
    BY <2>1 DEF Untouched, RequestInv, HandlerInv, Accounted
  <2>6. QED BY <2>2, <2>3, <2>4, <2>5 DEF RequestInv
<1>5. RecordInv' BY DEF IInv, RecordInv, PendingOf
<1>6. Distinct' BY <1>1, <1>2 DEF IInv, Distinct
<1>7. QED BY <1>3, <1>4, <1>5, <1>6 DEF IInv

LEMMA ReadRecordInv ==
  ASSUME IInv, TypeInv', NEW r \in Requests, ReadRecord(r) PROVE IInv'
<1> USE DEF ReadRecord, Goto, storeVars, historyVars
<1>1. wire[r] = None /\ handler[r] = "none" /\ claimed[r] = None
  BY DEF IInv, TypeInv, Shape
<1>2. \A q \in Requests \ {r} : Untouched(q)
  BY DEF IInv, TypeInv, TypeOK, Untouched
<1> DEFINE view == Read(record, now)
<1>3. seen'[r] = [view |-> view, at |-> now] /\ pc'[r] = "read"
  BY DEF IInv, TypeInv, TypeOK
<1>4. view.ledger = record.ledger /\ view.now = now
      /\ view.activeExpiresAt = record.activeExpiresAt
      /\ PendingOf(view) = PendingOf(record)
  BY DEF Read, PendingOf
<1>5. now \in Nat /\ record \in Record BY DEF IInv, TypeInv, TypeOK
<1>6. LookInv(r)'
  <2>1. end[r] <= now + Deadline BY DEF IInv, RequestInv, LookInv
  <2>2. view.ledger /= None /\ PendingOf(view) = None
        /\ view.activeExpiresAt > view.now
        => Current(view.ledger, view.now + Deadline)'
    BY <1>4, <1>5 DEF IInv, RecordInv, Current, SameTurns, Record, Ledger
  <2>3. PendingOf(view) /= None =>
          Replaceable(PendingOf(view).token, view.ledger,
                      PendingOf(view).transcript)'
    BY <1>4, <1>5
    DEF IInv, RecordInv, Replaceable, OwnedBy, SameTurns, PendingOf, Record,
        Ledger, Pending
  <2>4. /\ end'[r] = end[r] /\ now' = now
        /\ seen'[r].view = view /\ seen'[r].at = now
        /\ view' = view
    BY <1>3
  <2> HIDE DEF view
  <2>5. pc'[r] /= "reading" /\ pc'[r] = "read" BY <1>3
  <2>6. QED
    BY <1>3, <1>4, <1>5, <2>1, <2>2, <2>3, <2>4, <2>5 DEF LookInv, Looking
<1>7. RequestInv(r)'
  BY <1>1, <1>6 DEF RequestInv, ClaimInv, CommitInv, HandlerInv, Accounted,
                    IInv, TypeInv, TypeOK
<1>8. QED BY <1>2, <1>7, QuietStep

LEMMA ObserveRecordInv ==
  ASSUME IInv, TypeInv', NEW r \in Requests, ObserveRecord(r) PROVE IInv'
<1>1. pc[r] \in Working BY DEF ObserveRecord, Working
<1>2. CASE \E status, receipt : Answer(r, status, receipt)
  BY <1>1, <1>2, AnswerInv DEF ObserveRecord
<1>3. CASE /\ ReceiptsFor(seen[r].view, turn[r]) = {}
           /\ seen' = [seen EXCEPT ![r].at = now]
           /\ Goto(r, IF Events /\ ~turn[r].recovering THEN "journal" ELSE "deciding")
           /\ UNCHANGED <<end, wire, reply>>
  <2> USE <1>3 DEF ObserveRecord, Goto, storeVars, historyVars
  <2>1. /\ wire[r] = None /\ handler[r] = "none" /\ claimed[r] = None
        /\ seen[r] \in Sight
    BY DEF IInv, TypeInv, Shape, Looking
  <2>2. pc[r] = "read" /\ pc'[r] \in {"journal", "deciding"}
    BY DEF IInv, TypeInv, TypeOK
  <2>3. seen'[r].view = seen[r].view /\ seen'[r].at = now
    BY <2>1 DEF IInv, TypeInv, TypeOK, Sight
  <2>4. LookInv(r) BY DEF IInv, RequestInv
  <2>5. seen[r].view.now \in Nat /\ seen[r].at \in Nat /\ now \in Nat
    BY <2>1 DEF Sight, View, IInv, TypeInv, TypeOK
  <2>6. LookInv(r)'
    BY <2>2, <2>3, <2>4, <2>5 DEF LookInv, Looking, Current, Replaceable, OwnedBy
  <2>7. RequestInv(r)'
    BY <2>1, <2>2, <2>6 DEF RequestInv, ClaimInv, CommitInv, HandlerInv,
       Accounted, IInv, TypeInv, TypeOK
  <2>8. \A q \in Requests \ {r} : Untouched(q)
    BY DEF IInv, TypeInv, TypeOK, Untouched
  <2>9. QED BY <2>7, <2>8, QuietStep
<1>4. QED BY <1>2, <1>3 DEF ObserveRecord

LEMMA ReadJournalInv ==
  ASSUME IInv, TypeInv', NEW r \in Requests, ReadJournal(r) PROVE IInv'
<1>1. pc[r] \in Working BY DEF ReadJournal, Working
<1>2. CASE Answer(r, 409, None) BY <1>1, <1>2, AnswerInv DEF ReadJournal
<1>3. CASE Goto(r, "deciding") /\ UNCHANGED <<end, seen, wire, reply>>
  <2> USE <1>3 DEF ReadJournal, Goto, storeVars, historyVars
  <2>1. wire[r] = None /\ handler[r] = "none" /\ claimed[r] = None
    BY DEF IInv, TypeInv, Shape, Looking
  <2>2. pc[r] = "journal" /\ pc'[r] = "deciding" BY DEF IInv, TypeInv, TypeOK
  <2>3. LookInv(r)'
    BY <2>2 DEF IInv, RequestInv, LookInv, Looking, Current, Replaceable, OwnedBy
  <2>4. RequestInv(r)'
    BY <2>1, <2>2, <2>3 DEF RequestInv, ClaimInv, CommitInv, HandlerInv,
       Accounted, IInv, TypeInv, TypeOK
  <2>5. \A q \in Requests \ {r} : Untouched(q)
    BY DEF IInv, TypeInv, TypeOK, Untouched
  <2>6. QED BY <2>4, <2>5, QuietStep
<1>4. QED BY <1>2, <1>3 DEF ReadJournal

\* What the deciding checks leave standing when a claim is sent.
LEMMA MayClaim ==
  ASSUME NEW view \in View, NEW t \in Turn, Turnaway(view, t) = 0
  PROVE  \/ /\ PendingOf(view) /= None /\ t.recovering
            /\ PendingOf(view).transcript = t.transcript
            /\ view.ledger \in Ledger /\ PendingOf(view) = view.ledger.pending
         \/ /\ PendingOf(view) = None /\ ~t.recovering
            /\ \/ view.ledger = None
               \/ view.ledger \in Ledger /\ view.activeExpiresAt > view.now
BY DEF Turnaway, PendingOf, View

LEMMA ClaimedLedgerFacts ==
  ASSUME NEW view \in View, NEW t \in Turn, NEW r \in Requests
  PROVE  LET l == ClaimedLedger(view, t, r) IN
         /\ l.pending /= None /\ l.pending.token = r
         /\ l.pending.transcript = t.transcript
         /\ t.recovering => l.pending.kind = "recovery"
         /\ l.revision = Revision(view)
         /\ view.ledger = None => l.revision = 0 /\ l.receipts = <<>>
         /\ view.ledger /= None => SameTurns(l, view.ledger)
<1> DEFINE pending == [token |-> r, transcript |-> t.transcript,
                       kind |-> IF t.recovering THEN "recovery" ELSE "turn"]
           l == ClaimedLedger(view, t, r)
<1>1. l \in Ledger BY ClaimedLedgerType
<1>2. l.pending = pending
  <2>1. CASE view.ledger = None BY <2>1 DEF ClaimedLedger
  <2>2. CASE view.ledger /= None BY <2>2 DEF ClaimedLedger, View, Ledger
  <2>3. QED BY <2>1, <2>2
<1>3. pending /= None
  <2>1. (IF t.recovering THEN "recovery" ELSE "turn") \in {"turn", "recovery"}
    OBVIOUS
  <2>2. pending \in Pending BY <2>1 DEF Pending, Turn
  <2>3. QED BY <2>2
<1>4. view.ledger = None => l.revision = 0 /\ l.receipts = <<>>
  BY DEF ClaimedLedger
<1>5. view.ledger /= None => SameTurns(l, view.ledger)
  BY DEF ClaimedLedger, SameTurns, View, Ledger
<1>6. l.revision = Revision(view) BY <1>4, <1>5 DEF Revision, SameTurns
<1>7. QED BY <1>2, <1>3, <1>4, <1>5, <1>6

LEMMA SendClaimInv ==
  ASSUME IInv, TypeInv', NEW r \in Requests, SendClaim(r) PROVE IInv'
<1>1. PICK view : view = seen[r].view OBVIOUS
<1>2. PICK stop : stop = Earlier(end[r], now + Lease) OBVIOUS
<1>3. PICK l : l = ClaimedLedger(view, turn[r], r) OBVIOUS
<1>4. PICK cmd : cmd = wire'[r] OBVIOUS
<1> USE DEF Goto, storeVars, historyVars
<1>5. /\ seen[r] \in Sight /\ turn[r] \in Turn /\ pc[r] = "deciding"
      /\ wire[r] = None /\ handler[r] = "none" /\ claimed[r] = None
  BY DEF SendClaim, IInv, TypeInv, Shape, Looking
<1>6. view \in View BY <1>1, <1>5 DEF Sight
<1>7. /\ cmd.op = "claim" /\ cmd.result = "sent"
      /\ cmd.revision = Revision(view) /\ cmd.ledger = l
      /\ cmd.replace = IF turn[r].recovering THEN PendingOf(view).token ELSE None
      /\ cmd.deadline = view.now + stop - seen[r].at
      /\ end'[r] = stop /\ pc'[r] = "claiming"
      /\ Turnaway(view, turn[r]) = 0
  BY <1>1, <1>2, <1>3, <1>4 DEF SendClaim, IInv, TypeInv, TypeOK
<1>8. UNCHANGED <<now, record, turn, handler, epoch, claimed>>
  BY DEF SendClaim
<1>9. /\ now \in Nat /\ end[r] \in Nat /\ view.now \in Nat /\ seen[r].at \in Nat
      /\ stop \in Nat /\ stop <= end[r]
  BY <1>2, <1>5, <1>6 DEF IInv, TypeInv, TypeOK, Sight, View, Earlier
<1>10. /\ view.now <= seen[r].at /\ end[r] <= view.now + Deadline
       /\ ReceiptsFor(view, turn[r]) = {}
       /\ view.ledger /= None /\ PendingOf(view) = None
          /\ view.activeExpiresAt > view.now
          => Current(view.ledger, view.now + Deadline)
       /\ PendingOf(view) /= None =>
            Replaceable(PendingOf(view).token, view.ledger,
                        PendingOf(view).transcript)
  BY <1>1, <1>5 DEF IInv, RequestInv, LookInv, Looking
<1>11. /\ l.pending /= None /\ l.pending.token = r
       /\ l.pending.transcript = turn[r].transcript
       /\ turn[r].recovering => l.pending.kind = "recovery"
       /\ l.revision = Revision(view)
       /\ view.ledger = None => l.revision = 0 /\ l.receipts = <<>>
       /\ view.ledger /= None => SameTurns(l, view.ledger)
  BY <1>3, <1>5, <1>6, ClaimedLedgerFacts
<1>12. ASSUME NEW i \in 1..Len(l.receipts)
       PROVE  l.receipts[i].transcript /= turn[r].transcript
  <2>1. view.ledger /= None /\ l.receipts = view.ledger.receipts
    BY <1>11 DEF SameTurns
  <2>2. view.ledger.receipts[i].transcript = turn[r].transcript =>
          view.ledger.receipts[i] \in ReceiptsFor(view, turn[r])
    BY <2>1 DEF ReceiptsFor
  <2>3. QED BY <1>10, <2>1, <2>2
<1>13. cmd.deadline <= stop /\ cmd.deadline <= view.now + Deadline
       /\ cmd.deadline \in Int
  BY <1>7, <1>9, <1>10
<1>14. ASSUME turn[r].recovering
       PROVE  Replaceable(cmd.replace, l, turn[r].transcript)
  <2>1. /\ PendingOf(view) /= None /\ view.ledger /= None
        /\ PendingOf(view).transcript = turn[r].transcript
    BY <1>5, <1>6, <1>7, <1>14, MayClaim
  <2>2. Replaceable(cmd.replace, view.ledger, turn[r].transcript)
    BY <1>7, <1>10, <1>14, <2>1
  <2>3. QED BY <1>11, <2>1, <2>2 DEF Replaceable, SameTurns
<1>15. ASSUME ~turn[r].recovering
       PROVE  cmd.replace = None /\ (l.revision = 0 \/ Current(l, cmd.deadline))
  <2>1. CASE view.ledger = None BY <1>7, <1>11, <1>15, <2>1
  <2>2. CASE view.ledger /= None
    <3>1. Current(view.ledger, view.now + Deadline)
      BY <1>5, <1>6, <1>7, <1>10, <1>15, <2>2, MayClaim
    <3>2. record.ledger /= None =>
            record.ledger \in Ledger /\ record.expiresAt \in Nat
      BY DEF IInv, TypeInv, TypeOK, Record
    <3>3. Current(l, cmd.deadline)
      BY <1>9, <1>11, <1>13, <2>2, <3>1, <3>2 DEF Current, SameTurns
    <3>4. QED BY <1>7, <1>15, <3>3
  <2>3. QED BY <2>1, <2>2
<1>16. ClaimInv(r)'
  <2>1. turn[r].recovering =>
          Replaceable(cmd.replace, l, turn[r].transcript)'
    BY <1>8, <1>14 DEF Replaceable, OwnedBy, SameTurns
  <2>2. ~turn[r].recovering =>
          cmd.replace = None /\ (l.revision = 0 \/ Current(l, cmd.deadline)')
    BY <1>8, <1>15 DEF Current, SameTurns
  <2>3. QED
    BY <1>4, <1>5, <1>7, <1>8, <1>11, <1>12, <1>13, <2>1, <2>2 DEF ClaimInv
<1>17. RequestInv(r)'
  <2>1. LookInv(r)' BY <1>7 DEF LookInv, Looking
  <2>2. CommitInv(r)' BY <1>4, <1>7 DEF CommitInv
  <2>3. HandlerInv(r)' BY <1>5, <1>8 DEF HandlerInv
  <2>4. Accounted(r)'
    BY <1>5, <1>8 DEF Accounted, IInv, TypeInv, TypeOK
  <2>5. QED BY <1>16, <2>1, <2>2, <2>3, <2>4 DEF RequestInv
<1>18. \A q \in Requests \ {r} : Untouched(q)
  BY DEF SendClaim, IInv, TypeInv, TypeOK, Untouched
<1>19. QED BY <1>8, <1>17, <1>18, QuietStep

\* What the record and a claim that passes the store's checks agree on: the
\* claim was decided on the turns the record still has.
LEMMA ClaimMatches ==
  ASSUME IInv, NEW r \in Requests, wire[r] \in Claiming,
         wire[r].result = "sent", ClaimAllowed(record, wire[r], now),
         record.ledger /= None
  PROVE  /\ SameTurns(wire[r].ledger, record.ledger)
         /\ turn[r].recovering =>
              PendingOf(record).transcript = turn[r].transcript
         /\ ~turn[r].recovering => PendingOf(record) = None
<1> DEFINE cmd == wire[r]
<1>1. ClaimInv(r) /\ cmd.op = "claim" /\ cmd /= None
  BY DEF IInv, RequestInv, Claiming
<1>2. record.ledger \in Ledger /\ cmd.deadline > now /\ cmd.deadline \in Int
  BY DEF IInv, TypeInv, TypeOK, Record, ClaimAllowed, Claiming
<1>3. cmd.ledger.revision = record.ledger.revision
  BY <1>1 DEF ClaimInv, ClaimAllowed, Revision
<1>4. CASE turn[r].recovering
  <2>1. Replaceable(cmd.replace, cmd.ledger, turn[r].transcript)
    BY <1>1, <1>4 DEF ClaimInv
  <2>2. cmd.replace /= None BY <2>1 DEF Replaceable
  <2>3. OwnedBy(cmd.replace) BY <2>2 DEF ClaimAllowed, OwnedBy
  <2>4. QED BY <1>4, <2>1, <2>3 DEF Replaceable
<1>5. CASE ~turn[r].recovering
  <2>1. cmd.replace = None BY <1>1, <1>5 DEF ClaimInv
  <2>2. PendingOf(record) = None BY <2>1 DEF ClaimAllowed
  <2>3. record.ledger.revision > 0 BY <2>2 DEF IInv, RecordInv
  <2>4. Current(cmd.ledger, cmd.deadline)
    BY <1>1, <1>2, <1>3, <1>5, <2>3 DEF ClaimInv
  <2>5. SameTurns(cmd.ledger, record.ledger)
    BY <1>2, <1>3, <2>2, <2>4 DEF Current
  <2>6. QED BY <1>5, <2>2, <2>5
<1>6. QED BY <1>4, <1>5

LEMMA StoreClaimInv ==
  ASSUME IInv, TypeInv', NEW r \in Requests, StoreClaim(r) PROVE IInv'
<1>1. PICK cmd : cmd = wire[r] OBVIOUS
<1>2. PICK l : l = cmd.ledger OBVIOUS
<1>3. cmd \in Claiming /\ cmd.result = "sent" /\ cmd.op = "claim" /\ cmd /= None
  BY <1>1
  DEF StoreClaim, OnItsWay, IInv, TypeInv, TypeOK, Committing
<1>4. /\ UNCHANGED <<now, pc, turn, end, seen, handler, epoch>>
      /\ \A q \in Requests \ {r} : Untouched(q)
  BY DEF StoreClaim, Untouched, IInv, TypeInv, TypeOK
<1>5. /\ handler[r] = "none" /\ claimed[r] = None
      /\ l.pending /= None /\ l.pending.token = r
      /\ l.pending.transcript = turn[r].transcript
      /\ turn[r].recovering => l.pending.kind = "recovery"
      /\ cmd.revision = l.revision
      /\ \A i \in 1..Len(l.receipts) :
           l.receipts[i].transcript /= turn[r].transcript
      /\ cmd.deadline <= end[r]
      /\ ~turn[r].recovering =>
           cmd.replace = None /\ (l.revision = 0 \/ Current(l, cmd.deadline))
  BY <1>1, <1>2, <1>3 DEF IInv, RequestInv, ClaimInv
<1>6. pc[r] \notin {"new", "reading"} \cup Looking
  BY <1>1, <1>3 DEF IInv, TypeInv, Shape
<1>7. l \in Ledger /\ cmd.deadline \in Int /\ cmd.lease \in Nat
      /\ now \in Nat /\ end[r] \in Nat /\ record \in Record /\ epoch \in Nat
  BY <1>2, <1>3 DEF Claiming, IInv, TypeInv, TypeOK
<1>8. CASE /\ wire' = [wire EXCEPT ![r].result = "no"]
           /\ UNCHANGED <<record, claimed>>
  <2>1. /\ wire'[r].op = "claim" /\ wire'[r].ledger = l
        /\ wire'[r].revision = cmd.revision /\ wire'[r].result = "no"
    BY <1>1, <1>2, <1>3, <1>8 DEF IInv, TypeInv, TypeOK, Claiming
  <2>2. ClaimInv(r)' BY <1>4, <1>5, <2>1 DEF ClaimInv
  <2>3. LookInv(r)' BY <1>4, <1>6 DEF LookInv, Looking
  <2>4. CommitInv(r)' BY <2>1 DEF CommitInv
  <2>5. HandlerInv(r)' /\ Accounted(r)'
    BY <1>4, <1>8 DEF IInv, RequestInv, HandlerInv, Accounted
  <2>6. RequestInv(r)' BY <2>2, <2>3, <2>4, <2>5 DEF RequestInv
  <2>7. QED BY <1>4, <1>8, <2>6, QuietStep
<1>9. CASE /\ ClaimAllowed(record, cmd, now)
           /\ record' = Claim(record, cmd, now)
           /\ wire' = [wire EXCEPT ![r].result = "yes"]
           /\ claimed' = [claimed EXCEPT ![r] = epoch]
  <2>1. PICK owner : owner = Earlier(now + cmd.lease, cmd.deadline) OBVIOUS
  <2>2. owner <= end[r] BY <1>5, <1>7, <2>1 DEF Earlier
  <2>3. /\ record'.ledger = l /\ record'.ownerExpiresAt = owner
        /\ record'.expiresAt = now + ReceiptTTL
        /\ record'.activeExpiresAt = record.activeExpiresAt
        /\ PendingOf(record') = l.pending
    BY <1>2, <1>7, <1>9, <2>1 DEF Claim, Record, PendingOf, Ledger
  <2>4. /\ wire'[r].op = "claim" /\ wire'[r].ledger = l
        /\ wire'[r].revision = cmd.revision /\ wire'[r].result = "yes"
        /\ claimed'[r] = epoch
        /\ \A q \in Requests \ {r} : claimed'[q] = claimed[q]
    BY <1>1, <1>2, <1>3, <1>9 DEF IInv, TypeInv, TypeOK, Claiming
  <2>5. record.ledger /= None =>
          /\ SameTurns(l, record.ledger)
          /\ turn[r].recovering =>
               PendingOf(record).transcript = turn[r].transcript
          /\ ~turn[r].recovering => PendingOf(record) = None
    BY <1>1, <1>2, <1>3, <1>9, ClaimMatches
  <2>6. l /= None BY <1>7
  <2>7. ASSUME NEW q \in Requests
        PROVE  OwnedBy(q)' => q = r
    BY <1>5, <2>3 DEF OwnedBy
  <2>8. RecordInv'
    <3>1. record.activeExpiresAt + Deadline <= now + ReceiptTTL
          /\ record.activeExpiresAt \in Nat
      BY <1>7 DEF IInv, RecordInv, Record
    <3>2. now < now + ReceiptTTL /\ now + ReceiptTTL <= now + ReceiptTTL
      BY <1>7
    <3>3. claimed'[l.pending.token] /= None BY <1>5, <1>7, <2>4
    <3>4. PendingOf(record)' = l.pending
      BY <2>3, <2>6 DEF PendingOf
    <3>5. now' = now /\ l.pending /= None BY <1>4, <1>5
    <3>6. record'.activeExpiresAt + Deadline <= now + ReceiptTTL
      BY <2>3, <3>1
    <3>7. QED BY <2>3, <3>2, <3>3, <3>4, <3>5, <3>6 DEF RecordInv
  <2>9. ASSUME NEW q \in Requests, NEW a, NEW d \in Int, Current(a, d)
        PROVE  Current(a, d)'
    <3>1. record.ledger /= None /\ now < d =>
            record.expiresAt <= now + ReceiptTTL /\ record.expiresAt \in Nat
      BY <1>7 DEF IInv, RecordInv, Record
    <3>2. QED
      BY <1>4, <1>5, <1>7, <2>3, <2>5, <2>6, <2>9, <3>1 DEF Current, SameTurns
  <2>10. ASSUME NEW token, NEW a, NEW tr, Replaceable(token, a, tr)
         PROVE  Replaceable(token, a, tr)'
    BY <1>5, <2>4, <2>7, <2>10 DEF Replaceable
  <2>11. ASSUME NEW q \in Requests, q /= r PROVE RequestInv(q)'
    <3>1. Untouched(q) /\ RequestInv(q) /\ claimed'[q] = claimed[q] /\ ~OwnedBy(q)'
      BY <1>4, <2>4, <2>7, <2>11 DEF IInv
    <3>2. LookInv(q)'
      <4>1. pc[q] \in Looking => seen[q].view.now + Deadline \in Int
        BY DEF IInv, TypeInv, Shape, Sight, View
      <4>2. QED
        BY <1>4, <2>9, <2>10, <3>1, <4>1 DEF Untouched, RequestInv, LookInv
    <3>3. ClaimInv(q)'
      <4>1. wire[q] /= None /\ wire[q].op = "claim" => wire[q].deadline \in Int
        BY DEF IInv, TypeInv, TypeOK, Claiming, Committing
      <4>2. QED
        BY <1>4, <2>9, <2>10, <3>1, <4>1 DEF Untouched, RequestInv, ClaimInv
    <3>4. CommitInv(q)' BY <3>1 DEF Untouched, RequestInv, CommitInv
    <3>5. HandlerInv(q)' BY <1>4, <3>1 DEF Untouched, RequestInv, HandlerInv
    <3>6. Accounted(q)'
      <4> SUFFICES ASSUME claimed[q] = epoch, ~turn[q].recovering
                   PROVE  \/ l.pending.transcript = turn[q].transcript
                          \/ \E i \in 1..Len(l.receipts) :
                               l.receipts[i].transcript = turn[q].transcript
        BY <1>4, <1>5, <2>3, <2>6, <3>1 DEF Accounted
      <4>1. /\ record.ledger /= None
            /\ \/ /\ PendingOf(record) /= None
                  /\ PendingOf(record).transcript = turn[q].transcript
               \/ \E i \in 1..Len(record.ledger.receipts) :
                    record.ledger.receipts[i].transcript = turn[q].transcript
        BY <3>1 DEF RequestInv, Accounted
      <4>2. QED BY <1>5, <2>5, <4>1 DEF SameTurns
    <3>7. QED BY <3>2, <3>3, <3>4, <3>5, <3>6 DEF RequestInv
  <2>12. RequestInv(r)'
    <3>1. LookInv(r)' BY <1>4, <1>6 DEF LookInv, Looking
    <3>2. ClaimInv(r)'
      BY <1>4, <1>5, <1>7, <2>2, <2>3, <2>4 DEF ClaimInv
    <3>3. CommitInv(r)' BY <2>4 DEF CommitInv
    <3>4. HandlerInv(r)' BY <1>4, <1>5, <1>6, <1>7, <2>4 DEF HandlerInv
    <3>5. Accounted(r)' BY <1>4, <1>5, <2>3, <2>6 DEF Accounted
    <3>6. QED BY <3>1, <3>2, <3>3, <3>4, <3>5 DEF RequestInv
  <2>13. Distinct'
    <3>1. ASSUME NEW q \in Requests, q /= r, claimed[q] = epoch,
                 ~turn[q].recovering, ~turn[r].recovering
          PROVE  turn[q].transcript /= turn[r].transcript
      <4>1. /\ record.ledger /= None
            /\ \/ PendingOf(record) /= None
               \/ \E i \in 1..Len(record.ledger.receipts) :
                    record.ledger.receipts[i].transcript = turn[q].transcript
        BY <3>1 DEF IInv, RequestInv, Accounted
      <4>2. QED BY <1>5, <2>5, <3>1, <4>1 DEF SameTurns
    <3>2. QED BY <1>4, <2>4, <3>1 DEF IInv, Distinct
  <2>14. QED BY <2>8, <2>11, <2>12, <2>13 DEF IInv
<1>10. QED BY <1>1, <1>8, <1>9 DEF StoreClaim

LEMMA ClaimAnsweredInv ==
  ASSUME IInv, TypeInv', NEW r \in Requests, ClaimAnswered(r) PROVE IInv'
<1> USE DEF ClaimAnswered, Goto, storeVars, historyVars
<1>1. pc[r] = "claiming" /\ pc'[r] \in {"owner", "rereading"} /\ wire[r] /= None
  BY DEF IInv, TypeInv, TypeOK, Shape, Holding
<1>2. RequestInv(r) BY DEF IInv
<1>3. LookInv(r)' BY <1>1 DEF LookInv, Looking
<1>4. ClaimInv(r)'
  BY <1>2 DEF RequestInv, ClaimInv, Current, Replaceable, OwnedBy
<1>5. CommitInv(r)' BY <1>2 DEF RequestInv, CommitInv, OwnedBy
<1>6. HandlerInv(r)' /\ Accounted(r)'
  BY <1>1, <1>2 DEF RequestInv, HandlerInv, Accounted, Looking
<1>7. RequestInv(r)' BY <1>3, <1>4, <1>5, <1>6 DEF RequestInv
<1>8. \A q \in Requests \ {r} : Untouched(q)
  BY DEF IInv, TypeInv, TypeOK, Untouched
<1>9. QED BY <1>7, <1>8, QuietStep

\* A request that answers, by any of the actions that only answer.
LEMMA AnsweringInv ==
  ASSUME IInv, TypeInv', NEW r \in Requests,
         \/ TurnAway(r) \/ Reread(r) \/ Unresolved(r) \/ Oversized(r)
         \/ CommitAnswered(r) \/ Abort(r) \/ LoseOwnership(r)
  PROVE  IInv'
<1>1. pc[r] \in Working
  BY DEF TurnAway, Reread, Unresolved, Oversized, Prepared, CommitAnswered,
         Abort, LoseOwnership, Working
<1>2. PICK status, receipt : Answer(r, status, receipt)
  BY DEF TurnAway, Reread, Unresolved, Oversized, CommitAnswered, Abort,
         LoseOwnership
<1>3. UNCHANGED <<storeVars, turn, handler, effects, historyVars>>
  BY DEF TurnAway, Reread, Unresolved, Oversized, CommitAnswered, Abort,
         LoseOwnership
<1>4. QED BY <1>1, <1>2, <1>3, AnswerInv

LEMMA CrashInv ==
  ASSUME IInv, TypeInv', NEW r \in Requests, Crash(r) PROVE IInv'
BY LeaveInv DEF Crash, Goto

LEMMA StartHandlerInv ==
  ASSUME IInv, TypeInv', NEW r \in Requests, StartHandler(r) PROVE IInv'
<1> USE DEF StartHandler, Goto, storeVars, historyVars
<1>1. /\ pc[r] = "owner" /\ pc'[r] = "running" /\ ~turn[r].recovering
      /\ wire[r] /= None /\ wire[r].op = "claim" /\ wire[r].result = "yes"
  BY DEF IInv, TypeInv, TypeOK, Shape, Holding
<1>2. RequestInv(r) BY DEF IInv
<1>3. LookInv(r)' BY <1>1 DEF LookInv, Looking
<1>4. ClaimInv(r)' BY <1>1, <1>2 DEF RequestInv, ClaimInv, OwnedBy
<1>5. CommitInv(r)' BY <1>1 DEF CommitInv
<1>6. HandlerInv(r)'
  BY <1>1, <1>2 DEF RequestInv, HandlerInv, ClaimInv, Looking
<1>7. Accounted(r)' BY <1>2 DEF RequestInv, Accounted
<1>8. RequestInv(r)' BY <1>3, <1>4, <1>5, <1>6, <1>7 DEF RequestInv
<1>9. \A q \in Requests \ {r} : Untouched(q)
  BY DEF IInv, TypeInv, TypeOK, Untouched
<1>10. QED BY <1>8, <1>9, QuietStep

LEMMA HandlerEffectInv ==
  ASSUME IInv, TypeInv', NEW r \in Requests, HandlerEffect(r) PROVE IInv'
<1> USE DEF HandlerEffect, storeVars, historyVars
<1>1. RequestInv(r) BY DEF IInv
<1>2. claimed[r] /= None /\ ~turn[r].recovering
      /\ pc[r] \notin {"new", "reading"} \cup Looking
  BY <1>1 DEF RequestInv, HandlerInv
<1>3. LookInv(r)' BY <1>2 DEF LookInv
<1>4. ClaimInv(r)' BY <1>1, <1>2 DEF RequestInv, ClaimInv, OwnedBy
<1>5. CommitInv(r)' BY <1>1 DEF RequestInv, CommitInv, OwnedBy
<1>6. HandlerInv(r)' /\ Accounted(r)'
  BY <1>1, <1>2 DEF RequestInv, HandlerInv, Accounted
<1>7. RequestInv(r)' BY <1>3, <1>4, <1>5, <1>6 DEF RequestInv
<1>8. \A q \in Requests \ {r} : Untouched(q)
  BY DEF IInv, TypeInv, TypeOK, Untouched
<1>9. QED BY <1>7, <1>8, QuietStep

LEMMA SendCommitInv ==
  ASSUME IInv, TypeInv', NEW r \in Requests, SendCommit(r) PROVE IInv'
<1> USE DEF SendCommit, Goto, storeVars, historyVars
<1>1. /\ pc[r] \in {"owner", "running"} /\ pc'[r] = "committing"
      /\ turn[r] \in Turn /\ wire[r] \in Claiming /\ wire[r] /= None
      /\ wire[r].op = "claim" /\ wire[r].result = "yes"
  BY DEF Prepared, IInv, TypeInv, TypeOK, Shape, Holding, Committing
<1>2. RequestInv(r) BY DEF IInv
<1>3. PICK old : old = wire[r].ledger OBVIOUS
<1>4. PICK ended \in Endings, active \in ActiveTTLs :
        wire' = [wire EXCEPT ![r] =
          [op |-> "commit", revision |-> wire[r].revision, token |-> r,
           ledger |-> CommittedLedger(old, turn[r], [by |-> r, end |-> ended]),
           active |-> active, result |-> "sent"]]
  BY <1>3
<1>5. PICK l : l = CommittedLedger(old, turn[r], [by |-> r, end |-> ended])
  OBVIOUS
<1>6. PICK receipt : receipt = [transcript |-> turn[r].transcript,
                                response |-> [by |-> r, end |-> ended]]
  OBVIOUS
<1>7. old \in Ledger BY <1>1, <1>3 DEF Claiming
<1>8. receipt \in Receipt /\ receipt.transcript = turn[r].transcript
  BY <1>1, <1>6 DEF Receipt, Response, Turn
<1>9. /\ l.pending = None /\ l.revision = old.revision + 1
      /\ l.binding = old.binding
      /\ l.receipts = Append(old.receipts, receipt)
  BY <1>5, <1>6, <1>7 DEF CommittedLedger, Ledger
<1>10. /\ wire'[r].op = "commit" /\ wire'[r].ledger = l /\ wire'[r].token = r
       /\ wire'[r].result = "sent"
  BY <1>4, <1>5 DEF IInv, TypeInv, TypeOK
<1>11. /\ claimed[r] /= None /\ old.pending /= None
       /\ old.pending.transcript = turn[r].transcript
       /\ OwnedBy(r) => record.ledger = old /\ record.ownerExpiresAt <= end[r]
  BY <1>1, <1>2, <1>3 DEF RequestInv, ClaimInv
<1>12. CommitInv(r)'
  <2>1. OwnedBy(r) => PendingOf(record).transcript = turn[r].transcript
    BY <1>7, <1>11 DEF PendingOf
  <2>2. QED
    BY <1>8, <1>9, <1>10, <1>11, <2>1 DEF CommitInv, OwnedBy
<1>13. LookInv(r)' BY <1>1 DEF LookInv, Looking
<1>14. ClaimInv(r)' BY <1>10 DEF ClaimInv
<1>15. HandlerInv(r)' /\ Accounted(r)'
  BY <1>1, <1>2 DEF RequestInv, HandlerInv, Accounted, Looking
<1>16. RequestInv(r)' BY <1>12, <1>13, <1>14, <1>15 DEF RequestInv
<1>17. \A q \in Requests \ {r} : Untouched(q)
  BY DEF IInv, TypeInv, TypeOK, Untouched
<1>18. QED BY <1>16, <1>17, QuietStep

LEMMA StoreCommitInv ==
  ASSUME IInv, TypeInv', NEW r \in Requests, StoreCommit(r) PROVE IInv'
<1>1. PICK cmd : cmd = wire[r] OBVIOUS
<1>2. PICK l : l = cmd.ledger OBVIOUS
<1>3. /\ cmd \in Committing /\ cmd.result = "sent" /\ cmd.op = "commit"
      /\ cmd /= None
  BY <1>1 DEF StoreCommit, OnItsWay, IInv, TypeInv, TypeOK, Claiming
<1>4. /\ UNCHANGED <<now, pc, turn, end, seen, handler, epoch, claimed>>
      /\ \A q \in Requests \ {r} : Untouched(q)
  BY DEF StoreCommit, Untouched, IInv, TypeInv, TypeOK
<1>5. /\ claimed[r] /= None /\ l.pending = None /\ cmd.token = r
      /\ OwnedBy(r) =>
           /\ l.revision = record.ledger.revision + 1
           /\ l.binding = record.ledger.binding
           /\ \E receipt \in Receipt :
                /\ receipt.transcript = PendingOf(record).transcript
                /\ l.receipts = Append(record.ledger.receipts, receipt)
           /\ record.ownerExpiresAt <= end[r]
  BY <1>1, <1>2, <1>3 DEF IInv, RequestInv, CommitInv
<1>6. pc[r] \notin {"new", "reading"} \cup Looking
  BY <1>1, <1>3 DEF IInv, TypeInv, Shape
<1>7. /\ l \in Ledger /\ cmd.active \in ActiveTTLs /\ now \in Nat
      /\ record \in Record
  BY <1>2, <1>3 DEF Committing, IInv, TypeInv, TypeOK
<1>8. ASSUME NEW answer \in {"yes", "no"},
             wire' = [wire EXCEPT ![r].result = answer]
      PROVE  /\ wire'[r].op = "commit" /\ wire'[r].ledger = l
             /\ wire'[r].token = r /\ wire'[r].result = answer
  BY <1>1, <1>2, <1>3, <1>5, <1>8 DEF IInv, TypeInv, TypeOK, Committing
<1>9. LookInv(r)' BY <1>4, <1>6 DEF LookInv, Looking
<1>10. CASE /\ wire' = [wire EXCEPT ![r].result = "no"]
            /\ UNCHANGED <<record, archive>>
  <2>1. /\ wire'[r].op = "commit" /\ wire'[r].ledger = l
        /\ wire'[r].token = r /\ wire'[r].result = "no"
    BY <1>8, <1>10
  <2>2. CommitInv(r)' BY <1>4, <1>5, <2>1 DEF CommitInv
  <2>3. ClaimInv(r)' BY <2>1 DEF ClaimInv
  <2>4. HandlerInv(r)' /\ Accounted(r)'
    BY <1>4, <1>10 DEF IInv, RequestInv, HandlerInv, Accounted
  <2>5. RequestInv(r)' BY <1>9, <2>2, <2>3, <2>4 DEF RequestInv
  <2>6. QED BY <1>4, <1>10, <2>5, QuietStep
<1>11. CASE /\ CommitAllowed(record, cmd, now)
            /\ record' = Commit(record, cmd, now)
            /\ wire' = [wire EXCEPT ![r].result = "yes"]
  <2>1. /\ record.ledger /= None /\ record.ledger \in Ledger /\ OwnedBy(r)
        /\ PendingOf(record) /= None
    BY <1>5, <1>7, <1>11 DEF CommitAllowed, OwnedBy, PendingOf, Record
  <2>2. /\ wire'[r].op = "commit" /\ wire'[r].ledger = l
        /\ wire'[r].token = r /\ wire'[r].result = "yes"
    BY <1>8, <1>11
  <2>3. /\ record'.ledger = l /\ l /= None
        /\ record'.activeExpiresAt = now + cmd.active
        /\ record'.expiresAt = now + ReceiptTTL
    BY <1>2, <1>7, <1>11 DEF Commit, Record
  <2>4. PendingOf(record)' = None /\ \A q \in Requests : ~OwnedBy(q)'
    BY <1>5, <2>3 DEF PendingOf, OwnedBy
  <2>5. PICK receipt \in Receipt :
          /\ receipt.transcript = PendingOf(record).transcript
          /\ l.receipts = Append(record.ledger.receipts, receipt)
    BY <1>5, <2>1
  <2>6. record.ledger.revision \in Nat /\ l.revision = record.ledger.revision + 1
    BY <1>5, <2>1 DEF Ledger
  <2>7. RecordInv'
    <3>1. cmd.active \in Nat /\ cmd.active + Deadline <= ReceiptTTL
      <4>1. PICK active \in ActiveTTLs : active = cmd.active BY <1>7
      <4>2. active \in Nat /\ active + Deadline <= ReceiptTTL
        BY RetentionAssumption
      <4>3. QED BY <4>1, <4>2
    <3>2. QED
      BY <1>4, <1>7, <2>3, <2>4, <2>6, <3>1 DEF RecordInv
  <2>8. ASSUME NEW a \in Ledger, NEW d \in Int, Current(a, d)
        PROVE  Current(a, d)'
    <3>1. /\ record.expiresAt <= now + ReceiptTTL
          /\ record.expiresAt \in Nat /\ now + ReceiptTTL \in Nat
      BY <1>7, <2>1 DEF IInv, RecordInv, Record
    <3>2. now < d => /\ d <= now + ReceiptTTL
                     /\ a.revision <= record.ledger.revision
      BY <1>7, <2>8, <3>1 DEF Current
    <3>3. now < d => a.revision <= l.revision /\ a.revision /= l.revision
      BY <2>6, <3>2 DEF Ledger
    <3>4. QED BY <1>4, <2>3, <3>2, <3>3 DEF Current
  <2>9. ASSUME NEW token, NEW a, NEW tr, Replaceable(token, a, tr)
        PROVE  Replaceable(token, a, tr)'
    BY <1>4, <2>4, <2>9 DEF Replaceable
  <2>10. ASSUME NEW q \in Requests, Accounted(q) PROVE Accounted(q)'
    <3> SUFFICES ASSUME claimed[q] = epoch, ~turn[q].recovering
                 PROVE  \E i \in 1..Len(l.receipts) :
                          l.receipts[i].transcript = turn[q].transcript
      BY <1>4, <2>3 DEF Accounted
    <3>1. PICK old : old = record.ledger.receipts OBVIOUS
    <3>2. /\ old \in Seq(Receipt) /\ l.receipts = Append(old, receipt)
          /\ Len(l.receipts) = Len(old) + 1
          /\ l.receipts[Len(old) + 1] = receipt
          /\ \A i \in 1..Len(old) : l.receipts[i] = old[i]
      BY <2>1, <2>5, <3>1 DEF Ledger
    <3>3. CASE PendingOf(record).transcript = turn[q].transcript
      BY <2>5, <3>2, <3>3
    <3>4. CASE \E i \in 1..Len(old) : old[i].transcript = turn[q].transcript
      BY <3>2, <3>4
    <3>5. QED BY <2>10, <3>1, <3>3, <3>4 DEF Accounted
  <2>11. ASSUME NEW q \in Requests, q /= r PROVE RequestInv(q)'
    <3>1. Untouched(q) /\ RequestInv(q) BY <1>4, <2>11 DEF IInv
    <3>2. LookInv(q)'
      <4>1. pc[q] \in Looking =>
              /\ seen[q].view.now + Deadline \in Int
              /\ seen[q].view.ledger \in Ledger \cup {None}
        BY DEF IInv, TypeInv, Shape, Sight, View
      <4>2. QED
        BY <1>4, <2>8, <2>9, <3>1, <4>1 DEF Untouched, RequestInv, LookInv
    <3>3. ClaimInv(q)'
      <4>1. wire[q] /= None /\ wire[q].op = "claim" =>
              wire[q].deadline \in Int /\ wire[q].ledger \in Ledger
        BY DEF IInv, TypeInv, TypeOK, Claiming, Committing
      <4>2. QED
        BY <1>4, <2>4, <2>8, <2>9, <3>1, <4>1
        DEF Untouched, RequestInv, ClaimInv
    <3>4. CommitInv(q)'
      BY <1>4, <2>4, <3>1 DEF Untouched, RequestInv, CommitInv
    <3>5. HandlerInv(q)' BY <1>4, <3>1 DEF Untouched, RequestInv, HandlerInv
    <3>6. Accounted(q)' BY <2>10, <3>1 DEF RequestInv
    <3>7. QED BY <3>2, <3>3, <3>4, <3>5, <3>6 DEF RequestInv
  <2>12. RequestInv(r)'
    <3>1. CommitInv(r)' BY <1>4, <1>5, <2>2 DEF CommitInv
    <3>2. ClaimInv(r)' BY <2>2 DEF ClaimInv
    <3>3. HandlerInv(r)' BY <1>4 DEF IInv, RequestInv, HandlerInv
    <3>4. Accounted(r)' BY <2>10 DEF IInv, RequestInv
    <3>5. QED BY <1>9, <3>1, <3>2, <3>3, <3>4 DEF RequestInv
  <2>13. Distinct' BY <1>4 DEF IInv, Distinct
  <2>14. QED BY <2>7, <2>11, <2>12, <2>13 DEF IInv
<1>12. QED BY <1>1, <1>10, <1>11 DEF StoreCommit

\* An end event leaves the turns of the record as they are.
LEMMA ProviderCloseInv ==
  ASSUME IInv, TypeInv', ProviderClose PROVE IInv'
<1>1. /\ record'.ledger = record.ledger
      /\ record'.activeExpiresAt = record.activeExpiresAt
      /\ record'.ownerExpiresAt = record.ownerExpiresAt
      /\ record.ledger /= None => record'.expiresAt = record.expiresAt
  <2>1. /\ record \in Record /\ now \in Nat
        /\ record.ledger /= None => now < record.expiresAt
    BY DEF IInv, RecordInv, TypeInv, TypeOK
  <2>2. record.expiresAt \in Nat BY <2>1 DEF Record
  <2>3. record' = Close(record, now) BY DEF ProviderClose
  <2>4. QED BY <2>1, <2>2, <2>3 DEF Close, Record
<1>2. UNCHANGED <<now, pc, turn, end, seen, wire, handler, epoch, claimed>>
  BY DEF ProviderClose, localVars, historyVars
<1>3. PendingOf(record)' = PendingOf(record) BY <1>1 DEF PendingOf
<1>4. RecordInv' BY <1>1, <1>2, <1>3 DEF IInv, RecordInv
<1>5. ASSUME NEW a, NEW d, Current(a, d) PROVE Current(a, d)'
  BY <1>1, <1>2, <1>3, <1>5 DEF Current, SameTurns
<1>6. ASSUME NEW token, NEW a, NEW tr, Replaceable(token, a, tr)
      PROVE  Replaceable(token, a, tr)'
  BY <1>1, <1>2, <1>3, <1>6 DEF Replaceable, OwnedBy, SameTurns
<1>7. ASSUME NEW q \in Requests PROVE RequestInv(q)'
  <2>1. RequestInv(q) BY DEF IInv
  <2>2. LookInv(q)' BY <1>2, <1>5, <1>6, <2>1 DEF RequestInv, LookInv
  <2>3. ClaimInv(q)'
    BY <1>1, <1>2, <1>3, <1>5, <1>6, <2>1 DEF RequestInv, ClaimInv, OwnedBy
  <2>4. CommitInv(q)'
    BY <1>1, <1>2, <1>3, <2>1 DEF RequestInv, CommitInv, OwnedBy
  <2>5. HandlerInv(q)' BY <1>2, <2>1 DEF RequestInv, HandlerInv
  <2>6. Accounted(q)' BY <1>1, <1>2, <1>3, <2>1 DEF RequestInv, Accounted
  <2>7. QED BY <2>2, <2>3, <2>4, <2>5, <2>6 DEF RequestInv
<1>8. Distinct' BY <1>2 DEF IInv, Distinct
<1>9. QED BY <1>4, <1>7, <1>8 DEF IInv

\* Time passes: views age, and a record that expires takes with it every
\* reason to rely on what was read of it.
LEMMA TickInv ==
  ASSUME IInv, TypeInv', Tick PROVE IInv'
<1>1. UNCHANGED <<pc, turn, end, seen, wire, handler, claimed>>
      /\ now' = now + 1
  BY DEF Tick, localVars
<1>2. now \in Nat /\ record \in Record /\ epoch \in Nat /\ record.expiresAt \in Nat
  BY DEF IInv, TypeInv, TypeOK, Record
<1>3. PICK gone \in BOOLEAN :
        gone <=> record.expiresAt /= 0 /\ record.expiresAt <= now + 1
  OBVIOUS
<1>4. /\ gone => record' = NoRecord
      /\ ~gone => record' = record
  BY <1>1, <1>3 DEF Tick, ExpireRecord
<1>5. /\ ~gone => epoch' = epoch
      /\ gone /\ record.ledger = None => epoch' = epoch
      /\ gone /\ record.ledger /= None => epoch' = epoch + 1
  BY <1>4 DEF Tick, NoRecord
<1>6. gone => record'.ledger = None /\ PendingOf(record)' = None
              /\ record'.activeExpiresAt = 0
  BY <1>4 DEF NoRecord, PendingOf
<1>7. RecordInv'
  <2>1. CASE gone
    <3>1. PICK active \in ActiveTTLs : TRUE OBVIOUS
    <3>2. active \in Nat /\ active + Deadline <= ReceiptTTL
      BY RetentionAssumption
    <3>3. QED BY <1>1, <1>2, <1>6, <2>1, <3>2 DEF RecordInv
  <2>2. CASE ~gone
    <3>1. record.activeExpiresAt \in Nat BY <1>2 DEF Record
    <3>2. record.ledger /= None => now + 1 < record.expiresAt
      BY <1>2, <1>3, <2>2 DEF IInv, RecordInv
    <3>3. PendingOf(record)' = PendingOf(record) BY <1>4, <2>2
    <3>4. QED
      BY <1>1, <1>2, <1>4, <2>2, <3>1, <3>2, <3>3 DEF IInv, RecordInv
  <2>3. QED BY <2>1, <2>2
<1>8. ASSUME NEW a, NEW d \in Int, Current(a, d) PROVE Current(a, d)'
  <2>1. CASE gone BY <1>1, <1>2, <1>3, <1>8, <2>1 DEF Current
  <2>2. CASE ~gone BY <1>1, <1>2, <1>4, <1>8, <2>2 DEF Current, SameTurns
  <2>3. QED BY <2>1, <2>2
<1>9. ASSUME NEW token, NEW a, NEW tr, Replaceable(token, a, tr)
      PROVE  Replaceable(token, a, tr)'
  <2>1. CASE gone BY <1>1, <1>6, <1>9, <2>1 DEF Replaceable, OwnedBy
  <2>2. CASE ~gone
    BY <1>1, <1>4, <1>9, <2>2 DEF Replaceable, OwnedBy, SameTurns
  <2>3. QED BY <2>1, <2>2
<1>10. ASSUME NEW q \in Requests PROVE RequestInv(q)'
  <2>1. RequestInv(q) BY DEF IInv
  <2>2. LookInv(q)'
    <3>1. pc[q] \in Looking =>
            seen[q].view.now + Deadline \in Int /\ seen[q].at \in Nat
      BY DEF IInv, TypeInv, Shape, Sight, View
    <3>2. end[q] \in Nat BY DEF IInv, TypeInv, TypeOK
    <3>3. /\ end[q] <= now + Deadline => end[q] <= now + 1 + Deadline
          /\ pc[q] \in Looking /\ seen[q].at <= now => seen[q].at <= now + 1
      BY <1>2, <3>1, <3>2
    <3>4. QED BY <1>1, <1>8, <1>9, <2>1, <3>1, <3>3 DEF RequestInv, LookInv
  <2>3. ClaimInv(q)'
    <3>1. wire[q] /= None /\ wire[q].op = "claim" => wire[q].deadline \in Int
      BY DEF IInv, TypeInv, TypeOK, Claiming, Committing
    <3>2. OwnedBy(q)' => ~gone BY <1>6 DEF OwnedBy
    <3>3. OwnedBy(q)' => OwnedBy(q) /\ record' = record
      BY <1>4, <3>2 DEF OwnedBy
    <3>4. QED BY <1>1, <1>8, <1>9, <2>1, <3>1, <3>3 DEF RequestInv, ClaimInv
  <2>4. CommitInv(q)'
    <3>1. OwnedBy(q)' => ~gone BY <1>6 DEF OwnedBy
    <3>2. OwnedBy(q)' => OwnedBy(q) /\ record' = record
      BY <1>4, <3>1 DEF OwnedBy
    <3>3. QED BY <1>1, <2>1, <3>2 DEF RequestInv, CommitInv
  <2>5. claimed[q] \in Nat \cup {None} BY DEF IInv, TypeInv, TypeOK
  <2>6. HandlerInv(q)'
    BY <1>1, <1>2, <1>5, <2>1, <2>5 DEF RequestInv, HandlerInv
  <2>7. Accounted(q)'
    <3>1. claimed[q] /= None => claimed[q] \in Nat /\ claimed[q] <= epoch
      BY <2>1, <2>5 DEF RequestInv, HandlerInv
    <3>2. CASE ~gone
      BY <1>1, <1>4, <1>5, <2>1, <3>2 DEF RequestInv, Accounted
    <3>3. CASE gone /\ record.ledger /= None
      <4>1. claimed[q] /= epoch + 1 BY <1>2, <3>1
      <4>2. QED BY <1>1, <1>5, <3>3, <4>1 DEF Accounted
    <3>4. CASE gone /\ record.ledger = None
      BY <1>1, <1>5, <2>1, <3>4 DEF RequestInv, Accounted
    <3>5. QED BY <3>2, <3>3, <3>4
  <2>8. QED BY <2>2, <2>3, <2>4, <2>6, <2>7 DEF RequestInv
<1>11. Distinct' BY <1>1 DEF IInv, Distinct
<1>12. QED BY <1>7, <1>10, <1>11 DEF IInv

LEMMA IInvNext == IInv /\ [Next]_vars => IInv'
<1> SUFFICES ASSUME IInv, [Next]_vars PROVE IInv' OBVIOUS
<1>1. TypeInv' BY TypeNext DEF IInv
<1>2. ASSUME NEW r \in Requests, Step(r) PROVE IInv'
  BY <1>1, <1>2, StartInv, ReadRecordInv, ObserveRecordInv, ReadJournalInv,
     SendClaimInv, StoreClaimInv, ClaimAnsweredInv, AnsweringInv, CrashInv,
     StartHandlerInv, HandlerEffectInv, SendCommitInv, StoreCommitInv
  DEF Step
<1>3. CASE UNCHANGED vars
  <2>1. UNCHANGED <<now, record, epoch, pc, turn, end, seen, wire, handler,
                    claimed>>
    BY <1>3 DEF vars, storeVars, localVars, historyVars
  <2>2. RecordInv' /\ Distinct' BY <2>1 DEF IInv, RecordInv, Distinct, PendingOf
  <2>3. ASSUME NEW q \in Requests PROVE RequestInv(q)'
    <3>1. RequestInv(q) BY DEF IInv
    <3>2. LookInv(q)'
      BY <2>1, <3>1 DEF RequestInv, LookInv, Current, Replaceable, OwnedBy
    <3>3. ClaimInv(q)'
      BY <2>1, <3>1 DEF RequestInv, ClaimInv, Current, Replaceable, OwnedBy
    <3>4. CommitInv(q)' BY <2>1, <3>1 DEF RequestInv, CommitInv, OwnedBy
    <3>5. HandlerInv(q)' /\ Accounted(q)'
      BY <2>1, <3>1 DEF RequestInv, HandlerInv, Accounted
    <3>6. QED BY <3>2, <3>3, <3>4, <3>5 DEF RequestInv
  <2>4. QED BY <1>1, <2>2, <2>3 DEF IInv
<1>4. QED BY <1>1, <1>2, <1>3, ProviderCloseInv, TickInv DEF Next

LEMMA Invariant == Spec => []IInv
BY InitInv, IInvNext, PTL DEF Spec

\* Within one retention period no turn's handler is started twice, whatever
\* is retried, duplicated, lost, crashed or recovered, for any number of
\* requests and workers.
THEOREM HandlersRunOnce == Spec => []HandlerAtMostOnce
<1>1. ASSUME IInv PROVE HandlerAtMostOnce
  <2>1. ASSUME NEW r \in Requests, NEW s \in Requests, r /= s,
               handler[r] /= "none", handler[s] /= "none",
               claimed[r] = claimed[s]
        PROVE  turn[r].transcript /= turn[s].transcript
    <3>1. \A q \in {r, s} : claimed[q] /= None /\ ~turn[q].recovering
      BY <1>1, <2>1 DEF IInv, RequestInv, HandlerInv
    <3>2. QED BY <1>1, <2>1, <3>1 DEF IInv, Distinct
  <2>2. QED BY <2>1 DEF HandlerAtMostOnce
<1>2. QED BY <1>1, Invariant, PTL

\* The steps that write the session's ledger: a claim, a commit, expiry.
ClaimTaken(r) ==
  /\ wire[r] \in Claiming /\ wire[r].result = "sent"
  /\ ClaimAllowed(record, wire[r], now)
  /\ record' = Claim(record, wire[r], now)
CommitTaken(r) ==
  /\ wire[r] \in Committing /\ wire[r].result = "sent"
  /\ CommitAllowed(record, wire[r], now)
  /\ record' = Commit(record, wire[r], now)

LEMMA LedgerSteps ==
  ASSUME IInv, [Next]_vars
  PROVE  \/ record'.ledger = record.ledger
         \/ record'.ledger = None
         \/ \E r \in Requests : ClaimTaken(r) \/ CommitTaken(r)
<1>1. ASSUME NEW r \in Requests, Step(r)
      PROVE  record' = record \/ ClaimTaken(r) \/ CommitTaken(r)
  <2>1. CASE StoreClaim(r)
    BY <2>1 DEF StoreClaim, OnItsWay, ClaimTaken, IInv, TypeInv, TypeOK,
                Committing
  <2>2. CASE StoreCommit(r)
    BY <2>2 DEF StoreCommit, OnItsWay, CommitTaken, IInv, TypeInv, TypeOK,
                Claiming
  <2>3. CASE \/ Start(r) \/ ReadRecord(r) \/ ObserveRecord(r) \/ ReadJournal(r)
             \/ TurnAway(r) \/ SendClaim(r) \/ ClaimAnswered(r) \/ Reread(r)
    BY <2>3 DEF Start, ReadRecord, ObserveRecord, ReadJournal, TurnAway,
                SendClaim, ClaimAnswered, Reread, storeVars
  <2>4. CASE \/ StartHandler(r) \/ HandlerEffect(r) \/ Unresolved(r)
             \/ SendCommit(r) \/ Oversized(r) \/ CommitAnswered(r)
             \/ Abort(r) \/ LoseOwnership(r) \/ Crash(r)
    BY <2>4 DEF StartHandler, HandlerEffect, Unresolved, SendCommit, Oversized,
                CommitAnswered, Abort, LoseOwnership, Crash, storeVars
  <2>5. QED BY <1>1, <2>1, <2>2, <2>3, <2>4 DEF Step
<1>2. CASE ProviderClose
  BY <1>2 DEF ProviderClose, Close, IInv, TypeInv, TypeOK, Record
<1>3. CASE Tick BY <1>3 DEF Tick, ExpireRecord, NoRecord
<1>4. CASE UNCHANGED vars BY <1>4 DEF vars, storeVars
<1>5. QED BY <1>1, <1>2, <1>3, <1>4 DEF Next

\* What a claim that takes effect does to the ledger.
LEMMA ClaimTakenFacts ==
  ASSUME IInv, NEW r \in Requests, ClaimTaken(r), record.ledger /= None
  PROVE  /\ record'.ledger \in Ledger
         /\ SameTurns(record'.ledger, record.ledger)
         /\ PendingOf(record') /= None /\ PendingOf(record').token = r
         /\ PendingOf(record').transcript = turn[r].transcript
         /\ PendingOf(record) /= None =>
              /\ PendingOf(record).transcript = turn[r].transcript
              /\ PendingOf(record').kind = "recovery"
<1>1. record'.ledger = wire[r].ledger /\ wire[r].ledger \in Ledger
  BY DEF ClaimTaken, Claim, Claiming, IInv, TypeInv, TypeOK, Record
<1>2. /\ SameTurns(wire[r].ledger, record.ledger)
      /\ turn[r].recovering =>
           PendingOf(record).transcript = turn[r].transcript
      /\ ~turn[r].recovering => PendingOf(record) = None
  BY ClaimMatches DEF ClaimTaken
<1>3. /\ wire[r].ledger.pending /= None /\ wire[r].ledger.pending.token = r
      /\ wire[r].ledger.pending.transcript = turn[r].transcript
      /\ turn[r].recovering => wire[r].ledger.pending.kind = "recovery"
  BY DEF ClaimTaken, Claiming, IInv, RequestInv, ClaimInv
<1>4. PendingOf(record') = wire[r].ledger.pending BY <1>1 DEF PendingOf
<1>5. QED BY <1>1, <1>2, <1>3, <1>4

\* What a commit that takes effect does to the ledger.
LEMMA CommitTakenFacts ==
  ASSUME IInv, NEW r \in Requests, CommitTaken(r)
  PROVE  /\ now < end[r]
         /\ PendingOf(record') = None
         /\ record'.ledger.binding = record.ledger.binding
         /\ \E receipt \in Receipt :
              /\ receipt.transcript = PendingOf(record).transcript
              /\ record'.ledger.receipts
                   = Append(record.ledger.receipts, receipt)
<1>1. CommitInv(r) /\ wire[r] /= None /\ wire[r].op = "commit"
      /\ wire[r].result = "sent" /\ wire[r].ledger \in Ledger
  BY DEF CommitTaken, Committing, IInv, RequestInv
<1>2. OwnedBy(r) /\ record.ownerExpiresAt > now
  BY <1>1 DEF CommitTaken, CommitAllowed, CommitInv, OwnedBy, PendingOf
<1>3. record'.ledger = wire[r].ledger
  BY DEF CommitTaken, Commit, IInv, TypeInv, TypeOK, Record
<1>4. now < end[r]
  <2>1. now \in Nat /\ end[r] \in Nat /\ record.ownerExpiresAt \in Nat
    BY DEF IInv, TypeInv, TypeOK, Record
  <2>2. QED BY <1>1, <1>2, <2>1 DEF CommitInv
<1>5. PendingOf(record') = None BY <1>1, <1>3 DEF CommitInv, PendingOf
<1>6. QED BY <1>1, <1>2, <1>3, <1>4, <1>5 DEF CommitInv

\* A pending turn changes hands only to a recovery of the same turn.
THEOREM Handover == Spec => NoTakeover
<1> DEFINE Fixed ==
      LET old == PendingOf(record)  new == PendingOf(record') IN
      old /= None /\ new /= None /\ new.token /= old.token =>
        new.kind = "recovery" /\ new.transcript = old.transcript
<1>1. ASSUME IInv, [Next]_vars PROVE Fixed
  <2>1. CASE record'.ledger = record.ledger \/ record'.ledger = None
    BY <2>1 DEF PendingOf
  <2>2. ASSUME NEW r \in Requests, ClaimTaken(r) PROVE Fixed
    <3>1. CASE record.ledger = None BY <3>1 DEF PendingOf
    <3>2. CASE record.ledger /= None BY <1>1, <2>2, <3>2, ClaimTakenFacts
    <3>3. QED BY <3>1, <3>2
  <2>3. ASSUME NEW r \in Requests, CommitTaken(r) PROVE Fixed
    BY <1>1, <2>3, CommitTakenFacts
  <2>4. QED BY <1>1, <2>1, <2>2, <2>3, LedgerSteps
<1> HIDE DEF Fixed
<1>2. Spec => [][Fixed]_vars BY <1>1, Invariant, PTL DEF Spec
<1>3. QED BY <1>2 DEF NoTakeover, Fixed

\* While the record lives its receipts are only appended to, one at a time,
\* for the caller it is bound to: no stale view, delayed command or recovery
\* replaces or drops a durable response.
THEOREM ReceiptsSurvive == Spec => ReceiptsOnlyGrow
<1> DEFINE Grown ==
      record.ledger /= None /\ record'.ledger /= None =>
        LET old == record.ledger.receipts  new == record'.ledger.receipts IN
          /\ record'.ledger.binding = record.ledger.binding
          /\ Len(new) \in {Len(old), Len(old) + 1}
          /\ SubSeq(new, 1, Len(old)) = old
<1>1. ASSUME IInv, [Next]_vars PROVE Grown
  <2> SUFFICES ASSUME record.ledger /= None, record'.ledger /= None
               PROVE  Grown
    OBVIOUS
  <2>1. PICK old : old = record.ledger.receipts OBVIOUS
  <2>2. old \in Seq(Receipt)
    BY <1>1, <2>1 DEF IInv, TypeInv, TypeOK, Record, Ledger
  <2>3. SubSeq(old, 1, Len(old)) = old BY <2>2, SubSeqFull
  <2>4. CASE /\ record'.ledger.receipts = old
             /\ record'.ledger.binding = record.ledger.binding
    BY <2>1, <2>3, <2>4
  <2>5. ASSUME NEW receipt \in Receipt,
               record'.ledger.receipts = Append(old, receipt),
               record'.ledger.binding = record.ledger.binding
        PROVE  Grown
    <3>1. Len(Append(old, receipt)) = Len(old) + 1 BY <2>2
    <3>2. SubSeq(Append(old, receipt), 1, Len(old)) = old BY <2>2
    <3>3. QED BY <2>1, <2>5, <3>1, <3>2
  <2>6. CASE record'.ledger = record.ledger BY <2>1, <2>4, <2>6
  <2>7. ASSUME NEW r \in Requests, ClaimTaken(r) PROVE Grown
    BY <1>1, <2>1, <2>4, <2>7, ClaimTakenFacts DEF SameTurns
  <2>8. ASSUME NEW r \in Requests, CommitTaken(r) PROVE Grown
    BY <1>1, <2>1, <2>5, <2>8, CommitTakenFacts
  <2>9. QED BY <1>1, <2>6, <2>7, <2>8, LedgerSteps
<1> HIDE DEF Grown
<1>2. Spec => [][Grown]_vars BY <1>1, Invariant, PTL DEF Spec
<1>3. QED BY <1>2 DEF ReceiptsOnlyGrow, Grown

\* A step after which a commit has taken effect is the store's.
LEMMA CommitSteps ==
  ASSUME IInv, NEW r \in Requests, TakesEffect(r, "commit"),
         NEW q \in Requests, Step(q)
  PROVE  CommitTaken(r)
<1> USE DEF TakesEffect
<1>1. /\ wire \in [Requests -> Claiming \cup Committing \cup {None}]
      /\ wire[r] \in Committing
  BY DEF IInv, TypeInv, TypeOK, Claiming
<1>2. [wire[r] EXCEPT !.result = "no"].result = "no" BY <1>1 DEF Committing
<1>3. ASSUME NEW cmd, wire' = [wire EXCEPT ![q] = cmd], cmd.result = "sent"
      PROVE  FALSE
  BY <1>1, <1>3
<1>4. CASE wire' = wire BY <1>4
<1>5. CASE StoreCommit(q)
  BY <1>1, <1>2, <1>5 DEF StoreCommit, CommitTaken
<1>6. CASE StoreClaim(q) BY <1>1, <1>6 DEF StoreClaim
<1>7. CASE SendClaim(q)
  <2> DEFINE view == seen[q].view
             stop == Earlier(end[q], now + Lease)
             cmd == [op |-> "claim", revision |-> Revision(view),
                     ledger |-> ClaimedLedger(view, turn[q], q),
                     replace |-> IF turn[q].recovering
                                 THEN PendingOf(view).token ELSE None,
                     lease |-> stop - now,
                     deadline |-> view.now + stop - seen[q].at,
                     result |-> "sent"]
  <2>1. wire' = [wire EXCEPT ![q] = cmd] BY <1>7 DEF SendClaim
  <2>2. cmd.result = "sent" OBVIOUS
  <2> HIDE DEF cmd
  <2>3. QED BY <1>3, <2>1, <2>2
<1>8. CASE SendCommit(q)
  <2>1. PICK ended \in Endings, active \in ActiveTTLs :
          wire' = [wire EXCEPT ![q] =
            [op |-> "commit", revision |-> wire[q].revision, token |-> q,
             ledger |-> CommittedLedger(wire[q].ledger, turn[q],
                                        [by |-> q, end |-> ended]),
             active |-> active, result |-> "sent"]]
    BY <1>8 DEF SendCommit
  <2>2. QED BY <1>3, <2>1
<1>9. CASE Leave(q) BY <1>1, <1>9 DEF Leave
<1>10. CASE \/ Start(q) \/ ReadRecord(q) \/ ObserveRecord(q) \/ ReadJournal(q)
            \/ ClaimAnswered(q) \/ StartHandler(q) \/ HandlerEffect(q)
  BY <1>4, <1>9, <1>10
  DEF Start, ReadRecord, ObserveRecord, ReadJournal, ClaimAnswered,
      StartHandler, HandlerEffect, Answer
<1>11. CASE \/ TurnAway(q) \/ Reread(q) \/ Unresolved(q) \/ Oversized(q)
            \/ CommitAnswered(q) \/ Abort(q) \/ LoseOwnership(q) \/ Crash(q)
  BY <1>9, <1>11
  DEF TurnAway, Reread, Unresolved, Oversized, CommitAnswered, Abort,
      LoseOwnership, Crash, Answer
<1>12. QED BY <1>5, <1>6, <1>7, <1>8, <1>10, <1>11 DEF Step

\* A commit takes effect only inside its request's budget, however long its
\* claim or the commit itself was delayed on the way to the store.
THEOREM CommitsInTime == Spec => NoLateCommit
<1> DEFINE InTime ==
      \A r \in Requests : TakesEffect(r, "commit") => now < end[r]
<1>1. ASSUME IInv, [Next]_vars PROVE InTime
  <2> SUFFICES ASSUME NEW r \in Requests, TakesEffect(r, "commit")
               PROVE  now < end[r]
    OBVIOUS
  <2>1. ASSUME NEW q \in Requests, Step(q) PROVE now < end[r]
    BY <1>1, <2>1, CommitSteps, CommitTakenFacts
  <2>2. CASE ProviderClose \/ Tick
    BY <2>2 DEF ProviderClose, Tick, localVars, TakesEffect
  <2>3. CASE UNCHANGED vars BY <2>3 DEF vars, localVars, TakesEffect
  <2>4. QED BY <1>1, <2>1, <2>2, <2>3 DEF Next
<1> HIDE DEF InTime
<1>2. Spec => [][InTime]_vars BY <1>1, Invariant, PTL DEF Spec
<1>3. QED BY <1>2 DEF NoLateCommit, InTime

-----------------------------------------------------------------------------
(***************************************************************************)
(* The receipts of a ledger, wherever it is: in the record, in a view or   *)
(* in a command on its way.                                                *)
(***************************************************************************)
\* A transcript that may come next.
Fits(l, transcript) ==
  LET n == Len(l.receipts) IN
  /\ Len(transcript) = n
  /\ n > 0 => /\ Extends(transcript, l.receipts[n].transcript)
              /\ ~l.receipts[n].response.end

WellChained(l) ==
  LET n == Len(l.receipts) IN
  /\ l.revision = n
  /\ l.transcript = IF n = 0 THEN None ELSE l.receipts[n].transcript
  /\ l.completed = (n > 0 /\ l.receipts[n].response.end)
  /\ \A i \in 1..n :
       /\ Len(l.receipts[i].transcript) = i - 1
       /\ i > 1 => Extends(l.receipts[i].transcript, l.receipts[i - 1].transcript)
       /\ i < n => ~l.receipts[i].response.end
  /\ l.pending /= None => Fits(l, l.pending.transcript)

\* A receipt that was committed for this caller.
Kept(caller, receipt) == \E e \in 0..epoch : <<e, caller, receipt>> \in archive

\* The first n receipts of a ledger are durable.
Durable(l, n) == \A i \in 1..n : Kept(l.binding, l.receipts[i])

Sound(l) == WellChained(l) /\ Durable(l, Len(l.receipts))

Sent(cmd) == IF cmd.op = "commit" /\ cmd.result /= "yes"
             THEN Len(cmd.ledger.receipts) - 1 ELSE Len(cmd.ledger.receipts)

SeenInv(r) ==
  /\ seen[r] /= None /\ seen[r].view.ledger /= None => Sound(seen[r].view.ledger)
  /\ pc[r] \in {"journal", "deciding"} => Bound(seen[r].view, turn[r])

WireInv(r) ==
  wire[r] /= None =>
    /\ WellChained(wire[r].ledger)
    /\ wire[r].ledger.binding = turn[r].caller
    /\ Durable(wire[r].ledger, Sent(wire[r]))
    /\ wire[r].op = "commit" =>
         LastReceipt(wire[r].ledger).transcript = turn[r].transcript

ReplyInv(r) ==
  /\ reply[r] /= None => pc[r] = "done"
  /\ reply[r] /= None /\ reply[r].status = 200 =>
       /\ reply[r].receipt.transcript = turn[r].transcript
       /\ Kept(turn[r].caller, reply[r].receipt)

\* What was committed in the present retention is in the record.
PresentInv ==
  \A a \in archive :
    /\ a[1] <= epoch
    /\ a[1] = epoch =>
         /\ record.ledger /= None
         /\ \E i \in 1..Len(record.ledger.receipts) :
              a[3] = record.ledger.receipts[i]

LedgerInv ==
  /\ record.ledger /= None => Sound(record.ledger)
  /\ PresentInv
  /\ OneResponsePerTurn
  /\ \A r \in Requests : SeenInv(r) /\ WireInv(r) /\ ReplyInv(r)

LEMMA LedgerInitially == Init => LedgerInv
  BY DEF Init, NoRecord, LedgerInv, PresentInv, OneResponsePerTurn, SeenInv, WireInv,
         ReplyInv

-----------------------------------------------------------------------------
(* Ledgers.                                                                *)

\* A claim is sent only for a transcript that comes next.
LEMMA RelationFits ==
  ASSUME NEW l \in Ledger, WellChained(l), NEW t \in Transcripts, ~l.completed,
         CompareTranscript(t, l.transcript) \in {"initial", "next"}
  PROVE  Fits(l, t)
<1> DEFINE n == Len(l.receipts)
<1>1. n \in Nat /\ l.receipts \in Seq(Receipt) BY DEF Ledger
<1>2. CASE n = 0
  <2>1. l.transcript = None BY <1>2 DEF WellChained
  <2>2. Len(t) = 0 BY <2>1 DEF CompareTranscript
  <2>3. QED BY <1>2, <2>2 DEF Fits
<1>3. CASE n > 0
  <2>0. l.receipts[n] \in Receipt BY <1>1, <1>3
  <2>1. l.receipts[n].transcript \in Transcripts BY <2>0 DEF Receipt
  <2>2. l.transcript = l.receipts[n].transcript /\ l.transcript /= None
    <3>1. n /= 0 BY <1>3
    <3>2. l.transcript = l.receipts[n].transcript BY <3>1 DEF WellChained
    <3>3. QED BY <2>1, <3>2
  <2>3. Len(l.transcript) = n - 1 BY <1>1, <1>3, <2>2 DEF WellChained
  <2>4. Extends(t, l.transcript) /\ Len(t) = Len(l.transcript) + 1
    BY <2>2 DEF CompareTranscript
  <2>5. ~l.receipts[n].response.end BY <1>3 DEF WellChained
  <2>6. QED BY <1>1, <1>3, <2>2, <2>3, <2>4, <2>5 DEF Fits
<1>4. QED BY <1>1, <1>2, <1>3

\* The receipt of the pending turn continues the chain.
LEMMA CommittedChain ==
  ASSUME NEW l \in Ledger, WellChained(l), NEW t \in Turn, NEW response \in Response,
         Fits(l, t.transcript)
  PROVE  LET new == CommittedLedger(l, t, response) IN
         /\ WellChained(new)
         /\ new.binding = l.binding
         /\ LastReceipt(new).transcript = t.transcript
         /\ Len(new.receipts) = Len(l.receipts) + 1
         /\ \A i \in 1..Len(l.receipts) : new.receipts[i] = l.receipts[i]
<1> DEFINE n == Len(l.receipts)
           receipt == [transcript |-> t.transcript, response |-> response]
           new == CommittedLedger(l, t, response)
<1>1. n \in Nat /\ l.receipts \in Seq(Receipt) /\ receipt \in Receipt
  BY DEF Ledger, Receipt, Turn
<1>2. /\ new.receipts = Append(l.receipts, receipt) /\ new.pending = None
      /\ new.revision = l.revision + 1 /\ new.transcript = t.transcript
      /\ new.completed = response.end /\ new.binding = l.binding
  BY DEF CommittedLedger, Ledger
<1>3. receipt.transcript = t.transcript /\ receipt.response = response OBVIOUS
<1> HIDE DEF receipt, new
<1>4. /\ Len(new.receipts) = n + 1 /\ new.receipts[n + 1] = receipt
      /\ \A i \in 1..n : new.receipts[i] = l.receipts[i]
  BY <1>1, <1>2
<1>5. response.end \in BOOLEAN BY DEF Response
<1>6. ASSUME NEW i \in 1..(n + 1)
      PROVE  /\ Len(new.receipts[i].transcript) = i - 1
             /\ i > 1 => Extends(new.receipts[i].transcript,
                                 new.receipts[i - 1].transcript)
             /\ i < n + 1 => ~new.receipts[i].response.end
  <2>1. CASE i = n + 1
    BY <1>1, <1>3, <1>4, <2>1 DEF Fits
  <2>2. CASE i <= n
    <3>1. new.receipts[i] = l.receipts[i] BY <1>1, <1>4, <2>2
    <3>2. i > 1 => new.receipts[i - 1] = l.receipts[i - 1] BY <1>1, <1>4, <2>2
    <3>3. i < n => ~l.receipts[i].response.end BY <1>1, <2>2 DEF WellChained
    <3>4. i = n => ~l.receipts[i].response.end BY <1>1 DEF Fits
    <3>5. QED BY <1>1, <2>2, <3>1, <3>2, <3>3, <3>4 DEF WellChained
  <2>3. QED BY <1>1, <2>1, <2>2
<1>7. new.revision = n + 1 BY <1>2 DEF WellChained
<1>8. n + 1 /= 0 /\ n + 1 > 0 BY <1>1
<1>9. WellChained(new)
  BY <1>2, <1>3, <1>4, <1>5, <1>6, <1>7, <1>8 DEF WellChained
<1>10. LastReceipt(new).transcript = t.transcript
  BY <1>3, <1>4 DEF LastReceipt
<1>11. QED BY <1>2, <1>4, <1>9, <1>10 DEF new

\* The ledger of a claim is well chained, with the turn next.
LEMMA ClaimedChain ==
  ASSUME NEW view \in View, NEW t \in Turn, NEW r \in Requests,
         Turnaway(view, t) = 0, Bound(view, t),
         view.ledger /= None => WellChained(view.ledger)
  PROVE  LET l == ClaimedLedger(view, t, r) IN
         /\ WellChained(l) /\ l.binding = t.caller
         /\ view.ledger = None => l.receipts = <<>>
         /\ view.ledger /= None =>
              l.receipts = view.ledger.receipts /\ l.binding = view.ledger.binding
<1> DEFINE l == ClaimedLedger(view, t, r)
<1>1. l \in Ledger /\ t.transcript \in Transcripts
  BY ClaimedLedgerType DEF Turn
<1>2. l.pending /= None /\ l.pending.transcript = t.transcript
  BY ClaimedLedgerFacts
<1>3. CASE view.ledger = None
  <2>1. /\ l.revision = 0 /\ l.transcript = None /\ ~l.completed /\ l.receipts = <<>>
        /\ l.binding = t.caller
    BY <1>3 DEF ClaimedLedger
  <2>2. Len(t.transcript) = 0
    <3>1. PendingOf(view) = None /\ PreviousTranscript(view) = None
      BY <1>3 DEF PendingOf, PreviousTranscript
    <3>2. CompareTranscript(t.transcript, None) \in {"initial", "next"}
      BY <3>1 DEF Turnaway
    <3>3. QED BY <3>2 DEF CompareTranscript
  <2> HIDE DEF l
  <2>3. Len(l.receipts) = 0 BY <2>1
  <2>4. WellChained(l)
    <3>1. Fits(l, l.pending.transcript) BY <1>2, <2>2, <2>3 DEF Fits
    <3>2. \A i \in 1..Len(l.receipts) : FALSE BY <2>3
    <3>3. l.completed = FALSE BY <1>3 DEF ClaimedLedger, l
    <3>4. PICK n \in Nat : n = Len(l.receipts) /\ n = 0 BY <2>3
    <3>5. l.revision = n /\ l.transcript = None BY <2>1, <3>4
    <3>6. ~(n > 0) BY <3>4
    <3>7. l.completed = (n > 0 /\ l.receipts[n].response.end) BY <3>3, <3>6
    <3>8. QED BY <3>1, <3>2, <3>4, <3>5, <3>7 DEF WellChained
  <2>5. QED BY <1>3, <2>1, <2>4 DEF l
<1>4. CASE view.ledger /= None
  <2> DEFINE v == view.ledger
  <2>1. v \in Ledger BY <1>4 DEF View
  <2>2. /\ l.revision = v.revision /\ l.transcript = v.transcript
        /\ l.completed = v.completed /\ l.receipts = v.receipts
        /\ l.binding = v.binding
    BY <1>4, <2>1 DEF ClaimedLedger, Ledger
  <2>3. Fits(v, t.transcript)
    <3>1. CASE PendingOf(view) /= None
      <4>1. v.pending /= None /\ v.pending.transcript = t.transcript
        BY <1>4, <3>1 DEF Turnaway, PendingOf
      <4>2. QED BY <1>4, <4>1 DEF WellChained
    <3>2. CASE PendingOf(view) = None
      <4>1. CompareTranscript(t.transcript, v.transcript) \in {"initial", "next"}
            /\ ~v.completed
        BY <1>4, <3>2 DEF Turnaway, PreviousTranscript
      <4>2. QED BY <1>1, <1>4, <2>1, <4>1, RelationFits
    <3>3. QED BY <3>1, <3>2
  <2>4. l.binding = t.caller BY <1>4, <2>2 DEF Bound
  <2> HIDE DEF l
  <2>5. WellChained(v) BY <1>4
  <2>6. WellChained(l) BY <1>2, <2>2, <2>3, <2>5 DEF WellChained, Fits
  <2>7. QED BY <1>4, <2>2, <2>4, <2>6 DEF l
<1>5. QED BY <1>3, <1>4

\* Receipts of a durable ledger that a turn finds are its durable answers.
LEMMA FoundKept ==
  ASSUME NEW view, NEW t, view.ledger /= None => Sound(view.ledger), Bound(view, t),
         NEW receipt \in ReceiptsFor(view, t)
  PROVE  receipt.transcript = t.transcript /\ Kept(t.caller, receipt)
<1>1. view.ledger /= None BY DEF ReceiptsFor
<1>2. PICK i \in 1..Len(view.ledger.receipts) :
        receipt = view.ledger.receipts[i] /\ receipt.transcript = t.transcript
  BY <1>1 DEF ReceiptsFor
<1>3. QED BY <1>1, <1>2 DEF Sound, Durable, Bound

-----------------------------------------------------------------------------
(* Steps that do not touch the store.                                      *)

\* What is durable stays so.
LEMMA KeptStays ==
  ASSUME NEW caller, NEW receipt, Kept(caller, receipt), epoch \in Nat, epoch' \in Nat,
         epoch <= epoch', archive \subseteq archive'
  PROVE  Kept(caller, receipt)'
  BY DEF Kept

LEMMA SoundStays ==
  ASSUME NEW l, Sound(l), epoch \in Nat, epoch' \in Nat,
         epoch <= epoch', archive \subseteq archive'
  PROVE  Sound(l)'
<1>1. WellChained(l)' BY DEF Sound, WellChained, Fits
<1>2. Durable(l, Len(l.receipts))'
  BY KeptStays DEF Sound, Durable
<1>3. QED BY <1>1, <1>2 DEF Sound

\* What a request has seen, sent and was told.
HoldInv(q) == SeenInv(q) /\ WireInv(q) /\ ReplyInv(q)

LEMMA WireStays ==
  ASSUME NEW q \in Requests, WireInv(q), turn'[q] = turn[q], wire'[q] = wire[q],
         epoch \in Nat, epoch' \in Nat, epoch <= epoch', archive \subseteq archive'
  PROVE  WireInv(q)'
<1>1. PICK l, n : l = wire[q].ledger /\ n = Sent(wire[q]) OBVIOUS
<1>2. wire[q] /= None => WellChained(l)' BY <1>1 DEF WireInv, WellChained, Fits
<1>3. wire[q] /= None => Durable(l, n)' BY <1>1, KeptStays DEF WireInv, Durable
<1>4. QED BY <1>1, <1>2, <1>3 DEF WireInv, Sent

LEMMA HoldStays ==
  ASSUME NEW q \in Requests, HoldInv(q),
         pc'[q] = pc[q], turn'[q] = turn[q], seen'[q] = seen[q],
         wire'[q] = wire[q], reply'[q] = reply[q],
         epoch \in Nat, epoch' \in Nat, epoch <= epoch', archive \subseteq archive'
  PROVE  HoldInv(q)'
<1>1. SeenInv(q)'
  <2>1. PICK l : l = seen[q].view.ledger OBVIOUS
  <2>2. seen[q] /= None /\ l /= None => Sound(l)'
    BY <2>1, SoundStays DEF HoldInv, SeenInv
  <2>3. QED BY <2>1, <2>2 DEF HoldInv, SeenInv, Bound
<1>2. WireInv(q)' BY WireStays DEF HoldInv
<1>3. ReplyInv(q)'
  <2>1. PICK caller, receipt : caller = turn[q].caller /\ receipt = reply[q].receipt
    OBVIOUS
  <2>2. reply[q] /= None /\ reply[q].status = 200 => Kept(caller, receipt)'
    BY <2>1, KeptStays DEF HoldInv, ReplyInv
  <2>3. QED BY <2>1, <2>2 DEF HoldInv, ReplyInv
<1>4. QED BY <1>1, <1>2, <1>3 DEF HoldInv

\* A step of one request that writes neither the ledger nor the archive.
LEMMA QuietLedger ==
  ASSUME IInv, LedgerInv, NEW r \in Requests,
         record'.ledger = record.ledger, epoch' = epoch, archive' = archive,
         \A q \in Requests \ {r} :
           /\ pc'[q] = pc[q] /\ turn'[q] = turn[q] /\ seen'[q] = seen[q]
           /\ wire'[q] = wire[q] /\ reply'[q] = reply[q],
         HoldInv(r)'
  PROVE  LedgerInv'
<1>1. epoch \in Nat BY DEF IInv, TypeInv, TypeOK
<1>2. ASSUME NEW q \in Requests PROVE HoldInv(q)'
  <2>1. CASE q = r BY <2>1
  <2>2. CASE q /= r
    BY <1>1, <2>2, HoldStays DEF LedgerInv, HoldInv
  <2>3. QED BY <2>1, <2>2
<1>3. record.ledger /= None => Sound(record.ledger)'
  BY <1>1 DEF LedgerInv, Sound, WellChained, Fits, Durable, Kept
<1>4. PresentInv' /\ OneResponsePerTurn' BY DEF LedgerInv, PresentInv, OneResponsePerTurn
<1>5. QED BY <1>2, <1>3, <1>4 DEF LedgerInv, HoldInv

\* An answer with 200 carries a durable receipt of its turn.
LEMMA AnswerLedger ==
  ASSUME IInv, LedgerInv, NEW r \in Requests, pc[r] \in Working, NEW status, NEW receipt,
         Answer(r, status, receipt),
         status = 200 => /\ receipt.transcript = turn[r].transcript
                         /\ Kept(turn[r].caller, receipt),
         UNCHANGED <<storeVars, turn, historyVars>>
  PROVE  LedgerInv'
<1> USE DEF Answer, Goto, Leave, storeVars, historyVars
<1>1. /\ pc'[r] = "done" /\ seen'[r] = None
      /\ reply'[r] = [status |-> status, receipt |-> receipt]
      /\ wire'[r] = None \/ wire'[r] = wire[r]
  BY DEF IInv, TypeInv, TypeOK
<1>2. \A q \in Requests \ {r} :
        /\ pc'[q] = pc[q] /\ turn'[q] = turn[q] /\ seen'[q] = seen[q]
        /\ wire'[q] = wire[q] /\ reply'[q] = reply[q]
  BY DEF IInv, TypeInv, TypeOK
<1>3. SeenInv(r)' BY <1>1 DEF SeenInv
<1>4. WireInv(r)'
  <2>1. CASE wire'[r] = None BY <2>1 DEF WireInv
  <2>2. CASE wire'[r] = wire[r]
    <3>1. epoch \in Nat /\ WireInv(r) /\ turn' = turn
      BY DEF IInv, TypeInv, TypeOK, LedgerInv
    <3>2. QED BY <2>2, <3>1, WireStays
  <2>3. QED BY <1>1, <2>1, <2>2
<1>5. ReplyInv(r)'
  <2>1. PICK caller : caller = turn[r].caller OBVIOUS
  <2>2. status = 200 => Kept(caller, receipt)' BY <2>1 DEF Kept
  <2>3. reply'[r].status = status /\ reply'[r].receipt = receipt BY <1>1
  <2>4. turn'[r] = turn[r] OBVIOUS
  <2>5. QED BY <1>1, <2>1, <2>2, <2>3, <2>4 DEF ReplyInv
<1>6. QED BY <1>2, <1>3, <1>4, <1>5, QuietLedger DEF HoldInv

LEMMA CrashLedger ==
  ASSUME IInv, LedgerInv, NEW r \in Requests, Crash(r) PROVE LedgerInv'
<1> USE DEF Crash, Goto, Leave, storeVars, historyVars
<1>1. /\ pc'[r] = "crashed" /\ seen'[r] = None
      /\ wire'[r] = None \/ wire'[r] = wire[r]
  BY DEF IInv, TypeInv, TypeOK
<1>2. \A q \in Requests \ {r} :
        /\ pc'[q] = pc[q] /\ turn'[q] = turn[q] /\ seen'[q] = seen[q]
        /\ wire'[q] = wire[q] /\ reply'[q] = reply[q]
  BY DEF IInv, TypeInv, TypeOK
<1>3. SeenInv(r)' BY <1>1 DEF SeenInv
<1>4. WireInv(r)'
  <2>1. CASE wire'[r] = None BY <2>1 DEF WireInv
  <2>2. CASE wire'[r] = wire[r]
    <3>1. epoch \in Nat /\ WireInv(r) /\ turn' = turn
      BY DEF IInv, TypeInv, TypeOK, LedgerInv
    <3>2. QED BY <2>2, <3>1, WireStays
  <2>3. QED BY <1>1, <2>1, <2>2
<1>5. ReplyInv(r)' BY DEF LedgerInv, ReplyInv, Working
<1>6. QED BY <1>2, <1>3, <1>4, <1>5, QuietLedger DEF HoldInv

LEMMA StartLedger ==
  ASSUME IInv, LedgerInv, NEW r \in Requests, Start(r) PROVE LedgerInv'
<1> USE DEF Start, Goto, storeVars, historyVars
<1>1. wire[r] = None /\ pc'[r] = "reading" /\ reply[r] = None
  BY DEF IInv, TypeInv, TypeOK, Shape, LedgerInv, ReplyInv
<1>2. \A q \in Requests \ {r} :
        /\ pc'[q] = pc[q] /\ turn'[q] = turn[q] /\ seen'[q] = seen[q]
        /\ wire'[q] = wire[q] /\ reply'[q] = reply[q]
  BY DEF IInv, TypeInv, TypeOK
<1>3. SeenInv(r)'
  BY <1>1 DEF LedgerInv, SeenInv, Sound, WellChained, Fits, Durable, Kept
<1>4. WireInv(r)' /\ ReplyInv(r)' BY <1>1 DEF WireInv, ReplyInv
<1>5. QED BY <1>2, <1>3, <1>4, QuietLedger DEF HoldInv

LEMMA ReadRecordLedger ==
  ASSUME IInv, LedgerInv, NEW r \in Requests, ReadRecord(r) PROVE LedgerInv'
<1> USE DEF ReadRecord, Goto, storeVars, historyVars
<1>1. wire[r] = None /\ pc'[r] = "read" /\ reply[r] = None
  BY DEF IInv, TypeInv, TypeOK, Shape, LedgerInv, ReplyInv
<1>2. \A q \in Requests \ {r} :
        /\ pc'[q] = pc[q] /\ turn'[q] = turn[q] /\ seen'[q] = seen[q]
        /\ wire'[q] = wire[q] /\ reply'[q] = reply[q]
  BY DEF IInv, TypeInv, TypeOK
<1>3. seen'[r].view.ledger = record.ledger BY DEF IInv, TypeInv, TypeOK, Read
<1>4. record.ledger /= None => Sound(record.ledger)'
  BY DEF LedgerInv, Sound, WellChained, Fits, Durable, Kept
<1>5. SeenInv(r)' BY <1>1, <1>3, <1>4 DEF SeenInv
<1>6. WireInv(r)' /\ ReplyInv(r)' BY <1>1 DEF WireInv, ReplyInv
<1>7. QED BY <1>2, <1>5, <1>6, QuietLedger DEF HoldInv

LEMMA ObserveRecordLedger ==
  ASSUME IInv, LedgerInv, NEW r \in Requests, ObserveRecord(r) PROVE LedgerInv'
<1>1. pc[r] \in Working /\ pc[r] = "read" /\ seen[r] \in Sight
  BY DEF ObserveRecord, Working, IInv, TypeInv, Shape, Looking
<1>2. PICK view : view = seen[r].view OBVIOUS
<1>3. view.ledger /= None => Sound(view.ledger)
  BY <1>1, <1>2 DEF LedgerInv, SeenInv
<1>4. CASE Answer(r, 409, None)
  BY <1>1, <1>4, AnswerLedger DEF ObserveRecord
<1>5. ASSUME Replayed(view, turn[r]), NEW receipt \in ReceiptsFor(view, turn[r]),
             Answer(r, 200, receipt)
      PROVE  LedgerInv'
  <2>1. Bound(view, turn[r]) BY <1>5 DEF Replayed, Refused
  <2>2. receipt.transcript = turn[r].transcript /\ Kept(turn[r].caller, receipt)
    BY <1>3, <1>5, <2>1, FoundKept
  <2>3. QED BY <1>1, <1>5, <2>2, AnswerLedger DEF ObserveRecord
<1>6. CASE /\ ~Refused(view, turn[r])
           /\ seen' = [seen EXCEPT ![r].at = now]
           /\ Goto(r, IF Events /\ ~turn[r].recovering THEN "journal" ELSE "deciding")
           /\ UNCHANGED <<end, wire, reply>>
  <2> USE <1>6 DEF ObserveRecord, Goto, storeVars, historyVars
  <2>1. wire[r] = None /\ reply[r] = None
    BY <1>1 DEF IInv, TypeInv, Shape, Looking, LedgerInv, ReplyInv
  <2>2. seen'[r].view = view
    BY <1>1, <1>2 DEF IInv, TypeInv, TypeOK, Sight
  <2>3. \A q \in Requests \ {r} :
          /\ pc'[q] = pc[q] /\ turn'[q] = turn[q] /\ seen'[q] = seen[q]
          /\ wire'[q] = wire[q] /\ reply'[q] = reply[q]
    BY DEF IInv, TypeInv, TypeOK
  <2>4. Bound(view, turn[r]) BY DEF Refused
  <2>5. view.ledger /= None => Sound(view.ledger)'
    BY <1>3 DEF Sound, WellChained, Fits, Durable, Kept
  <2>6. SeenInv(r)' BY <2>2, <2>4, <2>5 DEF SeenInv, Bound
  <2>7. WireInv(r)' /\ ReplyInv(r)' BY <2>1 DEF WireInv, ReplyInv
  <2>8. QED BY <2>3, <2>6, <2>7, QuietLedger DEF HoldInv
<1>7. QED BY <1>2, <1>4, <1>5, <1>6 DEF ObserveRecord

LEMMA ReadJournalLedger ==
  ASSUME IInv, LedgerInv, NEW r \in Requests, ReadJournal(r) PROVE LedgerInv'
<1>1. pc[r] \in Working BY DEF ReadJournal, Working
<1>2. CASE Answer(r, 409, None) BY <1>1, <1>2, AnswerLedger DEF ReadJournal
<1>3. CASE Goto(r, "deciding") /\ UNCHANGED <<end, seen, wire, reply>>
  <2> USE <1>3 DEF ReadJournal, Goto, storeVars, historyVars
  <2>1. \A q \in Requests \ {r} :
          /\ pc'[q] = pc[q] /\ turn'[q] = turn[q] /\ seen'[q] = seen[q]
          /\ wire'[q] = wire[q] /\ reply'[q] = reply[q]
    BY DEF IInv, TypeInv, TypeOK
  <2>2. SeenInv(r)'
    BY DEF LedgerInv, SeenInv, Sound, WellChained, Fits, Durable, Kept, Bound
  <2>3. wire[r] = None /\ reply[r] = None
    BY DEF IInv, TypeInv, Shape, Looking, LedgerInv, ReplyInv
  <2>4. WireInv(r)' /\ ReplyInv(r)' BY <2>3 DEF WireInv, ReplyInv
  <2>5. QED BY <2>1, <2>2, <2>4, QuietLedger DEF HoldInv
<1>4. QED BY <1>2, <1>3 DEF ReadJournal

LEMMA SendClaimLedger ==
  ASSUME IInv, LedgerInv, NEW r \in Requests, SendClaim(r) PROVE LedgerInv'
<1> USE DEF Goto, storeVars, historyVars
<1>1. PICK view : view = seen[r].view OBVIOUS
<1>2. PICK l : l = ClaimedLedger(view, turn[r], r) OBVIOUS
<1>3. /\ seen[r] \in Sight /\ turn[r] \in Turn /\ pc[r] = "deciding" /\ reply[r] = None
  BY DEF SendClaim, IInv, TypeInv, Shape, Looking, LedgerInv, ReplyInv
<1>4. view \in View BY <1>1, <1>3 DEF Sight
<1>5. /\ wire'[r].op = "claim" /\ wire'[r].ledger = l /\ seen'[r] = None
      /\ pc'[r] = "claiming" /\ Turnaway(view, turn[r]) = 0
  BY <1>1, <1>2 DEF SendClaim, IInv, TypeInv, TypeOK
<1>6. /\ view.ledger /= None => Sound(view.ledger)
      /\ Bound(view, turn[r])
  BY <1>1, <1>3 DEF LedgerInv, SeenInv
<1>7. /\ WellChained(l) /\ l.binding = turn[r].caller
      /\ view.ledger = None => l.receipts = <<>>
      /\ view.ledger /= None =>
           l.receipts = view.ledger.receipts /\ l.binding = view.ledger.binding
  <2>1. view.ledger /= None => WellChained(view.ledger) BY <1>6 DEF Sound
  <2>2. QED BY <1>2, <1>3, <1>4, <1>5, <1>6, <2>1, ClaimedChain
<1>8. Durable(l, Len(l.receipts))'
  <2>1. Durable(l, Len(l.receipts))
    <3>1. CASE view.ledger = None
      <4>1. Len(l.receipts) = 0 BY <1>7, <3>1
      <4>2. QED BY <4>1 DEF Durable
    <3>2. CASE view.ledger /= None BY <1>6, <1>7, <3>2 DEF Durable, Sound
    <3>3. QED BY <3>1, <3>2
  <2>2. epoch \in Nat /\ epoch' = epoch /\ archive' = archive
    BY DEF SendClaim, IInv, TypeInv, TypeOK
  <2>3. QED BY <1>7, <2>1, <2>2, SoundStays DEF Sound
<1>9. WireInv(r)'
  <2>1. Sent(wire'[r]) = Len(l.receipts) BY <1>5 DEF Sent
  <2>2. WellChained(l)' BY <1>7 DEF WellChained, Fits
  <2>3. turn'[r] = turn[r] BY DEF SendClaim
  <2>4. QED BY <1>5, <1>7, <1>8, <2>1, <2>2, <2>3 DEF WireInv, Sent
<1>10. SeenInv(r)' /\ ReplyInv(r)'
  BY <1>3, <1>5 DEF SendClaim, SeenInv, ReplyInv
<1>11. \A q \in Requests \ {r} :
         /\ pc'[q] = pc[q] /\ turn'[q] = turn[q] /\ seen'[q] = seen[q]
         /\ wire'[q] = wire[q] /\ reply'[q] = reply[q]
  BY DEF SendClaim, IInv, TypeInv, TypeOK
<1>12. record' = record /\ epoch' = epoch /\ archive' = archive BY DEF SendClaim
<1>13. QED BY <1>9, <1>10, <1>11, <1>12, QuietLedger DEF HoldInv

\* The answer of the store to a command changes what is told of it, no more.
LEMMA ResultLedger ==
  ASSUME NEW r \in Requests, HoldInv(r), wire[r] /= None,
         NEW result \in {"yes", "no"}, wire[r].result = "sent",
         wire[r] \in Claiming \cup Committing,
         wire'[r] = [wire[r] EXCEPT !.result = result],
         pc'[r] = pc[r], turn'[r] = turn[r], seen'[r] = seen[r], reply'[r] = reply[r],
         epoch \in Nat, epoch' = epoch, archive \subseteq archive',
         result = "yes" /\ wire[r].op = "commit" =>
           Kept(turn[r].caller, LastReceipt(wire[r].ledger))'
  PROVE  HoldInv(r)'
<1>1. PICK l, n, m, k : /\ l = wire[r].ledger /\ m = Len(l.receipts)
                        /\ n = Sent(wire[r]) /\ k = Sent(wire'[r])
  OBVIOUS
<1>2. /\ wire'[r].ledger = l /\ wire'[r].op = wire[r].op /\ wire'[r].result = result
  BY <1>1 DEF Claiming, Committing
<1>3. WellChained(l)' /\ l.binding = turn[r].caller
  BY <1>1 DEF HoldInv, WireInv, WellChained, Fits
<1>4. Durable(l, n)' BY <1>1, KeptStays DEF HoldInv, WireInv, Durable
<1>5. m \in Nat /\ n \in {m - 1, m} /\ (wire[r].op = "claim" => n = m)
  <2>1. l \in Ledger BY <1>1 DEF Claiming, Committing
  <2>2. QED BY <1>1, <2>1 DEF Ledger, Sent
<1>6. Durable(l, k)'
  <2>1. CASE wire[r].op = "commit" /\ result = "yes"
    <3>1. k = m BY <1>1, <1>2, <2>1 DEF Sent
    <3>2. ASSUME NEW i \in 1..m PROVE Kept(l.binding, l.receipts[i])'
      <4>1. CASE i = m BY <1>1, <1>3, <2>1, <4>1 DEF LastReceipt
      <4>2. CASE i /= m BY <1>4, <1>5, <3>2, <4>2 DEF Durable
      <4>3. QED BY <4>1, <4>2
    <3>3. QED BY <3>1, <3>2 DEF Durable
  <2>2. CASE ~(wire[r].op = "commit" /\ result = "yes")
    <3>1. k = n BY <1>1, <1>2, <2>2 DEF Sent
    <3>2. QED BY <1>4, <3>1
  <2>3. QED BY <2>1, <2>2
<1>7. WireInv(r)'
  BY <1>1, <1>2, <1>3, <1>6 DEF HoldInv, WireInv
<1>8. SeenInv(r)'
  <2>1. PICK v : v = seen[r].view.ledger OBVIOUS
  <2>2. seen[r] /= None /\ v /= None => Sound(v)'
    BY <2>1, SoundStays DEF HoldInv, SeenInv
  <2>3. QED BY <2>1, <2>2 DEF HoldInv, SeenInv, Bound
<1>9. ReplyInv(r)'
  <2>1. PICK caller, receipt : caller = turn[r].caller /\ receipt = reply[r].receipt
    OBVIOUS
  <2>2. reply[r] /= None /\ reply[r].status = 200 => Kept(caller, receipt)'
    BY <2>1, KeptStays DEF HoldInv, ReplyInv
  <2>3. QED BY <2>1, <2>2 DEF HoldInv, ReplyInv
<1>10. QED BY <1>7, <1>8, <1>9 DEF HoldInv

LEMMA StoreClaimLedger ==
  ASSUME IInv, LedgerInv, NEW r \in Requests, StoreClaim(r) PROVE LedgerInv'
<1>1. PICK cmd, l : cmd = wire[r] /\ l = cmd.ledger OBVIOUS
<1>2. cmd \in Claiming /\ cmd.result = "sent" /\ cmd.op = "claim" /\ cmd /= None
  BY <1>1 DEF StoreClaim, OnItsWay, IInv, TypeInv, TypeOK, Committing
<1>3. /\ UNCHANGED <<pc, turn, seen, reply, epoch, archive>> /\ epoch \in Nat
      /\ wire \in [Requests -> Claiming \cup Committing \cup {None}]
  BY DEF StoreClaim, IInv, TypeInv, TypeOK
<1>4. PICK result \in {"yes", "no"} :
        /\ wire' = [wire EXCEPT ![r].result = result]
        /\ result = "no" => record' = record
        /\ result = "yes" => /\ ClaimAllowed(record, cmd, now)
                             /\ record' = Claim(record, cmd, now)
  <2>1. CASE /\ wire' = [wire EXCEPT ![r].result = "no"] /\ record' = record BY <2>1
  <2>2. CASE /\ wire' = [wire EXCEPT ![r].result = "yes"]
             /\ ClaimAllowed(record, cmd, now)
             /\ record' = Claim(record, cmd, now)
    BY <2>2
  <2>3. QED BY <1>1, <2>1, <2>2 DEF StoreClaim
<1>5. HoldInv(r)'
  <2>1. wire'[r] = [wire[r] EXCEPT !.result = result] BY <1>3, <1>4
  <2>2. HoldInv(r) BY DEF LedgerInv, HoldInv
  <2>3. QED BY <1>1, <1>2, <1>3, <2>1, <2>2, ResultLedger
<1>6. \A q \in Requests \ {r} :
        /\ pc'[q] = pc[q] /\ turn'[q] = turn[q] /\ seen'[q] = seen[q]
        /\ wire'[q] = wire[q] /\ reply'[q] = reply[q]
  BY <1>3, <1>4
<1>7. CASE result = "no"
  BY <1>3, <1>4, <1>5, <1>6, <1>7, QuietLedger
<1>8. CASE result = "yes"
  <2>1. record'.ledger = l /\ l \in Ledger
    BY <1>1, <1>2, <1>4, <1>8 DEF Claim, Claiming, IInv, TypeInv, TypeOK, Record
  <2>2. Sound(l)'
    <3>1. WellChained(l) /\ Durable(l, Len(l.receipts))
      BY <1>1, <1>2 DEF LedgerInv, WireInv, Sent
    <3>2. QED BY <1>3, <3>1, SoundStays DEF Sound
  <2>3. record.ledger /= None => l.receipts = record.ledger.receipts
    BY <1>1, <1>2, <1>4, <1>8, ClaimMatches DEF SameTurns
  <2>4. PresentInv' BY <1>3, <2>1, <2>3 DEF LedgerInv, PresentInv
  <2>5. OneResponsePerTurn' BY <1>3 DEF LedgerInv, OneResponsePerTurn
  <2>6. ASSUME NEW q \in Requests PROVE HoldInv(q)'
    <3>1. CASE q = r BY <1>5, <3>1
    <3>2. CASE q /= r BY <1>3, <1>6, <3>2, HoldStays DEF LedgerInv, HoldInv
    <3>3. QED BY <3>1, <3>2
  <2>7. QED BY <2>1, <2>2, <2>4, <2>5, <2>6 DEF LedgerInv, HoldInv
<1>9. QED BY <1>7, <1>8

LEMMA ClaimAnsweredLedger ==
  ASSUME IInv, LedgerInv, NEW r \in Requests,
         ClaimAnswered(r) \/ StartHandler(r) \/ HandlerEffect(r)
  PROVE  LedgerInv'
<1>1. /\ UNCHANGED <<record, turn, seen, wire, reply, epoch, archive>> /\ epoch \in Nat
      /\ pc \in [Requests -> Working \cup {"new", "done", "crashed"}]
  BY DEF ClaimAnswered, StartHandler, HandlerEffect, storeVars, historyVars, IInv,
         TypeInv, TypeOK
<1>2. \/ pc' = pc
      \/ /\ pc[r] \in {"claiming", "owner"}
         /\ \E label \in {"owner", "rereading", "running"} :
              pc' = [pc EXCEPT ![r] = label]
  BY DEF ClaimAnswered, StartHandler, HandlerEffect, Goto
<1>3. CASE pc' = pc
  <2>1. \A q \in Requests : HoldInv(q)'
    BY <1>1, <1>3, HoldStays DEF LedgerInv, HoldInv
  <2>2. QED BY <1>1, <1>3, <2>1, QuietLedger
<1>4. ASSUME pc[r] \in {"claiming", "owner"},
             NEW label \in {"owner", "rereading", "running"},
             pc' = [pc EXCEPT ![r] = label]
      PROVE  LedgerInv'
  <2>1. reply[r] = None BY <1>4 DEF LedgerInv, ReplyInv
  <2>2. WireInv(r)' BY <1>1, WireStays DEF LedgerInv
  <2>3. SeenInv(r)'
    <3>1. PICK v : v = seen[r].view.ledger OBVIOUS
    <3>2. seen[r] /= None /\ v /= None => Sound(v)'
      BY <1>1, <3>1, SoundStays DEF LedgerInv, SeenInv
    <3>3. pc'[r] = label BY <1>1, <1>4
    <3>4. QED BY <1>1, <3>1, <3>2, <3>3 DEF SeenInv
  <2>4. ReplyInv(r)' BY <1>1, <2>1 DEF ReplyInv
  <2>5. QED BY <1>1, <1>4, <2>2, <2>3, <2>4, QuietLedger DEF HoldInv
<1>5. QED BY <1>2, <1>3, <1>4

LEMMA RereadLedger ==
  ASSUME IInv, LedgerInv, NEW r \in Requests, Reread(r) PROVE LedgerInv'
<1>1. pc[r] \in Working BY DEF Reread, Working
<1>2. PICK view : view = Read(record, now) OBVIOUS
<1>3. CASE Answer(r, 409, None) \/ Answer(r, 503, None)
  BY <1>1, <1>3, AnswerLedger DEF Reread
<1>4. ASSUME Bound(view, turn[r]), NEW receipt \in ReceiptsFor(view, turn[r]),
             Answer(r, 200, receipt)
      PROVE  LedgerInv'
  <2>1. view.ledger /= None => Sound(view.ledger) BY <1>2 DEF Read, LedgerInv
  <2>2. receipt.transcript = turn[r].transcript /\ Kept(turn[r].caller, receipt)
    BY <1>4, <2>1, FoundKept
  <2>3. QED BY <1>1, <1>4, <2>2, AnswerLedger DEF Reread
<1>5. QED BY <1>2, <1>3, <1>4 DEF Reread

LEMMA RefusalLedger ==
  ASSUME IInv, LedgerInv, NEW r \in Requests,
         \/ TurnAway(r) \/ Unresolved(r) \/ Oversized(r) \/ Abort(r) \/ LoseOwnership(r)
  PROVE  LedgerInv'
<1>1. pc[r] \in Working
  BY DEF TurnAway, Unresolved, Oversized, Prepared, Abort, LoseOwnership, Working
<1>2. PICK status : Answer(r, status, None) /\ status /= 200
  <2>1. ASSUME TurnAway(r) PROVE Turnaway(seen[r].view, turn[r]) /= 200
    BY DEF Turnaway
  <2>2. QED BY <2>1 DEF TurnAway, Unresolved, Oversized, Abort, LoseOwnership
<1>3. UNCHANGED <<storeVars, turn, historyVars>>
  BY DEF TurnAway, Unresolved, Oversized, Abort, LoseOwnership
<1>4. QED BY <1>1, <1>2, <1>3, AnswerLedger

LEMMA CommitAnsweredLedger ==
  ASSUME IInv, LedgerInv, NEW r \in Requests, CommitAnswered(r) PROVE LedgerInv'
<1>1. pc[r] \in Working /\ wire[r] \in Committing /\ wire[r] /= None
      /\ wire[r].op = "commit"
  BY DEF CommitAnswered, Working, IInv, TypeInv, TypeOK, Shape, Holding, Claiming
<1>2. CASE wire[r].result = "yes"
  <2>1. PICK l, n : l = wire[r].ledger /\ n = Len(l.receipts) OBVIOUS
  <2>2. l \in Ledger /\ l.receipts /= <<>> BY <1>1, <2>1 DEF Committing
  <2>3. n \in 1..n BY <2>1, <2>2 DEF Ledger
  <2>4. /\ Durable(l, n) /\ l.binding = turn[r].caller
        /\ LastReceipt(l).transcript = turn[r].transcript
    BY <1>1, <1>2, <2>1 DEF LedgerInv, WireInv, Sent
  <2>5. Kept(turn[r].caller, LastReceipt(l)) BY <2>1, <2>3, <2>4 DEF Durable, LastReceipt
  <2>6. QED BY <1>1, <1>2, <2>1, <2>4, <2>5, AnswerLedger DEF CommitAnswered
<1>3. CASE wire[r].result /= "yes"
  BY <1>1, <1>3, AnswerLedger DEF CommitAnswered
<1>4. QED BY <1>2, <1>3

LEMMA SendCommitLedger ==
  ASSUME IInv, LedgerInv, NEW r \in Requests, SendCommit(r) PROVE LedgerInv'
<1> USE DEF SendCommit, Goto, storeVars, historyVars
<1>1. /\ pc[r] \in {"owner", "running"} /\ pc'[r] = "committing" /\ reply[r] = None
      /\ turn[r] \in Turn /\ wire[r] \in Claiming /\ wire[r] /= None
      /\ wire[r].op = "claim" /\ wire[r].result = "yes"
  BY DEF Prepared, IInv, TypeInv, TypeOK, Shape, Holding, Committing, LedgerInv,
         ReplyInv
<1>2. PICK old : old = wire[r].ledger OBVIOUS
<1>3. PICK ended \in Endings, active \in ActiveTTLs :
        wire' = [wire EXCEPT ![r] =
          [op |-> "commit", revision |-> wire[r].revision, token |-> r,
           ledger |-> CommittedLedger(old, turn[r], [by |-> r, end |-> ended]),
           active |-> active, result |-> "sent"]]
  BY <1>2
<1>4. PICK response : response = [by |-> r, end |-> ended] OBVIOUS
<1>5. PICK l : l = CommittedLedger(old, turn[r], response) OBVIOUS
<1>6. old \in Ledger /\ response \in Response
  BY <1>1, <1>2, <1>4 DEF Claiming, Response
<1>7. /\ WellChained(old) /\ old.binding = turn[r].caller
      /\ Durable(old, Len(old.receipts))
      /\ old.pending /= None /\ old.pending.transcript = turn[r].transcript
  BY <1>1, <1>2 DEF LedgerInv, WireInv, Sent, IInv, RequestInv, ClaimInv
<1>8. Fits(old, turn[r].transcript) BY <1>7 DEF WellChained
<1>9. /\ WellChained(l) /\ l.binding = old.binding
      /\ LastReceipt(l).transcript = turn[r].transcript
      /\ Len(l.receipts) = Len(old.receipts) + 1
      /\ \A i \in 1..Len(old.receipts) : l.receipts[i] = old.receipts[i]
  BY <1>1, <1>5, <1>6, <1>7, <1>8, CommittedChain
<1>10. /\ wire'[r].op = "commit" /\ wire'[r].ledger = l
       /\ wire'[r].result = "sent"
  BY <1>3, <1>4, <1>5 DEF IInv, TypeInv, TypeOK
<1>11. PICK n : n = Len(old.receipts) OBVIOUS
<1>12. epoch \in Nat /\ UNCHANGED <<record, turn, seen, reply, epoch, archive>>
  BY DEF IInv, TypeInv, TypeOK
<1>13. WireInv(r)'
  <2>1. n \in Nat BY <1>6, <1>11 DEF Ledger
  <2>2. Durable(l, n) BY <1>7, <1>9, <1>11 DEF Durable
  <2>3. Durable(l, n)' BY <1>12, <2>2, KeptStays DEF Durable
  <2>4. Sent(wire[r])' = n
    <3>1. Len(l.receipts) - 1 = n BY <1>9, <1>11, <2>1
    <3>2. Sent(wire[r])' = Len(l.receipts) - 1 BY <1>10 DEF Sent
    <3>3. QED BY <3>1, <3>2
  <2>5. WellChained(l)' BY <1>9 DEF WellChained, Fits
  <2>6. LastReceipt(wire[r].ledger)' = LastReceipt(l) BY <1>10 DEF LastReceipt
  <2>7. Durable(wire[r].ledger, Sent(wire[r]))' BY <1>10, <2>3, <2>4
  <2>8. QED BY <1>7, <1>9, <1>10, <1>12, <2>5, <2>6, <2>7 DEF WireInv
<1>14. SeenInv(r)'
  <2>1. PICK v : v = seen[r].view.ledger OBVIOUS
  <2>2. seen[r] /= None /\ v /= None => Sound(v)'
    BY <1>12, <2>1, SoundStays DEF LedgerInv, SeenInv
  <2>3. QED BY <1>1, <1>12, <2>1, <2>2 DEF SeenInv
<1>15. ReplyInv(r)' BY <1>1 DEF ReplyInv
<1>16. \A q \in Requests \ {r} :
         /\ pc'[q] = pc[q] /\ turn'[q] = turn[q] /\ seen'[q] = seen[q]
         /\ wire'[q] = wire[q] /\ reply'[q] = reply[q]
  BY DEF IInv, TypeInv, TypeOK
<1>17. QED BY <1>12, <1>13, <1>14, <1>15, <1>16, QuietLedger DEF HoldInv

\* A commit that takes effect adds one receipt, longer than those before it.
LEMMA StoreCommitLedger ==
  ASSUME IInv, LedgerInv, NEW r \in Requests, StoreCommit(r) PROVE LedgerInv'
<1>1. PICK cmd, l : cmd = wire[r] /\ l = cmd.ledger OBVIOUS
<1>2. cmd \in Committing /\ cmd.result = "sent" /\ cmd.op = "commit" /\ cmd /= None
  BY <1>1 DEF StoreCommit, OnItsWay, IInv, TypeInv, TypeOK, Claiming
<1>3. /\ UNCHANGED <<pc, turn, seen, reply, epoch>> /\ epoch \in Nat
      /\ wire \in [Requests -> Claiming \cup Committing \cup {None}]
  BY DEF StoreCommit, IInv, TypeInv, TypeOK
<1>4. HoldInv(r) BY DEF LedgerInv, HoldInv
<1>5. ASSUME NEW result \in {"yes", "no"}, wire' = [wire EXCEPT ![r].result = result],
             archive \subseteq archive',
             result = "yes" => Kept(turn[r].caller, LastReceipt(l))'
      PROVE  HoldInv(r)'
  <2>1. wire'[r] = [wire[r] EXCEPT !.result = result] BY <1>3, <1>5
  <2>2. wire'[r].ledger = l /\ turn'[r] = turn[r]
    BY <1>1, <1>2, <1>3, <2>1 DEF Committing
  <2>3. result = "yes" => Kept(turn[r].caller, LastReceipt(wire[r].ledger))'
    BY <1>5, <2>2 DEF Kept, LastReceipt
  <2>4. QED BY <1>1, <1>2, <1>3, <1>4, <1>5, <2>1, <2>3, ResultLedger
<1>6. ASSUME NEW result \in {"yes", "no"}, wire' = [wire EXCEPT ![r].result = result]
      PROVE  \A q \in Requests \ {r} :
               /\ pc'[q] = pc[q] /\ turn'[q] = turn[q] /\ seen'[q] = seen[q]
               /\ wire'[q] = wire[q] /\ reply'[q] = reply[q]
  BY <1>3, <1>6
<1>7. CASE /\ wire' = [wire EXCEPT ![r].result = "no"]
           /\ UNCHANGED <<record, archive>>
  <2>1. HoldInv(r)' BY <1>5, <1>7
  <2>2. QED BY <1>3, <1>6, <1>7, <2>1, QuietLedger
<1>8. CASE /\ CommitAllowed(record, cmd, now)
           /\ record' = Commit(record, cmd, now)
           /\ wire' = [wire EXCEPT ![r].result = "yes"]
           /\ archive' = archive \cup {<<epoch, l.binding, LastReceipt(l)>>}
  <2>1. record'.ledger = l /\ l \in Ledger /\ l.receipts /= <<>>
    BY <1>1, <1>2, <1>8 DEF Commit, Committing, IInv, TypeInv, TypeOK, Record
  <2>2. CommitTaken(r) BY <1>1, <1>2, <1>8 DEF CommitTaken
  <2>3. record.ledger /= None /\ record.ledger \in Ledger
    BY <1>8 DEF CommitAllowed, IInv, TypeInv, TypeOK, Record
  <2>4. PICK old : old = record.ledger.receipts OBVIOUS
  <2>5. PICK receipt \in Receipt : l.receipts = Append(old, receipt)
    BY <2>1, <2>2, <2>4, CommitTakenFacts
  <2>6. PICK n \in Nat : n = Len(old) /\ old \in Seq(Receipt)
    BY <2>3, <2>4 DEF Ledger
  <2>7. /\ Len(l.receipts) = n + 1 /\ LastReceipt(l) = l.receipts[n + 1]
        /\ \A i \in 1..n : l.receipts[i] = old[i]
    BY <2>5, <2>6 DEF LastReceipt
  <2>8. /\ WellChained(l) /\ l.binding = turn[r].caller /\ Durable(l, n)
    BY <1>1, <1>2, <2>6, <2>7 DEF LedgerInv, WireInv, Sent
  <2>9. Kept(l.binding, LastReceipt(l))' BY <1>3, <1>8 DEF Kept
  <2>10. HoldInv(r)'
    <3>1. Kept(turn[r].caller, LastReceipt(l))' BY <1>3, <2>8, <2>9 DEF Kept
    <3>2. QED BY <1>5, <1>8, <3>1
  <2>11. ASSUME NEW q \in Requests PROVE HoldInv(q)'
    <3>1. CASE q = r BY <2>10, <3>1
    <3>2. CASE q /= r BY <1>3, <1>6, <1>8, <3>2, HoldStays DEF LedgerInv, HoldInv
    <3>3. QED BY <3>1, <3>2
  <2>12. Sound(l)'
    <3>1. ASSUME NEW i \in 1..(n + 1) PROVE Kept(l.binding, l.receipts[i])'
      <4>1. CASE i = n + 1 BY <2>7, <2>9, <4>1
      <4>2. CASE i \in 1..n BY <1>3, <1>8, <2>8, <4>2, KeptStays DEF Durable
      <4>3. QED BY <2>6, <4>1, <4>2
    <3>2. WellChained(l)' BY <2>8 DEF WellChained, Fits
    <3>3. Durable(l, Len(l.receipts))' BY <2>7, <3>1 DEF Durable
    <3>4. QED BY <3>2, <3>3 DEF Sound
  <2>13. ASSUME NEW a \in archive, a[1] = epoch
         PROVE  \E i \in 1..n : a[3] = l.receipts[i]
    BY <2>4, <2>6, <2>7, <2>13 DEF LedgerInv, PresentInv
  <2>14. PresentInv'
    <3>1. ASSUME NEW a \in archive'
          PROVE  /\ a[1] <= epoch
                 /\ a[1] = epoch => \E i \in 1..(n + 1) : a[3] = l.receipts[i]
      <4>1. CASE a \in archive
        <5>1. a[1] <= epoch BY <4>1 DEF LedgerInv, PresentInv
        <5>2. a[1] = epoch => \E i \in 1..n : a[3] = l.receipts[i] BY <2>13, <4>1
        <5>3. 1..n \subseteq 1..(n + 1) BY <2>6
        <5>4. QED BY <5>1, <5>2, <5>3
      <4>2. CASE a = <<epoch, l.binding, LastReceipt(l)>>
        <5>1. n + 1 \in 1..(n + 1) BY <2>6
        <5>2. a[1] = epoch /\ a[3] = l.receipts[n + 1] BY <2>7, <4>2
        <5>3. QED BY <1>3, <5>1, <5>2
      <4>3. QED BY <1>8, <3>1, <4>1, <4>2
    <3>2. l /= None BY <2>1
    <3>3. QED BY <1>3, <2>1, <2>7, <3>1, <3>2 DEF PresentInv
  <2>15. OneResponsePerTurn'
    <3>1. PICK new : new = <<epoch, l.binding, LastReceipt(l)>> OBVIOUS
    <3>2. ASSUME NEW a \in archive, a[1] = epoch
          PROVE  a[3].transcript /= LastReceipt(l).transcript
      <4>1. PICK i \in 1..n : a[3] = l.receipts[i] BY <2>13, <3>2
      <4>2. Len(l.receipts[i].transcript) = i - 1
            /\ Len(l.receipts[n + 1].transcript) = n
        <5>1. i \in 1..Len(l.receipts) /\ n + 1 \in 1..Len(l.receipts)
          BY <2>6, <2>7
        <5>2. n + 1 - 1 = n BY <2>6
        <5>3. \A j \in 1..Len(l.receipts) : Len(l.receipts[j].transcript) = j - 1
          BY <2>8 DEF WellChained
        <5>4. Len(l.receipts[n + 1].transcript) = n + 1 - 1 BY <5>1, <5>3
        <5>5. QED BY <5>1, <5>2, <5>3, <5>4
      <4>3. i - 1 /= n BY <2>6
      <4>4. QED BY <2>7, <4>1, <4>2, <4>3
    <3>3. archive' = archive \cup {new} /\ new[1] = epoch /\ new[3] = LastReceipt(l)
      BY <1>8, <3>1
    <3>4. QED BY <3>2, <3>3 DEF LedgerInv, OneResponsePerTurn
  <2>16. QED BY <2>1, <2>11, <2>12, <2>14, <2>15 DEF LedgerInv, HoldInv
<1>9. QED BY <1>1, <1>7, <1>8 DEF StoreCommit

\* Time and the provider do not touch what is durable; when the ledger is
\* forgotten, a new retention period begins.
LEMMA SurroundingsLedger ==
  ASSUME IInv, LedgerInv, ProviderClose \/ Tick \/ UNCHANGED vars PROVE LedgerInv'
<1>1. /\ UNCHANGED <<pc, turn, seen, wire, reply, archive>>
      /\ epoch \in Nat /\ epoch' \in {epoch, epoch + 1}
  BY DEF ProviderClose, Tick, vars, storeVars, localVars, historyVars, IInv, TypeInv,
         TypeOK
<1>2. ASSUME NEW q \in Requests PROVE HoldInv(q)'
  BY <1>1, HoldStays DEF LedgerInv, HoldInv
<1>3. OneResponsePerTurn' BY <1>1 DEF LedgerInv, OneResponsePerTurn
<1>4. CASE record'.ledger = record.ledger /\ epoch' = epoch
  <2>1. PICK l : l = record.ledger OBVIOUS
  <2>2. l /= None => Sound(l)' BY <1>1, <2>1, SoundStays DEF LedgerInv
  <2>3. PresentInv' BY <1>1, <1>4 DEF LedgerInv, PresentInv
  <2>4. QED BY <1>2, <1>3, <1>4, <2>1, <2>2, <2>3 DEF LedgerInv, HoldInv
<1>5. CASE record'.ledger = None /\ epoch' = epoch + 1
  <2>1. ASSUME NEW a \in archive PROVE a[1] <= epoch' /\ a[1] /= epoch'
    <3>1. a[1] \in Nat /\ a[1] <= epoch BY DEF LedgerInv, PresentInv, IInv, TypeInv, TypeOK
    <3>2. QED BY <1>1, <1>5, <3>1
  <2>2. PresentInv' BY <1>1, <2>1 DEF PresentInv
  <2>3. QED BY <1>2, <1>3, <1>5, <2>2 DEF LedgerInv, HoldInv
<1>6. CASE ProviderClose
  BY <1>4, <1>6 DEF ProviderClose, Close, IInv, TypeInv, TypeOK, Record, historyVars
<1>7. CASE Tick
  BY <1>4, <1>5, <1>7 DEF Tick, ExpireRecord, NoRecord
<1>8. CASE UNCHANGED vars BY <1>4, <1>8 DEF vars, storeVars, historyVars
<1>9. QED BY <1>6, <1>7, <1>8

LEMMA LedgerNext == IInv /\ LedgerInv /\ [Next]_vars => LedgerInv'
<1> SUFFICES ASSUME IInv, LedgerInv, [Next]_vars PROVE LedgerInv' OBVIOUS
<1>1. ASSUME NEW r \in Requests, Step(r) PROVE LedgerInv'
  BY <1>1, StartLedger, ReadRecordLedger, ObserveRecordLedger, ReadJournalLedger,
     SendClaimLedger, StoreClaimLedger, ClaimAnsweredLedger, RereadLedger,
     RefusalLedger, SendCommitLedger, StoreCommitLedger, CommitAnsweredLedger,
     CrashLedger
  DEF Step
<1>2. QED BY <1>1, SurroundingsLedger DEF Next

LEMMA LedgerAlways == Spec => []LedgerInv
BY LedgerInitially, LedgerNext, Invariant, PTL DEF Spec

\* Within one retention period a turn has one response, whatever is
\* duplicated, retried, delayed or recovered (StoreCommit, TurnStore.js).
THEOREM OneResponse == Spec => []OneResponsePerTurn
BY LedgerAlways, PTL DEF LedgerInv

\* The ledger of the record is at all times a chain of turns, each one input
\* longer than the one before, with nothing after an END.
THEOREM ReceiptsAreChained == Spec => []ReceiptsChain
<1>1. LedgerInv => ReceiptsChain BY DEF LedgerInv, Sound, WellChained, ReceiptsChain
<1>2. QED BY <1>1, LedgerAlways, PTL

\* No 200 answer is sent before its receipt is durable, for that very turn
\* and caller: replayed, found after a lost claim, or just committed.
THEOREM AnswersComeFromTheLedger == Spec => []AnswersAreDurable
<1>1. LedgerInv => AnswersAreDurable
  BY DEF LedgerInv, ReplyInv, Kept, AnswersAreDurable
<1>2. QED BY <1>1, LedgerAlways, PTL

-----------------------------------------------------------------------------
(***************************************************************************)
(* The gateway implements TurnLog: a commit that takes effect logs a turn, *)
(* the end of retention forgets the log, an answer with 200 hands out an   *)
(* entry of the archive, and every other step leaves the log as it is.     *)
(***************************************************************************)
Entry  == [caller: Callers, transcript: Transcripts, response: Response]
Logged == {<<a[1], EntryOf(a[2], a[3])>> : a \in archive}
Told   == [r \in Requests |-> AnswerOf(r)]
Mapped == <<LogOf(record), epoch, Logged, Told>>

LogStep ==
  \/ \E e \in Entry : Log!LogTurn(e)
  \/ Log!Forget
  \/ \E r \in Requests, e \in Entry : Log!AnswerFrom(r, e)
  \/ UNCHANGED Mapped

\* A log depends on the ledger's receipts and caller alone.
LEMMA LogOfReceipts ==
  ASSUME NEW a, NEW b, a.ledger /= None, b.ledger /= None,
         a.ledger.receipts = b.ledger.receipts, a.ledger.binding = b.ledger.binding
  PROVE  LogOf(a) = LogOf(b)
BY DEF LogOf

LEMMA EmptyLog ==
  ASSUME NEW rec, rec.ledger = None \/ Len(rec.ledger.receipts) = 0
  PROVE  LogOf(rec) = <<>>
<1>1. CASE rec.ledger = None BY <1>1 DEF LogOf
<1>2. CASE rec.ledger /= None
  <2>1. LogOf(rec) = [i \in 1..0 |-> EntryOf(rec.ledger.binding, rec.ledger.receipts[i])]
    BY <1>2 DEF LogOf
  <2>2. 1..0 = {} OBVIOUS
  <2>3. \A f : DOMAIN f = {} /\ f = [i \in DOMAIN f |-> f[i]] => f = <<>> OBVIOUS
  <2>4. QED BY <2>1, <2>2, <2>3
<1>3. QED BY <1>1, <1>2

\* A log with one receipt more.
LEMMA LongerLog ==
  ASSUME NEW a, NEW b, a.ledger /= None, b.ledger /= None,
         a.ledger.receipts \in Seq(Receipt), a.ledger.binding \in Callers,
         NEW receipt \in Receipt, b.ledger.receipts = Append(a.ledger.receipts, receipt),
         b.ledger.binding = a.ledger.binding
  PROVE  LogOf(b) = Append(LogOf(a), EntryOf(a.ledger.binding, receipt))
<1>1. PICK s, caller : s = a.ledger.receipts /\ caller = a.ledger.binding OBVIOUS
<1>2. PICK n \in Nat : n = Len(s) BY <1>1
<1>3. PICK old : old = [i \in 1..n |-> EntryOf(caller, s[i])] OBVIOUS
<1>4. PICK new : new = [i \in 1..(n + 1) |-> EntryOf(caller, Append(s, receipt)[i])]
  OBVIOUS
<1>5. LogOf(a) = old /\ LogOf(b) = new
  <2>1. Len(Append(s, receipt)) = n + 1 BY <1>1, <1>2
  <2>2. QED BY <1>1, <1>2, <1>3, <1>4, <2>1 DEF LogOf
<1>6. \A i \in 1..n : EntryOf(caller, s[i]) \in Entry
  <2>1. \A i \in 1..n : s[i] \in Receipt BY <1>1, <1>2
  <2>2. QED BY <1>1, <2>1 DEF EntryOf, Entry, Receipt
<1>7. old \in Seq(Entry) /\ Len(old) = n
  <2>1. old \in [1..n -> Entry] BY <1>3, <1>6
  <2>2. QED BY <1>2, <2>1
<1>8. EntryOf(caller, receipt) \in Entry BY <1>1 DEF EntryOf, Entry, Receipt
<1>9. PICK e : e = EntryOf(caller, receipt) OBVIOUS
<1>10. /\ Append(old, e) \in Seq(Entry) /\ Len(Append(old, e)) = n + 1
       /\ Append(old, e)[n + 1] = e
       /\ \A i \in 1..n : Append(old, e)[i] = old[i]
  BY <1>7, <1>8, <1>9
<1>11. new[n + 1] = e BY <1>1, <1>2, <1>4, <1>9
<1>12. \A i \in 1..n : new[i] = old[i] BY <1>1, <1>2, <1>3, <1>4
<1>13. new = Append(old, e)
  <2>1. \A i \in 1..(n + 1) : new[i] = Append(old, e)[i]
    <3>1. \A i \in 1..(n + 1) : i \in 1..n \/ i = n + 1 BY <1>2
    <3>2. QED BY <1>10, <1>11, <1>12, <3>1
  <2>2. DOMAIN Append(old, e) = 1..(n + 1) BY <1>10
  <2>3. new = [i \in 1..(n + 1) |-> new[i]] BY <1>4
  <2>4. Append(old, e) = [i \in 1..(n + 1) |-> Append(old, e)[i]]
    <3>1. PICK f : f = Append(old, e) OBVIOUS
    <3>2. f \in Seq(Entry) /\ Len(f) = n + 1 BY <1>10, <3>1
    <3>3. f \in [1..Len(f) -> Entry] BY <3>2, LenProperties
    <3>4. f = [i \in 1..(n + 1) |-> f[i]] BY <3>2, <3>3
    <3>5. QED BY <3>1, <3>4
  <2>5. QED BY <2>1, <2>3, <2>4
<1>14. QED BY <1>1, <1>5, <1>9, <1>13

LEMMA QuietMaps ==
  ASSUME LogOf(record)' = LogOf(record), epoch' = epoch, archive' = archive,
         \A q \in Requests : AnswerOf(q)' = AnswerOf(q)
  PROVE  LogStep
BY DEF LogStep, Mapped, Logged, Told

\* A step after which at most one request more is answered.
LEMMA AnswerMaps ==
  ASSUME IInv, LedgerInv, IInv', LedgerInv', NEW r \in Requests,
         reply[r] = None, \A q \in Requests \ {r} : reply'[q] = reply[q],
         UNCHANGED <<record, turn, epoch, archive>>
  PROVE  LogStep
<1>1. \A q \in Requests \ {r} : AnswerOf(q)' = AnswerOf(q) BY DEF AnswerOf
<1>2. AnswerOf(r) = None BY DEF AnswerOf
<1>3. CASE reply'[r] /= None /\ reply'[r].status = 200
  <2>1. PICK caller, receipt : caller = turn[r].caller /\ receipt = reply'[r].receipt
    OBVIOUS
  <2>2. PICK e : e = EntryOf(caller, receipt) OBVIOUS
  <2>3. AnswerOf(r)' = e BY <1>3, <2>1, <2>2 DEF AnswerOf, EntryOf
  <2>4. Kept(caller, receipt)
    <3>1. Kept(turn[r].caller, reply[r].receipt)' BY <1>3 DEF LedgerInv, ReplyInv
    <3>2. QED BY <2>1, <3>1 DEF Kept
  <2>5. PICK i \in 0..epoch : <<i, caller, receipt>> \in archive BY <2>4 DEF Kept
  <2>6. e \in Entry
    <3>1. caller \in Callers /\ receipt \in Receipt
      BY <2>5 DEF IInv, TypeInv, TypeOK
    <3>2. QED BY <2>2, <3>1 DEF EntryOf, Entry, Receipt
  <2>7. <<i, e>> \in Logged
    <3>1. PICK a \in archive : a = <<i, caller, receipt>> BY <2>5
    <3>2. <<a[1], EntryOf(a[2], a[3])>> = <<i, e>> BY <2>2, <3>1
    <3>3. QED BY <3>2 DEF Logged
  <2>8. Told' = [Told EXCEPT ![r] = e] /\ Told[r] = None
    BY <1>1, <1>2, <2>3 DEF Told
  <2>9. Log!AnswerFrom(r, e)
    BY <2>5, <2>7, <2>8 DEF Log!AnswerFrom, Told, Logged
  <2>10. QED BY <2>6, <2>9 DEF LogStep
<1>4. CASE ~(reply'[r] /= None /\ reply'[r].status = 200)
  <2>1. AnswerOf(r)' = None BY <1>4 DEF AnswerOf
  <2>2. QED BY <1>1, <1>2, <2>1, QuietMaps
<1>5. QED BY <1>3, <1>4

\* The steps of a request, but for those of the store.
LEMMA RequestMaps ==
  ASSUME IInv, LedgerInv, IInv', LedgerInv', NEW r \in Requests, Step(r),
         ~StoreClaim(r), ~StoreCommit(r)
  PROVE  LogStep
<1>1. pc \in [Requests -> Working \cup {"new", "done", "crashed"}]
      /\ reply \in [Requests -> Reply \cup {None}]
      /\ turn \in [Requests -> Turn \cup {None}]
  BY DEF IInv, TypeInv, TypeOK
<1>2. CASE Start(r)
  <2>1. reply[r] = None BY <1>2 DEF Start, LedgerInv, ReplyInv
  <2>2. reply' = reply /\ \A q \in Requests \ {r} : turn'[q] = turn[q]
    BY <1>1, <1>2 DEF Start
  <2>3. \A q \in Requests : AnswerOf(q)' = AnswerOf(q) BY <2>1, <2>2 DEF AnswerOf
  <2>4. UNCHANGED <<record, epoch, archive>>
    BY <1>2 DEF Start, storeVars, historyVars
  <2>5. QED BY <2>3, <2>4, QuietMaps
<1>3. CASE reply' = reply /\ UNCHANGED <<record, turn, epoch, archive>>
  <2>1. \A q \in Requests : AnswerOf(q)' = AnswerOf(q) BY <1>3 DEF AnswerOf
  <2>2. QED BY <1>3, <2>1, QuietMaps
<1>4. CASE /\ pc[r] \in Working /\ UNCHANGED <<record, turn, epoch, archive>>
           /\ \E status, receipt : Answer(r, status, receipt)
  <2>1. reply[r] = None BY <1>4 DEF LedgerInv, ReplyInv, Working
  <2>2. \A q \in Requests \ {r} : reply'[q] = reply[q] BY <1>1, <1>4 DEF Answer
  <2>3. QED BY <1>4, <2>1, <2>2, AnswerMaps
<1>5. CASE \/ ReadRecord(r) \/ SendClaim(r) \/ ClaimAnswered(r) \/ StartHandler(r)
           \/ HandlerEffect(r) \/ SendCommit(r) \/ Crash(r)
  BY <1>3, <1>5 DEF ReadRecord, SendClaim, ClaimAnswered, StartHandler, HandlerEffect,
     SendCommit, Crash, storeVars, historyVars
<1>6. CASE ObserveRecord(r) \/ ReadJournal(r)
  BY <1>3, <1>4, <1>6 DEF ObserveRecord, ReadJournal, storeVars, historyVars, Working
<1>7. CASE \/ TurnAway(r) \/ Reread(r) \/ Unresolved(r) \/ Oversized(r)
           \/ CommitAnswered(r) \/ Abort(r) \/ LoseOwnership(r)
  <2>1. pc[r] \in Working
    BY <1>7 DEF TurnAway, Reread, Unresolved, Oversized, Prepared, CommitAnswered,
                Abort, LoseOwnership, Working
  <2>2. \E status, receipt : Answer(r, status, receipt)
    BY <1>7 DEF TurnAway, Reread, Unresolved, Oversized, CommitAnswered, Abort,
                LoseOwnership
  <2>3. UNCHANGED <<record, turn, epoch, archive>>
    BY <1>7 DEF TurnAway, Reread, Unresolved, Oversized, CommitAnswered, Abort,
                LoseOwnership, storeVars, historyVars
  <2>4. QED BY <1>4, <2>1, <2>2, <2>3
<1>8. QED BY <1>2, <1>5, <1>6, <1>7 DEF Step

LEMMA StoreClaimMaps ==
  ASSUME IInv, LedgerInv, NEW r \in Requests, StoreClaim(r) PROVE LogStep
<1>1. UNCHANGED <<turn, reply, epoch, archive>> BY DEF StoreClaim
<1>2. \A q \in Requests : AnswerOf(q)' = AnswerOf(q) BY <1>1 DEF AnswerOf
<1>3. CASE record' = record BY <1>1, <1>2, <1>3, QuietMaps
<1>4. CASE ClaimTaken(r)
  <2>1. PICK cmd, l : cmd = wire[r] /\ l = cmd.ledger OBVIOUS
  <2>2. cmd \in Claiming /\ cmd /= None /\ cmd.op = "claim"
    BY <1>4, <2>1 DEF ClaimTaken, Claiming
  <2>3. l \in Ledger /\ record'.ledger = l /\ l /= None
    BY <1>4, <2>1, <2>2 DEF ClaimTaken, Claim, Claiming, IInv, TypeInv, TypeOK, Record
  <2>4. CASE record.ledger = None
    <3>1. cmd.revision = 0 BY <1>4, <2>1, <2>4 DEF ClaimTaken, ClaimAllowed, Revision
    <3>2. cmd.revision = l.revision BY <2>1, <2>2 DEF IInv, RequestInv, ClaimInv
    <3>3. WellChained(l) BY <2>1, <2>2 DEF LedgerInv, WireInv
    <3>4. Len(l.receipts) = 0 BY <3>1, <3>2, <3>3 DEF WellChained
    <3>5. PICK rec : rec = record' OBVIOUS
    <3>6. LogOf(rec) = <<>> BY <2>3, <3>4, <3>5, EmptyLog
    <3>7. LogOf(record) = <<>> BY <2>4, EmptyLog
    <3>8. LogOf(record)' = LogOf(rec) BY <3>5 DEF LogOf
    <3>9. QED BY <1>1, <1>2, <3>6, <3>7, <3>8, QuietMaps
  <2>5. CASE record.ledger /= None
    <3>1. SameTurns(l, record.ledger) BY <1>4, <2>3, <2>5, ClaimTakenFacts
    <3>2. PICK rec, old : rec = record' /\ old = record OBVIOUS
    <3>3. LogOf(rec) = LogOf(old)
      BY <2>3, <2>5, <3>1, <3>2, LogOfReceipts DEF SameTurns
    <3>4. LogOf(record)' = LogOf(rec) /\ LogOf(record) = LogOf(old)
      BY <3>2 DEF LogOf
    <3>5. QED BY <1>1, <1>2, <3>3, <3>4, QuietMaps
  <2>6. QED BY <2>4, <2>5
<1>5. QED BY <1>3, <1>4 DEF StoreClaim, OnItsWay, ClaimTaken, IInv, TypeInv, TypeOK,
                            Committing

LEMMA StoreCommitMaps ==
  ASSUME IInv, LedgerInv, LedgerInv', NEW r \in Requests, StoreCommit(r) PROVE LogStep
<1>1. UNCHANGED <<turn, reply, epoch>> BY DEF StoreCommit
<1>2. \A q \in Requests : AnswerOf(q)' = AnswerOf(q) BY <1>1 DEF AnswerOf
<1>3. CASE record' = record /\ archive' = archive BY <1>1, <1>2, <1>3, QuietMaps
<1>4. CASE /\ CommitTaken(r)
           /\ archive' = archive \cup
                {<<epoch, wire[r].ledger.binding, LastReceipt(wire[r].ledger)>>}
  <2>1. PICK old, l, caller :
          old = record.ledger /\ l = wire[r].ledger /\ caller = old.binding
    OBVIOUS
  <2>2. /\ old \in Ledger /\ old /= None /\ l \in Ledger /\ l /= None
        /\ record'.ledger = l
    BY <1>4, <2>1 DEF CommitTaken, CommitAllowed, Commit, Committing, IInv, TypeInv,
                      TypeOK, Record
  <2>3. l.binding = caller BY <1>4, <2>1, <2>2, CommitTakenFacts
  <2>4. PICK receipt \in Receipt : l.receipts = Append(old.receipts, receipt)
    BY <1>4, <2>1, <2>2, CommitTakenFacts
  <2>5. PICK n \in Nat : n = Len(old.receipts) /\ old.receipts \in Seq(Receipt)
    BY <2>2 DEF Ledger
  <2>6. /\ Len(l.receipts) = n + 1 /\ LastReceipt(l) = receipt
        /\ l.receipts[n + 1] = receipt
        /\ \A i \in 1..n : l.receipts[i] = old.receipts[i]
    BY <2>4, <2>5 DEF LastReceipt
  <2>7. WellChained(l) BY <2>2 DEF LedgerInv, Sound, WellChained, Fits
  <2>8. PICK e : e = EntryOf(caller, receipt) OBVIOUS
  <2>9. e \in Entry /\ caller \in Callers
    BY <2>1, <2>2, <2>8 DEF EntryOf, Entry, Receipt, Ledger
  <2>10. LogOf(record)' = Append(LogOf(record), e)
    <3>1. PICK a, b : a = record /\ b = record' OBVIOUS
    <3>2. LogOf(b) = Append(LogOf(a), EntryOf(a.ledger.binding, receipt))
      <4>1. /\ a.ledger = old /\ a.ledger /= None /\ b.ledger = l /\ b.ledger /= None
            /\ a.ledger.binding = caller /\ b.ledger.binding = caller
        BY <2>1, <2>2, <2>3, <3>1
      <4>2. QED BY <2>4, <2>5, <2>9, <4>1, LongerLog
    <3>3. LogOf(record) = LogOf(a) /\ LogOf(record)' = LogOf(b) BY <3>1 DEF LogOf
    <3>4. QED BY <2>1, <2>8, <3>1, <3>2, <3>3
  <2>11. /\ Len(LogOf(record)) = n
         /\ \A i \in 1..n : LogOf(record)[i] = EntryOf(caller, old.receipts[i])
    <3>1. LogOf(record) = [i \in 1..n |-> EntryOf(caller, old.receipts[i])]
      BY <2>1, <2>2, <2>5 DEF LogOf
    <3>2. QED BY <2>5, <3>1
  <2>12. Logged' = Logged \cup {<<epoch, e>>}
    <3>1. PICK new : new = <<epoch, caller, receipt>> OBVIOUS
    <3>2. archive' = archive \cup {new} BY <1>4, <2>1, <2>3, <2>6, <3>1
    <3>3. <<new[1], EntryOf(new[2], new[3])>> = <<epoch, e>> BY <2>8, <3>1
    <3>4. QED BY <3>2, <3>3 DEF Logged, EntryOf
  <2>13. Log!Continues(e)
    <3>1. Len(e.transcript) = n
      <4>1. n + 1 \in 1..Len(l.receipts) /\ n + 1 - 1 = n BY <2>5, <2>6
      <4>2. \A j \in 1..Len(l.receipts) : Len(l.receipts[j].transcript) = j - 1
        BY <2>7 DEF WellChained
      <4>3. Len(l.receipts[n + 1].transcript) = n BY <4>1, <4>2
      <4>4. QED BY <2>6, <2>8, <4>3 DEF EntryOf
    <3>2. ASSUME n > 0
          PROVE  LET last == LogOf(record)[n] IN
                 /\ e.caller = last.caller
                 /\ ~last.response.end
                 /\ SubSeq(e.transcript, 1, n - 1) = last.transcript
      <4>1. PICK before : before = old.receipts[n] OBVIOUS
      <4>2. n \in 1..n /\ n \in 1..(n + 1) /\ n + 1 \in 1..(n + 1) /\ n + 1 > 1
            /\ n < n + 1 /\ (n + 1) - 1 = n
        BY <2>5, <3>2
      <4>3. LogOf(record)[n] = EntryOf(caller, before) /\ before = l.receipts[n]
        BY <2>6, <2>11, <4>1, <4>2
      <4>4. ~before.response.end /\ Len(before.transcript) = n - 1
        BY <2>6, <2>7, <4>2, <4>3 DEF WellChained
      <4>5. Extends(receipt.transcript, before.transcript)
        <5>1. \A j \in 1..Len(l.receipts) : j > 1 =>
                Extends(l.receipts[j].transcript, l.receipts[j - 1].transcript)
          BY <2>7 DEF WellChained
        <5>2. Extends(l.receipts[n + 1].transcript, l.receipts[(n + 1) - 1].transcript)
          BY <2>6, <4>2, <5>1
        <5>3. QED BY <2>6, <4>2, <4>3, <5>2
      <4>6. SubSeq(receipt.transcript, 1, n - 1) = before.transcript
        BY <4>4, <4>5 DEF Extends
      <4>7. QED BY <2>8, <4>3, <4>4, <4>6 DEF EntryOf
    <3>3. QED BY <2>11, <3>1, <3>2 DEF Log!Continues
  <2>14. Told' = Told BY <1>2 DEF Told
  <2>15. Log!LogTurn(e)
    BY <1>1, <2>10, <2>12, <2>13, <2>14 DEF Log!LogTurn, Logged, Told
  <2>16. QED BY <2>9, <2>15 DEF LogStep
<1>5. QED BY <1>3, <1>4 DEF StoreCommit, OnItsWay, CommitTaken, IInv, TypeInv, TypeOK,
                            Claiming

LEMMA SurroundingsMap ==
  ASSUME IInv, LedgerInv, ProviderClose \/ Tick \/ UNCHANGED vars PROVE LogStep
<1>1. UNCHANGED <<turn, reply, archive>>
  BY DEF ProviderClose, Tick, vars, localVars, historyVars
<1>2. \A q \in Requests : AnswerOf(q)' = AnswerOf(q) BY <1>1 DEF AnswerOf
<1>3. CASE record'.ledger = record.ledger /\ epoch' = epoch
  <2>1. LogOf(record)' = LogOf(record) BY <1>3 DEF LogOf
  <2>2. QED BY <1>1, <1>2, <1>3, <2>1, QuietMaps
<1>4. CASE record'.ledger = None /\ epoch' = epoch + 1
  <2>1. LogOf(record)' = <<>> BY <1>4 DEF LogOf
  <2>2. Told' = Told /\ Logged' = Logged BY <1>1, <1>2 DEF Told, Logged
  <2>3. Log!Forget BY <1>4, <2>1, <2>2 DEF Log!Forget, Told, Logged
  <2>4. QED BY <2>3 DEF LogStep
<1>5. CASE ProviderClose
  BY <1>3, <1>5 DEF ProviderClose, Close, IInv, TypeInv, TypeOK, Record, historyVars
<1>6. CASE Tick BY <1>3, <1>4, <1>6 DEF Tick, ExpireRecord, NoRecord
<1>7. CASE UNCHANGED vars BY <1>3, <1>7 DEF vars, storeVars, historyVars
<1>8. QED BY <1>5, <1>6, <1>7

LEMMA EveryStepMaps ==
  IInv /\ LedgerInv /\ IInv' /\ LedgerInv' /\ [Next]_vars => LogStep
BY RequestMaps, StoreClaimMaps, StoreCommitMaps, SurroundingsMap DEF Next

\* The gateway implements the turn log, for any number of requests, workers
\* and transcripts: what the store's scripts leave and what the handsets are
\* told can be explained by a log that grows one turn at a time.
THEOREM GatewayImplementsTurnLog == Spec => ImplementsTurnLog
<1>1. Init => Log!LogInit
  <2> SUFFICES ASSUME Init PROVE Log!LogInit OBVIOUS
  <2>1. record.ledger = None /\ epoch = 0 /\ archive = {} BY DEF Init, NoRecord
  <2>2. \A q \in Requests : AnswerOf(q) = None BY DEF Init, AnswerOf
  <2>3. QED BY <2>1, <2>2 DEF Log!LogInit, LogOf
<1>2. LogStep => [Log!LogNext]_(Log!logVars)
  BY DEF LogStep, Log!LogNext, Log!logVars, Mapped, Logged, Told, Entry
<1>3. Spec => [][Log!LogNext]_(Log!logVars)
  BY <1>2, EveryStepMaps, Invariant, LedgerAlways, PTL DEF Spec
<1>4. QED BY <1>1, <1>3, PTL DEF Spec, ImplementsTurnLog, Log!LogSpec

-----------------------------------------------------------------------------
(***************************************************************************)
(* End events.  What fences a turn is the record's closed flag.  The       *)
(* record may expire before the journal does, and a later event then       *)
(* leaves a closed record only; so a turn that found no ledger is fenced   *)
(* because it read the journal after the record: from then on an event     *)
(* leaves a closed record that outlives the turn's deadline d.             *)
(***************************************************************************)
\* A view without a ledger before the journal is read, and any after it.
Absent(d) ==
  /\ d <= now + Deadline
  /\ now < d => /\ ~record.orphan
                /\ record.ledger /= None => d <= record.expiresAt
Fresh(d) ==
  /\ d <= now + Deadline
  /\ now < d => /\ ~record.orphan
                /\ record.expiresAt /= 0 => d <= record.expiresAt
                /\ journal /= 0 => record.closed

StoreFence ==
  /\ journal <= now + EventTTL
  /\ ~Events => journal = 0
  /\ record.expiresAt /= 0 => now < record.expiresAt
  /\ record.orphan => record.ledger = None /\ record.expiresAt \in 1..(now + 1)
  /\ record.ledger /= None => record.expiresAt /= 0 /\ (journal /= 0 => record.closed)
  /\ record.ledger = None /\ record.closed =>
       record.expiresAt /= 0 /\ record.expiresAt <= journal
  /\ record.ledger = None /\ ~record.closed /\ ~record.orphan => record.expiresAt = 0

LookFence(r) ==
  LET view == seen[r].view  d == view.now + Deadline IN
  /\ pc[r] \in {"read", "journal"} /\ view.ledger = None /\ ~view.orphan => Absent(d)
  /\ pc[r] \in {"journal", "deciding"} => ~view.orphan
  /\ pc[r] = "deciding" /\ view.ledger = None /\ ~turn[r].recovering => Fresh(d)

ClaimFence(r) ==
  LET cmd == wire[r] IN
  cmd /= None /\ cmd.op = "claim" =>
    /\ cmd.ledger.pending.kind = "recovery" => turn[r].recovering
    /\ cmd.result = "sent" /\ ~turn[r].recovering => Fresh(cmd.deadline)

OwnerFence(r) ==
  OwnedBy(r) /\ PendingOf(record).kind = "recovery" => turn[r].recovering

FenceInv ==
  StoreFence /\ \A r \in Requests : LookFence(r) /\ ClaimFence(r) /\ OwnerFence(r)

LEMMA FenceInitially == Init => FenceInv
<1> SUFFICES ASSUME Init PROVE FenceInv OBVIOUS
<1>1. PICK lost \in BOOLEAN :
        record = [NoRecord EXCEPT !.orphan = lost,
                                  !.expiresAt = IF lost THEN 1 ELSE 0]
  BY ZenonT(30) DEF Init
<1>2. /\ record.ledger = None /\ record.closed = FALSE /\ record.orphan = lost
      /\ record.expiresAt = IF lost THEN 1 ELSE 0
      /\ now = 0 /\ journal = 0
  BY <1>1 DEF NoRecord, Init
<1>3. StoreFence BY <1>2 DEF StoreFence
<1>4. ASSUME NEW r \in Requests PROVE LookFence(r) /\ ClaimFence(r) /\ OwnerFence(r)
  BY <1>2 DEF Init, LookFence, ClaimFence, OwnerFence, OwnedBy, PendingOf
<1>5. QED BY <1>3, <1>4 DEF FenceInv

\* What a step of the store must leave to everyone who relies on a fence.
Fences ==
  \A d \in Int : (Absent(d) => Absent(d)') /\ (Fresh(d) => Fresh(d)')

\* Deadlines are integers.
LEMMA FenceTimes ==
  ASSUME IInv, NEW r \in Requests
  PROVE  /\ pc[r] \in Looking => seen[r].view.now + Deadline \in Int
         /\ wire[r] /= None /\ wire[r].op = "claim" => wire[r].deadline \in Int
<1>1. pc[r] \in Looking => seen[r] \in Sight BY DEF IInv, TypeInv, Shape
<1>2. pc[r] \in Looking => seen[r].view.now \in Nat BY <1>1 DEF Sight, View
<1>3. wire[r] \in Claiming \cup Committing \cup {None} BY DEF IInv, TypeInv, TypeOK
<1>4. QED BY <1>2, <1>3 DEF Claiming, Committing

LEMMA FenceOther ==
  ASSUME IInv, FenceInv, Fences, NEW q \in Requests,
         pc'[q] = pc[q], turn'[q] = turn[q], seen'[q] = seen[q], wire'[q] = wire[q]
  PROVE  LookFence(q)' /\ ClaimFence(q)'
<1>1. LookFence(q) /\ ClaimFence(q) BY DEF FenceInv
<1>2. LookFence(q)'
  <2>1. PICK d : d = seen[q].view.now + Deadline OBVIOUS
  <2>2. pc[q] \in Looking => d \in Int BY <2>1, FenceTimes
  <2>3. pc[q] \in Looking => (Absent(d) => Absent(d)') /\ (Fresh(d) => Fresh(d)')
    BY <2>2 DEF Fences
  <2>4. (seen[q].view.now + Deadline)' = d BY <2>1
  <2>5. pc[q] \in {"read", "journal", "deciding"} => pc[q] \in Looking BY DEF Looking
  <2>6. CASE pc[q] \in Looking
    <3>1. (Absent(d) => Absent(d)') /\ (Fresh(d) => Fresh(d)') BY <2>3, <2>6
    <3>2. Absent(seen[q].view.now + Deadline)' <=> Absent(d)' BY <2>4 DEF Absent
    <3>3. Fresh(seen[q].view.now + Deadline)' <=> Fresh(d)' BY <2>4 DEF Fresh
    <3>4. QED BY <1>1, <2>1, <3>1, <3>2, <3>3 DEF LookFence
  <2>7. CASE pc[q] \notin Looking BY <2>5, <2>7 DEF LookFence
  <2>8. QED BY <2>6, <2>7
<1>3. ClaimFence(q)'
  <2>1. PICK d : d = wire[q].deadline OBVIOUS
  <2>2. CASE wire[q] /= None /\ wire[q].op = "claim"
    <3>1. Fresh(d) => Fresh(d)' BY <2>1, <2>2, FenceTimes DEF Fences
    <3>2. Fresh(wire[q].deadline)' <=> Fresh(d)' BY <2>1 DEF Fresh
    <3>3. QED BY <1>1, <2>1, <3>1, <3>2 DEF ClaimFence
  <2>3. CASE ~(wire[q] /= None /\ wire[q].op = "claim") BY <2>3 DEF ClaimFence
  <2>4. QED BY <2>2, <2>3
<1>4. QED BY <1>2, <1>3

\* Steps that leave the store alone.
LEMMA QuietFence ==
  ASSUME IInv, FenceInv, NEW r \in Requests, UNCHANGED storeVars,
         \A q \in Requests \ {r} :
           pc'[q] = pc[q] /\ turn'[q] = turn[q] /\ seen'[q] = seen[q] /\ wire'[q] = wire[q],
         LookFence(r)', ClaimFence(r)', turn'[r] = turn[r] \/ ~OwnedBy(r)
  PROVE  FenceInv'
<1> USE DEF storeVars
<1>1. Fences BY DEF Fences, Absent, Fresh
<1>2. StoreFence' BY DEF FenceInv, StoreFence
<1>3. ASSUME NEW q \in Requests PROVE LookFence(q)' /\ ClaimFence(q)'
  BY <1>1, FenceOther
<1>4. ASSUME NEW q \in Requests PROVE OwnerFence(q)'
  BY DEF FenceInv, OwnerFence, OwnedBy
<1>5. QED BY <1>2, <1>3, <1>4 DEF FenceInv

LEMMA LeaveFence ==
  ASSUME IInv, FenceInv, NEW r \in Requests, Leave(r),
         pc' = [pc EXCEPT ![r] = "done"] \/ pc' = [pc EXCEPT ![r] = "crashed"],
         UNCHANGED <<storeVars, turn>>
  PROVE  FenceInv'
<1> USE DEF Leave, storeVars
<1>1. pc'[r] \in {"done", "crashed"} BY DEF IInv, TypeInv, TypeOK
<1>2. wire'[r] = None \/ wire'[r] = wire[r] BY DEF IInv, TypeInv, TypeOK
<1>3. LookFence(r)' BY <1>1 DEF LookFence
<1>4. ClaimFence(r)' BY <1>2 DEF FenceInv, ClaimFence, Fresh
<1>5. \A q \in Requests \ {r} :
        pc'[q] = pc[q] /\ turn'[q] = turn[q] /\ seen'[q] = seen[q] /\ wire'[q] = wire[q]
  BY DEF IInv, TypeInv, TypeOK
<1>6. QED BY <1>3, <1>4, <1>5, QuietFence

\* What the journal shows once it is read: a view without a ledger is Fresh.
LEMMA JournalRead ==
  ASSUME IInv, FenceInv, NEW d \in Int, Absent(d), journal = 0
  PROVE  Fresh(d)
BY DEF Absent, Fresh, FenceInv, StoreFence, IInv, TypeInv, TypeOK, Record

\* The steps by which a request comes to decide.
LEMMA LookingFence ==
  ASSUME IInv, FenceInv, NEW r \in Requests,
         Start(r) \/ ReadRecord(r) \/ ObserveRecord(r) \/ ReadJournal(r)
  PROVE  FenceInv'
<1>1. UNCHANGED storeVars /\ wire \in [Requests -> Claiming \cup Committing \cup {None}]
      /\ seen \in [Requests -> Sight \cup {None}] /\ now \in Nat
      /\ pc \in [Requests -> Working \cup {"new", "done", "crashed"}]
      /\ turn \in [Requests -> Turn \cup {None}]
  BY DEF Start, ReadRecord, ObserveRecord, ReadJournal, IInv, TypeInv, TypeOK
<1>2. wire[r] = None /\ claimed[r] = None
  BY DEF Start, ReadRecord, ObserveRecord, ReadJournal, IInv, TypeInv, Shape, Looking
<1>3. CASE Start(r)
  <2>1. ~OwnedBy(r) BY <1>2 DEF OwnedBy, IInv, RecordInv, PendingOf
  <2>2. pc'[r] = "reading" /\ wire'[r] = None BY <1>1, <1>2, <1>3 DEF Start, Goto
  <2>3. LookFence(r)' /\ ClaimFence(r)' BY <2>2 DEF LookFence, ClaimFence
  <2>4. \A q \in Requests \ {r} :
          pc'[q] = pc[q] /\ turn'[q] = turn[q] /\ seen'[q] = seen[q] /\ wire'[q] = wire[q]
    BY <1>1, <1>3 DEF Start, Goto
  <2>5. QED BY <1>1, <2>1, <2>3, <2>4, QuietFence
<1>4. CASE ReadRecord(r)
  <2>1. PICK d : d = now + Deadline OBVIOUS
  <2>2. seen'[r].view = Read(record, now) /\ pc'[r] = "read" /\ wire'[r] = None
    BY <1>1, <1>2, <1>4 DEF ReadRecord, Goto
  <2>3. /\ seen'[r].view.ledger = record.ledger
        /\ seen'[r].view.orphan = (record.ledger = None /\ record.orphan)
        /\ seen'[r].view.now = now
    BY <2>2 DEF Read
  <2>4. record.ledger = None /\ ~record.orphan => Absent(d)' BY <1>1, <2>1 DEF Absent, storeVars
  <2>5. Absent(seen[r].view.now + Deadline)' <=> Absent(d)'
    BY <1>1, <2>1, <2>3 DEF Absent, storeVars
  <2>6. LookFence(r)' BY <2>2, <2>3, <2>4, <2>5 DEF LookFence
  <2>7. ClaimFence(r)' BY <2>2 DEF ClaimFence
  <2>8. \A q \in Requests \ {r} :
          pc'[q] = pc[q] /\ turn'[q] = turn[q] /\ seen'[q] = seen[q] /\ wire'[q] = wire[q]
    BY <1>1, <1>4 DEF ReadRecord, Goto
  <2>9. QED BY <1>1, <1>4, <2>6, <2>7, <2>8, QuietFence DEF ReadRecord
<1>5. CASE \E status, receipt : Answer(r, status, receipt)
  BY <1>1, <1>5, LeaveFence DEF Answer, Goto, Start, ReadRecord, ObserveRecord,
     ReadJournal
<1>6. ASSUME pc[r] \in {"read", "journal"}, UNCHANGED <<turn, wire>>,
             NEW label \in {"journal", "deciding"}, pc' = [pc EXCEPT ![r] = label],
             ~seen[r].view.orphan, seen'[r].view = seen[r].view,
             \A q \in Requests \ {r} : seen'[q] = seen[q],
             label = "deciding" /\ ~turn[r].recovering => journal = 0
      PROVE  FenceInv'
  <2>1. PICK d : d = seen[r].view.now + Deadline OBVIOUS
  <2>2. d \in Int BY <1>6, <2>1, FenceTimes DEF Looking
  <2>3. seen[r].view.ledger = None => Absent(d)
    BY <1>6, <2>1 DEF FenceInv, LookFence
  <2>4. seen[r].view.ledger = None /\ journal = 0 => Fresh(d) BY <2>2, <2>3, JournalRead
  <2>5. /\ Absent(seen[r].view.now + Deadline)' <=> Absent(d)
        /\ Fresh(seen[r].view.now + Deadline)' <=> Fresh(d)
    BY <1>1, <1>6, <2>1 DEF Absent, Fresh, storeVars
  <2>6. pc'[r] = label BY <1>1, <1>6
  <2>7. LookFence(r)' BY <1>6, <2>3, <2>4, <2>5, <2>6 DEF LookFence
  <2>8. ClaimFence(r)' BY <1>2, <1>6 DEF ClaimFence
  <2>9. QED BY <1>1, <1>6, <2>7, <2>8, QuietFence
<1>7. CASE ObserveRecord(r) /\ ~\E status, receipt : Answer(r, status, receipt)
  <2>1. /\ ~Refused(seen[r].view, turn[r]) /\ seen' = [seen EXCEPT ![r].at = now]
        /\ UNCHANGED <<turn, wire>> /\ pc[r] = "read"
        /\ Goto(r, IF Events /\ ~turn[r].recovering THEN "journal" ELSE "deciding")
    BY <1>7 DEF ObserveRecord
  <2>2. seen[r] \in Sight BY <2>1 DEF IInv, TypeInv, Shape, Looking
  <2>3. seen'[r].view = seen[r].view BY <1>1, <2>1, <2>2 DEF Sight
  <2>4. PICK label \in {"journal", "deciding"} :
          label = IF Events /\ ~turn[r].recovering THEN "journal" ELSE "deciding"
    OBVIOUS
  <2>5. label = "deciding" /\ ~turn[r].recovering => journal = 0
    BY <2>4 DEF FenceInv, StoreFence
  <2>6. QED BY <1>1, <1>6, <2>1, <2>3, <2>4, <2>5 DEF Refused, Goto
<1>8. CASE ReadJournal(r) /\ ~\E status, receipt : Answer(r, status, receipt)
  BY <1>6, <1>8 DEF ReadJournal, Goto, FenceInv, LookFence
<1>9. QED BY <1>3, <1>4, <1>5, <1>7, <1>8

LEMMA SendClaimFence ==
  ASSUME IInv, FenceInv, NEW r \in Requests, SendClaim(r) PROVE FenceInv'
<1>1. PICK view : view = seen[r].view OBVIOUS
<1>2. PICK l : l = ClaimedLedger(view, turn[r], r) OBVIOUS
<1>3. /\ seen[r] \in Sight /\ turn[r] \in Turn /\ pc[r] = "deciding"
  BY DEF SendClaim, IInv, TypeInv, Shape, Looking
<1>4. view \in View /\ seen[r].at \in Nat BY <1>1, <1>3 DEF Sight
<1>5. PICK stop : stop = Earlier(end[r], now + Lease) OBVIOUS
<1>6. PICK d : d = view.now + stop - seen[r].at OBVIOUS
<1>7. /\ wire'[r].op = "claim" /\ wire'[r].ledger = l /\ wire'[r].deadline = d
      /\ pc'[r] = "claiming" /\ Turnaway(view, turn[r]) = 0
  BY <1>1, <1>2, <1>5, <1>6 DEF SendClaim, Goto, IInv, TypeInv, TypeOK
<1>8. d \in Int /\ d <= view.now + Deadline /\ now \in Nat /\ view.now \in Nat
  <2>1. stop <= end[r] /\ stop \in Int /\ now \in Nat /\ view.now \in Nat
    BY <1>4, <1>5 DEF Earlier, IInv, TypeInv, TypeOK, View
  <2>2. view.now <= seen[r].at /\ end[r] <= view.now + Deadline
    BY <1>1, <1>3 DEF IInv, RequestInv, LookInv, Looking
  <2>3. end[r] \in Nat BY DEF IInv, TypeInv, TypeOK
  <2>4. QED BY <1>4, <1>6, <2>1, <2>2, <2>3
<1>9. l.pending.kind = "recovery" => turn[r].recovering
  <2>1. CASE view.ledger = None BY <1>2, <2>1 DEF ClaimedLedger
  <2>2. CASE view.ledger /= None
    BY <1>2, <1>4, <2>2 DEF ClaimedLedger, View, Ledger
  <2>3. QED BY <2>1, <2>2
<1>10. ASSUME ~turn[r].recovering PROVE Fresh(d)
  <2>1. record \in Record BY DEF IInv, TypeInv, TypeOK
  <2>2. PICK e : e = view.now + Deadline /\ e \in Int BY <1>8
  <2>3. CASE view.ledger = None
    <3>1. Fresh(e) BY <1>1, <1>3, <1>10, <2>2, <2>3 DEF FenceInv, LookFence
    <3>2. QED BY <1>8, <2>1, <2>2, <3>1 DEF Fresh, Record
  <2>4. CASE view.ledger /= None
    <3>1. PendingOf(view) = None /\ view.activeExpiresAt > view.now
      BY <1>3, <1>4, <1>7, <1>10, <2>4, MayClaim
    <3>2. Current(view.ledger, e) /\ view.now <= now
      <4>1. Current(view.ledger, e)
        BY <1>1, <1>3, <2>2, <2>4, <3>1 DEF IInv, RequestInv, LookInv, Looking
      <4>2. view.now <= seen[r].at /\ seen[r].at <= now
        BY <1>1, <1>3 DEF IInv, RequestInv, LookInv, Looking
      <4>3. QED BY <1>4, <1>8, <4>1, <4>2
    <3>3. now < e => record.ledger /= None /\ e <= record.expiresAt
      BY <3>2 DEF Current
    <3>4. record.ledger /= None => ~record.orphan /\ (journal /= 0 => record.closed)
      BY DEF FenceInv, StoreFence
    <3>5. d <= now + Deadline BY <1>8, <3>2
    <3>6. now < d => now < e BY <1>8, <2>2
    <3>7. e <= record.expiresAt => d <= record.expiresAt BY <1>8, <2>1, <2>2 DEF Record
    <3>8. QED BY <3>3, <3>4, <3>5, <3>6, <3>7 DEF Fresh
  <2>5. QED BY <2>3, <2>4
<1>11. UNCHANGED storeVars /\ turn' = turn BY DEF SendClaim
<1>12. ClaimFence(r)'
  <2>1. Fresh(wire[r].deadline)' <=> Fresh(d) BY <1>7, <1>11 DEF Fresh, storeVars
  <2>2. QED BY <1>7, <1>9, <1>10, <1>11, <2>1 DEF ClaimFence
<1>13. LookFence(r)' BY <1>7 DEF LookFence
<1>14. \A q \in Requests \ {r} :
         pc'[q] = pc[q] /\ turn'[q] = turn[q] /\ seen'[q] = seen[q] /\ wire'[q] = wire[q]
  BY DEF SendClaim, Goto, IInv, TypeInv, TypeOK
<1>15. QED BY <1>11, <1>12, <1>13, <1>14, QuietFence

\* The rest of what a request does by itself.
LEMMA RequestFence ==
  ASSUME IInv, FenceInv, NEW r \in Requests,
         \/ ClaimAnswered(r) \/ StartHandler(r) \/ HandlerEffect(r) \/ SendCommit(r)
         \/ TurnAway(r) \/ Reread(r) \/ Unresolved(r) \/ Oversized(r)
         \/ CommitAnswered(r) \/ Abort(r) \/ LoseOwnership(r) \/ Crash(r)
  PROVE  FenceInv'
<1>1. UNCHANGED storeVars /\ turn' = turn
      /\ wire \in [Requests -> Claiming \cup Committing \cup {None}]
      /\ pc \in [Requests -> Working \cup {"new", "done", "crashed"}]
  BY DEF ClaimAnswered, StartHandler, HandlerEffect, SendCommit, TurnAway, Reread,
         Unresolved, Oversized, CommitAnswered, Abort, LoseOwnership, Crash,
         IInv, TypeInv, TypeOK
<1>2. CASE \/ TurnAway(r) \/ Reread(r) \/ Unresolved(r) \/ Oversized(r)
           \/ CommitAnswered(r) \/ Abort(r) \/ LoseOwnership(r) \/ Crash(r)
  BY <1>1, <1>2, LeaveFence
  DEF TurnAway, Reread, Unresolved, Oversized, CommitAnswered, Abort, LoseOwnership,
      Crash, Answer, Goto
<1>3. CASE ClaimAnswered(r) \/ StartHandler(r)
  <2>1. wire' = wire /\ seen' = seen BY <1>3 DEF ClaimAnswered, StartHandler
  <2>2. \E label \in {"owner", "rereading", "running"} : pc' = [pc EXCEPT ![r] = label]
    BY <1>3 DEF ClaimAnswered, StartHandler, Goto
  <2>3. pc'[r] \notin {"read", "journal", "deciding"} BY <1>1, <2>2
  <2>4. LookFence(r)' BY <2>3 DEF LookFence
  <2>5. ClaimFence(r)' BY <1>1, <2>1 DEF FenceInv, ClaimFence, Fresh, storeVars
  <2>6. \A q \in Requests \ {r} : pc'[q] = pc[q] BY <1>1, <2>2
  <2>7. QED BY <1>1, <2>1, <2>4, <2>5, <2>6, QuietFence
<1>4. CASE HandlerEffect(r)
  <2>1. UNCHANGED <<pc, wire, seen>> BY <1>4 DEF HandlerEffect
  <2>2. Fences BY <1>1 DEF Fences, Absent, Fresh, storeVars
  <2>3. LookFence(r)' /\ ClaimFence(r)' BY <1>1, <2>1, <2>2, FenceOther
  <2>4. QED BY <1>1, <2>1, <2>3, QuietFence
<1>5. CASE SendCommit(r)
  <2>1. wire'[r].op = "commit" /\ pc'[r] = "committing"
    BY <1>1, <1>5 DEF SendCommit, Goto
  <2>2. LookFence(r)' /\ ClaimFence(r)' BY <2>1 DEF LookFence, ClaimFence
  <2>3. \A q \in Requests \ {r} :
          pc'[q] = pc[q] /\ seen'[q] = seen[q] /\ wire'[q] = wire[q]
    BY <1>1, <1>5 DEF SendCommit, Goto
  <2>4. QED BY <1>1, <2>2, <2>3, QuietFence
<1>6. QED BY <1>2, <1>3, <1>4, <1>5

\* A record that a claim or a commit has just written outlives every request.
LEMMA RetentionLasts == Deadline <= ReceiptTTL
<1>1. PICK active \in ActiveTTLs : TRUE OBVIOUS
<1>2. active \in Nat /\ active + Deadline <= ReceiptTTL BY RetentionAssumption
<1>3. QED BY <1>2

LEMMA Rewritten ==
  ASSUME IInv, FenceInv, record'.expiresAt = now + ReceiptTTL,
         record'.orphan = record.orphan, record'.closed = record.closed,
         UNCHANGED <<now, journal>>
  PROVE  Fences
<1>1. now \in Nat BY DEF IInv, TypeInv, TypeOK
<1>2. QED BY <1>1, RetentionLasts DEF Fences, Absent, Fresh

\* A claim that takes effect: an ordinary one finds no event retained.
LEMMA ClaimOpen ==
  ASSUME IInv, FenceInv, NEW r \in Requests, ClaimTaken(r)
  PROVE  /\ journal /= 0 => turn[r].recovering
         /\ record.ledger = None => ~turn[r].recovering /\ ~record.orphan
<1>1. PICK cmd : cmd = wire[r] OBVIOUS
<1>2. /\ cmd \in Claiming /\ cmd /= None /\ cmd.op = "claim" /\ cmd.result = "sent"
      /\ cmd.deadline > now /\ cmd.deadline \in Int /\ now \in Nat
  BY <1>1 DEF ClaimTaken, ClaimAllowed, Claiming, IInv, TypeInv, TypeOK
<1>3. /\ ~turn[r].recovering => cmd.replace = None /\ Fresh(cmd.deadline)
      /\ turn[r].recovering => cmd.replace \in Requests
  BY <1>1, <1>2 DEF FenceInv, ClaimFence, IInv, RequestInv, ClaimInv, Replaceable
<1>4. cmd.replace = None => ~record.closed
  BY <1>1 DEF ClaimTaken, ClaimAllowed
<1>5. cmd.replace /= None => PendingOf(record) /= None
  BY <1>1 DEF ClaimTaken, ClaimAllowed
<1>6. now < cmd.deadline BY <1>2
<1>7. ~turn[r].recovering => ~record.orphan /\ (journal /= 0 => record.closed)
  BY <1>3, <1>6 DEF Fresh
<1>8. record.ledger = None => PendingOf(record) = None BY DEF PendingOf
<1>9. QED BY <1>3, <1>4, <1>5, <1>7, <1>8

LEMMA StoreClaimFence ==
  ASSUME IInv, FenceInv, NEW r \in Requests, StoreClaim(r) PROVE FenceInv'
<1>1. PICK cmd : cmd = wire[r] OBVIOUS
<1>2. cmd \in Claiming /\ cmd /= None /\ cmd.op = "claim"
  BY <1>1 DEF StoreClaim, OnItsWay, IInv, TypeInv, TypeOK, Committing
<1>3. /\ UNCHANGED <<pc, turn, seen, now, journal>>
      /\ wire \in [Requests -> Claiming \cup Committing \cup {None}]
      /\ record \in Record /\ now \in Nat
  BY DEF StoreClaim, IInv, TypeInv, TypeOK
<1>4. PICK result \in {"yes", "no"} :
        /\ wire' = [wire EXCEPT ![r].result = result]
        /\ result = "no" => record' = record
        /\ result = "yes" => ClaimTaken(r)
  BY <1>1, <1>2 DEF StoreClaim, ClaimTaken, OnItsWay
<1>5. /\ wire'[r].result = result /\ wire'[r].ledger = cmd.ledger
      /\ \A q \in Requests \ {r} : wire'[q] = wire[q]
  BY <1>1, <1>2, <1>3, <1>4 DEF Claiming
<1>6. ClaimFence(r)'
  BY <1>1, <1>2, <1>3, <1>5 DEF FenceInv, ClaimFence
<1>7. CASE result = "no"
  <2>1. Fences BY <1>3, <1>4, <1>7 DEF Fences, Absent, Fresh
  <2>2. LookFence(r)'
    BY <1>3, <1>4, <1>7 DEF FenceInv, LookFence, Absent, Fresh
  <2>3. QED BY <1>3, <1>4, <1>5, <1>6, <1>7, <2>2, QuietFence DEF storeVars
<1>8. CASE result = "yes"
  <2>1. ClaimTaken(r) BY <1>4, <1>8
  <2>2. /\ record'.ledger = cmd.ledger /\ record'.closed = record.closed
        /\ record'.orphan = record.orphan
        /\ record'.expiresAt = now + ReceiptTTL
        /\ record'.ledger /= None /\ PendingOf(record') = cmd.ledger.pending
    <3>1. cmd.ledger /= None BY <1>2 DEF Claiming
    <3>2. QED BY <1>1, <1>3, <2>1, <3>1 DEF ClaimTaken, Claim, Record, PendingOf
  <2>3. Fences BY <1>3, <2>2, Rewritten
  <2>4. StoreFence'
    <3>1. ~record.orphan BY <2>1, ClaimOpen DEF FenceInv, StoreFence
    <3>2. journal /= 0 => record.closed
      BY <2>1, ClaimOpen DEF FenceInv, StoreFence
    <3>3. now + ReceiptTTL > now /\ now + ReceiptTTL /= 0 BY <1>3
    <3>4. QED BY <1>3, <2>2, <3>1, <3>2, <3>3 DEF FenceInv, StoreFence
  <2>5. ASSUME NEW q \in Requests PROVE LookFence(q)'
    <3>1. LookFence(q) BY DEF FenceInv
    <3>2. PICK d : d = seen[q].view.now + Deadline OBVIOUS
    <3>3. pc[q] \in Looking => (Absent(d) => Absent(d)') /\ (Fresh(d) => Fresh(d)')
      BY <2>3, <3>2, FenceTimes DEF Fences
    <3>4. /\ Absent(seen[q].view.now + Deadline)' <=> Absent(d)'
          /\ Fresh(seen[q].view.now + Deadline)' <=> Fresh(d)'
      BY <1>3, <3>2 DEF Absent, Fresh
    <3>5. QED BY <1>3, <3>1, <3>2, <3>3, <3>4 DEF LookFence, Looking
  <2>6. ASSUME NEW q \in Requests PROVE ClaimFence(q)'
    <3>1. CASE q = r BY <1>6, <3>1
    <3>2. CASE q /= r BY <1>3, <1>5, <2>3, <3>2, FenceOther
    <3>3. QED BY <3>1, <3>2
  <2>7. ASSUME NEW q \in Requests PROVE OwnerFence(q)'
    <3>1. cmd.ledger.pending.token = r
      BY <1>1, <1>2 DEF IInv, RequestInv, ClaimInv
    <3>2. cmd.ledger.pending.kind = "recovery" => turn[r].recovering
      BY <1>1, <1>2 DEF FenceInv, ClaimFence
    <3>3. QED BY <1>3, <2>2, <3>1, <3>2 DEF OwnerFence, OwnedBy
  <2>8. QED BY <2>4, <2>5, <2>6, <2>7 DEF FenceInv
<1>9. QED BY <1>7, <1>8

\* A commit that takes effect beside an event is a recovery's.
LEMMA CommitOpen ==
  ASSUME IInv, FenceInv, NEW r \in Requests, CommitTaken(r)
  PROVE  record.ledger /= None /\ (journal /= 0 => turn[r].recovering)
<1>1. /\ record.ledger /= None /\ PendingOf(record) /= None
      /\ PendingOf(record).token = r
      /\ record.closed => PendingOf(record).kind = "recovery"
  BY DEF CommitTaken, CommitAllowed, PendingOf, Committing, IInv, RequestInv, CommitInv
<1>2. QED BY <1>1 DEF FenceInv, StoreFence, OwnerFence, OwnedBy

LEMMA StoreCommitFence ==
  ASSUME IInv, FenceInv, NEW r \in Requests, StoreCommit(r) PROVE FenceInv'
<1>1. PICK cmd : cmd = wire[r] OBVIOUS
<1>2. cmd \in Committing /\ cmd /= None /\ cmd.op = "commit"
  BY <1>1 DEF StoreCommit, OnItsWay, IInv, TypeInv, TypeOK, Claiming
<1>3. /\ UNCHANGED <<pc, turn, seen, now, journal>>
      /\ wire \in [Requests -> Claiming \cup Committing \cup {None}]
      /\ record \in Record /\ now \in Nat
  BY DEF StoreCommit, IInv, TypeInv, TypeOK
<1>4. PICK result \in {"yes", "no"} :
        /\ wire' = [wire EXCEPT ![r].result = result]
        /\ result = "no" => record' = record
        /\ result = "yes" => CommitTaken(r)
  BY <1>1, <1>2 DEF StoreCommit, CommitTaken, OnItsWay
<1>5. wire'[r].op = "commit" /\ \A q \in Requests \ {r} : wire'[q] = wire[q]
  BY <1>1, <1>2, <1>3, <1>4 DEF Committing
<1>6. ClaimFence(r)' BY <1>5 DEF ClaimFence
<1>7. CASE result = "no"
  <2>1. LookFence(r)'
    BY <1>3, <1>4, <1>7 DEF FenceInv, LookFence, Absent, Fresh
  <2>2. QED BY <1>3, <1>4, <1>5, <1>6, <1>7, <2>1, QuietFence DEF storeVars
<1>8. CASE result = "yes"
  <2>1. CommitTaken(r) BY <1>4, <1>8
  <2>2. /\ record'.ledger = cmd.ledger /\ record'.closed = record.closed
        /\ record'.orphan = record.orphan
        /\ record'.expiresAt = now + ReceiptTTL
        /\ record'.ledger /= None
    <3>1. cmd.ledger /= None BY <1>2 DEF Committing
    <3>2. QED BY <1>1, <1>3, <2>1, <3>1 DEF CommitTaken, Commit, Record
  <2>3. Fences BY <1>3, <2>2, Rewritten
  <2>4. StoreFence'
    <3>1. now + ReceiptTTL > now /\ now + ReceiptTTL /= 0 BY <1>3
    <3>2. record.ledger /= None BY <2>1, CommitOpen
    <3>3. QED BY <1>3, <2>2, <3>1, <3>2 DEF FenceInv, StoreFence
  <2>5. ASSUME NEW q \in Requests PROVE LookFence(q)' /\ ClaimFence(q)'
    <3>1. CASE q /= r BY <1>3, <1>5, <2>3, <3>1, FenceOther
    <3>2. CASE q = r
      <4>1. pc[r] \notin {"read", "journal", "deciding"}
        BY <1>1, <1>2 DEF IInv, TypeInv, Shape, Looking
      <4>2. QED BY <1>3, <1>6, <3>2, <4>1 DEF LookFence
    <3>3. QED BY <3>1, <3>2
  <2>6. ASSUME NEW q \in Requests PROVE OwnerFence(q)'
    <3>1. PendingOf(record') = None BY <2>1, CommitTakenFacts
    <3>2. QED BY <3>1 DEF OwnerFence, OwnedBy
  <2>7. QED BY <2>4, <2>5, <2>6 DEF FenceInv
<1>9. QED BY <1>7, <1>8

\* An event closes the record it finds, or leaves one that lasts as long as
\* the journal.
LEMMA ProviderCloseFence ==
  ASSUME IInv, FenceInv, ProviderClose PROVE FenceInv'
<1>1. /\ UNCHANGED <<pc, turn, seen, wire, now>> /\ Events
      /\ journal' = now + EventTTL /\ record' = Close(record, now)
      /\ record \in Record /\ now \in Nat
  BY DEF ProviderClose, localVars, IInv, TypeInv, TypeOK
<1>2. PICK expiry \in Nat :
        expiry = IF record.expiresAt = 0 THEN now + EventTTL ELSE record.expiresAt
  BY <1>1 DEF Record
<1>3. /\ record'.ledger = record.ledger /\ record'.closed = TRUE
      /\ record'.orphan = record.orphan /\ record'.expiresAt = expiry
  BY <1>1, <1>2 DEF Close, Record
<1>4. EventTTL \in Nat \ {0} /\ Deadline <= EventTTL BY <1>1, FenceAssumption
<1>5. Fences BY <1>1, <1>2, <1>3, <1>4 DEF Fences, Absent, Fresh, FenceInv, StoreFence
<1>6. StoreFence'
  <2>1. record.expiresAt \in Nat /\ journal \in Nat BY <1>1 DEF Record, IInv, TypeInv, TypeOK
  <2>2. QED BY <1>1, <1>2, <1>3, <1>4, <2>1 DEF FenceInv, StoreFence
<1>7. ASSUME NEW q \in Requests PROVE LookFence(q)' /\ ClaimFence(q)'
  BY <1>1, <1>5, FenceOther
<1>8. ASSUME NEW q \in Requests PROVE OwnerFence(q)'
  BY <1>1, <1>3 DEF FenceInv, OwnerFence, OwnedBy, PendingOf
<1>9. QED BY <1>6, <1>7, <1>8 DEF FenceInv

\* A record that expires takes nobody's fence with it: either it outlived the
\* turn that relies on it or the turn relies on the journal being empty.
LEMMA TickFence ==
  ASSUME IInv, FenceInv, Tick PROVE FenceInv'
<1>1. /\ UNCHANGED <<pc, turn, seen, wire>> /\ now' = now + 1
      /\ journal' = (IF journal <= now + 1 THEN 0 ELSE journal)
      /\ record' = ExpireRecord(record, now + 1)
      /\ record \in Record /\ now \in Nat /\ journal \in Nat
  BY DEF Tick, localVars, IInv, TypeInv, TypeOK
<1>2. record.expiresAt \in Nat BY <1>1 DEF Record
<1>3. CASE record.expiresAt /= 0 /\ record.expiresAt <= now + 1
  <2>1. /\ record'.ledger = None /\ ~record'.closed /\ ~record'.orphan
        /\ record'.expiresAt = 0
    BY <1>1, <1>3 DEF ExpireRecord, NoRecord
  <2>2. Fences BY <1>1, <1>2, <1>3, <2>1 DEF Fences, Absent, Fresh
  <2>3. StoreFence' BY <1>1, <2>1 DEF FenceInv, StoreFence
  <2>4. ASSUME NEW q \in Requests PROVE LookFence(q)' /\ ClaimFence(q)'
    BY <1>1, <2>2, FenceOther
  <2>5. ASSUME NEW q \in Requests PROVE OwnerFence(q)'
    BY <2>1 DEF OwnerFence, OwnedBy, PendingOf
  <2>6. QED BY <2>3, <2>4, <2>5 DEF FenceInv
<1>4. CASE ~(record.expiresAt /= 0 /\ record.expiresAt <= now + 1)
  <2>1. record' = record BY <1>1, <1>4 DEF ExpireRecord
  <2>2. Fences BY <1>1, <1>2, <2>1 DEF Fences, Absent, Fresh
  <2>3. StoreFence' BY <1>1, <1>2, <1>4, <2>1 DEF FenceInv, StoreFence
  <2>4. ASSUME NEW q \in Requests PROVE LookFence(q)' /\ ClaimFence(q)'
    BY <1>1, <2>2, FenceOther
  <2>5. ASSUME NEW q \in Requests PROVE OwnerFence(q)'
    BY <1>1, <2>1 DEF FenceInv, OwnerFence, OwnedBy
  <2>6. QED BY <2>3, <2>4, <2>5 DEF FenceInv
<1>5. QED BY <1>3, <1>4

LEMMA FenceNext == IInv /\ FenceInv /\ [Next]_vars => FenceInv'
<1> SUFFICES ASSUME IInv, FenceInv, [Next]_vars PROVE FenceInv' OBVIOUS
<1>1. ASSUME NEW r \in Requests, Step(r) PROVE FenceInv'
  BY <1>1, LookingFence, SendClaimFence, RequestFence, StoreClaimFence,
     StoreCommitFence DEF Step
<1>2. CASE UNCHANGED vars
  BY <1>2 DEF vars, storeVars, localVars, FenceInv, StoreFence, LookFence, ClaimFence,
     OwnerFence, OwnedBy, Absent, Fresh
<1>3. QED BY <1>1, <1>2, ProviderCloseFence, TickFence DEF Next

LEMMA FenceAlways == Spec => []FenceInv
BY FenceInitially, FenceNext, Invariant, PTL DEF Spec

\* A step after which a claim has taken effect is the store's.
LEMMA ClaimSteps ==
  ASSUME IInv, NEW r \in Requests, TakesEffect(r, "claim"),
         NEW q \in Requests, Step(q)
  PROVE  ClaimTaken(r)
<1> USE DEF TakesEffect
<1>1. /\ wire \in [Requests -> Claiming \cup Committing \cup {None}]
      /\ wire[r] \in Claiming
  BY DEF IInv, TypeInv, TypeOK, Committing
<1>2. [wire[r] EXCEPT !.result = "no"].result = "no" BY <1>1 DEF Claiming
<1>3. ASSUME NEW cmd, wire' = [wire EXCEPT ![q] = cmd], cmd.result = "sent"
      PROVE  FALSE
  BY <1>1, <1>3
<1>4. CASE wire' = wire BY <1>4
<1>5. CASE StoreClaim(q) BY <1>1, <1>2, <1>5 DEF StoreClaim, ClaimTaken
<1>6. CASE StoreCommit(q) BY <1>1, <1>6 DEF StoreCommit
<1>7. CASE SendClaim(q)
  <2> DEFINE view == seen[q].view
             stop == Earlier(end[q], now + Lease)
             cmd == [op |-> "claim", revision |-> Revision(view),
                     ledger |-> ClaimedLedger(view, turn[q], q),
                     replace |-> IF turn[q].recovering
                                 THEN PendingOf(view).token ELSE None,
                     lease |-> stop - now,
                     deadline |-> view.now + stop - seen[q].at,
                     result |-> "sent"]
  <2>1. wire' = [wire EXCEPT ![q] = cmd] BY <1>7 DEF SendClaim
  <2>2. cmd.result = "sent" OBVIOUS
  <2> HIDE DEF cmd
  <2>3. QED BY <1>3, <2>1, <2>2
<1>8. CASE SendCommit(q)
  <2>1. wire'[q].op = "commit" /\ \A p \in Requests \ {q} : wire'[p] = wire[p]
    BY <1>1, <1>8 DEF SendCommit
  <2>2. QED BY <2>1
<1>9. CASE Leave(q) BY <1>1, <1>9 DEF Leave
<1>10. CASE \/ Start(q) \/ ReadRecord(q) \/ ObserveRecord(q) \/ ReadJournal(q)
            \/ ClaimAnswered(q) \/ StartHandler(q) \/ HandlerEffect(q)
  BY <1>4, <1>9, <1>10
  DEF Start, ReadRecord, ObserveRecord, ReadJournal, ClaimAnswered,
      StartHandler, HandlerEffect, Answer
<1>11. CASE \/ TurnAway(q) \/ Reread(q) \/ Unresolved(q) \/ Oversized(q)
            \/ CommitAnswered(q) \/ Abort(q) \/ LoseOwnership(q) \/ Crash(q)
  BY <1>9, <1>11
  DEF TurnAway, Reread, Unresolved, Oversized, CommitAnswered, Abort,
      LoseOwnership, Crash, Answer
<1>12. QED BY <1>5, <1>6, <1>7, <1>8, <1>10, <1>11 DEF Step

\* An accepted end event fences ordinary turns, those included that read the
\* record before it and whose commands were on their way: while the event is
\* retained nothing takes effect but a recovery.
THEOREM EventsFence == Spec => ClosedFence
<1> DEFINE Fenced ==
      \A r \in Requests :
        /\ TakesEffect(r, "claim") \/ TakesEffect(r, "commit")
        /\ journal /= 0
        => turn[r].recovering
<1>1. ASSUME IInv, FenceInv, [Next]_vars PROVE Fenced
  <2> SUFFICES ASSUME NEW r \in Requests, journal /= 0,
                      TakesEffect(r, "claim") \/ TakesEffect(r, "commit")
               PROVE  turn[r].recovering
    OBVIOUS
  <2>1. ASSUME NEW q \in Requests, Step(q) PROVE turn[r].recovering
    BY <1>1, <2>1, ClaimSteps, CommitSteps, ClaimOpen, CommitOpen
  <2>2. CASE ProviderClose \/ Tick
    BY <2>2 DEF ProviderClose, Tick, localVars, TakesEffect
  <2>3. CASE UNCHANGED vars BY <2>3 DEF vars, localVars, TakesEffect
  <2>4. QED BY <1>1, <2>1, <2>2, <2>3 DEF Next
<1> HIDE DEF Fenced
<1>2. Spec => [][Fenced]_vars BY <1>1, Invariant, FenceAlways, PTL DEF Spec
<1>3. QED BY <1>2 DEF ClosedFence, Fenced

=============================================================================
