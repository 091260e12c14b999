----------------------------- MODULE TurnStore -----------------------------
(***************************************************************************)
(* The atomic turn store of src/lib/TurnStore.js: what one session's       *)
(* record holds and what the READ, CLAIM and COMMIT scripts (and ACCEPT of *)
(* RedisSessionEventStore.js, which writes the same record) do to it.      *)
(* Each script runs atomically in the store, so each is an operator from a *)
(* record, a command and the store's clock to a record.                    *)
(*                                                                         *)
(* Abstracted: runtime state, data and history travel with the ledger in   *)
(* one COMMIT and are not told apart; the fingerprint, a hash of session   *)
(* key, position and transcript, is the transcript itself, because one     *)
(* session is modelled and the position is the transcript's length.        *)
(***************************************************************************)
EXTENDS Integers, Sequences, FiniteSets

CONSTANTS
  Requests,     \* requests handled for the session; a request is its token
  Callers,      \* caller/service/network bindings
  Transcripts,  \* the cumulative transcripts handsets send
  None,         \* absent value (null, nil, a missing field)
  ActiveTTLs,   \* inactivity timeouts of the flows, in ticks of the store
  ReceiptTTL,   \* receiptTTL, in ticks
  EventTTL      \* retentionSeconds of the event journal, in ticks

ASSUME TranscriptsAssumption == Transcripts \subseteq Seq(Nat)
ASSUME TTLAssumption ==
  /\ ReceiptTTL \in Nat \ {0}
  /\ EventTTL \in Nat \ {0}
  /\ ActiveTTLs \subseteq 1..ReceiptTTL /\ ActiveTTLs /= {}

(***************************************************************************)
(* Records.  A response is the body a request's execution produced and     *)
(* whether it begins with "END ".                                          *)
(***************************************************************************)
Response == [by: Requests, end: BOOLEAN]
Receipt  == [transcript: Transcripts, response: Response]
Pending  == [token: Requests, transcript: Transcripts,
             kind: {"turn", "recovery"}]
Ledger   == [revision: Nat, binding: Callers,
             transcript: Transcripts \cup {None}, completed: BOOLEAN,
             receipts: Seq(Receipt), pending: Pending \cup {None}]

\* The absent value is none of the values it stands for the absence of.
ASSUME NoneAssumption ==
  /\ None \notin Nat \cup Requests \cup Transcripts
  /\ None \notin Receipt /\ None \notin Pending /\ None \notin Ledger

\* The Redis hash of the session.  expiresAt = 0: the key does not exist.
\* orphan: a session written by the direct processInput path, no ledger.
Record == [ledger: Ledger \cup {None}, closed: BOOLEAN, orphan: BOOLEAN,
           activeExpiresAt: Nat, ownerExpiresAt: Nat, expiresAt: Nat]

NoRecord == [ledger |-> None, closed |-> FALSE, orphan |-> FALSE,
             activeExpiresAt |-> 0, ownerExpiresAt |-> 0, expiresAt |-> 0]

\* Minimum of two times (math.min, Math.min).
Earlier(a, b) == IF a <= b THEN a ELSE b

Revision(rec) == IF rec.ledger = None THEN 0 ELSE rec.ledger.revision
PendingOf(rec) == IF rec.ledger = None THEN None ELSE rec.ledger.pending

(***************************************************************************)
(* READ.  A record without a ledger is empty, unless session fields say it *)
(* is an orphan; the closed flag is reported with a ledger only.           *)
(***************************************************************************)
View == [ledger: Ledger \cup {None}, closed: BOOLEAN, orphan: BOOLEAN,
         activeExpiresAt: Nat, now: Nat]

Read(rec, now) ==
  [ledger |-> rec.ledger,
   closed |-> rec.ledger /= None /\ rec.closed,
   orphan |-> rec.ledger = None /\ rec.orphan,
   activeExpiresAt |-> rec.activeExpiresAt,
   now |-> now]

(***************************************************************************)
(* Definitions marked "Wrong:" are deliberate errors: put in the place of  *)
(* the definition that follows them, they must break a property (README).  *)
(***************************************************************************)

(***************************************************************************)
(* CLAIM.  A recovery names the token it replaces; an ordinary turn needs  *)
(* an open, idle, still active session.  Neither may arrive after the      *)
(* deadline its worker computed on the store's clock.                      *)
(***************************************************************************)
\* Wrong: the revision is not compared, a stale view may claim.
ClaimAllowedAnyRevision(rec, cmd, now) ==
  /\ \/ /\ cmd.replace /= None
        /\ PendingOf(rec) /= None
        /\ PendingOf(rec).token = cmd.replace
     \/ /\ cmd.replace = None
        /\ ~rec.closed
        /\ PendingOf(rec) = None
        /\ rec.ledger /= None => rec.activeExpiresAt > now
  /\ cmd.deadline > now

ClaimAllowed(rec, cmd, now) ==
  /\ Revision(rec) = cmd.revision
  /\ \/ /\ cmd.replace /= None
        /\ PendingOf(rec) /= None
        /\ PendingOf(rec).token = cmd.replace
     \/ /\ cmd.replace = None
        /\ ~rec.closed
        /\ PendingOf(rec) = None
        /\ rec.ledger /= None => rec.activeExpiresAt > now
  /\ cmd.deadline > now

\* Wrong: the ownership deadline is the lease only, counted from the claim's
\* arrival.
ClaimUncapped(rec, cmd, now) ==
  [rec EXCEPT !.ledger = cmd.ledger,
              !.ownerExpiresAt = now + cmd.lease,
              !.expiresAt = now + ReceiptTTL]

Claim(rec, cmd, now) ==
  [rec EXCEPT !.ledger = cmd.ledger,
              !.ownerExpiresAt = Earlier(now + cmd.lease, cmd.deadline),
              !.expiresAt = now + ReceiptTTL]

(***************************************************************************)
(* COMMIT.  Only the pending token at the revision it claimed, before the  *)
(* ownership deadline, and after a provider close only for a recovery.     *)
(***************************************************************************)
\* Wrong: a provider close does not stop the owner.
CommitAllowedClosed(rec, cmd, now) ==
  /\ rec.ledger /= None
  /\ rec.ledger.revision = cmd.revision
  /\ rec.ledger.pending /= None
  /\ rec.ledger.pending.token = cmd.token
  /\ rec.ownerExpiresAt > now

CommitAllowed(rec, cmd, now) ==
  /\ rec.ledger /= None
  /\ rec.ledger.revision = cmd.revision
  /\ rec.ledger.pending /= None
  /\ rec.ledger.pending.token = cmd.token
  /\ rec.closed => rec.ledger.pending.kind = "recovery"
  /\ rec.ownerExpiresAt > now

Commit(rec, cmd, now) ==
  [rec EXCEPT !.ledger = cmd.ledger,
              !.activeExpiresAt = now + cmd.active,
              !.expiresAt = now + ReceiptTTL]

(***************************************************************************)
(* ACCEPT of a provider end event, seen from this record: refused when the *)
(* ledger is bound to another caller; otherwise it raises the closed flag, *)
(* creating the record or giving it an expiry when it had none.            *)
(***************************************************************************)
CloseAllowed(rec, caller) ==
  rec.ledger /= None => rec.ledger.binding = caller

Close(rec, now) ==
  [rec EXCEPT !.closed = TRUE,
              !.expiresAt = IF @ = 0 THEN now + EventTTL ELSE @]

\* Redis deletes a key whose time has come; every field goes with it.
ExpireRecord(rec, now) ==
  IF rec.expiresAt /= 0 /\ rec.expiresAt <= now THEN NoRecord ELSE rec
=============================================================================
