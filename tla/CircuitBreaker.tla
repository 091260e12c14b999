---------------------------- MODULE CircuitBreaker ----------------------------
(***************************************************************************)
(* CircuitBreaker.  Calls overlap: whatever a call was admitted for, it    *)
(* settles in the state that the circuit has by then.                      *)
(***************************************************************************)
EXTENDS Naturals

CONSTANTS
  Requests,          \* who makes calls
  FailureThreshold,
  ResetTimeout,      \* in ticks
  HalfOpenMaxAttempts,
  Null

ASSUME BreakerAssumption ==
  /\ FailureThreshold \in Nat \ {0} /\ ResetTimeout \in Nat \ {0}
  /\ HalfOpenMaxAttempts \in Nat \ {0} /\ Null \notin Nat

VARIABLES
  circuit,   \* _state
  failures,  \* _failureCount; bound: what is beyond the threshold is alike
  since,     \* time since _lastFailureTime, up to ResetTimeout, or Null
  attempts,  \* _halfOpenAttempts
  inFlight   \* calls admitted and not settled

breakerVars == <<circuit, failures, since, attempts, inFlight>>

BreakerInit ==
  /\ circuit = "CLOSED" /\ failures = 0 /\ since = Null /\ attempts = 0
  /\ inFlight = {}

\* The state getter, and what it makes of _halfOpenAttempts.
Due == circuit = "OPEN" /\ since = ResetTimeout
Seen == IF Due THEN "HALF_OPEN" ELSE circuit
Tries == IF Due THEN 0 ELSE attempts

Admits == Seen = "CLOSED" \/ (Seen = "HALF_OPEN" /\ Tries < HalfOpenMaxAttempts)

Admit(c) ==
  /\ c \notin inFlight /\ Admits
  /\ inFlight' = inFlight \cup {c}
  /\ circuit' = Seen
  /\ attempts' = IF Seen = "HALF_OPEN" THEN Tries + 1 ELSE Tries
  /\ UNCHANGED <<failures, since>>

\* The caller gets an error, or the fallback's result.
Refuse ==
  /\ ~Admits
  /\ circuit' = Seen /\ attempts' = Tries
  /\ UNCHANGED <<failures, since, inFlight>>

\* getStats.
Look ==
  /\ circuit' = Seen /\ attempts' = Tries
  /\ UNCHANGED <<failures, since, inFlight>>

Closed == circuit' = "CLOSED" /\ failures' = 0 /\ attempts' = 0 /\ since' = Null

\* _onSuccess.
Success(c) ==
  /\ c \in inFlight /\ inFlight' = inFlight \ {c}
  /\ \/ circuit = "HALF_OPEN" /\ Closed
     \/ circuit = "CLOSED" /\ failures' = 0 /\ UNCHANGED <<circuit, attempts, since>>
     \/ circuit = "OPEN" /\ UNCHANGED <<circuit, failures, attempts, since>>

\* Operators marked "Wrong:" are deliberate errors: in the place of the
\* definition that follows them they break a property.
\* Wrong: a failure reopens no half-open circuit.
ReopensNot == circuit = "CLOSED" /\ failures + 1 >= FailureThreshold

Opens == circuit = "HALF_OPEN" \/ (circuit = "CLOSED" /\ failures + 1 >= FailureThreshold)

\* _onFailure, for an error or a result that isFailure rejects.
Failure(c) ==
  /\ c \in inFlight /\ inFlight' = inFlight \ {c}
  /\ failures' = IF failures < FailureThreshold THEN failures + 1 ELSE failures
  /\ since' = 0
  /\ circuit' = IF Opens THEN "OPEN" ELSE circuit
  /\ attempts' = IF Opens /\ circuit = "HALF_OPEN" THEN 0 ELSE attempts

ResetBreaker == Closed /\ UNCHANGED inFlight

BreakerTick ==
  /\ since' = IF since \in 0..(ResetTimeout - 1) THEN since + 1 ELSE since
  /\ UNCHANGED <<circuit, failures, attempts, inFlight>>

BreakerNext ==
  \/ \E c \in Requests : Admit(c) \/ Success(c) \/ Failure(c)
  \/ Refuse \/ Look \/ ResetBreaker \/ BreakerTick

BreakerSpec == BreakerInit /\ [][BreakerNext]_breakerVars
-----------------------------------------------------------------------------
(* Properties.                                                             *)

BreakerTypeOK ==
  /\ circuit \in {"CLOSED", "OPEN", "HALF_OPEN"}
  /\ failures \in 0..FailureThreshold
  /\ since \in 0..ResetTimeout \cup {Null}
  /\ attempts \in 0..HalfOpenMaxAttempts
  /\ inFlight \subseteq Requests

\* The breaker is never wedged: an open circuit knows when it opened, and a
\* half-open one that admits no more calls waits for a call whose result
\* will take it out of that state, whatever calls of earlier states settled
\* in between.
NeverWedged ==
  /\ circuit = "OPEN" => since /= Null
  /\ circuit = "HALF_OPEN" /\ attempts > 0 => inFlight /= {}
=============================================================================
