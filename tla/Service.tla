-------------------------------- MODULE Service -------------------------------
(***************************************************************************)
(* A process with the library's guards on the path of a request: the rate  *)
(* limiter and the shutdown's middleware in the beforeProcess chain, then  *)
(* the handler, whose storage calls go through the circuit breaker         *)
(* (createProtectedStorage) and, inside it, the retries (createRetryStorage).*)
(* One clock drives the limiter's window, the breaker's reset timeout and  *)
(* the shutdown's patience.                                                *)
(***************************************************************************)
EXTENDS RateLimit, CircuitBreaker, Shutdown

CONSTANTS MaxRetries

ASSUME RetryAssumption == MaxRetries \in Nat

VARIABLES
  at,      \* where each request stands
  retried  \* retries of its storage call

serviceVars == <<at, retried>>
allVars == <<limitVars, breakerVars, shutdownVars, serviceVars>>

Moves(c, label) == at' = [at EXCEPT ![c] = label]
Up == stage /= "exited"
-----------------------------------------------------------------------------
(* The beforeProcess chain.                                                *)

\* The limiter lets the request through, or it is answered.
Arrive(c) ==
  /\ Up /\ at[c] = "idle"
  /\ \/ (Allow \/ FailOpen) /\ Moves(c, "gate")
     \/ Deny /\ UNCHANGED at
  /\ UNCHANGED <<breakerVars, shutdownVars, retried>>

\* The shutdown's middleware: answered, or pending while the others run.
Gate(c) ==
  /\ Up /\ at[c] = "gate"
  /\ \/ Refused /\ Moves(c, "idle")
     \/ ~isShuttingDown /\ requestStart /\ Moves(c, "chain")
  /\ UNCHANGED <<limitVars, breakerVars, retried>>

\* The rest of the chain ends: to the handler, or blocked or with an error.
ChainEnds(c) ==
  /\ Up /\ at[c] = "chain"
  /\ requestEnd
  /\ Moves(c, "handler") \/ Moves(c, "idle")
  /\ UNCHANGED <<limitVars, breakerVars, retried>>
-----------------------------------------------------------------------------
(* The handler's storage calls.                                            *)

\* The breaker admits the call, or it fails or is the fallback's.
Call(c) ==
  /\ Up /\ at[c] = "handler"
  /\ \/ Admit(c) /\ Moves(c, "storage")
     \/ Refuse /\ (Moves(c, "idle") \/ UNCHANGED at)
  /\ UNCHANGED <<limitVars, shutdownVars, retried>>

\* The storage fails with a transient error: it is called again, later.
Retry(c) ==
  /\ Up /\ at[c] = "storage" /\ retried[c] < MaxRetries
  /\ retried' = [retried EXCEPT ![c] = @ + 1]
  /\ UNCHANGED <<limitVars, breakerVars, shutdownVars, at>>

\* The call settles, and the handler makes another or the turn is over.
Settle(c) ==
  /\ Up /\ at[c] = "storage"
  /\ Success(c) \/ Failure(c)
  /\ Moves(c, "handler") \/ Moves(c, "idle")
  /\ retried' = [retried EXCEPT ![c] = 0]
  /\ UNCHANGED <<limitVars, shutdownVars>>
-----------------------------------------------------------------------------
(* The rest.                                                               *)

Operate ==
  /\ Up
  /\ \/ (Look \/ ResetBreaker) /\ UNCHANGED <<limitVars, shutdownVars>>
     \/ ResetLimit /\ UNCHANGED <<breakerVars, shutdownVars>>
     \/ (Shutdown \/ Exit) /\ UNCHANGED <<limitVars, breakerVars>>
  /\ UNCHANGED serviceVars

ShutsDown ==
  /\ Up /\ ShutdownStep
  /\ UNCHANGED <<limitVars, breakerVars, serviceVars>>

Tick ==
  /\ Up /\ LimitTick /\ BreakerTick /\ ShutdownTick
  /\ UNCHANGED serviceVars

Init ==
  /\ LimitInit /\ BreakerInit /\ ShutdownInit
  /\ at = [c \in Requests |-> "idle"]
  /\ retried = [c \in Requests |-> 0]

Next ==
  \/ \E c \in Requests :
       Arrive(c) \/ Gate(c) \/ ChainEnds(c) \/ Call(c) \/ Retry(c) \/ Settle(c)
  \/ Operate \/ ShutsDown \/ Tick

\* Time passes, timers fire, and the storage, the application's callbacks
\* and close settle.  Nothing is assumed of the chain or the handlers.
Fairness ==
  /\ WF_allVars(Tick) /\ WF_allVars(ShutsDown)
  /\ \A c \in Requests : WF_allVars(Retry(c) \/ Settle(c))

Spec == Init /\ [][Next]_allVars /\ Fairness
-----------------------------------------------------------------------------
(* Properties.                                                             *)

\* Storage is closed only after the requests that the shutdown counts as
\* pending are through the chain, or its timeout is over, also when they
\* fail or are blocked there.
ClosesDrained ==
  stage \in {"handlers", "closing", "closed"} =>
    GivesUp \/ \A c \in Requests : at[c] /= "chain"

\* A shutdown ends, whatever the requests do.
ShutdownEnds == isShuttingDown ~> stage \in {"closed", "exited"}

\* The breaker admits calls again and again: no order of overlapping
\* results, late failures and retries leaves it open, or half-open with all
\* of its attempts used up.
Recovers == []<>(Admits \/ ~Up)
=============================================================================
