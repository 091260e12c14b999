------------------------------- MODULE Shutdown -------------------------------
(***************************************************************************)
(* GracefulShutdown: the count of pending requests that its middleware     *)
(* keeps, shutdown with its bounded wait, and the signal handlers.  A      *)
(* request is pending while the rest of the beforeProcess chain runs; its  *)
(* handler comes after that (docs/PRODUCTION.md:51 leaves draining to the  *)
(* server).                                                                *)
(***************************************************************************)
EXTENDS Naturals

CONSTANTS ShutdownTimeout  \* in ticks

ASSUME ShutdownAssumption == ShutdownTimeout \in Nat

VARIABLES
  stage,     \* of the shutdown
  waited,    \* time in _waitForRequests; bound: one beyond the timeout
  pending    \* pendingRequests

shutdownVars == <<stage, waited, pending>>

ShutdownInit == stage = "running" /\ waited = 0 /\ pending = 0

isShuttingDown == stage /= "running"
Goes(s) == stage' = s

requestStart == pending' = pending + 1 /\ UNCHANGED <<stage, waited>>
requestEnd ==
  /\ pending' = IF pending > 0 THEN pending - 1 ELSE 0
  /\ UNCHANGED <<stage, waited>>

\* Operators marked "Wrong:" are deliberate errors: in the place of the
\* definition that follows them they break a property.
\* Wrong: the finally of the middleware covers refused requests too.
RefusedEnds == isShuttingDown /\ requestEnd

\* The middleware, for a request that comes after the shutdown began.
Refused == isShuttingDown /\ UNCHANGED shutdownVars

\* shutdown, called by the application or by a signal's handler.
Shutdown ==
  /\ ~isShuttingDown /\ Goes("notifying")
  /\ UNCHANGED <<waited, pending>>

\* The exit of a signal's handler: after the shutdown that it called, or at
\* once, while another is still draining: shutdown returns to it at once.
Exit ==
  /\ isShuttingDown /\ Goes("exited")
  /\ UNCHANGED <<waited, pending>>

\* onShutdown has settled.
Notified ==
  /\ stage = "notifying" /\ Goes("waiting")
  /\ UNCHANGED <<waited, pending>>

\* Wrong: the wait has no end of its own.
GivesUpNever == FALSE

GivesUp == waited > ShutdownTimeout

\* A turn of the polling loop that ends it.
Drained ==
  /\ stage = "waiting" /\ (pending = 0 \/ GivesUp)
  /\ Goes("handlers")
  /\ UNCHANGED <<waited, pending>>

\* The shutdown handlers have settled, well or not; then storage.close has.
HandlersRun ==
  /\ stage = "handlers" /\ Goes("closing")
  /\ UNCHANGED <<waited, pending>>

Close ==
  /\ stage = "closing" /\ Goes("closed")
  /\ UNCHANGED <<waited, pending>>

ShutdownTick ==
  /\ waited' = IF stage = "waiting" /\ waited <= ShutdownTimeout THEN waited + 1 ELSE waited
  /\ UNCHANGED <<stage, pending>>

ShutdownStep == Notified \/ Drained \/ HandlersRun \/ Close
=============================================================================
