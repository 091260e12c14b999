------------------------------- MODULE Reports -------------------------------
(***************************************************************************)
(* Metric evidence and the cohort report made of it (MetricEvents.js,      *)
(* MetricReporting.js).  Evidence arrives in any order, in several         *)
(* envelopes, early and late; a report is made anew from what there is up  *)
(* to its asOf, or refused because the evidence contradicts itself.        *)
(*                                                                         *)
(* An event is an envelope (id) around a fact.  Since a refused batch      *)
(* makes no report, the lists of the code are sets here.  Durations, error *)
(* classes, rates and the text of exports are left out.                    *)
(***************************************************************************)
EXTENDS Integers, FiniteSets, FiniteSetsExt

CONSTANTS
  Pool,        \* the events that may arrive
  Inactivity,  \* inactivityMs, or 0 where it is null
  MaxAsOf,     \* bound of the clock
  Nobody       \* null

VARIABLES batch, asOf
reportVars == <<batch, asOf>>

\* createMetricEvent: what each type of event must say.
Outcomes(type) ==
  CASE type = "request" -> {"accepted", "replay", "rejected", "error"}
    [] type = "turn" -> {"success", "validation_error", "error", "blocked", "flow_restart"}
    [] type = "session_start" -> {Nobody}
    [] type = "session_end" -> {"completed", "cancelled", "expired", "unknown"}
    [] type = "provider_end" -> {"Success", "Incomplete", "Failed"}
    [] type = "business_outcome" -> {"completed", "cancelled", "failed"}
Types == {"request", "turn", "session_start", "session_end", "provider_end", "business_outcome"}
EventFields == {"id", "type", "at", "session", "version", "key", "outcome", "pos", "from", "to"}
MetricEvent(e) ==
  /\ DOMAIN e = EventFields
  /\ e.type \in Types /\ e.outcome \in Outcomes(e.type)
  /\ e.at \in Nat /\ e.pos \in Nat
  /\ e.type # "turn" => e.from = Nobody /\ e.to = Nobody

ASSUME ReportsAssumption == (\A e \in Pool : MetricEvent(e)) /\ Inactivity \in Nat /\ MaxAsOf \in Nat

Fact(e) == [e EXCEPT !.id = Nobody]
Facts(inc, type) == {Fact(e) : e \in {x \in inc : x.type = type}}
Included(b, t) == {e \in b : e.at <= t}

-----------------------------------------------------------------------------
(* aggregateMetricEvents                                                   *)

Turns(inc) == Facts(inc, "turn")
Starts(inc) == Facts(inc, "session_start")
TurnsOf(inc, s) == {t \in Turns(inc) : t.session = s}
Started(inc) == {e.session : e \in Starts(inc)}
StartOf(inc, s) == CHOOSE e \in Starts(inc) : e.session = s

\* Envelopes of one request, turn or session start agree exactly, and those
\* of one business operation on whose it is.
Agree(inc) ==
  /\ \A type \in {"request", "turn"}, a, b \in inc :
       a.type = type /\ b.type = type /\ a.key = b.key => Fact(a) = Fact(b)
  /\ \A a, b \in Facts(inc, "business_outcome") :
       a.key = b.key => a.session = b.session /\ a.version = b.version
  /\ \A a, b \in Starts(inc) : a.session = b.session => a = b

\* The turns of a session have positions of their own, in the order of time.
Ordered(inc) ==
  \A a, b \in Turns(inc) :
    a.session = b.session /\ a # b => a.pos # b.pos /\ (a.pos < b.pos => a.at <= b.at)

Accepted(b, t) ==
  LET inc == Included(b, t) IN
  /\ \A x, y \in b : x.id = y.id => x = y
  /\ Agree(inc) /\ Ordered(inc)
  /\ \A e \in inc : e.session \in Started(inc) => StartOf(inc, e.session).at <= e.at

\* A turn that repeats a state right after its input was invalid there.
Retries(turns) ==
  {b \in turns : \E a \in turns :
     /\ a.session = b.session /\ b.pos = a.pos + 1 /\ a.outcome = "validation_error"
     /\ a.from # Nobody /\ a.from = b.from /\ a.version = b.version}

LastTurn(turns) == CHOOSE t \in turns : \A u \in turns : u.pos <= t.pos
LastState(inc, s) ==
  IF TurnsOf(inc, s) = {} THEN Nobody
  ELSE LET last == LastTurn(TurnsOf(inc, s)) IN IF last.to # Nobody THEN last.to ELSE last.from
LastActivity(inc, s) == Max({StartOf(inc, s).at} \cup {t.at : t \in TurnsOf(inc, s)})

Ends(inc, s) == {e.outcome : e \in {x \in inc : x.type = "session_end" /\ x.session = s}}
Provider(inc, s) == {x \in inc : x.type = "provider_end" /\ x.session = s}
Reasons(inc, s) == Ends(inc, s) \ {"unknown"}
AnyReason(inc, s) == CHOOSE r \in Reasons(inc, s) : TRUE
Conflict(inc, s) ==
  Cardinality({e.outcome : e \in Provider(inc, s)}) > 1
  \/ Cardinality({e.at : e \in Provider(inc, s)}) # Cardinality(Provider(inc, s))

FirstReason(inc, t, s) ==  \* mutant: the first reason wins
  IF Reasons(inc, s) # {} THEN <<AnyReason(inc, s), "observed">> ELSE <<"open", "observed">>

\* The outcome of a session and its basis.
Outcome(inc, t, s) ==
  IF Cardinality(Reasons(inc, s)) > 1 THEN <<"unknown", "conflict">>
  ELSE IF Reasons(inc, s) # {} THEN <<AnyReason(inc, s), "observed">>
  ELSE IF Ends(inc, s) # {} \/ Provider(inc, s) # {}
       THEN <<"unknown", IF Conflict(inc, s) THEN "conflict" ELSE "observed_closure">>
  ELSE IF Inactivity # 0 /\ t - LastActivity(inc, s) >= Inactivity THEN <<"abandoned", "inferred">>
  ELSE <<"open", "observed">>

BusinessOutcome(inc, key) ==
  LET said == {e.outcome : e \in {x \in Facts(inc, "business_outcome") : x.key = key}}
  IN  IF Cardinality(said) = 1 THEN CHOOSE o \in said : TRUE ELSE "unknown"

-----------------------------------------------------------------------------
(* buildMetricReport: rows by version, and by version and state            *)

ExitRow(inc, s) ==
  <<IF TurnsOf(inc, s) = {} THEN StartOf(inc, s).version ELSE LastTurn(TurnsOf(inc, s)).version,
    LastState(inc, s)>>
Passed(inc, s) ==
  UNION {{<<t.version, name>> : name \in {t.from, t.to} \ {Nobody}} : t \in TurnsOf(inc, s)}
Reached(inc, row) == {s \in Started(inc) : row \in Passed(inc, s) \cup {ExitRow(inc, s)}}
Exits(inc, row) == {s \in Started(inc) : ExitRow(inc, s) = row}

StateRows(inc) ==
  {<<t.version, t.from>> : t \in Turns(inc)}
  \cup UNION {Passed(inc, s) \cup {ExitRow(inc, s)} : s \in Started(inc)}
TurnsByNext(inc, row) ==  \* mutant: a turn counts where it leads
  {t \in Turns(inc) : <<t.version, t.to>> = row}
TurnsAt(inc, row) == {t \in Turns(inc) : <<t.version, t.from>> = row}
Versions(inc) ==
  {e.version : e \in {x \in inc : x.type \in {"turn", "request", "session_start", "business_outcome"}}}
TurnsIn(inc, v) == {t \in Turns(inc) : t.version = v}
SessionsIn(inc, v) == {s \in Started(inc) : StartOf(inc, s).version = v}
BusinessIn(inc, v) == {e.key : e \in {x \in Facts(inc, "business_outcome") : x.version = v}}

-----------------------------------------------------------------------------
Arrives(e) == e \notin batch /\ batch' = batch \cup {e} /\ UNCHANGED asOf
ReportTick == asOf < MaxAsOf /\ asOf' = asOf + 1 /\ UNCHANGED batch

ReportInit == batch = {} /\ asOf = 0
ReportNext == ReportTick \/ \E e \in Pool : Arrives(e)
ReportSpec == ReportInit /\ [][ReportNext]_reportVars

-----------------------------------------------------------------------------
(* Properties                                                              *)

\* What all rows of a column count: pairs of a row and something counted in it.
Total(column) == Cardinality(UNION {{row} \X column[row] : row \in DOMAIN column})

\* The rows of a report add up to its summary: every turn, session and
\* business operation is in one row of its kind, and the retries, which are
\* pairs of turns, are counted alike for the whole, by version and by state
\* (MetricEvents.js:147, MetricReporting.js:42).
RowsAddUp ==
  LET inc == Included(batch, asOf)
      rows == StateRows(inc)
      versions == Versions(inc)
  IN  Accepted(batch, asOf) =>
        /\ Total([row \in rows |-> TurnsAt(inc, row)]) = Cardinality(Turns(inc))
        /\ Total([row \in rows |-> Exits(inc, row)]) = Cardinality(Started(inc))
        /\ Total([row \in rows |-> Retries(TurnsAt(inc, row))]) = Cardinality(Retries(Turns(inc)))
        /\ Total([v \in versions |-> Retries(TurnsIn(inc, v))]) = Cardinality(Retries(Turns(inc)))
        /\ Total([v \in versions |-> SessionsIn(inc, v)]) = Cardinality(Started(inc))
        /\ Total([v \in versions |-> BusinessIn(inc, v)])
             = Cardinality({e.key : e \in Facts(inc, "business_outcome")})
        /\ \A row \in rows : Exits(inc, row) \subseteq Reached(inc, row)

\* Late evidence and a later asOf revise what was reported of a session only
\* so far: a reason that was observed is never replaced by another one, at
\* most by a conflict, and a closed session is never open or abandoned again
\* (MetricEvents.js:171).
Revised ==
  LET inc == Included(batch, asOf)
      later == Included(batch', asOf')
  IN  Accepted(batch, asOf) /\ Accepted(batch', asOf') =>
        /\ \A s \in Started(inc) :
          LET old == Outcome(inc, asOf, s)
              new == Outcome(later, asOf', s)
          IN  /\ old[1] \in {"completed", "cancelled", "expired"} =>
                   new \in {old, <<"unknown", "conflict">>}
              /\ new[1] \in {"open", "abandoned"} => old[1] \in {"open", "abandoned"}
        /\ \A e \in Facts(inc, "business_outcome") :
             BusinessOutcome(later, e.key) \in {BusinessOutcome(inc, e.key), "unknown"}

\* What a report says stands, inside and through time.
ReportsStand == []RowsAddUp /\ [][Revised]_reportVars
=============================================================================
