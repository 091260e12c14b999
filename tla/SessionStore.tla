----------------------------- MODULE SessionStore -----------------------------
(***************************************************************************)
(* What the engine expects of a storage adapter (StorageInterface, and the *)
(* behaviour docs/STORAGE-CONFORMANCE.md says the adapters share), for one *)
(* session and one caller at a time: reads never see an expired session,   *)
(* writes refresh its time to live, data is merged, history is bounded.    *)
(***************************************************************************)
EXTENDS Naturals, Sequences

CONSTANTS
  States,      \* state names
  Fields,      \* fields of a session's data
  Values,      \* values of a field
  TTLs,        \* times to live that callers use, in ticks
  MaxHistory,  \* maxHistorySize
  None, Never  \* no value; no time to live

VARIABLES
  session,  \* the session, or None
  answer    \* what the last operation returned

storeVars == <<session, answer>>

NoFields == [f \in Fields |-> None]
Data == [Fields -> Values \cup {None}]
Fresh == [state |-> None, data |-> NoFields, history |-> <<>>, left |-> Never]
Present == IF session = None THEN Fresh ELSE session
Merge(d, e) == [f \in Fields |-> IF e[f] = None THEN d[f] ELSE e[f]]
Newest(h) ==
  IF Len(h) > MaxHistory THEN SubSeq(h, Len(h) - MaxHistory + 1, Len(h)) ELSE h

StoreInit == session = None /\ answer = None

\* The write of a state or of data may stop halfway: it has taken effect but
\* the time to live is the one before.
Refreshed(s, t) == session' \in {[s EXCEPT !.left = t], s}

SetState(q, t) ==
  Refreshed([Present EXCEPT !.state = q], t) /\ answer' = None

SetData(d, t) ==
  Refreshed([Present EXCEPT !.data = Merge(@, d)], t) /\ answer' = None

\* setDataIfStatus: all the data is replaced, if the session has the status.
SetDataIf(f, v, d, t) ==
  LET matches == session /= None /\ session.data[f] = v IN
  /\ session' = IF matches THEN [session EXCEPT !.data = d, !.left = t] ELSE session
  /\ answer' = matches

\* setSession, with what getSession returned and other data.
Rewrite(d) ==
  session /= None /\ session' = [session EXCEPT !.data = d] /\ answer' = None

\* A push to a session that was never written may be lost, or make one that
\* has no time to live yet.
Push(q) ==
  /\ \/ session' = [Present EXCEPT !.history = Newest(Append(@, q))]
     \/ session = None /\ session' = None
  /\ answer' = None

Pop ==
  LET some == session /= None /\ session.history /= <<>> IN
  /\ session' = IF some THEN [session EXCEPT !.history = SubSeq(@, 1, Len(@) - 1)]
                ELSE session
  /\ answer' = IF some THEN session.history[Len(session.history)] ELSE None

Delete == session' = None /\ answer' = None

Pass ==
  /\ session /= None /\ session.left /= Never
  /\ session' = IF session.left = 1 THEN None ELSE [session EXCEPT !.left = @ - 1]
  /\ UNCHANGED answer

\* An operation that changes nothing is a stuttering step.
StoreNext ==
  /\ storeVars' # storeVars
  /\ \/ \E q \in States, t \in TTLs : SetState(q, t)
     \/ \E d \in Data, t \in TTLs : SetData(d, t)
     \/ \E f \in Fields, v \in Values, d \in Data, t \in TTLs : SetDataIf(f, v, d, t)
     \/ \E d \in Data : Rewrite(d)
     \/ \E q \in States : Push(q)
     \/ Pop \/ Delete \/ Pass

StoreSpec == StoreInit /\ [][StoreNext]_storeVars
=============================================================================
