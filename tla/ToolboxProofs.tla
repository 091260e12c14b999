---------------------------- MODULE ToolboxProofs ----------------------------
(***************************************************************************)
(* The toolbox.  Every storage adapter implements the session store, the   *)
(* caches give out nothing that is not so any more, no call to the batch   *)
(* processor is forgotten, a healthy answer is recent, the session         *)
(* manager's books balance for any finite set of sessions, and the rows of *)
(* a report add up and are not taken back.                                 *)
(***************************************************************************)
EXTENDS Toolbox, FiniteSetTheorems, SequenceTheorems, TLAPS

-----------------------------------------------------------------------------
(* The storage adapters.                                                   *)

RecordTypes ==
  /\ adapter \in {"memory", "redis", "mongo", "postgres", "file"}
  /\ encrypted \in BOOLEAN
  /\ record \in Records \cup {None}

\* Redis removes what has expired, and nothing is sealed before the proxy is
\* there.
StorageInv ==
  /\ RecordTypes
  /\ adapter = "redis" => ~Expired
  /\ record # None /\ ~encrypted => record.data.sealed = None

\* What is seen of a record.
ViewOf(r) == [state |-> r.state, data |-> Seen(r.data), history |-> r.history, left |-> r.left]

LEMMA ViewIs ==
  RecordTypes =>
    /\ record = None \/ Expired => View = None
    /\ record # None /\ ~Expired =>
         View = ViewOf(record) /\ View \in RecordOf(Data) /\ View # None
<1> SUFFICES ASSUME RecordTypes
             PROVE  /\ record = None \/ Expired => View = None
                    /\ record # None /\ ~Expired =>
                         View = ViewOf(record) /\ View \in RecordOf(Data) /\ View # None
  OBVIOUS
<1>1. CASE record = None \/ Expired BY <1>1 DEF View, Expired
<1>2. CASE record # None /\ ~Expired
  <2>1. record \in Records BY <1>2 DEF RecordTypes
  <2>2. Seen(record.data) \in Data BY <2>1 DEF Records, RecordOf, Seen
  <2>3. ViewOf(record) \in RecordOf(Data) BY <2>1, <2>2 DEF ViewOf, Records, RecordOf
  <2>4. View = ViewOf(record) BY <1>2 DEF View, ViewOf
  <2>5. QED BY <1>2, <2>3, <2>4, NoneAssumption
<1>3. QED BY <1>1, <1>2

LEMMA MergeType ==
  ASSUME NEW d \in Data, NEW e \in Data
  PROVE  Merge(d, e) \in Data
BY DEF Merge, Data

LEMMA NoFieldsType == NoFields \in Data /\ \A d \in Data : Merge(NoFields, d) = d
BY DEF NoFields, Data, Merge

LEMMA BlankType == Blank \in Records /\ Blank.left = Never /\ Blank.data.sealed = None
BY NoFieldsType, EmptySeq DEF Blank, Records, RecordOf, Clear

\* A record that a step starts from, in every adapter: the present one, or a
\* blank one if there is none or it has expired.
Base == IF record = None \/ Expired THEN Blank ELSE record

LEMMA BaseType ==
  ASSUME StorageInv
  PROVE  /\ Base \in Records /\ (~encrypted => Base.data.sealed = None)
         /\ Base.left \in (Nat \cup {Never}) \ {0}
         /\ ViewOf(Base) = Contract!Present
<1>1. CASE record = None \/ Expired
  <2>1. Base = Blank BY <1>1 DEF Base
  <2>2. View = None BY <1>1, ViewIs DEF StorageInv
  <2>3. Contract!Present = Contract!Fresh BY <2>2 DEF Contract!Present
  <2>4. ViewOf(Blank) = Contract!Fresh
    BY DEF ViewOf, Blank, Contract!Fresh, Seen, Clear, NoFields, Contract!NoFields
  <2>5. QED BY <2>1, <2>3, <2>4, BlankType, StoreAssumption
<1>2. CASE record # None /\ ~Expired
  <2>1. Base = record /\ record \in Records BY <1>2 DEF Base, StorageInv, RecordTypes
  <2>2. View = ViewOf(record) /\ View # None BY <1>2, ViewIs DEF StorageInv
  <2>3. QED
    BY <1>2, <2>1, <2>2 DEF Contract!Present, StorageInv, Expired, Records, RecordOf
<1>3. QED BY <1>1, <1>2

\* What a step leaves as the record, and what is seen of it then.
LEMMA Leaves ==
  ASSUME StorageInv, Rest, record' \in Records, record'.left # 0,
         ~encrypted => record'.data.sealed = None
  PROVE  StorageInv' /\ View' = ViewOf(record') /\ View' # None
<1>1. RecordTypes' BY DEF StorageInv, RecordTypes, Rest
<1>2. record' # None BY NoneAssumption
<1>3. ~Expired' BY DEF Expired
<1>4. View' = ViewOf(record') BY <1>2, <1>3 DEF View, ViewOf
<1>5. Seen(record'.data) \in Data BY DEF Records, RecordOf, Seen
<1>6. ViewOf(record') \in RecordOf(Data) BY <1>5 DEF ViewOf, Records, RecordOf
<1>7. View' # None BY <1>4, <1>6, NoneAssumption
<1>8. QED BY <1>1, <1>2, <1>3, <1>4, <1>7 DEF StorageInv, Rest

LEMMA LeavesNone ==
  ASSUME StorageInv, adapter' = adapter, encrypted' \in BOOLEAN, record' = None
  PROVE  StorageInv' /\ View' = None
BY DEF StorageInv, RecordTypes, Expired, View

LEMMA LeavesAlone ==
  ASSUME StorageInv, Rest, record' = record
  PROVE  StorageInv' /\ View' = View
BY DEF StorageInv, RecordTypes, Expired, View, Rest

\* Two fields of a record replaced, field by field.
LEMMA WithState ==
  ASSUME NEW D, NEW v \in RecordOf(D), NEW x, NEW t, NEW w,
         w = [v EXCEPT !.state = x, !.left = t]
  PROVE  w = [state |-> x, data |-> v.data, history |-> v.history, left |-> t]
BY DEF RecordOf

LEMMA WithData ==
  ASSUME NEW D, NEW v \in RecordOf(D), NEW x, NEW t, NEW w,
         w = [v EXCEPT !.data = x, !.left = t]
  PROVE  w = [state |-> v.state, data |-> x, history |-> v.history, left |-> t]
BY DEF RecordOf

\* A write of a state.
LEMMA SetStateIs ==
  ASSUME StorageInv, NEW q \in States, NEW t \in TTLs, SetState(q, t)
  PROVE  record' \in {[Base EXCEPT !.state = q, !.left = t], [Base EXCEPT !.state = q]}
<1> DEFINE shown == IF Expired THEN None ELSE record
<1>1. OrBlank(shown) = Base /\ (~Expired => OrBlank(record) = Base)
  BY DEF OrBlank, Base, Expired
<1>2. OrBlank(IF Expired THEN Blank ELSE record) = Base
  BY BlankType, NoneAssumption DEF OrBlank, Base, Expired
<1>3. [Base EXCEPT !.state = q, !.left = Base.left] = [Base EXCEPT !.state = q]
  BY BaseType DEF Records, RecordOf
<1>4. CASE On("memory")
  BY <1>1, <1>4 DEF On, SetState, MemorySetState, MemoryActive, State
<1>5. CASE On("redis")
  BY <1>1, <1>3, <1>5 DEF On, SetState, RedisSetState, State, NoTTL, StorageInv
<1>6. CASE On("mongo")
  BY <1>1, <1>6 DEF On, SetState, MongoSetState, MongoKept, State
<1>7. CASE On("postgres")
  BY <1>2, <1>7 DEF On, SetState, PostgresSetState, State
<1>8. CASE On("file")
  BY <1>1, <1>8 DEF On, SetState, FileSetState, FileRead, State
<1>9. QED BY <1>4, <1>5, <1>6, <1>7, <1>8 DEF StorageInv, RecordTypes, On

LEMMA SetStateMaps ==
  ASSUME StorageInv, NEW q \in States, NEW t \in TTLs, SetState(q, t)
  PROVE  StorageInv' /\ Contract!SetState(q, t)
<1>1. /\ Base \in Records /\ Base.left # 0 /\ (~encrypted => Base.data.sealed = None)
      /\ ViewOf(Base) = Contract!Present
      /\ t \in Nat /\ t # 0 /\ Rest /\ answer' = None
  BY BaseType, StoreAssumption DEF SetState, Quiet
<1>2. CASE record' = [Base EXCEPT !.state = q, !.left = t]
  <2>1. record' = [state |-> q, data |-> Base.data, history |-> Base.history, left |-> t]
    BY <1>1, <1>2 DEF Records, RecordOf
  <2>2. record' \in Records /\ record'.left # 0 /\ record'.data = Base.data
    BY <1>1, <2>1 DEF Records, RecordOf
  <2>3. ViewOf(record') = [ViewOf(Base) EXCEPT !.state = q, !.left = t]
    <3> DEFINE v == [state |-> q, data |-> Seen(Base.data),
                     history |-> Base.history, left |-> t]
    <3>1. ViewOf(record') = v BY <2>1 DEF ViewOf
    <3>2. /\ ViewOf(Base) \in RecordOf(Data)
          /\ ViewOf(Base).state = Base.state /\ ViewOf(Base).data = Seen(Base.data)
          /\ ViewOf(Base).history = Base.history
      BY <1>1 DEF ViewOf, Records, RecordOf, Seen
    <3>3. [ViewOf(Base) EXCEPT !.state = q, !.left = t] = v BY <3>2, WithState, ZenonT(40)
    <3>4. QED BY <3>1, <3>3
  <2>4. StorageInv' /\ View' = ViewOf(record') BY <1>1, <2>2, Leaves
  <2>5. QED BY <1>1, <2>3, <2>4 DEF Contract!SetState, Contract!Refreshed, ViewOf
<1>3. CASE record' = [Base EXCEPT !.state = q]
  <2>1. /\ record' \in Records /\ record'.left # 0 /\ record'.data = Base.data
        /\ ViewOf(record') = [ViewOf(Base) EXCEPT !.state = q]
    BY <1>1, <1>3 DEF Records, RecordOf, ViewOf
  <2>2. StorageInv' /\ View' = ViewOf(record') BY <1>1, <2>1, Leaves
  <2>3. QED BY <1>1, <2>1, <2>2 DEF Contract!SetState, Contract!Refreshed, ViewOf
<1>4. QED BY <1>2, <1>3, SetStateIs

\* Merged data, in the clear or sealed.
LEMMA MergedSeen ==
  ASSUME StorageInv, NEW d \in Data
  PROVE  LET m == MergeStored(Base.data, SetDataArg(d)) IN
         /\ m \in [plain : Data, sealed : Data \cup {None}]
         /\ ~encrypted => m.sealed = None
         /\ Seen(m) = Merge(Seen(Base.data), d)
<1>1. Base.data \in [plain : Data, sealed : Data \cup {None}]
      /\ (~encrypted => Base.data.sealed = None)
  BY BaseType DEF Records, RecordOf
<1>2. Seen(Base.data) \in Data BY <1>1 DEF Seen
<1>3. CASE ~encrypted
  <2>1. SetDataArg(d) = [plain |-> d, sealed |-> None] BY <1>3 DEF SetDataArg, Clear
  <2>2. Merge(Base.data.plain, d) \in Data BY <1>1, MergeType
  <2>3. QED BY <1>1, <1>3, <2>1, <2>2 DEF MergeStored, Seen
<1>4. CASE encrypted
  <2>1. (IF record = None \/ Expired THEN NoFields ELSE Seen(record.data)) = Seen(Base.data)
    BY DEF Base, Blank, Seen, Clear
  <2>2. SetDataArg(d) = [plain |-> NoFields, sealed |-> Merge(Seen(Base.data), d)]
    BY <1>4, <2>1 DEF SetDataArg, Sealed
  <2>3. Merge(Seen(Base.data), d) \in Data BY <1>2, MergeType
  <2>4. Merge(Base.data.plain, NoFields) \in Data BY <1>1, MergeType, NoFieldsType
  <2>5. QED BY <1>4, <2>2, <2>3, <2>4, NoneAssumption DEF MergeStored, Seen
<1>5. QED BY <1>3, <1>4 DEF StorageInv, RecordTypes

LEMMA SetDataIs ==
  ASSUME StorageInv, NEW d \in Data, NEW t \in TTLs, SetData(d, t)
  PROVE  LET m == MergeStored(Base.data, SetDataArg(d)) IN
         record' \in {[Base EXCEPT !.data = m, !.left = t], [Base EXCEPT !.data = m]}
<1> DEFINE shown == IF Expired THEN None ELSE record
           s == SetDataArg(d)
           m == MergeStored(Base.data, s)
<1>1. OrBlank(shown) = Base /\ (~Expired => OrBlank(record) = Base)
  BY DEF OrBlank, Base, Expired
<1>2. OrBlank(IF Expired THEN Blank ELSE record) = Base
  BY BlankType, NoneAssumption DEF OrBlank, Base, Expired
<1>3. [Base EXCEPT !.data = m, !.left = Base.left] = [Base EXCEPT !.data = m]
  BY BaseType DEF Records, RecordOf
<1> HIDE DEF s
<1>4. CASE On("memory")
  BY <1>1, <1>4 DEF On, SetData, MemorySetData, MemoryActive, Stored, s
<1>5. CASE On("redis")
  BY <1>1, <1>3, <1>5 DEF On, SetData, RedisSetData, Stored, NoTTL, StorageInv, s
<1>6. CASE On("mongo")
  BY <1>1, <1>6 DEF On, SetData, MongoSetData, MongoKept, Stored, s
<1>7. CASE On("postgres")
  BY <1>2, <1>7 DEF On, SetData, PostgresSetData, Stored, s
<1>8. CASE On("file")
  BY <1>1, <1>8 DEF On, SetData, FileSetData, FileRead, Stored, s
<1>9. QED BY <1>4, <1>5, <1>6, <1>7, <1>8 DEF StorageInv, RecordTypes, On, s

LEMMA SetDataMaps ==
  ASSUME StorageInv, NEW d \in Data, NEW t \in TTLs, SetData(d, t)
  PROVE  StorageInv' /\ Contract!SetData(d, t)
<1> DEFINE m == MergeStored(Base.data, SetDataArg(d))
<1>1. /\ Base \in Records /\ Base.left # 0
      /\ ViewOf(Base) = Contract!Present
      /\ t \in Nat /\ t # 0 /\ Rest /\ answer' = None
  BY BaseType, StoreAssumption DEF SetData, Quiet
<1>2. /\ m \in [plain : Data, sealed : Data \cup {None}]
      /\ ~encrypted => m.sealed = None
      /\ Seen(m) = Merge(Seen(Base.data), d)
  BY MergedSeen
<1>3. Seen(m) = Contract!Merge(Contract!Present.data, d)
  BY <1>1, <1>2 DEF ViewOf, Merge, Contract!Merge
<1>4. record' = [Base EXCEPT !.data = m, !.left = t] \/ record' = [Base EXCEPT !.data = m]
  BY SetDataIs
<1> HIDE DEF m
<1>5. CASE record' = [Base EXCEPT !.data = m, !.left = t]
  <2>1. record' = [state |-> Base.state, data |-> m, history |-> Base.history, left |-> t]
    BY <1>1, <1>5 DEF Records, RecordOf
  <2>2. record' \in Records /\ record'.left # 0 /\ record'.data = m
    BY <1>1, <1>2, <2>1 DEF Records, RecordOf
  <2>3. ViewOf(record') = [ViewOf(Base) EXCEPT !.data = Seen(m), !.left = t]
    <3> DEFINE v == [state |-> Base.state, data |-> Seen(m),
                     history |-> Base.history, left |-> t]
    <3>1. ViewOf(record') = v BY <2>1 DEF ViewOf
    <3>2. /\ ViewOf(Base) \in RecordOf(Data)
          /\ ViewOf(Base).state = Base.state /\ ViewOf(Base).data = Seen(Base.data)
          /\ ViewOf(Base).history = Base.history
      BY <1>1 DEF ViewOf, Records, RecordOf, Seen
    <3>3. [ViewOf(Base) EXCEPT !.data = Seen(m), !.left = t]
               = [state |-> ViewOf(Base).state, data |-> Seen(m),
                  history |-> ViewOf(Base).history, left |-> t]
      BY <3>2, WithData
    <3>4. QED BY <3>1, <3>2, <3>3
  <2>4. StorageInv' /\ View' = ViewOf(record') BY <1>1, <1>2, <2>2, Leaves
  <2>5. QED BY <1>1, <1>3, <2>3, <2>4 DEF Contract!SetData, Contract!Refreshed, ViewOf
<1>6. CASE record' = [Base EXCEPT !.data = m]
  <2>1. /\ record' \in Records /\ record'.left # 0 /\ record'.data = m
        /\ ViewOf(record') = [ViewOf(Base) EXCEPT !.data = Seen(m)]
    BY <1>1, <1>2, <1>6 DEF Records, RecordOf, ViewOf
  <2>2. StorageInv' /\ View' = ViewOf(record') BY <1>1, <1>2, <2>1, Leaves
  <2>3. QED BY <1>1, <1>3, <2>1, <2>2 DEF Contract!SetData, Contract!Refreshed, ViewOf
<1>7. QED BY <1>4, <1>5, <1>6

\* What is seen through the contract's names.
LEMMA Active ==
  ASSUME StorageInv, View # None
  PROVE  /\ record # None /\ ~Expired /\ record \in Records /\ record.left # 0
         /\ View = ViewOf(record) /\ ViewOf(record) \in RecordOf(Data)
BY ViewIs, NoneAssumption DEF StorageInv, RecordTypes, Expired

\* setDataIfStatus: all adapters compare the same.
LEMMA SetDataIfMaps ==
  ASSUME StorageInv, NEW f \in Fields, NEW v \in Values, NEW d \in Data, NEW t \in TTLs,
         SetDataIf(f, v, d, t)
  PROVE  StorageInv' /\ Contract!SetDataIf(f, v, d, t)
<1> DEFINE matches == ~Expired /\ Status(f, v)
           seen == View # None /\ View.data[f] = v
<1>1. answer' = matches /\ Rest
  <2>1. CASE On("memory") BY <2>1 DEF SetDataIf, On, MemoryMatches
  <2>2. CASE On("redis")
    <3>1. matches = Status(f, v) BY <2>2 DEF On, StorageInv, Status
    <3>2. QED BY <2>2, <3>1 DEF SetDataIf, On, RedisMatches
  <2>3. CASE On("mongo") BY <2>3 DEF SetDataIf, On, MongoMatches
  <2>4. CASE On("postgres") BY <2>4 DEF SetDataIf, On, PostgresMatches
  <2>5. QED BY <2>1, <2>2, <2>3, <2>4 DEF SetDataIf, On, StorageInv, RecordTypes
<1>2. matches <=> seen
  <2>1. CASE View = None BY <2>1, ViewIs DEF StorageInv, Status
  <2>2. CASE View # None
    BY <2>2, Active DEF Status, ViewOf, Seen, SetDataIf, StorageInv
  <2>3. QED BY <2>1, <2>2
<1>3. CASE seen
  <2>1. answer' = TRUE BY <1>1, <1>2, <1>3
  <2>2. record' = Replaced(d, t) BY <2>1 DEF SetDataIf
  <2>3. /\ record \in Records /\ View = ViewOf(record) /\ ViewOf(record) \in RecordOf(Data)
        /\ View # None
    BY <1>3, Active
  <2>4. t \in Nat /\ t # 0 BY StoreAssumption
  <2>5. record' = [state |-> record.state, data |-> Clear(d),
                   history |-> record.history, left |-> t]
    BY <2>2, <2>3, WithData DEF Replaced, Records
  <2>6. /\ record' \in Records /\ record'.left # 0
        /\ record'.data.sealed = None
    BY <2>3, <2>4, <2>5 DEF Records, RecordOf, Clear
  <2>7. StorageInv' /\ View' = ViewOf(record') BY <1>1, <2>6, Leaves
  <2>8. View' = [state |-> record.state, data |-> d, history |-> record.history, left |-> t]
    BY <2>5, <2>7 DEF ViewOf, Seen, Clear
  <2>9. View' = [View EXCEPT !.data = d, !.left = t]
    <3>1. View \in RecordOf(Data) /\ View.state = record.state /\ View.history = record.history
      BY <2>3 DEF ViewOf
    <3>2. [View EXCEPT !.data = d, !.left = t]
            = [state |-> View.state, data |-> d, history |-> View.history, left |-> t]
      BY <3>1, WithData
    <3>3. QED BY <2>8, <3>1, <3>2
  <2>10. QED BY <1>3, <2>1, <2>7, <2>9 DEF Contract!SetDataIf
<1>4. CASE ~seen
  <2>1. answer' = FALSE BY <1>1, <1>2, <1>4
  <2>2. record' = record BY <2>1 DEF SetDataIf
  <2>3. StorageInv' /\ View' = View BY <1>1, <2>2, LeavesAlone
  <2>4. QED BY <1>4, <2>1, <2>3 DEF Contract!SetDataIf
<1>5. QED BY <1>3, <1>4

\* setSession.
LEMMA SetSessionMaps ==
  ASSUME StorageInv, NEW d \in Data, SetSession(d)
  PROVE  StorageInv' /\ Contract!Rewrite(d)
<1> DEFINE s == SetSessionArg(d)
<1>1. s \in [plain : Data, sealed : Data \cup {None}] /\ Seen(s) = d
      /\ (~encrypted => s.sealed = None)
  BY NoFieldsType, NoneAssumption DEF SetSessionArg, Sealed, Clear, Seen
<1>2. View # None /\ Rest /\ answer' = None BY DEF SetSession, Quiet
<1>3. record' = [record EXCEPT !.data = s]
  BY DEF SetSession, On, MemorySetSession, RedisSetSession, MongoSetSession,
         PostgresSetSession, StorageInv, RecordTypes
<1> HIDE DEF s
<1>4. record \in Records /\ record.left # 0 /\ View = ViewOf(record) BY <1>2, Active
<1>5. record' \in Records /\ record'.left # 0 /\ record'.data = s
  BY <1>1, <1>3, <1>4 DEF Records, RecordOf
<1>6. ViewOf(record') = [ViewOf(record) EXCEPT !.data = d]
  BY <1>1, <1>3, <1>4 DEF Records, RecordOf, ViewOf
<1>7. StorageInv' /\ View' = ViewOf(record') BY <1>1, <1>2, <1>5, Leaves
<1>8. QED BY <1>2, <1>4, <1>6, <1>7 DEF Contract!Rewrite

\* A history cut to its bound is a history, however it is cut.
LEMMA TrimType ==
  ASSUME NEW h \in Seq(States), NEW q \in States
  PROVE  /\ Trim(Append(h, q)) \in Seq(States)
         /\ Contract!Newest(Append(h, q)) = Trim(Append(h, q))
         /\ SubSeq(Append(h, q), Offset(h) + 1, Len(h) + 1) = Trim(Append(h, q))
<1> DEFINE a == Append(h, q)
<1>1. a \in Seq(States) /\ Len(a) = Len(h) + 1 /\ Len(h) \in Nat
  BY AppendProperties, LenProperties
<1> HIDE DEF a
<1>2. MaxHistory \in Nat \ {0} BY StoreAssumption
<1>3. CASE Len(a) > MaxHistory
  <2>1. Trim(a) = SubSeq(a, Len(a) - MaxHistory + 1, Len(a)) BY <1>3 DEF Trim, Newest
  <2>2. Trim(a) \in Seq(States)
    BY <1>1, <1>2, <1>3, <2>1, SubSeqProperties
  <2>3. Contract!Newest(a) = Trim(a) BY <1>3, <2>1 DEF Contract!Newest
  <2>4. Offset(h) + 1 = Len(a) - MaxHistory + 1 BY <1>1, <1>2, <1>3 DEF Offset
  <2>5. QED BY <1>1, <2>1, <2>2, <2>3, <2>4 DEF a
<1>4. CASE ~(Len(a) > MaxHistory)
  <2>1. Trim(a) = a /\ Contract!Newest(a) = a BY <1>4 DEF Trim, Contract!Newest
  <2>2. Offset(h) = 0 BY <1>1, <1>2, <1>4 DEF Offset
  <2>3. SubSeq(a, 1, Len(a)) = a BY <1>1, SubSeqFull
  <2>4. QED BY <1>1, <2>1, <2>2, <2>3 DEF a
<1>5. QED BY <1>3, <1>4

\* pushStateHistory: onto the present record, or a blank one in memory and
\* Redis; the others leave what is not there as it is.
LEMMA PushIs ==
  ASSUME StorageInv, NEW q \in States, PushHistory(q)
  PROVE  \/ record' = [Base EXCEPT !.history = Trim(Append(Base.history, q))]
         \/ View = None /\ record' \in {record, None}
<1> DEFINE h == Trim(Append(Base.history, q))
           shown == IF Expired THEN None ELSE record
<1>1. OrBlank(shown) = Base /\ (~Expired => OrBlank(record) = Base)
  BY DEF OrBlank, Base, Expired
<1>2. CASE On("memory")
  BY <1>1, <1>2 DEF On, PushHistory, MemoryPush, MemoryActive, Pushed
<1>3. CASE On("redis") BY <1>1, <1>3 DEF On, PushHistory, RedisPush, Pushed, StorageInv
<1>4. CASE On("mongo")
  <2>1. record' = MongoPush(q) BY <1>4 DEF On, PushHistory
  <2>2. CASE record = None \/ Expired
    BY <2>1, <2>2, ViewIs DEF StorageInv, MongoPush
  <2>3. CASE ~(record = None \/ Expired) BY <1>1, <2>1, <2>3 DEF MongoPush, Pushed
  <2>4. QED BY <2>2, <2>3
<1>5. CASE On("postgres")
  <2>1. record' = PostgresPush(q) BY <1>5 DEF On, PushHistory
  <2>2. CASE record = None \/ Expired
    BY <2>1, <2>2, ViewIs DEF StorageInv, PostgresPush
  <2>3. CASE ~(record = None \/ Expired)
    <3>1. Base = record /\ record.history \in Seq(States)
      BY <2>3 DEF Base, StorageInv, RecordTypes, Records, RecordOf
    <3>2. SubSeq(Append(record.history, q), Offset(record.history) + 1,
                 Len(record.history) + 1) = h
      BY <3>1, TrimType
    <3>3. QED BY <2>1, <2>3, <3>1, <3>2 DEF PostgresPush
  <2>4. QED BY <2>2, <2>3
<1>6. CASE On("file")
  <2>1. record' = FilePush(q) BY <1>6 DEF On, PushHistory
  <2>2. CASE record = None \/ Expired
    BY <2>1, <2>2, ViewIs DEF StorageInv, FilePush, FileRead
  <2>3. CASE ~(record = None \/ Expired)
    BY <1>1, <2>1, <2>3 DEF FilePush, FileRead, Pushed
  <2>4. QED BY <2>2, <2>3
<1>7. QED BY <1>2, <1>3, <1>4, <1>5, <1>6 DEF On, StorageInv, RecordTypes

LEMMA PushMaps ==
  ASSUME StorageInv, NEW q \in States, PushHistory(q)
  PROVE  StorageInv' /\ Contract!Push(q)
<1>1. Rest /\ answer' = None BY DEF PushHistory
<1>2. /\ Base \in Records /\ Base.left # 0 /\ (~encrypted => Base.data.sealed = None)
      /\ ViewOf(Base) = Contract!Present
  BY BaseType
<1> DEFINE h == Trim(Append(Base.history, q))
<1>3. CASE record' = [Base EXCEPT !.history = h]
  <2>1. h \in Seq(States) /\ Contract!Newest(Append(Base.history, q)) = h
    BY <1>2, TrimType DEF Records, RecordOf
  <2> HIDE DEF h
  <2>2. record' \in Records /\ record'.left # 0 /\ record'.data = Base.data
    BY <1>2, <1>3, <2>1 DEF Records, RecordOf
  <2>3. ViewOf(record') = [ViewOf(Base) EXCEPT !.history = h]
    BY <1>2, <1>3, <2>1 DEF Records, RecordOf, ViewOf
  <2>4. StorageInv' /\ View' = ViewOf(record') BY <1>1, <1>2, <2>2, Leaves
  <2>5. Contract!Present.history = Base.history BY <1>2 DEF ViewOf
  <2>6. View' = [Contract!Present EXCEPT !.history = h] BY <1>2, <2>3, <2>4
  <2>7. QED BY <1>1, <2>1, <2>4, <2>5, <2>6 DEF Contract!Push
<1>4. CASE View = None /\ record' = record
  <2>1. StorageInv' /\ View' = View BY <1>1, <1>4, LeavesAlone
  <2>2. QED BY <1>1, <1>4, <2>1 DEF Contract!Push
<1>5. CASE View = None /\ record' = None
  <2>1. StorageInv' /\ View' = None
    BY <1>1, <1>5, LeavesNone DEF Rest, StorageInv, RecordTypes
  <2>2. QED BY <1>1, <1>5, <2>1 DEF Contract!Push
<1>6. QED BY <1>3, <1>4, <1>5, PushIs

\* popHistory.
LEMMA PopMaps ==
  ASSUME StorageInv, PopHistory
  PROVE  StorageInv' /\ Contract!Pop
<1> DEFINE pops == ~Expired /\ HasHistory
           some == View # None /\ View.history # <<>>
<1>1. /\ Rest /\ record' = (IF pops THEN Popped ELSE record)
      /\ answer' = (IF pops THEN record.history[Len(record.history)] ELSE None)
  <2>1. CASE On("memory") BY <2>1 DEF PopHistory, On, MemoryPops
  <2>2. CASE On("redis") BY <2>2 DEF PopHistory, On, RedisPops, StorageInv
  <2>3. CASE On("mongo") BY <2>3 DEF PopHistory, On, MongoPops
  <2>4. CASE On("postgres") BY <2>4 DEF PopHistory, On, PostgresPops
  <2>5. CASE On("file") BY <2>5 DEF PopHistory, On, FilePops, FileRead, HasHistory
  <2>6. QED BY <2>1, <2>2, <2>3, <2>4, <2>5 DEF On, StorageInv, RecordTypes
<1>2. pops <=> some
  <2>1. CASE View = None BY <2>1, ViewIs DEF StorageInv, HasHistory
  <2>2. CASE View # None BY <2>2, Active DEF HasHistory, ViewOf
  <2>3. QED BY <2>1, <2>2
<1>3. CASE some
  <2>1. record \in Records /\ record.left # 0 /\ View = ViewOf(record)
    BY <1>3, Active
  <2>2. record' = [record EXCEPT !.history = SubSeq(@, 1, Len(@) - 1)]
    BY <1>1, <1>2, <1>3 DEF Popped
  <2> DEFINE h == SubSeq(record.history, 1, Len(record.history) - 1)
  <2>3. record.history \in Seq(States) /\ record.history # <<>>
    BY <1>2, <1>3, <2>1 DEF Records, RecordOf, HasHistory
  <2>4. h \in Seq(States)
    BY <2>3, SubSeqProperties, LenProperties, EmptySeq
  <2> HIDE DEF h
  <2>5. record' = [record EXCEPT !.history = h] BY <2>2 DEF h
  <2>6. record' \in Records /\ record'.left # 0 /\ record'.data = record.data
    BY <2>1, <2>4, <2>5 DEF Records, RecordOf
  <2>7. ViewOf(record') = [ViewOf(record) EXCEPT !.history = h]
    BY <2>1, <2>4, <2>5 DEF Records, RecordOf, ViewOf
  <2>8. ~encrypted => record'.data.sealed = None
    BY <1>2, <1>3, <2>6 DEF StorageInv, HasHistory
  <2>9. StorageInv' /\ View' = ViewOf(record') BY <1>1, <2>6, <2>8, Leaves
  <2>10. ViewOf(record).history = record.history BY DEF ViewOf
  <2>11. answer' = record.history[Len(record.history)] BY <1>1, <1>2, <1>3
  <2>12. QED BY <1>3, <2>1, <2>7, <2>9, <2>10, <2>11 DEF Contract!Pop, h
<1>4. CASE ~some
  <2>1. record' = record /\ answer' = None BY <1>1, <1>2, <1>4
  <2>2. StorageInv' /\ View' = View BY <1>1, <2>1, LeavesAlone
  <2>3. QED BY <1>4, <2>1, <2>2 DEF Contract!Pop
<1>5. QED BY <1>3, <1>4

\* Time passes.
LEMMA TickMaps ==
  ASSUME StorageInv, Tick
  PROVE  StorageInv' /\ Contract!Pass
<1>1. /\ record # None /\ record.left # 0 /\ record.left # Never /\ Rest
      /\ answer' = answer
  BY DEF Tick
<1>2. /\ record \in Records /\ View = ViewOf(record) /\ View # None
  BY <1>1, ViewIs DEF StorageInv, RecordTypes, Expired
<1>3. record.left \in Nat \ {0} /\ View.left = record.left
  BY <1>1, <1>2 DEF Records, RecordOf, ViewOf
<1>4. CASE record.left = 1 /\ On("redis")
  <2>1. record' = None BY <1>4 DEF Tick
  <2>2. StorageInv' /\ View' = None
    BY <1>1, <2>1, LeavesNone DEF Rest, StorageInv, RecordTypes
  <2>3. QED BY <1>1, <1>2, <1>3, <1>4, <2>2 DEF Contract!Pass
<1>5. CASE record.left = 1 /\ ~On("redis")
  <2>1. record' = [record EXCEPT !.left = 0] BY <1>5 DEF Tick
  <2>2. record' \in Records /\ record'.left = 0 /\ record'.data = record.data
    BY <1>2, <2>1 DEF Records, RecordOf
  <2>3. Expired' /\ View' = None BY <2>2, NoneAssumption DEF Expired, View
  <2>4. StorageInv' BY <1>1, <1>5, <2>2 DEF StorageInv, RecordTypes, Rest, On
  <2>5. QED BY <1>1, <1>2, <1>3, <1>5, <2>3, <2>4 DEF Contract!Pass
<1>6. CASE record.left # 1
  <2>1. record' = [record EXCEPT !.left = record.left - 1] BY <1>6 DEF Tick
  <2>2. record.left - 1 \in Nat \ {0} BY <1>3, <1>6
  <2>3. /\ record' \in Records /\ record'.left # 0 /\ record'.data = record.data
        /\ ViewOf(record') = [ViewOf(record) EXCEPT !.left = record.left - 1]
    BY <1>2, <2>1, <2>2 DEF Records, RecordOf, ViewOf
  <2>4. ~encrypted => record'.data.sealed = None BY <1>1, <2>3 DEF StorageInv
  <2>5. StorageInv' /\ View' = ViewOf(record') BY <1>1, <2>3, <2>4, Leaves
  <2>6. QED BY <1>1, <1>2, <1>3, <1>6, <2>3, <2>5 DEF Contract!Pass
<1>7. QED BY <1>4, <1>5, <1>6

\* Every step is a step of the store, or changes nothing of it.
LEMMA StorageSteps ==
  ASSUME StorageInv, [Next]_vars
  PROVE  StorageInv' /\ [Contract!StoreNext]_(Contract!storeVars)
<1>1. ASSUME NEW q \in States, NEW t \in TTLs, SetState(q, t)
      PROVE  StorageInv' /\ [Contract!StoreNext]_(Contract!storeVars)
  BY <1>1, SetStateMaps DEF Contract!StoreNext
<1>2. ASSUME NEW d \in Data, NEW t \in TTLs, SetData(d, t)
      PROVE  StorageInv' /\ [Contract!StoreNext]_(Contract!storeVars)
  BY <1>2, SetDataMaps DEF Contract!StoreNext, Data, Contract!Data
<1>3. ASSUME NEW f \in Fields, NEW v \in Values, NEW d \in Data, NEW t \in TTLs,
             SetDataIf(f, v, d, t)
      PROVE  StorageInv' /\ [Contract!StoreNext]_(Contract!storeVars)
  BY <1>3, SetDataIfMaps DEF Contract!StoreNext, Data, Contract!Data
<1>4. ASSUME NEW d \in Data, SetSession(d)
      PROVE  StorageInv' /\ [Contract!StoreNext]_(Contract!storeVars)
  BY <1>4, SetSessionMaps DEF Contract!StoreNext, Data, Contract!Data
<1>5. ASSUME NEW q \in States, PushHistory(q)
      PROVE  StorageInv' /\ [Contract!StoreNext]_(Contract!storeVars)
  BY <1>5, PushMaps DEF Contract!StoreNext
<1>6. ASSUME PopHistory
      PROVE  StorageInv' /\ [Contract!StoreNext]_(Contract!storeVars)
  BY <1>6, PopMaps DEF Contract!StoreNext
<1>7. ASSUME DeleteSession
      PROVE  StorageInv' /\ [Contract!StoreNext]_(Contract!storeVars)
  <2>1. StorageInv' /\ View' = None
    BY <1>7, LeavesNone DEF DeleteSession, Quiet, Rest, StorageInv, RecordTypes
  <2>2. Contract!Delete BY <1>7, <2>1 DEF Contract!Delete, DeleteSession, Quiet
  <2>3. QED BY <2>1, <2>2 DEF Contract!StoreNext
<1>8. ASSUME Tick
      PROVE  StorageInv' /\ [Contract!StoreNext]_(Contract!storeVars)
  BY <1>8, TickMaps DEF Contract!StoreNext
<1>9. ASSUME Reap
      PROVE  StorageInv' /\ [Contract!StoreNext]_(Contract!storeVars)
  <2>1. View = None BY <1>9, ViewIs DEF Reap, StorageInv
  <2>2. StorageInv' /\ View' = None
    BY <1>9, LeavesNone DEF Reap, Rest, StorageInv, RecordTypes
  <2>3. QED BY <1>9, <2>1, <2>2 DEF Contract!storeVars, Reap
<1>10. ASSUME Encrypt
       PROVE  StorageInv' /\ [Contract!StoreNext]_(Contract!storeVars)
  <2>1. StorageInv' BY <1>10 DEF Encrypt, StorageInv, RecordTypes, Expired
  <2>2. View' = View BY <1>10 DEF Encrypt, View, Expired
  <2>3. QED BY <1>10, <2>1, <2>2 DEF Contract!storeVars, Encrypt
<1>11. ASSUME UNCHANGED vars
       PROVE  StorageInv' /\ [Contract!StoreNext]_(Contract!storeVars)
  <2>1. StorageInv' /\ View' = View BY <1>11, LeavesAlone DEF vars, Rest
  <2>2. QED BY <1>11, <2>1 DEF Contract!storeVars, vars
<1>12. QED
  BY <1>1, <1>2, <1>3, <1>4, <1>5, <1>6, <1>7, <1>8, <1>9, <1>10, <1>11 DEF Next

LEMMA StorageStarts == Init => StorageInv /\ Contract!StoreInit
BY StoreAssumption DEF Init, StorageInv, RecordTypes, Expired, View, Contract!StoreInit

THEOREM StorageImplements == Spec => ImplementsStore
<1>1. Init => StorageInv /\ Contract!StoreInit BY StorageStarts
<1>2. StorageInv /\ [Next]_vars => StorageInv' /\ [Contract!StoreNext]_(Contract!storeVars)
  BY StorageSteps
<1>3. QED BY <1>1, <1>2, PTL DEF Spec, ImplementsStore, Contract!StoreSpec

-----------------------------------------------------------------------------
(* The batch processor.                                                    *)

\* The queue never holds a whole batch, and the timer is armed while it
\* holds anything.
BatchInv ==
  /\ queue \in Seq(Items) /\ Len(queue) < BatchSize
  /\ queue # <<>> => timer
  /\ flights \subseteq Seq(Items)
  /\ settled \in [Items -> {"none", "waiting", "resolved", "rejected"}]
  /\ NothingStranded

LEMMA AddedMembers ==
  ASSUME NEW q \in Seq(Items), NEW item \in Items
  PROVE  Members(Append(q, item)) = Members(q) \cup {item}
<1>1. /\ Append(q, item) \in Seq(Items) /\ Len(Append(q, item)) = Len(q) + 1
      /\ \A i \in 1..Len(q) : Append(q, item)[i] = q[i]
      /\ Append(q, item)[Len(q) + 1] = item
  BY AppendProperties
<1>2. Len(q) \in Nat /\ DOMAIN q = 1..Len(q) /\ DOMAIN Append(q, item) = 1..(Len(q) + 1)
  BY <1>1, LenProperties
<1>3. QED BY <1>1, <1>2 DEF Members

\* A flush of at most one batch sends off all of it.
LEMMA Flushed ==
  ASSUME BatchAssumption, NEW q \in Seq(Items), Len(q) <= BatchSize, FlushBatch(q),
         flights \subseteq Seq(Items)
  PROVE  /\ queue' = <<>> /\ ~timer'
         /\ flights' \subseteq Seq(Items)
         /\ flights \subseteq flights' /\ (q # <<>> => q \in flights')
<1>1. Len(q) \in Nat /\ BatchSize \in Nat \ {0} BY LenProperties, BatchAssumption
<1>2. queue' = <<>>
  <2>1. queue' = SubSeq(q, BatchSize + 1, Len(q)) BY DEF FlushBatch
  <2>2. BatchSize + 1 > Len(q) BY <1>1
  <2>3. QED BY <1>1, <2>1, <2>2, SubSeqEmpty
<1>3. (IF Len(q) < BatchSize THEN Len(q) ELSE BatchSize) = Len(q) BY <1>1
<1>4. SubSeq(q, 1, Len(q)) = q BY SubSeqFull
<1>5. flights' = IF q = <<>> THEN flights ELSE flights \cup {q}
  BY <1>3, <1>4 DEF FlushBatch
<1>6. QED BY <1>2, <1>5 DEF FlushBatch

LEMMA BatchStarts == BatchInit => BatchInv
<1> SUFFICES ASSUME BatchInit PROVE BatchInv OBVIOUS
<1>1. queue \in Seq(Items) /\ Len(queue) = 0 BY EmptySeq DEF BatchInit
<1>2. \A item \in Items : settled[item] # "waiting" BY DEF BatchInit
<1>3. QED BY <1>1, <1>2, BatchAssumption DEF BatchInit, BatchInv, NothingStranded

LEMMA BatchSteps == BatchInv /\ [BatchNext]_batchVars => BatchInv'
<1> SUFFICES ASSUME BatchInv, [BatchNext]_batchVars PROVE BatchInv' OBVIOUS
<1>1. ASSUME NEW item \in Items, Add(item) PROVE BatchInv'
  <2>1. /\ settled' \in [Items -> {"none", "waiting", "resolved", "rejected"}]
        /\ \A other \in Items :
             settled'[other] = "waiting" => other = item \/ settled[other] = "waiting"
    BY <1>1 DEF Add, BatchInv
  <2> DEFINE q == Append(queue, item)
  <2>2. /\ q \in Seq(Items) /\ Len(q) = Len(queue) + 1 /\ q # <<>>
        /\ Len(queue) \in Nat /\ Members(q) = Members(queue) \cup {item}
    BY AppendProperties, AddedMembers, LenProperties, EmptySeq DEF BatchInv
  <2>3. CASE Len(queue) + 1 >= BatchSize
    <3>1. FlushBatch(q) BY <1>1, <2>3 DEF Add
    <3>2. Len(q) <= BatchSize BY <2>2, BatchAssumption DEF BatchInv
    <3> HIDE DEF q
    <3>3. /\ queue' = <<>> /\ flights' \subseteq Seq(Items)
          /\ flights \subseteq flights' /\ q \in flights'
      BY <2>2, <3>1, <3>2, Flushed, BatchAssumption DEF BatchInv
    <3>4. queue' \in Seq(Items) /\ Len(queue') = 0 BY <3>3, EmptySeq
    <3>5. NothingStranded'
      <4>1. ASSUME NEW other \in Items, settled'[other] = "waiting"
            PROVE  \E flight \in flights' : other \in Members(flight)
        <5>1. CASE other = item \/ other \in Members(queue) BY <2>2, <3>3, <5>1
        <5>2. CASE ~(other = item \/ other \in Members(queue))
          BY <2>1, <3>3, <4>1, <5>2 DEF BatchInv, NothingStranded
        <5>3. QED BY <5>1, <5>2
      <4>2. QED BY <4>1 DEF NothingStranded
    <3>6. QED BY <2>1, <3>3, <3>4, <3>5, BatchAssumption DEF BatchInv
  <2>4. CASE ~(Len(queue) + 1 >= BatchSize)
    <3>1. queue' = q /\ timer' = TRUE /\ flights' = flights BY <1>1, <2>4 DEF Add
    <3> HIDE DEF q
    <3>2. NothingStranded' BY <2>1, <2>2, <3>1 DEF BatchInv, NothingStranded
    <3>3. Len(queue') < BatchSize BY <2>2, <2>4, <3>1, BatchAssumption
    <3>4. QED BY <2>1, <2>2, <3>1, <3>2, <3>3 DEF BatchInv
  <2>5. QED BY <2>3, <2>4
<1>2. CASE TimerFires
  <2>1. settled' = settled /\ FlushBatch(queue) BY <1>2 DEF TimerFires
  <2>2. /\ queue' = <<>> /\ flights' \subseteq Seq(Items) /\ flights \subseteq flights'
        /\ (queue # <<>> => queue \in flights')
    BY <2>1, Flushed, LenProperties, BatchAssumption DEF BatchInv
  <2>3. queue' \in Seq(Items) /\ Len(queue') = 0 BY <2>2, EmptySeq
  <2>4. queue = <<>> => Members(queue) = {} BY DEF Members
  <2>5. NothingStranded' BY <2>1, <2>2, <2>4 DEF BatchInv, NothingStranded
  <2>6. QED BY <2>1, <2>2, <2>3, <2>5, BatchAssumption DEF BatchInv
<1>3. ASSUME NEW flight \in flights, Processed(flight) PROVE BatchInv'
  <2>1. UNCHANGED <<queue, timer>> /\ flights' = flights \ {flight}
    BY <1>3 DEF Processed
  <2>2. PICK outcome \in {"resolved", "rejected"} :
          settled' = [item \in Items |->
                        IF item \in Members(flight) THEN outcome ELSE settled[item]]
    BY <1>3 DEF Processed
  <2>3. settled' \in [Items -> {"none", "waiting", "resolved", "rejected"}]
    BY <2>2 DEF BatchInv
  <2>4. NothingStranded'
    <3>1. ASSUME NEW item \in Items, settled'[item] = "waiting"
          PROVE  item \notin Members(flight) /\ settled[item] = "waiting"
      BY <2>2, <3>1
    <3>2. QED BY <2>1, <3>1 DEF BatchInv, NothingStranded
  <2>5. QED BY <2>1, <2>3, <2>4 DEF BatchInv
<1>4. CASE UNCHANGED batchVars BY <1>4 DEF batchVars, BatchInv, NothingStranded
<1>5. QED BY <1>1, <1>2, <1>3, <1>4 DEF BatchNext

\* No call to the batch processor is forgotten, for any items, batch size and
\* order of calls, timers and answers.
THEOREM NobodyStranded == BatchSpec => []NothingStranded
<1>1. BatchInv => NothingStranded BY DEF BatchInv
<1>2. QED BY BatchStarts, BatchSteps, <1>1, PTL DEF BatchSpec

-----------------------------------------------------------------------------
(* Health checks.                                                          *)

Stages == {"idle", "checking", "answered"}
Probes == [stage : Stages, healthy : BOOLEAN, probed : Nat, answered : Nat]
Results == [healthy : BOOLEAN, probed : Nat, stamp : Nat, there : BOOLEAN]

\* A check that runs is no older than a check may be, what is cached was then
\* stamped within that time, and so is what a request was answered with.
HealthInv ==
  /\ now \in Nat
  /\ up \in BOOLEAN
  /\ cached \in Results
  /\ cached.there => cached.stamp <= now /\ cached.stamp <= cached.probed + MaxDuration
  /\ probe \in [Probers -> Probes]
  /\ \A p \in Probers : probe[p].stage = "checking" => now <= probe[p].probed + MaxDuration
  /\ HealthyIsRecent

\* An answer whose look is recent keeps the property.
LEMMA AnswerRecent ==
  ASSUME HealthInv, NEW p \in Probers, NEW healthy \in BOOLEAN, NEW probed \in Nat,
         Answers(p, healthy, probed), now' = now,
         healthy => now < probed + MaxDuration + (IF CacheTTL = 0 THEN 1 ELSE CacheTTL)
  PROVE  /\ probe' \in [Probers -> Probes]
         /\ \A r \in Probers :
              probe'[r].stage = "checking" => now <= probe'[r].probed + MaxDuration
         /\ HealthyIsRecent'
<1>1. probe' = [probe EXCEPT ![p] = [stage |-> "answered", healthy |-> healthy,
                                     probed |-> probed, answered |-> now]]
  BY DEF Answers
<1>2. [stage |-> "answered", healthy |-> healthy, probed |-> probed, answered |-> now]
        \in Probes
  BY DEF HealthInv, Stages, Probes
<1>3. probe' \in [Probers -> Probes]
  BY <1>1, <1>2 DEF HealthInv
<1>4. /\ probe'[p] = [stage |-> "answered", healthy |-> healthy,
                      probed |-> probed, answered |-> now]
      /\ \A r \in Probers \ {p} : probe'[r] = probe[r]
  BY <1>1 DEF HealthInv
<1>5. \A r \in Probers : probe'[r].stage = "checking" => now <= probe'[r].probed + MaxDuration
  BY <1>4 DEF HealthInv
<1>6. HealthyIsRecent' BY <1>4 DEF HealthInv, HealthyIsRecent
<1>7. QED BY <1>3, <1>5, <1>6

LEMMA HealthStarts == HealthInit => HealthInv
BY DEF HealthInit, HealthInv, NoResult, NoProbe, HealthyIsRecent, Stages, Probes, Results

LEMMA HealthSteps == HealthInv /\ [HealthNext]_healthVars => HealthInv'
<1> SUFFICES ASSUME HealthInv, [HealthNext]_healthVars PROVE HealthInv' OBVIOUS
<1>1. ASSUME NEW p \in Probers, NotReady(p) PROVE HealthInv'
  <2>1. Answers(p, FALSE, now) /\ UNCHANGED <<now, up, cached>> BY <1>1 DEF NotReady
  <2>2. now \in Nat BY DEF HealthInv
  <2>3. QED BY <2>1, <2>2, AnswerRecent DEF HealthInv
<1>2. ASSUME NEW p \in Probers, FromCache(p) PROVE HealthInv'
  <2>1. /\ Answers(p, cached.healthy, cached.probed) /\ UNCHANGED <<now, up, cached>>
        /\ Fresh
    BY <1>2 DEF FromCache
  <2>2. cached.healthy \in BOOLEAN /\ cached.probed \in Nat /\ cached.stamp \in Nat
    BY DEF HealthInv, Results
  <2>3. now < cached.probed + MaxDuration + CacheTTL /\ CacheTTL # 0
    BY <2>1, <2>2, HealthAssumption DEF HealthInv, Fresh, Age
  <2>4. QED BY <2>1, <2>2, <2>3, AnswerRecent DEF HealthInv
<1>3. ASSUME NEW p \in Probers, Look(p) PROVE HealthInv'
  <2> DEFINE look == [stage |-> "checking", healthy |-> up, probed |-> now, answered |-> 0]
  <2>1. UNCHANGED <<now, up, cached>> /\ probe' = [probe EXCEPT ![p] = look]
    BY <1>3 DEF Look
  <2>2. look \in Probes
    BY DEF HealthInv, Stages, Probes
  <2>3. probe' \in [Probers -> Probes]
    BY <2>1, <2>2 DEF HealthInv
  <2>4. probe'[p] = look /\ \A r \in Probers \ {p} : probe'[r] = probe[r]
    BY <2>1 DEF HealthInv
  <2>5. now <= now + MaxDuration BY HealthAssumption DEF HealthInv
  <2>6. \A r \in Probers : probe'[r].stage = "checking" => now <= probe'[r].probed + MaxDuration
    BY <2>4, <2>5 DEF HealthInv
  <2>7. HealthyIsRecent' BY <2>4 DEF HealthInv, HealthyIsRecent
  <2>8. QED BY <2>1, <2>3, <2>6, <2>7 DEF HealthInv
<1>4. ASSUME NEW p \in Probers, Finish(p) PROVE HealthInv'
  <2>1. PICK healthy \in {probe[p].healthy, FALSE} :
          /\ cached' = IF CacheTTL = 0 THEN cached
                       ELSE [healthy |-> healthy, probed |-> probe[p].probed,
                             stamp |-> now, there |-> TRUE]
          /\ Answers(p, healthy, probe[p].probed)
    BY <1>4 DEF Finish
  <2>2. /\ healthy \in BOOLEAN /\ probe[p].probed \in Nat /\ UNCHANGED <<now, up>>
        /\ now \in Nat /\ now <= probe[p].probed + MaxDuration
    BY <1>4 DEF Finish, HealthInv, Probes
  <2>3. now < probe[p].probed + MaxDuration + (IF CacheTTL = 0 THEN 1 ELSE CacheTTL)
    BY <2>2, HealthAssumption
  <2>4. /\ cached' \in Results
        /\ cached'.there => cached'.stamp <= now /\ cached'.stamp <= cached'.probed + MaxDuration
    BY <2>1, <2>2 DEF HealthInv, Results
  <2>5. QED BY <2>1, <2>2, <2>3, <2>4, AnswerRecent DEF HealthInv
<1>5. CASE HealthTick
  <2>1. /\ UNCHANGED <<up, cached, probe>> /\ now' = now + 1
        /\ \A p \in Probers : probe[p].stage = "checking" => now < probe[p].probed + MaxDuration
    BY <1>5 DEF HealthTick
  <2>2. \A p \in Probers : probe[p].probed \in Nat BY DEF HealthInv, Probes
  <2>3. \A p \in Probers : probe'[p].stage = "checking" => now' <= probe'[p].probed + MaxDuration
    BY <2>1, <2>2, HealthAssumption DEF HealthInv
  <2>4. cached'.there => cached'.stamp <= now' BY <2>1 DEF HealthInv, Results
  <2>5. QED BY <2>1, <2>3, <2>4 DEF HealthInv, HealthyIsRecent
<1>6. CASE Connection \/ (RunStartup /\ UNCHANGED <<now, up, cached, probe>>)
  BY <1>6 DEF Connection, HealthInv, HealthyIsRecent
<1>7. CASE UNCHANGED healthVars BY <1>7 DEF healthVars, HealthInv, HealthyIsRecent
<1>8. QED BY <1>1, <1>2, <1>3, <1>4, <1>5, <1>6, <1>7 DEF HealthNext

\* A healthy answer is recent, for any number of overlapping requests, cache
\* lifetime and duration of the checks.
THEOREM AnswersAreRecent == HealthSpec => []HealthyIsRecent
<1>1. HealthInv => HealthyIsRecent BY DEF HealthInv
<1>2. QED BY HealthStarts, HealthSteps, <1>1, PTL DEF HealthSpec

-----------------------------------------------------------------------------
(* The session manager.                                                    *)

Calls == {"none", "starting", "recording", "ending", "missing"}
Tallies == [total : Nat, active : Nat, completed : Nat, abandoned : Nat]

BooksTypeOK ==
  /\ kept \in [Callers -> BOOLEAN] /\ doing \in [Callers -> Calls]
  /\ tally \in Tallies
  /\ whole \in BOOLEAN

\* What is open, and how a step may change it.
LEMMA OpenFinite == IsFiniteSet(Open) /\ Cardinality(Open) \in Nat
<1>1. Open \in SUBSET Callers BY DEF Open
<1>2. IsFiniteSet(Open) BY <1>1, FS_Subset, BooksAssumption
<1>3. QED BY <1>2, FS_CardinalityType

LEMMA OpenShrinks ==
  ASSUME Open' \subseteq Open
  PROVE  Cardinality(Open') \in Nat /\ Cardinality(Open') <= Cardinality(Open)
<1>1. IsFiniteSet(Open') /\ Cardinality(Open') <= Cardinality(Open)
  BY OpenFinite, FS_Subset
<1>2. QED BY <1>1, FS_CardinalityType

\* Counting keeps the counters' type.
LEMMA OneStarted ==
  ASSUME NEW t \in Tallies, NEW all \in Nat, NEW live \in Nat
  PROVE  [t EXCEPT !.total = all, !.active = live] \in Tallies
BY DEF Tallies

LEMMA OneEnded ==
  ASSUME NEW t \in Tallies, NEW live \in Nat, NEW done \in Nat, NEW gone \in Nat
  PROVE  [t EXCEPT !.active = live, !.completed = done, !.abandoned = gone] \in Tallies
BY DEF Tallies

LEMMA TypeInit == BooksInit => BooksTypeOK
BY DEF BooksInit, BooksTypeOK, Calls, Zero, Tallies

LEMMA TypeNext == BooksTypeOK /\ [BooksNext]_booksVars => BooksTypeOK'
<1> SUFFICES ASSUME BooksTypeOK, [BooksNext]_booksVars PROVE BooksTypeOK' OBVIOUS
<1> USE DEF BooksTypeOK, Calls
<1>1. CASE Reset BY <1>1 DEF Reset, Zero, Tallies
<1>2. ASSUME NEW s \in Callers, Begin(s) \/ Interact(s) \/ Interacted(s) \/ End(s) \/ Lapse(s)
      PROVE  BooksTypeOK'
  <2>1. UNCHANGED <<tally, whole>> BY <1>2 DEF Begin, Interact, Interacted, End, Lapse
  <2>2. kept' \in [Callers -> BOOLEAN] BY <1>2 DEF Begin, Interact, Interacted, End, Lapse
  <2>3. \E step \in Calls : doing' = [doing EXCEPT ![s] = step] \/ doing' = doing
    <3>1. CASE End(s) BY <3>1 DEF End
    <3>2. QED BY <1>2, <3>1 DEF Begin, Interact, Interacted, End, Lapse
  <2>4. doing' \in [Callers -> Calls] BY <2>3
  <2>5. tally' = tally /\ whole' = whole BY <2>1
  <2>6. QED BY <2>2, <2>4, <2>5
<1>3. ASSUME NEW s \in Callers, Begun(s) PROVE BooksTypeOK'
  <2>1. tally.total + 1 \in Nat /\ tally.active + 1 \in Nat BY DEF Tallies
  <2>2. tally' \in Tallies BY <1>3, <2>1, OneStarted DEF Begun
  <2>3. QED BY <1>3, <2>2 DEF Begun
<1>4. ASSUME NEW s \in Callers, NEW completed \in BOOLEAN, EndCounted(s, completed)
      PROVE  BooksTypeOK'
  <2> DEFINE live == IF tally.active = 0 THEN 0 ELSE tally.active - 1
             done == IF completed THEN tally.completed + 1 ELSE tally.completed
             gone == IF completed THEN tally.abandoned ELSE tally.abandoned + 1
  <2>1. live \in Nat /\ done \in Nat /\ gone \in Nat
    <3>1. tally.active \in Nat /\ tally.completed \in Nat /\ tally.abandoned \in Nat
      BY DEF Tallies
    <3>2. live \in Nat BY <3>1
    <3>3. done \in Nat /\ gone \in Nat BY <3>1
    <3>4. QED BY <3>2, <3>3
  <2>2. tally' \in {tally, [tally EXCEPT !.active = live, !.completed = done, !.abandoned = gone]}
    BY <1>4, Zenon DEF EndCounted, Booked
  <2> HIDE DEF live, done, gone
  <2>3. tally \in Tallies OBVIOUS
  <2>4. [tally EXCEPT !.active = live, !.completed = done, !.abandoned = gone] \in Tallies
    BY <2>1, <2>3, OneEnded
  <2>5. tally' \in Tallies BY <2>2, <2>3, <2>4
  <2>6. QED BY <1>4, <2>5 DEF EndCounted
<1>5. CASE UNCHANGED booksVars BY <1>5 DEF booksVars
<1>6. QED BY <1>1, <1>2, <1>3, <1>4, <1>5 DEF BooksNext

LEMMA BalanceInit == BooksInit => BooksBalance
<1> SUFFICES ASSUME BooksInit PROVE BooksBalance OBVIOUS
<1>1. Open = {} BY DEF BooksInit, Open
<1>2. Cardinality(Open) = 0 BY <1>1, FS_EmptySet
<1>3. QED BY <1>2 DEF BooksInit, BooksBalance, Zero

\* A session that is counted becomes open, and no other.
LEMMA BegunBalances ==
  ASSUME BooksTypeOK, BooksBalance, NEW s \in Callers, Begun(s)
  PROVE  BooksBalance'
<1>1. Open' \subseteq Open \cup {s} BY DEF Begun, Open, BooksTypeOK, Tallies
<1>2. /\ IsFiniteSet(Open \cup {s})
      /\ Cardinality(Open \cup {s}) <= Cardinality(Open) + 1
  <2>1. /\ IsFiniteSet(Open \cup {s})
        /\ Cardinality(Open \cup {s}) =
             IF s \in Open THEN Cardinality(Open) ELSE Cardinality(Open) + 1
    BY OpenFinite, FS_AddElement
  <2>2. QED BY <2>1, OpenFinite
<1>3. IsFiniteSet(Open') /\ Cardinality(Open') <= Cardinality(Open \cup {s})
  BY <1>1, <1>2, FS_Subset
<1>4. Cardinality(Open') \in Nat /\ Cardinality(Open \cup {s}) \in Nat
  BY <1>2, <1>3, FS_CardinalityType
<1>5. QED BY <1>2, <1>3, <1>4, OpenFinite DEF Begun, BooksBalance, BooksTypeOK, Tallies

\* An end that is counted closes one that was open.
LEMMA EndBalances ==
  ASSUME BooksTypeOK, BooksBalance, NEW s \in Callers, NEW completed \in BOOLEAN,
         EndCounted(s, completed)
  PROVE  BooksBalance'
<1>1. CASE doing[s] = "ending"
  <2>1. s \in Open BY <1>1 DEF Open
  <2>2. Open' = Open \ {s} BY <1>1 DEF EndCounted, Open, BooksTypeOK, Tallies
  <2>3. Cardinality(Open') = Cardinality(Open) - 1
    BY <2>1, <2>2, OpenFinite, FS_RemoveElement
  <2>4. Cardinality(Open) > 0
    BY <2>1, OpenFinite, FS_EmptySet
  <2>5. QED BY <1>1, <2>3, <2>4, OpenFinite DEF EndCounted, Booked, BooksBalance, BooksTypeOK, Tallies
<1>2. CASE doing[s] # "ending"
  <2>1. Open' \subseteq Open BY <1>2 DEF EndCounted, Open, BooksTypeOK, Tallies
  <2>2. QED
    BY <1>2, <2>1, OpenShrinks, OpenFinite DEF EndCounted, Booked, BooksBalance, BooksTypeOK, Tallies
<1>3. QED BY <1>1, <1>2

LEMMA BalanceNext == BooksTypeOK /\ BooksBalance /\ [BooksNext]_booksVars => BooksBalance'
<1> SUFFICES ASSUME BooksTypeOK, BooksBalance, [BooksNext]_booksVars PROVE BooksBalance' OBVIOUS
<1>1. CASE Reset
  <2>1. CASE whole'
    <3>1. Open' = {} BY <1>1, <2>1 DEF Reset, Open
    <3>2. Cardinality(Open') = 0 BY <3>1, FS_EmptySet
    <3>3. QED BY <1>1, <3>2 DEF Reset, BooksBalance, Zero
  <2>2. QED BY <2>1 DEF BooksBalance
<1>2. ASSUME NEW s \in Callers, Begin(s) \/ Interact(s) \/ Interacted(s) \/ End(s) \/ Lapse(s)
      PROVE  BooksBalance'
  <2>1. Open' \subseteq Open
    BY <1>2 DEF Begin, Interact, Interacted, End, Lapse, Open, BooksTypeOK, Tallies
  <2>2. UNCHANGED <<tally, whole>>
    BY <1>2 DEF Begin, Interact, Interacted, End, Lapse
  <2>3. QED BY <2>1, <2>2, OpenShrinks, OpenFinite DEF BooksBalance, BooksTypeOK, Tallies
<1>3. ASSUME NEW s \in Callers, Begun(s) PROVE BooksBalance' BY <1>3, BegunBalances
<1>4. ASSUME NEW s \in Callers, NEW completed \in BOOLEAN, EndCounted(s, completed)
      PROVE  BooksBalance'
  BY <1>4, EndBalances
<1>5. CASE UNCHANGED booksVars BY <1>5 DEF booksVars, BooksBalance, Open
<1>6. QED BY <1>1, <1>2, <1>3, <1>4, <1>5 DEF BooksNext

\* Whatever the order of starts, interactions, ends, expiries and resets, the
\* counters of SessionManager.js account for every session.
THEOREM BooksAlwaysBalance == BooksSpec => []BooksBalance
<1>1. BooksInit => BooksTypeOK /\ BooksBalance BY TypeInit, BalanceInit
<1>2. BooksTypeOK /\ BooksBalance /\ [BooksNext]_booksVars => (BooksTypeOK /\ BooksBalance)'
  BY TypeNext, BalanceNext
<1>3. QED BY <1>1, <1>2, PTL DEF BooksSpec

-----------------------------------------------------------------------------
(* The cache (LRUCache), whatever its entries are.                         *)

\* An entry for a key, as in a Map.
OneEach(c) == \A i, j \in DOMAIN c : c[i].key = c[j].key => i = j

\* The positions of a finite set of numbers: the k-th has k up to it.
LEMMA NthIs ==
  ASSUME NEW n \in Nat, NEW stay \in SUBSET (1 .. n)
  PROVE  /\ IsFiniteSet(stay) /\ Cardinality(stay) \in Nat /\ Cardinality(stay) <= n
         /\ \A k \in 1 .. Cardinality(stay) : Nth(stay, k) \in stay
         /\ \A k, l \in 1 .. Cardinality(stay) : Nth(stay, k) = Nth(stay, l) => k = l
<1> DEFINE upTo(i) == {j \in stay : j <= i}
           m == Cardinality(stay)
           rank == [i \in stay |-> Cardinality(upTo(i))]
<1>1. IsFiniteSet(1 .. n) /\ Cardinality(1 .. n) = n BY FS_Interval
<1>2. IsFiniteSet(stay) /\ m \in Nat /\ m <= n BY <1>1, FS_Subset, FS_CardinalityType
<1>3. \A i \in stay : IsFiniteSet(upTo(i)) /\ Cardinality(upTo(i)) \in 1 .. m
  <2> SUFFICES ASSUME NEW i \in stay
               PROVE  IsFiniteSet(upTo(i)) /\ Cardinality(upTo(i)) \in 1 .. m
    OBVIOUS
  <2>1. IsFiniteSet(upTo(i)) /\ Cardinality(upTo(i)) <= m BY <1>2, FS_Subset
  <2>2. Cardinality(upTo(i)) \in Nat BY <2>1, FS_CardinalityType
  <2>3. i \in upTo(i) OBVIOUS
  <2>4. Cardinality(upTo(i)) # 0 BY <2>1, <2>3, FS_EmptySet
  <2>5. QED BY <1>2, <2>1, <2>2, <2>4
<1>4. \A i, j \in stay : i < j => rank[i] # rank[j]
  <2> SUFFICES ASSUME NEW i \in stay, NEW j \in stay, i < j
               PROVE  rank[i] # rank[j]
    OBVIOUS
  <2>1. upTo(i) \subseteq upTo(j)
    <3>1. \A k \in stay : k \in Nat OBVIOUS
    <3>2. \A k \in stay : k <= i => k <= j BY <3>1
    <3>3. QED BY <3>2
  <2>2. j \in upTo(j) /\ j \notin upTo(i) OBVIOUS
  <2>3. Cardinality(upTo(i)) < Cardinality(upTo(j))
    BY <1>3, <2>1, <2>2, FS_Subset
  <2>4. QED BY <1>3, <2>3
<1>5. rank \in Injection(stay, 1 .. m)
  <2>1. rank \in [stay -> 1 .. m] BY <1>3
  <2>2. \A i, j \in stay : rank[i] = rank[j] => i = j BY <1>4
  <2>3. QED BY <2>1, <2>2 DEF Injection, IsInjective
<1>6. IsFiniteSet(1 .. m) /\ Cardinality(1 .. m) = m BY <1>2, FS_Interval
<1>7. rank \in Surjection(stay, 1 .. m) BY <1>2, <1>5, <1>6, FS_Injection
<1>8. \A k \in 1 .. m : \E i \in stay : Cardinality(upTo(i)) = k BY <1>7 DEF Surjection
<1>9. \A k \in 1 .. m : Nth(stay, k) \in stay /\ Cardinality(upTo(Nth(stay, k))) = k
  BY <1>8 DEF Nth
<1>10. QED BY <1>2, <1>9

\* What is sifted: some of the entries, each once.
LEMMA SiftedIs ==
  ASSUME NEW E, NEW c \in Seq(E), NEW stay \in SUBSET DOMAIN c
  PROVE  /\ Sifted(c, stay) \in Seq(E)
         /\ Len(Sifted(c, stay)) = Cardinality(stay) /\ Len(Sifted(c, stay)) <= Len(c)
         /\ \A k \in DOMAIN Sifted(c, stay) : \E i \in stay : Sifted(c, stay)[k] = c[i]
         /\ OneEach(c) => OneEach(Sifted(c, stay))
<1> DEFINE m == Cardinality(stay)
           s == Sifted(c, stay)
<1>1. Len(c) \in Nat /\ DOMAIN c = 1 .. Len(c) /\ (\A i \in DOMAIN c : c[i] \in E)
  BY LenProperties, ElementOfSeq
<1>2. /\ m \in Nat /\ m <= Len(c)
      /\ \A k \in 1 .. m : Nth(stay, k) \in stay
      /\ \A k, l \in 1 .. m : Nth(stay, k) = Nth(stay, l) => k = l
  BY <1>1, NthIs
<1>3. s = [k \in 1 .. m |-> c[Nth(stay, k)]] BY DEF Sifted
<1>4. s \in [1 .. m -> E] BY <1>1, <1>2, <1>3
<1>5. s \in Seq(E) /\ Len(s) = m
  BY <1>2, <1>4, LenProperties
<1>6. \A k \in 1 .. m : \E i \in stay : s[k] = c[i] BY <1>2, <1>3
<1>7. ASSUME OneEach(c) PROVE OneEach(s)
  <2> SUFFICES ASSUME NEW k \in 1 .. m, NEW l \in 1 .. m, s[k].key = s[l].key
               PROVE  k = l
    BY <1>3 DEF OneEach
  <2>1. c[Nth(stay, k)].key = c[Nth(stay, l)].key BY <1>3
  <2>2. Nth(stay, k) = Nth(stay, l) BY <1>2, <1>7, <2>1 DEF OneEach
  <2>3. QED BY <1>2, <2>2
<1>8. DOMAIN s = 1 .. m BY <1>3
<1>9. QED BY <1>2, <1>5, <1>6, <1>7, <1>8

\* delete.
LEMMA WithoutIs ==
  ASSUME NEW E, NEW c \in Seq(E), NEW keys
  PROVE  /\ Without(c, keys) \in Seq(E) /\ Len(Without(c, keys)) <= Len(c)
         /\ \A k \in DOMAIN Without(c, keys) :
              /\ Without(c, keys)[k].key \notin keys
              /\ \E i \in DOMAIN c : Without(c, keys)[k] = c[i]
         /\ OneEach(c) => OneEach(Without(c, keys))
<1> DEFINE stay == {i \in DOMAIN c : c[i].key \notin keys}
<1>1. stay \in SUBSET DOMAIN c OBVIOUS
<1>2. Without(c, keys) = Sifted(c, stay) BY DEF Without
<1> HIDE DEF stay
<1>3. /\ Sifted(c, stay) \in Seq(E) /\ Len(Sifted(c, stay)) <= Len(c)
      /\ \A k \in DOMAIN Sifted(c, stay) : \E i \in stay : Sifted(c, stay)[k] = c[i]
      /\ OneEach(c) => OneEach(Sifted(c, stay))
  BY <1>1, SiftedIs
<1>4. QED BY <1>2, <1>3 DEF stay

\* get: an entry moves, none is lost.
LEMMA MovedIs ==
  ASSUME NEW E, NEW c \in Seq(E), NEW key, At(c, key) # {}
  PROVE  /\ MovedToEnd(c, key) \in Seq(E) /\ Len(MovedToEnd(c, key)) <= Len(c)
         /\ \A k \in DOMAIN MovedToEnd(c, key) :
              \E i \in DOMAIN c : MovedToEnd(c, key)[k] = c[i]
         /\ OneEach(c) => OneEach(MovedToEnd(c, key))
<1> DEFINE w == Without(c, {key})
           stay == {i \in DOMAIN c : c[i].key \notin {key}}
           e == EntryOf(c, key)
           m == MovedToEnd(c, key)
<1>1. PICK at \in DOMAIN c : c[at].key = key /\ e = c[at]
  BY DEF At, EntryOf
<1>2. Len(c) \in Nat /\ DOMAIN c = 1 .. Len(c) /\ e \in E
  BY <1>1, LenProperties, ElementOfSeq
<1>3. /\ w \in Seq(E)
      /\ \A k \in DOMAIN w : w[k].key # key /\ \E i \in DOMAIN c : w[k] = c[i]
      /\ OneEach(c) => OneEach(w)
  <2> DEFINE keys == {key}
  <2>1. w = Without(c, keys) OBVIOUS
  <2> HIDE DEF w, keys
  <2>2. /\ w \in Seq(E)
        /\ \A k \in DOMAIN w : w[k].key \notin keys /\ \E i \in DOMAIN c : w[k] = c[i]
        /\ OneEach(c) => OneEach(w)
    BY <2>1, WithoutIs
  <2>3. QED BY <2>2 DEF keys
<1>4. Len(w) = Cardinality(stay) BY SiftedIs DEF Without
<1>5. Cardinality(stay) + 1 <= Len(c)
  <2>1. stay \in SUBSET (1 .. Len(c)) /\ at \in 1 .. Len(c) /\ at \notin stay BY <1>1, <1>2
  <2> DEFINE n == Len(c)
             more == stay \cup {at}
  <2> HIDE DEF n, stay
  <2>2. n \in Nat /\ stay \in SUBSET (1 .. n) /\ more \in SUBSET (1 .. n) /\ at \notin stay
    BY <1>2, <2>1 DEF n
  <2>3. IsFiniteSet(stay) /\ Cardinality(stay) \in Nat BY <2>2, NthIs
  <2>4. Cardinality(more) = Cardinality(stay) + 1 BY <2>2, <2>3, FS_AddElement
  <2>5. Cardinality(more) <= n BY <2>2, NthIs
  <2>6. QED BY <2>4, <2>5 DEF n
<1>6. m = Append(w, e) BY DEF MovedToEnd
<1>7. Len(w) \in Nat /\ DOMAIN w = 1 .. Len(w) BY <1>3, LenProperties
<1> HIDE DEF w, e, m, stay
<1>8. /\ m \in Seq(E) /\ Len(m) = Len(w) + 1
      /\ \A k \in 1 .. Len(w) : m[k] = w[k]
      /\ m[Len(w) + 1] = e
  BY <1>2, <1>3, <1>6, AppendProperties
<1>9. DOMAIN m = 1 .. Len(w) + 1 BY <1>7, <1>8, LenProperties
<1>10. \A k \in DOMAIN m : k \in 1 .. Len(w) \/ k = Len(w) + 1 BY <1>7, <1>9
<1>11. \A k \in DOMAIN m : \E i \in DOMAIN c : m[k] = c[i]
  BY <1>1, <1>3, <1>7, <1>8, <1>10
<1>12. ASSUME OneEach(c) PROVE OneEach(m)
  <2> SUFFICES ASSUME NEW k \in DOMAIN m, NEW l \in DOMAIN m, m[k].key = m[l].key
               PROVE  k = l
    BY DEF OneEach
  <2>1. e.key = key BY <1>1
  <2>2. CASE k \in 1 .. Len(w) /\ l \in 1 .. Len(w)
    BY <1>3, <1>7, <1>8, <1>12, <2>2 DEF OneEach
  <2>3. CASE k = Len(w) + 1 /\ l \in 1 .. Len(w) BY <1>3, <1>7, <1>8, <2>1, <2>3
  <2>4. CASE k \in 1 .. Len(w) /\ l = Len(w) + 1 BY <1>3, <1>7, <1>8, <2>1, <2>4
  <2>5. QED BY <1>10, <2>2, <2>3, <2>4
<1>13. QED BY <1>4, <1>5, <1>7, <1>8, <1>11, <1>12 DEF m

\* set: the oldest goes at capacity, then the new entry comes.
LEMMA RoomIs ==
  ASSUME NEW E, NEW c \in Seq(E), NEW max \in Nat \ {0}, Len(c) <= max
  PROVE  /\ Room(c, max) \in Seq(E) /\ Len(Room(c, max)) < max
         /\ \A k \in DOMAIN Room(c, max) : \E i \in DOMAIN c : Room(c, max)[k] = c[i]
         /\ OneEach(c) => OneEach(Room(c, max))
<1> DEFINE r == Room(c, max)
<1>1. Len(c) \in Nat /\ DOMAIN c = 1 .. Len(c) BY LenProperties
<1>2. CASE Len(c) >= max
  <2>1. r = Tail(c) /\ c # <<>> BY <1>1, <1>2, EmptySeq DEF Room
  <2>2. /\ r \in Seq(E) /\ Len(r) = Len(c) - 1
        /\ \A i \in 1 .. Len(r) : r[i] = c[i + 1]
    BY <1>1, <2>1, HeadTailProperties
  <2>3. DOMAIN r = 1 .. Len(r) /\ Len(r) \in Nat BY <2>2, LenProperties
  <2> HIDE DEF r
  <2>4. \A k \in DOMAIN r : k + 1 \in DOMAIN c BY <1>1, <2>2, <2>3
  <2>5. OneEach(c) => OneEach(r)
    <3> SUFFICES ASSUME OneEach(c), NEW k \in DOMAIN r, NEW l \in DOMAIN r, r[k].key = r[l].key
                 PROVE  k = l
      BY DEF OneEach
    <3>1. k + 1 = l + 1 BY <2>2, <2>3, <2>4 DEF OneEach
    <3>2. QED BY <2>3, <3>1
  <2>6. QED BY <1>1, <1>2, <2>2, <2>3, <2>4, <2>5 DEF r
<1>3. CASE ~(Len(c) >= max) BY <1>1, <1>3 DEF Room
<1>4. QED BY <1>2, <1>3

\* w has the entry e, and of the others only what c had.
Entered(w, c, e) ==
  \A k \in DOMAIN w : w[k] = e \/ \E i \in DOMAIN c : w[k] = c[i] /\ c[i].key # e.key

LEMMA WithEntryIs ==
  ASSUME NEW E, NEW c \in Seq(E), NEW max \in Nat, Len(c) < max, NEW e \in E
  PROVE  /\ WithEntry(c, e) \in Seq(E) /\ Len(WithEntry(c, e)) <= max
         /\ Entered(WithEntry(c, e), c, e)
         /\ OneEach(c) => OneEach(WithEntry(c, e))
<1> DEFINE w == WithEntry(c, e)
<1>1. Len(c) \in Nat /\ DOMAIN c = 1 .. Len(c) /\ (\A i \in DOMAIN c : c[i] \in E)
  BY LenProperties, ElementOfSeq
<1>2. CASE At(c, e.key) = {}
  <2>1. w = Append(c, e) BY <1>2 DEF WithEntry
  <2>2. /\ w \in Seq(E) /\ Len(w) = Len(c) + 1
        /\ \A k \in 1 .. Len(c) : w[k] = c[k]
        /\ w[Len(c) + 1] = e
    BY <2>1, AppendProperties
  <2>3. DOMAIN w = 1 .. Len(c) + 1 BY <1>1, <2>2, LenProperties
  <2> HIDE DEF w
  <2>4. \A k \in DOMAIN w : k \in 1 .. Len(c) \/ k = Len(c) + 1 BY <1>1, <2>3
  <2>5. \A i \in DOMAIN c : c[i].key # e.key BY <1>2 DEF At
  <2>6. Entered(w, c, e) BY <1>1, <2>2, <2>4, <2>5 DEF Entered
  <2>7. ASSUME OneEach(c) PROVE OneEach(w)
    <3> SUFFICES ASSUME NEW k \in DOMAIN w, NEW l \in DOMAIN w, w[k].key = w[l].key
                 PROVE  k = l
      BY DEF OneEach
    <3>1. CASE k \in 1 .. Len(c) /\ l \in 1 .. Len(c)
      BY <1>1, <2>2, <2>7, <3>1 DEF OneEach
    <3>2. CASE k = Len(c) + 1 /\ l \in 1 .. Len(c) BY <1>1, <2>2, <2>5, <3>2
    <3>3. CASE k \in 1 .. Len(c) /\ l = Len(c) + 1 BY <1>1, <2>2, <2>5, <3>3
    <3>4. QED BY <2>4, <3>1, <3>2, <3>3
  <2>8. QED BY <1>1, <2>2, <2>6, <2>7 DEF w
<1>3. CASE At(c, e.key) # {}
  <2> DEFINE at == At(c, e.key)
  <2>1. w = [i \in 1 .. Len(c) |-> IF i \in at THEN e ELSE c[i]]
    BY <1>1, <1>3 DEF WithEntry
  <2>2. w \in [1 .. Len(c) -> E] BY <1>1, <2>1
  <2>3. w \in Seq(E) /\ Len(w) = Len(c) BY <1>1, <2>2, LenProperties
  <2>4. \A i \in DOMAIN c : i \in at <=> c[i].key = e.key BY DEF At
  <2>5. DOMAIN w = DOMAIN c BY <1>1, <2>1
  <2>6. \A k \in DOMAIN w : w[k] = (IF k \in at THEN e ELSE c[k]) BY <1>1, <2>1, <2>5
  <2> HIDE DEF w, at
  <2>7. ASSUME NEW k \in DOMAIN w
        PROVE  /\ w[k] = e \/ (w[k] = c[k] /\ c[k].key # e.key)
               /\ w[k].key = c[k].key
    <3>1. CASE k \in at
      <4>1. w[k] = e BY <2>6, <3>1
      <4>2. e.key = c[k].key BY <2>4, <2>5, <3>1
      <4>3. QED BY <4>1, <4>2
    <3>2. CASE k \notin at
      <4>1. w[k] = c[k] BY <2>6, <3>2
      <4>2. e.key # c[k].key BY <2>4, <2>5, <3>2
      <4>3. QED BY <4>1, <4>2
    <3>3. QED BY <3>1, <3>2
  <2>8. OneEach(c) => OneEach(w) BY <2>5, <2>7 DEF OneEach
  <2>9. Entered(w, c, e) BY <2>5, <2>7 DEF Entered
  <2>10. QED BY <1>1, <2>3, <2>8, <2>9 DEF w
<1>4. QED BY <1>2, <1>3

-----------------------------------------------------------------------------
(* The cached storage.                                                     *)

\* What is stored of a kind.
CachedValues == SUBSET (CachedStates \cup CachedFields \cup {"kept", "missing"})
CacheEntries == [key : CacheKeys, value : CachedValues, left : Nat]
Kinds == {"state", "data"}
CallType(s) ==
  LET op == call[s].op IN
  /\ op \in {"idle", "get", "setState", "setData", "setSession", "deleteSession"}
  /\ op = "idle" => call[s] = Idle
  /\ op = "get" => call[s] \in [op : {"get"}, key : Kinds \X {s}, value : CachedValues]
  /\ op \in {"setState", "setData", "deleteSession"} =>
       call[s] \in [op : {op}, value : CachedValues, took : BOOLEAN]
  /\ op = "setSession" =>
       call[s] \in [op : {op}, value : CachedValues \X CachedValues, took : BOOLEAN]

CacheTypes ==
  /\ cache \in Seq(CacheEntries)
  /\ stored \in [CacheKeys -> CachedValues]
  /\ call = [s \in CachedSessions |-> call[s]]
  /\ \A s \in CachedSessions : CallType(s)
  /\ lost \subseteq CachedSessions

\* What a write has changed in the storage and will put right in the cache
\* when it returns.
Unsettled(s) ==
  IF call[s].op \in {"idle", "get"} \/ ~call[s].took THEN {}
  ELSE CASE call[s].op = "setState" -> {"state"} [] call[s].op = "setData" -> {"data"}
         [] OTHER -> Kinds

\* A cached value is the stored one but while a write settles; what a read
\* has got, and what a write of a state has left, is in the storage.
EntriesCurrent(s) ==
  \A i \in DOMAIN cache, kind \in Kinds \ Unsettled(s) :
    cache[i].key = <<kind, s>> => cache[i].value = stored[<<kind, s>>]
CallCurrent(s) ==
  /\ call[s].op = "get" => call[s].value = stored[call[s].key]
  /\ call[s].op = "setState" /\ call[s].took => call[s].value = stored[<<"state", s>>]

CacheInv ==
  /\ CacheTypes /\ Len(cache) <= MaxSize /\ OneEach(cache)
  /\ \A s \in CachedSessions \ lost : EntriesCurrent(s) /\ CallCurrent(s)

\* An entry that was there before, perhaps with more life left.
Came(k) ==
  \E i \in DOMAIN cache : cache'[k].key = cache[i].key /\ cache'[k].value = cache[i].value

\* What the cache is after a step.
Kept == cache' \in Seq(CacheEntries) /\ Len(cache') <= MaxSize /\ OneEach(cache')

LEMMA CacheStarts == CacheInit => CacheInv
<1> SUFFICES ASSUME CacheInit PROVE CacheInv OBVIOUS
<1>1. cache = <<>> /\ Len(cache) = 0 /\ DOMAIN cache = {} /\ cache \in Seq(CacheEntries)
  BY EmptySeq DEF CacheInit
<1>2. CacheTypes
  <2>1. stored \in [CacheKeys -> CachedValues] BY DEF CacheInit, Missing, CachedValues
  <2>2. \A s \in CachedSessions : CallType(s) BY DEF CacheInit, CallType, Idle
  <2>3. QED BY <1>1, <2>1, <2>2 DEF CacheInit, CacheTypes
<1>3. \A s \in CachedSessions : EntriesCurrent(s) /\ CallCurrent(s)
  BY <1>1 DEF CacheInit, EntriesCurrent, CallCurrent, Idle
<1>4. QED BY <1>1, <1>2, <1>3, CacheAssumption DEF CacheInv, OneEach

\* A step of the cache alone.
LEMMA CacheAlone ==
  ASSUME CacheInv, Kept, \A k \in DOMAIN cache' : Came(k), UNCHANGED <<stored, call, lost>>
  PROVE  CacheInv'
<1>1. CacheTypes' BY DEF CacheInv, CacheTypes, Kept, CallType
<1>2. ASSUME NEW s \in CachedSessions \ lost
      PROVE  EntriesCurrent(s)' /\ CallCurrent(s)'
  <2>1. EntriesCurrent(s) /\ CallCurrent(s) BY DEF CacheInv
  <2>2. Unsettled(s)' = Unsettled(s) BY DEF Unsettled
  <2>3. CallCurrent(s)' BY <2>1 DEF CallCurrent
  <2>4. EntriesCurrent(s)' BY <2>1, <2>2 DEF EntriesCurrent, Came
  <2>5. QED BY <2>3, <2>4
<1>3. QED BY <1>1, <1>2 DEF CacheInv, Kept

\* A step of one session leaves what is so of the others.
LEMMA OthersStay ==
  ASSUME CacheInv, NEW s \in CachedSessions, Kept,
         \A k \in DOMAIN cache' : Came(k) \/ \E kind \in Kinds : cache'[k].key = <<kind, s>>,
         stored' \in [CacheKeys -> CachedValues],
         \A kind \in Kinds, r \in CachedSessions \ {s} : stored'[<<kind, r>>] = stored[<<kind, r>>],
         call' = [r \in CachedSessions |-> IF r = s THEN call'[s] ELSE call[r]],
         CallType(s)', lost' \in {lost, lost \cup {s}},
         s \notin lost' => EntriesCurrent(s)' /\ CallCurrent(s)'
  PROVE  CacheInv'
<1>1. \A r \in CachedSessions \ {s} : call'[r] = call[r] OBVIOUS
<1>2. CacheTypes'
  <2>1. ASSUME NEW r \in CachedSessions PROVE CallType(r)'
    <3>1. CASE r = s BY <3>1
    <3>2. CASE r # s
      <4>1. CallType(r) /\ call'[r] = call[r] BY <1>1, <3>2 DEF CacheInv, CacheTypes
      <4>2. QED BY <4>1 DEF CallType
    <3>3. QED BY <3>1, <3>2
  <2>2. call' = [r \in CachedSessions |-> call'[r]] OBVIOUS
  <2>3. lost' \subseteq CachedSessions BY DEF CacheInv, CacheTypes
  <2>4. QED BY <2>1, <2>2, <2>3 DEF CacheTypes, Kept
<1>3. ASSUME NEW r \in CachedSessions \ lost', r # s
      PROVE  EntriesCurrent(r)' /\ CallCurrent(r)'
  <2>1. r \in CachedSessions \ lost /\ call'[r] = call[r] BY <1>1, <1>3
  <2>2. EntriesCurrent(r) /\ CallCurrent(r) /\ CallType(r)
    BY <2>1 DEF CacheInv, CacheTypes
  <2>3. \A kind \in Kinds : stored'[<<kind, r>>] = stored[<<kind, r>>] BY <1>3, <2>1
  <2>4. Unsettled(r)' = Unsettled(r) BY <2>1 DEF Unsettled
  <2>5. EntriesCurrent(r)'
    <3> SUFFICES ASSUME NEW k \in DOMAIN cache', NEW kind \in Kinds \ Unsettled(r),
                        cache'[k].key = <<kind, r>>
                 PROVE  cache'[k].value = stored'[<<kind, r>>]
      BY <2>4 DEF EntriesCurrent
    <3>1. Came(k) BY <1>3
    <3>2. PICK i \in DOMAIN cache : cache'[k].key = cache[i].key /\ cache'[k].value = cache[i].value
      BY <3>1 DEF Came
    <3>3. cache[i].value = stored[<<kind, r>>] BY <2>2, <3>2 DEF EntriesCurrent
    <3>4. QED BY <2>3, <3>2, <3>3
  <2>6. CallCurrent(r)'
    <3>1. ASSUME call[r].op = "get" PROVE stored'[call[r].key] = stored[call[r].key]
      <4>1. call[r].key \in Kinds \X {r} BY <2>2, <3>1 DEF CallType
      <4>2. PICK kind \in Kinds : call[r].key = <<kind, r>> BY <4>1
      <4>3. QED BY <2>3, <4>2
    <3>2. stored'[<<"state", r>>] = stored[<<"state", r>>] BY <2>3 DEF Kinds
    <3>3. QED BY <2>1, <2>2, <3>1, <3>2 DEF CallCurrent
  <2>7. QED BY <2>5, <2>6
<1>4. QED BY <1>2, <1>3 DEF CacheInv, Kept

\* The cache as it was is kept.
LEMMA Unchanged == CacheInv /\ cache' = cache => Kept /\ \A k \in DOMAIN cache' : Came(k)
BY DEF CacheInv, CacheTypes, Kept, Came

\* What is left after a delete.
LEMMA Deleted ==
  ASSUME CacheInv, NEW keys, CacheDelete(keys)
  PROVE  Kept /\ \A k \in DOMAIN cache' : Came(k) /\ cache'[k].key \notin keys
<1>1. cache \in Seq(CacheEntries) /\ Len(cache) <= MaxSize /\ OneEach(cache)
  BY DEF CacheInv, CacheTypes
<1>2. cache' = Without(cache, keys) BY DEF CacheDelete
<1>3. /\ cache' \in Seq(CacheEntries) /\ Len(cache') <= Len(cache) /\ OneEach(cache')
      /\ \A k \in DOMAIN cache' : cache'[k].key \notin keys /\ \E i \in DOMAIN cache : cache'[k] = cache[i]
  BY <1>1, <1>2, WithoutIs
<1>4. Len(cache) \in Nat /\ Len(cache') \in Nat BY <1>1, <1>3, LenProperties
<1>5. QED BY <1>1, <1>3, <1>4, CacheAssumption DEF Kept, Came

\* What a set leaves: one entry for the key, with the value, and others that
\* were there.
LEMMA WasSet ==
  ASSUME CacheInv, NEW key \in CacheKeys, NEW value \in CachedValues, CacheSet(key, value)
  PROVE  /\ Kept
         /\ \A k \in DOMAIN cache' :
              \/ cache'[k].key = key /\ cache'[k].value = value
              \/ Came(k) /\ cache'[k].key # key
<1> DEFINE room == Room(cache, MaxSize)
           e == Entry(key, value)
<1>1. cache \in Seq(CacheEntries) /\ Len(cache) <= MaxSize /\ OneEach(cache)
  BY DEF CacheInv, CacheTypes
<1>2. /\ room \in Seq(CacheEntries) /\ Len(room) < MaxSize /\ OneEach(room)
      /\ \A k \in DOMAIN room : \E i \in DOMAIN cache : room[k] = cache[i]
  BY <1>1, RoomIs, CacheAssumption
<1>3. e \in CacheEntries /\ e.key = key /\ e.value = value
  BY CacheAssumption DEF Entry, CacheEntries
<1>4. cache' = WithEntry(room, e) /\ MaxSize \in Nat BY CacheAssumption DEF CacheSet
<1> HIDE DEF room, e
<1>5. /\ cache' \in Seq(CacheEntries) /\ Len(cache') <= MaxSize /\ OneEach(cache')
      /\ Entered(cache', room, e)
  BY <1>2, <1>3, <1>4, WithEntryIs
<1>6. ASSUME NEW k \in DOMAIN cache', cache'[k] # e
      PROVE  Came(k) /\ cache'[k].key # key
  <2>1. PICK i \in DOMAIN room : cache'[k] = room[i] /\ room[i].key # e.key
    BY <1>5, <1>6 DEF Entered
  <2>2. QED BY <1>2, <1>3, <2>1 DEF Came
<1>7. QED BY <1>3, <1>5, <1>6 DEF Kept

LEMMA KeysOf ==
  ASSUME NEW s \in CachedSessions, NEW kind \in Kinds
  PROVE  <<kind, s>> \in CacheKeys
BY DEF Kinds, CacheKeys

\* The call of a session that is followed, and what is so of it.
LEMMA Followed ==
  ASSUME CacheInv, NEW s \in CachedSessions \ lost
  PROVE  /\ EntriesCurrent(s) /\ CallCurrent(s) /\ CallType(s)
         /\ cache \in Seq(CacheEntries) /\ Len(cache) <= MaxSize /\ OneEach(cache)
         /\ stored \in [CacheKeys -> CachedValues]
         /\ call = [r \in CachedSessions |-> call[r]]
BY DEF CacheInv, CacheTypes

\* Reads.
LEMMA GetKeeps ==
  ASSUME CacheInv, NEW s \in CachedSessions \ lost, NEW kind \in Kinds, Get(s, kind)
  PROVE  CacheInv'
<1> DEFINE key == <<kind, s>>
<1>1. key \in CacheKeys /\ call[s] = Idle /\ UNCHANGED <<stored, lost>> BY KeysOf DEF Get
<1>2. CASE Hit(key)
  <2>1. cache' = MovedToEnd(cache, key) /\ UNCHANGED call BY <1>2 DEF Get
  <2>2. At(cache, key) # {} BY <1>2 DEF Hit
  <2> HIDE DEF key
  <2>3. cache \in Seq(CacheEntries) /\ Len(cache) <= MaxSize /\ OneEach(cache)
    BY Followed
  <2>4. /\ cache' \in Seq(CacheEntries) /\ Len(cache') <= Len(cache) /\ OneEach(cache')
        /\ \A k \in DOMAIN cache' : \E i \in DOMAIN cache : cache'[k] = cache[i]
    BY <2>1, <2>2, <2>3, MovedIs
  <2>5. Len(cache) \in Nat /\ Len(cache') \in Nat BY <2>3, <2>4, LenProperties
  <2>6. Kept /\ \A k \in DOMAIN cache' : Came(k)
    BY <2>3, <2>4, <2>5, CacheAssumption DEF Kept, Came
  <2>7. QED BY <1>1, <2>1, <2>6, CacheAlone
<1>3. CASE ~Hit(key)
  <2>1. /\ CacheDelete({key})
        /\ call' = [call EXCEPT ![s] = [op |-> "get", key |-> key, value |-> stored[key]]]
    BY <1>3 DEF Get
  <2>2. Kept /\ \A k \in DOMAIN cache' : Came(k) BY <2>1, Deleted
  <2>3. /\ call' = [r \in CachedSessions |-> IF r = s THEN call'[s] ELSE call[r]]
        /\ call'[s] = [op |-> "get", key |-> key, value |-> stored[key]]
    BY <2>1, Followed
  <2>4. stored' \in [CacheKeys -> CachedValues] BY <1>1, Followed
  <2>5. CallType(s)' BY <1>1, <2>3, <2>4 DEF CallType
  <2>6. Unsettled(s) = {} /\ Unsettled(s)' = {} BY <1>1, <2>3 DEF Unsettled, Idle
  <2>7. EntriesCurrent(s)'
    BY <1>1, <2>2, <2>6, Followed DEF EntriesCurrent, Came
  <2>8. CallCurrent(s)' BY <1>1, <2>3 DEF CallCurrent
  <2>9. QED BY <1>1, <2>2, <2>3, <2>4, <2>5, <2>7, <2>8, OthersStay
<1>4. QED BY <1>2, <1>3

LEMMA FillKeeps ==
  ASSUME CacheInv, NEW s \in CachedSessions \ lost, Fill(s)
  PROVE  CacheInv'
<1> DEFINE key == call[s].key
<1>1. /\ call[s].op = "get" /\ UNCHANGED <<stored, lost>>
      /\ call' = [call EXCEPT ![s] = Idle]
  BY DEF Fill
<1>2. /\ \E kind \in Kinds : key = <<kind, s>>
      /\ call[s].value \in CachedValues /\ call[s].value = stored[key]
  <2>1. key \in Kinds \X {s} /\ call[s].value \in CachedValues
    BY <1>1, Followed DEF CallType
  <2>2. call[s].value = stored[key] BY <1>1, Followed DEF CallCurrent
  <2>3. QED BY <2>1, <2>2
<1>3. key \in CacheKeys BY <1>2, KeysOf
<1>4. call' = [r \in CachedSessions |-> IF r = s THEN call'[s] ELSE call[r]] /\ call'[s] = Idle
  BY <1>1, Followed
<1>5. CallType(s)' /\ CallCurrent(s)' /\ Unsettled(s)' = {}
  BY <1>4 DEF CallType, CallCurrent, Unsettled, Idle
<1>6. Unsettled(s) = {} BY <1>1 DEF Unsettled
<1> HIDE DEF key
<1>7. /\ Kept
      /\ \A k \in DOMAIN cache' :
           \/ cache'[k].key = key /\ cache'[k].value = stored[key]
           \/ Came(k)
  <2>1. CASE call[s].value # Missing
    <3>1. CacheSet(key, stored[key]) BY <1>2, <2>1 DEF Fill, key
    <3>2. QED BY <1>2, <1>3, <3>1, WasSet
  <2>2. CASE call[s].value = Missing BY <2>2, Unchanged DEF Fill
  <2>3. QED BY <2>1, <2>2
<1>8. EntriesCurrent(s)'
  <2> SUFFICES ASSUME NEW k \in DOMAIN cache', NEW kind \in Kinds, cache'[k].key = <<kind, s>>
               PROVE  cache'[k].value = stored[<<kind, s>>]
    BY <1>1, <1>5 DEF EntriesCurrent
  <2>1. CASE Came(k)
    BY <1>6, <2>1, Followed DEF Came, EntriesCurrent
  <2>2. CASE ~Came(k) BY <1>7, <2>2
  <2>3. QED BY <2>1, <2>2
<1>9. stored' \in [CacheKeys -> CachedValues] BY <1>1, Followed
<1>10. QED BY <1>1, <1>2, <1>4, <1>5, <1>7, <1>8, <1>9, OthersStay

\* Writes.
Writing(s) == call[s].op \in {"setState", "setData", "setSession", "deleteSession"}

LEMMA AskKeeps ==
  ASSUME CacheInv, NEW s \in CachedSessions \ lost,
         NEW op \in {"setState", "setData", "setSession", "deleteSession"}, NEW value, Ask(s, op, value),
         IF op = "setSession" THEN value \in CachedValues \X CachedValues ELSE value \in CachedValues
  PROVE  CacheInv'
<1>1. /\ call[s] = Idle /\ UNCHANGED <<cache, stored, lost>>
      /\ call' = [call EXCEPT ![s] = [op |-> op, value |-> value, took |-> FALSE]]
  BY DEF Ask
<1>2. /\ call' = [r \in CachedSessions |-> IF r = s THEN call'[s] ELSE call[r]]
      /\ call'[s] = [op |-> op, value |-> value, took |-> FALSE]
  BY <1>1, Followed
<1>3. CallType(s)' BY <1>2 DEF CallType
<1>4. Unsettled(s) = {} /\ Unsettled(s)' = {} BY <1>1, <1>2 DEF Unsettled, Idle
<1>5. EntriesCurrent(s)' BY <1>1, <1>4, Followed DEF EntriesCurrent
<1>6. CallCurrent(s)' BY <1>2 DEF CallCurrent
<1>7. Kept /\ \A k \in DOMAIN cache' : Came(k) BY <1>1, Unchanged
<1>8. stored' \in [CacheKeys -> CachedValues] BY <1>1, Followed
<1>9. QED BY <1>1, <1>2, <1>3, <1>5, <1>6, <1>7, <1>8, OthersStay

\* The effect changes no more than is unsettled from then on.
LEMMA EffectKeeps ==
  ASSUME CacheInv, NEW s \in CachedSessions \ lost, Effect(s)
  PROVE  CacheInv'
<1> DEFINE op == call[s].op
           value == call[s].value
           state == <<"state", s>>
           data == <<"data", s>>
           newState == CASE op = "setState" -> value [] op = "setSession" -> value[1]
                         [] op = "deleteSession" -> Missing [] OTHER -> stored[state]
           newData == CASE op = "setData" -> Merged(stored[data], value)
                        [] op = "setSession" -> value[2]
                        [] op = "deleteSession" -> Missing [] OTHER -> stored[data]
<1>1. Writing(s) /\ ~call[s].took /\ UNCHANGED <<cache, lost>>
      /\ call' = [call EXCEPT ![s].took = TRUE]
  BY DEF Effect, Writing
<1>2. state \in CacheKeys /\ data \in CacheKeys /\ state # data BY KeysOf DEF Kinds
<1>3. stored \in [CacheKeys -> CachedValues] /\ CallType(s) BY Followed
<1>4. stored' = [stored EXCEPT ![state] = newState, ![data] = newData]
  BY <1>2, <1>3 DEF Effect
<1>5. newState \in CachedValues /\ newData \in CachedValues
  <2>1. Missing \in CachedValues BY DEF Missing, CachedValues
  <2>2. /\ op \in {"setState", "setData", "deleteSession"} => value \in CachedValues
        /\ op = "setSession" => value[1] \in CachedValues /\ value[2] \in CachedValues
    BY <1>3 DEF CallType
  <2>3. stored[state] \in CachedValues /\ stored[data] \in CachedValues BY <1>2, <1>3
  <2>4. op = "setData" => Merged(stored[data], value) \in CachedValues
    BY <2>2, <2>3 DEF Merged, CachedValues
  <2>5. QED BY <2>1, <2>2, <2>3, <2>4
<1> HIDE DEF newState, newData
<1>6. stored' \in [CacheKeys -> CachedValues] BY <1>3, <1>4, <1>5
<1>7. \A kind \in Kinds, r \in CachedSessions \ {s} : stored'[<<kind, r>>] = stored[<<kind, r>>]
  <2> SUFFICES ASSUME NEW kind \in Kinds, NEW r \in CachedSessions \ {s}
               PROVE  stored'[<<kind, r>>] = stored[<<kind, r>>]
    OBVIOUS
  <2>1. <<kind, r>> # state /\ <<kind, r>> # data /\ <<kind, r>> \in CacheKeys BY KeysOf
  <2>2. QED BY <1>3, <1>4, <2>1
<1>8. stored'[state] = newState /\ stored'[data] = newData BY <1>2, <1>3, <1>4
<1>9. /\ call' = [r \in CachedSessions |-> IF r = s THEN call'[s] ELSE call[r]]
      /\ call'[s] = [call[s] EXCEPT !.took = TRUE]
  BY <1>1, Followed
<1>10. /\ CallType(s)' /\ call'[s].op = op /\ call'[s].took
       /\ (op = "setState" => call'[s].value = value)
  BY <1>1, <1>3, <1>9 DEF CallType, Writing
<1>11. CallCurrent(s)'
  <2>1. call'[s].op # "get" BY <1>1, <1>10 DEF Writing
  <2>2. op = "setState" => newState = value BY DEF newState
  <2>3. QED BY <1>8, <1>10, <2>1, <2>2 DEF CallCurrent
<1>12. Unsettled(s) = {} BY <1>1 DEF Unsettled
<1>13. Unsettled(s)' = (CASE op = "setState" -> {"state"} [] op = "setData" -> {"data"}
                          [] OTHER -> Kinds)
  BY <1>1, <1>10 DEF Unsettled, Writing
<1>14. EntriesCurrent(s)'
  <2> SUFFICES ASSUME NEW k \in DOMAIN cache', NEW kind \in Kinds, kind \notin Unsettled(s)',
                      cache'[k].key = <<kind, s>>
               PROVE  cache'[k].value = stored'[<<kind, s>>]
    BY DEF EntriesCurrent
  <2>1. cache'[k].value = stored[<<kind, s>>]
    BY <1>1, <1>12, Followed DEF EntriesCurrent
  <2>2. CASE op = "setState"
    <3>1. kind = "data" BY <1>13, <2>2 DEF Kinds
    <3>2. newData = stored[data] BY <2>2 DEF newData
    <3>3. QED BY <1>8, <2>1, <3>1, <3>2
  <2>3. CASE op = "setData"
    <3>1. kind = "state" BY <1>13, <2>3 DEF Kinds
    <3>2. newState = stored[state] BY <2>3 DEF newState
    <3>3. QED BY <1>8, <2>1, <3>1, <3>2
  <2>4. CASE op \notin {"setState", "setData"} BY <1>13, <2>4
  <2>5. QED BY <2>2, <2>3, <2>4
<1>15. Kept /\ \A k \in DOMAIN cache' : Came(k) BY <1>1, Unchanged
<1>16. QED BY <1>1, <1>6, <1>7, <1>9, <1>10, <1>11, <1>14, <1>15, OthersStay

\* The return puts right what is unsettled.
LEMMA ReturnedKeeps ==
  ASSUME CacheInv, NEW s \in CachedSessions \ lost, Returned(s)
  PROVE  CacheInv'
<1> DEFINE op == call[s].op
           state == <<"state", s>>
           data == <<"data", s>>
<1>1. /\ Writing(s) /\ call[s].took /\ UNCHANGED <<stored, lost>>
      /\ call' = [call EXCEPT ![s] = Idle] /\ SetReturns(s)
  BY Followed DEF Returned, Writing, CallType
<1>2. state \in CacheKeys /\ data \in CacheKeys BY KeysOf DEF Kinds
<1>3. call' = [r \in CachedSessions |-> IF r = s THEN call'[s] ELSE call[r]] /\ call'[s] = Idle
  BY <1>1, Followed
<1>4. CallType(s)' /\ CallCurrent(s)' /\ Unsettled(s)' = {}
  BY <1>3 DEF CallType, CallCurrent, Unsettled, Idle
<1>5. Unsettled(s) = (CASE op = "setState" -> {"state"} [] op = "setData" -> {"data"}
                        [] OTHER -> Kinds)
  BY <1>1 DEF Unsettled, Writing
<1>6. /\ Kept
      /\ \A k \in DOMAIN cache' :
           \/ Came(k) /\ (\A kind \in Unsettled(s) : cache'[k].key # <<kind, s>>)
           \/ cache'[k].key = state /\ cache'[k].value = stored[state]
  <2>1. CASE op = "setState"
    <3>1. call[s].value = stored[state] /\ call[s].value \in CachedValues
      BY <1>1, <2>1, Followed DEF CallCurrent, CallType
    <3>2. CacheSet(state, stored[state]) BY <1>1, <2>1, <3>1 DEF SetReturns
    <3>3. /\ Kept
          /\ \A k \in DOMAIN cache' :
               \/ cache'[k].key = state /\ cache'[k].value = stored[state]
               \/ Came(k) /\ cache'[k].key # state
      BY <1>2, <3>1, <3>2, WasSet
    <3>4. Unsettled(s) = {"state"} BY <1>5, <2>1
    <3>5. QED BY <3>3, <3>4
  <2>2. CASE op = "setData"
    <3>1. CacheDelete({data}) BY <1>1, <2>2 DEF SetReturns
    <3>2. Kept /\ \A k \in DOMAIN cache' : Came(k) /\ cache'[k].key \notin {data} BY <3>1, Deleted
    <3>3. Unsettled(s) = {"data"} BY <1>5, <2>2
    <3>4. QED BY <3>2, <3>3
  <2>3. CASE op \notin {"setState", "setData"}
    <3>1. CacheDelete({state, data}) BY <1>1, <2>3 DEF SetReturns
    <3>2. Kept /\ \A k \in DOMAIN cache' : Came(k) /\ cache'[k].key \notin {state, data}
      BY <3>1, Deleted
    <3>3. Unsettled(s) = {"state", "data"} BY <1>5, <2>3 DEF Kinds
    <3>4. QED BY <3>2, <3>3
  <2>4. QED BY <2>1, <2>2, <2>3
<1>7. EntriesCurrent(s)'
  <2> SUFFICES ASSUME NEW k \in DOMAIN cache', NEW kind \in Kinds, cache'[k].key = <<kind, s>>
               PROVE  cache'[k].value = stored[<<kind, s>>]
    BY <1>1, <1>4 DEF EntriesCurrent
  <2>1. CASE Came(k) /\ kind \notin Unsettled(s)
    BY <2>1, Followed DEF Came, EntriesCurrent
  <2>2. CASE ~(Came(k) /\ kind \notin Unsettled(s)) BY <1>6, <2>2
  <2>3. QED BY <2>1, <2>2
<1>8. stored' \in [CacheKeys -> CachedValues] BY <1>1, Followed
<1>9. \A k \in DOMAIN cache' : Came(k) \/ \E kind \in Kinds : cache'[k].key = <<kind, s>>
  BY <1>6 DEF Kinds
<1>10. QED BY <1>1, <1>3, <1>4, <1>6, <1>7, <1>8, <1>9, OthersStay

\* A failure or an expiry ends what is claimed of the session.
LEMMA LostKeeps ==
  ASSUME CacheInv, NEW s \in CachedSessions \ lost, Failed(s) \/ StorageExpires(s)
  PROVE  CacheInv'
<1>1. cache' = cache /\ lost' = lost \cup {s} BY DEF Failed, StorageExpires
<1>2. Kept /\ \A k \in DOMAIN cache' : Came(k) BY <1>1, Unchanged
<1>3. CASE Failed(s)
  <2>1. call' = [call EXCEPT ![s] = Idle] /\ stored' = stored BY <1>3 DEF Failed
  <2>2. call' = [r \in CachedSessions |-> IF r = s THEN call'[s] ELSE call[r]] /\ call'[s] = Idle
    BY <2>1, Followed
  <2>3. CallType(s)' BY <2>2 DEF CallType, Idle
  <2>4. stored' \in [CacheKeys -> CachedValues] BY <2>1, Followed
  <2>5. QED BY <1>1, <1>2, <2>1, <2>2, <2>3, <2>4, OthersStay
<1>4. CASE StorageExpires(s)
  <2> DEFINE state == <<"state", s>>
             data == <<"data", s>>
  <2>1. call' = call /\ stored' = [stored EXCEPT ![state] = Missing, ![data] = Missing]
    BY <1>4 DEF StorageExpires
  <2>2. stored \in [CacheKeys -> CachedValues] /\ CallType(s) BY Followed
  <2>3. Missing \in CachedValues BY DEF Missing, CachedValues
  <2>4. stored' \in [CacheKeys -> CachedValues] BY <2>1, <2>2, <2>3
  <2>5. \A kind \in Kinds, r \in CachedSessions \ {s} : stored'[<<kind, r>>] = stored[<<kind, r>>]
    <3> SUFFICES ASSUME NEW kind \in Kinds, NEW r \in CachedSessions \ {s}
                 PROVE  stored'[<<kind, r>>] = stored[<<kind, r>>]
      OBVIOUS
    <3>1. <<kind, r>> # state /\ <<kind, r>> # data /\ <<kind, r>> \in CacheKeys BY KeysOf
    <3>2. QED BY <2>1, <2>2, <3>1
  <2>6. call' = [r \in CachedSessions |-> IF r = s THEN call'[s] ELSE call[r]]
    <3>1. call = [r \in CachedSessions |-> call[r]] BY Followed
    <3>2. QED BY <2>1, <3>1
  <2>7. CallType(s)' BY <2>1, <2>2 DEF CallType
  <2>8. QED BY <1>1, <1>2, <2>4, <2>5, <2>6, <2>7, OthersStay
<1>5. QED BY <1>3, <1>4

\* Entries that grow old, are pruned or cleared.
LEMMA CacheAges == CacheInv /\ (Prune \/ Emptied \/ CacheTick) => CacheInv'
<1> SUFFICES ASSUME CacheInv, Prune \/ Emptied \/ CacheTick PROVE CacheInv' OBVIOUS
<1>1. UNCHANGED <<stored, call, lost>> BY DEF Prune, Emptied, CacheTick
<1>2. /\ cache \in Seq(CacheEntries) /\ Len(cache) <= MaxSize /\ OneEach(cache)
      /\ Len(cache) \in Nat /\ DOMAIN cache = 1 .. Len(cache)
      /\ \A i \in DOMAIN cache : cache[i] \in CacheEntries
  BY LenProperties, ElementOfSeq DEF CacheInv, CacheTypes
<1>3. Kept /\ \A k \in DOMAIN cache' : Came(k)
  <2>1. CASE Prune
    <3> DEFINE stay == {i \in DOMAIN cache : ~PastExpiry(cache[i])}
    <3>1. cache' = Sifted(cache, stay) /\ stay \in SUBSET DOMAIN cache BY <2>1 DEF Prune
    <3> HIDE DEF stay
    <3>2. /\ cache' \in Seq(CacheEntries) /\ Len(cache') <= Len(cache) /\ OneEach(cache')
          /\ \A k \in DOMAIN cache' : \E i \in stay : cache'[k] = cache[i]
      BY <1>2, <3>1, SiftedIs
    <3>3. Len(cache') \in Nat BY <3>2, LenProperties
    <3>4. QED BY <1>2, <3>1, <3>2, <3>3, CacheAssumption DEF Kept, Came
  <2>2. CASE Emptied
    <3>1. cache' = <<>> BY <2>2 DEF Emptied
    <3>2. cache' \in Seq(CacheEntries) /\ Len(cache') = 0 /\ DOMAIN cache' = {}
      BY <3>1, EmptySeq
    <3>3. QED BY <3>2, CacheAssumption DEF Kept, OneEach
  <2>3. CASE CacheTick
    <3>1. cache' = [i \in 1 .. Len(cache) |->
                      [cache[i] EXCEPT !.left = IF @ = 0 THEN 0 ELSE @ - 1]]
      BY <1>2, <2>3 DEF CacheTick
    <3>2. \A i \in 1 .. Len(cache) :
            /\ cache'[i] \in CacheEntries
            /\ cache'[i].key = cache[i].key /\ cache'[i].value = cache[i].value
      BY <1>2, <3>1 DEF CacheEntries
    <3>3. cache' \in [1 .. Len(cache) -> CacheEntries] BY <3>1, <3>2
    <3>4. cache' \in Seq(CacheEntries) /\ Len(cache') = Len(cache) BY <1>2, <3>3, LenProperties
    <3>5. DOMAIN cache' = DOMAIN cache BY <1>2, <3>1
    <3>6. OneEach(cache') BY <1>2, <3>2, <3>5 DEF OneEach
    <3>7. QED BY <1>2, <3>2, <3>4, <3>5, <3>6 DEF Kept, Came
  <2>4. QED BY <2>1, <2>2, <2>3
<1>4. QED BY <1>1, <1>3, CacheAlone

LEMMA CacheSteps == CacheInv /\ [CacheNext]_cacheVars => CacheInv'
<1> SUFFICES ASSUME CacheInv, [CacheNext]_cacheVars PROVE CacheInv' OBVIOUS
<1>1. CASE Prune \/ Emptied \/ CacheTick BY <1>1, CacheAges
<1>2. ASSUME NEW s \in CachedSessions \ lost, \E kind \in Kinds : Get(s, kind) PROVE CacheInv'
  BY <1>2, GetKeeps
<1>3. ASSUME NEW s \in CachedSessions \ lost, NEW state \in CachedStates, Ask(s, "setState", {state})
      PROVE  CacheInv'
  <2>1. {state} \in CachedValues BY DEF CachedValues
  <2>2. QED BY <1>3, <2>1, AskKeeps
<1>4. ASSUME NEW s \in CachedSessions \ lost, NEW f \in CachedFields, Ask(s, "setData", {f})
      PROVE  CacheInv'
  <2>1. {f} \in CachedValues BY DEF CachedValues
  <2>2. QED BY <1>4, <2>1, AskKeeps
<1>5. ASSUME NEW s \in CachedSessions \ lost, NEW state \in CachedStates,
             Ask(s, "setSession", <<{state}, {"kept"}>>)
      PROVE  CacheInv'
  <2>1. <<{state}, {"kept"}>> \in CachedValues \X CachedValues BY DEF CachedValues
  <2>2. QED BY <1>5, <2>1, AskKeeps
<1>6. ASSUME NEW s \in CachedSessions \ lost, Ask(s, "deleteSession", Missing) PROVE CacheInv'
  <2>1. Missing \in CachedValues BY DEF CachedValues, Missing
  <2>2. QED BY <1>6, <2>1, AskKeeps
<1>7. ASSUME NEW s \in CachedSessions \ lost,
             Fill(s) \/ Effect(s) \/ Returned(s) \/ Failed(s) \/ StorageExpires(s)
      PROVE  CacheInv'
  BY <1>7, FillKeeps, EffectKeeps, ReturnedKeeps, LostKeeps
<1>8. CASE UNCHANGED cacheVars
  <2>1. cache' = cache /\ UNCHANGED <<stored, call, lost>> BY <1>8 DEF cacheVars
  <2>2. QED BY <2>1, Unchanged, CacheAlone
<1>9. QED BY <1>1, <1>2, <1>3, <1>4, <1>5, <1>6, <1>7, <1>8 DEF CacheNext, Kinds

LEMMA CurrentHits == CacheInv => HitsAreCurrent
<1> SUFFICES ASSUME CacheInv, NEW s \in CachedSessions \ lost, call[s] = Idle,
                    NEW kind \in Kinds, Hit(<<kind, s>>)
             PROVE  EntryOf(cache, <<kind, s>>).value = stored[<<kind, s>>]
  BY DEF HitsAreCurrent, CacheInv, Kinds
<1>1. At(cache, <<kind, s>>) # {} BY DEF Hit
<1>2. PICK i \in DOMAIN cache : cache[i].key = <<kind, s>> /\ EntryOf(cache, <<kind, s>>) = cache[i]
  BY <1>1 DEF At, EntryOf
<1>3. Unsettled(s) = {} BY DEF Unsettled, Idle
<1>4. QED BY <1>2, <1>3, Followed DEF EntriesCurrent

\* The cached storage keeps to its size and answers what is stored, for any
\* sessions, states and fields, any size and life of an entry, and any
\* interleaving of the calls of different sessions (Performance.js:461).
THEOREM HitsStayCurrent == CacheSpec => []HitsAreCurrent
<1>1. CacheInit => CacheInv BY CacheStarts
<1>2. CacheInv /\ [CacheNext]_cacheVars => CacheInv' BY CacheSteps
<1>3. CacheInv => HitsAreCurrent BY CurrentHits
<1>4. QED BY <1>1, <1>2, <1>3, PTL DEF CacheSpec

-----------------------------------------------------------------------------
(* The finished texts.                                                     *)

\* A finished text, of a wording or a default.
Texts == [key : Languages \X (Counts \cup {NoText}),
          text : [wording : Wordings \cup Defaults, count : Counts \cup {NoText}, by : {0, 1, 2}]]
TextTypes ==
  /\ translations \in [Languages -> [Forms -> Wordings \cup {NoText}]]
  /\ language \in Languages /\ formatter \in {1, 2}
  /\ texts \in Seq(Texts)

\* The ask that says all that is in a key.
FullAsk(key, d) == [language |-> key[1], count |-> key[2], default |-> d]
TextInv ==
  /\ TextTypes /\ Len(texts) <= CacheSize /\ OneEach(texts)
  /\ \A i \in DOMAIN texts : \E by \in {1, 2}, d \in Defaults :
       texts[i].text = Text(FullAsk(texts[i].key, d), by)

\* A text depends on no more than its key, the default and the formatter.
LEMMA TextOf ==
  ASSUME TextTypes, NEW ask \in I18nAsks, NEW by
  PROVE  Text(ask, by) = Text(FullAsk(CacheKey(ask), ask.default), by)
<1> DEFINE full == FullAsk(CacheKey(ask), ask.default)
<1>1. full.language = LanguageOf(ask) /\ full.count = ask.count /\ full.default = ask.default
  BY DEF FullAsk, CacheKey
<1>2. LanguageOf(ask) \in Languages BY DEF LanguageOf, I18nAsks, TextTypes
<1>3. LanguageOf(full) = LanguageOf(ask) BY <1>1, <1>2, I18nAssumption DEF LanguageOf
<1> HIDE DEF full
<1>4. TranslationKey(full) = TranslationKey(ask) BY <1>1, <1>3 DEF TranslationKey
<1>5. Found(full) = Found(ask) BY <1>3, <1>4 DEF Found
<1>6. QED BY <1>1, <1>5 DEF Text, full

LEMMA KeyType ==
  ASSUME TextTypes, NEW ask \in I18nAsks
  PROVE  CacheKey(ask) \in Languages \X (Counts \cup {NoText})
BY DEF CacheKey, LanguageOf, I18nAsks, TextTypes

\* As long as the translations stay, and whatever the default language is.
LEMMA TextStays ==
  ASSUME NEW key \in Languages \X (Counts \cup {NoText}), NEW d, NEW by,
         translations' = translations
  PROVE  Text(FullAsk(key, d), by)' = Text(FullAsk(key, d), by)
<1> DEFINE full == FullAsk(key, d)
<1>1. full.language = key[1] /\ full.language # NoText BY I18nAssumption DEF FullAsk
<1> HIDE DEF full
<1>2. LanguageOf(full) = key[1] /\ LanguageOf(full)' = key[1] BY <1>1 DEF LanguageOf, full, FullAsk
<1>3. \A form : Translation(key[1], form)' = Translation(key[1], form) BY DEF Translation
<1>4. TranslationKey(full)' = TranslationKey(full) BY <1>2, <1>3 DEF TranslationKey, full, FullAsk
<1>5. Found(full)' = Found(full) BY <1>2, <1>3, <1>4 DEF Found
<1>6. QED BY <1>5 DEF Text, full, FullAsk

LEMMA FinishedType ==
  ASSUME TextTypes, NEW ask \in I18nAsks
  PROVE  Finished(ask) \in Texts
<1>1. LanguageOf(ask) \in Languages BY DEF LanguageOf, I18nAsks, TextTypes
<1>2. ask.count \in Counts \cup {NoText} /\ ask.default \in Defaults BY DEF I18nAsks
<1>3. TranslationKey(ask) \in Forms
  <2>1. "base" \in Forms BY DEF Forms
  <2>2. ask.count # NoText => PluralForm(ask.count) \in Forms BY <1>2 DEF Forms
  <2>3. QED BY <2>1, <2>2 DEF TranslationKey
<1>4. Found(ask) \in Wordings \cup {NoText}
  BY <1>1, <1>3, I18nAssumption DEF Found, Translation, TextTypes
<1> DEFINE wording == IF Found(ask) = NoText THEN ask.default ELSE Found(ask)
<1>5. wording \in Wordings \cup Defaults BY <1>2, <1>4
<1>6. Text(ask, formatter) = Interpolated(wording, ask.count, formatter) BY DEF Text
<1> HIDE DEF wording
<1>7. Text(ask, formatter) \in [wording : Wordings \cup Defaults, count : Counts \cup {NoText}, by : {0, 1, 2}]
  BY <1>2, <1>5, <1>6 DEF Interpolated, TextTypes
<1>8. QED BY <1>7, KeyType DEF Finished, Texts

\* What every cached text is.
Means(e) == \E by \in {1, 2}, d \in Defaults : e.text = Text(FullAsk(e.key, d), by)

LEMMA TextsMean == TextInv <=> /\ TextTypes /\ Len(texts) <= CacheSize /\ OneEach(texts)
                              /\ \A i \in DOMAIN texts : Means(texts[i])
BY DEF TextInv, Means

LEMMA MeansStays ==
  ASSUME NEW e \in Texts, Means(e), translations' = translations
  PROVE  Means(e)'
<1>1. PICK by \in {1, 2}, d \in Defaults : e.text = Text(FullAsk(e.key, d), by) BY DEF Means
<1>2. e.key \in Languages \X (Counts \cup {NoText}) BY DEF Texts
<1>3. Text(FullAsk(e.key, d), by)' = Text(FullAsk(e.key, d), by) BY <1>2, TextStays
<1>4. e.text = Text(FullAsk(e.key, d), by)' BY <1>1, <1>3
<1>5. QED BY <1>4 DEF Means

LEMMA TranslateKeeps ==
  ASSUME TextInv, NEW ask \in I18nAsks, Translate(ask)
  PROVE  TextInv'
<1> DEFINE key == CacheKey(ask)
<1>1. UNCHANGED <<translations, language, formatter>> BY DEF Translate
<1>2. TextTypes /\ texts \in Seq(Texts) /\ Len(texts) <= CacheSize /\ OneEach(texts)
  BY DEF TextInv, TextTypes
<1>3. \A i \in DOMAIN texts : texts[i] \in Texts /\ Means(texts[i])
  BY <1>2, TextsMean, ElementOfSeq, LenProperties
<1>4. Len(texts) \in Nat BY <1>2, LenProperties
<1>5. /\ texts' \in Seq(Texts) /\ Len(texts') <= CacheSize /\ OneEach(texts')
      /\ \A k \in DOMAIN texts' : texts'[k] \in Texts /\ Means(texts'[k])
  <2>1. CASE At(texts, key) # {}
    <3>1. texts' = MovedToEnd(texts, key) BY <2>1 DEF Translate
    <3> HIDE DEF key
    <3>2. /\ texts' \in Seq(Texts) /\ Len(texts') <= Len(texts) /\ OneEach(texts')
          /\ \A k \in DOMAIN texts' : \E i \in DOMAIN texts : texts'[k] = texts[i]
      BY <1>2, <2>1, <3>1, MovedIs
    <3>3. Len(texts') \in Nat BY <3>2, LenProperties
    <3>4. QED BY <1>2, <1>3, <1>4, <3>2, <3>3, I18nAssumption
  <2>2. CASE At(texts, key) = {}
    <3> DEFINE room == Room(texts, CacheSize)
               e == Finished(ask)
    <3>1. /\ room \in Seq(Texts) /\ Len(room) < CacheSize /\ OneEach(room)
          /\ \A k \in DOMAIN room : \E i \in DOMAIN texts : room[k] = texts[i]
      BY <1>2, RoomIs, I18nAssumption
    <3>2. e \in Texts BY <1>2, FinishedType
    <3>3. Means(e)
      <4>1. e.key = CacheKey(ask) /\ e.text = Text(ask, formatter) BY DEF Finished
      <4>2. ask.default \in Defaults /\ formatter \in {1, 2} BY <1>2 DEF I18nAsks, TextTypes
      <4>3. e.text = Text(FullAsk(e.key, ask.default), formatter) BY <1>2, <4>1, TextOf
      <4>4. QED BY <4>2, <4>3 DEF Means
    <3>4. texts' = WithEntry(room, e) /\ CacheSize \in Nat BY <2>2, I18nAssumption DEF Translate
    <3> HIDE DEF room, e, key
    <3>5. /\ texts' \in Seq(Texts) /\ Len(texts') <= CacheSize /\ OneEach(texts')
          /\ Entered(texts', room, e)
      BY <3>1, <3>2, <3>4, WithEntryIs
    <3>6. ASSUME NEW k \in DOMAIN texts' PROVE texts'[k] \in Texts /\ Means(texts'[k])
      <4>1. CASE texts'[k] = e BY <3>2, <3>3, <4>1
      <4>2. CASE texts'[k] # e
        <5>1. PICK i \in DOMAIN room : texts'[k] = room[i] BY <3>5, <4>2 DEF Entered
        <5>2. QED BY <1>3, <3>1, <5>1
      <4>3. QED BY <4>1, <4>2
    <3>7. QED BY <3>5, <3>6
  <2>3. QED BY <2>1, <2>2
<1>6. \A k \in DOMAIN texts' : Means(texts[k])' BY <1>1, <1>5, MeansStays DEF Means
<1>7. TextTypes' BY <1>1, <1>2, <1>5 DEF TextTypes
<1>8. QED BY <1>5, <1>6, <1>7 DEF TextInv, Means

\* Nothing is cached.
LEMMA NoTexts == TextTypes /\ texts = <<>> => TextInv
BY EmptySeq, I18nAssumption DEF TextInv, OneEach

LEMMA TextSteps == TextInv /\ [I18nNext]_i18nVars => TextInv'
<1> SUFFICES ASSUME TextInv, [I18nNext]_i18nVars PROVE TextInv' OBVIOUS
<1>1. TextTypes BY DEF TextInv
<1>2. ASSUME NEW ask \in I18nAsks, Translate(ask) PROVE TextInv' BY <1>2, TranslateKeeps
<1>3. ASSUME NEW l \in Languages, NEW f \in Forms, NEW w \in Wordings,
             AddTranslations(l, [g \in {f} |-> w])
      PROVE  TextInv'
  <2> DEFINE new == [g \in {f} |-> w]
             forms == [form \in Forms |-> IF form \in DOMAIN new THEN new[form] ELSE translations[l][form]]
  <2>1. texts' = <<>> /\ UNCHANGED <<language, formatter>> BY <1>3 DEF AddTranslations
  <2>2. translations' = [translations EXCEPT ![l] = forms] BY <1>1, <1>3 DEF AddTranslations, TextTypes
  <2>3. forms \in [Forms -> Wordings \cup {NoText}] BY <1>1 DEF TextTypes
  <2> HIDE DEF forms
  <2>4. TextTypes' BY <1>1, <2>1, <2>2, <2>3, EmptySeq DEF TextTypes
  <2>5. QED BY <2>1, <2>4, EmptySeq, I18nAssumption DEF TextInv, OneEach
<1>4. CASE ClearTranslations
  <2>1. texts' = <<>> /\ TextTypes'
    BY <1>1, <1>4, EmptySeq DEF ClearTranslations, TextTypes, Untranslated
  <2>2. QED BY <2>1, EmptySeq, I18nAssumption DEF TextInv, OneEach
<1>5. CASE AddFormatter \/ (\E l \in Languages : SetDefaultLanguage(l)) \/ UNCHANGED i18nVars
  <2>1. UNCHANGED <<translations, texts>> BY <1>5 DEF AddFormatter, SetDefaultLanguage, i18nVars
  <2>2. TextTypes' BY <1>1, <1>5 DEF AddFormatter, SetDefaultLanguage, i18nVars, TextTypes
  <2>3. \A i \in DOMAIN texts : texts[i] \in Texts /\ Means(texts[i])
    BY TextsMean, ElementOfSeq, LenProperties DEF TextTypes
  <2>4. \A i \in DOMAIN texts' : Means(texts[i])' BY <2>1, <2>3, MeansStays DEF Means
  <2>5. QED BY <2>1, <2>2, <2>4 DEF TextInv, Means
<1>6. QED BY <1>2, <1>3, <1>4, <1>5 DEF I18nNext

LEMMA TextsStart == I18nInit => TextInv
<1>1. I18nInit => TextTypes BY EmptySeq DEF I18nInit, TextTypes, Untranslated
<1>2. QED BY <1>1, NoTexts DEF I18nInit

LEMMA CurrentTexts == TextInv => TextsAreCurrent
<1> SUFFICES ASSUME TextInv, NEW ask \in I18nAsks, NEW i \in DOMAIN texts,
                    texts[i].key = CacheKey(ask)
             PROVE  \E by \in {1, 2}, d \in Defaults :
                      texts[i].text = Text([ask EXCEPT !.default = d], by)
  BY DEF TextsAreCurrent, TextInv
<1>1. PICK by \in {1, 2}, d \in Defaults : texts[i].text = Text(FullAsk(texts[i].key, d), by)
  BY DEF TextInv
<1> DEFINE same == [ask EXCEPT !.default = d]
<1>2. same \in I18nAsks /\ same.default = d /\ CacheKey(same) = CacheKey(ask)
  BY DEF I18nAsks, CacheKey, LanguageOf
<1>3. TextTypes BY DEF TextInv
<1> HIDE DEF same
<1>4. Text(same, by) = Text(FullAsk(CacheKey(ask), d), by) BY <1>2, <1>3, TextOf
<1>5. texts[i].text = Text(same, by) BY <1>1, <1>4
<1>6. QED BY <1>5 DEF same

\* A cached text is what the translations of now give, for any languages,
\* wordings, counts, defaults and size of the cache (I18n.js:129).
THEOREM TextsStayCurrent == I18nSpec => []TextsAreCurrent
<1>1. I18nInit => TextInv BY TextsStart
<1>2. TextInv /\ [I18nNext]_i18nVars => TextInv' BY TextSteps
<1>3. TextInv => TextsAreCurrent BY CurrentTexts
<1>4. QED BY <1>1, <1>2, <1>3, PTL DEF I18nSpec

\* Both, in the toolbox that TLC checks, where the parts share nothing
\* (Performance.js:472, I18n.js:129).
THEOREM CachesStayCurrent == BoxSpec => []CachesAreCurrent
<1>1. BoxInit => CacheInit /\ I18nInit BY DEF BoxInit
<1>2. [BoxNext]_<<part, vars, cacheVars, metricVars, batchVars, healthVars, booksVars,
                  reportVars, i18nVars>>
        => [CacheNext]_cacheVars /\ [I18nNext]_i18nVars
  BY DEF BoxNext
<1>3. CacheSpec => []HitsAreCurrent BY HitsStayCurrent
<1>4. I18nSpec => []TextsAreCurrent BY TextsStayCurrent
<1>5. HitsAreCurrent /\ TextsAreCurrent => CachesAreCurrent BY DEF CachesAreCurrent
<1>6. QED BY <1>1, <1>2, <1>3, <1>4, <1>5, PTL DEF BoxSpec, CacheSpec, I18nSpec

-----------------------------------------------------------------------------
(* Reports.  Every sum is a partition: what is counted goes to one row, by *)
(* what its evidence says, and that row is among those of the report.      *)

EvidenceInv == batch \in SUBSET Pool /\ IsFiniteSet(batch) /\ asOf \in Nat

\* Where each thing counts in one row, the rows add up to the things.
LEMMA Partition ==
  ASSUME NEW S, IsFiniteSet(S), NEW column, NEW row, DOMAIN row = S,
         \A s \in S : row[s] \in DOMAIN column,
         \A x \in DOMAIN column : column[x] = {s \in S : row[s] = x}
  PROVE  Total(column) = Cardinality(S)
<1> DEFINE pairs == UNION {{x} \X column[x] : x \in DOMAIN column}
           f == [s \in S |-> <<row[s], s>>]
<1>1. \A s \in S : f[s] \in pairs OBVIOUS
<1>2. \A p \in pairs : \E s \in S : p = f[s] OBVIOUS
<1>3. \A s, u \in S : f[s] = f[u] => s = u OBVIOUS
<1>4. DOMAIN f = S /\ f \in [S -> pairs] BY <1>1
<1> HIDE DEF f, pairs
<1>5. f \in Bijection(S, pairs)
  BY <1>2, <1>3, <1>4 DEF Bijection, Injection, Surjection, IsInjective
<1>6. Cardinality(pairs) = Cardinality(S) BY <1>5, FS_Bijection DEF ExistsBijection
<1>7. QED BY <1>6 DEF Total, pairs

LEMMA FiniteImage ==
  ASSUME NEW S, IsFiniteSet(S), NEW f, DOMAIN f = S
  PROVE  IsFiniteSet({f[x] : x \in S})
<1> DEFINE T == {f[x] : x \in S}
           g == [x \in S |-> f[x]]
<1>1. g \in Surjection(S, T) BY DEF Surjection
<1> HIDE DEF T, g
<1>2. IsFiniteSet(T) BY <1>1, FS_Surjection
<1>3. QED BY <1>2 DEF T

\* A fact has what its event has, but for the envelope.
LEMMA FactIs ==
  ASSUME NEW e \in Pool
  PROVE  /\ Fact(e).type = e.type /\ Fact(e).at = e.at /\ Fact(e).session = e.session
         /\ Fact(e).version = e.version /\ Fact(e).key = e.key /\ Fact(e).outcome = e.outcome
<1>1. DOMAIN e = EventFields BY ReportsAssumption DEF MetricEvent
<1>2. QED BY <1>1 DEF Fact, EventFields

\* The evidence a report is made of is finite, and so is what it says.
LEMMA IncludedIs ==
  EvidenceInv => Included(batch, asOf) \in SUBSET Pool /\ IsFiniteSet(Included(batch, asOf))
<1>1. Included(batch, asOf) \in SUBSET batch BY DEF Included
<1>2. QED BY <1>1, FS_Subset DEF EvidenceInv

LEMMA Finite ==
  ASSUME NEW inc \in SUBSET Pool, IsFiniteSet(inc), NEW type
  PROVE  IsFiniteSet(Facts(inc, type))
<1> DEFINE some == {x \in inc : x.type = type}
           f == [e \in some |-> Fact(e)]
<1>1. IsFiniteSet(some)
  <2>1. some \in SUBSET inc OBVIOUS
  <2>2. QED BY <2>1, FS_Subset
<1>2. DOMAIN f = some /\ Facts(inc, type) = {f[e] : e \in some} BY DEF Facts
<1> HIDE DEF f, some
<1>3. QED BY <1>1, <1>2, FiniteImage

LEMMA FiniteStarted ==
  ASSUME NEW inc \in SUBSET Pool, IsFiniteSet(inc)
  PROVE  IsFiniteSet(Started(inc))
<1> DEFINE f == [e \in Starts(inc) |-> e.session]
<1>1. IsFiniteSet(Starts(inc)) BY Finite DEF Starts
<1>2. DOMAIN f = Starts(inc) /\ Started(inc) = {f[e] : e \in Starts(inc)} BY DEF Started
<1> HIDE DEF f
<1>3. QED BY <1>1, <1>2, FiniteImage

\* Every turn counts at the state it came from.
LEMMA TurnRows ==
  ASSUME NEW inc \in SUBSET Pool, IsFiniteSet(inc)
  PROVE  Total([row \in StateRows(inc) |-> TurnsAt(inc, row)]) = Cardinality(Turns(inc))
<1> DEFINE column == [row \in StateRows(inc) |-> TurnsAt(inc, row)]
           at == [t \in Turns(inc) |-> <<t.version, t.from>>]
<1>1. IsFiniteSet(Turns(inc)) BY Finite DEF Turns
<1>2. \A t \in Turns(inc) : at[t] \in StateRows(inc) BY DEF StateRows
<1>3. \A row \in StateRows(inc) : column[row] = {t \in Turns(inc) : at[t] = row} BY DEF TurnsAt
<1>4. DOMAIN column = StateRows(inc) /\ DOMAIN at = Turns(inc) OBVIOUS
<1> HIDE DEF column, at
<1>5. Total(column) = Cardinality(Turns(inc)) BY <1>1, <1>2, <1>3, <1>4, Partition
<1>6. QED BY <1>5 DEF column

\* Every started session has one exit.
LEMMA ExitRows ==
  ASSUME NEW inc \in SUBSET Pool, IsFiniteSet(inc)
  PROVE  Total([row \in StateRows(inc) |-> Exits(inc, row)]) = Cardinality(Started(inc))
<1> DEFINE column == [row \in StateRows(inc) |-> Exits(inc, row)]
           exit == [s \in Started(inc) |-> ExitRow(inc, s)]
<1>1. IsFiniteSet(Started(inc)) BY FiniteStarted
<1>2. \A s \in Started(inc) : exit[s] \in StateRows(inc) BY DEF StateRows
<1>3. \A row \in StateRows(inc) : column[row] = {s \in Started(inc) : exit[s] = row} BY DEF Exits
<1>4. DOMAIN column = StateRows(inc) /\ DOMAIN exit = Started(inc) OBVIOUS
<1> HIDE DEF column, exit
<1>5. Total(column) = Cardinality(Started(inc)) BY <1>1, <1>2, <1>3, <1>4, Partition
<1>6. QED BY <1>5 DEF column

\* A retry and the turn it repeats are of one version and one state, so no
\* pair falls between two rows.
LEMMA RetriesOfPart ==
  ASSUME NEW turns, NEW some \in SUBSET turns,
         \A a \in turns, b \in some : a.version = b.version /\ a.from = b.from => a \in some
  PROVE  Retries(some) = Retries(turns) \cap some
BY DEF Retries

LEMMA RetryRows ==
  ASSUME NEW inc \in SUBSET Pool, IsFiniteSet(inc)
  PROVE  Total([row \in StateRows(inc) |-> Retries(TurnsAt(inc, row))])
           = Cardinality(Retries(Turns(inc)))
<1> DEFINE retries == Retries(Turns(inc))
           column == [row \in StateRows(inc) |-> Retries(TurnsAt(inc, row))]
           at == [t \in retries |-> <<t.version, t.from>>]
<1>0. retries \in SUBSET Turns(inc) BY DEF Retries
<1>1. IsFiniteSet(retries)
  <2>1. IsFiniteSet(Turns(inc)) BY Finite DEF Turns
  <2>2. QED BY <1>0, <2>1, FS_Subset
<1>2. \A t \in retries : at[t] \in StateRows(inc) BY <1>0 DEF StateRows
<1>3. ASSUME NEW row \in StateRows(inc)
      PROVE  column[row] = {t \in retries : at[t] = row}
  <2>1. TurnsAt(inc, row) \in SUBSET Turns(inc) BY DEF TurnsAt
  <2>2. \A a \in Turns(inc), b \in TurnsAt(inc, row) :
          a.version = b.version /\ a.from = b.from => a \in TurnsAt(inc, row)
    BY DEF TurnsAt
  <2>3. Retries(TurnsAt(inc, row)) = retries \cap TurnsAt(inc, row) BY <2>1, <2>2, RetriesOfPart
  <2>4. QED BY <1>0, <2>3 DEF TurnsAt
<1>4. DOMAIN column = StateRows(inc) /\ DOMAIN at = retries OBVIOUS
<1> HIDE DEF column, at, retries
<1>5. Total(column) = Cardinality(retries) BY <1>1, <1>2, <1>3, <1>4, Partition
<1>6. QED BY <1>5 DEF column, retries

LEMMA RetryVersions ==
  ASSUME NEW inc \in SUBSET Pool, IsFiniteSet(inc)
  PROVE  Total([v \in Versions(inc) |-> Retries(TurnsIn(inc, v))]) = Cardinality(Retries(Turns(inc)))
<1> DEFINE retries == Retries(Turns(inc))
           column == [v \in Versions(inc) |-> Retries(TurnsIn(inc, v))]
           of == [t \in retries |-> t.version]
<1>0. retries \in SUBSET Turns(inc) BY DEF Retries
<1>1. IsFiniteSet(retries)
  <2>1. IsFiniteSet(Turns(inc)) BY Finite DEF Turns
  <2>2. QED BY <1>0, <2>1, FS_Subset
<1>2. \A t \in retries : of[t] \in Versions(inc)
  <2>1. \A e \in inc : e \in Pool OBVIOUS
  <2>2. \A e \in inc : e.type = "turn" => Fact(e).version \in Versions(inc)
    BY <2>1, FactIs DEF Versions
  <2>3. QED BY <1>0, <2>2 DEF Turns, Facts
<1>3. ASSUME NEW v \in Versions(inc)
      PROVE  column[v] = {t \in retries : of[t] = v}
  <2>1. TurnsIn(inc, v) \in SUBSET Turns(inc) BY DEF TurnsIn
  <2>2. \A a \in Turns(inc), b \in TurnsIn(inc, v) :
          a.version = b.version /\ a.from = b.from => a \in TurnsIn(inc, v)
    BY DEF TurnsIn
  <2>3. Retries(TurnsIn(inc, v)) = retries \cap TurnsIn(inc, v) BY <2>1, <2>2, RetriesOfPart
  <2>4. QED BY <1>0, <2>3 DEF TurnsIn
<1>4. DOMAIN column = Versions(inc) /\ DOMAIN of = retries OBVIOUS
<1> HIDE DEF column, of, retries
<1>5. Total(column) = Cardinality(retries) BY <1>1, <1>2, <1>3, <1>4, Partition
<1>6. QED BY <1>5 DEF column, retries

LEMMA SessionVersions ==
  ASSUME NEW inc \in SUBSET Pool, IsFiniteSet(inc)
  PROVE  Total([v \in Versions(inc) |-> SessionsIn(inc, v)]) = Cardinality(Started(inc))
<1> DEFINE column == [v \in Versions(inc) |-> SessionsIn(inc, v)]
           of == [s \in Started(inc) |-> StartOf(inc, s).version]
<1>1. IsFiniteSet(Started(inc)) BY FiniteStarted
<1>2. \A s \in Started(inc) : of[s] \in Versions(inc)
  <2>1. \A e \in inc : e \in Pool OBVIOUS
  <2>2. \A e \in inc : e.type = "session_start" => Fact(e).version \in Versions(inc)
    BY <2>1, FactIs DEF Versions
  <2>3. \A s \in Started(inc) : StartOf(inc, s) \in Starts(inc) BY DEF Started, StartOf
  <2>4. QED BY <2>2, <2>3 DEF Starts, Facts
<1>3. \A v \in Versions(inc) : column[v] = {s \in Started(inc) : of[s] = v} BY DEF SessionsIn
<1>4. DOMAIN column = Versions(inc) /\ DOMAIN of = Started(inc) OBVIOUS
<1> HIDE DEF column, of
<1>5. Total(column) = Cardinality(Started(inc)) BY <1>1, <1>2, <1>3, <1>4, Partition
<1>6. QED BY <1>5 DEF column

\* A business operation counts in one version because its evidence agrees.
LEMMA BusinessVersions ==
  ASSUME NEW inc \in SUBSET Pool, IsFiniteSet(inc), Agree(inc)
  PROVE  Total([v \in Versions(inc) |-> BusinessIn(inc, v)])
           = Cardinality({e.key : e \in Facts(inc, "business_outcome")})
<1> DEFINE facts == Facts(inc, "business_outcome")
           key == [e \in facts |-> e.key]
           keys == {e.key : e \in facts}
           saying(k) == CHOOSE e \in facts : e.key = k
           column == [v \in Versions(inc) |-> BusinessIn(inc, v)]
           of == [k \in keys |-> saying(k).version]
<1>1. IsFiniteSet(keys)
  <2>1. IsFiniteSet(facts) BY Finite
  <2>2. DOMAIN key = facts /\ keys = {key[e] : e \in facts} OBVIOUS
  <2> HIDE DEF facts, key, keys
  <2>3. QED BY <2>1, <2>2, FiniteImage
<1>2. \A k \in keys : saying(k) \in facts /\ saying(k).key = k OBVIOUS
<1>3. \A e \in facts : of[e.key] = e.version
  <2>1. \A a, b \in facts : a.key = b.key => a.version = b.version BY DEF Agree
  <2>2. \A e \in facts : e.key \in keys OBVIOUS
  <2> HIDE DEF facts, keys, saying
  <2>3. QED BY <1>2, <2>1, <2>2
<1>4. \A k \in keys : of[k] \in Versions(inc)
  <2>1. \A e \in inc : e \in Pool OBVIOUS
  <2>2. \A e \in inc : e.type = "business_outcome" => Fact(e).version \in Versions(inc)
    BY <2>1, FactIs DEF Versions
  <2>3. \A e \in facts : e.version \in Versions(inc) BY <2>2 DEF Facts
  <2> HIDE DEF facts, keys, saying
  <2>4. QED BY <1>2, <2>3
<1>5. \A v \in Versions(inc) : column[v] = {k \in keys : of[k] = v}
  <2>1. \A v \in Versions(inc) : column[v] = {e.key : e \in {x \in facts : x.version = v}}
    BY DEF BusinessIn
  <2>2. \A k \in keys : \E e \in facts : e.key = k OBVIOUS
  <2>3. \A e \in facts : e.key \in keys OBVIOUS
  <2> HIDE DEF facts, keys, of, column
  <2>4. QED BY <1>3, <2>1, <2>2, <2>3
<1>6. DOMAIN column = Versions(inc) /\ DOMAIN of = keys OBVIOUS
<1> HIDE DEF column, of, keys, facts
<1>7. Total(column) = Cardinality(keys) BY <1>1, <1>4, <1>5, <1>6, Partition
<1>8. QED BY <1>7 DEF column, keys, facts

LEMMA RowsDo == EvidenceInv => RowsAddUp
<1> SUFFICES ASSUME EvidenceInv PROVE RowsAddUp OBVIOUS
<1> DEFINE inc == Included(batch, asOf)
<1>1. Accepted(batch, asOf) => Agree(inc) BY DEF Accepted
<1>2. \A row \in StateRows(inc) : Exits(inc, row) \subseteq Reached(inc, row) BY DEF Exits, Reached
<1>3. inc \in SUBSET Pool /\ IsFiniteSet(inc) BY IncludedIs
<1>4. QED
  BY <1>1, <1>2, <1>3, TurnRows, ExitRows, RetryRows, RetryVersions, SessionVersions, BusinessVersions
  DEF RowsAddUp

\* What was said of a session, and of a business operation, stays said.
LEMMA SaidGrows ==
  ASSUME EvidenceInv, [ReportNext]_reportVars
  PROVE  LET inc == Included(batch, asOf)
             later == Included(batch', asOf')
         IN  /\ EvidenceInv' /\ inc \subseteq later
             /\ inc \in SUBSET Pool /\ IsFiniteSet(inc)
             /\ later \in SUBSET Pool /\ IsFiniteSet(later)
<1>1. EvidenceInv' /\ batch \subseteq batch' /\ asOf <= asOf'
  <2>1. CASE ReportTick BY <2>1 DEF ReportTick, EvidenceInv
  <2>2. CASE \E e \in Pool : Arrives(e) BY <2>2, FS_AddElement DEF Arrives, EvidenceInv
  <2>3. CASE UNCHANGED reportVars BY <2>3 DEF reportVars, EvidenceInv
  <2>4. QED BY <2>1, <2>2, <2>3 DEF ReportNext
<1>2. \A e \in batch' : e.at \in Nat BY <1>1, ReportsAssumption DEF EvidenceInv, MetricEvent
<1>3. Included(batch, asOf) \subseteq Included(batch', asOf')
  BY <1>1, <1>2 DEF Included, EvidenceInv
<1>4. Included(batch', asOf') \in SUBSET Pool /\ IsFiniteSet(Included(batch', asOf'))
  <2>1. Included(batch', asOf') \in SUBSET batch' BY DEF Included
  <2>2. QED BY <1>1, <2>1, FS_Subset DEF EvidenceInv
<1>5. QED BY <1>1, <1>3, <1>4, IncludedIs

\* A finite set with at most one member, and a part of it with one, are the
\* same.
LEMMA OneOf ==
  ASSUME NEW S, IsFiniteSet(S), NEW T \in SUBSET S, T # {}, ~(Cardinality(S) > 1)
  PROVE  T = S /\ IsFiniteSet(T) /\ Cardinality(T) = 1 /\ Cardinality(S) = 1
<1>1. Cardinality(S) \in Nat /\ Cardinality(S) # 0 BY FS_CardinalityType, FS_EmptySet
<1>2. Cardinality(S) = 1 BY <1>1
<1>3. PICK x : S = {x} BY <1>2, FS_Singleton
<1>4. QED BY <1>2, <1>3

\* What ends a session, by its evidence.
LEMMA EndsAre ==
  ASSUME NEW inc \in SUBSET Pool, IsFiniteSet(inc), NEW s
  PROVE  /\ IsFiniteSet(Reasons(inc, s))
         /\ Reasons(inc, s) \subseteq {"completed", "cancelled", "expired"}
         /\ Reasons(inc, s) # {} => AnyReason(inc, s) \in Reasons(inc, s)
<1> DEFINE ends == {x \in inc : x.type = "session_end" /\ x.session = s}
           f == [e \in ends |-> e.outcome]
<1>1. ends \in SUBSET inc /\ IsFiniteSet(ends)
  <2>1. ends \in SUBSET inc OBVIOUS
  <2>2. QED BY <2>1, FS_Subset
<1>2. \A e \in ends : e.outcome \in {"completed", "cancelled", "expired", "unknown"}
  <2>1. \A e \in inc : MetricEvent(e) BY ReportsAssumption
  <2>2. QED BY <2>1 DEF MetricEvent, Outcomes
<1>3. Ends(inc, s) = {f[e] : e \in ends} BY DEF Ends
<1>4. IsFiniteSet(Ends(inc, s))
  <2>1. DOMAIN f = ends OBVIOUS
  <2> HIDE DEF f, ends
  <2>2. QED BY <1>1, <1>3, <2>1, FiniteImage
<1>5. Ends(inc, s) \subseteq {"completed", "cancelled", "expired", "unknown"} BY <1>2 DEF Ends
<1> HIDE DEF f, ends
<1>6. Reasons(inc, s) \in SUBSET Ends(inc, s) BY DEF Reasons
<1>7. IsFiniteSet(Reasons(inc, s)) BY <1>4, <1>6, FS_Subset
<1>8. Reasons(inc, s) # {} => AnyReason(inc, s) \in Reasons(inc, s) BY DEF AnyReason
<1>9. QED BY <1>5, <1>7, <1>8 DEF Reasons

\* The outcomes a report gives, by what was said.
LEMMA OutcomeIs ==
  ASSUME NEW inc, NEW t, NEW s, Reasons(inc, s) \subseteq {"completed", "cancelled", "expired"},
         Reasons(inc, s) # {} => AnyReason(inc, s) \in Reasons(inc, s)
  PROVE  /\ Cardinality(Reasons(inc, s)) > 1 => Outcome(inc, t, s) = <<"unknown", "conflict">>
         /\ ~(Cardinality(Reasons(inc, s)) > 1) /\ Reasons(inc, s) # {} =>
              Outcome(inc, t, s) = <<AnyReason(inc, s), "observed">>
         /\ Outcome(inc, t, s)[1] \in {"completed", "cancelled", "expired"} =>
              ~(Cardinality(Reasons(inc, s)) > 1) /\ Reasons(inc, s) # {}
         /\ Outcome(inc, t, s)[1] \in {"open", "abandoned"} =>
              ~(Cardinality(Reasons(inc, s)) > 1) /\ Ends(inc, s) = {} /\ Provider(inc, s) = {}
         /\ ~(Cardinality(Reasons(inc, s)) > 1) /\ Reasons(inc, s) = {} /\ Ends(inc, s) = {}
              /\ Provider(inc, s) = {} => Outcome(inc, t, s)[1] \in {"open", "abandoned"}
<1> DEFINE many == Cardinality(Reasons(inc, s)) > 1
           some == Reasons(inc, s) # {}
           over == Ends(inc, s) # {} \/ Provider(inc, s) # {}
           late == Inactivity # 0 /\ t - LastActivity(inc, s) >= Inactivity
           o == Outcome(inc, t, s)
<1>1. many => o = <<"unknown", "conflict">> BY DEF Outcome
<1>2. ~many /\ some => o = <<AnyReason(inc, s), "observed">> BY DEF Outcome
<1>3. ~many /\ ~some /\ over => o[1] = "unknown" BY DEF Outcome
<1>4. ~many /\ ~some /\ ~over => o[1] \in {"open", "abandoned"}
  <2>1. SUFFICES ASSUME ~many, ~some, ~over PROVE o[1] \in {"open", "abandoned"} OBVIOUS
  <2>2. o = IF late THEN <<"abandoned", "inferred">> ELSE <<"open", "observed">>
    BY <2>1 DEF Outcome
  <2> HIDE DEF o, late
  <2>3. QED BY <2>2
<1>5. some => AnyReason(inc, s) \in {"completed", "cancelled", "expired"} OBVIOUS
<1>6. some <=> Reasons(inc, s) # {} OBVIOUS
<1>7. over <=> Ends(inc, s) # {} \/ Provider(inc, s) # {} OBVIOUS
<1> HIDE DEF o, some, over
<1>8. QED BY <1>1, <1>2, <1>3, <1>4, <1>5, <1>6, <1>7 DEF o

LEMMA SessionsRevised ==
  ASSUME EvidenceInv, [ReportNext]_reportVars, NEW s
  PROVE  LET old == Outcome(Included(batch, asOf), asOf, s)
             new == Outcome(Included(batch', asOf'), asOf', s)
         IN  /\ old[1] \in {"completed", "cancelled", "expired"} =>
                  new \in {old, <<"unknown", "conflict">>}
             /\ new[1] \in {"open", "abandoned"} => old[1] \in {"open", "abandoned"}
<1> DEFINE inc == Included(batch, asOf)
           later == Included(batch', asOf')
           old == Outcome(inc, asOf, s)
           new == Outcome(later, asOf', s)
<1>1. /\ inc \subseteq later /\ inc \in SUBSET Pool /\ IsFiniteSet(inc)
      /\ later \in SUBSET Pool /\ IsFiniteSet(later)
  BY SaidGrows
<1>2. /\ Reasons(inc, s) \subseteq Reasons(later, s) /\ Ends(inc, s) \subseteq Ends(later, s)
      /\ Provider(inc, s) \subseteq Provider(later, s)
  BY <1>1 DEF Reasons, Ends, Provider
<1>3. /\ Reasons(inc, s) \subseteq {"completed", "cancelled", "expired"}
      /\ Reasons(inc, s) # {} => AnyReason(inc, s) \in Reasons(inc, s)
  BY <1>1, EndsAre
<1>4. /\ IsFiniteSet(Reasons(later, s))
      /\ Reasons(later, s) \subseteq {"completed", "cancelled", "expired"}
      /\ Reasons(later, s) # {} => AnyReason(later, s) \in Reasons(later, s)
  BY <1>1, EndsAre
<1> HIDE DEF inc, later
<1>5. old[1] \in {"completed", "cancelled", "expired"} => new \in {old, <<"unknown", "conflict">>}
  <2>1. SUFFICES ASSUME old[1] \in {"completed", "cancelled", "expired"},
                        ~(Cardinality(Reasons(later, s)) > 1)
                 PROVE  new = old
    BY <1>4, OutcomeIs
  <2>2. Reasons(inc, s) # {} /\ old = <<AnyReason(inc, s), "observed">>
    BY <1>3, <2>1, OutcomeIs
  <2>3. Reasons(inc, s) = Reasons(later, s) BY <1>2, <1>4, <2>1, <2>2, OneOf
  <2>4. new = <<AnyReason(later, s), "observed">> BY <1>4, <2>1, <2>2, <2>3, OutcomeIs
  <2>5. QED BY <2>2, <2>3, <2>4 DEF AnyReason
<1>6. new[1] \in {"open", "abandoned"} => old[1] \in {"open", "abandoned"}
  <2>1. SUFFICES ASSUME new[1] \in {"open", "abandoned"} PROVE old[1] \in {"open", "abandoned"}
    OBVIOUS
  <2>2. Ends(later, s) = {} /\ Provider(later, s) = {} BY <1>4, <2>1, OutcomeIs
  <2>3. Ends(inc, s) = {} /\ Provider(inc, s) = {} BY <1>2, <2>2
  <2>4. Reasons(inc, s) = {} BY <2>3 DEF Reasons
  <2>5. ~(Cardinality(Reasons(inc, s)) > 1) BY <2>4, FS_EmptySet
  <2>6. QED BY <1>3, <2>3, <2>4, <2>5, OutcomeIs
<1>7. QED BY <1>5, <1>6 DEF inc, later

LEMMA BusinessRevised ==
  ASSUME EvidenceInv, [ReportNext]_reportVars,
         NEW e \in Facts(Included(batch, asOf), "business_outcome")
  PROVE  BusinessOutcome(Included(batch', asOf'), e.key)
           \in {BusinessOutcome(Included(batch, asOf), e.key), "unknown"}
<1> DEFINE before == Facts(Included(batch, asOf), "business_outcome")
           after == Facts(Included(batch', asOf'), "business_outcome")
           said == {x.outcome : x \in {x \in before : x.key = e.key}}
           saidLater == {x.outcome : x \in {x \in after : x.key = e.key}}
<1>1. before \subseteq after /\ IsFiniteSet(after) BY SaidGrows, Finite DEF Facts
<1>2. said # {} /\ said \subseteq saidLater BY <1>1
<1>3. IsFiniteSet(saidLater)
  <2> DEFINE some == {x \in after : x.key = e.key}
             f == [x \in some |-> x.outcome]
  <2>1. IsFiniteSet(some)
    <3>1. some \in SUBSET after OBVIOUS
    <3> HIDE DEF some, after
    <3>2. QED BY <1>1, <3>1, FS_Subset
  <2>2. DOMAIN f = some /\ saidLater = {f[x] : x \in some} OBVIOUS
  <2> HIDE DEF some, f, saidLater
  <2>3. QED BY <2>1, <2>2, FiniteImage
<1>4. BusinessOutcome(Included(batch, asOf), e.key)
        = IF Cardinality(said) = 1 THEN CHOOSE o \in said : TRUE ELSE "unknown"
  BY DEF BusinessOutcome
<1>5. BusinessOutcome(Included(batch', asOf'), e.key)
        = IF Cardinality(saidLater) = 1 THEN CHOOSE o \in saidLater : TRUE ELSE "unknown"
  BY DEF BusinessOutcome
<1> HIDE DEF said, saidLater
<1>6. CASE Cardinality(saidLater) = 1
  <2>1. said = saidLater BY <1>2, <1>3, <1>6, OneOf
  <2>2. QED BY <1>4, <1>5, <2>1
<1>7. CASE Cardinality(saidLater) # 1 BY <1>5, <1>7
<1>8. QED BY <1>6, <1>7

LEMMA ReportsRevised == EvidenceInv /\ [ReportNext]_reportVars => Revised
<1> SUFFICES ASSUME EvidenceInv, [ReportNext]_reportVars PROVE Revised OBVIOUS
<1>1. QED BY SessionsRevised, BusinessRevised DEF Revised

\* Reports add up, and what they said stands, for any evidence, one event at a
\* time in any order, and any inactivity and clock (MetricEvents.js:171,
\* MetricReporting.js:42).
THEOREM ReportsAreKept == ReportSpec => ReportsStand
<1>1. ReportInit => EvidenceInv BY FS_EmptySet DEF ReportInit, EvidenceInv
<1>2. EvidenceInv /\ [ReportNext]_reportVars => EvidenceInv' BY SaidGrows
<1>3. EvidenceInv => RowsAddUp BY RowsDo
<1>4. EvidenceInv /\ [ReportNext]_reportVars => Revised BY ReportsRevised
<1>5. QED BY <1>1, <1>2, <1>3, <1>4, PTL DEF ReportSpec, ReportsStand

\* So they are in the toolbox that TLC checks (MetricReporting.js:42).
THEOREM ReportsKeptInBox == BoxSpec => ReportsStand
<1>1. BoxInit => ReportInit BY DEF BoxInit
<1>2. [BoxNext]_<<part, vars, cacheVars, metricVars, batchVars, healthVars, booksVars,
                  reportVars, i18nVars>>
        => [ReportNext]_reportVars
  BY DEF BoxNext
<1>3. ReportSpec => ReportsStand BY ReportsAreKept
<1>4. QED BY <1>1, <1>2, <1>3, PTL DEF BoxSpec, ReportSpec
=============================================================================
