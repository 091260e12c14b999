------------------------------- MODULE Storage --------------------------------
(***************************************************************************)
(* The storage adapters on one session, one caller at a time (the engine's *)
(* lock): InMemoryStorage, RedisStorage, MongoDBStorage,                   *)
(* PostgreSQLStorage, the example of a custom adapter on files, and        *)
(* createEncryptedStorage around any of them.  They differ in what an      *)
(* expired session leaves behind: Redis removes the key, in the others the *)
(* record stays until a read, a monitor or a cleanup removes it, and every *)
(* operation looks at its age.                                             *)
(***************************************************************************)
EXTENDS Naturals, Sequences

CONSTANTS
  States, Fields, Values, TTLs, MaxHistory, None, Never,  \* as in SessionStore
  Adapters    \* adapters to choose from

ASSUME StoreAssumption ==
  /\ TTLs \subseteq Nat \ {0} /\ MaxHistory \in Nat \ {0}
  /\ Adapters \subseteq {"memory", "redis", "mongo", "postgres", "file"}
  /\ None \notin States \cup Values /\ Never \notin Nat

VARIABLES
  adapter,    \* which adapter it is
  encrypted,  \* whether the encrypting proxy is around it
  record,     \* the stored record, or None; left = 0: it has expired
  answer      \* what the last operation returned

vars == <<adapter, encrypted, record, answer>>

NoFields == [f \in Fields |-> None]
Data == [Fields -> Values \cup {None}]
Merge(d, e) == [f \in Fields |-> IF e[f] = None THEN d[f] ELSE e[f]]

\* Stored data: fields in the clear, and the fields in _encrypted.
Clear(d) == [plain |-> d, sealed |-> None]
Sealed(d) == [plain |-> NoFields, sealed |-> d]
MergeStored(a, b) ==
  [plain |-> Merge(a.plain, b.plain),
   sealed |-> IF b.sealed = None THEN a.sealed ELSE b.sealed]

\* What is stored of a session, and what is seen of one.
RecordOf(data) ==
  [state : States \cup {None}, data : data, history : Seq(States), left : Nat \cup {Never}]
Records == RecordOf([plain : Data, sealed : Data \cup {None}])

ASSUME NoneAssumption == None \notin Data \cup Records \cup RecordOf(Data)

\* decryptData.
Seen(s) == IF s.sealed = None THEN s.plain ELSE s.sealed

Blank == [state |-> None, data |-> Clear(NoFields), history |-> <<>>, left |-> Never]
Expired == record /= None /\ record.left = 0
-----------------------------------------------------------------------------
(* The proxy: data is merged in the clear and sealed as one value.         *)

SetDataArg(d) ==
  IF ~encrypted THEN Clear(d)
  ELSE Sealed(Merge(IF record = None \/ Expired THEN NoFields ELSE Seen(record.data), d))

SetSessionArg(d) == IF encrypted THEN Sealed(d) ELSE Clear(d)
-----------------------------------------------------------------------------
(* Each adapter's record for a write, and the write.  The next record is   *)
(* one of a set: in Redis the time to live is a second command, which may  *)
(* fail.  An operator marked "Wrong:" is a deliberate error: in the place  *)
(* of the definition that follows it it breaks a property.                 *)

OrBlank(r) == IF r = None THEN Blank ELSE r
State(r, q, t) == [OrBlank(r) EXCEPT !.state = q, !.left = t]
Stored(r, d, t) == [OrBlank(r) EXCEPT !.data = MergeStored(@, d), !.left = t]
NoTTL(r) == OrBlank(r).left

MemoryActive == IF Expired THEN None ELSE record
MemorySetState(q, t) == {State(MemoryActive, q, t)}
MemorySetData(d, t) == {Stored(MemoryActive, d, t)}

RedisSetState(q, t) == {State(record, q, t), State(record, q, NoTTL(record))}
RedisSetData(d, t) == {Stored(record, d, t), Stored(record, d, NoTTL(record))}

\* _removeExpiredSession, and an upsert.
MongoKept == IF Expired THEN None ELSE record
MongoSetState(q, t) == {State(MongoKept, q, t)}
MongoSetData(d, t) == {Stored(MongoKept, d, t)}

\* Wrong: setState keeps an expired row's data and history.
PostgresSetStateKeeps(q, t) == {State(record, q, t)}

\* An upsert that resets what an expired row had.
PostgresSetState(q, t) == {State(IF Expired THEN Blank ELSE record, q, t)}
PostgresSetData(d, t) == {Stored(IF Expired THEN Blank ELSE record, d, t)}

\* A file is read whole, and removed when it is too old.
FileRead == IF Expired THEN None ELSE record
FileSetState(q, t) == {State(FileRead, q, t)}
FileSetData(d, t) == {Stored(FileRead, d, t)}
-----------------------------------------------------------------------------
(* setDataIfStatus: what makes the write happen, and the rewrite.          *)

Status(f, v) == record /= None /\ record.data.plain[f] = v
MemoryMatches(f, v) == ~Expired /\ Status(f, v)
RedisMatches(f, v) == Status(f, v)
MongoMatches(f, v) == ~Expired /\ Status(f, v)
PostgresMatches(f, v) == ~Expired /\ Status(f, v)
Replaced(d, t) == [record EXCEPT !.data = Clear(d), !.left = t]

(* setSession, of a session read before.  Redis leaves out what is empty,  *)
(* PostgreSQL only updates; the time to live stays.                        *)
MemorySetSession(d) == [record EXCEPT !.data = d]
RedisSetSession(d) == [record EXCEPT !.data = d]
MongoSetSession(d) == [record EXCEPT !.data = d]
PostgresSetSession(d) == [record EXCEPT !.data = d]
-----------------------------------------------------------------------------
(* History.                                                                *)

Newest(h, n) == SubSeq(h, Len(h) - n + 1, Len(h))
Trim(h) == IF Len(h) > MaxHistory THEN Newest(h, MaxHistory) ELSE h
Pushed(r, q) == [OrBlank(r) EXCEPT !.history = Trim(Append(@, q))]

MemoryPush(q) == Pushed(MemoryActive, q)
RedisPush(q) == Pushed(record, q)

\* Only an active document or row is updated.
MongoPush(q) == IF record = None \/ Expired THEN record ELSE Pushed(record, q)

\* The new array from an offset on.
Offset(h) == IF Len(h) + 1 > MaxHistory THEN Len(h) + 1 - MaxHistory ELSE 0
PostgresPush(q) ==
  IF record = None \/ Expired THEN record
  ELSE [record EXCEPT !.history = SubSeq(Append(@, q), Offset(@) + 1, Len(@) + 1)]

FilePush(q) == IF FileRead = None THEN None ELSE Pushed(FileRead, q)

HasHistory == record /= None /\ record.history /= <<>>
Popped == [record EXCEPT !.history = SubSeq(@, 1, Len(@) - 1)]
MemoryPops == ~Expired /\ HasHistory
RedisPops == HasHistory
MongoPops == ~Expired /\ HasHistory
PostgresPops == ~Expired /\ HasHistory
FilePops == FileRead /= None /\ HasHistory
-----------------------------------------------------------------------------
(* The operations.                                                         *)

On(a) == adapter = a
Rest == UNCHANGED <<adapter, encrypted>>
Quiet == answer' = None /\ Rest

\* _active: reads see no expired record.
View ==
  IF record = None \/ Expired THEN None
  ELSE [state |-> record.state, data |-> Seen(record.data),
        history |-> record.history, left |-> record.left]

SetState(q, t) ==
  /\ record' \in (CASE On("memory") -> MemorySetState(q, t)
                    [] On("redis") -> RedisSetState(q, t)
                    [] On("mongo") -> MongoSetState(q, t)
                    [] On("postgres") -> PostgresSetState(q, t)
                    [] On("file") -> FileSetState(q, t))
  /\ Quiet

SetData(d, t) ==
  LET s == SetDataArg(d) IN
  /\ record' \in (CASE On("memory") -> MemorySetData(s, t)
                    [] On("redis") -> RedisSetData(s, t)
                    [] On("mongo") -> MongoSetData(s, t)
                    [] On("postgres") -> PostgresSetData(s, t)
                    [] On("file") -> FileSetData(s, t))
  /\ Quiet

\* The proxy hides it: it cannot compare what is sealed.  The custom adapter
\* has none.
SetDataIf(f, v, d, t) ==
  /\ ~encrypted /\ ~On("file")
  /\ answer' = CASE On("memory") -> MemoryMatches(f, v)
                 [] On("redis") -> RedisMatches(f, v)
                 [] On("mongo") -> MongoMatches(f, v)
                 [] On("postgres") -> PostgresMatches(f, v)
  /\ record' = IF answer' THEN Replaced(d, t) ELSE record
  /\ Rest

\* The custom adapter inherits one that merges data and starts a time to
\* live of its own; that is left out.
SetSession(d) ==
  LET s == SetSessionArg(d) IN
  /\ View /= None /\ ~On("file")
  /\ record' = CASE On("memory") -> MemorySetSession(s)
                 [] On("redis") -> RedisSetSession(s)
                 [] On("mongo") -> MongoSetSession(s)
                 [] On("postgres") -> PostgresSetSession(s)
  /\ Quiet

PushHistory(q) ==
  /\ record' = CASE On("memory") -> MemoryPush(q)
                 [] On("redis") -> RedisPush(q)
                 [] On("mongo") -> MongoPush(q)
                 [] On("postgres") -> PostgresPush(q) [] On("file") -> FilePush(q)
  /\ answer' = None /\ Rest

PopHistory ==
  LET pops == CASE On("memory") -> MemoryPops [] On("redis") -> RedisPops
                [] On("mongo") -> MongoPops [] On("postgres") -> PostgresPops
                [] On("file") -> FilePops
  IN
  /\ record' = IF pops THEN Popped ELSE record
  /\ answer' = IF pops THEN record.history[Len(record.history)] ELSE None
  /\ Rest

DeleteSession == record' = None /\ Quiet

\* Time passes; Redis removes what has expired.
Tick ==
  /\ record /= None /\ record.left \notin {0, Never}
  /\ record' = IF On("redis") /\ record.left = 1 THEN None
               ELSE [record EXCEPT !.left = @ - 1]
  /\ UNCHANGED answer /\ Rest

\* A read in memory, MongoDB's monitor, cleanup.
Reap == Expired /\ record' = None /\ UNCHANGED answer /\ Rest

\* The proxy is put around an adapter that has been used without it.
Encrypt ==
  /\ ~encrypted /\ encrypted' = TRUE
  /\ UNCHANGED <<adapter, record, answer>>

Init ==
  /\ adapter \in Adapters /\ encrypted = FALSE
  /\ record = None /\ answer = None

Next ==
  \/ \E q \in States, t \in TTLs : SetState(q, t)
  \/ \E d \in Data, t \in TTLs : SetData(d, t)
  \/ \E f \in Fields, v \in Values, d \in Data, t \in TTLs : SetDataIf(f, v, d, t)
  \/ \E d \in Data : SetSession(d)
  \/ \E q \in States : PushHistory(q)
  \/ PopHistory \/ DeleteSession \/ Tick \/ Reap \/ Encrypt

Spec == Init /\ [][Next]_vars
-----------------------------------------------------------------------------
(* Properties.                                                             *)

Contract == INSTANCE SessionStore WITH session <- View

\* Every adapter, in the clear or encrypted, also after encryption is put
\* around stored sessions, is the session store that the engine expects:
\* nothing of an expired session is seen or inherited, histories are cut
\* alike, and every answer is the store's (docs/STORAGE-CONFORMANCE.md:23).
ImplementsStore == Contract!StoreSpec
=============================================================================
