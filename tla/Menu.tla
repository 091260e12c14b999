-------------------------------- MODULE Menu --------------------------------
(***************************************************************************)
(* Dynamic menus: a menu fetched at run time (sdk/DynamicMenuBuilder.js),  *)
(* the handler the SDK compiles around it (sdk/compiler.js) and the order  *)
(* in which the engine stores what that handler returns                    *)
(* (USSDStateMachine.js).  Between two turns the list a number refers to   *)
(* lives in the session's data as a snapshot: items, page and the state    *)
(* that owns it.                                                           *)
(*                                                                         *)
(* `screen' is what the subscriber last received, `choice' the last item   *)
(* the program took a number for; neither exists in the code.              *)
(***************************************************************************)
EXTENDS Naturals, Sequences

CONSTANTS
  Menus, Plains,   \* states with a dynamic menu; states with a text and routes
  Initial,         \* the state of a new session
  Next0,           \* the state a selection (or an unrouted input) goes to, or None
  Routes,          \* of a plain state: from its route keys to [target, silent]
  Lists,           \* of a menu: the lists its fetcher may return
  MaxItems,        \* .maxItems(limit)
  PageSize,        \* of a menu: items per page, 0 without pagination
  Refresh,         \* of a menu: its refresh key, or None
  MoreKey, BackKey,
  Empty,           \* the empty input that asks for a first display
  Keys,            \* the inputs considered
  MaxHistory,      \* bound on the back-navigation history
  None, Failed

States == Menus \cup Plains

\* What build() refuses to build (lines 158-183): with pagination no control
\* key numbers an item, and the control keys differ.
MenuAssumption ==
  /\ None \notin States /\ Initial \in States /\ Menus \cap Plains = {}
  /\ Next0 \in [States -> States \cup {None}]
  /\ MaxItems \in Nat \ {0} /\ MoreKey \in Nat /\ BackKey \in Nat
  /\ PageSize \in [Menus -> Nat] /\ Refresh \in [Menus -> Nat \cup {None}]
  /\ None \notin Nat /\ Empty \notin Nat \cup {None} /\ MoreKey # BackKey
  /\ \A m \in Menus : PageSize[m] > 0 =>
       /\ {MoreKey, BackKey} \cap (0 .. PageSize[m]) = {}
       /\ Refresh[m] \notin {MoreKey, BackKey} \cup (1 .. PageSize[m])

ASSUME MenuAssumption

(***************************************************************************)
(* What build() does not refuse: without pagination a refresh key may      *)
(* number an item; the conflict is looked for when a list is rendered.     *)
(***************************************************************************)
Unambiguous == \A m \in Menus : Refresh[m] \notin Nat \ {0} \/ PageSize[m] > 0

VARIABLES
  session,  \* the stored session: state, history, menu (_dynamicMenu), done
  screen,   \* what the last answer listed: [state, list], or None
  choice    \* the last selection: [screen, key, item], or None
vars == <<session, screen, choice>>

NoSession == [state |-> None, history |-> <<>>, menu |-> None, done |-> FALSE]
Current == IF session.state = None THEN Initial ELSE session.state

-----------------------------------------------------------------------------
(* Pages and replies                                                       *)

Lesser(a, b) == IF a <= b THEN a ELSE b
Stride(m, items) == IF PageSize[m] > 0 THEN PageSize[m] ELSE Len(items)
LastPage(m, items) == (Len(items) - 1) \div Stride(m, items)
PageItems(m, items, page) ==
  SubSeq(items, page * Stride(m, items) + 1,
         Lesser((page + 1) * Stride(m, items), Len(items)))

SnapshotFirst(m, items, page) == [items |-> items, page |-> 0, owner |-> m]  \* mutant
Snapshot(m, items, page) == [items |-> items, page |-> page, owner |-> m]

\* What a handler returns: the prefix of its text ("throws" when it rejects),
\* the next state, the snapshot it writes, the list it shows, the item it took.
Says(prefix) ==
  [says |-> prefix, next |-> None, writes |-> FALSE, menu |-> None,
   shows |-> None, picks |-> None]

\* buildMenuResponse.
Rendered(m, items, page) ==
  IF Refresh[m] \in 1 .. Len(PageItems(m, items, page)) THEN Says("throws")
  ELSE [Says("CON") EXCEPT !.writes = TRUE, !.menu = Snapshot(m, items, page),
                           !.shows = PageItems(m, items, page)]

-----------------------------------------------------------------------------
(* Handlers                                                                *)

\* What one call of the fetcher brings: a list or an error, and whether the
\* flow's onEmpty or onError would close the session over it.
Fetched(m) == [items : Lists[m] \cup {Failed}, closes : BOOLEAN]
Truncated(items) == SubSeq(items, 1, Lesser(MaxItems, Len(items)))

\* What the snapshot of a menu may be.
SnapshotsOf(m) ==
  [items : {Truncated(list) : list \in Lists[m]}, page : Nat, owner : {m}]
Snapshots == UNION {SnapshotsOf(m) : m \in Menus}

\* Fetchers return lists, and routes lead to states of the program.
ASSUME MenuDataAssumption ==
  /\ \A m \in Menus : \A list \in Lists[m] : list \in Seq({list[i] : i \in DOMAIN list})
  /\ \A p \in Plains : \A key \in DOMAIN Routes[p] :
       Routes[p][key].target \in States \cup {None}
  /\ \A m \in Menus : None \notin SnapshotsOf(m)

UsableAnyOwner(snap, m, reentry) == snap # None /\ ~reentry  \* mutant

\* A snapshot serves the state that displayed it, and no re-entry.
Usable(snap, m, reentry) == snap # None /\ ~reentry /\ snap.owner = m

\* The menu is shown or a number taken from it (lines 237-342).
Answered(m, items, page, key) ==
  CASE PageSize[m] > 0 /\ key = MoreKey /\ page < LastPage(m, items) ->
         Rendered(m, items, page + 1)
    [] PageSize[m] > 0 /\ key = BackKey /\ page > 0 ->
         Rendered(m, items, page - 1)
    [] key \in 1 .. Len(PageItems(m, items, page)) ->
         [Says("picks") EXCEPT !.writes = TRUE, !.picks = PageItems(m, items, page)[key]]
    [] OTHER -> Rendered(m, items, page)

MenuHandler(m, key, snap, reentry, fetched) ==
  LET kept == Usable(snap, m, reentry) /\ key # Refresh[m]
      closing == Says(IF fetched.closes THEN "END" ELSE "CON")
  IN  IF kept THEN Answered(m, snap.items, snap.page, key)
      ELSE IF fetched.items \in {Failed, <<>>} THEN closing
      ELSE Answered(m, Truncated(fetched.items), 0, key)

\* resolveTargetResponse: the text of the state a turn moves to.
Target(t, snap, fetched) ==
  [(IF t \in Menus THEN MenuHandler(t, Empty, snap, FALSE, fetched) ELSE Says("CON"))
     EXCEPT !.next = t]

\* A selection clears the snapshot before the next state is resolved.
Chosen(m, reply, fetched) ==
  LET target == IF Next0[m] = None THEN Says("CON") ELSE Target(Next0[m], None, fetched)
  IN  [target EXCEPT !.writes = TRUE, !.picks = reply.picks]

PlainHandler(p, key, snap, fetched) ==
  LET route == Routes[p][key]
      routed == key # Empty /\ key \in DOMAIN Routes[p]
  IN  CASE key = Empty -> Says("CON")
        [] routed /\ route.target = None -> Says("END")
        [] routed /\ route.target # None /\ route.silent ->
             [Says("CON") EXCEPT !.next = route.target]
        [] routed /\ route.target # None /\ ~route.silent ->
             Target(route.target, snap, fetched)
        [] OTHER -> IF Next0[p] = None THEN Says("CON")
                    ELSE Target(Next0[p], snap, fetched)

\* The compiled handler of state s; `fetched' and `fetchedNext' are what its
\* own menu and the menu of the next state get from their fetchers.
Handler(s, key, snap, reentry, fetched, fetchedNext) ==
  IF s \in Plains THEN PlainHandler(s, key, snap, fetchedNext)
  ELSE LET reply == MenuHandler(s, key, snap, reentry, fetched)
       IN  IF reply.says = "picks" THEN Chosen(s, reply, fetchedNext) ELSE reply

-----------------------------------------------------------------------------
(* A turn: the handler, then the engine's writes in their order.  A turn   *)
(* that is answered has made them all; one whose storage fails, or whose   *)
(* deadline passes, may have made any prefix, and shows no list.           *)

Noted(s, reply) == IF reply.writes THEN [s EXCEPT !.menu = reply.menu] ELSE s
Ended(s, reply) == [s EXCEPT !.done = reply.says = "END"]

Answer(s, reply) ==
  /\ reply.says # "throws"
  /\ session' = Ended(Noted(s, reply), reply)
  /\ screen' = IF reply.shows = None \/ reply.says = "END" THEN None
               ELSE [state |-> s.state, list |-> reply.shows]

Fails(writes) ==
  /\ session' \in writes
  /\ screen' = None

Remember(key, reply) ==
  choice' = IF reply.picks = None THEN choice
            ELSE [screen |-> screen, key |-> key, item |-> reply.picks]

\* 0 asks for the previous state, unless the state uses 0 itself.
GoesBack(key) ==
  /\ key = 0 /\ session.history # <<>>
  /\ Current \in Menus => Refresh[Current] # 0
  /\ Current \in Plains => 0 \notin DOMAIN Routes[Current]

Pushed(reply) ==
  IF reply.next \in {None, Current} THEN session
  ELSE [session EXCEPT !.history = Append(@, Current)]

Placed(s, reply) ==
  IF reply.says = "END" /\ reply.next = None /\ session.state # None THEN s
  ELSE [s EXCEPT !.state = IF reply.next = None THEN Current ELSE reply.next]

Forward(key, reply) ==
  LET pushed == Pushed(reply)
      placed == Placed(pushed, reply)
  IN  /\ ~GoesBack(key)
      /\ Len(pushed.history) <= MaxHistory
      /\ Remember(key, reply)
      /\ \/ Answer(placed, reply)
         \/ Fails(IF reply.says = "throws" THEN {session}
                  ELSE {session, pushed, placed, Noted(placed, reply)})

\* goBack, then the previous state's handler with empty input.
Back(key, fetched) ==
  LET n == Len(session.history)
      previous == session.history[n]
      popped == [session EXCEPT !.history = SubSeq(@, 1, n - 1)]
      placed == [popped EXCEPT !.state = previous]
      reply == Handler(previous, Empty, session.menu, TRUE, fetched, fetched)
  IN  /\ GoesBack(key)
      /\ UNCHANGED choice
      /\ \/ Answer(placed, reply)
         \/ Fails({session, popped, placed}
                  \cup IF reply.says = "throws" THEN {} ELSE {Noted(placed, reply)})

\* The menus a turn of the current state may fetch from.
FetchedBy(s) == IF s \in Menus THEN Fetched(s) ELSE {[items |-> Failed, closes |-> TRUE]}
NextOf(s, key) ==
  IF s \in Plains /\ key \in DOMAIN Routes[s] THEN Routes[s][key].target ELSE Next0[s]

Turn(key) ==
  /\ ~session.done
  /\ \/ \E fetched \in FetchedBy(Current), fetchedNext \in FetchedBy(NextOf(Current, key)) :
          Forward(key, Handler(Current, key, session.menu, FALSE, fetched, fetchedNext))
     \/ /\ session.history # <<>>
        /\ \E fetched \in FetchedBy(session.history[Len(session.history)]) :
             Back(key, fetched)

\* The session's time to live ends, or a finished session is deleted.
Expire ==
  /\ session # NoSession
  /\ session' = NoSession /\ screen' = None
  /\ UNCHANGED choice

Init == session = NoSession /\ screen = None /\ choice = None
Next == Expire \/ \E key \in Keys : Turn(key)
Spec == Init /\ [][Next]_vars

-----------------------------------------------------------------------------
(* Properties                                                              *)

(***************************************************************************)
(* "Selection uses the displayed snapshot" (docs/MIGRATING-TO-3.md:13): a  *)
(* number taken as a selection while a list is on the subscriber's screen  *)
(* selects the item that list shows under it, whatever the data source     *)
(* returns meanwhile, and no page key, refresh or back navigation in       *)
(* between changes that.                                                   *)
(***************************************************************************)
SelectionAsShown ==
  choice # None /\ choice.screen # None =>
    /\ choice.key \in 1 .. Len(choice.screen.list)
    /\ choice.item = choice.screen.list[choice.key]

\* A menu never shows another menu's items: a snapshot outlives its state
\* when the back key leaves it (DynamicMenuBuilder.js:203-208).
OwnItems ==
  screen # None =>
    \E list \in Lists[screen.state] :
      \A i \in 1 .. Len(screen.list) : \E j \in 1 .. Len(list) : list[j] = screen.list[i]

\* The list and the number that refers to it are of one menu and one moment.
MenusAsShown == OwnItems /\ SelectionAsShown
=============================================================================
