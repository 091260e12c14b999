-------------------------- MODULE ApplicationsProofs --------------------------
(***************************************************************************)
(* What applications are built from: dynamic menus whose numbers refer to  *)
(* what is on the screen, flows that ask for what they take, plugins that  *)
(* stay usable, the market's stock and orders, the local workbench and the *)
(* replay of what it recorded.  Each part is proved on its own, for any    *)
(* programs, plugins, products, sessions and scripts.                      *)
(***************************************************************************)
EXTENDS Menu, Flow, Market, Plugins, Workbench, Replay, FiniteSetTheorems, SequenceTheorems,
        TLAPS

-----------------------------------------------------------------------------
(* Dynamic menus.                                                          *)

\* A page is a part of its list, no longer than the menu's page.
LEMMA PageIsPart ==
  ASSUME NEW m \in Menus, NEW S, NEW items \in Seq(S), NEW page \in Nat
  PROVE  /\ Len(PageItems(m, items, page)) \in Nat
         /\ PageSize[m] > 0 => Len(PageItems(m, items, page)) <= PageSize[m]
         /\ \A i \in 1 .. Len(PageItems(m, items, page)) :
              \E j \in 1 .. Len(items) : items[j] = PageItems(m, items, page)[i]
<1> DEFINE n == Stride(m, items)
           a == page * n
           first == a + 1
           last == Lesser((page + 1) * n, Len(items))
<1>1. PageSize[m] \in Nat /\ Len(items) \in Nat BY MenuAssumption DEF MenuAssumption
<1>2. n \in Nat BY <1>1 DEF Stride
<1>3. a \in Nat BY <1>2
<1>4. (page + 1) * n = a + n BY <1>2
<1>5. last \in Nat /\ last <= Len(items) /\ last <= a + n
  BY <1>1, <1>2, <1>3, <1>4 DEF Lesser
<1> HIDE DEF n, a, last
<1>6. \A i \in first .. last : items[i] \in S BY <1>1, <1>3, <1>5
<1>7. PageItems(m, items, page) = SubSeq(items, first, last) BY DEF PageItems, a, n, last
<1>8. /\ Len(SubSeq(items, first, last)) = IF first <= last THEN last - first + 1 ELSE 0
      /\ \A i \in 1 .. last - first + 1 :
           SubSeq(items, first, last)[i] = items[first + i - 1]
  <2>1. first \in Int /\ last \in Int BY <1>3, <1>5
  <2> HIDE DEF first
  <2>2. QED BY <2>1, <1>6, SubSeqProperties
<1>9. Len(SubSeq(items, first, last)) \in Nat /\ Len(SubSeq(items, first, last)) <= n
  BY <1>2, <1>3, <1>5, <1>8
<1>10. ASSUME NEW i \in 1 .. Len(SubSeq(items, first, last))
       PROVE  \E j \in 1 .. Len(items) : items[j] = SubSeq(items, first, last)[i]
  <2>1. first + i - 1 \in 1 .. Len(items) /\ i \in 1 .. last - first + 1
    BY <1>1, <1>3, <1>5, <1>8
  <2>2. QED BY <1>8, <2>1
<1>11. PageSize[m] > 0 => n = PageSize[m] BY DEF n, Stride
<1>12. QED BY <1>7, <1>9, <1>10, <1>11

\* A list from a fetcher is cut to the first items of it.
LEMMA ListsAreCut ==
  ASSUME NEW m \in Menus, NEW list \in Lists[m]
  PROVE  /\ Truncated(list) \in Seq({list[i] : i \in DOMAIN list})
         /\ \A i \in 1 .. Len(Truncated(list)) :
              \E j \in 1 .. Len(list) : list[j] = Truncated(list)[i]
<1> DEFINE S == {list[i] : i \in DOMAIN list}
           n == Lesser(MaxItems, Len(list))
<1>1. list \in Seq(S) /\ Len(list) \in Nat /\ DOMAIN list = 1 .. Len(list)
  BY MenuDataAssumption
<1>2. n \in Nat /\ n <= Len(list) BY <1>1, MenuAssumption DEF MenuAssumption, Lesser
<1> HIDE DEF n
<1>3. \A i \in 1 .. n : list[i] \in S BY <1>1, <1>2
<1> HIDE DEF S
<1>4. /\ SubSeq(list, 1, n) \in Seq(S)
      /\ Len(SubSeq(list, 1, n)) = IF 1 <= n THEN n - 1 + 1 ELSE 0
      /\ \A i \in 1 .. n - 1 + 1 : SubSeq(list, 1, n)[i] = list[1 + i - 1]
  BY <1>2, <1>3, SubSeqProperties
<1>5. Truncated(list) = SubSeq(list, 1, n) BY DEF Truncated, n
<1>6. \A i \in 1 .. Len(SubSeq(list, 1, n)) : i \in 1 .. Len(list) /\ SubSeq(list, 1, n)[i] = list[i]
  BY <1>1, <1>2, <1>4
<1>7. QED BY <1>4, <1>5, <1>6 DEF S

LEMMA SnapshotIs ==
  ASSUME NEW s \in Snapshots
  PROVE  /\ s.owner \in Menus /\ s.page \in Nat /\ s # None
         /\ \E list \in Lists[s.owner] : s.items = Truncated(list)
BY MenuDataAssumption DEF Snapshots, SnapshotsOf

LEMMA MakesSnapshot ==
  ASSUME NEW m \in Menus, NEW list \in Lists[m], NEW page \in Nat
  PROVE  Snapshot(m, Truncated(list), page) \in Snapshots
BY DEF Snapshot, Snapshots, SnapshotsOf

\* Each page of a snapshot.
LEMMA SnapshotPages ==
  ASSUME NEW s \in Snapshots, NEW page \in Nat
  PROVE  /\ Len(PageItems(s.owner, s.items, page)) \in Nat
         /\ PageSize[s.owner] > 0 => Len(PageItems(s.owner, s.items, page)) <= PageSize[s.owner]
         /\ \E list \in Lists[s.owner] : \A i \in 1 .. Len(PageItems(s.owner, s.items, page)) :
              \E j \in 1 .. Len(list) : list[j] = PageItems(s.owner, s.items, page)[i]
<1>1. PICK list \in Lists[s.owner] : s.items = Truncated(list) BY SnapshotIs
<1>2. s.owner \in Menus BY SnapshotIs
<1> DEFINE S == {list[i] : i \in DOMAIN list}
<1>3. s.items \in Seq(S) /\ \A i \in 1 .. Len(s.items) :
        \E j \in 1 .. Len(list) : list[j] = s.items[i]
  BY <1>1, <1>2, ListsAreCut
<1> HIDE DEF S
<1>4. /\ Len(PageItems(s.owner, s.items, page)) \in Nat
      /\ PageSize[s.owner] > 0 => Len(PageItems(s.owner, s.items, page)) <= PageSize[s.owner]
      /\ \A i \in 1 .. Len(PageItems(s.owner, s.items, page)) :
              \E j \in 1 .. Len(s.items) : s.items[j] = PageItems(s.owner, s.items, page)[i]
  <2> DEFINE m == s.owner
             items == s.items
  <2>1. m \in Menus /\ items \in Seq(S) BY <1>2, <1>3
  <2> HIDE DEF m, items
  <2>2. /\ Len(PageItems(m, items, page)) \in Nat
        /\ PageSize[m] > 0 => Len(PageItems(m, items, page)) <= PageSize[m]
        /\ \A i \in 1 .. Len(PageItems(m, items, page)) :
             \E j \in 1 .. Len(items) : items[j] = PageItems(m, items, page)[i]
    BY <2>1, PageIsPart
  <2>3. QED BY <2>2 DEF m, items
<1>5. QED BY <1>1, <1>3, <1>4

-----------------------------------------------------------------------------

Fields == {"says", "next", "writes", "menu", "shows", "picks"}

\* A reply that shows a list has written the snapshot that the list is a page
\* of, in the name of the state it leads to.
Shows(s, r) ==
  /\ DOMAIN r = Fields
  /\ r.menu \in Snapshots \cup {None}
  /\ r.shows # None =>
       /\ s \in Menus /\ r.writes /\ r.menu \in Snapshots /\ r.menu.owner = s
       /\ r.shows = PageItems(s, r.menu.items, r.menu.page)

\* An item is taken from the snapshot's page, unless there is no snapshot to
\* take it from, or it is the refresh key that numbers it.
TakesFrom(m, r, key, snap, reentry) ==
  r.picks # None =>
    \/ /\ Usable(snap, m, reentry)
       /\ key \in 1 .. Len(PageItems(m, snap.items, snap.page))
       /\ r.picks = PageItems(m, snap.items, snap.page)[key]
    \/ ~Usable(snap, m, reentry)
    \/ key = Refresh[m] /\ key \in Nat \ {0} /\ (PageSize[m] > 0 => key <= PageSize[m])

LEMMA RenderedShows ==
  ASSUME NEW s \in Snapshots, NEW page \in Nat, NEW r, r = Rendered(s.owner, s.items, page)
  PROVE  /\ Shows(s.owner, r) /\ r.picks = None /\ r.next = None /\ r.says \in {"CON", "throws"}
<1>1. PICK list \in Lists[s.owner] : s.items = Truncated(list) BY SnapshotIs
<1>2. s.owner \in Menus BY SnapshotIs
<1>3. Snapshot(s.owner, s.items, page) \in Snapshots BY <1>1, <1>2, MakesSnapshot
<1> DEFINE w == Snapshot(s.owner, s.items, page)
<1>4. w.owner = s.owner /\ w.items = s.items /\ w.page = page BY DEF Snapshot
<1> HIDE DEF w
<1>5. CASE r = Says("throws") BY <1>5 DEF Says, Shows, Fields
<1>6. CASE r = [Says("CON") EXCEPT !.writes = TRUE, !.menu = w,
                                  !.shows = PageItems(s.owner, s.items, page)]
  <2>1. /\ r.writes = TRUE /\ r.menu = w /\ r.shows = PageItems(s.owner, s.items, page)
        /\ r.picks = None /\ r.next = None /\ r.says = "CON" /\ DOMAIN r = Fields
    BY <1>6 DEF Says, Fields
  <2>2. QED BY <1>2, <1>3, <1>4, <2>1 DEF Shows, w
<1>7. QED BY <1>5, <1>6 DEF Rendered, w

LEMMA AnsweredShows ==
  ASSUME NEW s \in Snapshots, NEW key, NEW r, r = Answered(s.owner, s.items, s.page, key)
  PROVE  /\ Shows(s.owner, r) /\ r.next = None
         /\ r.picks # None =>
              /\ key \in 1 .. Len(PageItems(s.owner, s.items, s.page))
              /\ r.picks = PageItems(s.owner, s.items, s.page)[key]
         /\ r.says = "picks" => key \in 1 .. Len(PageItems(s.owner, s.items, s.page))
         /\ r.says \in {"CON", "throws", "picks"}
<1>1. s.page \in Nat BY SnapshotIs
<1> DEFINE on == PageItems(s.owner, s.items, s.page)
<1>2. \/ \E page \in Nat : r = Rendered(s.owner, s.items, page)
      \/ key \in 1 .. Len(on) /\ r = [Says("picks") EXCEPT !.writes = TRUE, !.picks = on[key]]
  <2>1. s.page + 1 \in Nat /\ (s.page > 0 => s.page - 1 \in Nat) BY <1>1
  <2> HIDE DEF on
  <2>2. \/ r = Rendered(s.owner, s.items, s.page + 1)
        \/ s.page > 0 /\ r = Rendered(s.owner, s.items, s.page - 1)
        \/ key \in 1 .. Len(on) /\ r = [Says("picks") EXCEPT !.writes = TRUE, !.picks = on[key]]
        \/ r = Rendered(s.owner, s.items, s.page)
    <3> DEFINE A == PageSize[s.owner] > 0 /\ key = MoreKey /\ s.page < LastPage(s.owner, s.items)
               B == PageSize[s.owner] > 0 /\ key = BackKey /\ s.page > 0
               C == key \in 1 .. Len(on)
               a == Rendered(s.owner, s.items, s.page + 1)
               b == Rendered(s.owner, s.items, s.page - 1)
               c == [Says("picks") EXCEPT !.writes = TRUE, !.picks = on[key]]
               d == Rendered(s.owner, s.items, s.page)
    <3>1. r = CASE A -> a [] B -> b [] C -> c [] OTHER -> d BY DEF Answered, on
    <3>2. B => s.page > 0 OBVIOUS
    <3> HIDE DEF A, B, C, a, b, c, d
    <3>3. (A /\ r = a) \/ (B /\ r = b) \/ (C /\ r = c) \/ r = d BY <3>1
    <3>4. QED BY <3>2, <3>3 DEF C, a, b, c, d
  <2>3. QED BY <1>1, <2>1, <2>2
<1>3. CASE \E page \in Nat : r = Rendered(s.owner, s.items, page)
  BY <1>3, RenderedShows
<1>4. CASE key \in 1 .. Len(on) /\ r = [Says("picks") EXCEPT !.writes = TRUE, !.picks = on[key]]
  <2> HIDE DEF on
  <2>1. /\ r.writes = TRUE /\ r.menu = None /\ r.shows = None /\ r.picks = on[key]
        /\ r.next = None /\ r.says = "picks" /\ DOMAIN r = Fields
    BY <1>4 DEF Says, Fields
  <2>2. QED BY <1>4, <2>1 DEF Shows, on
<1>5. QED BY <1>2, <1>3, <1>4

LEMMA SaysOnly ==
  ASSUME NEW prefix, NEW s, NEW r, r = Says(prefix)
  PROVE  Shows(s, r) /\ r.next = None /\ r.picks = None /\ r.says = prefix
BY DEF Says, Shows, Fields

LEMMA MenuHandlerShows ==
  ASSUME NEW m \in Menus, NEW key, NEW snap \in Snapshots \cup {None}, NEW reentry,
         NEW fetched \in Fetched(m), NEW r, r = MenuHandler(m, key, snap, reentry, fetched)
  PROVE  /\ Shows(m, r) /\ r.next = None /\ TakesFrom(m, r, key, snap, reentry)
         /\ key = Empty => r.picks = None /\ r.says # "picks"
<1> DEFINE kept == Usable(snap, m, reentry) /\ key # Refresh[m]
           closing == Says(IF fetched.closes THEN "END" ELSE "CON")
           new == Snapshot(m, Truncated(fetched.items), 0)
<1>1. ASSUME NEW s \in Snapshots, key \in 1 .. Len(PageItems(s.owner, s.items, s.page))
      PROVE  /\ key \in Nat \ {0} /\ key # Empty
             /\ PageSize[s.owner] > 0 => key <= PageSize[s.owner]
  <2>1. Len(PageItems(s.owner, s.items, s.page)) \in Nat
        /\ (PageSize[s.owner] > 0 =>
              Len(PageItems(s.owner, s.items, s.page)) <= PageSize[s.owner])
    BY SnapshotIs, SnapshotPages
  <2>2. s.owner \in Menus BY SnapshotIs
  <2>3. PageSize[s.owner] \in Nat BY <2>2, MenuAssumption DEF MenuAssumption
  <2>4. Empty \notin Nat BY MenuAssumption DEF MenuAssumption
  <2>5. QED BY <1>1, <2>1, <2>3, <2>4
<1>2. CASE kept
  <2>1. snap \in Snapshots /\ snap.owner = m BY <1>2, SnapshotIs DEF Usable
  <2>2. r = Answered(snap.owner, snap.items, snap.page, key)
    BY <1>2, <2>1 DEF MenuHandler
  <2>3. /\ Shows(snap.owner, r) /\ r.next = None
        /\ r.picks # None =>
             /\ key \in 1 .. Len(PageItems(snap.owner, snap.items, snap.page))
             /\ r.picks = PageItems(snap.owner, snap.items, snap.page)[key]
        /\ r.says = "picks" => key \in 1 .. Len(PageItems(snap.owner, snap.items, snap.page))
    BY <2>1, <2>2, AnsweredShows, ZenonT(40)
  <2>4. key = Empty => r.picks = None /\ r.says # "picks" BY <1>1, <2>1, <2>3
  <2>5. QED BY <1>2, <2>1, <2>3, <2>4 DEF TakesFrom
<1>3. CASE ~kept /\ fetched.items \in {Failed, <<>>}
  <2>1. PICK prefix \in {"CON", "END"} : r = Says(prefix) BY <1>3 DEF MenuHandler
  <2>2. QED BY <2>1, SaysOnly DEF TakesFrom
<1>4. CASE ~kept /\ fetched.items \notin {Failed, <<>>}
  <2>1. fetched.items \in Lists[m] BY <1>4 DEF Fetched
  <2>2. new \in Snapshots BY <2>1, MakesSnapshot
  <2>3. /\ new.owner = m /\ new.items = Truncated(fetched.items) /\ new.page = 0
    BY DEF Snapshot
  <2>4. r = Answered(m, Truncated(fetched.items), 0, key) BY <1>4 DEF MenuHandler
  <2> HIDE DEF new
  <2>5. r = Answered(new.owner, new.items, new.page, key) BY <2>3, <2>4
  <2>6. /\ Shows(new.owner, r) /\ r.next = None
        /\ r.picks # None => key \in 1 .. Len(PageItems(new.owner, new.items, new.page))
        /\ r.says = "picks" => key \in 1 .. Len(PageItems(new.owner, new.items, new.page))
    BY <2>2, <2>5, AnsweredShows
  <2>7. /\ key = Empty => r.picks = None /\ r.says # "picks"
        /\ r.picks # None => key \in Nat \ {0} /\ (PageSize[m] > 0 => key <= PageSize[m])
    BY <1>1, <2>2, <2>3, <2>6
  <2>8. QED BY <1>4, <2>3, <2>6, <2>7 DEF TakesFrom
<1>5. QED BY <1>2, <1>3, <1>4

\* The text of the state a turn moves to takes nothing.
LEMMA TargetShows ==
  ASSUME NEW t \in States, NEW snap \in Snapshots \cup {None}, NEW fetched \in FetchedBy(t),
         NEW r, r = Target(t, snap, fetched)
  PROVE  Shows(t, r) /\ r.next = t /\ r.picks = None
<1> DEFINE x == IF t \in Menus THEN MenuHandler(t, Empty, snap, FALSE, fetched) ELSE Says("CON")
<1>1. Shows(t, x) /\ x.picks = None
  <2>1. CASE t \in Menus
    <3>1. fetched \in Fetched(t) BY <2>1 DEF FetchedBy
    <3>2. x = MenuHandler(t, Empty, snap, FALSE, fetched) BY <2>1
    <3> HIDE DEF x
    <3>3. QED BY <2>1, <3>1, <3>2, MenuHandlerShows
  <2>2. CASE t \notin Menus BY <2>2, SaysOnly
  <2>3. QED BY <2>1, <2>2
<1>2. r = [x EXCEPT !.next = t] BY DEF Target
<1> HIDE DEF x
<1>3. /\ r.menu = x.menu /\ r.shows = x.shows /\ r.writes = x.writes /\ r.picks = x.picks
      /\ r.next = t /\ DOMAIN r = Fields
  BY <1>1, <1>2 DEF Shows, Fields
<1>4. QED BY <1>1, <1>3 DEF Shows

Lands(s, r) == IF r.next = None THEN s ELSE r.next

LEMMA ChosenShows ==
  ASSUME NEW m \in Menus, NEW reply, NEW fetched \in FetchedBy(Next0[m]),
         NEW r, r = Chosen(m, reply, fetched)
  PROVE  /\ r.next \in States \cup {None} /\ Shows(Lands(m, r), r)
         /\ r.picks = reply.picks
<1> DEFINE x == IF Next0[m] = None THEN Says("CON") ELSE Target(Next0[m], None, fetched)
<1>1. Next0[m] \in States \cup {None} /\ None \notin States
  BY MenuAssumption DEF MenuAssumption, States
<1>2. x.next \in States \cup {None} /\ Shows(Lands(m, x), x)
  <2>1. CASE Next0[m] = None BY <2>1, SaysOnly DEF Lands
  <2>2. CASE Next0[m] # None
    <3>1. x = Target(Next0[m], None, fetched) BY <2>2
    <3> HIDE DEF x
    <3>2. Shows(Next0[m], x) /\ x.next = Next0[m] BY <1>1, <2>2, <3>1, TargetShows
    <3>3. QED BY <1>1, <2>2, <3>2 DEF Lands
  <2>3. QED BY <2>1, <2>2
<1>3. r = [x EXCEPT !.writes = TRUE, !.picks = reply.picks] BY DEF Chosen
<1> HIDE DEF x
<1>4. /\ r.menu = x.menu /\ r.shows = x.shows /\ r.writes = TRUE /\ r.picks = reply.picks
      /\ r.next = x.next /\ DOMAIN r = Fields
  BY <1>2, <1>3 DEF Shows, Fields
<1>5. QED BY <1>2, <1>4 DEF Shows, Lands

LEMMA PlainShows ==
  ASSUME NEW p \in Plains, NEW key, NEW snap \in Snapshots \cup {None},
         NEW fetched \in FetchedBy(NextOf(p, key)), NEW r, r = PlainHandler(p, key, snap, fetched)
  PROVE  r.next \in States \cup {None} /\ Shows(Lands(p, r), r) /\ r.picks = None
<1> DEFINE t == NextOf(p, key)
<1>1. /\ t \in States \cup {None} /\ None \notin States
      /\ key \in DOMAIN Routes[p] => t = Routes[p][key].target
      /\ key \notin DOMAIN Routes[p] => t = Next0[p]
  BY MenuAssumption, MenuDataAssumption DEF MenuAssumption, States, NextOf
<1>2. \/ \E prefix \in {"CON", "END"} : r = Says(prefix)
      \/ t # None /\ r = [Says("CON") EXCEPT !.next = t]
      \/ t # None /\ r = Target(t, snap, fetched)
  BY <1>1 DEF PlainHandler
<1> HIDE DEF t
<1>3. CASE \E prefix \in {"CON", "END"} : r = Says(prefix) BY <1>3, SaysOnly DEF Lands
<1>4. CASE t # None /\ r = [Says("CON") EXCEPT !.next = t]
  <2>1. r.next = t /\ r.menu = None /\ r.shows = None /\ r.picks = None /\ DOMAIN r = Fields
    BY <1>4 DEF Says, Fields
  <2>2. QED BY <1>1, <2>1 DEF Shows, Lands
<1>5. CASE t # None /\ r = Target(t, snap, fetched)
  <2>1. t \in States /\ fetched \in FetchedBy(t) BY <1>1, <1>5 DEF t
  <2>2. Shows(t, r) /\ r.next = t /\ r.picks = None BY <1>5, <2>1, TargetShows
  <2>3. QED BY <1>1, <2>1, <2>2 DEF Lands
<1>6. QED BY <1>2, <1>3, <1>4, <1>5

LEMMA HandlerShows ==
  ASSUME NEW s \in States, NEW key, NEW snap \in Snapshots \cup {None}, NEW reentry,
         NEW fetched \in FetchedBy(s), NEW fetchedNext \in FetchedBy(NextOf(s, key)),
         NEW r, r = Handler(s, key, snap, reentry, fetched, fetchedNext)
  PROVE  /\ r.next \in States \cup {None} /\ Shows(Lands(s, r), r)
         /\ s \in Menus => TakesFrom(s, r, key, snap, reentry)
         /\ s \in Plains => r.picks = None
<1>1. Menus \cap Plains = {} /\ States = Menus \cup Plains
  BY MenuAssumption DEF MenuAssumption, States
<1>2. CASE s \in Plains
  <2>1. r = PlainHandler(s, key, snap, fetchedNext) BY <1>2 DEF Handler
  <2>2. QED BY <1>1, <1>2, <2>1, PlainShows
<1>3. CASE s \in Menus
  <2> DEFINE reply == MenuHandler(s, key, snap, reentry, fetched)
  <2>1. r = IF reply.says = "picks" THEN Chosen(s, reply, fetchedNext) ELSE reply
    BY <1>1, <1>3 DEF Handler
  <2>2. fetched \in Fetched(s) BY <1>3 DEF FetchedBy
  <2>3. fetchedNext \in FetchedBy(Next0[s]) BY <1>1, <1>3 DEF NextOf
  <2> HIDE DEF reply
  <2>4. Shows(s, reply) /\ reply.next = None /\ TakesFrom(s, reply, key, snap, reentry)
    BY <1>3, <2>2, MenuHandlerShows DEF reply
  <2>5. CASE r = reply BY <1>1, <1>3, <2>4, <2>5 DEF Lands
  <2>6. CASE r = Chosen(s, reply, fetchedNext)
    <3>1. /\ r.next \in States \cup {None} /\ Shows(Lands(s, r), r) /\ r.picks = reply.picks
      BY <1>3, <2>3, <2>6, ChosenShows
    <3>2. TakesFrom(s, r, key, snap, reentry) BY <2>4, <3>1 DEF TakesFrom
    <3>3. QED BY <1>1, <1>3, <3>1, <3>2
  <2>7. QED BY <2>1, <2>5, <2>6
<1>4. QED BY <1>1, <1>2, <1>3

\* A first display stays where it is and takes nothing.
LEMMA DisplayShows ==
  ASSUME NEW s \in States, NEW snap \in Snapshots \cup {None}, NEW reentry,
         NEW fetched \in FetchedBy(s), NEW fetchedNext,
         NEW r, r = Handler(s, Empty, snap, reentry, fetched, fetchedNext)
  PROVE  Shows(s, r)
<1>1. Menus \cap Plains = {} /\ States = Menus \cup Plains
  BY MenuAssumption DEF MenuAssumption, States
<1>2. CASE s \in Plains
  <2>1. r = Says("CON") BY <1>2 DEF Handler, PlainHandler
  <2>2. QED BY <2>1, SaysOnly
<1>3. CASE s \in Menus
  <2> DEFINE reply == MenuHandler(s, Empty, snap, reentry, fetched)
  <2>1. r = IF reply.says = "picks" THEN Chosen(s, reply, fetchedNext) ELSE reply
    BY <1>1, <1>3 DEF Handler
  <2>2. fetched \in Fetched(s) BY <1>3 DEF FetchedBy
  <2> HIDE DEF reply
  <2>3. Shows(s, reply) /\ reply.says # "picks" BY <1>3, <2>2, MenuHandlerShows DEF reply
  <2>4. QED BY <2>1, <2>3
<1>4. QED BY <1>1, <1>2, <1>3

MenuSessions ==
  [state : States \cup {None}, history : Seq(States), menu : Snapshots \cup {None},
   done : BOOLEAN]

\* What is on the screen is a page of the stored snapshot, and the stored state
\* is the one that shows it.
Displayed ==
  screen # None =>
    /\ session.state \in Menus /\ screen.state = session.state
    /\ session.menu \in Snapshots /\ session.menu.owner = session.state
    /\ screen.list = PageItems(session.state, session.menu.items, session.menu.page)

MenuInv == session \in MenuSessions /\ Displayed /\ SelectionAsShown

LEMMA StatesAre == /\ None \notin States /\ States = Menus \cup Plains /\ Menus \cap Plains = {}
                   /\ Initial \in States
BY MenuAssumption DEF MenuAssumption, States

LEMMA MenuStarts == Init => MenuInv
<1> SUFFICES ASSUME Init PROVE MenuInv OBVIOUS
<1>1. session \in MenuSessions BY DEF Init, NoSession, MenuSessions
<1>2. QED BY <1>1 DEF Init, MenuInv, Displayed, SelectionAsShown

LEMMA CurrentIsState ==
  ASSUME session \in MenuSessions
  PROVE  Current \in States /\ (session.state # None => Current = session.state)
BY StatesAre DEF Current, MenuSessions

\* The writes of a turn keep the session in shape.
LEMMA WritesAre ==
  ASSUME NEW v \in MenuSessions, NEW s, NEW r, Shows(s, r)
  PROVE  /\ Noted(v, r) \in MenuSessions
         /\ Noted(v, r).state = v.state
         /\ Noted(v, r).menu = IF r.writes THEN r.menu ELSE v.menu
         /\ Ended(v, r) \in MenuSessions
         /\ Ended(v, r).state = v.state /\ Ended(v, r).menu = v.menu
<1>1. r.menu \in Snapshots \cup {None} BY DEF Shows
<1>2. (r.says = "END") \in BOOLEAN OBVIOUS
<1>3. QED BY <1>1, <1>2 DEF Noted, Ended, MenuSessions

\* The answer of a turn whose reply suits the state it is stored under.
LEMMA AnswerDisplays ==
  ASSUME NEW v \in MenuSessions, NEW r, Shows(v.state, r), Answer(v, r)
  PROVE  session' \in MenuSessions /\ Displayed'
<1> DEFINE n == Noted(v, r)
<1>1. /\ n \in MenuSessions /\ n.state = v.state
      /\ n.menu = IF r.writes THEN r.menu ELSE v.menu
  BY WritesAre
<1>2. session' = Ended(n, r) BY DEF Answer
<1> HIDE DEF n
<1>3. /\ session' \in MenuSessions /\ session'.state = n.state /\ session'.menu = n.menu
  BY <1>1, <1>2, WritesAre
<1>4. ASSUME screen' # None
      PROVE  r.shows # None /\ screen' = [state |-> v.state, list |-> r.shows]
  BY <1>4 DEF Answer
<1>5. Displayed' BY <1>1, <1>3, <1>4 DEF Displayed, Shows
<1>6. QED BY <1>3, <1>5

\* With no ambiguous refresh key, the item taken is the one on the screen.
LEMMA RememberedAsShown ==
  ASSUME Unambiguous, MenuInv, NEW key, NEW r, Remember(key, r),
         Current \in Menus => TakesFrom(Current, r, key, session.menu, FALSE),
         Current \in Plains => r.picks = None
  PROVE  SelectionAsShown'
<1>1. CASE r.picks = None BY <1>1 DEF Remember, MenuInv, SelectionAsShown
<1>2. CASE r.picks # None
  <2>1. choice' = [screen |-> screen, key |-> key, item |-> r.picks] BY <1>2 DEF Remember
  <2>2. SUFFICES ASSUME screen # None
                 PROVE  key \in 1 .. Len(screen.list) /\ r.picks = screen.list[key]
    BY <2>1 DEF SelectionAsShown
  <2>3. /\ session.state \in Menus /\ session.menu \in Snapshots
        /\ session.menu.owner = session.state
        /\ screen.list = PageItems(session.state, session.menu.items, session.menu.page)
    BY <2>2 DEF MenuInv, Displayed
  <2>4. Current = session.state BY <2>3, StatesAre DEF Current
  <2>5. Usable(session.menu, Current, FALSE) BY <2>3, <2>4, SnapshotIs DEF Usable
  <2>6. ~(key = Refresh[Current] /\ key \in Nat \ {0}
          /\ (PageSize[Current] > 0 => key <= PageSize[Current]))
    <3>1. SUFFICES ASSUME key = Refresh[Current], key \in Nat \ {0},
                          PageSize[Current] > 0 => key <= PageSize[Current]
                   PROVE  FALSE
      OBVIOUS
    <3>2. PageSize[Current] > 0 BY <2>3, <2>4, <3>1 DEF Unambiguous
    <3>3. PageSize[Current] \in Nat /\ Refresh[Current] \notin 1 .. PageSize[Current]
      BY <2>3, <2>4, <3>2, MenuAssumption DEF MenuAssumption
    <3>4. QED BY <3>1, <3>2, <3>3
  <2>7. QED BY <1>2, <2>3, <2>4, <2>5, <2>6 DEF TakesFrom
<1>3. QED BY <1>1, <1>2

LEMMA ForwardStep ==
  ASSUME Unambiguous, MenuInv, NEW key, NEW fetched \in FetchedBy(Current),
         NEW fetchedNext \in FetchedBy(NextOf(Current, key)), NEW r,
         r = Handler(Current, key, session.menu, FALSE, fetched, fetchedNext),
         Forward(key, r)
  PROVE  MenuInv'
<1> DEFINE pushed == Pushed(r)
           placed == Placed(pushed, r)
<1>1. session \in MenuSessions /\ session.menu \in Snapshots \cup {None}
  BY DEF MenuInv, MenuSessions
<1>2. Current \in States /\ (session.state # None => Current = session.state)
  BY <1>1, CurrentIsState
<1>3. /\ r.next \in States \cup {None} /\ Shows(Lands(Current, r), r)
      /\ Current \in Menus => TakesFrom(Current, r, key, session.menu, FALSE)
      /\ Current \in Plains => r.picks = None
  BY <1>1, <1>2, HandlerShows, ZenonT(40)
<1>4. Remember(key, r)
      /\ (Answer(placed, r) \/ Fails(IF r.says = "throws" THEN {session}
                                     ELSE {session, pushed, placed, Noted(placed, r)}))
  BY DEF Forward
<1>5. /\ pushed \in MenuSessions /\ pushed.state = session.state
  <2>1. Append(session.history, Current) \in Seq(States) BY <1>1, <1>2 DEF MenuSessions
  <2>2. pushed = session \/ pushed = [session EXCEPT !.history = Append(session.history, Current)]
    BY DEF Pushed
  <2> HIDE DEF pushed
  <2>3. QED BY <1>1, <2>1, <2>2 DEF MenuSessions
<1>6. /\ placed \in MenuSessions /\ placed.state = Lands(Current, r)
  <2>1. \/ placed = pushed /\ r.next = None /\ session.state # None
        \/ placed = [pushed EXCEPT !.state = Lands(Current, r)]
    BY DEF Placed, Lands
  <2>2. Lands(Current, r) \in States BY <1>2, <1>3 DEF Lands
  <2> HIDE DEF placed, pushed
  <2>3. CASE placed = pushed /\ r.next = None /\ session.state # None
    BY <1>2, <1>5, <2>3 DEF Lands
  <2>4. CASE placed = [pushed EXCEPT !.state = Lands(Current, r)]
    BY <1>5, <2>2, <2>4 DEF MenuSessions
  <2>5. QED BY <2>1, <2>3, <2>4
<1> HIDE DEF placed, pushed
<1>7. session' \in MenuSessions /\ Displayed'
  <2>1. CASE Answer(placed, r) BY <1>3, <1>6, <2>1, AnswerDisplays
  <2>2. CASE Fails(IF r.says = "throws" THEN {session}
                   ELSE {session, pushed, placed, Noted(placed, r)})
    <3>1. Noted(placed, r) \in MenuSessions BY <1>3, <1>6, WritesAre
    <3>2. QED BY <1>1, <1>5, <1>6, <2>2, <3>1 DEF Fails, Displayed
  <2>3. QED BY <1>4, <2>1, <2>2
<1>8. SelectionAsShown' BY <1>3, <1>4, RememberedAsShown
<1>9. QED BY <1>7, <1>8 DEF MenuInv

LEMMA BackStep ==
  ASSUME MenuInv, session.history # <<>>, NEW key,
         NEW fetched \in FetchedBy(session.history[Len(session.history)]), Back(key, fetched)
  PROVE  MenuInv'
<1> DEFINE n == Len(session.history)
           previous == session.history[n]
           popped == [session EXCEPT !.history = SubSeq(@, 1, n - 1)]
           placed == [popped EXCEPT !.state = previous]
           r == Handler(previous, Empty, session.menu, TRUE, fetched, fetched)
<1>1. /\ session \in MenuSessions /\ session.menu \in Snapshots \cup {None}
      /\ session.history \in Seq(States)
  BY DEF MenuInv, MenuSessions
<1>2. n \in Nat \ {0} /\ previous \in States /\ SubSeq(session.history, 1, n - 1) \in Seq(States)
  BY <1>1
<1>3. popped \in MenuSessions BY <1>1, <1>2 DEF MenuSessions
<1>4. placed \in MenuSessions /\ placed.state = previous BY <1>2, <1>3 DEF MenuSessions
<1>5. Shows(previous, r) BY <1>1, <1>2, DisplayShows
<1>6. /\ UNCHANGED choice
      /\ \/ Answer(placed, r)
         \/ Fails({session, popped, placed}
                  \cup IF r.says = "throws" THEN {} ELSE {Noted(placed, r)})
  BY DEF Back
<1> HIDE DEF r, placed, popped, previous
<1>7. session' \in MenuSessions /\ Displayed'
  <2>1. CASE Answer(placed, r) BY <1>4, <1>5, <2>1, AnswerDisplays
  <2>2. CASE Fails({session, popped, placed}
                   \cup IF r.says = "throws" THEN {} ELSE {Noted(placed, r)})
    <3>1. Noted(placed, r) \in MenuSessions BY <1>4, <1>5, WritesAre
    <3>2. QED BY <1>1, <1>3, <1>4, <2>2, <3>1 DEF Fails, Displayed
  <2>3. QED BY <1>6, <2>1, <2>2
<1>8. SelectionAsShown' BY <1>6 DEF MenuInv, SelectionAsShown
<1>9. QED BY <1>7, <1>8 DEF MenuInv

LEMMA MenuStep == ASSUME Unambiguous, MenuInv, [Next]_vars PROVE MenuInv'
<1>1. CASE UNCHANGED vars BY <1>1 DEF vars, MenuInv, Displayed, SelectionAsShown
<1>2. CASE Expire
  <2>1. NoSession \in MenuSessions BY DEF NoSession, MenuSessions
  <2>2. QED BY <1>2, <2>1 DEF Expire, MenuInv, Displayed, SelectionAsShown
<1>3. ASSUME NEW key \in Keys, Turn(key) PROVE MenuInv'
  BY <1>3, ForwardStep, BackStep DEF Turn
<1>4. QED BY <1>1, <1>2, <1>3 DEF Next

LEMMA InvGivesMenusAsShown == MenuInv => MenusAsShown
<1> SUFFICES ASSUME MenuInv, screen # None PROVE OwnItems BY DEF MenuInv, MenusAsShown, OwnItems
<1>1. session.menu \in Snapshots BY DEF MenuInv, Displayed
<1>2. PICK list \in Lists[session.menu.owner] :
        \A i \in 1 .. Len(PageItems(session.menu.owner, session.menu.items, session.menu.page)) :
          \E j \in 1 .. Len(list) :
            list[j] = PageItems(session.menu.owner, session.menu.items, session.menu.page)[i]
  BY <1>1, SnapshotIs, SnapshotPages
<1>3. QED BY <1>2 DEF MenuInv, Displayed, OwnItems

\* When no refresh key numbers an item, the number a subscriber sends takes the
\* item that the list on the screen shows under it, and a menu shows the items
\* of its own list, through page keys, refreshes, back navigation and failed
\* writes.
THEOREM SelectionsAreAsShown == ASSUME Unambiguous PROVE Spec => []MenusAsShown
<1>1. MenuInv /\ [Next]_vars => MenuInv' BY MenuStep
<1>2. Spec => []MenuInv BY <1>1, MenuStarts, PTL DEF Spec
<1>3. QED BY <1>2, InvGivesMenusAsShown, PTL

-----------------------------------------------------------------------------
(* Flows and their analysis.                                               *)

\* The fields a flow may save; a flow begins in a state of its own.
AllSaves(f) == UNION {UNION {f.states[s].handler[key].saves : key \in Inputs} : s \in DOMAIN f.states}
WellMade(f) == f.initial \in DOMAIN f.states /\ NoState \notin DOMAIN f.states

VisitsOf(f) ==
  [state : DOMAIN f.states \cup {NoState}, history : Seq(DOMAIN f.states),
   saved : SUBSET AllSaves(f), done : BOOLEAN]

FlowTypes == flow \in Flows /\ report = Analysis(flow) /\ visit \in VisitsOf(flow)

\* A turn's writes, as far as they were made: all of them and the answer is
\* shown, the move and the data or a note of their loss, or the history alone.
Landed(t, answer) ==
  visit'.state = t /\ visit.saved \cup lost \cup answer.saves \subseteq visit'.saved \cup lost'
Wrote(t, answer) ==
  \/ /\ Landed(t, answer) /\ visit'.done = (answer.says = "END") /\ asked' = answer.shows
  \/ /\ asked' = NoState /\ visit'.done = visit.done
     /\ \/ Landed(t, answer)
        \/ visit'.state = visit.state /\ visit'.saved = visit.saved /\ lost \subseteq lost'
HistoryKept ==
  \A i \in DOMAIN visit'.history :
    visit'.history[i] = Here \/ \E j \in DOMAIN visit.history : visit'.history[i] = visit.history[j]

LEMMA HereIsState ==
  ASSUME FlowTypes, WellMade(flow)
  PROVE  Here \in DOMAIN flow.states /\ (visit.state # NoState => Here = visit.state)
BY DEF FlowTypes, VisitsOf, WellMade, Here

LEMMA SavesAre ==
  ASSUME NEW f, NEW s \in DOMAIN f.states, NEW key \in Inputs
  PROVE  f.states[s].handler[key].saves \subseteq AllSaves(f)
BY DEF AllSaves

\* Writing the data and closing leave state and history alone.
LEMMA WrittenIs ==
  ASSUME NEW v \in VisitsOf(flow), NEW answer, answer.saves \subseteq AllSaves(flow)
  PROVE  /\ Written(v, answer) \in VisitsOf(flow)
         /\ Written(v, answer).state = v.state /\ Written(v, answer).history = v.history
         /\ Written(v, answer).done = v.done
         /\ Written(v, answer).saved = v.saved \cup answer.saves
         /\ Over(v, answer) \in VisitsOf(flow)
         /\ Over(v, answer).state = v.state /\ Over(v, answer).history = v.history
         /\ Over(v, answer).saved = v.saved /\ Over(v, answer).done = (answer.says = "END")
<1>1. (answer.says = "END") \in BOOLEAN OBVIOUS
<1>2. QED BY <1>1 DEF Written, Over, VisitsOf

\* A turn that ends in the visit `placed' with this answer.
LEMMA PlacedWrites ==
  ASSUME visit \in VisitsOf(flow), NEW placed \in VisitsOf(flow), NEW answer,
         answer.saves \subseteq AllSaves(flow), placed.saved = visit.saved,
         placed.done = visit.done, NEW before, before \subseteq VisitsOf(flow),
         \A v \in before : /\ v.state = visit.state /\ v.saved = visit.saved
                           /\ v.done = visit.done,
         Shown(placed, answer) \/ Breaks(before, placed, answer)
  PROVE  /\ visit' \in VisitsOf(flow) /\ Wrote(placed.state, answer)
         /\ visit'.history = placed.history \/ \E v \in before : visit'.history = v.history
<1> DEFINE w == Written(placed, answer)
<1>1. /\ w \in VisitsOf(flow) /\ w.state = placed.state /\ w.history = placed.history
      /\ w.done = visit.done /\ w.saved = visit.saved \cup answer.saves
  BY WrittenIs
<1>2. CASE Shown(placed, answer)
  <2>1. visit' = Over(w, answer) /\ asked' = answer.shows /\ lost' = lost
    BY <1>2 DEF Shown
  <2> HIDE DEF w
  <2>2. /\ visit' \in VisitsOf(flow) /\ visit'.state = placed.state
        /\ visit'.history = placed.history /\ visit'.done = (answer.says = "END")
        /\ visit'.saved = visit.saved \cup answer.saves
    BY <1>1, <2>1, WrittenIs
  <2>3. Landed(placed.state, answer) BY <2>1, <2>2 DEF Landed
  <2>4. QED BY <2>1, <2>2, <2>3 DEF Wrote
<1>3. CASE Breaks(before, placed, answer)
  <2> HIDE DEF w
  <2>1. /\ visit' \in before \cup {placed, w} /\ asked' = NoState
        /\ lost' = IF visit' = placed THEN lost \cup (answer.saves \ placed.saved) ELSE lost
    BY <1>3 DEF Breaks, w
  <2>2. CASE visit' = placed
    <3>1. Landed(placed.state, answer) BY <2>1, <2>2 DEF Landed
    <3>2. QED BY <2>1, <2>2, <3>1 DEF Wrote
  <2>3. CASE visit' = w /\ visit' # placed
    <3>1. Landed(placed.state, answer) BY <1>1, <2>1, <2>3 DEF Landed
    <3>2. QED BY <1>1, <2>1, <2>3, <3>1 DEF Wrote
  <2>4. CASE visit' \in before /\ visit' # placed BY <2>1, <2>4 DEF Wrote
  <2>5. QED BY <2>1, <2>2, <2>3, <2>4
<1>4. QED BY <1>2, <1>3

MovesTo(answer) == IF Moves(answer) THEN answer.next ELSE Here

LEMMA AdvanceIs ==
  ASSUME FlowTypes, WellMade(flow), NEW key \in Inputs, Advance(key)
  PROVE  LET answer == flow.states[Here].handler[key]
         IN  /\ key \in flow.states[Here].allowed /\ (answer.next = NoState \/ Moves(answer))
             /\ Wrote(MovesTo(answer), answer) /\ HistoryKept
             /\ stranded' = FALSE /\ FlowTypes'
<1> DEFINE answer == flow.states[Here].handler[key]
           longer == [visit EXCEPT !.history = Append(@, Here)]
           pushed == IF Moves(answer) /\ answer.next # Here THEN longer ELSE visit
           placed == IF Moves(answer) THEN [pushed EXCEPT !.state = answer.next]
                     ELSE [pushed EXCEPT !.state = Here]
<1>1. /\ key \in flow.states[Here].allowed /\ (answer.next = NoState \/ Moves(answer))
      /\ Shown(placed, answer) \/ Breaks({visit, pushed}, placed, answer)
      /\ stranded' = FALSE /\ UNCHANGED <<flow, report>>
  BY DEF Advance
<1>2. Here \in DOMAIN flow.states BY HereIsState
<1>3. answer.saves \subseteq AllSaves(flow) BY <1>2, SavesAre
<1> HIDE DEF answer
<1>4. visit \in VisitsOf(flow) BY DEF FlowTypes
<1>5. /\ longer \in VisitsOf(flow) /\ longer.state = visit.state /\ longer.saved = visit.saved
      /\ longer.done = visit.done /\ longer.history = Append(visit.history, Here)
  BY <1>2, <1>4, SMTT(20) DEF VisitsOf
<1> HIDE DEF longer
<1>6. /\ pushed \in VisitsOf(flow) /\ pushed.state = visit.state /\ pushed.saved = visit.saved
      /\ pushed.done = visit.done
      /\ pushed.history \in {visit.history, Append(visit.history, Here)}
  BY <1>4, <1>5
<1> HIDE DEF pushed
<1>7. /\ placed \in VisitsOf(flow) /\ placed.state = MovesTo(answer) /\ placed.saved = visit.saved
      /\ placed.done = visit.done /\ placed.history = pushed.history
  <2>1. placed = [pushed EXCEPT !.state = MovesTo(answer)] BY DEF MovesTo
  <2>2. MovesTo(answer) \in DOMAIN flow.states BY <1>2 DEF MovesTo, Moves
  <2> HIDE DEF placed
  <2>3. QED BY <1>6, <2>1, <2>2 DEF VisitsOf
<1> HIDE DEF placed
<1>8. /\ visit' \in VisitsOf(flow) /\ Wrote(placed.state, answer)
      /\ visit'.history = placed.history \/ \E v \in {visit, pushed} : visit'.history = v.history
  <2> DEFINE before == {visit, pushed}
  <2>1. before \subseteq VisitsOf(flow) /\ \A v \in before : /\ v.state = visit.state /\ v.saved = visit.saved
                                                        /\ v.done = visit.done
    BY <1>4, <1>6
  <2>2. Shown(placed, answer) \/ Breaks(before, placed, answer) BY <1>1
  <2> HIDE DEF before
  <2>3. /\ visit' \in VisitsOf(flow) /\ Wrote(placed.state, answer)
        /\ visit'.history = placed.history \/ \E v \in before : visit'.history = v.history
    BY <2>1, <2>2, <1>3, <1>4, <1>7, PlacedWrites
  <2>4. QED BY <2>3 DEF before
<1>9. visit'.history \in {visit.history, Append(visit.history, Here)} BY <1>6, <1>7, <1>8
<1>10. HistoryKept
  <2>1. visit.history \in Seq(DOMAIN flow.states) BY <1>4 DEF VisitsOf
  <2>2. \A i \in DOMAIN Append(visit.history, Here) :
          Append(visit.history, Here)[i] = Here
          \/ \E j \in DOMAIN visit.history : Append(visit.history, Here)[i] = visit.history[j]
    BY <1>2, <2>1
  <2>3. QED BY <1>9, <2>2 DEF HistoryKept
<1>11. FlowTypes' BY <1>1, <1>8 DEF FlowTypes, VisitsOf
<1>12. QED BY <1>1, <1>7, <1>8, <1>10, <1>11 DEF answer

LEMMA MissedIs ==
  ASSUME FlowTypes, WellMade(flow), NEW key \in Inputs, Missed(key)
  PROVE  LET answer == flow.states[Here].handler[key]
         IN  /\ key \in flow.states[Here].allowed /\ answer.next # NoState /\ ~Moves(answer)
             /\ stranded' = (answer.says # "END") /\ HistoryKept /\ FlowTypes'
             /\ \/ answer.says = "END" /\ Wrote(Here, answer)
                \/ answer.says # "END" /\ asked' = NoState /\ UNCHANGED <<visit, lost>>
<1> DEFINE answer == flow.states[Here].handler[key]
           placed == [visit EXCEPT !.state = Here]
<1>1. /\ key \in flow.states[Here].allowed /\ answer.next # NoState /\ ~Moves(answer)
      /\ \/ answer.says = "END" /\ Shown(placed, answer)
         \/ answer.says # "END" /\ asked' = NoState /\ UNCHANGED <<visit, lost>>
      /\ stranded' = (answer.says # "END") /\ UNCHANGED <<flow, report>>
  BY DEF Missed
<1>2. Here \in DOMAIN flow.states /\ visit \in VisitsOf(flow) BY HereIsState DEF FlowTypes
<1>3. answer.saves \subseteq AllSaves(flow) BY <1>2, SavesAre
<1> HIDE DEF answer
<1>4. /\ placed \in VisitsOf(flow) /\ placed.state = Here /\ placed.saved = visit.saved
      /\ placed.done = visit.done /\ placed.history = visit.history
  BY <1>2 DEF VisitsOf
<1> HIDE DEF placed
<1>5. CASE answer.says = "END" /\ Shown(placed, answer)
  <2>1. /\ visit' \in VisitsOf(flow) /\ Wrote(placed.state, answer)
        /\ visit'.history = placed.history
    <3> DEFINE before == {}
    <3>1. before \subseteq VisitsOf(flow) /\ \A v \in before : FALSE OBVIOUS
    <3>2. Shown(placed, answer) \/ Breaks(before, placed, answer) BY <1>5
    <3> HIDE DEF before
    <3>3. QED BY <1>2, <1>3, <1>4, <3>1, <3>2, PlacedWrites
  <2>2. FlowTypes' BY <1>1, <2>1 DEF FlowTypes, VisitsOf
  <2>3. QED BY <1>1, <1>4, <1>5, <2>1, <2>2 DEF HistoryKept, answer
<1>6. CASE answer.says # "END" /\ asked' = NoState /\ UNCHANGED <<visit, lost>>
  BY <1>1, <1>6 DEF FlowTypes, VisitsOf, HistoryKept, answer
<1>7. QED BY <1>1, <1>5, <1>6

LEMMA GoBackIs ==
  ASSUME FlowTypes, WellMade(flow), NEW key \in Inputs, GoBack(key)
  PROVE  \E i \in DOMAIN visit.history :
           /\ visit.history[i] \in DOMAIN flow.states
           /\ Wrote(visit.history[i], flow.states[visit.history[i]].handler[NoInput])
           /\ stranded' = FALSE /\ HistoryKept /\ FlowTypes'
<1> DEFINE n == Len(visit.history)
           previous == visit.history[n]
           popped == [visit EXCEPT !.history = SubSeq(@, 1, n - 1)]
           placed == [popped EXCEPT !.state = previous]
           answer == flow.states[previous].handler[NoInput]
<1>1. /\ visit.history # <<>> /\ stranded' = FALSE /\ UNCHANGED <<flow, report>>
      /\ Shown(placed, answer) \/ Breaks({visit, popped}, placed, answer)
  BY DEF GoBack, AsksBack
<1>2. visit \in VisitsOf(flow) /\ visit.history \in Seq(DOMAIN flow.states)
  BY DEF FlowTypes, VisitsOf
<1>3. /\ n \in Nat \ {0} /\ n \in DOMAIN visit.history /\ previous \in DOMAIN flow.states
      /\ SubSeq(visit.history, 1, n - 1) \in Seq(DOMAIN flow.states)
      /\ \A i \in DOMAIN SubSeq(visit.history, 1, n - 1) :
           i \in DOMAIN visit.history /\ SubSeq(visit.history, 1, n - 1)[i] = visit.history[i]
  <2>1. /\ n \in Nat \ {0} /\ n \in DOMAIN visit.history BY <1>1, <1>2
  <2>2. previous \in DOMAIN flow.states BY <1>2, <2>1
  <2> HIDE DEF n
  <2> DEFINE k == n - 1
  <2>3. k \in Int /\ \A i \in 1 .. k : visit.history[i] \in DOMAIN flow.states BY <1>2, <2>1
  <2> HIDE DEF k
  <2>4. /\ SubSeq(visit.history, 1, k) \in Seq(DOMAIN flow.states)
        /\ Len(SubSeq(visit.history, 1, k)) = IF 1 <= k THEN k - 1 + 1 ELSE 0
        /\ \A i \in 1 .. k - 1 + 1 : SubSeq(visit.history, 1, k)[i] = visit.history[1 + i - 1]
    <3> DEFINE h == visit.history
    <3>1. \A i \in 1 .. k : h[i] \in DOMAIN flow.states BY <2>3
    <3> HIDE DEF h
    <3> DEFINE S == DOMAIN flow.states
    <3>2. \A i \in 1 .. k : h[i] \in S BY <3>1
    <3> HIDE DEF S
    <3>3. /\ SubSeq(h, 1, k) \in Seq(S)
          /\ Len(SubSeq(h, 1, k)) = IF 1 <= k THEN k - 1 + 1 ELSE 0
          /\ \A i \in 1 .. k - 1 + 1 : SubSeq(h, 1, k)[i] = h[1 + i - 1]
      BY <2>3, <3>2, SubSeqProperties
    <3>4. QED BY <3>3 DEF h, S
  <2>5. \A i \in DOMAIN SubSeq(visit.history, 1, k) :
          i \in 1 .. k /\ SubSeq(visit.history, 1, k)[i] = visit.history[i]
    BY <2>3, <2>4
  <2>6. \A i \in 1 .. k : i \in DOMAIN visit.history BY <1>2, <2>1 DEF k
  <2>7. QED BY <2>1, <2>2, <2>4, <2>5, <2>6 DEF k
<1>4. answer.saves \subseteq AllSaves(flow) BY <1>3, SavesAre DEF Inputs
<1> HIDE DEF answer, previous, n
<1>5. /\ popped \in VisitsOf(flow) /\ popped.state = visit.state /\ popped.saved = visit.saved
      /\ popped.done = visit.done /\ popped.history = SubSeq(visit.history, 1, n - 1)
  BY <1>2, <1>3 DEF VisitsOf
<1> HIDE DEF popped
<1>6. /\ placed \in VisitsOf(flow) /\ placed.state = previous /\ placed.saved = visit.saved
      /\ placed.done = visit.done /\ placed.history = popped.history
  BY <1>3, <1>5 DEF VisitsOf
<1> HIDE DEF placed
<1>7. /\ visit' \in VisitsOf(flow) /\ Wrote(placed.state, answer)
      /\ visit'.history = placed.history \/ \E v \in {visit, popped} : visit'.history = v.history
  <2> DEFINE before == {visit, popped}
  <2>1. before \subseteq VisitsOf(flow) /\ \A v \in before : /\ v.state = visit.state /\ v.saved = visit.saved
                                                        /\ v.done = visit.done
    BY <1>2, <1>5
  <2>2. Shown(placed, answer) \/ Breaks(before, placed, answer) BY <1>1
  <2> HIDE DEF before
  <2>3. /\ visit' \in VisitsOf(flow) /\ Wrote(placed.state, answer)
        /\ visit'.history = placed.history \/ \E v \in before : visit'.history = v.history
    BY <2>1, <2>2, <1>2, <1>4, <1>6, PlacedWrites
  <2>4. QED BY <2>3 DEF before
<1>8. visit'.history \in {visit.history, SubSeq(visit.history, 1, n - 1)}
  BY <1>5, <1>6, <1>7
<1>9. HistoryKept BY <1>3, <1>8 DEF HistoryKept
<1>10. FlowTypes' BY <1>1, <1>7 DEF FlowTypes, VisitsOf
<1>11. QED BY <1>1, <1>3, <1>6, <1>7, <1>9, <1>10 DEF answer, previous

\* The text of an answer is the prompt of the state that the answer leads to.
\* The next state of a first display is ignored.
ShowsWhereItLands(f) ==
  \A s \in DOMAIN f.states : \A key \in Inputs :
    LET answer == f.states[s].handler[key]
        lands == IF answer.next \in DOMAIN f.states THEN answer.next ELSE s
    IN  /\ key \in f.states[s].allowed /\ (answer.next \in DOMAIN f.states \cup {NoState}
                                           \/ answer.says = "END")
             => answer.shows \in {NoState, lands}
        /\ key = NoInput => answer.shows \in {NoState, s}

LEMMA FlowStarts == FlowInit => FlowTypes
BY DEF FlowInit, FlowTypes, VisitsOf, Fresh

LEMMA FlowTypesStep ==
  ASSUME \A f \in Flows : WellMade(f), FlowTypes, [FlowNext]_flowVars PROVE FlowTypes'
<1>1. WellMade(flow) BY DEF FlowTypes
<1>2. CASE Redial BY <1>2 DEF Redial, FlowTypes, VisitsOf, Fresh
<1>3. ASSUME NEW key \in Inputs, Advance(key) \/ Missed(key) \/ GoBack(key) PROVE FlowTypes'
  BY <1>1, <1>3, AdvanceIs, MissedIs, GoBackIs
<1>4. CASE UNCHANGED flowVars BY <1>4 DEF flowVars, FlowTypes
<1>5. QED BY <1>2, <1>3, <1>4 DEF FlowNext

\* A shown prompt is the stored state's, in flows whose answers show the prompt
\* of the state they lead to, whatever the back key and failed writes do.
THEOREM PromptsAreOfTheirState ==
  ASSUME \A f \in Flows : WellMade(f) /\ ShowsWhereItLands(f)
  PROVE  FlowSpec => []AsksForWhatItTakes
<1> DEFINE Inv == FlowTypes /\ AsksForWhatItTakes
<1>1. FlowInit => Inv BY FlowStarts DEF FlowInit, AsksForWhatItTakes
<1>2. Inv /\ [FlowNext]_flowVars => Inv'
  <2> SUFFICES ASSUME Inv, [FlowNext]_flowVars PROVE Inv' OBVIOUS
  <2>1. FlowTypes' BY FlowTypesStep
  <2>2. WellMade(flow) /\ ShowsWhereItLands(flow) BY DEF FlowTypes
  <2>3. Here \in DOMAIN flow.states BY <2>2, HereIsState
  <2>4. NoState \notin DOMAIN flow.states BY <2>2 DEF WellMade
  <2>5. Redial => AsksForWhatItTakes' BY DEF Redial, AsksForWhatItTakes
  <2>6. UNCHANGED flowVars => AsksForWhatItTakes' BY DEF flowVars, AsksForWhatItTakes
  <2>7. ASSUME NEW key \in Inputs, Advance(key) PROVE AsksForWhatItTakes'
    <3> DEFINE answer == flow.states[Here].handler[key]
    <3>1. /\ key \in flow.states[Here].allowed /\ (answer.next = NoState \/ Moves(answer))
          /\ Wrote(MovesTo(answer), answer)
      BY <2>2, <2>7, AdvanceIs
    <3>2. answer.shows \in {NoState, MovesTo(answer)}
      BY <2>2, <2>3, <2>4, <3>1 DEF ShowsWhereItLands, Moves, MovesTo
    <3> HIDE DEF answer
    <3>3. QED BY <3>1, <3>2 DEF Wrote, Landed, AsksForWhatItTakes
  <2>8. ASSUME NEW key \in Inputs, Missed(key) PROVE AsksForWhatItTakes'
    <3> DEFINE answer == flow.states[Here].handler[key]
    <3>1. /\ key \in flow.states[Here].allowed /\ answer.next # NoState /\ ~Moves(answer)
          /\ \/ answer.says = "END" /\ Wrote(Here, answer)
             \/ answer.says # "END" /\ asked' = NoState
      BY <2>2, <2>8, MissedIs
    <3>2. answer.says = "END" => answer.shows \in {NoState, Here}
      BY <2>2, <2>3, <3>1 DEF ShowsWhereItLands, Moves
    <3> HIDE DEF answer
    <3>3. QED BY <3>1, <3>2 DEF Wrote, Landed, AsksForWhatItTakes
  <2>9. ASSUME NEW key \in Inputs, GoBack(key) PROVE AsksForWhatItTakes'
    <3>1. PICK i \in DOMAIN visit.history :
            /\ visit.history[i] \in DOMAIN flow.states
            /\ Wrote(visit.history[i], flow.states[visit.history[i]].handler[NoInput])
      BY <2>2, <2>9, GoBackIs
    <3> DEFINE s == visit.history[i]
               answer == flow.states[s].handler[NoInput]
    <3>2. answer.shows \in {NoState, s} BY <2>2, <3>1 DEF ShowsWhereItLands, Inputs
    <3>3. Wrote(s, answer) BY <3>1
    <3> HIDE DEF answer, s
    <3>4. QED BY <3>2, <3>3 DEF Wrote, Landed, AsksForWhatItTakes
  <2>10. QED BY <2>1, <2>5, <2>6, <2>7, <2>8, <2>9 DEF FlowNext
<1>3. QED BY <1>1, <1>2, PTL DEF FlowSpec

-----------------------------------------------------------------------------

\* What a flow declares: the way of every answer, but of states it says that it
\* does not know.
Declares(f) ==
  \A s \in DOMAIN f.states : ~Opaque(f, s) => \A key \in f.states[s].allowed \cup {NoInput} :
    LET answer == f.states[s].handler[key]
    IN  /\ answer.next # NoState =>
             \E e \in f.states[s].edges : ~e.terminal /\ e.to = answer.next
        /\ answer.says = "END" =>
             \/ f.states[s].terminal = "yes" \/ \E e \in f.states[s].edges : e.terminal
             \/ answer.next \in DOMAIN f.states /\ f.states[answer.next].terminal = "yes"

\* The traversal finds the initial state and what its finds lead to.
LEMMA TraversalFinds ==
  ASSUME NEW f, Valid(f)
  PROVE  /\ f.initial \in Reachable(f)
         /\ \A s \in Reachable(f) : \A e \in f.states[s].edges :
              ~e.terminal => e.to \in Reachable(f)
<1>1. f.initial \in DOMAIN f.states BY DEF Valid
<1>2. f.initial \in Reachable(f) BY <1>1 DEF Reachable, Traversed
<1>3. ASSUME NEW s \in Reachable(f), NEW e \in f.states[s].edges, ~e.terminal
      PROVE  e.to \in Reachable(f)
  <2>1. s \in DOMAIN f.states BY DEF Reachable
  <2>2. ~MissingTarget(f, e) /\ (f.states[s].terminal = "yes" => e.terminal)
    BY <2>1 DEF Valid
  <2>3. e \in Outgoing(f, s) BY <1>3, <2>2 DEF Outgoing
  <2>4. e.to \in DOMAIN f.states BY <1>3, <2>2 DEF MissingTarget
  <2>5. ASSUME NEW found \in SUBSET DOMAIN f.states, Traversed(f, found) PROVE e.to \in found
    <3>1. s \in found BY <2>5 DEF Reachable
    <3>2. QED BY <1>3, <2>3, <2>5, <3>1 DEF Traversed
  <2>6. QED BY <2>4, <2>5 DEF Reachable
<1>4. QED BY <1>2, <1>3

\* A session in a flow that is reported to be valid and known.
OnTheMap ==
  report.valid /\ ~report.unknown =>
    /\ Here \in Reachable(flow)
    /\ \A i \in DOMAIN visit.history : visit.history[i] \in Reachable(flow)
    /\ ~stranded
    /\ visit.done => report.ends

LEMMA MapIs ==
  ASSUME FlowTypes, WellMade(flow), Declares(flow), report.valid, ~report.unknown
  PROVE  /\ \A s \in Reachable(flow) : \A key \in flow.states[s].allowed \cup {NoInput} :
              LET answer == flow.states[s].handler[key]
              IN  /\ answer.next # NoState =>
                       answer.next \in Reachable(flow) /\ answer.next \in DOMAIN flow.states
                  /\ answer.says = "END" => report.ends
         /\ flow.initial \in Reachable(flow)
<1>1. /\ Valid(flow) /\ ~Unknown(flow)
      /\ report.ends = \E s \in Reachable(flow) :
                         \/ flow.states[s].terminal = "yes"
                         \/ \E e \in flow.states[s].edges : e.terminal
  BY DEF FlowTypes, Analysis
<1>2. /\ flow.initial \in Reachable(flow)
      /\ \A s \in Reachable(flow) : \A e \in flow.states[s].edges :
           ~e.terminal => e.to \in Reachable(flow)
  BY <1>1, TraversalFinds
<1>3. ASSUME NEW s \in Reachable(flow), NEW key \in flow.states[s].allowed \cup {NoInput}
      PROVE  LET answer == flow.states[s].handler[key]
             IN  /\ answer.next # NoState =>
                      answer.next \in Reachable(flow) /\ answer.next \in DOMAIN flow.states
                 /\ answer.says = "END" => report.ends
  <2> DEFINE answer == flow.states[s].handler[key]
  <2>1. s \in DOMAIN flow.states /\ ~Opaque(flow, s) BY <1>1 DEF Reachable, Unknown
  <2>2. /\ answer.next # NoState =>
             \E e \in flow.states[s].edges : ~e.terminal /\ e.to = answer.next
        /\ answer.says = "END" =>
             \/ flow.states[s].terminal = "yes" \/ \E e \in flow.states[s].edges : e.terminal
             \/ answer.next \in DOMAIN flow.states /\ flow.states[answer.next].terminal = "yes"
    BY <2>1 DEF Declares
  <2> HIDE DEF answer
  <2>3. answer.next # NoState => answer.next \in Reachable(flow) BY <1>2, <2>2
  <2>4. \A t \in Reachable(flow) : t \in DOMAIN flow.states BY DEF Reachable
  <2>5. answer.next \in DOMAIN flow.states => answer.next # NoState BY DEF WellMade
  <2>6. answer.says = "END" => report.ends BY <1>1, <2>2, <2>3, <2>5
  <2>7. QED BY <2>3, <2>4, <2>6 DEF answer
<1>4. QED BY <1>2, <1>3

\* In a flow that declares its ways, what the analysis reports of reachable
\* states, missing targets and ends is true of every session.
THEOREM AnalysisHolds ==
  ASSUME \A f \in Flows : WellMade(f) /\ Declares(f)
  PROVE  FlowSpec => []AnalysisIsSound
<1> DEFINE Inv == FlowTypes /\ OnTheMap
<1>1. FlowInit => Inv
  <2> SUFFICES ASSUME FlowInit PROVE Inv OBVIOUS
  <2>1. FlowTypes BY FlowStarts
  <2>2. WellMade(flow) /\ Declares(flow) BY <2>1 DEF FlowTypes
  <2>3. /\ Here = flow.initial /\ DOMAIN visit.history = {} /\ ~stranded /\ ~visit.done
    BY DEF FlowInit, Here, Fresh
  <2>4. QED BY <2>1, <2>2, <2>3, MapIs DEF OnTheMap
<1>2. Inv /\ [FlowNext]_flowVars => Inv'
  <2> SUFFICES ASSUME Inv, [FlowNext]_flowVars PROVE Inv' OBVIOUS
  <2>1. FlowTypes' BY FlowTypesStep
  <2>2. WellMade(flow) /\ Declares(flow) BY DEF FlowTypes
  <2>3. UNCHANGED <<flow, report>>
    BY DEF FlowNext, Redial, Advance, Missed, GoBack, flowVars
  <2>4. SUFFICES ASSUME report.valid, ~report.unknown
                 PROVE  /\ Here' \in Reachable(flow)
                        /\ \A i \in DOMAIN visit'.history : visit'.history[i] \in Reachable(flow)
                        /\ ~stranded' /\ (visit'.done => report.ends)
    BY <2>1, <2>3 DEF OnTheMap
  <2>5. /\ \A s \in Reachable(flow) : \A key \in flow.states[s].allowed \cup {NoInput} :
             LET answer == flow.states[s].handler[key]
             IN  /\ answer.next # NoState =>
                      answer.next \in Reachable(flow) /\ answer.next \in DOMAIN flow.states
                 /\ answer.says = "END" => report.ends
        /\ flow.initial \in Reachable(flow)
    BY <2>2, <2>4, MapIs
  <2>6. /\ Here \in Reachable(flow) /\ ~stranded /\ (visit.done => report.ends)
        /\ \A i \in DOMAIN visit.history : visit.history[i] \in Reachable(flow)
    BY <2>4 DEF OnTheMap
  <2>7. NoState \notin Reachable(flow) BY <2>2 DEF WellMade, Reachable
  <2>8. CASE Redial BY <2>3, <2>5, <2>8 DEF Redial, Fresh, Here
  <2>9. CASE UNCHANGED flowVars BY <2>6, <2>9 DEF flowVars, Here
  <2>10. ASSUME NEW s \in Reachable(flow), NEW answer, Wrote(s, answer),
                answer.says = "END" => report.ends, HistoryKept, ~stranded'
         PROVE  /\ Here' \in Reachable(flow)
                /\ \A i \in DOMAIN visit'.history : visit'.history[i] \in Reachable(flow)
                /\ ~stranded' /\ (visit'.done => report.ends)
    <3>1. visit'.state \in {s, visit.state} BY <2>10 DEF Wrote, Landed
    <3>2. visit'.done => report.ends BY <2>6, <2>10 DEF Wrote
    <3>3. Here' \in Reachable(flow)
      <4>1. CASE visit'.state = s BY <2>7, <4>1 DEF Here
      <4>2. CASE visit'.state = visit.state BY <2>3, <2>6, <4>2 DEF Here
      <4>3. QED BY <3>1, <4>1, <4>2
    <3>4. QED BY <2>6, <2>10, <3>2, <3>3 DEF HistoryKept
  <2>11. ASSUME NEW key \in Inputs, Advance(key)
         PROVE  /\ Here' \in Reachable(flow)
                /\ \A i \in DOMAIN visit'.history : visit'.history[i] \in Reachable(flow)
                /\ ~stranded' /\ (visit'.done => report.ends)
    <3> DEFINE answer == flow.states[Here].handler[key]
    <3>1. /\ key \in flow.states[Here].allowed
          /\ Wrote(MovesTo(answer), answer) /\ HistoryKept /\ ~stranded'
      BY <2>2, <2>11, AdvanceIs
    <3>2. answer.says = "END" => report.ends BY <2>5, <2>6, <3>1
    <3>3. MovesTo(answer) \in Reachable(flow)
      BY <2>2, <2>5, <2>6, <3>1 DEF MovesTo, Moves
    <3> HIDE DEF answer
    <3>4. QED BY <2>10, <3>1, <3>2, <3>3
  <2>12. ASSUME NEW key \in Inputs, Missed(key) PROVE FALSE
    <3> DEFINE answer == flow.states[Here].handler[key]
    <3>1. key \in flow.states[Here].allowed /\ answer.next # NoState /\ ~Moves(answer)
      BY <2>2, <2>12, MissedIs
    <3>2. QED BY <2>5, <2>6, <3>1 DEF Moves
  <2>13. ASSUME NEW key \in Inputs, GoBack(key)
         PROVE  /\ Here' \in Reachable(flow)
                /\ \A i \in DOMAIN visit'.history : visit'.history[i] \in Reachable(flow)
                /\ ~stranded' /\ (visit'.done => report.ends)
    <3>1. PICK i \in DOMAIN visit.history :
            /\ Wrote(visit.history[i], flow.states[visit.history[i]].handler[NoInput])
            /\ stranded' = FALSE /\ HistoryKept
      BY <2>2, <2>13, GoBackIs
    <3> DEFINE s == visit.history[i]
               answer == flow.states[s].handler[NoInput]
    <3>2. s \in Reachable(flow) BY <2>6
    <3>3. answer.says = "END" => report.ends BY <2>5, <3>2
    <3>4. Wrote(s, answer) BY <3>1
    <3> HIDE DEF answer, s
    <3>5. QED BY <2>10, <3>1, <3>2, <3>3, <3>4
  <2>14. QED BY <2>8, <2>9, <2>11, <2>12, <2>13 DEF FlowNext
<1>3. Inv => AnalysisIsSound
  BY DEF FlowTypes, Analysis, OnTheMap, AnalysisIsSound
<1>4. QED BY <1>1, <1>2, <1>3, PTL DEF FlowSpec

-----------------------------------------------------------------------------
(* What the compiler makes of declared states.                             *)

\* A flow from the compiler: its initial state is declared, and a handler of
\* the program's own (run) leaves the way on to routes.
Compiled(f) ==
  \E initial, builders :
    /\ f = Compile(initial, builders)
    /\ initial \in DOMAIN builders /\ NoState \notin DOMAIN builders
    /\ \A s \in DOMAIN builders :
         builders[s].allowed \subseteq Inputs /\ (builders[s].run => builders[s].next = NoState)

LEMMA RouteIs ==
  ASSUME NEW b, NEW key
  PROVE  \/ RouteFor(b, key) = NoRoute
         \/ \E k \in DOMAIN b.routes : key # NoInput /\ RouteFor(b, key) = b.routes[k]
BY DEF RouteFor

LEMMA AnswerIs ==
  ASSUME NEW builders, NEW initial, NEW s \in DOMAIN builders, NEW key \in Inputs,
         NEW f, f = Compile(initial, builders)
  PROVE  LET b == builders[s]
             route == RouteFor(b, key)
             next == NextFor(b, key)
             resolved == next \in DOMAIN builders /\ Resolves(b, key)
             answer == f.states[s].handler[key]
         IN  /\ answer.next = next
             /\ answer.shows = IF resolved \/ route.target # NoState THEN next
                               ELSE IF route.end THEN NoState ELSE s
             /\ answer.says = "END" <=>
                  IF resolved THEN builders[next].end
                  ELSE route.end \/ (route = NoRoute /\ b.end)
<1>1. f.states[s].handler[key] = Handled(builders, s, key) BY DEF Compile, Configured
<1>2. QED BY <1>1 DEF Handled

\* What an answer of the compiler's handler says of its next state: it is a
\* route's target, or next()'s, and nothing on a first display.
LEMMA NextIs ==
  ASSUME NEW b, NEW key
  PROVE  LET route == RouteFor(b, key)
             next == NextFor(b, key)
         IN  /\ key = NoInput => next = NoState /\ route = NoRoute
             /\ route.end => next = NoState
             /\ route.target # NoState /\ ~route.end => next = route.target
             /\ next = NoState \/ (next = route.target /\ ~route.end)
                \/ (next = b.next /\ ~route.end /\ route.target = NoState)
<1>1. NoRoute.target = NoState /\ NoRoute.end = FALSE BY DEF NoRoute
<1>2. key = NoInput => RouteFor(b, key) = NoRoute BY DEF RouteFor
<1>3. QED BY <1>1, <1>2 DEF NextFor

LEMMA CompiledShows == ASSUME NEW f, Compiled(f) PROVE WellMade(f) /\ ShowsWhereItLands(f)
<1>1. PICK initial, builders :
        /\ f = Compile(initial, builders)
        /\ initial \in DOMAIN builders /\ NoState \notin DOMAIN builders
        /\ \A s \in DOMAIN builders : builders[s].run => builders[s].next = NoState
  BY DEF Compiled
<1>2. f.initial = initial /\ DOMAIN f.states = DOMAIN builders BY <1>1 DEF Compile
<1>3. ASSUME NEW s \in DOMAIN builders, NEW key \in Inputs
      PROVE  LET answer == f.states[s].handler[key]
                 lands == IF answer.next \in DOMAIN builders THEN answer.next ELSE s
             IN  /\ answer.next \in DOMAIN builders \cup {NoState} \/ answer.says = "END"
                      => answer.shows \in {NoState, lands}
                 /\ key = NoInput => answer.shows \in {NoState, s}
  <2> DEFINE b == builders[s]
             route == RouteFor(b, key)
             next == NextFor(b, key)
             answer == f.states[s].handler[key]
             resolved == next \in DOMAIN builders /\ Resolves(b, key)
  <2>1. /\ answer.next = next
        /\ answer.shows = IF resolved \/ route.target # NoState THEN next
                          ELSE IF route.end THEN NoState ELSE s
        /\ answer.says = "END" <=>
             IF resolved THEN builders[next].end ELSE route.end \/ (route = NoRoute /\ b.end)
    BY <1>1, AnswerIs
  <2>2. /\ key = NoInput => next = NoState /\ route = NoRoute
        /\ route.end => next = NoState
        /\ next = NoState \/ (next = route.target /\ ~route.end)
           \/ (next = b.next /\ ~route.end /\ route.target = NoState)
    BY NextIs
  <2>3. Resolves(b, key) <=> IF route.target # NoState THEN ~route.text ELSE ~b.run
    BY DEF Resolves
  <2>4. b.run => b.next = NoState BY <1>1
  <2>5. NoRoute.target = NoState /\ NoRoute.end = FALSE BY DEF NoRoute
  <2> HIDE DEF b, route, next, answer
  <2>6. key = NoInput => answer.shows \in {NoState, s} BY <1>1, <2>1, <2>2, <2>5
  <2>7. answer.next \in DOMAIN builders =>
          answer.shows \in {NoState, answer.next}
    BY <1>1, <2>1, <2>2, <2>3, <2>4, <2>5
  <2>8. answer.next \notin DOMAIN builders /\ (answer.next = NoState \/ answer.says = "END") =>
          answer.shows \in {NoState, s}
    BY <2>1, <2>2, <2>5
  <2>9. QED BY <2>6, <2>7, <2>8 DEF answer
<1>4. ShowsWhereItLands(f) BY <1>1, <1>2, <1>3 DEF ShowsWhereItLands
<1>5. QED BY <1>1, <1>2, <1>4 DEF WellMade

LEMMA CompiledDeclares == ASSUME NEW f, Compiled(f) PROVE Declares(f)
<1>1. PICK initial, builders :
        /\ f = Compile(initial, builders) /\ NoState \notin DOMAIN builders
        /\ \A s \in DOMAIN builders : builders[s].allowed \subseteq Inputs
  BY DEF Compiled
<1>2. /\ DOMAIN f.states = DOMAIN builders
      /\ \A s \in DOMAIN builders :
           /\ f.states[s].allowed = builders[s].allowed
           /\ f.states[s].terminal = IF builders[s].end THEN "yes" ELSE "no"
           /\ f.states[s].edges = EdgesOf(builders[s], s)
  BY <1>1 DEF Compile, Configured
<1>3. ASSUME NEW s \in DOMAIN builders, NEW key \in Inputs
      PROVE  LET answer == f.states[s].handler[key]
             IN  /\ answer.next # NoState =>
                      \E e \in EdgesOf(builders[s], s) : ~e.terminal /\ e.to = answer.next
                 /\ answer.says = "END" =>
                      \/ builders[s].end \/ \E e \in EdgesOf(builders[s], s) : e.terminal
                      \/ answer.next \in DOMAIN builders /\ builders[answer.next].end
  <2> DEFINE b == builders[s]
             route == RouteFor(b, key)
             next == NextFor(b, key)
             answer == f.states[s].handler[key]
             resolved == next \in DOMAIN builders /\ Resolves(b, key)
  <2>1. /\ answer.next = next
        /\ answer.says = "END" <=>
             IF resolved THEN builders[next].end ELSE route.end \/ (route = NoRoute /\ b.end)
    BY <1>1, AnswerIs
  <2>2. /\ next = NoState \/ (next = route.target /\ ~route.end)
           \/ (next = b.next /\ ~route.end /\ route.target = NoState)
    BY NextIs
  <2>3. route = NoRoute \/ \E k \in DOMAIN b.routes : route = b.routes[k] BY RouteIs
  <2>4. NoRoute.target = NoState /\ NoRoute.end = FALSE BY DEF NoRoute
  <2>5. b.next # NoState => \E e \in EdgesOf(b, s) : ~e.terminal /\ e.to = b.next
    <3> DEFINE e == [input |-> "any", terminal |-> FALSE, to |-> b.next]
    <3>1. b.next # NoState => e \in EdgesOf(b, s) BY DEF EdgesOf
    <3>2. ~e.terminal /\ e.to = b.next OBVIOUS
    <3>3. QED BY <3>1, <3>2
  <2>6. ASSUME NEW k \in DOMAIN b.routes
        PROVE  \E e \in EdgesOf(b, s) :
                 e.terminal = b.routes[k].end
                 /\ (~b.routes[k].end /\ b.routes[k].target # NoState => e.to = b.routes[k].target)
    <3> DEFINE e == [input |-> k, terminal |-> b.routes[k].end,
                     to |-> IF b.routes[k].end THEN NoState
                            ELSE IF b.routes[k].target = NoState THEN s ELSE b.routes[k].target]
    <3>1. e \in EdgesOf(b, s) BY DEF EdgesOf
    <3>2. e.terminal = b.routes[k].end /\ (~b.routes[k].end /\ b.routes[k].target # NoState
                                              => e.to = b.routes[k].target)
      OBVIOUS
    <3>3. QED BY <3>1, <3>2
  <2> HIDE DEF b, route, next, answer
  <2>7. answer.next # NoState => \E e \in EdgesOf(b, s) : ~e.terminal /\ e.to = answer.next
    BY <2>1, <2>2, <2>3, <2>4, <2>5, <2>6
  <2>8. answer.says = "END" => b.end \/ (\E e \in EdgesOf(b, s) : e.terminal)
                               \/ (answer.next \in DOMAIN builders /\ builders[answer.next].end)
    BY <2>1, <2>3, <2>4, <2>6
  <2>9. QED BY <2>7, <2>8 DEF answer, b
<1>4. NoInput \in Inputs BY DEF Inputs
<1>5. QED BY <1>1, <1>2, <1>3, <1>4 DEF Declares

\* The compiler's flows ask for what they take, and their analysis is sound:
\* for any states, routes and targets, also missing ones.
THEOREM CompiledFlowsAreSound ==
  ASSUME \A f \in Flows : Compiled(f)
  PROVE  FlowSpec => [](AsksForWhatItTakes /\ AnalysisIsSound)
<1>1. \A f \in Flows : WellMade(f) /\ ShowsWhereItLands(f) /\ Declares(f)
  BY CompiledShows, CompiledDeclares
<1>2. FlowSpec => []AsksForWhatItTakes BY <1>1, PromptsAreOfTheirState
<1>3. FlowSpec => []AnalysisIsSound BY <1>1, AnalysisHolds
<1>4. QED BY <1>2, <1>3, PTL

-----------------------------------------------------------------------------
(* Forms.                                                                  *)

\* Some assignment says which fields a state comes after: none the initial
\* state, every field the confirmation, and a state at most those that the
\* state before it comes after and those that the way to it saves.
FieldsOf(f) ==
  {f.states[s].field : s \in {t \in DOMAIN f.states : f.states[t].role = "field"}}
ComesAfter(f, before) ==
  /\ before[f.initial] = {}
  /\ \A s \in DOMAIN f.states : \A key \in f.states[s].allowed :
       LET answer == f.states[s].handler[key]
       IN  answer.next \in DOMAIN f.states => before[answer.next] \subseteq before[s] \cup answer.saves
  /\ \A s \in DOMAIN f.states : f.states[s].role = "confirm" => FieldsOf(f) \subseteq before[s]
FieldsFirst(f) == \E before \in [DOMAIN f.states -> SUBSET FieldsOf(f)] : ComesAfter(f, before)

\* The session has, or has lost, the fields that its state and those it may go
\* back to come after.
HasFields(before) ==
  /\ before[Here] \subseteq visit.saved \cup lost
  /\ \A i \in DOMAIN visit.history : before[visit.history[i]] \subseteq visit.saved \cup lost

Before(f) == CHOOSE before \in [DOMAIN f.states -> SUBSET FieldsOf(f)] : ComesAfter(f, before)

LEMMA WroteKeepsFields ==
  ASSUME FlowTypes, WellMade(flow), NEW before, HasFields(before), NEW s \in DOMAIN flow.states,
         NEW answer, before[s] \subseteq visit.saved \cup lost \cup answer.saves,
         Wrote(s, answer), HistoryKept, flow' = flow
  PROVE  HasFields(before)'
<1>1. visit.saved \cup lost \subseteq visit'.saved \cup lost'
  BY DEF Wrote, Landed
<1>2. \A t : t \in {Here} \cup {visit.history[i] : i \in DOMAIN visit.history} =>
               before[t] \subseteq visit'.saved \cup lost'
  BY <1>1 DEF HasFields
<1>3. before[Here'] \subseteq visit'.saved \cup lost'
  <2>1. CASE Landed(s, answer)
    <3>1. Here' = s BY <2>1 DEF Landed, Here, WellMade
    <3>2. QED BY <2>1, <3>1 DEF Landed
  <2>2. CASE visit'.state = visit.state
    <3>1. Here' = Here BY <2>2 DEF Here
    <3>2. QED BY <1>2, <3>1
  <2>3. QED BY <2>1, <2>2 DEF Wrote
<1>4. QED BY <1>2, <1>3 DEF HasFields, HistoryKept

\* A form reaches its confirmation with its fields, in flows whose ways to the
\* confirmation save every field, through back keys and repeated answers.
THEOREM FormsAreComplete ==
  ASSUME \A f \in Flows : WellMade(f) /\ FieldsFirst(f)
  PROVE  FlowSpec => []FormComplete
<1> DEFINE Inv == FlowTypes /\ HasFields(Before(flow))
<1>1. ASSUME FlowTypes PROVE WellMade(flow) /\ ComesAfter(flow, Before(flow))
  BY <1>1 DEF FlowTypes, FieldsFirst, Before
<1>2. FlowInit => Inv
  <2> SUFFICES ASSUME FlowInit PROVE Inv OBVIOUS
  <2>1. FlowTypes BY FlowStarts
  <2>2. Here = flow.initial /\ DOMAIN visit.history = {} BY DEF FlowInit, Here, Fresh
  <2>3. QED BY <1>1, <2>1, <2>2 DEF HasFields, ComesAfter
<1>3. Inv /\ [FlowNext]_flowVars => Inv'
  <2> SUFFICES ASSUME Inv, [FlowNext]_flowVars PROVE Inv' OBVIOUS
  <2>0. PICK before : before = Before(flow) OBVIOUS
  <2>1. FlowTypes'
    <3>1. \A f \in Flows : WellMade(f) OBVIOUS
    <3>2. QED BY <3>1, FlowTypesStep
  <2>2. WellMade(flow) /\ ComesAfter(flow, before) BY <1>1, <2>0
  <2>3. flow' = flow BY DEF FlowNext, Redial, Advance, Missed, GoBack, flowVars
  <2>4. Before(flow)' = before BY <2>0, <2>3
  <2>5. HasFields(before) BY <2>0
  <2>6. Here \in DOMAIN flow.states BY <2>2, HereIsState
  <2>7. Redial => HasFields(before)'
    BY <2>2, <2>3 DEF Redial, Fresh, Here, HasFields, ComesAfter
  <2>8. UNCHANGED flowVars => HasFields(before)' BY <2>5 DEF flowVars, Here, HasFields
  <2>9. ASSUME NEW key \in Inputs, Advance(key) PROVE HasFields(before)'
    <3> DEFINE answer == flow.states[Here].handler[key]
    <3>1. key \in flow.states[Here].allowed /\ Wrote(MovesTo(answer), answer) /\ HistoryKept
      BY <2>2, <2>9, AdvanceIs
    <3>2. /\ MovesTo(answer) \in DOMAIN flow.states
          /\ before[MovesTo(answer)] \subseteq before[Here] \cup answer.saves
      BY <2>2, <2>6, <3>1 DEF MovesTo, Moves, ComesAfter
    <3> HIDE DEF answer
    <3>3. before[MovesTo(answer)] \subseteq visit.saved \cup lost \cup answer.saves
      BY <2>5, <3>2 DEF HasFields
    <3>4. QED BY <2>2, <2>3, <2>5, <3>1, <3>2, <3>3, WroteKeepsFields
  <2>10. ASSUME NEW key \in Inputs, Missed(key) PROVE HasFields(before)'
    <3> DEFINE answer == flow.states[Here].handler[key]
    <3>1. HistoryKept /\ (Wrote(Here, answer) \/ UNCHANGED <<visit, lost>>)
      BY <2>2, <2>10, MissedIs
    <3> HIDE DEF answer
    <3>2. CASE Wrote(Here, answer)
      BY <2>2, <2>3, <2>5, <2>6, <3>1, <3>2, WroteKeepsFields DEF HasFields
    <3>3. CASE UNCHANGED <<visit, lost>> BY <2>3, <2>5, <3>3 DEF Here, HasFields
    <3>4. QED BY <3>1, <3>2, <3>3
  <2>11. ASSUME NEW key \in Inputs, GoBack(key) PROVE HasFields(before)'
    <3>1. PICK i \in DOMAIN visit.history :
            /\ visit.history[i] \in DOMAIN flow.states /\ HistoryKept
            /\ Wrote(visit.history[i], flow.states[visit.history[i]].handler[NoInput])
      BY <2>2, <2>11, GoBackIs
    <3> DEFINE s == visit.history[i]
               answer == flow.states[s].handler[NoInput]
    <3>2. s \in DOMAIN flow.states /\ Wrote(s, answer) BY <3>1
    <3>3. before[s] \subseteq visit.saved \cup lost \cup answer.saves BY <2>5 DEF HasFields
    <3> HIDE DEF answer, s
    <3>4. QED BY <2>2, <2>3, <2>5, <3>1, <3>2, <3>3, WroteKeepsFields
  <2>12. HasFields(before)'
    BY <2>7, <2>8, <2>9, <2>10, <2>11 DEF FlowNext
  <2>13. QED BY <2>1, <2>4, <2>12 DEF HasFields
<1>4. Inv => FormComplete
  <2> SUFFICES ASSUME Inv PROVE FormComplete OBVIOUS
  <2>1. WellMade(flow) /\ ComesAfter(flow, Before(flow)) BY <1>1
  <2>2. Here \in DOMAIN flow.states BY <2>1, HereIsState
  <2>3. QED BY <2>1, <2>2 DEF ComesAfter, FieldsOf, HasFields, FormComplete
<1>5. QED BY <1>2, <1>3, <1>4, PTL DEF FlowSpec

-----------------------------------------------------------------------------

\* A form among other states: its fields and its confirmation follow another,
\* and nothing else leads into its middle.
Around(builders, initial, fields, allowed, complete) ==
  LET inner == {fields[i] : i \in 2 .. Len(fields)} \cup {complete}
      form == Range(fields) \cup {complete}
  IN  /\ \A i, j \in 1 .. Len(fields) : fields[i] = fields[j] => i = j
      /\ form \subseteq DOMAIN builders /\ complete \notin Range(fields)
      /\ NoState \notin DOMAIN builders /\ NoField \notin Range(fields)
      /\ \A s \in Range(fields) : builders[s] = Form(fields, allowed, complete)[s]
      /\ initial \in DOMAIN builders \ inner
      /\ \A s \in DOMAIN builders \ Range(fields) :
           builders[s].role # "field" /\ (builders[s].role = "confirm" => s = complete)
      /\ \A s \in DOMAIN builders \ form :
           /\ builders[s].next \notin inner
           /\ \A key \in DOMAIN builders[s].routes : builders[s].routes[key].target \notin inner

LEMMA FieldIs ==
  ASSUME NEW fields \in Seq(STRING), NEW allowed, NEW complete, NEW i \in 1 .. Len(fields),
         \A j, k \in 1 .. Len(fields) : fields[j] = fields[k] => j = k
  PROVE  LET b == Form(fields, allowed, complete)[fields[i]]
         IN  /\ b.role = "field" /\ b.save = fields[i] /\ b.routes = <<>>
             /\ b.next = IF i = Len(fields) THEN complete ELSE fields[i + 1]
<1>1. fields[i] \in Range(fields) /\ DOMAIN fields = 1 .. Len(fields) BY DEF Range
<1>2. (CHOOSE j \in DOMAIN fields : fields[j] = fields[i]) = i BY <1>1
<1>3. Form(fields, allowed, complete)[fields[i]] = Field(fields, i, allowed, complete)
  BY <1>1, <1>2 DEF Form
<1> DEFINE next == IF i = Len(fields) THEN complete ELSE fields[i + 1]
           b == Saves(Continues(Message, next), fields[i], allowed)
<1>4. Field(fields, i, allowed, complete) = [b EXCEPT !.end = next = NoState, !.role = "field"]
  BY DEF Field, FieldNext
<1>5. /\ b.save = fields[i] /\ b.routes = <<>> /\ b.next = next
      /\ DOMAIN b = {"end", "next", "routes", "run", "static", "save", "allowed", "role"}
  BY DEF Saves, Continues, Message
<1> HIDE DEF b, next
<1>6. QED BY <1>3, <1>4, <1>5 DEF next

\* Such a form is one that fields come first in, so that FormsAreComplete holds
\* of the flows that the compiler makes of forms.
LEMMA FormsHaveFieldsFirst ==
  ASSUME NEW builders, NEW initial, NEW fields \in Seq(STRING), NEW allowed, NEW complete,
         \A s \in DOMAIN builders : builders[s].allowed \subseteq Inputs,
         Around(builders, initial, fields, allowed, complete)
  PROVE  WellMade(Compile(initial, builders)) /\ FieldsFirst(Compile(initial, builders))
<1> DEFINE f == Compile(initial, builders)
           n == Len(fields)
           inner == {fields[i] : i \in 2 .. n} \cup {complete}
           Earlier(s) == {fields[j] : j \in {k \in 1 .. n : \E i \in 1 .. n : s = fields[i] /\ k < i}}
           before == [s \in DOMAIN builders |->
                        IF s = complete THEN Range(fields) ELSE Earlier(s)]
<1>1. /\ n \in Nat /\ Range(fields) = {fields[i] : i \in 1 .. n}
      /\ \A i, j \in 1 .. n : fields[i] = fields[j] => i = j
      /\ Range(fields) \cup {complete} \subseteq DOMAIN builders /\ complete \notin Range(fields)
      /\ NoState \notin DOMAIN builders /\ NoField \notin Range(fields)
      /\ initial \in DOMAIN builders \ inner
  BY DEF Around, Range
<1>2. \A i \in 1 .. n :
        /\ builders[fields[i]].role = "field" /\ builders[fields[i]].save = fields[i]
        /\ builders[fields[i]].routes = <<>>
        /\ builders[fields[i]].next = IF i = n THEN complete ELSE fields[i + 1]
  BY <1>1, FieldIs DEF Around
<1>3. /\ f.initial = initial /\ DOMAIN f.states = DOMAIN builders
      /\ \A s \in DOMAIN builders :
           /\ f.states[s].role = builders[s].role /\ f.states[s].field = builders[s].save
           /\ f.states[s].allowed = builders[s].allowed
           /\ \A key \in Inputs :
                /\ f.states[s].handler[key].next = NextFor(builders[s], key)
                /\ key # NoInput /\ builders[s].save # NoField =>
                     f.states[s].handler[key].saves = {builders[s].save}
  BY DEF Compile, Configured, Handled
<1> HIDE DEF f
<1>4. FieldsOf(f) = Range(fields)
  <2>1. \A s \in DOMAIN builders : f.states[s].role = "field" <=> s \in Range(fields)
    BY <1>1, <1>2, <1>3 DEF Around
  <2>2. \A s \in Range(fields) : f.states[s].field = s BY <1>1, <1>2, <1>3
  <2>3. {t \in DOMAIN f.states : f.states[t].role = "field"} = Range(fields)
    BY <1>1, <1>3, <2>1
  <2>4. QED BY <2>2, <2>3 DEF FieldsOf
<1>5. before \in [DOMAIN f.states -> SUBSET FieldsOf(f)]
  BY <1>1, <1>3, <1>4
<1>6. \A s \in DOMAIN builders \ inner : before[s] = {}
  <2>1. SUFFICES ASSUME NEW s \in DOMAIN builders \ inner PROVE Earlier(s) = {}
    OBVIOUS
  <2>2. \A i, k \in 1 .. n : s = fields[i] => ~(k < i) BY <1>1, <2>1
  <2>3. QED BY <2>2
<1>7. \A i \in 1 .. n : before[fields[i]] = {fields[j] : j \in {k \in 1 .. n : k < i}}
  BY <1>1
<1>8. before[complete] = Range(fields) BY <1>1
<1> HIDE DEF before
<1>9. ASSUME NEW s \in DOMAIN builders, NEW key \in Inputs,
             NextFor(builders[s], key) \in DOMAIN builders
      PROVE  before[NextFor(builders[s], key)]
               \subseteq before[s] \cup f.states[s].handler[key].saves
  <2> DEFINE b == builders[s]
             route == RouteFor(b, key)
             next == NextFor(b, key)
  <2>1. /\ key = NoInput => next = NoState
        /\ next = NoState \/ (next = route.target /\ ~route.end)
           \/ (next = b.next /\ ~route.end /\ route.target = NoState)
    BY NextIs
  <2>2. route = NoRoute \/ \E k \in DOMAIN b.routes : route = b.routes[k] BY RouteIs
  <2>3. NoRoute.target = NoState BY DEF NoRoute
  <2>4. key # NoInput BY <1>1, <1>9, <2>1
  <2> HIDE DEF route, next
  <2>5. CASE s \in Range(fields)
    <3>1. PICK i \in 1 .. n : s = fields[i] BY <1>1, <2>5
    <3>2. DOMAIN b.routes = {} BY <1>2, <3>1
    <3>3. next = b.next BY <1>1, <1>9, <2>1, <2>2, <2>3, <3>2 DEF next
    <3>4. f.states[s].handler[key].saves = {fields[i]}
      BY <1>1, <1>2, <1>3, <2>4, <3>1
    <3>5. CASE i = n
      <4>1. next = complete BY <1>2, <3>1, <3>3, <3>5
      <4>2. \A j \in 1 .. n : j = i \/ j < i BY <1>1, <3>5
      <4>3. QED BY <1>1, <1>7, <1>8, <3>1, <3>4, <4>1, <4>2 DEF next
    <3>6. CASE i # n
      <4>1. i + 1 \in 1 .. n /\ next = fields[i + 1] BY <1>1, <1>2, <3>1, <3>3, <3>6
      <4>2. \A j \in 1 .. n : j < i + 1 => j = i \/ j < i BY <1>1
      <4>3. /\ before[next] = {fields[j] : j \in {k \in 1 .. n : k < i + 1}}
            /\ before[s] = {fields[j] : j \in {k \in 1 .. n : k < i}}
        BY <1>7, <3>1, <4>1
      <4>4. QED BY <3>1, <3>4, <4>2, <4>3 DEF next
    <3>7. QED BY <3>5, <3>6
  <2>6. CASE s = complete
    <3>1. before[next] \subseteq Range(fields) BY <1>3, <1>4, <1>5, <1>9 DEF next
    <3>2. QED BY <1>8, <2>6, <3>1 DEF next
  <2>7. CASE s \notin Range(fields) \cup {complete}
    <3>1. /\ b.next \notin inner
          /\ \A k \in DOMAIN b.routes : b.routes[k].target \notin inner
      BY <2>7 DEF Around
    <3>2. next \in DOMAIN builders \ inner
      BY <1>1, <1>9, <2>1, <2>2, <2>3, <3>1 DEF next
    <3>3. before[next] = {} BY <1>6, <3>2
    <3>4. QED BY <3>3 DEF next
  <2>8. QED BY <2>5, <2>6, <2>7
<1>10. \A s \in DOMAIN f.states : \A key \in f.states[s].allowed :
         LET answer == f.states[s].handler[key]
         IN  answer.next \in DOMAIN f.states => before[answer.next] \subseteq before[s] \cup answer.saves
  BY <1>3, <1>9
<1>11. \A s \in DOMAIN f.states : f.states[s].role = "confirm" => FieldsOf(f) \subseteq before[s]
  <2>1. ASSUME NEW s \in DOMAIN builders, builders[s].role = "confirm" PROVE s = complete
    <3>1. s \notin Range(fields) BY <1>1, <1>2, <2>1
    <3>2. QED BY <2>1, <3>1 DEF Around
  <2>2. QED BY <1>3, <1>4, <1>8, <2>1
<1>12. ComesAfter(f, before) BY <1>1, <1>3, <1>6, <1>10, <1>11 DEF ComesAfter
<1>13. FieldsFirst(f) BY <1>5, <1>12 DEF FieldsFirst
<1>14. QED BY <1>1, <1>3, <1>13 DEF WellMade, f

\* A form among the states of a flow reaches its confirmation complete, whatever
\* the other states are and wherever the form's confirmation leads.
THEOREM CompiledFormsAreComplete ==
  ASSUME \A f \in Flows : \E builders, initial, allowed, complete : \E fields \in Seq(STRING) :
           /\ f = Compile(initial, builders)
           /\ \A s \in DOMAIN builders : builders[s].allowed \subseteq Inputs
           /\ Around(builders, initial, fields, allowed, complete)
  PROVE  FlowSpec => []FormComplete
BY FormsHaveFieldsFirst, FormsAreComplete

-----------------------------------------------------------------------------
(* Plugins.                                                                *)

\* What a plugin, registered under these names, relies on.
StillUsable(p, names) ==
  /\ Requires[p] \subseteq Registered
  /\ hooks[p] > 0
  /\ strict => \A n \in ToSet(names) : states[n] = p

AllNames == UNION {Names[p] : p \in Plugins}
Entries == [plugin : Plugins, names : AllNames]

PluginTypes ==
  /\ strict \in BOOLEAN
  /\ plugins \in [Plugins -> AllNames \cup {Absent}]
  /\ \A p \in Registered : plugins[p] \in Names[p]
  /\ states \in [FullNames -> Plugins \cup {Absent}]
  /\ hooks \in [Plugins -> Nat]
  /\ installing \in Seq(Entries)
  /\ \A i \in DOMAIN installing : installing[i].names \in Names[installing[i].plugin]

\* A plugin whose install hook still runs is as usable as a registered one,
\* so that it is when the hook returns.
PluginInv ==
  /\ PluginTypes
  /\ \A p \in Registered : StillUsable(p, plugins[p])
  /\ \A i \in DOMAIN installing : StillUsable(installing[i].plugin, installing[i].names)

-----------------------------------------------------------------------------
LEMMA NamesAreFull ==
  ASSUME NEW p \in Plugins, NEW names \in Names[p]
  PROVE  ToSet(names) \subseteq FullNames
  BY DEF FullNames

LEMMA NamesAreSequences ==
  ASSUME NEW p \in Plugins, NEW names \in Names[p]
  PROVE  DOMAIN names \subseteq Nat /\ names # Absent /\ names \in Seq(ToSet(names))
  BY PluginsAssumption

\* In strict mode a registration takes no state that is there.
LEMMA StrictTakesFree ==
  ASSUME PluginTypes, strict, NEW p \in Plugins, NEW names \in Names[p],
         NEW n \in SetBefore(p, names)
  PROVE  states[n] = Absent
<1>1. PICK i \in DOMAIN names : n = names[i] /\ \A c \in Taken(names) : i < c
  BY DEF SetBefore
<1>2. i \in Nat BY NamesAreSequences
<1>3. i \notin Taken(names) BY <1>1, <1>2
<1>4. QED BY <1>1, <1>3 DEF Taken

LEMMA StatesStay ==
  ASSUME PluginTypes, NEW p \in Plugins, NEW names \in Names[p], StatesSet(p, names)
  PROVE  /\ states' \in [FullNames -> Plugins \cup {Absent}]
         /\ strict => \A n \in FullNames : states[n] # Absent => states'[n] = states[n]
<1>1. states' \in [FullNames -> Plugins \cup {Absent}]
  BY DEF StatesSet, PluginTypes
<1>2. ASSUME strict, NEW n \in FullNames, states[n] # Absent
      PROVE  states'[n] = states[n]
  <2>1. n \notin SetBefore(p, names) BY <1>2, StrictTakesFree
  <2>2. QED BY <2>1 DEF StatesSet
<1>3. QED BY <1>1, <1>2

\* What nothing took away stays usable.
LEMMA StaysUsable ==
  ASSUME PluginTypes, NEW p \in Plugins, NEW names \in Names[p], StillUsable(p, names),
         Registered \subseteq Registered', hooks'[p] > 0, strict' = strict,
         strict => \A n \in FullNames : states[n] # Absent => states'[n] = states[n]
  PROVE  StillUsable(p, names)'
<1>1. ASSUME strict, NEW n \in ToSet(names) PROVE states'[n] = p
  <2>1. n \in FullNames BY NamesAreFull
  <2>2. states[n] = p BY <1>1 DEF StillUsable
  <2>3. states[n] # Absent BY <2>2, PluginsAssumption
  <2>4. QED BY <1>1, <2>1, <2>2, <2>3
<1>2. QED BY <1>1 DEF StillUsable

-----------------------------------------------------------------------------
\* An entry of the installations is of a plugin, under names of its own.
LEMMA EntryTypes ==
  ASSUME PluginTypes, NEW i \in DOMAIN installing
  PROVE  /\ installing[i].plugin \in Plugins
         /\ installing[i].names \in Names[installing[i].plugin]
<1>1. installing[i] \in Entries BY DEF PluginTypes
<1>2. QED BY <1>1 DEF PluginTypes, Entries

LEMMA RegisterKeeps ==
  ASSUME PluginInv, NEW p \in Plugins, NEW names \in Names[p], Register(p, names)
  PROVE  PluginInv'
<1> DEFINE entry == [plugin |-> p, names |-> names]
<1>1. /\ PluginTypes /\ StatesSet(p, names) /\ strict' = strict
      /\ plugins[p] = Absent /\ Requires[p] \subseteq Registered
  BY DEF PluginInv, Register, MayRegister
<1>2. /\ states' \in [FullNames -> Plugins \cup {Absent}]
      /\ strict => \A n \in FullNames : states[n] # Absent => states'[n] = states[n]
  BY <1>1, StatesStay
<1>3. /\ hooks' \in [Plugins -> Nat]
      /\ \A q \in Plugins : hooks[q] > 0 => hooks'[q] > 0
      /\ Taken(names) = {} => hooks'[p] > 0
  <2>1. hooks \in [Plugins -> Nat] BY <1>1 DEF PluginTypes
  <2>2. CASE Taken(names) # {}
    <3>1. hooks' = hooks BY <2>2 DEF Register
    <3>2. QED BY <2>1, <2>2, <3>1
  <2>3. CASE Taken(names) = {}
    <3>1. hooks' = [hooks EXCEPT ![p] = hooks[p] + 1] BY <2>3 DEF Register
    <3>2. QED BY <2>1, <3>1
  <2>4. QED BY <2>2, <2>3
<1>4. plugins' = plugins \/ plugins' = [plugins EXCEPT ![p] = names]
  BY DEF Register
<1>5. names # Absent BY NamesAreSequences
<1>6. Registered \subseteq Registered'
  BY <1>1, <1>4, <1>5 DEF Registered, PluginTypes
<1>7. \A q \in Plugins : \A ns \in Names[q] : StillUsable(q, ns) => StillUsable(q, ns)'
  <2> SUFFICES ASSUME NEW q \in Plugins, NEW ns \in Names[q], StillUsable(q, ns)
               PROVE  StillUsable(q, ns)'
    OBVIOUS
  <2>1. hooks'[q] > 0 BY <1>3 DEF StillUsable
  <2>2. QED BY <1>1, <1>2, <1>6, <2>1, StaysUsable
<1>8. ASSUME Taken(names) = {} PROVE StillUsable(p, names)'
  <2>1. ASSUME NEW n \in ToSet(names) PROVE states'[n] = p
    <3>1. n \in SetBefore(p, names) BY <1>8, <2>1 DEF SetBefore, ToSet
    <3>2. n \in FullNames BY NamesAreFull
    <3>3. QED BY <1>1, <3>1, <3>2 DEF StatesSet
  <2>2. QED BY <1>1, <1>3, <1>6, <1>8, <2>1 DEF StillUsable
<1>9. \A q \in Registered' :
        plugins'[q] \in Names[q] /\ StillUsable(q, plugins[q])'
  <2> SUFFICES ASSUME NEW q \in Plugins, plugins'[q] # Absent
               PROVE  plugins'[q] \in Names[q] /\ StillUsable(q, plugins[q])'
    BY DEF Registered
  <2>1. CASE plugins'[q] = plugins[q]
    <3>1. PICK ns \in Names[q] : plugins'[q] = ns /\ StillUsable(q, ns)
      BY <1>1, <2>1 DEF PluginInv, PluginTypes, Registered
    <3>2. StillUsable(q, ns)' BY <1>7, <3>1
    <3>3. QED BY <3>1, <3>2 DEF StillUsable
  <2>2. CASE plugins'[q] # plugins[q]
    <3>1. q = p /\ plugins'[q] = names /\ Taken(names) = {}
      BY <1>1, <1>4, <2>2 DEF Register, PluginTypes
    <3>2. StillUsable(p, names)' BY <1>8, <3>1
    <3>3. QED BY <3>1, <3>2 DEF StillUsable
  <2>3. QED BY <2>1, <2>2
<1>10. /\ installing' \in Seq(Entries)
       /\ \A i \in DOMAIN installing' :
            \/ i \in DOMAIN installing /\ installing'[i] = installing[i]
            \/ Taken(names) = {} /\ installing'[i] = entry
  <2>1. installing \in Seq(Entries) BY <1>1 DEF PluginTypes
  <2>2. entry \in Entries BY DEF Entries, AllNames
  <2> HIDE DEF entry
  <2>3. CASE installing' = installing BY <2>1, <2>3
  <2>4. CASE Taken(names) = {} /\ installing' = Append(installing, entry)
    <3>1. installing' \in Seq(Entries) BY <2>1, <2>2, <2>4
    <3>2. QED BY <2>1, <2>4, <3>1
  <2>5. QED BY <2>3, <2>4 DEF Register, entry
<1>11. \A i \in DOMAIN installing' :
         /\ installing'[i].names \in Names[installing'[i].plugin]
         /\ StillUsable(installing[i].plugin, installing[i].names)'
  <2> TAKE i \in DOMAIN installing'
  <2>1. CASE i \in DOMAIN installing /\ installing'[i] = installing[i]
    <3>1. PICK q, ns :
            /\ q \in Plugins /\ ns \in Names[q] /\ StillUsable(q, ns)
            /\ installing'[i].plugin = q /\ installing'[i].names = ns
      BY <1>1, <2>1, EntryTypes DEF PluginInv
    <3>2. StillUsable(q, ns)' BY <1>7, <3>1
    <3>3. QED BY <3>1, <3>2 DEF StillUsable
  <2>2. CASE Taken(names) = {} /\ installing'[i] = entry
    <3>1. StillUsable(p, names)' BY <1>8, <2>2
    <3>2. installing'[i].plugin = p /\ installing'[i].names = names BY <2>2
    <3>3. QED BY <3>1, <3>2 DEF StillUsable
  <2>3. QED BY <1>10, <2>1, <2>2
<1>12. plugins' \in [Plugins -> AllNames \cup {Absent}]
  BY <1>1, <1>4 DEF PluginTypes, AllNames
<1>13. PluginTypes'
  BY <1>1, <1>2, <1>3, <1>9, <1>10, <1>11, <1>12 DEF PluginTypes
<1>14. QED BY <1>9, <1>11, <1>13 DEF PluginInv

\* The innermost installation ends.
LEMMA InstalledKeeps ==
  ASSUME PluginInv, Installed \/ InstallThrows
  PROVE  PluginInv'
<1> DEFINE k == Len(installing)
           p == installing[k].plugin
           names == installing[k].names
<1>1. PluginTypes /\ installing \in Seq(Entries) /\ installing # <<>>
      /\ UNCHANGED <<strict, states, hooks>>
  BY DEF PluginInv, PluginTypes, Installed, InstallThrows
<1>2. k \in DOMAIN installing BY <1>1
<1>3. p \in Plugins /\ names \in Names[p] BY <1>1, <1>2, EntryTypes
<1>4. StillUsable(p, names) BY <1>2 DEF PluginInv
<1>5. /\ installing' \in Seq(Entries)
      /\ \A i \in DOMAIN installing' :
           i \in DOMAIN installing /\ installing'[i] = installing[i]
  <2>1. installing' = SubSeq(installing, 1, Len(installing) - 1)
    BY DEF Installed, InstallThrows, Front
  <2>2. QED BY <1>1, <2>1
<1>6. plugins' = plugins \/ plugins' = [plugins EXCEPT ![p] = names]
  BY DEF Installed, InstallThrows, Last
<1> HIDE DEF p, names, k
<1>7. names # Absent BY <1>3, NamesAreSequences
<1>8. Registered \subseteq Registered'
  BY <1>1, <1>3, <1>6, <1>7 DEF Registered, PluginTypes
<1>9. \A q, ns : StillUsable(q, ns) => StillUsable(q, ns)' BY <1>1, <1>8 DEF StillUsable
<1>10. \A q \in Registered' :
         plugins'[q] \in Names[q] /\ StillUsable(q, plugins[q])'
  <2> SUFFICES ASSUME NEW q \in Plugins, plugins'[q] # Absent
               PROVE  plugins'[q] \in Names[q] /\ StillUsable(q, plugins[q])'
    BY DEF Registered
  <2>1. PICK ns : plugins'[q] = ns /\ ns \in Names[q] /\ StillUsable(q, ns)
    <3>1. CASE plugins'[q] = plugins[q]
      BY <1>1, <3>1 DEF PluginInv, PluginTypes, Registered
    <3>2. CASE plugins'[q] # plugins[q]
      <4>1. q = p /\ plugins'[q] = names BY <1>1, <1>6, <3>2 DEF PluginTypes
      <4>2. QED BY <1>3, <1>4, <4>1
    <3>3. QED BY <3>1, <3>2
  <2>2. StillUsable(q, ns)' BY <1>9, <2>1
  <2>3. QED BY <2>1, <2>2 DEF StillUsable
<1>11. \A i \in DOMAIN installing' :
         /\ installing'[i].names \in Names[installing'[i].plugin]
         /\ StillUsable(installing[i].plugin, installing[i].names)'
  <2> TAKE i \in DOMAIN installing'
  <2>1. PICK q, ns :
          /\ installing'[i].plugin = q /\ installing'[i].names = ns
          /\ ns \in Names[q] /\ StillUsable(q, ns)
    BY <1>1, <1>5, EntryTypes DEF PluginInv
  <2>2. StillUsable(q, ns)' BY <1>9, <2>1
  <2>3. QED BY <2>1, <2>2 DEF StillUsable
<1>12. plugins' \in [Plugins -> AllNames \cup {Absent}]
  <2>1. names \in AllNames BY <1>3 DEF AllNames
  <2>2. QED BY <1>1, <1>6, <2>1 DEF PluginTypes
<1>13. PluginTypes' BY <1>1, <1>5, <1>10, <1>11, <1>12 DEF PluginTypes
<1>14. QED BY <1>10, <1>11, <1>13 DEF PluginInv

\* Nothing depends on the plugin that goes, and it takes only states of its
\* own with it.
LEMMA UnregisterKeeps ==
  ASSUME PluginInv, NEW name \in Plugins, Unregister(name)
  PROVE  PluginInv'
<1>1. /\ PluginTypes /\ installing = <<>> /\ installing' = <<>> /\ strict' = strict
      /\ plugins' = [plugins EXCEPT ![name] = Absent]
      /\ hooks' = [hooks EXCEPT ![name] = 0]
      /\ states' = [n \in FullNames |-> IF n \in ToSet(plugins[name]) THEN Absent
                                        ELSE states[n]]
      /\ name \in Registered /\ ~DependedOn(name)
  BY DEF PluginInv, Unregister
<1>2. Registered' = Registered \ {name} BY <1>1 DEF Registered, PluginTypes
<1>3. ASSUME NEW q \in Registered' PROVE plugins'[q] \in Names[q] /\ StillUsable(q, plugins[q])'
  <2>1. /\ q \in Plugins /\ q # name /\ q \in Registered
        /\ plugins'[q] = plugins[q] /\ hooks'[q] = hooks[q]
    BY <1>1, <1>2 DEF Registered, PluginTypes
  <2>2. plugins[q] \in Names[q] /\ StillUsable(q, plugins[q])
    BY <1>1, <2>1 DEF PluginInv, PluginTypes
  <2>3. Requires[q] \subseteq Registered'
    BY <1>1, <1>2, <2>1, <2>2 DEF StillUsable, DependedOn
  <2>4. ASSUME strict, NEW n \in ToSet(plugins[q]) PROVE states'[n] = q
    <3>1. n \in FullNames /\ states[n] = q BY <2>1, <2>2, <2>4, NamesAreFull DEF StillUsable
    <3>2. n \notin ToSet(plugins[name])
      BY <1>1, <2>1, <2>4, <3>1 DEF PluginInv, StillUsable
    <3>3. QED BY <1>1, <3>1, <3>2
  <2>5. hooks'[q] > 0 BY <2>1, <2>2 DEF StillUsable
  <2>6. QED BY <1>1, <2>1, <2>2, <2>3, <2>4, <2>5 DEF StillUsable
<1>4. PluginTypes'
  <2>1. states' \in [FullNames -> Plugins \cup {Absent}] BY <1>1 DEF PluginTypes
  <2>2. hooks' \in [Plugins -> Nat] BY <1>1 DEF PluginTypes
  <2>3. plugins' \in [Plugins -> AllNames \cup {Absent}]
    BY <1>1 DEF PluginTypes
  <2>4. UNCHANGED <<strict, installing>> BY <1>1
  <2>5. QED BY <1>1, <1>3, <2>1, <2>2, <2>3, <2>4 DEF PluginTypes
<1>5. DOMAIN installing' = {} BY <1>1
<1>6. QED BY <1>3, <1>4, <1>5 DEF PluginInv

-----------------------------------------------------------------------------
LEMMA PluginsInitially == PluginInit => PluginInv
<1> SUFFICES ASSUME PluginInit PROVE PluginInv
  OBVIOUS
<1>1. installing = <<>> /\ DOMAIN installing = {} BY DEF PluginInit
<1>2. Registered = {} BY DEF PluginInit, Registered
<1>3. installing \in Seq(Entries) BY <1>1
<1>4. PluginTypes
  BY <1>1, <1>2, <1>3, PluginsAssumption DEF PluginInit, PluginTypes
<1>5. QED BY <1>1, <1>2, <1>4 DEF PluginInv

\* A registered plugin can be used: what it depends on is registered, its
\* hooks are there, and in strict mode each of its states is its own.
THEOREM PluginsStayUsable == PluginSpec => []PluginsUsable
<1>1. PluginInv /\ [PluginNext]_pluginVars => PluginInv'
  <2> SUFFICES ASSUME PluginInv, [PluginNext]_pluginVars PROVE PluginInv'
    OBVIOUS
  <2>1. CASE \E p \in Plugins : Unregister(p) BY <2>1, UnregisterKeeps
  <2>2. CASE \E p \in Plugins : \E names \in Names[p] : Register(p, names)
    BY <2>2, RegisterKeeps
  <2>3. CASE Installed \/ InstallThrows BY <2>3, InstalledKeeps
  <2>4. CASE UNCHANGED pluginVars
    BY <2>4 DEF pluginVars, PluginInv, PluginTypes, StillUsable, Registered
  <2>5. QED BY <2>1, <2>2, <2>3, <2>4 DEF PluginNext
<1>2. PluginInv => PluginsUsable BY DEF PluginInv, StillUsable, PluginsUsable
<1>3. QED BY PluginsInitially, <1>1, <1>2, PTL DEF PluginSpec

-----------------------------------------------------------------------------
(* The market's stock.                                                     *)

Carts == [Skus -> Nat]
Orders == [phone : {Phone[s] : s \in Shoppers}, items : Carts, status : {"placed", "cancelled"}]
Visits == [state : {"CART", "CONFIRM", "ORDER_DETAIL", "over"}, cart : Carts,
           viewed : Nat, turn : 1..MaxTurns]

\* What is looked at is an order, and there is an update's version for each.
MarketTypes ==
  /\ stock \in [Skus -> Nat]
  /\ orders \in Seq(Orders)
  /\ orderEvents \in Seq(Nat) /\ Len(orderEvents) = Len(orders)
  /\ visits \in [Shoppers -> Visits]
  /\ \A s \in Shoppers : visits[s].state = "ORDER_DETAIL" => visits[s].viewed \in 1..Len(orders)

\* Units of a set of orders are finitely many.
LEMMA UnitsFinite ==
  ASSUME MarketTypes, NEW sku \in Skus
  PROVE  IsFiniteSet(Units(sku)) /\ Reserved(sku) \in Nat
<1> DEFINE column == [id \in Standing |-> {id} \X (1 .. orders[id].items[sku])]
           columns == {column[id] : id \in Standing}
<1>1. DOMAIN orders = 1..Len(orders) /\ Len(orders) \in Nat
  BY LenProperties DEF MarketTypes
<1>2. IsFiniteSet(Standing)
  <2>1. IsFiniteSet(1..Len(orders)) BY <1>1, FS_Interval
  <2>2. Standing \subseteq 1..Len(orders) BY <1>1 DEF Standing
  <2>3. QED BY <2>1, <2>2, FS_Subset
<1>3. column \in Surjection(Standing, columns) BY DEF Surjection
<1>4. IsFiniteSet(columns) BY <1>2, <1>3, FS_Surjection
<1>5. ASSUME NEW id \in Standing PROVE IsFiniteSet(column[id])
  <2>1. orders[id] \in Orders BY <1>1 DEF Standing, MarketTypes
  <2>2. orders[id].items[sku] \in Int BY <2>1 DEF Orders, Carts
  <2>3. IsFiniteSet(1 .. orders[id].items[sku]) BY <2>2, FS_Interval
  <2>4. IsFiniteSet({id}) BY FS_Singleton
  <2>5. IsFiniteSet({id} \X (1 .. orders[id].items[sku])) BY <2>3, <2>4, FS_Product
  <2>6. QED BY <2>5
<1>6. IsFiniteSet(UNION columns) BY <1>4, <1>5, FS_UNION
<1>7. Units(sku) = UNION columns BY DEF Units
<1>8. QED BY <1>6, <1>7, FS_CardinalityType DEF Reserved

\* As many units as an order has of a product.
LEMMA UnitsOf ==
  ASSUME NEW id, NEW n \in Nat
  PROVE  IsFiniteSet({id} \X (1..n)) /\ Cardinality({id} \X (1..n)) = n
<1>1. IsFiniteSet(1..n) /\ Cardinality(1..n) = n BY FS_Interval
<1>2. IsFiniteSet({id}) /\ Cardinality({id}) = 1 BY FS_Singleton
<1>3. /\ IsFiniteSet({id} \X (1..n))
      /\ Cardinality({id} \X (1..n)) = Cardinality({id}) * Cardinality(1..n)
  BY <1>1, <1>2, FS_Product, Zenon
<1>4. Cardinality({id} \X (1..n)) = 1 * n BY <1>1, <1>2, <1>3, Zenon
<1>5. 1 * n = n OBVIOUS
<1>6. QED BY <1>3, <1>4, <1>5, Zenon

\* Units of two disjoint sets of orders add up.
LEMMA UnitsAdd ==
  ASSUME NEW A, NEW B, IsFiniteSet(A), IsFiniteSet(B), A \cap B = {}
  PROVE  Cardinality(A \cup B) = Cardinality(A) + Cardinality(B)
<1>1. Cardinality(A \cap B) = 0 BY FS_EmptySet
<1>2. Cardinality(A \cup B) = Cardinality(A) + Cardinality(B) - Cardinality(A \cap B)
  BY FS_Union
<1>3. Cardinality(A) \in Nat /\ Cardinality(B) \in Nat BY FS_CardinalityType
<1>4. QED BY <1>1, <1>2, <1>3

\* An order that is placed reserves its items, one cancelled gives them back.
LEMMA PlacedReserves ==
  ASSUME MarketTypes, NEW sku \in Skus, NEW o \in Orders, o.status = "placed",
         orders' = Append(orders, o)
  PROVE  Reserved(sku)' = Reserved(sku) + o.items[sku]
<1> DEFINE id == Len(orders) + 1
           new == {id} \X (1 .. o.items[sku])
<1>1. DOMAIN orders = 1..Len(orders) /\ Len(orders) \in Nat
  BY LenProperties DEF MarketTypes
<1>2. /\ DOMAIN orders' = 1..id /\ orders'[id] = o
      /\ \A i \in 1..Len(orders) : orders'[i] = orders[i]
  BY <1>1, AppendProperties, LenProperties DEF MarketTypes
<1>3. Standing' = Standing \cup {id} BY <1>1, <1>2 DEF Standing
<1>4. Standing \subseteq 1..Len(orders) BY <1>1 DEF Standing
<1>5. Units(sku)' = Units(sku) \cup new
  <2>1. ASSUME NEW u PROVE u \in Units(sku)' <=> u \in Units(sku) \/ u \in new
    <3>1. u \in Units(sku)' <=>
            \E i \in Standing' : u \in {i} \X (1 .. orders'[i].items[sku])
      BY DEF Units
    <3>2. u \in Units(sku) <=>
            \E i \in Standing : u \in {i} \X (1 .. orders[i].items[sku])
      BY DEF Units
    <3>3. QED BY <1>2, <1>3, <1>4, <3>1, <3>2
  <2>2. QED BY <2>1
<1>6. Units(sku) \cap new = {}
  <2> SUFFICES ASSUME NEW u \in Units(sku), u \in new PROVE FALSE OBVIOUS
  <2>1. PICK i \in Standing : u \in {i} \X (1 .. orders[i].items[sku]) BY DEF Units
  <2>2. u[1] = i /\ u[1] = id BY <2>1
  <2>3. QED BY <1>1, <1>4, <2>2
<1>7. o.items[sku] \in Nat BY DEF Orders, Carts
<1>8. IsFiniteSet(new) /\ Cardinality(new) = o.items[sku] BY <1>7, UnitsOf
<1> HIDE DEF new
<1>9. QED BY <1>5, <1>6, <1>8, UnitsFinite, UnitsAdd DEF Reserved

LEMMA CancelledReleases ==
  ASSUME MarketTypes, NEW sku \in Skus, NEW id \in 1..Len(orders),
         orders[id].status = "placed", orders' = [orders EXCEPT ![id].status = "cancelled"]
  PROVE  /\ Reserved(sku) = Reserved(sku)' + orders[id].items[sku]
         /\ Reserved(sku)' \in Nat
<1> DEFINE old == {id} \X (1 .. orders[id].items[sku])
<1>1. DOMAIN orders = 1..Len(orders) /\ Len(orders) \in Nat
  BY LenProperties DEF MarketTypes
<1>2. orders[id] \in Orders BY <1>1 DEF MarketTypes
<1>3. /\ DOMAIN orders' = DOMAIN orders /\ orders'[id].status = "cancelled"
      /\ \A i \in DOMAIN orders \ {id} : orders'[i] = orders[i]
  BY <1>1, <1>2 DEF MarketTypes, Orders
<1>4. Standing = Standing' \cup {id} /\ id \notin Standing' BY <1>1, <1>3 DEF Standing
<1>5. Standing' \subseteq DOMAIN orders BY <1>3 DEF Standing
<1>6. Units(sku) = Units(sku)' \cup old
  <2>1. ASSUME NEW u PROVE u \in Units(sku) <=> u \in Units(sku)' \/ u \in old
    <3>1. u \in Units(sku)' <=>
            \E i \in Standing' : u \in {i} \X (1 .. orders'[i].items[sku])
      BY DEF Units
    <3>2. u \in Units(sku) <=>
            \E i \in Standing : u \in {i} \X (1 .. orders[i].items[sku])
      BY DEF Units
    <3>3. QED BY <1>3, <1>4, <1>5, <3>1, <3>2
  <2>2. QED BY <2>1
<1>7. Units(sku)' \cap old = {}
  <2> SUFFICES ASSUME NEW u \in Units(sku)', u \in old PROVE FALSE OBVIOUS
  <2>1. PICK i \in Standing' : u \in {i} \X (1 .. orders'[i].items[sku]) BY DEF Units
  <2>2. u[1] = i /\ u[1] = id BY <2>1
  <2>3. QED BY <1>4, <2>2
<1>8. orders[id].items[sku] \in Nat BY <1>2 DEF Orders, Carts
<1>9. IsFiniteSet(old) /\ Cardinality(old) = orders[id].items[sku] BY <1>8, UnitsOf
<1>10. IsFiniteSet(Units(sku)') BY <1>6, UnitsFinite, FS_Subset
<1> HIDE DEF old
<1>11. Cardinality(Units(sku)') \in Nat BY <1>10, FS_CardinalityType
<1>12. QED BY <1>6, <1>7, <1>9, <1>10, <1>11, UnitsAdd DEF Reserved

\* Orders that stay as they are reserve what they did.
LEMMA SameReserved ==
  ASSUME orders' = orders, NEW sku PROVE Reserved(sku)' = Reserved(sku)
BY DEF Reserved, Units, Standing

MarketInv == MarketTypes /\ StockConserved

\* What a turn does to its session: the visit it leaves.
LEMMA VisitBecomes ==
  ASSUME MarketTypes, NEW s \in Shoppers, NEW v \in Visits,
         visits' = [visits EXCEPT ![s] = v]
  PROVE  /\ visits' \in [Shoppers -> Visits] /\ visits'[s] = v
         /\ \A r \in Shoppers \ {s} : visits'[r] = visits[r]
BY DEF MarketTypes

LEMMA VisitIs ==
  ASSUME MarketTypes, NEW s \in Shoppers
  PROVE  /\ visits[s] \in Visits
         /\ visits[s] = [state |-> visits[s].state, cart |-> visits[s].cart,
                         viewed |-> visits[s].viewed, turn |-> visits[s].turn]
BY DEF MarketTypes, Visits

\* With an answer the session goes on in its cart, in the next turn, or is over.
LEMMA GoesTo ==
  ASSUME MarketTypes, NEW s \in Shoppers, NEW answer, Goes(s, answer)
  PROVE  \E v \in Visits :
           /\ visits' = [visits EXCEPT ![s] = v]
           /\ \/ v.state = "over" /\ v.turn = visits[s].turn
              \/ v.state = "CART" /\ v.turn = visits[s].turn + 1
<1> DEFINE w == visits[s]
           over == [w EXCEPT !.state = "over"]
           on == [w EXCEPT !.state = "CART", !.turn = w.turn + 1]
<1>1. w \in Visits BY DEF MarketTypes
<1>2. over \in Visits /\ over.state = "over" /\ over.turn = w.turn BY <1>1 DEF Visits
<1>3. CASE answer.status # "out_of_stock"
  <2>1. visits' = [visits EXCEPT ![s] = over] BY <1>3 DEF Goes, MarketTypes
  <2>2. QED BY <1>2, <2>1
<1>4. CASE answer.status = "out_of_stock" /\ w.turn < MaxTurns
  <2>1. visits' = [visits EXCEPT ![s] = on] BY <1>4 DEF Goes, MarketTypes
  <2>2. w.turn + 1 \in 1..MaxTurns BY <1>1, <1>4, MarketAssumption DEF Visits
  <2>3. on \in Visits /\ on.state = "CART" /\ on.turn = w.turn + 1
    BY <1>1, <2>2 DEF Visits
  <2>4. QED BY <2>1, <2>3
<1>5. CASE answer.status = "out_of_stock" /\ ~(w.turn < MaxTurns)
  <2>1. visits' = [visits EXCEPT ![s].state = "over", ![s].turn = @] BY <1>5 DEF Goes
  <2>2. visits' = [visits EXCEPT ![s] = over]
    BY <1>1, <2>1 DEF MarketTypes, Visits
  <2>3. QED BY <1>2, <2>2
<1>6. QED BY <1>3, <1>4, <1>5

\* Every step of a session: another visit, or the same.
PassesOn(s) ==
  \E v \in Visits :
    /\ visits' = [visits EXCEPT ![s] = v]
    /\ v.state = "ORDER_DETAIL" => v.viewed \in 1..Len(orders)
    /\ \/ v.turn = visits[s].turn /\ (visits[s].state = "CART" \/ v.state = "over" \/ v = visits[s])
       \/ v.state = "CART" /\ v.turn = visits[s].turn + 1

LEMMA ToldMoves ==
  ASSUME MarketTypes, NEW s \in Shoppers, NEW answer, Told(s, answer)
  PROVE  PassesOn(s)
<1>1. CASE Goes(s, answer) BY <1>1, GoesTo DEF PassesOn
<1>2. CASE UNCHANGED visits
  <2>1. visits' = [visits EXCEPT ![s] = visits[s]] BY <1>2 DEF MarketTypes
  <2>2. visits[s] \in Visits
        /\ (visits[s].state = "ORDER_DETAIL" => visits[s].viewed \in 1..Len(orders))
    BY DEF MarketTypes
  <2>3. QED BY <2>1, <2>2 DEF PassesOn
<1>3. QED BY <1>1, <1>2 DEF Told

LEMMA SessionMoves ==
  ASSUME MarketTypes, NEW s \in Shoppers,
         \/ Pickup(s) \/ Confirm(s) \/ CancelViewed(s) \/ Recover(s) \/ Revisit(s)
         \/ \E sku \in Skus, quantity \in Quantities : Add(s, sku, quantity)
         \/ \E id \in DOMAIN orders : View(s, id)
  PROVE  PassesOn(s)
<1> DEFINE w == visits[s]
<1>1. w \in Visits BY VisitIs
<1>2. CASE Pickup(s)
  <2> DEFINE v == [w EXCEPT !.state = "CONFIRM"]
  <2>1. visits' = [visits EXCEPT ![s] = v] BY <1>2 DEF Pickup
  <2>2. v \in Visits /\ v.state = "CONFIRM" /\ v.turn = w.turn BY <1>1 DEF Visits
  <2>3. w.state = "CART" BY <1>2 DEF Pickup
  <2> HIDE DEF v
  <2>4. QED BY <2>1, <2>2, <2>3 DEF PassesOn
<1>3. CASE Confirm(s) BY <1>3, ToldMoves DEF Confirm
<1>4. CASE CancelViewed(s) BY <1>4, ToldMoves DEF CancelViewed
<1>5. CASE Recover(s)
  <2>1. \E answer : Told(s, answer)
    <3>1. CASE w.state = "CONFIRM" BY <1>5, <3>1 DEF Recover
    <3>2. CASE w.state = "ORDER_DETAIL" BY <1>5, <3>2 DEF Recover
    <3>3. QED BY <1>5, <3>1, <3>2 DEF Recover
  <2>2. QED BY <2>1, ToldMoves
<1>6. CASE Revisit(s)
  <2> DEFINE v == Visit("CART", w.turn + 1)
  <2>1. visits' = [visits EXCEPT ![s] = v] BY <1>6 DEF Revisit
  <2>2. w.turn + 1 \in 1..MaxTurns BY <1>1, <1>6, MarketAssumption DEF Revisit, Visits
  <2>3. EmptyCart \in Carts BY DEF EmptyCart, Carts
  <2>4. v \in Visits /\ v.state = "CART" /\ v.turn = w.turn + 1
    BY <2>2, <2>3 DEF Visit, Visits
  <2> HIDE DEF v
  <2>5. QED BY <2>1, <2>4 DEF PassesOn
<1>7. ASSUME NEW sku \in Skus, NEW quantity \in Quantities, Add(s, sku, quantity)
      PROVE  PassesOn(s)
  <2> DEFINE c == [w.cart EXCEPT ![sku] = quantity]
             v == [w EXCEPT !.cart = c]
  <2>1. visits' = [visits EXCEPT ![s] = v] BY <1>7 DEF Add
  <2>2. c \in Carts BY <1>1, MarketAssumption DEF Visits, Carts
  <2> HIDE DEF c
  <2>3. v \in Visits /\ v.state = w.state /\ v.turn = w.turn BY <1>1, <2>2 DEF Visits
  <2>4. w.state = "CART" BY <1>7 DEF Add
  <2> HIDE DEF v
  <2>5. QED BY <2>1, <2>3, <2>4 DEF PassesOn
<1>8. ASSUME NEW id \in DOMAIN orders, View(s, id) PROVE PassesOn(s)
  <2> DEFINE v == [w EXCEPT !.state = "ORDER_DETAIL", !.viewed = id]
  <2>1. visits' = [visits EXCEPT ![s] = v] BY <1>8 DEF View, MarketTypes
  <2>2. id \in Nat /\ id \in 1..Len(orders) BY LenProperties DEF MarketTypes
  <2>3. v \in Visits /\ v.turn = w.turn /\ v.viewed = id BY <1>1, <2>2 DEF Visits
  <2>4. w.state = "CART" BY <1>8 DEF View
  <2> HIDE DEF v
  <2>5. QED BY <2>1, <2>2, <2>3, <2>4 DEF PassesOn
<1>9. QED BY <1>2, <1>3, <1>4, <1>5, <1>6, <1>7, <1>8

\* The types of visits after such a step, with no order fewer.
LEMMA MovedTypes ==
  ASSUME MarketTypes, NEW s \in Shoppers, PassesOn(s), Len(orders)' \in Nat,
         Len(orders) <= Len(orders)'
  PROVE  /\ visits' \in [Shoppers -> Visits]
         /\ \A r \in Shoppers :
              visits'[r].state = "ORDER_DETAIL" => visits'[r].viewed \in 1..Len(orders)'
<1>1. PICK v \in Visits : /\ visits' = [visits EXCEPT ![s] = v]
                          /\ v.state = "ORDER_DETAIL" => v.viewed \in 1..Len(orders)
  BY DEF PassesOn
<1>2. Len(orders) \in Nat BY LenProperties DEF MarketTypes
<1>3. QED BY <1>1, <1>2, VisitBecomes DEF MarketTypes

\* The scripts.
LEMMA PlaceEffect ==
  ASSUME MarketTypes, NEW s \in Shoppers, Place(s)
  PROVE  \/ UNCHANGED <<orders, orderEvents, stock>>
         \/ /\ orders' = Append(orders, Order(s)) /\ orderEvents' = Append(orderEvents, 0)
            /\ Order(s) \in Orders /\ Order(s).status = "placed"
            /\ \A sku \in Skus : Order(s).items[sku] <= stock[sku]
            /\ stock' = [sku \in Skus |-> stock[sku] - Order(s).items[sku]]
<1>1. CASE ~HasOperation(s) /\ PlaceResult(s).kind = "created"
  <2>1. Short(visits[s].cart) = {}
    BY <1>1 DEF PlaceResult, ExistingResult, ShortResult
  <2>2. visits[s].cart \in Carts /\ Order(s).items = visits[s].cart
    BY DEF MarketTypes, Visits, Order
  <2>3. Order(s) \in Orders /\ Order(s).status = "placed"
    BY <2>2 DEF Order, Orders
  <2>4. \A sku \in Skus : Order(s).items[sku] <= stock[sku]
    BY <2>1, <2>2 DEF Short, Carts, MarketTypes
  <2>5. QED BY <1>1, <2>2, <2>3, <2>4 DEF Place
<1>2. CASE ~(~HasOperation(s) /\ PlaceResult(s).kind = "created")
  BY <1>2 DEF Place
<1>3. QED BY <1>1, <1>2

LEMMA CancelEffect ==
  ASSUME MarketTypes, NEW s \in Shoppers, visits[s].state = "ORDER_DETAIL", Cancel(s)
  PROVE  /\ orderEvents' = orderEvents
         /\ \/ UNCHANGED <<orders, stock>>
            \/ \E id \in 1..Len(orders) :
                 /\ orders[id].status = "placed"
                 /\ orders' = [orders EXCEPT ![id].status = "cancelled"]
                 /\ stock' = [sku \in Skus |-> stock[sku] + orders[id].items[sku]]
<1>1. CASE ~HasOperation(s) /\ CancelResult(s).kind = "cancelled"
  <2>1. /\ CancelResult(s).id = visits[s].viewed
        /\ orders[visits[s].viewed].status = "placed"
    BY <1>1 DEF CancelResult
  <2>2. visits[s].viewed \in 1..Len(orders) BY DEF MarketTypes
  <2>3. QED BY <1>1, <2>1, <2>2 DEF Cancel
<1>2. CASE ~(~HasOperation(s) /\ CancelResult(s).kind = "cancelled")
  BY <1>2 DEF Cancel
<1>3. QED BY <1>1, <1>2

LEMMA MarketStarts == MarketInit => MarketInv
<1> SUFFICES ASSUME MarketInit PROVE MarketInv OBVIOUS
<1>1. \A s \in Shoppers : visits[s] = Visit("CART", 1) BY DEF MarketInit
<1>2. EmptyCart \in Carts BY DEF EmptyCart, Carts
<1>3. Visit("CART", 1) \in Visits /\ Visit("CART", 1).state = "CART"
  BY <1>2, MarketAssumption DEF Visit, Visits
<1>4. visits \in [Shoppers -> Visits] BY <1>3 DEF MarketInit
<1>5. orders \in Seq(Orders) /\ orderEvents \in Seq(Nat) /\ Len(orderEvents) = Len(orders)
  BY EmptySeq DEF MarketInit
<1>6. MarketTypes BY <1>1, <1>3, <1>4, <1>5, MarketAssumption DEF MarketTypes, MarketInit
<1>7. Standing = {} BY DEF Standing, MarketInit
<1>8. \A sku : Reserved(sku) = 0 BY <1>7, FS_EmptySet DEF Reserved, Units
<1>9. QED BY <1>6, <1>8, MarketAssumption DEF MarketInv, StockConserved, MarketInit

\* What changes orders and stock, and what an update does.
LEMMA PlacedConserves ==
  ASSUME MarketInv, NEW o \in Orders, o.status = "placed",
         orders' = Append(orders, o), orderEvents' = Append(orderEvents, 0),
         \A sku \in Skus : o.items[sku] <= stock[sku],
         stock' = [sku \in Skus |-> stock[sku] - o.items[sku]]
  PROVE  /\ StockConserved' /\ stock' \in [Skus -> Nat]
         /\ orders' \in Seq(Orders) /\ orderEvents' \in Seq(Nat)
         /\ Len(orderEvents') = Len(orders') /\ Len(orders') = Len(orders) + 1
<1>1. \A sku \in Skus : o.items[sku] \in Nat /\ stock[sku] \in Nat
  BY DEF Orders, Carts, MarketInv, MarketTypes
<1>2. stock' \in [Skus -> Nat] BY <1>1
<1>3. \A sku \in Skus : Reserved(sku) \in Nat BY UnitsFinite DEF MarketInv
<1>4. ASSUME NEW sku \in Skus
      PROVE  stock'[sku] \in Nat /\ stock'[sku] + Reserved(sku)' = Seed[sku]
  <2>1. Reserved(sku)' = Reserved(sku) + o.items[sku] BY PlacedReserves DEF MarketInv
  <2>2. QED BY <1>1, <1>2, <1>3, <2>1 DEF MarketInv, StockConserved
<1>5. QED BY <1>2, <1>4, AppendProperties DEF MarketInv, MarketTypes, StockConserved

LEMMA CancelledConserves ==
  ASSUME MarketInv, NEW id \in 1..Len(orders), orders[id].status = "placed",
         orders' = [orders EXCEPT ![id].status = "cancelled"],
         stock' = [sku \in Skus |-> stock[sku] + orders[id].items[sku]]
  PROVE  /\ StockConserved' /\ stock' \in [Skus -> Nat]
         /\ orders' \in Seq(Orders) /\ Len(orders') = Len(orders)
<1>1. orders[id] \in Orders BY ElementOfSeq, LenProperties DEF MarketInv, MarketTypes
<1>2. \A sku \in Skus : orders[id].items[sku] \in Nat /\ stock[sku] \in Nat
  BY <1>1 DEF Orders, Carts, MarketInv, MarketTypes
<1>3. stock' \in [Skus -> Nat] BY <1>2
<1>4. [orders[id] EXCEPT !.status = "cancelled"] \in Orders BY <1>1 DEF Orders
<1>5. orders' = [orders EXCEPT ![id] = [orders[id] EXCEPT !.status = "cancelled"]]
  OBVIOUS
<1>6. orders' \in Seq(Orders) /\ Len(orders') = Len(orders)
  BY <1>4, <1>5, ExceptSeq DEF MarketInv, MarketTypes
<1>7. ASSUME NEW sku \in Skus
      PROVE  stock'[sku] \in Nat /\ stock'[sku] + Reserved(sku)' = Seed[sku]
  <2>1. /\ Reserved(sku) = Reserved(sku)' + orders[id].items[sku]
        /\ Reserved(sku)' \in Nat
    BY CancelledReleases DEF MarketInv
  <2>2. QED BY <1>2, <2>1 DEF MarketInv, StockConserved
<1>8. QED BY <1>3, <1>6, <1>7 DEF StockConserved

\* Every step keeps the orders it does not cancel, and the stock.
LEMMA MarketSteps == MarketInv /\ [MarketNext]_marketVars => MarketInv'
<1> SUFFICES ASSUME MarketInv, [MarketNext]_marketVars PROVE MarketInv' OBVIOUS
<1>0. Len(orders) \in Nat /\ DOMAIN orders = 1..Len(orders)
  BY LenProperties DEF MarketInv, MarketTypes
<1>1. ASSUME NEW s \in Shoppers, PassesOn(s), UNCHANGED <<orders, orderEvents, stock>>
      PROVE  MarketInv'
  <2>1. StockConserved' BY <1>1, SameReserved DEF MarketInv, StockConserved
  <2>2. QED BY <1>0, <1>1, <2>1, MovedTypes DEF MarketInv, MarketTypes
<1>2. ASSUME NEW s \in Shoppers,
             \/ Pickup(s) \/ Recover(s) \/ Revisit(s)
             \/ \E sku \in Skus, quantity \in Quantities : Add(s, sku, quantity)
             \/ \E id \in DOMAIN orders : View(s, id)
      PROVE  MarketInv'
  <2>1. PassesOn(s) BY <1>2, SessionMoves DEF MarketInv
  <2>2. UNCHANGED <<orders, orderEvents, stock>>
    BY <1>2 DEF Pickup, Recover, Revisit, Add, View
  <2>3. QED BY <1>1, <2>1, <2>2
<1>3. ASSUME NEW s \in Shoppers, Confirm(s) PROVE MarketInv'
  <2>1. PassesOn(s) BY <1>3, SessionMoves DEF MarketInv
  <2>2. Place(s) BY <1>3 DEF Confirm
  <2>3. CASE UNCHANGED <<orders, orderEvents, stock>> BY <1>1, <2>1, <2>3
  <2>4. CASE /\ orders' = Append(orders, Order(s)) /\ orderEvents' = Append(orderEvents, 0)
             /\ Order(s) \in Orders /\ Order(s).status = "placed"
             /\ \A sku \in Skus : Order(s).items[sku] <= stock[sku]
             /\ stock' = [sku \in Skus |-> stock[sku] - Order(s).items[sku]]
    <3>1. /\ StockConserved' /\ stock' \in [Skus -> Nat]
          /\ orders' \in Seq(Orders) /\ orderEvents' \in Seq(Nat)
          /\ Len(orderEvents') = Len(orders') /\ Len(orders') = Len(orders) + 1
      BY <2>4, PlacedConserves
    <3>2. Len(orders)' \in Nat /\ Len(orders) <= Len(orders)' BY <1>0, <3>1
    <3>3. QED BY <2>1, <3>1, <3>2, MovedTypes DEF MarketInv, MarketTypes
  <2>5. QED BY <2>2, <2>3, <2>4, PlaceEffect DEF MarketInv
<1>4. ASSUME NEW s \in Shoppers, CancelViewed(s) PROVE MarketInv'
  <2>1. PassesOn(s) BY <1>4, SessionMoves DEF MarketInv
  <2>2. visits[s].state = "ORDER_DETAIL" /\ Cancel(s) BY <1>4 DEF CancelViewed
  <2>3. CASE UNCHANGED <<orders, orderEvents, stock>> BY <1>1, <2>1, <2>3
  <2>4. ASSUME NEW id \in 1..Len(orders), orderEvents' = orderEvents,
               orders[id].status = "placed",
               orders' = [orders EXCEPT ![id].status = "cancelled"],
               stock' = [sku \in Skus |-> stock[sku] + orders[id].items[sku]]
        PROVE  MarketInv'
    <3>1. /\ StockConserved' /\ stock' \in [Skus -> Nat]
          /\ orders' \in Seq(Orders) /\ Len(orders') = Len(orders)
      BY <2>4, CancelledConserves
    <3>2. QED BY <1>0, <2>1, <2>4, <3>1, MovedTypes DEF MarketInv, MarketTypes
  <2>5. QED BY <2>2, <2>3, <2>4, CancelEffect DEF MarketInv
<1>5. ASSUME NEW id \in DOMAIN orders, NEW version \in 1..MaxVersion,
             AcceptOrderEvent(id, version)
      PROVE  MarketInv'
  <2>1. /\ UNCHANGED <<stock, orders, visits>>
        /\ orderEvents' = [orderEvents EXCEPT ![id] = version]
    BY <1>5 DEF AcceptOrderEvent
  <2>2. version \in Nat /\ id \in 1..Len(orderEvents) BY <1>0 DEF MarketInv, MarketTypes
  <2>3. orderEvents' \in Seq(Nat) /\ Len(orderEvents') = Len(orderEvents)
    BY <2>1, <2>2, ExceptSeq DEF MarketInv, MarketTypes
  <2>4. StockConserved' BY <2>1, SameReserved DEF MarketInv, StockConserved
  <2>5. QED BY <2>1, <2>3, <2>4 DEF MarketInv, MarketTypes
<1>6. CASE UNCHANGED marketVars
  <2>1. StockConserved' BY <1>6, SameReserved DEF marketVars, MarketInv, StockConserved
  <2>2. QED BY <1>6, <2>1 DEF marketVars, MarketInv, MarketTypes
<1>7. QED BY <1>2, <1>3, <1>4, <1>5, <1>6 DEF MarketNext

\* Stock is conserved, for any products, stock, sessions, keys and quantities.
THEOREM StockIsConserved == MarketSpec => []StockConserved
<1>1. MarketInv => StockConserved BY DEF MarketInv
<1>2. QED BY MarketStarts, MarketSteps, <1>1, PTL DEF MarketSpec

-----------------------------------------------------------------------------
(* What callers have been told.                                            *)

LEMMA OrdersMove ==
  MarketInv /\ [MarketNext]_marketVars =>
    \A id \in DOMAIN orders :
       /\ orders[id].status = "cancelled" =>
            orders'[id].status = "cancelled" /\ orderEvents'[id] = orderEvents[id]
       /\ orderEvents'[id] >= orderEvents[id]
<1> SUFFICES ASSUME MarketInv, [MarketNext]_marketVars, NEW id \in DOMAIN orders
             PROVE  /\ orders[id].status = "cancelled" =>
                         /\ orders'[id].status = "cancelled"
                         /\ orderEvents'[id] = orderEvents[id]
                    /\ orderEvents'[id] >= orderEvents[id]
  OBVIOUS
<1>0. /\ id \in 1..Len(orders) /\ orders[id] \in Orders /\ orderEvents[id] \in Nat
      /\ DOMAIN orders = 1..Len(orders) /\ DOMAIN orderEvents = 1..Len(orders)
      /\ Len(orders) \in Nat
  BY LenProperties DEF MarketInv, MarketTypes
<1>1. CASE UNCHANGED <<orders, orderEvents>> BY <1>0, <1>1
<1>2. ASSUME NEW s \in Shoppers, Confirm(s), ~UNCHANGED <<orders, orderEvents>>
      PROVE  orders'[id] = orders[id] /\ orderEvents'[id] = orderEvents[id]
  <2>1. orders' = Append(orders, Order(s)) /\ orderEvents' = Append(orderEvents, 0)
    BY <1>2, PlaceEffect DEF Confirm, MarketInv
  <2>2. Order(s) \in Orders BY <1>2, PlaceEffect DEF Confirm, MarketInv
  <2>3. QED BY <1>0, <2>1, <2>2, AppendProperties DEF MarketInv, MarketTypes
<1>3. ASSUME NEW s \in Shoppers, CancelViewed(s)
      PROVE  /\ orderEvents' = orderEvents
             /\ orders[id].status = "cancelled" => orders'[id] = orders[id]
  BY <1>0, <1>3, CancelEffect DEF CancelViewed, MarketInv
<1>4. ASSUME NEW other \in DOMAIN orders, NEW version \in 1..MaxVersion,
             AcceptOrderEvent(other, version)
      PROVE  /\ orders' = orders
             /\ id # other => orderEvents'[id] = orderEvents[id]
             /\ id = other => orders[id].status = "placed" /\ orderEvents'[id] > orderEvents[id]
  BY <1>0, <1>4 DEF AcceptOrderEvent
<1>5. ASSUME NEW s \in Shoppers,
             \/ Pickup(s) \/ Recover(s) \/ Revisit(s)
             \/ \E sku \in Skus, quantity \in Quantities : Add(s, sku, quantity)
             \/ \E d \in DOMAIN orders : View(s, d)
      PROVE  UNCHANGED <<orders, orderEvents>>
  BY <1>5 DEF Pickup, Recover, Revisit, Add, View
<1>6. UNCHANGED marketVars => UNCHANGED <<orders, orderEvents>> BY DEF marketVars
<1>7. ASSUME NEW s \in Shoppers, Confirm(s)
      PROVE  orders'[id] = orders[id] /\ orderEvents'[id] = orderEvents[id]
  BY <1>2, <1>7
<1>8. ASSUME NEW other \in DOMAIN orders, NEW version \in 1..MaxVersion,
             AcceptOrderEvent(other, version)
      PROVE  /\ orders[id].status = "cancelled" =>
                         /\ orders'[id].status = "cancelled"
                         /\ orderEvents'[id] = orderEvents[id]
             /\ orderEvents'[id] >= orderEvents[id]
  <2>1. orderEvents'[id] \in Nat
    <3>1. orderEvents' = [orderEvents EXCEPT ![other] = version] BY <1>8 DEF AcceptOrderEvent
    <3>2. QED BY <1>0, <3>1
  <2>2. QED BY <1>0, <1>4, <1>8, <2>1
<1>9. QED BY <1>0, <1>1, <1>3, <1>5, <1>6, <1>7, <1>8 DEF MarketNext

\* Answers are composed from what is kept for the turn and, in a turn without
\* a key only, from the orders.
KeyedAnswer(result) ==
  CASE result.kind = "created"  -> [status |-> "created", id |-> result.id]
    [] result.kind = "existing" ->
         [id |-> result.id,
          status |-> IF result.status = "placed" THEN "existing" ELSE result.status]
    [] OTHER -> [status |-> "out_of_stock", id |-> 0]

LEMMA AnswerIsKept ==
  ASSUME NEW s \in Keyed, NEW result
  PROVE  PlaceAnswer(s, result) = KeyedAnswer(result)
BY DEF PlaceAnswer, StatusTold, KeyedAnswer

\* A turn that was answered is kept.  Nothing is kept for turns to come or
\* while the cart is edited; what was answered in the turn at hand is
\* composed from what is kept, as its state demands.
AnswersKept ==
  /\ DOMAIN operation = TurnKeys /\ DOMAIN answered = TurnKeys
  /\ \A s \in Keyed, n \in 1..MaxTurns :
       /\ answered[<<s, n>>] # Nothing => operation[<<s, n>>] # Nothing
       /\ operation[<<s, n>>] # Nothing => n <= visits[s].turn
       /\ n = visits[s].turn =>
            /\ visits[s].state = "CART" => operation[<<s, n>>] = Nothing
            /\ visits[s].state = "CONFIRM" /\ answered[<<s, n>>] # Nothing =>
                 answered[<<s, n>>] = KeyedAnswer(operation[<<s, n>>])
            /\ visits[s].state = "ORDER_DETAIL" /\ answered[<<s, n>>] # Nothing =>
                 answered[<<s, n>>] = CancelAnswer(operation[<<s, n>>])

\* A turn that composes an answer: a new one from what it keeps now, or the
\* one it gave.
Composes(s, answer) ==
  LET k == KeyOf(s) IN
  /\ visits[s].state \in {"CONFIRM", "ORDER_DETAIL"}
  /\ Told(s, answer)
  /\ s \notin Keyed => operation' = operation
  /\ s \in Keyed =>
       /\ \A j \in TurnKeys \ {k} : operation'[j] = operation[j]
       /\ operation[k] # Nothing => operation'[k] = operation[k]
       /\ operation'[k] # Nothing
       /\ visits[s].state = "CONFIRM" => answer = KeyedAnswer(operation'[k])
       /\ visits[s].state = "ORDER_DETAIL" => answer = CancelAnswer(operation'[k])
  /\ DOMAIN operation' = TurnKeys

LEMMA KeyIn ==
  ASSUME MarketTypes, NEW s \in Keyed
  PROVE  KeyOf(s) \in TurnKeys /\ s \in Shoppers /\ visits[s].turn \in 1..MaxTurns
BY MarketAssumption DEF MarketTypes, Visits, KeyOf, TurnKeys

LEMMA PlaceKinds ==
  ASSUME NEW s \in Shoppers, ~HasOperation(s) PROVE PlaceResult(s) # Nothing
BY DEF PlaceResult, ExistingResult, ShortResult, PlacedResult, Nothing

LEMMA CancelKinds ==
  ASSUME NEW s \in Shoppers, ~HasOperation(s) PROVE CancelResult(s) # Nothing
BY DEF CancelResult, Nothing

\* What a script keeps.
LEMMA KeptIs ==
  ASSUME MarketTypes, AnswersKept, NEW s \in Shoppers, NEW result,
         HasOperation(s) => result = operation[KeyOf(s)],
         ~HasOperation(s) => result # Nothing,
         Kept(s, result)
  PROVE  /\ DOMAIN operation' = TurnKeys
         /\ s \notin Keyed => operation' = operation
         /\ s \in Keyed =>
              /\ \A j \in TurnKeys \ {KeyOf(s)} : operation'[j] = operation[j]
              /\ operation'[KeyOf(s)] = result /\ result # Nothing
              /\ operation[KeyOf(s)] # Nothing => operation'[KeyOf(s)] = operation[KeyOf(s)]
<1>1. DOMAIN operation = TurnKeys BY DEF AnswersKept
<1>2. CASE s \in Keyed
  <2>1. KeyOf(s) \in TurnKeys BY <1>2, KeyIn
  <2>2. operation' = [operation EXCEPT ![KeyOf(s)] = result] BY <1>2 DEF Kept
  <2>3. HasOperation(s) <=> operation[KeyOf(s)] # Nothing BY <1>2 DEF HasOperation
  <2>4. QED BY <1>1, <1>2, <2>1, <2>2, <2>3
<1>3. CASE s \notin Keyed BY <1>1, <1>3 DEF Kept
<1>4. QED BY <1>2, <1>3

LEMMA TurnsCompose ==
  ASSUME MarketTypes, AnswersKept, NEW s \in Shoppers,
         Confirm(s) \/ CancelViewed(s) \/ Recover(s)
  PROVE  \E answer : Composes(s, answer)
<1>1. CASE Confirm(s)
  <2> DEFINE result == PlaceResult(s)
             answer == PlaceAnswer(s, result)
  <2>1. /\ visits[s].state = "CONFIRM" /\ Kept(s, result) /\ Told(s, answer)
    BY <1>1 DEF Confirm, Place
  <2>2. HasOperation(s) => result = operation[KeyOf(s)] BY DEF PlaceResult
  <2>3. ~HasOperation(s) => result # Nothing BY PlaceKinds
  <2>4. s \in Keyed => answer = KeyedAnswer(result) BY AnswerIsKept
  <2> HIDE DEF result, answer
  <2>5. QED BY <2>1, <2>2, <2>3, <2>4, KeptIs DEF Composes
<1>2. CASE CancelViewed(s)
  <2> DEFINE result == CancelResult(s)
  <2>1. /\ visits[s].state = "ORDER_DETAIL" /\ Kept(s, result)
        /\ Told(s, CancelAnswer(result))
    BY <1>2 DEF CancelViewed, Cancel
  <2>2. HasOperation(s) => result = operation[KeyOf(s)] BY DEF CancelResult
  <2>3. ~HasOperation(s) => result # Nothing BY CancelKinds
  <2> HIDE DEF result
  <2>4. QED BY <2>1, <2>2, <2>3, KeptIs DEF Composes
<1>3. CASE Recover(s)
  <2>1. operation' = operation /\ s \in Keyed /\ operation[KeyOf(s)] # Nothing
    BY <1>3 DEF Recover, HasOperation
  <2>2. DOMAIN operation' = TurnKeys BY <2>1 DEF AnswersKept
  <2>3. CASE visits[s].state = "CONFIRM"
    <3>1. Told(s, KeyedAnswer(operation[KeyOf(s)]))
      BY <1>3, <2>1, <2>3, AnswerIsKept DEF Recover
    <3>2. QED BY <2>1, <2>2, <2>3, <3>1 DEF Composes
  <2>4. CASE visits[s].state = "ORDER_DETAIL"
    <3>1. Told(s, CancelAnswer(operation[KeyOf(s)])) BY <1>3, <2>4 DEF Recover
    <3>2. QED BY <2>1, <2>2, <2>4, <3>1 DEF Composes
  <2>5. QED BY <1>3, <2>3, <2>4 DEF Recover
<1>4. QED BY <1>1, <1>2, <1>3

LEMMA ComposedKept ==
  ASSUME MarketTypes, AnswersKept, NEW s \in Shoppers, NEW answer, Composes(s, answer)
  PROVE  /\ AnswersKept'
         /\ \A k \in TurnKeys : answered[k] # Nothing => answered'[k] = answered[k]
<1> DEFINE k == KeyOf(s)
           w == visits[s]
<1>1. /\ DOMAIN operation' = TurnKeys /\ DOMAIN answered = TurnKeys
      /\ Told(s, answer) /\ w.state \in {"CONFIRM", "ORDER_DETAIL"}
  BY DEF Composes, AnswersKept
<1>2. PICK v \in Visits :
        /\ visits' = [visits EXCEPT ![s] = v]
        /\ \/ v.turn = w.turn /\ (v.state = "over" \/ v = w)
           \/ v.state = "CART" /\ v.turn = w.turn + 1
  BY <1>1, ToldMoves DEF PassesOn
<1>3. visits'[s] = v /\ \A r \in Shoppers \ {s} : visits'[r] = visits[r]
  BY <1>2, VisitBecomes
<1>4. w \in Visits BY VisitIs
<1>5. CASE s \notin Keyed
  <2>1. operation' = operation /\ answered' = answered
    BY <1>1, <1>5 DEF Composes, Told
  <2>2. \A r \in Keyed : visits'[r] = visits[r] BY <1>3, <1>5, MarketAssumption
  <2>3. QED BY <2>1, <2>2 DEF AnswersKept
<1>6. CASE s \in Keyed
  <2>1. k \in TurnKeys /\ w.turn \in 1..MaxTurns /\ k = <<s, w.turn>>
    BY <1>6, KeyIn DEF KeyOf
  <2>2. answered' = [answered EXCEPT ![k] = answer] BY <1>1, <1>6 DEF Told
  <2>3. /\ answered'[k] = answer /\ DOMAIN answered' = TurnKeys
        /\ \A j \in TurnKeys \ {k} : answered'[j] = answered[j]
    BY <1>1, <2>1, <2>2
  <2>4. /\ \A j \in TurnKeys \ {k} : operation'[j] = operation[j]
        /\ operation[k] # Nothing => operation'[k] = operation[k]
        /\ operation'[k] # Nothing
        /\ w.state = "CONFIRM" => answer = KeyedAnswer(operation'[k])
        /\ w.state = "ORDER_DETAIL" => answer = CancelAnswer(operation'[k])
    BY <1>6 DEF Composes
  <2>5. answered[k] # Nothing => operation[k] # Nothing /\ answer = answered[k]
    <3>1. CASE w.state = "CONFIRM" BY <1>6, <2>1, <2>4, <3>1 DEF AnswersKept
    <3>2. CASE w.state = "ORDER_DETAIL" BY <1>6, <2>1, <2>4, <3>2 DEF AnswersKept
    <3>3. QED BY <1>1, <3>1, <3>2
  <2>6. \A j \in TurnKeys : answered[j] # Nothing => answered'[j] = answered[j]
    BY <2>3, <2>5
  <2> HIDE DEF k
  <2>7. ASSUME NEW r \in Keyed, NEW n \in 1..MaxTurns
        PROVE  /\ answered'[<<r, n>>] # Nothing => operation'[<<r, n>>] # Nothing
               /\ operation'[<<r, n>>] # Nothing => n <= visits'[r].turn
               /\ n = visits'[r].turn =>
                    /\ visits'[r].state = "CART" => operation'[<<r, n>>] = Nothing
                    /\ visits'[r].state = "CONFIRM" /\ answered'[<<r, n>>] # Nothing =>
                         answered'[<<r, n>>] = KeyedAnswer(operation'[<<r, n>>])
                    /\ visits'[r].state = "ORDER_DETAIL" /\ answered'[<<r, n>>] # Nothing =>
                         answered'[<<r, n>>] = CancelAnswer(operation'[<<r, n>>])
    <3> DEFINE j == <<r, n>>
    <3>1. j \in TurnKeys /\ r \in Shoppers BY MarketAssumption DEF TurnKeys
    <3>2. CASE r # s
      <4>1. j # k BY <2>1, <3>2
      <4>2. visits'[r] = visits[r] BY <1>3, <3>1, <3>2
      <4>3. answered'[j] = answered[j] /\ operation'[j] = operation[j]
        BY <2>3, <2>4, <3>1, <4>1
      <4>4. QED BY <4>2, <4>3 DEF AnswersKept
    <3>3. CASE r = s /\ n # w.turn
      <4>1. j # k BY <2>1, <3>3
      <4>2. answered'[j] = answered[j] /\ operation'[j] = operation[j]
        BY <2>3, <2>4, <3>1, <4>1
      <4>3. /\ answered[j] # Nothing => operation[j] # Nothing
            /\ operation[j] # Nothing => n <= w.turn
        BY <3>3 DEF AnswersKept
      <4>4. w.turn \in Nat /\ n \in Nat BY <2>1, MarketAssumption
      <4>5. visits'[r] = v BY <1>3, <3>3
      <4>6. CASE v.turn = w.turn BY <3>3, <4>2, <4>3, <4>5, <4>6
      <4>7. CASE v.state = "CART" /\ v.turn = w.turn + 1
        BY <3>3, <4>2, <4>3, <4>4, <4>5, <4>7
      <4>8. QED BY <1>2, <4>6, <4>7
    <3>4. CASE r = s /\ n = w.turn
      <4>1. j = k BY <2>1, <3>4
      <4>2. visits'[r] = v /\ w.turn \in Nat BY <1>3, <2>1, <3>4, MarketAssumption
      <4>3. answered'[j] = answer /\ operation'[j] # Nothing BY <2>3, <2>4, <4>1
      <4>4. CASE v.turn = w.turn /\ v.state = "over" BY <3>4, <4>2, <4>3, <4>4
      <4>5. CASE v = w BY <1>1, <2>4, <3>4, <4>1, <4>2, <4>3, <4>5
      <4>6. CASE v.state = "CART" /\ v.turn = w.turn + 1
        BY <3>4, <4>2, <4>3, <4>6
      <4>7. QED BY <1>2, <4>4, <4>5, <4>6
    <3>5. QED BY <3>2, <3>3, <3>4
  <2>8. QED BY <1>1, <2>3, <2>6, <2>7 DEF AnswersKept
<1>7. QED BY <1>5, <1>6

\* A step that composes none.
LEMMA UntoldKept ==
  ASSUME MarketTypes, AnswersKept, UNCHANGED <<operation, answered>>, NEW s \in Shoppers,
         PassesOn(s), visits[s].state = "CART" \/ (visits' = visits)
                     \/ visits'[s].turn = visits[s].turn + 1
  PROVE  AnswersKept'
<1> DEFINE w == visits[s]
<1>1. PICK v \in Visits :
        /\ visits' = [visits EXCEPT ![s] = v]
        /\ \/ v.turn = w.turn
           \/ v.state = "CART" /\ v.turn = w.turn + 1
  BY DEF PassesOn
<1>2. visits'[s] = v /\ \A r \in Shoppers \ {s} : visits'[r] = visits[r]
  BY <1>1, VisitBecomes
<1>3. w \in Visits BY VisitIs
<1>4. CASE visits' = visits BY <1>4 DEF AnswersKept
<1>5. ASSUME NEW n \in 1..MaxTurns, s \in Keyed, visits' # visits
      PROVE  /\ operation[<<s, n>>] # Nothing => n <= v.turn
             /\ n = v.turn => operation[<<s, n>>] = Nothing /\ answered[<<s, n>>] = Nothing
  <2>1. w.turn \in Nat /\ n \in Nat BY <1>3, MarketAssumption DEF Visits
  <2>2. /\ operation[<<s, n>>] # Nothing => n <= w.turn
        /\ answered[<<s, n>>] # Nothing => operation[<<s, n>>] # Nothing
        /\ n = w.turn /\ w.state = "CART" => operation[<<s, n>>] = Nothing
    BY <1>5 DEF AnswersKept
  <2>3. CASE w.state = "CART" BY <1>1, <2>1, <2>2, <2>3
  <2>4. CASE v.turn = w.turn + 1 BY <2>1, <2>2, <2>4
  <2>5. QED BY <1>2, <1>5, <2>3, <2>4
<1>6. CASE visits' # visits
  <2>1. ASSUME NEW r \in Keyed, NEW n \in 1..MaxTurns
        PROVE  /\ answered[<<r, n>>] # Nothing => operation[<<r, n>>] # Nothing
               /\ operation[<<r, n>>] # Nothing => n <= visits'[r].turn
               /\ n = visits'[r].turn =>
                    /\ visits'[r].state = "CART" => operation[<<r, n>>] = Nothing
                    /\ visits'[r].state = "CONFIRM" /\ answered[<<r, n>>] # Nothing =>
                         answered[<<r, n>>] = KeyedAnswer(operation[<<r, n>>])
                    /\ visits'[r].state = "ORDER_DETAIL" /\ answered[<<r, n>>] # Nothing =>
                         answered[<<r, n>>] = CancelAnswer(operation[<<r, n>>])
    <3>1. r \in Shoppers BY MarketAssumption
    <3>2. CASE r # s BY <1>2, <3>1, <3>2 DEF AnswersKept
    <3>3. CASE r = s BY <1>2, <1>5, <1>6, <3>3 DEF AnswersKept
    <3>4. QED BY <3>2, <3>3
  <2>2. QED BY <2>1 DEF AnswersKept
<1>7. QED BY <1>4, <1>6

LEMMA AnswersStart == MarketInit => AnswersKept
BY DEF MarketInit, AnswersKept, TurnKeys

LEMMA AnswerSteps ==
  MarketInv /\ AnswersKept /\ [MarketNext]_marketVars =>
    /\ AnswersKept'
    /\ \A k \in TurnKeys : answered[k] # Nothing => answered'[k] = answered[k]
<1> SUFFICES ASSUME MarketInv, AnswersKept, [MarketNext]_marketVars
             PROVE  /\ AnswersKept'
                    /\ \A k \in TurnKeys : answered[k] # Nothing => answered'[k] = answered[k]
  OBVIOUS
<1>0. MarketTypes BY DEF MarketInv
<1>1. ASSUME NEW s \in Shoppers, Confirm(s) \/ CancelViewed(s) \/ Recover(s)
      PROVE  /\ AnswersKept'
             /\ \A k \in TurnKeys : answered[k] # Nothing => answered'[k] = answered[k]
  BY <1>0, <1>1, TurnsCompose, ComposedKept
<1>2. ASSUME NEW s \in Shoppers,
             \/ Pickup(s)
             \/ \E sku \in Skus, quantity \in Quantities : Add(s, sku, quantity)
             \/ \E id \in DOMAIN orders : View(s, id)
      PROVE  AnswersKept' /\ answered' = answered
  <2>1. PassesOn(s) BY <1>0, <1>2, SessionMoves
  <2>2. UNCHANGED <<operation, answered>> /\ visits[s].state = "CART"
    BY <1>2 DEF Pickup, Add, View
  <2>3. QED BY <1>0, <2>1, <2>2, UntoldKept
<1>3. ASSUME NEW s \in Shoppers, Revisit(s) PROVE AnswersKept' /\ answered' = answered
  <2>1. PassesOn(s) BY <1>0, <1>3, SessionMoves
  <2>2. UNCHANGED <<operation, answered>> BY <1>3 DEF Revisit
  <2>3. visits'[s].turn = visits[s].turn + 1
    BY <1>0, <1>3 DEF Revisit, Visit, MarketTypes
  <2>4. QED BY <1>0, <2>1, <2>2, <2>3, UntoldKept
<1>4. ASSUME UNCHANGED <<operation, answered, visits>>
      PROVE  AnswersKept' /\ answered' = answered
  BY <1>4 DEF AnswersKept
<1>5. ASSUME NEW id \in DOMAIN orders, NEW version \in 1..MaxVersion,
             AcceptOrderEvent(id, version)
      PROVE  UNCHANGED <<operation, answered, visits>>
  BY <1>5 DEF AcceptOrderEvent
<1>6. UNCHANGED marketVars => UNCHANGED <<operation, answered, visits>> BY DEF marketVars
<1>7. QED BY <1>1, <1>2, <1>3, <1>4, <1>5, <1>6 DEF MarketNext

\* A turn with a key gets one answer, and what callers see of an order moves
\* one way, for any products, sessions, keys, quantities and updates.
THEOREM CallersAreTold == MarketSpec => OrdersAsTold
<1>1. MarketInv /\ AnswersKept /\ [MarketNext]_marketVars =>
        /\ MarketInv' /\ AnswersKept'
        /\ [\A k \in TurnKeys : answered[k] # Nothing => answered'[k] = answered[k]]_answered
        /\ [\A id \in DOMAIN orders :
              /\ orders[id].status = "cancelled" =>
                   orders'[id].status = "cancelled" /\ orderEvents'[id] = orderEvents[id]
              /\ orderEvents'[id] >= orderEvents[id]]_marketVars
  BY MarketSteps, AnswerSteps, OrdersMove
<1>2. QED
  BY <1>1, MarketStarts, AnswersStart, PTL
  DEF MarketSpec, OrdersAsTold, AnswersStable, OrdersMoveOn

-----------------------------------------------------------------------------
(* The workbench.                                                          *)

Storages == [machine : Nat, turns : Nat, there : BOOLEAN]
Records == [busy : BOOLEAN, machine : Nat, turns : Nat]
Work == {"install", "send", "stored", "sent", "reset", "reinstall", "replay", "close"}
Works == [op : Work, id : Ids]
Readings == [op : {"inspect"}, id : Ids, machine : Nat, turns : Nat, read : BOOLEAN,
             stored : Storages, own : BOOLEAN]
Answering == [op : {"answer"}, stored : Storages, machine : Nat, turns : Nat]
Requested == {Waiting, Arrived} \cup Works \cup Readings \cup Answering

BenchTypes ==
  /\ machines \in Nat
  /\ record \in [Ids -> Records] /\ stored \in [Ids -> Storages]
  /\ request \in [Requests -> Requested]
  /\ sessions \subseteq Ids /\ IsFiniteSet(sessions)

\* The busy flag: one operation at a time works on a session.
OneAtWork ==
  /\ \A c \in Requests : request[c].op \in Work => record[request[c].id].busy
  /\ \A c, d \in Requests :
       request[c].op \in Work /\ request[d].op \in Work /\ request[c].id = request[d].id
         => c = d

\* The machine's storage and the record agree on its turns, but for the turn
\* that has made its writes and not been observed.
InStep ==
  /\ \A id \in Ids : record[id].machine <= machines /\ stored[id].machine = record[id].machine
  /\ \A c \in Requests :
       request[c].op = "stored" => stored[request[c].id].turns = record[request[c].id].turns + 1
  /\ \A id \in Ids :
       (\A c \in Requests : ~(request[c].op = "stored" /\ request[c].id = id)) =>
         stored[id].turns = record[id].turns

\* An inspection began before its read, and its read is before now: machines
\* and turns only go forward.
ReadsInOrder ==
  \A c \in Requests : request[c].op = "inspect" =>
    LET r == request[c] IN
    /\ r.machine <= record[r.id].machine
    /\ r.machine = record[r.id].machine => r.turns <= record[r.id].turns
    /\ r.read =>
         /\ r.machine <= r.stored.machine /\ r.stored.machine <= stored[r.id].machine
         /\ r.stored.machine = r.machine => r.turns <= r.stored.turns
         /\ r.stored.machine = stored[r.id].machine => r.stored.turns <= stored[r.id].turns

\* Once the server has drained no request is left, and its close takes the
\* sessions there were then.
Orderly ==
  /\ server \in {"closing", "closed", "failed"} => \A c \in Requests : request[c] = Waiting
  /\ server = "closing" => toClose = sessions

BenchInv ==
  BenchTypes /\ OneAtWork /\ InStep /\ ReadsInOrder /\ Orderly /\ BenchSound

\* What a request is doing says what it carries.
LEMMA OpTypes ==
  ASSUME BenchTypes, NEW c \in Requests
  PROVE  /\ request[c].op \in Work => request[c] \in Works
         /\ request[c].op = "inspect" => request[c] \in Readings
         /\ request[c].op = "answer" => request[c] \in Answering
         /\ request[c] = Waiting => request[c].op = "none"
         /\ request[c] = Arrived => request[c].op = "arrived"
<1>1. request[c] \in Requested BY DEF BenchTypes
<1>2. /\ Waiting.op = "none" /\ Arrived.op = "arrived"
      /\ \A r \in Works : r.op \in Work
      /\ \A r \in Readings : r.op = "inspect"
      /\ \A r \in Answering : r.op = "answer"
  BY DEF Waiting, Arrived, Works, Readings, Answering
<1>3. "none" \notin Work /\ "arrived" \notin Work /\ "inspect" \notin Work /\ "answer" \notin Work
  BY DEF Work
<1>4. QED BY <1>1, <1>2, <1>3 DEF Requested

\* A request that goes on to r.
LEMMA ProceedsTo ==
  ASSUME BenchTypes, NEW c \in Requests, NEW r \in Requested,
         request' = [request EXCEPT ![c] = r]
  PROVE  /\ request' \in [Requests -> Requested] /\ request'[c] = r
         /\ \A d \in Requests \ {c} : request'[d] = request[d]
BY DEF BenchTypes

\* A record whose flag is set or cleared.
LEMMA FlagSet ==
  ASSUME BenchTypes, NEW id \in Ids, NEW flag \in BOOLEAN, Busy(id, flag)
  PROVE  /\ record' \in [Ids -> Records] /\ record'[id].busy = flag
         /\ \A i \in Ids : record'[i].machine = record[i].machine
                           /\ record'[i].turns = record[i].turns
         /\ \A i \in Ids \ {id} : record'[i] = record[i]
<1> DEFINE b == [record[id] EXCEPT !.busy = flag]
<1>1. record[id] \in Records BY DEF BenchTypes
<1>2. record' = [record EXCEPT ![id] = b] BY DEF Busy, BenchTypes
<1>3. /\ b \in Records /\ b.busy = flag /\ b.machine = record[id].machine
      /\ b.turns = record[id].turns
  BY <1>1 DEF Records
<1> HIDE DEF b
<1>4. QED BY <1>2, <1>3 DEF BenchTypes

-----------------------------------------------------------------------------
(* What steps have in common.                                              *)

\* The request takes a free session, keeps what it has, or lets it go.
Takes(c) ==
  /\ request[c] = Arrived /\ request'[c] \in Works /\ request'[c].op # "stored"
  /\ ~record[request'[c].id].busy /\ Busy(request'[c].id, TRUE)
Keeps(c) ==
  /\ request'[c].op \in Work => request[c].op \in Work /\ request'[c].id = request[c].id
  /\ \A id \in Ids : record'[id].busy = record[id].busy
LetsGo(c) ==
  /\ request[c].op \in Work /\ request'[c].op \notin Work
  /\ \A id \in Ids \ {request[c].id} : record'[id].busy = record[id].busy

LEMMA OneStaysAtWork ==
  ASSUME BenchTypes, OneAtWork, NEW c \in Requests,
         \A d \in Requests \ {c} : request'[d] = request[d],
         Takes(c) \/ Keeps(c) \/ LetsGo(c)
  PROVE  OneAtWork'
<1>1. CASE Takes(c)
  <2> DEFINE id == request'[c].id
  <2>1. /\ id \in Ids /\ ~record[id].busy /\ record'[id].busy
        /\ \A i \in Ids \ {id} : record'[i] = record[i]
    BY <1>1, FlagSet DEF Takes, Works
  <2>2. \A d \in Requests \ {c} : request[d].op \in Work => request[d].id # id
    BY <2>1 DEF OneAtWork
  <2>3. \A d \in Requests \ {c} : request[d].op \in Work => request[d].id \in Ids
    BY OpTypes DEF Works
  <2> HIDE DEF id
  <2>4. \A d \in Requests : request'[d].op \in Work => record'[request'[d].id].busy
    <3>1. record'[request'[c].id].busy BY <2>1 DEF id
    <3>2. \A d \in Requests \ {c} : request'[d].op \in Work => record'[request'[d].id].busy
      BY <2>1, <2>2, <2>3 DEF OneAtWork
    <3>3. QED BY <3>1, <3>2
  <2>5. \A d, e \in Requests :
          request'[d].op \in Work /\ request'[e].op \in Work /\ request'[d].id = request'[e].id
            => d = e
    BY <2>2 DEF OneAtWork, id
  <2>6. QED BY <2>4, <2>5 DEF OneAtWork
<1>2. CASE Keeps(c)
  <2>1. \A d \in Requests : request[d].op \in Work => request[d].id \in Ids
    BY OpTypes DEF Works
  <2>2. QED BY <1>2, <2>1 DEF OneAtWork, Keeps
<1>3. CASE LetsGo(c)
  <2>1. \A d \in Requests : request[d].op \in Work => request[d].id \in Ids
    BY OpTypes DEF Works
  <2>2. \A d \in Requests \ {c} : request[d].op \in Work => request[d].id # request[c].id
    BY <1>3 DEF OneAtWork, LetsGo
  <2>3. QED BY <1>3, <2>1, <2>2 DEF OneAtWork, LetsGo
<1>4. QED BY <1>1, <1>2, <1>3

\* Machines and turns go forward.
OnlyForward ==
  \A id \in Ids :
    /\ stored'[id].machine = record'[id].machine
    /\ \/ record'[id].machine > record[id].machine
       \/ /\ record'[id].machine = record[id].machine
          /\ record'[id].turns >= record[id].turns /\ stored'[id].turns >= stored[id].turns

\* What another request has read stays in order.
LEMMA ReadsStayInOrder ==
  ASSUME BenchTypes, InStep, ReadsInOrder, BenchTypes', OnlyForward, NEW c \in Requests,
         request'[c] = request[c], request[c].op = "inspect"
  PROVE  LET r == request'[c] IN
         /\ r.machine <= record'[r.id].machine
         /\ r.machine = record'[r.id].machine => r.turns <= record'[r.id].turns
         /\ r.read =>
              /\ r.machine <= r.stored.machine /\ r.stored.machine <= stored'[r.id].machine
              /\ r.stored.machine = r.machine => r.turns <= r.stored.turns
              /\ r.stored.machine = stored'[r.id].machine => r.stored.turns <= stored'[r.id].turns
<1> DEFINE r == request[c]
           id == r.id
<1>1. r \in Readings BY OpTypes
<1>2. /\ id \in Ids /\ r.machine \in Nat /\ r.turns \in Nat /\ r.stored \in Storages
  BY <1>1 DEF Readings
<1>3. r.stored.machine \in Nat /\ r.stored.turns \in Nat BY <1>2 DEF Storages
<1>4. /\ record[id].machine \in Nat /\ record[id].turns \in Nat
      /\ record'[id].machine \in Nat /\ record'[id].turns \in Nat
      /\ stored[id].machine \in Nat /\ stored[id].turns \in Nat
      /\ stored'[id].machine \in Nat /\ stored'[id].turns \in Nat
  BY <1>2 DEF BenchTypes, Records, Storages
<1>5. /\ r.machine <= record[id].machine
      /\ r.machine = record[id].machine => r.turns <= record[id].turns
      /\ r.read =>
           /\ r.machine <= r.stored.machine /\ r.stored.machine <= stored[id].machine
           /\ r.stored.machine = r.machine => r.turns <= r.stored.turns
           /\ r.stored.machine = stored[id].machine => r.stored.turns <= stored[id].turns
  BY DEF ReadsInOrder
<1>6. stored[id].machine = record[id].machine BY <1>2 DEF InStep
<1>7. /\ stored'[id].machine = record'[id].machine
      /\ \/ record'[id].machine > record[id].machine
         \/ /\ record'[id].machine = record[id].machine
            /\ record'[id].turns >= record[id].turns /\ stored'[id].turns >= stored[id].turns
  BY <1>2 DEF OnlyForward
<1> HIDE DEF r, id
<1>8. CASE record'[id].machine > record[id].machine
  BY <1>2, <1>3, <1>4, <1>5, <1>6, <1>7, <1>8 DEF r, id
<1>9. CASE /\ record'[id].machine = record[id].machine
           /\ record'[id].turns >= record[id].turns /\ stored'[id].turns >= stored[id].turns
  BY <1>2, <1>3, <1>4, <1>5, <1>6, <1>7, <1>9 DEF r, id
<1>10. QED BY <1>7, <1>8, <1>9

\* A request that is not an inspection after the step has nothing in order.
LEMMA NoReading ==
  ASSUME BenchTypes, InStep, ReadsInOrder, BenchTypes', OnlyForward, NEW c \in Requests,
         \A d \in Requests \ {c} : request'[d] = request[d], request'[c].op # "inspect"
  PROVE  ReadsInOrder'
BY ReadsStayInOrder DEF ReadsInOrder

\* The turns of a step that makes and observes none.
LEMMA StaysInStep ==
  ASSUME BenchTypes, InStep, NEW c \in Requests, machines' = machines,
         \A d \in Requests \ {c} : request'[d] = request[d],
         request[c].op # "stored", request'[c].op # "stored",
         \A id \in Ids : /\ record'[id].machine = record[id].machine
                         /\ record'[id].turns = record[id].turns
                         /\ stored'[id].machine = stored[id].machine
                         /\ stored'[id].turns = stored[id].turns
  PROVE  InStep' /\ OnlyForward
<1>1. \A d \in Requests : request'[d].op = "stored" =>
        request[d].op = "stored" /\ request'[d] = request[d] /\ request[d].id \in Ids
  BY OpTypes DEF Works, Work
<1>2. \A d \in Requests : request[d].op = "stored" => request'[d] = request[d]
  OBVIOUS
<1>3. \A id \in Ids : /\ record[id].machine \in Nat /\ record[id].turns \in Nat
                      /\ stored[id].turns \in Nat
  BY DEF BenchTypes, Records, Storages
<1>4. OnlyForward BY <1>3 DEF OnlyForward, InStep
<1>5. InStep' BY <1>1, <1>2 DEF InStep
<1>6. QED BY <1>4, <1>5

\* The invariant after a step of a request, from its parts.
LEMMA RequestStep ==
  ASSUME BenchInv, NEW c \in Requests, request[c] # Waiting \/ server = "open",
         server' = server,
         \A d \in Requests \ {c} : request'[d] = request[d],
         BenchTypes', Takes(c) \/ Keeps(c) \/ LetsGo(c), InStep', ReadsInOrder',
         sessions' \subseteq sessions \/ Cardinality(sessions') <= MaxSessions,
         request'[c].op = "answer" =>
           /\ request'[c].stored.machine = request'[c].machine
           /\ request'[c].stored.turns = request'[c].turns
  PROVE  BenchInv'
<1>1. OneAtWork' BY OneStaysAtWork DEF BenchInv
<1>2. server' \notin {"closing", "closed", "failed"} BY DEF BenchInv, Orderly
<1>3. Orderly' BY <1>2 DEF Orderly
<1>4. InspectsOneMoment' BY DEF BenchInv, BenchSound, InspectsOneMoment
<1>5. Cardinality(sessions') <= MaxSessions
  <2>1. CASE sessions' \subseteq sessions
    <3>1. Cardinality(sessions') <= Cardinality(sessions)
      BY <2>1, FS_Subset DEF BenchInv, BenchTypes
    <3>2. Cardinality(sessions') \in Nat /\ Cardinality(sessions) \in Nat
      BY FS_CardinalityType DEF BenchInv, BenchTypes
    <3>3. QED BY <3>1, <3>2, BenchAssumption DEF BenchInv, BenchSound, SessionsAccounted
  <2>2. QED BY <2>1
<1>6. SessionsAccounted' BY <1>2, <1>5 DEF SessionsAccounted
<1>7. QED BY <1>1, <1>3, <1>4, <1>6 DEF BenchInv, BenchSound

\* A step that touches neither records nor storage, nor the turn observed.
LEMMA QuietStep ==
  ASSUME BenchInv, NEW c \in Requests, NEW r \in Requested,
         request[c] # Waiting \/ server = "open",
         request' = [request EXCEPT ![c] = r],
         UNCHANGED <<record, stored, machines, server>>,
         sessions' \subseteq sessions,
         request[c].op # "stored", r.op # "stored",
         r.op \in Work => request[c].op \in Work /\ r.id = request[c].id,
         r.op = "inspect" =>
           /\ r.machine <= record[r.id].machine
           /\ r.machine = record[r.id].machine => r.turns <= record[r.id].turns
           /\ r.read =>
                /\ r.machine <= r.stored.machine /\ r.stored.machine <= stored[r.id].machine
                /\ r.stored.machine = r.machine => r.turns <= r.stored.turns
                /\ r.stored.machine = stored[r.id].machine =>
                     r.stored.turns <= stored[r.id].turns,
         r.op = "answer" => r.stored.machine = r.machine /\ r.stored.turns = r.turns
  PROVE  BenchInv'
<1>1. /\ request' \in [Requests -> Requested] /\ request'[c] = r
      /\ \A d \in Requests \ {c} : request'[d] = request[d]
  BY ProceedsTo DEF BenchInv
<1>2. IsFiniteSet(sessions') BY FS_Subset DEF BenchInv, BenchTypes
<1>3. BenchTypes' BY <1>1, <1>2 DEF BenchInv, BenchTypes
<1>4. InStep' /\ OnlyForward BY <1>1, StaysInStep DEF BenchInv
<1>5. ReadsInOrder' BY <1>1, <1>3, <1>4, ReadsStayInOrder DEF BenchInv, ReadsInOrder
<1>6. Keeps(c) BY <1>1 DEF Keeps
<1>7. QED BY <1>1, <1>3, <1>4, <1>5, <1>6, RequestStep

LEMMA Plain == Waiting \in Requested /\ Arrived \in Requested
               /\ Waiting.op = "none" /\ Arrived.op = "arrived" /\ Waiting # Arrived
BY DEF Requested, Waiting, Arrived

LEMMA PassingSteps ==
  ASSUME BenchInv, NEW c \in Requests,
         Arrive(c) \/ Refuse(c) \/ CreateFails(c) \/ Delivered(c)
  PROVE  BenchInv'
<1>1. CASE Arrive(c)
  <2>1. request[c].op = "none" BY <1>1, Plain DEF Arrive
  <2>2. QED BY <1>1, <2>1, Plain, QuietStep DEF Arrive, Proceeds, Work
<1>2. CASE Refuse(c)
  <2>1. request[c].op = "arrived" /\ request[c] # Waiting BY <1>2, Plain DEF Refuse
  <2>2. QED BY <1>2, <2>1, Plain, QuietStep DEF Refuse, Proceeds, Work
<1>3. CASE CreateFails(c)
  <2>1. request[c].op = "install" /\ request[c] # Waiting BY <1>3, Plain DEF CreateFails
  <2>2. QED BY <1>3, <2>1, Plain, QuietStep DEF CreateFails, Proceeds, Work
<1>4. CASE Delivered(c)
  <2>1. request[c].op = "answer" /\ request[c] # Waiting BY <1>4, Plain DEF Delivered
  <2>2. QED BY <1>4, <2>1, Plain, QuietStep DEF Delivered, Proceeds, Work
<1>5. QED BY <1>1, <1>2, <1>3, <1>4

\* An inspection begins with the machine and the turns of this moment.
LEMMA ReadingIs ==
  ASSUME NEW id \in Ids, NEW own \in BOOLEAN, record' \in [Ids -> Records]
  PROVE  LET r == Reading(id, own) IN
         /\ r \in Requested /\ r.op = "inspect" /\ r.id = id /\ r.read = FALSE
         /\ r.machine = record'[id].machine /\ r.turns = record'[id].turns
BY DEF Reading, Requested, Readings, Records, NewStorage, Storages

LEMMA InspectStep ==
  ASSUME BenchInv, NEW c \in Requests, NEW id \in Ids, Inspect(c, id) PROVE BenchInv'
<1> DEFINE r == Reading(id, FALSE)
<1>1. request[c] = Arrived /\ request' = [request EXCEPT ![c] = r]
      /\ UNCHANGED <<sessions, record, stored, machines, server, toClose>>
  BY DEF Inspect, Starts
<1>2. record' \in [Ids -> Records] BY <1>1 DEF BenchInv, BenchTypes
<1>3. /\ r \in Requested /\ r.op = "inspect" /\ r.id = id /\ r.read = FALSE
      /\ r.machine = record[id].machine /\ r.turns = record[id].turns
  BY <1>1, <1>2, ReadingIs
<1>4. r.machine \in Nat /\ r.turns \in Nat
  BY <1>3 DEF BenchInv, BenchTypes, Records
<1>5. request[c].op = "arrived" /\ request[c] # Waiting BY <1>1, Plain
<1> HIDE DEF r
<1>6. r.machine <= record[r.id].machine /\ r.turns <= record[r.id].turns BY <1>3, <1>4
<1>7. r.op \notin Work BY <1>3 DEF Work
<1>8. sessions' \subseteq sessions BY <1>1
<1>9. QED BY <1>1, <1>3, <1>5, <1>6, <1>7, <1>8, QuietStep

LEMMA ReadStep ==
  ASSUME BenchInv, NEW c \in Requests, Read(c) PROVE BenchInv'
<1> DEFINE q == request[c]
           r == [q EXCEPT !.read = TRUE, !.stored = stored[q.id]]
<1>1. q.op = "inspect" /\ request' = [request EXCEPT ![c] = r]
      /\ UNCHANGED <<sessions, record, stored, machines, server, toClose>>
  BY DEF Read, Proceeds
<1>2. q \in Readings /\ q # Waiting BY <1>1, OpTypes, Plain DEF BenchInv
<1>3. q.id \in Ids /\ stored[q.id] \in Storages BY <1>2 DEF Readings, BenchInv, BenchTypes
<1>4. /\ r \in Readings /\ r.op = "inspect" /\ r.id = q.id /\ r.machine = q.machine
      /\ r.turns = q.turns /\ r.stored = stored[q.id]
  BY <1>2, <1>3 DEF Readings
<1>5. /\ r.machine <= record[r.id].machine
      /\ r.machine = record[r.id].machine => r.turns <= record[r.id].turns
  BY <1>1, <1>4 DEF BenchInv, ReadsInOrder
<1>6. /\ stored[r.id].machine = record[r.id].machine
      /\ stored[r.id].turns >= record[r.id].turns
      /\ stored[r.id].machine \in Nat /\ stored[r.id].turns \in Nat
      /\ record[r.id].turns \in Nat
  <2>1. stored[r.id].machine = record[r.id].machine BY <1>3, <1>4 DEF BenchInv, InStep
  <2>2. /\ stored[r.id].machine \in Nat /\ stored[r.id].turns \in Nat
        /\ record[r.id].turns \in Nat
    BY <1>3, <1>4 DEF BenchInv, BenchTypes, Records, Storages
  <2>3. \/ stored[r.id].turns = record[r.id].turns
        \/ stored[r.id].turns = record[r.id].turns + 1
    BY <1>3, <1>4 DEF BenchInv, InStep
  <2>4. QED BY <2>1, <2>2, <2>3
<1>7. r.machine \in Nat /\ r.turns \in Nat BY <1>4 DEF Readings
<1> HIDE DEF r
<1>8. r \in Requested BY <1>4 DEF Requested
<1>9. /\ r.machine <= r.stored.machine /\ r.stored.machine <= stored[r.id].machine
      /\ r.stored.machine = r.machine => r.turns <= r.stored.turns
      /\ r.stored.turns <= stored[r.id].turns
  BY <1>3, <1>4, <1>5, <1>6, <1>7
<1>10. r.op \notin Work /\ r.op # "answer" /\ r.op # "stored" /\ q.op # "stored"
  BY <1>1, <1>4 DEF Work
<1>11. sessions' \subseteq sessions BY <1>1
<1>12. QED BY <1>1, <1>2, <1>4, <1>5, <1>8, <1>9, <1>10, <1>11, QuietStep

\* An inspection that is answered saw one moment.
LEMMA InspectedStep ==
  ASSUME BenchInv, NEW c \in Requests, Inspected(c) PROVE BenchInv'
<1> DEFINE r == request[c]
           a == [op |-> "answer", stored |-> r.stored, machine |-> r.machine,
                 turns |-> record[r.id].turns]
<1>1. /\ r.op = "inspect" /\ r.read
      /\ request' = [request EXCEPT ![c] = IF Steady(r) THEN a ELSE Waiting]
      /\ UNCHANGED <<record, stored, machines, server>> /\ sessions' \subseteq sessions
  BY DEF Inspected, Proceeds
<1>2. r \in Readings /\ r # Waiting BY <1>1, OpTypes, Plain DEF BenchInv
<1>3. /\ r.id \in Ids /\ r.stored \in Storages /\ r.machine \in Nat /\ r.turns \in Nat
      /\ record[r.id] \in Records /\ stored[r.id] \in Storages
  BY <1>2 DEF Readings, BenchInv, BenchTypes
<1>4. a \in Requested BY <1>3 DEF Requested, Answering, Records
<1>5. CASE Steady(r)
  <2>1. /\ ~record[r.id].busy /\ record[r.id].machine = r.machine
        /\ record[r.id].turns = r.turns
    BY <1>5 DEF Steady
  <2>2. stored[r.id].machine = r.machine /\ stored[r.id].turns = r.turns
    <3>1. \A d \in Requests : ~(request[d].op = "stored" /\ request[d].id = r.id)
      BY <2>1 DEF BenchInv, OneAtWork, Work
    <3>2. QED BY <1>3, <2>1, <3>1 DEF BenchInv, InStep
  <2>3. /\ r.machine <= r.stored.machine /\ r.stored.machine <= stored[r.id].machine
        /\ r.stored.machine = r.machine => r.turns <= r.stored.turns
        /\ r.stored.machine = stored[r.id].machine => r.stored.turns <= stored[r.id].turns
    BY <1>1 DEF BenchInv, ReadsInOrder
  <2>4. r.stored.machine \in Nat /\ r.stored.turns \in Nat BY <1>3 DEF Storages
  <2>5. r.stored.machine = r.machine BY <1>3, <2>2, <2>3, <2>4
  <2>6. r.stored.turns = r.turns BY <1>3, <2>2, <2>3, <2>4, <2>5
  <2>7. a.stored.machine = a.machine /\ a.stored.turns = a.turns /\ a.op = "answer"
    BY <2>1, <2>5, <2>6
  <2>8. request' = [request EXCEPT ![c] = a] BY <1>1, <1>5
  <2> HIDE DEF a
  <2>9. QED BY <1>1, <1>2, <1>4, <2>7, <2>8, QuietStep DEF Work
<1>6. CASE ~Steady(r)
  <2>1. request' = [request EXCEPT ![c] = Waiting] BY <1>1, <1>6
  <2>2. QED BY <1>1, <1>2, <2>1, Plain, QuietStep DEF Work
<1>7. QED BY <1>5, <1>6

\* The session is taken for an operation.
LEMMA TakingSteps ==
  ASSUME BenchInv, NEW c \in Requests, NEW id \in Ids,
         \/ Create(c, id)
         \/ \E op \in {"send", "reset", "replay", "close"} : Begin(c, id, op)
  PROVE  BenchInv'
<1>1. PICK op \in {"install", "send", "reset", "replay", "close"} :
        /\ request[c] = Arrived /\ request' = [request EXCEPT ![c] = [op |-> op, id |-> id]]
        /\ ~record[id].busy /\ Busy(id, TRUE)
        /\ UNCHANGED <<stored, machines, server>>
        /\ \/ sessions' = sessions
           \/ sessions' = sessions \cup {id} /\ Cardinality(sessions) < MaxSessions
              /\ id \notin sessions
  <2>1. CASE Create(c, id)
    <3>1. ~record[id].busy BY <2>1 DEF Create, Blank
    <3>2. QED BY <2>1, <3>1 DEF Create, Starts
  <2>2. CASE \E op \in {"send", "reset", "replay", "close"} : Begin(c, id, op)
    BY <2>2 DEF Begin, Starts
  <2>3. QED BY <2>1, <2>2
<1> DEFINE r == [op |-> op, id |-> id]
<1>2. r \in Works /\ r.op = op /\ r.id = id BY DEF Works, Work
<1>3. r \in Requested BY <1>2 DEF Requested
<1>4. request' = [request EXCEPT ![c] = r] BY <1>1
<1> HIDE DEF r
<1>5. /\ request' \in [Requests -> Requested] /\ request'[c] = r
      /\ \A d \in Requests \ {c} : request'[d] = request[d]
  BY <1>3, <1>4, ProceedsTo DEF BenchInv
<1>6. /\ record' \in [Ids -> Records]
      /\ \A i \in Ids : record'[i].machine = record[i].machine
                        /\ record'[i].turns = record[i].turns
  BY <1>1, FlagSet DEF BenchInv
<1>7. /\ sessions' \subseteq Ids /\ IsFiniteSet(sessions')
      /\ (sessions' \subseteq sessions \/ Cardinality(sessions') <= MaxSessions)
  <2>1. CASE sessions' = sessions BY <2>1 DEF BenchInv, BenchTypes
  <2>2. CASE /\ sessions' = sessions \cup {id} /\ Cardinality(sessions) < MaxSessions
             /\ id \notin sessions
    <3>1. /\ IsFiniteSet(sessions') /\ Cardinality(sessions') = Cardinality(sessions) + 1
          /\ Cardinality(sessions) \in Nat
      BY <2>2, FS_AddElement, FS_CardinalityType DEF BenchInv, BenchTypes
    <3>2. QED BY <2>2, <3>1, BenchAssumption DEF BenchInv, BenchTypes
  <2>3. QED BY <1>1, <2>1, <2>2
<1>8. BenchTypes' BY <1>1, <1>5, <1>6, <1>7 DEF BenchInv, BenchTypes
<1>9. request[c].op = "arrived" /\ request[c] # Waiting BY <1>1, Plain
<1>10. InStep' /\ OnlyForward BY <1>1, <1>2, <1>5, <1>6, <1>9, StaysInStep DEF BenchInv
<1>11. r.op # "inspect" /\ r.op # "answer" /\ r.op # "stored" BY <1>1, <1>2
<1>12. ReadsInOrder' BY <1>5, <1>8, <1>10, <1>11, NoReading DEF BenchInv
<1>13. Takes(c) BY <1>1, <1>2, <1>5, <1>11 DEF Takes
<1>14. QED BY <1>1, <1>5, <1>7, <1>8, <1>9, <1>10, <1>11, <1>12, <1>13, RequestStep

\* A stored session that is removed leaves its machine's moment.
LEMMA GoneIs ==
  ASSUME BenchInv, NEW id \in Ids, stored' = Gone(id)
  PROVE  /\ stored' \in [Ids -> Storages]
         /\ \A i \in Ids : stored'[i].machine = stored[i].machine
                           /\ stored'[i].turns = stored[i].turns
<1> DEFINE g == [stored[id] EXCEPT !.there = FALSE]
<1>1. stored[id] \in Storages BY DEF BenchInv, BenchTypes
<1>2. stored' = [stored EXCEPT ![id] = g] BY DEF Gone, BenchInv, BenchTypes
<1>3. g \in Storages /\ g.machine = stored[id].machine /\ g.turns = stored[id].turns
  BY <1>1 DEF Storages
<1> HIDE DEF g
<1>4. QED BY <1>2, <1>3 DEF BenchInv, BenchTypes

\* The session is let go without a new machine.
LEMMA LettingGo ==
  ASSUME BenchInv, NEW c \in Requests, Finishes(c) \/ Closed(c)
  PROVE  BenchInv'
<1> DEFINE id == request[c].id
<1>1. /\ request[c].op \in Work \ {"stored"} /\ Busy(id, FALSE)
      /\ request' = [request EXCEPT ![c] = Waiting]
      /\ UNCHANGED <<machines, server>> /\ sessions' \subseteq sessions
      /\ stored' = stored \/ stored' = Gone(id)
  BY DEF Finishes, Closed, Proceeds, Work
<1>2. request[c] \in Works /\ id \in Ids BY <1>1, OpTypes DEF BenchInv, Works
<1>3. /\ request' \in [Requests -> Requested] /\ request'[c] = Waiting
      /\ \A d \in Requests \ {c} : request'[d] = request[d]
  BY <1>1, Plain, ProceedsTo DEF BenchInv
<1> HIDE DEF id
<1>4. /\ record' \in [Ids -> Records]
      /\ \A i \in Ids : record'[i].machine = record[i].machine
                        /\ record'[i].turns = record[i].turns
      /\ \A i \in Ids \ {id} : record'[i] = record[i]
  BY <1>1, <1>2, FlagSet DEF BenchInv
<1>5. /\ stored' \in [Ids -> Storages]
      /\ \A i \in Ids : stored'[i].machine = stored[i].machine
                        /\ stored'[i].turns = stored[i].turns
  <2>1. CASE stored' = stored BY <2>1 DEF BenchInv, BenchTypes
  <2>2. CASE stored' = Gone(id) BY <1>2, <2>2, GoneIs
  <2>3. QED BY <1>1, <2>1, <2>2
<1>6. IsFiniteSet(sessions') BY <1>1, FS_Subset DEF BenchInv, BenchTypes
<1>7. BenchTypes' BY <1>1, <1>3, <1>4, <1>5, <1>6 DEF BenchInv, BenchTypes
<1>8. request'[c].op = "none" BY <1>3, Plain
<1>9. InStep' /\ OnlyForward BY <1>1, <1>3, <1>4, <1>5, <1>8, StaysInStep DEF BenchInv
<1>10. ReadsInOrder' BY <1>3, <1>7, <1>8, <1>9, NoReading DEF BenchInv
<1>11. LetsGo(c) BY <1>1, <1>4, <1>8 DEF LetsGo, Work, id
<1>12. request[c] # Waiting BY <1>1, Plain DEF Work
<1>13. QED BY <1>1, <1>3, <1>7, <1>8, <1>9, <1>10, <1>11, <1>12, RequestStep

LEMMA RemovedStep ==
  ASSUME BenchInv, NEW c \in Requests, Removed(c) PROVE BenchInv'
<1> DEFINE id == request[c].id
           r == [op |-> "reinstall", id |-> id]
<1>1. request[c].op = "reset" /\ UNCHANGED <<sessions, record, machines, server>>
      /\ stored' = Gone(id)
  BY DEF Removed
<1>2. request[c] \in Works /\ id \in Ids BY <1>1, OpTypes DEF BenchInv, Works, Work
<1>3. request' = [request EXCEPT ![c] = r]
  <2>1. [request[c] EXCEPT !.op = "reinstall"] = r BY <1>2 DEF Works
  <2>2. QED BY <2>1 DEF Removed, Proceeds
<1>4. r \in Requested /\ r.op = "reinstall" /\ r.id = id
  BY <1>2 DEF Requested, Works, Work
<1> HIDE DEF r, id
<1>5. /\ request' \in [Requests -> Requested] /\ request'[c] = r
      /\ \A d \in Requests \ {c} : request'[d] = request[d]
  BY <1>3, <1>4, ProceedsTo DEF BenchInv
<1>6. /\ stored' \in [Ids -> Storages]
      /\ \A i \in Ids : stored'[i].machine = stored[i].machine
                        /\ stored'[i].turns = stored[i].turns
  BY <1>1, <1>2, GoneIs
<1>7. BenchTypes' BY <1>1, <1>5, <1>6 DEF BenchInv, BenchTypes
<1>8. InStep' /\ OnlyForward BY <1>1, <1>4, <1>5, <1>6, StaysInStep DEF BenchInv
<1>9. ReadsInOrder' BY <1>4, <1>5, <1>7, <1>8, NoReading DEF BenchInv
<1>10. Keeps(c) BY <1>1, <1>4, <1>5 DEF Keeps, Work, id
<1>11. request[c] # Waiting BY <1>1, Plain
<1>12. QED BY <1>1, <1>4, <1>5, <1>7, <1>8, <1>9, <1>10, <1>11, RequestStep

\* A request that works on a session is the only one.
LEMMA Alone ==
  ASSUME BenchInv, NEW c \in Requests, request[c].op \in Work
  PROVE  /\ request[c].id \in Ids
         /\ \A d \in Requests \ {c} : request[d].op = "stored" =>
              request[d].id \in Ids /\ request[d].id # request[c].id
BY OpTypes DEF BenchInv, OneAtWork, Work, Works

\* A machine is installed: a fresh number, and a session without turns.
LEMMA InstallSteps ==
  ASSUME BenchInv, NEW c \in Requests, Created(c) \/ Reinstalled(c)
  PROVE  BenchInv'
<1> DEFINE id == request[c].id
           new == [busy |-> FALSE, machine |-> machines + 1, turns |-> 0]
<1>1. /\ request[c].op \in {"install", "reinstall"} /\ machines' = machines + 1
      /\ record' = [record EXCEPT ![id] = new]
      /\ stored' = [stored EXCEPT ![id] = NewStorage(machines + 1)]
      /\ UNCHANGED <<sessions, server>>
  BY DEF Created, Reinstalled
<1>2. /\ id \in Ids
      /\ \A d \in Requests \ {c} : request[d].op = "stored" =>
           request[d].id \in Ids /\ request[d].id # id
  BY <1>1, Alone DEF Work
<1>3. machines \in Nat /\ machines + 1 \in Nat BY DEF BenchInv, BenchTypes
<1>4. new \in Records /\ new.machine = machines + 1 /\ new.turns = 0
  BY <1>3 DEF Records
<1>5. /\ NewStorage(machines + 1) \in Storages
      /\ NewStorage(machines + 1).machine = machines + 1 /\ NewStorage(machines + 1).turns = 0
  BY <1>3 DEF NewStorage, Storages
<1> HIDE DEF id, new
<1>6. /\ record' \in [Ids -> Records] /\ stored' \in [Ids -> Storages]
      /\ record'[id].machine = machines + 1 /\ record'[id].turns = 0
      /\ stored'[id].machine = machines + 1 /\ stored'[id].turns = 0
      /\ \A i \in Ids \ {id} : record'[i] = record[i] /\ stored'[i] = stored[i]
  BY <1>1, <1>2, <1>4, <1>5 DEF BenchInv, BenchTypes
<1>7. PICK r \in Requested :
        /\ request' = [request EXCEPT ![c] = r]
        /\ r.op \in {"inspect", "none"}
        /\ r.op = "inspect" => /\ r.id = id /\ r.read = FALSE
                               /\ r.machine = record'[id].machine
                               /\ r.turns = record'[id].turns
  <2>1. CASE Created(c)
    <3>1. request' = [request EXCEPT ![c] = Reading(id, TRUE)]
      BY <2>1 DEF Created, Proceeds, id
    <3>2. QED BY <1>2, <1>6, <3>1, ReadingIs
  <2>2. CASE Reinstalled(c)
    <3>1. request' = [request EXCEPT ![c] = Waiting] BY <2>2 DEF Reinstalled, Proceeds
    <3>2. QED BY <3>1, Plain
  <2>3. QED BY <2>1, <2>2
<1>8. /\ request' \in [Requests -> Requested] /\ request'[c] = r
      /\ \A d \in Requests \ {c} : request'[d] = request[d]
  BY <1>7, ProceedsTo DEF BenchInv
<1>9. BenchTypes' BY <1>1, <1>3, <1>6, <1>8 DEF BenchInv, BenchTypes
<1>10. \A i \in Ids : record[i].machine \in Nat /\ record[i].machine <= machines
                      /\ record[i].turns \in Nat /\ stored[i].turns \in Nat
                      /\ stored[i].machine = record[i].machine
  BY DEF BenchInv, BenchTypes, InStep, Records, Storages
<1>11. OnlyForward
  <2> SUFFICES ASSUME NEW i \in Ids
               PROVE  /\ stored'[i].machine = record'[i].machine
                      /\ \/ record'[i].machine > record[i].machine
                         \/ /\ record'[i].machine = record[i].machine
                            /\ record'[i].turns >= record[i].turns
                            /\ stored'[i].turns >= stored[i].turns
    BY DEF OnlyForward
  <2>1. CASE i = id BY <1>3, <1>6, <1>10, <2>1
  <2>2. CASE i # id BY <1>6, <1>10, <2>2
  <2>3. QED BY <2>1, <2>2
<1>12. InStep'
  <2>1. ASSUME NEW i \in Ids
        PROVE  record'[i].machine <= machines' /\ stored'[i].machine = record'[i].machine
    <3>1. CASE i = id BY <1>1, <1>3, <1>6, <3>1
    <3>2. CASE i # id BY <1>1, <1>3, <1>6, <1>10, <3>2
    <3>3. QED BY <3>1, <3>2
  <2>2. ASSUME NEW d \in Requests, request'[d].op = "stored"
        PROVE  stored'[request'[d].id].turns = record'[request'[d].id].turns + 1
    <3>1. d # c /\ request'[d] = request[d] BY <1>7, <1>8, <2>2
    <3>2. request[d].id \in Ids /\ request[d].id # id BY <1>2, <2>2, <3>1
    <3>3. stored[request[d].id].turns = record[request[d].id].turns + 1
      BY <2>2, <3>1 DEF BenchInv, InStep
    <3>4. QED BY <1>6, <3>1, <3>2, <3>3
  <2>3. ASSUME NEW i \in Ids,
               \A d \in Requests : ~(request'[d].op = "stored" /\ request'[d].id = i)
        PROVE  stored'[i].turns = record'[i].turns
    <3>1. CASE i = id BY <1>6, <3>1
    <3>2. CASE i # id
      <4>1. request[c].op # "stored" BY <1>1
      <4>2. \A d \in Requests : ~(request[d].op = "stored" /\ request[d].id = i)
        BY <1>8, <2>3, <4>1
      <4>3. stored[i].turns = record[i].turns BY <4>2 DEF BenchInv, InStep
      <4>4. QED BY <1>6, <3>2, <4>3
    <3>3. QED BY <3>1, <3>2
  <2>4. QED BY <2>1, <2>2, <2>3 DEF InStep
<1>13. ReadsInOrder'
  <2>1. CASE r.op = "none" BY <1>8, <1>9, <1>11, <2>1, NoReading DEF BenchInv
  <2>2. CASE r.op = "inspect"
    <3>1. /\ r.id = id /\ r.read = FALSE
          /\ r.machine <= record'[r.id].machine /\ r.turns <= record'[r.id].turns
      BY <1>3, <1>6, <1>7, <2>2
    <3>2. QED
      BY <1>8, <1>9, <1>11, <3>1, ReadsStayInOrder DEF BenchInv, ReadsInOrder
  <2>3. QED BY <1>7, <2>1, <2>2
<1>14. LetsGo(c) BY <1>1, <1>6, <1>7, <1>8 DEF LetsGo, Work, id
<1>15. request[c] # Waiting BY <1>1, Plain
<1>16. QED BY <1>1, <1>7, <1>8, <1>9, <1>12, <1>13, <1>14, <1>15, RequestStep

LEMMA WithTurns ==
  ASSUME NEW v \in Storages, NEW x, NEW y, NEW w, w = [v EXCEPT !.turns = x, !.there = y]
  PROVE  w = [machine |-> v.machine, turns |-> x, there |-> y]
BY DEF Storages

\* The machine makes a turn's writes.
LEMMA StoresStep ==
  ASSUME BenchInv, NEW c \in Requests, Stores(c) PROVE BenchInv'
<1> DEFINE id == request[c].id
           r == [op |-> "stored", id |-> id]
<1>1. request[c].op = "send" /\ UNCHANGED <<sessions, record, machines, server>>
  BY DEF Stores
<1>2. request[c] \in Works BY <1>1, OpTypes DEF BenchInv, Work
<1>3. /\ id \in Ids
      /\ \A d \in Requests \ {c} : request[d].op = "stored" =>
           request[d].id \in Ids /\ request[d].id # id
  BY <1>1, Alone DEF Work
<1>4. request' = [request EXCEPT ![c] = r]
  <2>1. [request[c] EXCEPT !.op = "stored"] = r BY <1>2 DEF Works
  <2>2. QED BY <2>1 DEF Stores, Proceeds
<1>5. r \in Requested /\ r.op = "stored" /\ r.id = id
  BY <1>3 DEF Requested, Works, Work
<1>6. PICK there \in BOOLEAN :
        stored' = [stored EXCEPT ![id] = [machine |-> stored[id].machine,
                                          turns |-> stored[id].turns + 1, there |-> there]]
  <2>1. PICK there \in {TRUE, stored[id].there} :
          stored' = [stored EXCEPT ![id].turns = @ + 1, ![id].there = there]
    BY DEF Stores
  <2>2. stored[id] \in Storages BY <1>3 DEF BenchInv, BenchTypes
  <2>3. there \in BOOLEAN BY <2>2 DEF Storages
  <2> DEFINE s == [machine |-> stored[id].machine,
                   turns |-> stored[id].turns + 1, there |-> there]
  <2>4. stored'[id] = s
    <3> DEFINE t == [stored[id] EXCEPT !.turns = @ + 1, !.there = there]
    <3>1. stored' = [stored EXCEPT ![id] = t] BY <1>3, <2>1 DEF BenchInv, BenchTypes
    <3>2. t = [stored[id] EXCEPT !.turns = stored[id].turns + 1, !.there = there] OBVIOUS
    <3> HIDE DEF t
    <3>3. t = s BY <2>2, <3>2, WithTurns
    <3>4. QED BY <1>3, <3>1, <3>3 DEF BenchInv, BenchTypes
  <2>5. stored' = [stored EXCEPT ![id] = s] BY <1>3, <2>1, <2>4 DEF BenchInv, BenchTypes
  <2>6. QED BY <2>3, <2>5
<1> HIDE DEF r, id
<1>7. /\ stored[id] \in Storages /\ record[id] \in Records
      /\ stored[id].turns \in Nat /\ record[id].turns \in Nat
  BY <1>3 DEF BenchInv, BenchTypes, Storages, Records
<1>8. /\ stored' \in [Ids -> Storages]
      /\ stored'[id].turns = stored[id].turns + 1 /\ stored'[id].machine = stored[id].machine
      /\ \A i \in Ids \ {id} : stored'[i] = stored[i]
  BY <1>3, <1>6, <1>7 DEF BenchInv, BenchTypes, Storages
<1>9. /\ request' \in [Requests -> Requested] /\ request'[c] = r
      /\ \A d \in Requests \ {c} : request'[d] = request[d]
  BY <1>4, <1>5, ProceedsTo DEF BenchInv
<1>10. BenchTypes' BY <1>1, <1>8, <1>9 DEF BenchInv, BenchTypes
<1>11. \A i \in Ids : record[i].machine \in Nat /\ record[i].machine <= machines
                      /\ record[i].turns \in Nat /\ stored[i].turns \in Nat
                      /\ stored[i].machine = record[i].machine
  BY DEF BenchInv, BenchTypes, InStep, Records, Storages
<1>12. OnlyForward
  <2> SUFFICES ASSUME NEW i \in Ids
               PROVE  /\ stored'[i].machine = record[i].machine
                      /\ stored'[i].turns >= stored[i].turns
    BY <1>1, <1>11 DEF OnlyForward
  <2>1. CASE i = id BY <1>7, <1>8, <1>11, <2>1
  <2>2. CASE i # id BY <1>8, <1>11, <2>2
  <2>3. QED BY <2>1, <2>2
<1>13. InStep'
  <2>1. \A i \in Ids : record'[i].machine <= machines' /\ stored'[i].machine = record'[i].machine
    BY <1>1, <1>8, <1>11
  <2>2. stored[id].turns = record[id].turns
    <3>1. \A d \in Requests : ~(request[d].op = "stored" /\ request[d].id = id)
      BY <1>1, <1>3
    <3>2. QED BY <1>3, <3>1 DEF BenchInv, InStep
  <2>3. ASSUME NEW d \in Requests, request'[d].op = "stored"
        PROVE  stored'[request'[d].id].turns = record'[request'[d].id].turns + 1
    <3>1. CASE d = c BY <1>1, <1>5, <1>8, <1>9, <2>2, <3>1
    <3>2. CASE d # c
      <4>1. request'[d] = request[d] /\ request[d].id \in Ids /\ request[d].id # id
        BY <1>3, <1>9, <2>3, <3>2
      <4>2. stored[request[d].id].turns = record[request[d].id].turns + 1
        BY <2>3, <4>1 DEF BenchInv, InStep
      <4>3. QED BY <1>1, <1>8, <4>1, <4>2
    <3>3. QED BY <3>1, <3>2
  <2>4. ASSUME NEW i \in Ids,
               \A d \in Requests : ~(request'[d].op = "stored" /\ request'[d].id = i)
        PROVE  stored'[i].turns = record'[i].turns
    <3>1. i # id BY <1>5, <1>9, <2>4
    <3>2. request[c].op # "stored" BY <1>1
    <3>3. \A d \in Requests : ~(request[d].op = "stored" /\ request[d].id = i)
      BY <1>9, <2>4, <3>2
    <3>4. stored[i].turns = record[i].turns BY <3>3 DEF BenchInv, InStep
    <3>5. QED BY <1>1, <1>8, <3>1, <3>4
  <2>5. QED BY <2>1, <2>3, <2>4 DEF InStep
<1>14. ReadsInOrder' BY <1>5, <1>9, <1>10, <1>12, NoReading DEF BenchInv
<1>15. Keeps(c) BY <1>1, <1>5, <1>9 DEF Keeps, Work, id
<1>16. request[c] # Waiting BY <1>1, Plain
<1>17. r.op # "answer" BY <1>5
<1>18. QED BY <1>1, <1>9, <1>10, <1>13, <1>14, <1>15, <1>16, <1>17, RequestStep

\* The observer records the turn's event.
LEMMA TracedStep ==
  ASSUME BenchInv, NEW c \in Requests, Traced(c) PROVE BenchInv'
<1> DEFINE id == request[c].id
           r == [op |-> "sent", id |-> id]
           n == [record[id] EXCEPT !.turns = @ + 1]
<1>1. request[c].op = "stored" /\ UNCHANGED <<sessions, stored, machines, server>>
  BY DEF Traced
<1>2. request[c] \in Works BY <1>1, OpTypes DEF BenchInv, Work
<1>3. /\ id \in Ids
      /\ \A d \in Requests \ {c} : request[d].op = "stored" =>
           request[d].id \in Ids /\ request[d].id # id
  BY <1>1, Alone DEF Work
<1>4. request' = [request EXCEPT ![c] = r]
  <2>1. [request[c] EXCEPT !.op = "sent"] = r BY <1>2 DEF Works
  <2>2. QED BY <2>1 DEF Traced, Proceeds
<1>5. r \in Requested /\ r.op = "sent" /\ r.id = id
  BY <1>3 DEF Requested, Works, Work
<1>6. record' = [record EXCEPT ![id] = n] BY DEF Traced, BenchInv, BenchTypes
<1>7. record[id] \in Records /\ record[id].turns \in Nat
  BY <1>3 DEF BenchInv, BenchTypes, Records
<1>8. n \in Records /\ n.turns = record[id].turns + 1 /\ n.machine = record[id].machine
      /\ n.busy = record[id].busy
  BY <1>7 DEF Records
<1> HIDE DEF r, id, n
<1>9. /\ record' \in [Ids -> Records] /\ record'[id] = n
      /\ \A i \in Ids \ {id} : record'[i] = record[i]
  BY <1>3, <1>6, <1>8 DEF BenchInv, BenchTypes
<1>10. /\ request' \in [Requests -> Requested] /\ request'[c] = r
       /\ \A d \in Requests \ {c} : request'[d] = request[d]
  BY <1>4, <1>5, ProceedsTo DEF BenchInv
<1>11. BenchTypes' BY <1>1, <1>9, <1>10 DEF BenchInv, BenchTypes
<1>12. \A i \in Ids : record[i].machine \in Nat /\ record[i].machine <= machines
                      /\ record[i].turns \in Nat /\ stored[i].turns \in Nat
                      /\ stored[i].machine = record[i].machine
  BY DEF BenchInv, BenchTypes, InStep, Records, Storages
<1>13. \A i \in Ids : record'[i].machine = record[i].machine
                      /\ record'[i].busy = record[i].busy
                      /\ record'[i].turns >= record[i].turns
  <2> SUFFICES ASSUME NEW i \in Ids
               PROVE  /\ record'[i].machine = record[i].machine
                      /\ record'[i].busy = record[i].busy
                      /\ record'[i].turns >= record[i].turns
    OBVIOUS
  <2>1. CASE i = id BY <1>7, <1>8, <1>9, <2>1
  <2>2. CASE i # id BY <1>9, <1>12, <2>2
  <2>3. QED BY <2>1, <2>2
<1>14. OnlyForward BY <1>1, <1>12, <1>13 DEF OnlyForward
<1>15. InStep'
  <2>1. \A i \in Ids : record'[i].machine <= machines' /\ stored'[i].machine = record'[i].machine
    BY <1>1, <1>12, <1>13
  <2>2. stored[id].turns = record[id].turns + 1 BY <1>1 DEF BenchInv, InStep, id
  <2>3. ASSUME NEW d \in Requests, request'[d].op = "stored"
        PROVE  stored'[request'[d].id].turns = record'[request'[d].id].turns + 1
    <3>1. d # c BY <1>5, <1>10, <2>3
    <3>2. request'[d] = request[d] /\ request[d].id \in Ids /\ request[d].id # id
      BY <1>3, <1>10, <2>3, <3>1
    <3>3. stored[request[d].id].turns = record[request[d].id].turns + 1
      BY <2>3, <3>2 DEF BenchInv, InStep
    <3>4. QED BY <1>1, <1>9, <3>2, <3>3
  <2>4. ASSUME NEW i \in Ids,
               \A d \in Requests : ~(request'[d].op = "stored" /\ request'[d].id = i)
        PROVE  stored'[i].turns = record'[i].turns
    <3>1. CASE i = id BY <1>1, <1>8, <1>9, <2>2, <3>1
    <3>2. CASE i # id
      <4>1. request[c].id # i BY <3>2 DEF id
      <4>2. \A d \in Requests : ~(request[d].op = "stored" /\ request[d].id = i)
        BY <1>10, <2>4, <4>1
      <4>3. stored[i].turns = record[i].turns BY <4>2 DEF BenchInv, InStep
      <4>4. QED BY <1>1, <1>9, <3>2, <4>3
    <3>3. QED BY <3>1, <3>2
  <2>5. QED BY <2>1, <2>3, <2>4 DEF InStep
<1>16. ReadsInOrder' BY <1>5, <1>10, <1>11, <1>14, NoReading DEF BenchInv
<1>17. Keeps(c) BY <1>1, <1>5, <1>10, <1>13 DEF Keeps, Work, id
<1>18. request[c] # Waiting BY <1>1, Plain
<1>19. r.op # "answer" BY <1>5
<1>20. QED BY <1>1, <1>10, <1>11, <1>15, <1>16, <1>17, <1>18, <1>19, RequestStep

\* Steps of no request: a stored session expires, and the server closes.
LEMMA ServerSteps ==
  ASSUME BenchInv,
         (\E id \in Ids : StoredExpires(id)) \/ Drain \/ Closing \/ CloseNext
           \/ UNCHANGED benchVars
  PROVE  BenchInv'
<1>1. /\ UNCHANGED <<record, machines, request>>
      /\ stored' = stored \/ \E id \in Ids : stored' = Gone(id)
      /\ sessions' \subseteq sessions
  <2>1. CASE CloseNext
    <3>1. CASE \E id \in toClose : Found(id) /\ sessions' = sessions \ {id} /\ stored' = Gone(id)
      <4>1. \A id : Found(id) => id \in Ids BY DEF Found, BenchInv, BenchTypes
      <4>2. QED BY <2>1, <3>1, <4>1 DEF CloseNext
    <3>2. QED BY <2>1, <3>1 DEF CloseNext
  <2>2. QED BY <2>1 DEF StoredExpires, Drain, Closing, benchVars
<1>2. /\ stored' \in [Ids -> Storages]
      /\ \A i \in Ids : stored'[i].machine = stored[i].machine
                        /\ stored'[i].turns = stored[i].turns
  <2>1. CASE stored' = stored BY <2>1 DEF BenchInv, BenchTypes
  <2>2. CASE \E id \in Ids : stored' = Gone(id) BY <2>2, GoneIs
  <2>3. QED BY <1>1, <2>1, <2>2
<1>3. /\ IsFiniteSet(sessions') /\ Cardinality(sessions') <= Cardinality(sessions)
      /\ Cardinality(sessions') \in Nat /\ Cardinality(sessions) \in Nat
  BY <1>1, FS_Subset, FS_CardinalityType DEF BenchInv, BenchTypes
<1>4. BenchTypes' BY <1>1, <1>2, <1>3 DEF BenchInv, BenchTypes
<1>5. OneAtWork' BY <1>1 DEF BenchInv, OneAtWork
<1>6. InStep'
  <2>1. \A d \in Requests : request[d].op = "stored" => request[d].id \in Ids
    BY OpTypes DEF BenchInv, Works, Work
  <2>2. QED BY <1>1, <1>2, <2>1 DEF BenchInv, InStep
<1>7. ReadsInOrder'
  <2>1. OnlyForward
    <3>1. \A i \in Ids : record[i].turns \in Nat /\ stored[i].turns \in Nat
      BY DEF BenchInv, BenchTypes, Records, Storages
    <3>2. QED BY <1>1, <1>2, <3>1 DEF OnlyForward, BenchInv, InStep
  <2>2. QED BY <1>1, <1>4, <2>1, ReadsStayInOrder DEF BenchInv, ReadsInOrder
<1>8. Orderly' /\ (server' = "closed" => sessions' = {})
  <2>1. CASE \E id \in Ids : StoredExpires(id)
    BY <2>1 DEF StoredExpires, BenchInv, Orderly, BenchSound, SessionsAccounted
  <2>2. CASE Drain BY <2>2 DEF Drain, Orderly
  <2>3. CASE Closing BY <2>3 DEF Closing, Drained, Orderly
  <2>4. CASE CloseNext BY <2>4 DEF CloseNext, BenchInv, Orderly
  <2>5. CASE UNCHANGED benchVars
    BY <2>5 DEF benchVars, BenchInv, Orderly, BenchSound, SessionsAccounted
  <2>6. QED BY <2>1, <2>2, <2>3, <2>4, <2>5
<1>9. BenchSound'
  <2>1. InspectsOneMoment' BY <1>1 DEF BenchInv, BenchSound, InspectsOneMoment
  <2>2. SessionsAccounted'
    BY <1>3, <1>8, BenchAssumption DEF BenchInv, BenchSound, SessionsAccounted
  <2>3. QED BY <2>1, <2>2 DEF BenchSound
<1>10. QED BY <1>4, <1>5, <1>6, <1>7, <1>8, <1>9 DEF BenchInv

LEMMA BenchStarts == BenchInit => BenchInv
<1> SUFFICES ASSUME BenchInit PROVE BenchInv OBVIOUS
<1>1. Blank \in Records /\ Blank.machine = 0 /\ Blank.turns = 0 BY DEF Blank, Records
<1>2. NewStorage(0) \in Storages /\ NewStorage(0).machine = 0 /\ NewStorage(0).turns = 0
  BY DEF NewStorage, Storages
<1>3. IsFiniteSet(sessions) /\ Cardinality(sessions) = 0 BY FS_EmptySet DEF BenchInit
<1>4. BenchTypes BY <1>1, <1>2, <1>3, Plain DEF BenchInit, BenchTypes
<1>5. \A c \in Requests : request[c].op = "none" BY Plain DEF BenchInit
<1>6. OneAtWork BY <1>5 DEF OneAtWork, Work
<1>7. InStep BY <1>1, <1>2, <1>5 DEF InStep, BenchInit
<1>8. ReadsInOrder BY <1>5 DEF ReadsInOrder
<1>9. Orderly BY DEF Orderly, BenchInit
<1>10. BenchSound
  BY <1>3, <1>5, BenchAssumption
  DEF BenchSound, InspectsOneMoment, SessionsAccounted, BenchInit
<1>11. QED BY <1>4, <1>6, <1>7, <1>8, <1>9, <1>10 DEF BenchInv

LEMMA BenchSteps == BenchInv /\ [BenchNext]_benchVars => BenchInv'
BY PassingSteps, InspectStep, ReadStep, InspectedStep, TakingSteps, LettingGo, RemovedStep,
   InstallSteps, StoresStep, TracedStep, ServerSteps
DEF BenchNext

\* An inspection shows one moment, sessions stay within their limit and none
\* is left at the end, for any sessions, requests and limits.
THEOREM BenchIsSound == BenchSpec => []BenchSound
<1>1. BenchInv => BenchSound BY DEF BenchInv
<1>2. QED BY BenchStarts, BenchSteps, <1>1, PTL DEF BenchSpec

-----------------------------------------------------------------------------
(* The replay.                                                             *)

Effects == [op : Operations, at : Nat]
ScriptedTurns == [at : Nat, input : {"redacted", "open", "given"}, external : Seq(Effects)]
Fixtures == [provenance : {"captured-redacted", "synthetic"}, turns : Seq(ScriptedTurns)]
Stages == {"edit", "between", "turn", "checked", "passed", "failed"}

ReplayTypes ==
  /\ fixture \in Fixtures /\ stage \in Stages
  /\ turn \in 0 .. Len(fixture.turns) /\ calls \in Nat
  /\ active \in BOOLEAN /\ failure \in BOOLEAN
  /\ served \in [1 .. Len(fixture.turns) -> Seq(Operations)]

\* The effects served in turn i are the first n of its script.
InOrder(i, n) ==
  /\ n <= Len(fixture.turns[i].external) /\ Len(served[i]) = n
  /\ \A k \in 1 .. n : served[i][k] = fixture.turns[i].external[k].op
Done(i) == InOrder(i, Len(fixture.turns[i].external))

\* The turns that were checked were served whole, those to come not at all.
Progress ==
  /\ stage = "edit" => turn = 0 /\ active = FALSE
  /\ stage \in {"edit", "between", "turn", "checked", "passed"} =>
       /\ \A i \in 1 .. Len(fixture.turns) : i < turn => Done(i)
       /\ \A i \in 1 .. Len(fixture.turns) : turn < i => served[i] = <<>>
  /\ stage \in {"between", "checked", "passed"} /\ turn > 0 => Done(turn)
  /\ stage \in {"turn", "checked"} => turn > 0
  /\ stage = "turn" /\ ~failure => InOrder(turn, calls)
  /\ stage = "checked" => calls >= Len(fixture.turns[turn].external)
  /\ stage = "between" => active = FALSE
  /\ stage = "passed" => turn = Len(fixture.turns)

\* A refused call is a failure, which no later turn survives: the calls that a
\* replay has refused when a turn is over came after its check.
Refusals ==
  /\ stage = "edit" => refused = {}
  /\ stage = "turn" /\ ~failure => refused = {}
  /\ stage \in {"between", "checked"} /\ ~failure => refused = {}
  /\ stage \in {"between", "checked", "passed"} =>
       \A r \in refused : r[1] = turn /\ r[2] # "turn"

ReplayInv == ReplayTypes /\ Progress /\ Refusals

LEMMA ReplayStarts == ReplayInit => ReplayInv
<1> SUFFICES ASSUME ReplayInit PROVE ReplayInv OBVIOUS
<1>1. PICK h \in Histories : fixture = Draft(h) BY DEF ReplayInit
<1>2. h \in Seq(Nat) /\ DOMAIN h = 1 .. Len(h) /\ Len(h) \in Nat BY ReplayAssumption
<1>3. DOMAIN fixture.turns = 1 .. Len(h) BY <1>1, <1>2 DEF Draft
<1>4. \A i \in 1 .. Len(h) : fixture.turns[i] \in ScriptedTurns
  <2>1. ASSUME NEW i \in 1 .. Len(h) PROVE fixture.turns[i] \in ScriptedTurns
    <3>1. h[i] \in Nat /\ h[1] \in Nat BY <1>2
    <3>2. SinceStart(h)[i] \in Nat BY <1>2, <3>1 DEF SinceStart
    <3>3. fixture.turns[i]
            = [at |-> SinceStart(h)[i], input |-> "redacted", external |-> <<>>]
      BY <1>1, <1>2 DEF Draft
    <3>4. QED BY <3>2, <3>3 DEF ScriptedTurns
  <2>2. QED BY <2>1
<1>5. fixture.turns \in Seq(ScriptedTurns) /\ Len(fixture.turns) = Len(h)
  <2>1. fixture.turns = [i \in 1 .. Len(h) |-> fixture.turns[i]] BY <1>1, <1>2 DEF Draft
  <2>2. fixture.turns \in [1 .. Len(h) -> ScriptedTurns] BY <1>4, <2>1
  <2>3. QED BY <1>2, <2>2
<1>6. fixture \in Fixtures BY <1>1, <1>5 DEF Draft, Fixtures
<1>7. ReplayTypes
  <2>1. served \in [1 .. Len(fixture.turns) -> Seq(Operations)]
    <3>1. served = [i \in 1 .. Len(fixture.turns) |-> <<>>] BY <1>3, <1>5 DEF ReplayInit
    <3>2. <<>> \in Seq(Operations) OBVIOUS
    <3>3. QED BY <3>1, <3>2
  <2>2. turn \in 0 .. Len(fixture.turns) BY <1>2, <1>5 DEF ReplayInit
  <2>3. QED BY <1>6, <2>1, <2>2 DEF ReplayInit, ReplayTypes, Stages
<1>8. Progress /\ Refusals BY <1>3, <1>5 DEF ReplayInit, Progress, Refusals
<1>9. QED BY <1>7, <1>8 DEF ReplayInv

\* Authoring leaves as many turns as there were.
LEMMA GenerateStep == ReplayInv /\ Generate => ReplayInv'
<1> SUFFICES ASSUME ReplayInv, Generate PROVE ReplayInv' OBVIOUS
<1> DEFINE n == Len(fixture.turns)
<1>1. /\ n \in Nat /\ DOMAIN fixture.turns = 1 .. n
      /\ \A i \in 1 .. n : fixture.turns[i] \in ScriptedTurns
  BY DEF ReplayInv, ReplayTypes, Fixtures
<1>2. fixture'.provenance = "synthetic" /\ DOMAIN fixture'.turns = 1 .. n
  BY <1>1 DEF Generate, Template
<1>3. \A i \in 1 .. n : fixture'.turns[i] \in ScriptedTurns
  BY <1>1 DEF Generate, Template, ScriptedTurns
<1>4. fixture'.turns \in Seq(ScriptedTurns) /\ Len(fixture'.turns) = n
  <2>1. fixture'.turns = [i \in 1 .. n |-> fixture'.turns[i]]
    BY <1>1 DEF Generate, Template
  <2>2. fixture'.turns \in [1 .. n -> ScriptedTurns] BY <1>3, <2>1
  <2>3. QED BY <1>1, <2>2
<1>5. fixture' \in Fixtures BY <1>4 DEF Generate, Template, Fixtures
<1>6. UNCHANGED <<stage, turn, calls, active, failure, served, refused>> /\ stage = "edit"
  BY DEF Generate, runVars
<1>7. ReplayTypes' BY <1>4, <1>5, <1>6 DEF ReplayInv, ReplayTypes
<1>8. Progress' BY <1>4, <1>6 DEF ReplayInv, ReplayTypes, Progress
<1>9. Refusals' BY <1>6 DEF ReplayInv, Refusals
<1>10. QED BY <1>7, <1>8, <1>9 DEF ReplayInv

LEMMA FillStep ==
  ASSUME ReplayInv, NEW i \in DOMAIN fixture.turns, Fill(i) PROVE ReplayInv'
<1> DEFINE n == Len(fixture.turns)
<1>1. /\ n \in Nat /\ DOMAIN fixture.turns = 1 .. n
      /\ \A j \in 1 .. n : fixture.turns[j] \in ScriptedTurns
  BY DEF ReplayInv, ReplayTypes, Fixtures
<1>2. PICK script \in Scripts :
        fixture' = [fixture EXCEPT !.turns[i] =
                      [at |-> @.at, input |-> "given", external |-> script]]
  BY DEF Fill
<1>3. script \in Seq(Effects) BY ReplayAssumption DEF Effects
<1> DEFINE t == [at |-> fixture.turns[i].at, input |-> "given", external |-> script]
<1>4. t \in ScriptedTurns BY <1>1, <1>3 DEF ScriptedTurns
<1>5. /\ fixture'.turns = [fixture.turns EXCEPT ![i] = t]
      /\ fixture' = [fixture EXCEPT !.turns = [fixture.turns EXCEPT ![i] = t]]
  BY <1>2 DEF ReplayInv, ReplayTypes, Fixtures
<1> HIDE DEF t
<1>6. fixture'.turns \in Seq(ScriptedTurns) /\ Len(fixture'.turns) = n
  BY <1>1, <1>4, <1>5 DEF ReplayInv, ReplayTypes, Fixtures
<1>7. fixture' \in Fixtures BY <1>5, <1>6 DEF ReplayInv, ReplayTypes, Fixtures
<1>8. UNCHANGED <<stage, turn, calls, active, failure, served, refused>> /\ stage = "edit"
  BY DEF Fill, runVars
<1>9. ReplayTypes' BY <1>6, <1>7, <1>8 DEF ReplayInv, ReplayTypes
<1>10. Progress' BY <1>6, <1>8 DEF ReplayInv, ReplayTypes, Progress
<1>11. Refusals' BY <1>8 DEF ReplayInv, Refusals
<1>12. QED BY <1>9, <1>10, <1>11 DEF ReplayInv

LEMMA BeginStep == ReplayInv /\ BeginTurn => ReplayInv'
<1> SUFFICES ASSUME ReplayInv, BeginTurn PROVE ReplayInv' OBVIOUS
<1>1. /\ stage = "between" /\ turn' = turn + 1 /\ turn < Len(fixture.turns)
      /\ UNCHANGED <<fixture, failure, served, refused>>
      /\ \/ stage' = "failed" /\ UNCHANGED <<calls, active>>
         \/ stage' = "turn" /\ calls' = 0 /\ active' = TRUE
  BY DEF BeginTurn
<1>2. Len(fixture.turns) \in Nat /\ turn \in Nat
      /\ \A i \in 1 .. Len(fixture.turns) : fixture.turns[i] \in ScriptedTurns
  BY DEF ReplayInv, ReplayTypes, Fixtures
<1>3. ReplayTypes'
  <2>1. turn + 1 \in 0 .. Len(fixture.turns) BY <1>1, <1>2
  <2>2. calls' \in Nat BY <1>1 DEF ReplayInv, ReplayTypes
  <2>3. active' \in BOOLEAN BY <1>1, Zenon DEF ReplayInv, ReplayTypes
  <2>4. stage' \in Stages BY <1>1 DEF Stages
  <2>5. QED BY <1>1, <2>1, <2>2, <2>3, <2>4 DEF ReplayInv, ReplayTypes
<1>4. Refusals' BY <1>1 DEF ReplayInv, Refusals
<1>5. Progress'
  <2>1. CASE stage' = "failed" BY <1>1, <2>1 DEF Progress
  <2>2. CASE stage' = "turn" /\ calls' = 0
    <3>1. turn + 1 \in 1 .. Len(fixture.turns) BY <1>1, <1>2
    <3>2. \A i \in 1 .. Len(fixture.turns) : i < turn + 1 => Done(i)
      BY <1>1, <1>2 DEF ReplayInv, Progress
    <3>3. \A i \in 1 .. Len(fixture.turns) : i < turn' => Done(i)'
      BY <1>1, <3>2 DEF Done, InOrder
    <3>4. served[turn + 1] = <<>> BY <1>1, <1>2, <3>1 DEF ReplayInv, Progress
    <3>5. Len(fixture.turns[turn + 1].external) \in Nat BY <1>2, <3>1 DEF ScriptedTurns
    <3>6. InOrder(turn, calls)' BY <1>1, <2>2, <3>4, <3>5 DEF InOrder
    <3>7. \A i \in 1 .. Len(fixture.turns) : turn' < i => served'[i] = <<>>
      BY <1>1, <1>2 DEF ReplayInv, Progress
    <3>8. QED BY <1>1, <1>2, <2>2, <3>3, <3>6, <3>7 DEF Progress
  <2>3. QED BY <1>1, <2>1, <2>2
<1>6. QED BY <1>3, <1>4, <1>5 DEF ReplayInv

\* A call that is served is the next of the turn's script.
LEMMA ServedStep ==
  ASSUME ReplayInv, NEW op \in Operations, Call(op), Matches(op) PROVE ReplayInv'
<1>1. /\ Working /\ calls <= Len(Script) /\ active /\ calls < Len(Script)
      /\ Script[calls + 1].op = op /\ calls' = calls + 1
      /\ served' = [served EXCEPT ![turn] = Append(@, op)]
      /\ UNCHANGED <<fixture, stage, turn, active, failure, refused>>
  BY DEF Call, Matches
<1>2. /\ stage \in {"turn", "checked"} /\ turn > 0
      /\ Script = fixture.turns[turn].external
  <2>1. stage \in {"turn", "checked"}
    BY <1>1 DEF Working, ReplayInv, Progress
  <2>2. turn > 0 BY <2>1 DEF ReplayInv, Progress
  <2>3. QED BY <2>1, <2>2 DEF Script
<1>3. /\ turn \in 1 .. Len(fixture.turns) /\ calls \in Nat
      /\ fixture.turns[turn].external \in Seq(Effects)
      /\ served[turn] \in Seq(Operations)
  <2>1. turn \in 1 .. Len(fixture.turns) /\ calls \in Nat
    BY <1>2 DEF ReplayInv, ReplayTypes, Fixtures
  <2>2. fixture.turns[turn] \in ScriptedTurns
    BY <2>1 DEF ReplayInv, ReplayTypes, Fixtures
  <2>3. QED BY <2>1, <2>2 DEF ReplayInv, ReplayTypes, ScriptedTurns
<1>4. stage = "turn" BY <1>1, <1>2, <1>3 DEF ReplayInv, Progress
<1>5. /\ served' \in [1 .. Len(fixture.turns) -> Seq(Operations)]
      /\ served'[turn] = Append(served[turn], op)
      /\ \A i \in 1 .. Len(fixture.turns) : i # turn => served'[i] = served[i]
  BY <1>1, <1>3 DEF ReplayInv, ReplayTypes
<1>6. ReplayTypes' BY <1>1, <1>3, <1>5 DEF ReplayInv, ReplayTypes
<1>7. Refusals' BY <1>1, <1>4 DEF ReplayInv, Refusals
<1>8. ASSUME failure = FALSE PROVE InOrder(turn, calls)'
  <2>1. InOrder(turn, calls) BY <1>4, <1>8 DEF ReplayInv, Progress
  <2>2. Len(served'[turn]) = calls + 1 /\ served'[turn][calls + 1] = op
        /\ \A k \in 1 .. calls : served'[turn][k] = served[turn][k]
    BY <1>3, <1>5, <2>1 DEF InOrder
  <2>3. QED BY <1>1, <1>2, <1>3, <2>1, <2>2 DEF InOrder
<1>9. \A i \in 1 .. Len(fixture.turns) : i < turn => Done(i)'
  <2>1. \A i \in 1 .. Len(fixture.turns) : i < turn => Done(i) /\ served'[i] = served[i]
    BY <1>3, <1>4, <1>5 DEF ReplayInv, Progress
  <2>2. QED BY <1>1, <2>1 DEF Done, InOrder
<1>10. \A i \in 1 .. Len(fixture.turns) : turn < i => served'[i] = <<>>
  BY <1>3, <1>4, <1>5 DEF ReplayInv, Progress
<1>11. Progress'
  BY <1>1, <1>2, <1>4, <1>8, <1>9, <1>10 DEF ReplayInv, ReplayTypes, Progress
<1>12. QED BY <1>6, <1>7, <1>11 DEF ReplayInv

LEMMA RefusedStep ==
  ASSUME ReplayInv, NEW op \in Operations, Call(op), ~Matches(op) PROVE ReplayInv'
<1>1. /\ Working /\ failure' = TRUE /\ refused' = refused \cup {<<turn, stage>>}
      /\ calls' = IF active THEN calls + 1 ELSE calls
      /\ UNCHANGED <<fixture, stage, turn, active, served>>
  BY DEF Call
<1>2. stage \in {"turn", "between", "checked"} BY <1>1 DEF Working
<1>3. calls \in Nat /\ calls' \in Nat /\ calls' >= calls BY <1>1 DEF ReplayInv, ReplayTypes
<1>4. ReplayTypes' BY <1>1, <1>3 DEF ReplayInv, ReplayTypes
<1>5. Refusals' BY <1>1, <1>2 DEF ReplayInv, Refusals
<1>6. \A i : Done(i)' <=> Done(i) BY <1>1 DEF Done, InOrder
<1>7. stage = "checked" => calls' >= Len(fixture.turns[turn].external)
  <2>1. SUFFICES ASSUME stage = "checked" PROVE calls' >= Len(fixture.turns[turn].external)
    OBVIOUS
  <2>2. turn \in 1 .. Len(fixture.turns) /\ calls >= Len(fixture.turns[turn].external)
    BY <2>1 DEF ReplayInv, ReplayTypes, Fixtures, Progress
  <2>3. Len(fixture.turns[turn].external) \in Nat
    BY <2>2 DEF ReplayInv, ReplayTypes, Fixtures, ScriptedTurns
  <2>4. QED BY <1>3, <2>2, <2>3
<1>8. Progress' BY <1>1, <1>2, <1>6, <1>7 DEF ReplayInv, Progress
<1>9. QED BY <1>4, <1>5, <1>8 DEF ReplayInv

LEMMA AnsweredStep == ReplayInv /\ TurnAnswered => ReplayInv'
<1> SUFFICES ASSUME ReplayInv, TurnAnswered PROVE ReplayInv' OBVIOUS
<1>1. /\ stage = "turn" /\ UNCHANGED <<fixture, turn, calls, active, failure, served, refused>>
      /\ stage' = "failed" \/ (Clean /\ stage' = "checked")
  BY DEF TurnAnswered, runVars
<1>2. ReplayTypes' BY <1>1 DEF ReplayInv, ReplayTypes, Stages
<1>3. \A i : Done(i)' <=> Done(i) BY <1>1 DEF Done, InOrder
<1>4. CASE stage' = "failed" BY <1>1, <1>2, <1>4 DEF ReplayInv, Progress, Refusals
<1>5. CASE Clean /\ stage' = "checked"
  <2>1. turn > 0 /\ turn \in 1 .. Len(fixture.turns)
    BY <1>1 DEF ReplayInv, ReplayTypes, Progress, Fixtures
  <2>2. ~failure /\ calls = Len(fixture.turns[turn].external)
    BY <1>5, <2>1 DEF Clean, Script
  <2>3. Done(turn) BY <1>1, <2>2 DEF ReplayInv, Progress, Done
  <2>4. calls >= Len(fixture.turns[turn].external)
    BY <2>2 DEF ReplayInv, ReplayTypes
  <2>5. Progress' BY <1>1, <1>3, <1>5, <2>1, <2>3, <2>4 DEF ReplayInv, Progress
  <2>6. Refusals' BY <1>1, <1>5, <2>2 DEF ReplayInv, Refusals
  <2>7. QED BY <1>2, <2>5, <2>6 DEF ReplayInv
<1>6. QED BY <1>1, <1>4, <1>5

\* The steps between the turns, and those that touch no turn.
LEMMA OtherReplayStep ==
  ReplayInv /\ (Replay \/ Sleep \/ LeaveBehind \/ Expected \/ ReplayOver) => ReplayInv'
<1> SUFFICES ASSUME ReplayInv, Replay \/ Sleep \/ LeaveBehind \/ Expected \/ ReplayOver
             PROVE  ReplayInv'
  OBVIOUS
<1>1. /\ UNCHANGED <<fixture, turn, calls, failure, served, refused>>
      /\ \/ stage = "edit" /\ stage' \in {"between", "failed"} /\ UNCHANGED active
         \/ UNCHANGED <<stage, active>>
         \/ stage = "checked" /\ stage' = "between" /\ active' = FALSE
         \/ stage = "checked" /\ stage' = "failed" /\ UNCHANGED active
         \/ stage = "between" /\ turn = Len(fixture.turns) /\ stage' \in {"passed", "failed"}
            /\ UNCHANGED active
  BY DEF Replay, Sleep, LeaveBehind, Expected, ReplayOver, runVars
<1>2. \A i : Done(i)' <=> Done(i) BY <1>1 DEF Done, InOrder
<1>3. InOrder(turn, calls)' <=> InOrder(turn, calls) BY <1>1 DEF InOrder
<1>4. ReplayTypes' BY <1>1 DEF ReplayInv, ReplayTypes, Stages
<1>5. Progress' BY <1>1, <1>2, <1>3 DEF ReplayInv, ReplayTypes, Progress
<1>6. Refusals' BY <1>1 DEF ReplayInv, Refusals
<1>7. QED BY <1>4, <1>5, <1>6 DEF ReplayInv

LEMMA ReplayStep == ReplayInv /\ [ReplayNext]_replayVars => ReplayInv'
<1>1. ASSUME ReplayInv, NEW op \in Operations, Call(op) PROVE ReplayInv'
  BY <1>1, ServedStep, RefusedStep
<1>2. ASSUME ReplayInv, UNCHANGED replayVars PROVE ReplayInv'
  BY <1>2 DEF replayVars, ReplayInv, ReplayTypes, Progress, Refusals, Done, InOrder
<1>3. QED
  BY <1>1, <1>2, GenerateStep, FillStep, BeginStep, AnsweredStep, OtherReplayStep
     DEF ReplayNext

LEMMA InvGivesHonest == ReplayInv => ReplayHonest
<1> SUFFICES ASSUME ReplayInv, stage = "passed" PROVE ReplayHonest
  BY DEF ReplayHonest
<1>1. /\ turn = Len(fixture.turns) /\ DOMAIN fixture.turns = 1 .. Len(fixture.turns)
      /\ Len(fixture.turns) \in Nat
  BY DEF ReplayInv, Progress, ReplayTypes, Fixtures
<1>2. \A i \in 1 .. Len(fixture.turns) : Done(i)
  BY <1>1 DEF ReplayInv, Progress
<1>3. ASSUME NEW i \in DOMAIN fixture.turns
      PROVE  served[i] = [k \in DOMAIN fixture.turns[i].external |->
                            fixture.turns[i].external[k].op]
  <2>1. /\ served[i] \in Seq(Operations) /\ fixture.turns[i].external \in Seq(Effects)
    <3>1. fixture.turns[i] \in ScriptedTurns
      BY <1>1 DEF ReplayInv, ReplayTypes, Fixtures
    <3>2. QED BY <1>1, <3>1 DEF ReplayInv, ReplayTypes, ScriptedTurns
  <2>2. /\ Len(served[i]) = Len(fixture.turns[i].external)
        /\ \A k \in 1 .. Len(served[i]) : served[i][k] = fixture.turns[i].external[k].op
    BY <1>1, <1>2 DEF Done, InOrder
  <2>3. /\ DOMAIN served[i] = DOMAIN fixture.turns[i].external
        /\ served[i] = [k \in DOMAIN served[i] |-> served[i][k]]
        /\ DOMAIN served[i] = 1 .. Len(served[i])
    BY <2>1, <2>2
  <2>4. QED BY <2>2, <2>3
<1>4. \A r \in refused : r[1] = Len(fixture.turns) /\ r[2] # "turn"
  BY <1>1 DEF ReplayInv, Refusals
<1>5. QED BY <1>3, <1>4 DEF ReplayHonest

\* A replay that passes has had every scripted effect called, in its turn and
\* in its order, whatever handlers do with the errors of refused calls, and no
\* call was refused before the last turn was checked.
THEOREM ReplaysAreHonest == ReplaySpec => []ReplayHonest
<1>1. ReplaySpec => []ReplayInv BY ReplayStarts, ReplayStep, PTL DEF ReplaySpec
<1>2. QED BY <1>1, InvGivesHonest, PTL
=============================================================================
