---------------------------- MODULE ServiceProofs -----------------------------
(***************************************************************************)
(* Theorems about Service: what its rate limiters let through, how its     *)
(* circuit breaker recovers and when its shutdown closes the storage, for  *)
(* any set of requests and any limits and times.                           *)
(***************************************************************************)
EXTENDS Service, FiniteSetTheorems, TLAPS

-----------------------------------------------------------------------------
(* Sums of counts.                                                         *)

LEMMA CountedIn ==
  ASSUME NEW f \in [Ages -> Nat], NEW w \in SUBSET Ages
  PROVE  \A p : p \in Counted(f, w) <=> \E a \in w, i \in Nat : i \in 1..f[a] /\ p = <<a, i>>
BY DEF Counted

LEMMA CountedFinite ==
  ASSUME NEW f \in [Ages -> Nat], NEW w \in SUBSET Ages
  PROVE  IsFiniteSet(Counted(f, w)) /\ Total(f, w) \in Nat
<1> DEFINE column == [a \in w |-> {a} \X (1..f[a])]
           columns == {column[a] : a \in w}
<1>1. IsFiniteSet(w)
  <2>1. IsFiniteSet(Ages) BY FS_Interval, WindowAssumption DEF Ages
  <2>2. QED BY <2>1, FS_Subset
<1>2. column \in Surjection(w, columns) BY DEF Surjection
<1>3. IsFiniteSet(columns) BY <1>1, <1>2, FS_Surjection
<1>4. ASSUME NEW a \in w PROVE IsFiniteSet(column[a])
  <2>1. f[a] \in Int BY DEF Ages
  <2>2. IsFiniteSet(1..f[a]) BY <2>1, FS_Interval
  <2>3. IsFiniteSet({a}) BY FS_Singleton
  <2>4. IsFiniteSet({a} \X (1..f[a])) BY <2>2, <2>3, FS_Product
  <2>5. QED BY <2>4
<1>5. IsFiniteSet(UNION columns) BY <1>3, <1>4, FS_UNION
<1>6. Counted(f, w) = UNION columns BY DEF Counted
<1>7. QED BY <1>5, <1>6, FS_CardinalityType DEF Total

\* More ages and larger counts make a larger total.
LEMMA TotalMonotone ==
  ASSUME NEW f \in [Ages -> Nat], NEW g \in [Ages -> Nat],
         NEW w \in SUBSET Ages, NEW v \in SUBSET w, \A a \in v : f[a] <= g[a]
  PROVE  Total(f, v) <= Total(g, w)
<1>1. Counted(f, v) \subseteq Counted(g, w)
  <2> SUFFICES ASSUME NEW p \in Counted(f, v) PROVE p \in Counted(g, w)
    OBVIOUS
  <2>1. v \in SUBSET Ages OBVIOUS
  <2>2. PICK a \in v, i \in Nat : i \in 1..f[a] /\ p = <<a, i>> BY <2>1, CountedIn
  <2>3. f[a] \in Nat /\ g[a] \in Nat /\ f[a] <= g[a] /\ a \in w OBVIOUS
  <2>4. i \in 1..g[a] BY <2>2, <2>3
  <2>5. QED BY <2>2, <2>3, <2>4, CountedIn
<1>2. QED BY <1>1, CountedFinite, FS_Subset DEF Total

\* One more at one age.
LEMMA TotalMore ==
  ASSUME NEW f \in [Ages -> Nat], NEW w \in SUBSET Ages, NEW a \in Ages
  PROVE  /\ More(f, a) \in [Ages -> Nat]
         /\ More(f, a)[a] = f[a] + 1
         /\ \A b \in Ages : b /= a => More(f, a)[b] = f[b]
         /\ Total(More(f, a), w) = IF a \in w THEN Total(f, w) + 1 ELSE Total(f, w)
<1> DEFINE g == More(f, a)
           p == <<a, f[a] + 1>>
<1>1. g \in [Ages -> Nat] /\ g[a] = f[a] + 1 /\ \A b \in Ages : b /= a => g[b] = f[b]
  BY DEF More
<1> HIDE DEF g
<1>2. CASE a \in w
  <2>1. Counted(g, w) = Counted(f, w) \cup {p}
    <3>1. ASSUME NEW q \in Counted(g, w) PROVE q \in Counted(f, w) \cup {p}
      <4>1. PICK b \in w, i \in Nat : i \in 1..g[b] /\ q = <<b, i>> BY <1>1, CountedIn
      <4>2. CASE b = a /\ i = f[a] + 1 BY <4>1, <4>2
      <4>3. CASE ~(b = a /\ i = f[a] + 1)
        <5>1. b \in Ages /\ f[b] \in Nat OBVIOUS
        <5>2. i \in 1..f[b] BY <1>1, <4>1, <4>3, <5>1
        <5>3. QED BY <4>1, <5>2, CountedIn
      <4>4. QED BY <4>2, <4>3
    <3>2. ASSUME NEW q \in Counted(f, w) PROVE q \in Counted(g, w)
      <4>1. PICK b \in w, i \in Nat : i \in 1..f[b] /\ q = <<b, i>> BY CountedIn
      <4>2. b \in Ages /\ f[b] \in Nat OBVIOUS
      <4>3. i \in 1..g[b] BY <1>1, <4>1, <4>2
      <4>4. QED BY <1>1, <4>1, <4>3, CountedIn
    <3>3. p \in Counted(g, w)
      <4>1. f[a] + 1 \in 1..g[a] BY <1>1
      <4>2. QED BY <1>1, <1>2, <4>1, CountedIn
    <3>4. QED BY <3>1, <3>2, <3>3
  <2>2. p \notin Counted(f, w)
    <3> SUFFICES ASSUME NEW b \in w, NEW i \in 1..f[b], p = <<b, i>> PROVE FALSE
      BY CountedIn
    <3>1. b = a /\ i = f[a] + 1 /\ f[a] \in Nat OBVIOUS
    <3>2. QED BY <3>1
  <2>3. Total(g, w) = Total(f, w) + 1 BY <2>1, <2>2, CountedFinite, FS_AddElement DEF Total
  <2>4. QED BY <1>1, <1>2, <2>3 DEF g
<1>3. CASE a \notin w
  <2>1. ASSUME NEW q PROVE q \in Counted(g, w) <=> q \in Counted(f, w)
    <3>1. \A b \in w : g[b] = f[b] BY <1>1, <1>3
    <3>2. QED BY <1>1, <3>1, CountedIn
  <2>2. Counted(g, w) = Counted(f, w) BY <2>1
  <2>3. QED BY <1>1, <1>3, <2>2 DEF Total, g
<1>4. QED BY <1>2, <1>3

LEMMA OlderType ==
  ASSUME NEW f \in [Ages -> Nat]
  PROVE  /\ Older(f) \in [Ages -> Nat]
         /\ Older(f)[0] = 0 /\ 0 \in Ages
         /\ \A a \in Ages : a /= 0 => a - 1 \in Ages /\ Older(f)[a] = f[a - 1]
BY WindowAssumption DEF Older, Ages

\* What is counted after a tick was counted before it, one tick younger.
LEMMA TotalOlder ==
  ASSUME NEW f \in [Ages -> Nat], NEW v \in SUBSET Ages, NEW w \in SUBSET Ages,
         \A a \in w : a = 0 \/ a - 1 \in v
  PROVE  Total(Older(f), w) <= Total(f, v)
<1> DEFINE g == Older(f)
           shift == [p \in Counted(g, w) |-> <<p[1] - 1, p[2]>>]
<1>1. g \in [Ages -> Nat] /\ g[0] = 0 /\ \A a \in Ages : a /= 0 => g[a] = f[a - 1]
  BY OlderType
<1> HIDE DEF g
<1>2. ASSUME NEW p \in Counted(g, w)
      PROVE  /\ p[1] \in Int /\ p = <<p[1], p[2]>> /\ <<p[1] - 1, p[2]>> \in Counted(f, v)
  <2>1. PICK a \in w, i \in Nat : i \in 1..g[a] /\ p = <<a, i>> BY <1>1, CountedIn
  <2>2. a /= 0 BY <1>1, <2>1
  <2>3. a - 1 \in v /\ g[a] = f[a - 1] BY <1>1, <2>2
  <2>4. <<a - 1, i>> \in Counted(f, v) BY <2>1, <2>3, CountedIn
  <2>5. QED BY <2>1, <2>4 DEF Ages
<1>3. shift \in [Counted(g, w) -> Counted(f, v)] BY <1>2
<1>4. ASSUME NEW p \in Counted(g, w), NEW q \in Counted(g, w), shift[p] = shift[q]
      PROVE  p = q
  <2>1. p[1] - 1 = q[1] - 1 /\ p[2] = q[2] BY <1>4
  <2>2. p[1] \in Int /\ q[1] \in Int BY <1>2
  <2>3. p[1] = q[1] BY <2>1, <2>2
  <2>4. p = <<p[1], p[2]>> /\ q = <<q[1], q[2]>> BY <1>2
  <2>5. QED BY <2>1, <2>3, <2>4
<1>5. shift \in Injection(Counted(g, w), Counted(f, v))
  BY <1>3, <1>4 DEF Injection, IsInjective
<1>6. QED BY <1>5, CountedFinite, FS_Injection DEF Total, g

\* What was counted before a tick is counted after it, one tick older.
LEMMA TotalYounger ==
  ASSUME NEW f \in [Ages -> Nat], NEW v \in SUBSET Ages, NEW w \in SUBSET Ages,
         \A a \in v : a + 1 \in w
  PROVE  Total(f, v) <= Total(Older(f), w)
<1> DEFINE g == Older(f)
           shift == [p \in Counted(f, v) |-> <<p[1] + 1, p[2]>>]
<1>1. g \in [Ages -> Nat] /\ \A a \in Ages : a /= 0 => g[a] = f[a - 1]
  BY OlderType
<1> HIDE DEF g
<1>2. ASSUME NEW p \in Counted(f, v)
      PROVE  /\ p[1] \in Int /\ p = <<p[1], p[2]>> /\ <<p[1] + 1, p[2]>> \in Counted(g, w)
  <2>1. PICK a \in v, i \in Nat : i \in 1..f[a] /\ p = <<a, i>> BY CountedIn
  <2>2. a + 1 \in w /\ a + 1 \in Ages /\ a + 1 /= 0 /\ (a + 1) - 1 = a BY DEF Ages
  <2>3. g[a + 1] = f[a] BY <1>1, <2>2
  <2>4. <<a + 1, i>> \in Counted(g, w) BY <1>1, <2>1, <2>2, <2>3, CountedIn
  <2>5. QED BY <2>1, <2>4 DEF Ages
<1>3. shift \in [Counted(f, v) -> Counted(g, w)] BY <1>2
<1>4. ASSUME NEW p \in Counted(f, v), NEW q \in Counted(f, v), shift[p] = shift[q]
      PROVE  p = q
  <2>1. p[1] + 1 = q[1] + 1 /\ p[2] = q[2] BY <1>4
  <2>2. p[1] \in Int /\ q[1] \in Int BY <1>2
  <2>3. p[1] = q[1] BY <2>1, <2>2
  <2>4. p = <<p[1], p[2]>> /\ q = <<q[1], q[2]>> BY <1>2
  <2>5. QED BY <2>1, <2>3, <2>4
<1>5. shift \in Injection(Counted(f, v), Counted(g, w))
  BY <1>3, <1>4 DEF Injection, IsInjective
<1>6. QED BY <1>1, <1>5, CountedFinite, FS_Injection DEF Total, g

LEMMA TotalSplit ==
  ASSUME NEW f \in [Ages -> Nat], NEW v \in SUBSET Ages, NEW w \in SUBSET Ages
  PROVE  Total(f, v \cup w) <= Total(f, v) + Total(f, w)
<1>1. Counted(f, v \cup w) = Counted(f, v) \cup Counted(f, w) BY DEF Counted
<1>2. IsFiniteSet(Counted(f, v) \cap Counted(f, w)) BY CountedFinite, FS_Intersection
<1>3. Cardinality(Counted(f, v) \cap Counted(f, w)) \in Nat BY <1>2, FS_CardinalityType
<1>4. Total(f, v \cup w) =
        Total(f, v) + Total(f, w) - Cardinality(Counted(f, v) \cap Counted(f, w))
  BY <1>1, CountedFinite, FS_Union DEF Total
<1>5. QED BY <1>3, <1>4, CountedFinite

LEMMA TotalOne ==
  ASSUME NEW f \in [Ages -> Nat], NEW w \in SUBSET Ages, NEW a \in w
  PROVE  f[a] <= Total(f, w)
<1> DEFINE pair == [i \in 1..f[a] |-> <<a, i>>]
<1>1. f[a] \in Nat OBVIOUS
<1>2. pair \in Injection(1..f[a], Counted(f, w))
  BY CountedIn DEF Injection, IsInjective
<1>3. Cardinality(1..f[a]) = f[a] BY <1>1, FS_Interval
<1>4. QED BY <1>2, <1>3, CountedFinite, FS_Injection DEF Total

LEMMA TotalNothing ==
  ASSUME NEW w \in SUBSET Ages
  PROVE  Nothing \in [Ages -> Nat] /\ Total(Nothing, w) = 0
<1>1. Nothing \in [Ages -> Nat] /\ \A a \in Ages : Nothing[a] = 0 BY DEF Nothing
<1>2. Counted(Nothing, w) = {} BY <1>1, CountedIn
<1>3. QED BY <1>1, <1>2, FS_EmptySet DEF Total
-----------------------------------------------------------------------------
(* The rate limiters.                                                      *)

LimitTypes ==
  /\ kind \in Kinds
  /\ counts \in [Ages -> 0..MaxRequests] /\ hits \in [Ages -> Nat]
  /\ offset \in 0..(SubWindowMs - 1)

\* A sub-window's count is of requests at most a sub-window younger.
SlidingInv ==
  kind = "sliding" =>
    \A x \in 0..(WindowMs - SubWindowMs + 1) :
      Total(hits, 0..x) <= Total(counts, 0..(x + SubWindowMs - 1))

\* The one window that is open has counted the requests since its start, and
\* those before it were counted by the last one.
Opened == {a \in Ages : counts[a] > 0}
FixedInv ==
  kind = "fixed" =>
    /\ Opened = {} => hits[0] = 0 /\ Total(hits, Ages) <= MaxRequests
    /\ \A a \in Opened :
         /\ Opened = {a}
         /\ Total(hits, 0..a) <= counts[a]
         /\ Total(hits, (a + 1)..WindowMs) <= MaxRequests

\* The sorted set has every request let through, at its own time.
DistributedInv ==
  kind = "distributed" => \A a \in 0..(WindowMs - 1) : hits[a] <= counts[a]

LimitInv == LimitTypes /\ SlidingInv /\ FixedInv /\ DistributedInv /\ Limited

LEMMA Bounds ==
  /\ WindowMs \in Nat /\ WindowMs >= 1 /\ MaxRequests \in Nat /\ MaxRequests >= 1
  /\ SubWindowMs \in 1..WindowMs /\ 0 \in Ages /\ WindowMs \in Ages
BY WindowAssumption DEF Ages

LEMMA LimitKinds ==
  ASSUME LimitTypes
  PROVE  /\ kind \in {"sliding", "fixed", "distributed"}
         /\ counts \in [Ages -> Nat]
         /\ \A a \in Ages : counts[a] \in Nat /\ counts[a] <= MaxRequests /\ hits[a] \in Nat
BY WindowAssumption DEF LimitTypes

\* A count beyond the limit is kept at it; any other as it is.
LEMMA SatedIs ==
  ASSUME NEW f \in [Ages -> Nat]
  PROVE  /\ Sated(f) \in [Ages -> 0..MaxRequests]
         /\ \A a \in Ages : /\ f[a] <= MaxRequests => Sated(f)[a] = f[a]
                            /\ f[a] > MaxRequests => Sated(f)[a] = MaxRequests
         /\ (\A a \in Ages : f[a] <= MaxRequests) => Sated(f) = f
BY Bounds DEF Sated

LEMMA SlidingStep ==
  ASSUME LimitInv, kind = "sliding", Allow \/ Deny
  PROVE  LimitInv'
<1>1. Check = Sliding BY LimitKinds DEF Check, LimitInv
<1>2. {a \in Ages : InWindow(a)} = Ages BY Bounds DEF InWindow, Ages
<1>3. /\ LimitTypes /\ counts \in [Ages -> Nat] /\ hits \in [Ages -> Nat]
      /\ offset \in Ages /\ \A a \in Ages : counts[a] \in Nat /\ counts[a] <= MaxRequests
  BY LimitKinds, Bounds DEF LimitInv, LimitTypes, Ages
<1>4. CASE Deny
  <2>1. counts' = counts BY <1>1, <1>2, <1>3, <1>4, SatedIs DEF Deny, Sliding
  <2>2. QED
    BY <1>4, <2>1 DEF Deny, LimitInv, LimitTypes, SlidingInv, FixedInv, DistributedInv, Opened,
                      Limited, Memory
<1>5. CASE Allow
  <2>1. Total(counts, Ages) < MaxRequests /\ counts' = Sated(More(counts, offset))
    BY <1>1, <1>2, <1>5 DEF Allow, Sliding
  <2>2. \A a \in Ages : counts[a] + 1 <= MaxRequests
    BY <1>3, <2>1, TotalOne, CountedFinite, Bounds
  <2>3. counts' = More(counts, offset)
    <3>1. More(counts, offset) \in [Ages -> Nat] BY <1>3, TotalMore
    <3>2. \A a \in Ages : More(counts, offset)[a] <= MaxRequests BY <1>3, <2>2, TotalMore
    <3>3. QED BY <2>1, <3>1, <3>2, SatedIs
  <2>4. hits' = More(hits, 0) /\ UNCHANGED <<kind, offset>> BY <1>5 DEF Allow
  <2>5. LimitTypes'
    <3>1. counts' \in [Ages -> 0..MaxRequests]
      BY <1>3, <2>1, TotalMore, SatedIs
    <3>2. hits' \in [Ages -> Nat] BY <1>3, <2>4, TotalMore, Bounds
    <3>3. QED BY <1>3, <2>4, <3>1, <3>2 DEF LimitTypes
  <2>6. ASSUME NEW x \in 0..(WindowMs - SubWindowMs + 1)
        PROVE  /\ Total(hits', 0..x) = Total(hits, 0..x) + 1
               /\ Total(hits', 0..x) <= Total(counts', 0..(x + SubWindowMs - 1))
    <3>1. 0..x \in SUBSET Ages /\ 0 \in 0..x BY Bounds DEF Ages
    <3>2. 0..(x + SubWindowMs - 1) \in SUBSET Ages /\ offset \in 0..(x + SubWindowMs - 1)
      BY <1>3, Bounds DEF Ages, LimitTypes
    <3>3. Total(hits', 0..x) = Total(hits, 0..x) + 1 BY <1>3, <2>4, <3>1, Bounds, TotalMore
    <3>4. Total(counts', 0..(x + SubWindowMs - 1)) = Total(counts, 0..(x + SubWindowMs - 1)) + 1
      <4> DEFINE w == 0..(x + SubWindowMs - 1)
      <4>1. w \in SUBSET Ages /\ offset \in w BY <3>2
      <4> HIDE DEF w
      <4>2. Total(More(counts, offset), w) = Total(counts, w) + 1
        BY <1>3, <4>1, TotalMore
      <4>3. QED BY <2>3, <4>2 DEF w
    <3>5. Total(hits, 0..x) <= Total(counts, 0..(x + SubWindowMs - 1))
      BY DEF LimitInv, SlidingInv
    <3>6. Total(hits, 0..x) \in Nat /\ Total(counts, 0..(x + SubWindowMs - 1)) \in Nat
      BY <1>3, <3>1, <3>2, CountedFinite
    <3>7. QED BY <3>3, <3>4, <3>5, <3>6
  <2>7. Limited'
    <3> DEFINE x == WindowMs - SubWindowMs + 1
    <3>1. x \in 0..(WindowMs - SubWindowMs + 1) /\ x + SubWindowMs - 1 = WindowMs BY Bounds
    <3>2. Total(hits, 0..x) <= Total(counts, Ages)
      BY <3>1 DEF LimitInv, SlidingInv, Ages
    <3>3. 0..x \in SUBSET Ages BY Bounds DEF Ages
    <3>4. Total(hits, 0..x) \in Nat /\ Total(counts, Ages) \in Nat BY <1>3, <3>3, CountedFinite
    <3>5. Total(hits', 0..x) <= MaxRequests BY <2>1, <2>6, <3>1, <3>2, <3>4, Bounds
    <3>6. QED BY <2>4, <3>5 DEF Limited, Memory
  <2>8. QED
    BY <2>4, <2>5, <2>6, <2>7 DEF LimitInv, SlidingInv, FixedInv, DistributedInv
<1>6. QED BY <1>4, <1>5

LEMMA FixedLimited == LimitTypes /\ FixedInv /\ kind = "fixed" => Limited
<1> SUFFICES ASSUME LimitTypes, FixedInv, kind = "fixed" PROVE Limited
  OBVIOUS
<1>1. hits \in [Ages -> Nat] /\ Ages = 0..WindowMs BY DEF LimitTypes, Ages
<1>2. CASE Opened = {}
  BY <1>1, <1>2, Bounds, CountedFinite DEF FixedInv, Limited, Memory
<1>3. ASSUME NEW a \in Opened PROVE Limited
  <2>1. a \in Ages /\ counts[a] <= MaxRequests /\ counts[a] \in Nat BY LimitKinds DEF Opened
  <2>2. /\ 0..a \in SUBSET Ages /\ (a + 1)..WindowMs \in SUBSET Ages
        /\ 0..WindowMs = 0..a \cup (a + 1)..WindowMs
    BY <2>1, Bounds DEF Ages
  <2>3. Total(hits, 0..a) <= counts[a] /\ Total(hits, (a + 1)..WindowMs) <= MaxRequests
    BY DEF FixedInv
  <2>4. Total(hits, 0..WindowMs) <= Total(hits, 0..a) + Total(hits, (a + 1)..WindowMs)
    BY <1>1, <2>2, TotalSplit
  <2>5. /\ Total(hits, 0..a) \in Nat /\ Total(hits, (a + 1)..WindowMs) \in Nat
        /\ Total(hits, 0..WindowMs) \in Nat
    BY <1>1, <2>2, CountedFinite
  <2>6. Total(hits, 0..WindowMs) <= 2 * MaxRequests BY <2>1, <2>3, <2>4, <2>5, Bounds
  <2>7. QED BY <2>6 DEF Limited, Memory
<1>4. QED BY <1>2, <1>3

LEMMA FixedStep ==
  ASSUME LimitInv, kind = "fixed", Allow \/ Deny
  PROVE  LimitInv'
<1>1. Check = Fixed BY LimitKinds DEF Check, LimitInv
<1>2. /\ LimitTypes /\ counts \in [Ages -> Nat] /\ hits \in [Ages -> Nat]
      /\ \A a \in Ages : counts[a] \in Nat /\ counts[a] <= MaxRequests
  BY LimitKinds DEF LimitInv, LimitTypes
<1>3. PICK start \in Ages :
        /\ (Opened = {} /\ start = 0) \/ Opened = {start}
        /\ Fixed = [allowed |-> counts[start] + 1 <= MaxRequests, counts |-> More(counts, start)]
  <2>1. CASE Opened = {} BY <2>1, Bounds DEF Fixed, Opened
  <2>2. ASSUME NEW a \in Opened
        PROVE  Fixed = [allowed |-> counts[a] + 1 <= MaxRequests, counts |-> More(counts, a)]
               /\ Opened = {a} /\ a \in Ages
    <3>1. Opened = {a} BY DEF LimitInv, FixedInv
    <3>2. (CHOOSE b \in Opened : TRUE) = a BY <3>1
    <3>3. QED BY <3>1, <3>2 DEF Fixed, Opened
  <2>3. QED BY <2>1, <2>2
<1>4. More(counts, start) \in [Ages -> Nat] /\ More(counts, start)[start] = counts[start] + 1
      /\ \A a \in Ages : a /= start => More(counts, start)[a] = counts[a]
  BY <1>2, <1>3, TotalMore
<1>5. CASE Deny
  <2>1. counts[start] + 1 > MaxRequests /\ counts' = Sated(More(counts, start))
    <3>1. ~Check.allowed /\ counts' = Sated(Check.counts) BY <1>5 DEF Deny
    <3>2. ~(counts[start] + 1 <= MaxRequests) BY <1>1, <1>3, <3>1
    <3>3. QED BY <1>1, <1>2, <1>3, <3>1, <3>2, Bounds
  <2>2. counts[start] = MaxRequests BY <1>2, <1>3, <2>1, Bounds
  <2>3. \A a \in Ages : Sated(More(counts, start))[a] = counts[a]
    BY <1>2, <1>3, <1>4, <2>2, SatedIs, Bounds
  <2>4. Sated(More(counts, start)) \in [Ages -> 0..MaxRequests] BY <1>4, SatedIs
  <2>5. counts' = counts BY <1>2, <2>1, <2>3, <2>4
  <2>6. QED
    BY <1>5, <2>5 DEF Deny, LimitInv, LimitTypes, SlidingInv, FixedInv, DistributedInv, Opened,
                      Limited, Memory
<1>6. CASE Allow
  <2>1. /\ counts[start] + 1 <= MaxRequests /\ counts' = Sated(More(counts, start))
        /\ hits' = More(hits, 0) /\ UNCHANGED <<kind, offset>>
    BY <1>1, <1>3, <1>6 DEF Allow
  <2>2. counts' = More(counts, start)
    <3>1. \A a \in Ages : More(counts, start)[a] <= MaxRequests BY <1>2, <1>4, <2>1
    <3>2. QED BY <1>4, <2>1, <3>1, SatedIs
  <2>3. hits' \in [Ages -> Nat] /\ hits'[0] = hits[0] + 1 BY <1>2, <2>1, TotalMore, Bounds
  <2>4. LimitTypes'
    BY <1>2, <1>4, <2>1, <2>3, SatedIs DEF LimitTypes
  <2>5. Opened' = {start}
    BY <1>2, <1>3, <1>4, <2>2 DEF Opened
  <2>6. /\ 0..start \in SUBSET Ages /\ 0 \in 0..start
        /\ (start + 1)..WindowMs \in SUBSET Ages /\ 0 \notin (start + 1)..WindowMs
    BY <1>3, Bounds DEF Ages
  <2>7. /\ Total(hits', 0..start) = Total(hits, 0..start) + 1
        /\ Total(hits', (start + 1)..WindowMs) = Total(hits, (start + 1)..WindowMs)
        /\ Total(hits, 0..start) \in Nat /\ Total(hits, (start + 1)..WindowMs) \in Nat
    <3> DEFINE v == 0..start
               w == (start + 1)..WindowMs
    <3>1. v \in SUBSET Ages /\ 0 \in v /\ w \in SUBSET Ages /\ 0 \notin w BY <2>6
    <3> HIDE DEF v, w
    <3>2. Total(hits', v) = Total(hits, v) + 1 /\ Total(hits', w) = Total(hits, w)
      BY <1>2, <2>1, <3>1, TotalMore, Bounds
    <3>3. Total(hits, v) \in Nat /\ Total(hits, w) \in Nat BY <1>2, <3>1, CountedFinite
    <3>4. QED BY <3>2, <3>3 DEF v, w
  <2>8. /\ Total(hits, 0..start) <= counts[start]
        /\ Total(hits, (start + 1)..WindowMs) <= MaxRequests
    <3>1. CASE Opened = {start} BY <3>1 DEF LimitInv, FixedInv
    <3>2. CASE Opened = {} /\ start = 0
      <4>1. hits[0] = 0 /\ Total(hits, Ages) <= MaxRequests BY <3>2 DEF LimitInv, FixedInv
      <4>2. Total(hits, 0..start) <= Total(Nothing, 0..start)
        <5>1. \A a \in 0..start : a = 0 BY <3>2
        <5>2. \A a \in 0..start : hits[a] <= Nothing[a]
          BY <4>1, <5>1, <2>6 DEF Nothing
        <5>3. Nothing \in [Ages -> Nat] BY DEF Nothing
        <5>4. QED BY <1>2, <2>6, <5>2, <5>3, TotalMonotone
      <4>3. Total(Nothing, 0..start) = 0 BY <2>6, TotalNothing
      <4>4. Total(hits, (start + 1)..WindowMs) <= Total(hits, Ages)
        <5>1. \A a \in (start + 1)..WindowMs : hits[a] <= hits[a] BY <1>2, <2>6
        <5>2. Ages \in SUBSET Ages OBVIOUS
        <5>3. QED BY <1>2, <2>6, <5>1, <5>2, TotalMonotone
      <4>5. Total(hits, Ages) \in Nat BY <1>2, CountedFinite
      <4>6. QED BY <1>2, <1>3, <2>7, <4>1, <4>2, <4>3, <4>4, <4>5, Bounds
    <3>3. QED BY <1>3, <3>1, <3>2
  <2>9. FixedInv'
    <3>1. counts'[start] = counts[start] + 1 BY <1>4, <2>2
    <3>2. /\ Total(hits', 0..start) <= counts'[start]
          /\ Total(hits', (start + 1)..WindowMs) <= MaxRequests
      BY <1>2, <1>3, <2>7, <2>8, <3>1
    <3>3. QED BY <2>5, <3>2 DEF FixedInv
  <2>10. Limited'
    <3>1. (kind = "fixed")' BY <2>1
    <3>2. QED BY <2>4, <2>9, <3>1, FixedLimited, PTL
  <2>11. QED BY <2>1, <2>4, <2>9, <2>10 DEF LimitInv, SlidingInv, DistributedInv
<1>7. QED BY <1>5, <1>6

\* What the sorted set keeps, and adds.
Kept == More([a \in Ages |-> IF a < WindowMs THEN counts[a] ELSE 0], 0)

LEMMA KeptIs ==
  ASSUME LimitTypes
  PROVE  /\ Distributed = [allowed |-> Total(Kept, Ages) <= MaxRequests, counts |-> Kept]
         /\ Kept \in [Ages -> Nat]
         /\ \A a \in 0..(WindowMs - 1) :
              /\ Kept[a] = IF a = 0 THEN counts[a] + 1 ELSE counts[a]
              /\ Sated(Kept)[a] >= counts[a]
         /\ Sated(Kept) \in [Ages -> 0..MaxRequests]
         /\ \A a \in Ages : Sated(Kept)[a] <= Kept[a]
<1> DEFINE kept == [a \in Ages |-> IF a < WindowMs THEN counts[a] ELSE 0]
<1>1. kept \in [Ages -> Nat] BY LimitKinds
<1>2. Kept \in [Ages -> Nat] /\ Kept[0] = kept[0] + 1 /\ \A a \in Ages : a /= 0 => Kept[a] = kept[a]
  BY <1>1, TotalMore, Bounds DEF Kept
<1>3. \A a \in 0..(WindowMs - 1) : a \in Ages /\ kept[a] = counts[a]
  BY Bounds DEF Ages
<1>4. Distributed = [allowed |-> Total(Kept, Ages) <= MaxRequests, counts |-> Kept]
  BY DEF Distributed, Kept
<1> HIDE DEF kept
<1>5. \A a \in Ages : Kept[a] \in Nat BY <1>2
<1>6. \A a \in 0..(WindowMs - 1) :
        Kept[a] = (IF a = 0 THEN counts[a] + 1 ELSE counts[a]) /\ Sated(Kept)[a] >= counts[a]
  BY <1>2, <1>3, <1>5, LimitKinds, SatedIs, Bounds
<1>7. \A a \in Ages : Sated(Kept)[a] <= Kept[a] BY <1>2, <1>5, SatedIs, Bounds
<1>8. QED BY <1>2, <1>4, <1>6, <1>7, SatedIs

LEMMA DistributedStep ==
  ASSUME LimitInv, kind = "distributed", Allow \/ Deny \/ FailOpen
  PROVE  LimitInv'
<1>1. Check = Distributed BY LimitKinds DEF Check, LimitInv
<1>2. /\ LimitTypes /\ counts \in [Ages -> 0..MaxRequests] /\ hits \in [Ages -> Nat]
      /\ \A a \in Ages : counts[a] \in Nat /\ hits[a] \in Nat
      /\ \A a \in 0..(WindowMs - 1) : a \in Ages /\ hits[a] <= counts[a]
  BY LimitKinds, Bounds DEF LimitInv, LimitTypes, DistributedInv, Ages
<1>3. CASE Deny \/ FailOpen
  <2>1. counts' \in {counts, Sated(Kept)} /\ UNCHANGED <<kind, offset, hits>>
    BY <1>1, <1>2, <1>3, KeptIs DEF Deny, FailOpen
  <2>2. LimitTypes' BY <1>2, <2>1, KeptIs DEF LimitTypes
  <2>3. \A a \in 0..(WindowMs - 1) : hits[a] <= counts'[a]
    <3>1. \A a \in 0..(WindowMs - 1) :
            counts'[a] \in Nat /\ counts'[a] >= counts[a]
      BY <1>2, <2>1, KeptIs, Bounds
    <3>2. QED BY <1>2, <3>1
  <2>4. Limited' BY <2>1 DEF LimitInv, Limited, Memory
  <2>5. QED
    BY <2>1, <2>2, <2>3, <2>4 DEF LimitInv, SlidingInv, FixedInv, DistributedInv
<1>4. CASE Allow
  <2>1. /\ Total(Kept, Ages) <= MaxRequests /\ counts' = Sated(Kept)
        /\ hits' = More(hits, 0) /\ UNCHANGED <<kind, offset>>
    <3>1. Check.allowed /\ counts' = Sated(Check.counts) BY <1>4 DEF Allow
    <3>2. Check = [allowed |-> Total(Kept, Ages) <= MaxRequests, counts |-> Kept]
      BY <1>1, <1>2, KeptIs
    <3>3. Total(Kept, Ages) <= MaxRequests /\ counts' = Sated(Kept) BY <3>1, <3>2
    <3>4. QED BY <1>4, <3>3 DEF Allow
  <2>2. /\ hits' \in [Ages -> Nat] /\ hits'[0] = hits[0] + 1
        /\ \A a \in Ages : a /= 0 => hits'[a] = hits[a]
    BY <1>2, <2>1, TotalMore, Bounds
  <2>3. LimitTypes' BY <1>2, <2>1, <2>2, KeptIs DEF LimitTypes
  <2>4. Kept[0] <= MaxRequests
    <3>1. Kept[0] <= Total(Kept, Ages) /\ Total(Kept, Ages) \in Nat /\ Kept[0] \in Nat
      BY <1>2, KeptIs, TotalOne, CountedFinite, Bounds
    <3>2. QED BY <2>1, <3>1, Bounds
  <2>5. \A a \in 0..(WindowMs - 1) : hits'[a] <= counts'[a]
    <3>1. 0 \in 0..(WindowMs - 1) BY Bounds
    <3>2. counts'[0] = counts[0] + 1 BY <1>2, <2>1, <2>4, <3>1, KeptIs, SatedIs, Bounds
    <3>3. \A a \in 0..(WindowMs - 1) : counts'[a] \in Nat /\ counts'[a] >= counts[a]
      BY <1>2, <2>1, KeptIs, Bounds
    <3>4. QED BY <1>2, <2>2, <3>1, <3>2, <3>3
  <2>6. Limited'
    <3> DEFINE w == 0..(WindowMs - 1)
    <3>1. w \in SUBSET Ages /\ Memory' = WindowMs - 1 BY <2>1, Bounds DEF Ages, Memory
    <3>2. \A a \in w : hits'[a] <= Kept[a]
      <4>1. \A a \in Ages : counts'[a] \in Nat /\ Kept[a] \in Nat /\ counts'[a] <= Kept[a]
        BY <1>2, <2>1, KeptIs, Bounds
      <4>2. QED BY <2>2, <2>5, <3>1, <4>1
    <3> HIDE DEF w
    <3>3. Total(hits', w) <= Total(Kept, Ages)
      BY <1>2, <2>2, <3>1, <3>2, KeptIs, TotalMonotone
    <3>4. Total(hits', w) \in Nat /\ Total(Kept, Ages) \in Nat
      BY <1>2, <2>2, <3>1, KeptIs, CountedFinite
    <3>5. Total(hits', w) <= MaxRequests BY <2>1, <3>3, <3>4, Bounds
    <3>6. QED BY <2>1, <3>1, <3>5 DEF Limited, w
  <2>7. QED
    BY <2>1, <2>3, <2>5, <2>6 DEF LimitInv, SlidingInv, FixedInv, DistributedInv
<1>5. QED BY <1>3, <1>4

LEMMA Spans ==
  \A m \in Ages : 0..m \in SUBSET Ages /\ \A a \in 0..m : a = 0 \/ a - 1 \in 0..m
BY Bounds DEF Ages

\* A limiter that has counted nothing.
LEMMA NothingInv ==
  kind \in Kinds /\ offset \in 0..(SubWindowMs - 1) /\ counts = Nothing /\ hits = Nothing
    => LimitInv
<1> SUFFICES ASSUME kind \in Kinds, offset \in 0..(SubWindowMs - 1),
                    counts = Nothing, hits = Nothing
             PROVE  LimitInv
  OBVIOUS
<1>1. Nothing \in [Ages -> 0..MaxRequests] /\ Nothing \in [Ages -> Nat]
      /\ \A a \in Ages : Nothing[a] = 0
  BY Bounds DEF Nothing
<1>2. LimitTypes BY <1>1 DEF LimitTypes
<1>3. \A w \in SUBSET Ages : Total(Nothing, w) = 0 BY TotalNothing
<1>4. SlidingInv
  <2> SUFFICES ASSUME NEW x \in 0..(WindowMs - SubWindowMs + 1)
               PROVE  Total(Nothing, 0..x) <= Total(Nothing, 0..(x + SubWindowMs - 1))
    BY DEF SlidingInv
  <2>1. 0..x \in SUBSET Ages /\ 0..(x + SubWindowMs - 1) \in SUBSET Ages
    BY Bounds DEF Ages
  <2>2. Total(Nothing, 0..x) = 0 BY <1>3, <2>1
  <2>3. Total(Nothing, 0..(x + SubWindowMs - 1)) = 0 BY <1>3, <2>1
  <2>4. QED BY <2>2, <2>3
<1>5. FixedInv BY <1>1, <1>3, Bounds DEF FixedInv, Opened
<1>6. DistributedInv BY <1>1, Bounds DEF DistributedInv, Ages
<1>7. Limited
  <2>1. kind \in {"sliding", "fixed", "distributed"} BY WindowAssumption
  <2>2. Memory \in Ages BY <2>1, Bounds DEF Memory, Ages
  <2>3. 0..Memory \in SUBSET Ages BY <2>2, Spans
  <2>4. Total(hits, 0..Memory) = 0 BY <1>3, <2>3
  <2>5. QED BY <2>1, <2>4, Bounds DEF Limited
<1>8. QED BY <1>2, <1>4, <1>5, <1>6, <1>7 DEF LimitInv

LEMMA TickInv ==
  ASSUME LimitInv, LimitTick
  PROVE  LimitInv'
<1>1. /\ LimitTypes /\ counts \in [Ages -> Nat] /\ hits \in [Ages -> Nat]
      /\ kind \in {"sliding", "fixed", "distributed"}
      /\ \A a \in Ages : counts[a] \in 0..MaxRequests /\ hits[a] \in Nat
  BY LimitKinds DEF LimitInv, LimitTypes
<1>2. counts' = Older(counts) /\ hits' = Older(hits) /\ kind' = kind BY DEF LimitTick
<1>3. /\ counts' \in [Ages -> Nat] /\ hits' \in [Ages -> Nat]
      /\ counts'[0] = 0 /\ hits'[0] = 0
      /\ \A a \in Ages : a /= 0 =>
           a - 1 \in Ages /\ counts'[a] = counts[a - 1] /\ hits'[a] = hits[a - 1]
  BY <1>1, <1>2, OlderType
<1>4. LimitTypes'
  <2>1. counts' \in [Ages -> 0..MaxRequests] BY <1>1, <1>3, Bounds
  <2>2. offset' \in 0..(SubWindowMs - 1)
    BY <1>1, Bounds DEF LimitTick, LimitTypes
  <2>3. QED BY <1>1, <1>2, <1>3, <2>1, <2>2 DEF LimitTypes
\* The hits of a span are those of a shorter one, before.
<1>5. ASSUME NEW v \in SUBSET Ages, NEW w \in SUBSET Ages, \A a \in w : a = 0 \/ a - 1 \in v
      PROVE  /\ Total(hits', w) <= Total(hits, v)
             /\ Total(hits', w) \in Nat /\ Total(hits, v) \in Nat
  BY <1>1, <1>2, <1>3, <1>5, TotalOlder, CountedFinite
<1>6. SlidingInv'
  <2> SUFFICES ASSUME kind = "sliding", NEW x \in 0..(WindowMs - SubWindowMs + 1)
               PROVE  Total(hits', 0..x) <= Total(counts', 0..(x + SubWindowMs - 1))
    BY <1>2 DEF SlidingInv
  <2> DEFINE w == 0..x
             u == 0..(x + SubWindowMs - 1)
  <2>1. w \in SUBSET Ages /\ u \in SUBSET Ages BY Bounds DEF Ages
  <2>2. CASE x = 0
    <3>1. {} \in SUBSET Ages /\ \A a \in w : a = 0 BY <2>2
    <3> HIDE DEF w, u
    <3>2. Total(hits', w) <= Total(hits, {}) /\ Total(hits', w) \in Nat BY <1>5, <2>1, <3>1
    <3>3. Counted(hits, {}) = {} BY DEF Counted
    <3>4. Total(hits, {}) = 0 BY <3>3, FS_EmptySet DEF Total
    <3>5. Total(counts', u) \in Nat BY <1>3, <2>1, CountedFinite
    <3>6. QED BY <3>2, <3>4, <3>5 DEF w, u
  <2>3. CASE x /= 0
    <3> DEFINE v == 0..(x - 1)
               t == 0..(x - 1 + SubWindowMs - 1)
    <3>1. /\ x - 1 \in 0..(WindowMs - SubWindowMs + 1)
          /\ v \in SUBSET Ages /\ t \in SUBSET Ages
          /\ \A a \in w : a = 0 \/ a - 1 \in v
          /\ \A a \in t : a + 1 \in u
      BY <2>3, Bounds DEF Ages
    <3>2. Total(hits, v) <= Total(counts, t) BY <3>1 DEF LimitInv, SlidingInv
    <3> HIDE DEF v, w, t, u
    <3>3. Total(hits', w) <= Total(hits, v) /\ Total(hits', w) \in Nat /\ Total(hits, v) \in Nat
      BY <1>5, <2>1, <3>1
    <3>4. Total(counts, t) <= Total(counts', u) BY <1>1, <1>2, <2>1, <3>1, TotalYounger
    <3>5. Total(counts, t) \in Nat /\ Total(counts', u) \in Nat
      BY <1>1, <1>3, <2>1, <3>1, CountedFinite
    <3>6. QED BY <3>2, <3>3, <3>4, <3>5 DEF w, u
  <2>4. QED BY <2>2, <2>3
<1>7. FixedInv'
  <2> SUFFICES ASSUME kind = "fixed" PROVE FixedInv'
    BY <1>2 DEF FixedInv
  <2>1. ASSUME Opened' = {} PROVE hits'[0] = 0 /\ Total(hits', Ages) <= MaxRequests
    <3>1. CASE Opened = {}
      <4>1. Total(hits, Ages) <= MaxRequests BY <3>1 DEF LimitInv, FixedInv
      <4>2. \A a \in Ages : a = 0 \/ a - 1 \in Ages BY <1>3
      <4>3. /\ Total(hits', Ages) <= Total(hits, Ages)
            /\ Total(hits', Ages) \in Nat /\ Total(hits, Ages) \in Nat
        BY <1>5, <4>2
      <4>4. QED BY <1>3, <4>1, <4>3, Bounds
    <3>2. ASSUME NEW a \in Opened PROVE hits'[0] = 0 /\ Total(hits', Ages) <= MaxRequests
      <4>1. a \in Ages /\ counts[a] > 0 BY DEF Opened
      <4>2. a = WindowMs
        <5>1. SUFFICES ASSUME a /= WindowMs PROVE FALSE OBVIOUS
        <5>2. a + 1 \in Ages /\ a + 1 /= 0 /\ (a + 1) - 1 = a BY <4>1, <5>1, Bounds DEF Ages
        <5>3. counts'[a + 1] > 0 BY <1>3, <4>1, <5>2
        <5>4. QED BY <2>1, <5>2, <5>3 DEF Opened
      <4>3. Total(hits, Ages) <= counts[a] BY <4>2 DEF LimitInv, FixedInv, Ages
      <4>4. \A b \in Ages : b = 0 \/ b - 1 \in Ages BY <1>3
      <4>5. /\ Total(hits', Ages) <= Total(hits, Ages)
            /\ Total(hits', Ages) \in Nat /\ Total(hits, Ages) \in Nat
        BY <1>5, <4>4
      <4>6. counts[a] \in 0..MaxRequests BY <1>1, <4>1
      <4>7. QED BY <1>3, <4>3, <4>5, <4>6, Bounds
    <3>3. QED BY <3>1, <3>2
  <2>2. ASSUME NEW a \in Opened'
        PROVE  /\ Opened' = {a}
               /\ Total(hits', 0..a) <= counts'[a]
               /\ Total(hits', (a + 1)..WindowMs) <= MaxRequests
    <3>1. a \in Ages /\ counts'[a] > 0 /\ a /= 0 BY <1>3, <2>2 DEF Opened
    <3>2. a - 1 \in Opened BY <1>3, <3>1 DEF Opened
    <3>3. /\ Opened = {a - 1} /\ Total(hits, 0..(a - 1)) <= counts[a - 1]
          /\ Total(hits, ((a - 1) + 1)..WindowMs) <= MaxRequests
      BY <3>2 DEF LimitInv, FixedInv
    <3>4. Opened' = {a}
      <4>1. ASSUME NEW b \in Opened' PROVE b = a
        <5>1. b \in Ages /\ counts'[b] > 0 /\ b /= 0 BY <1>3, <4>1 DEF Opened
        <5>2. b - 1 \in Opened BY <1>3, <5>1 DEF Opened
        <5>3. b - 1 = a - 1 BY <3>3, <5>2
        <5>4. QED BY <3>1, <5>1, <5>3 DEF Ages
      <4>2. QED BY <2>2, <4>1
    <3> DEFINE v == 0..(a - 1)
               w == 0..a
               t == ((a - 1) + 1)..WindowMs
               u == (a + 1)..WindowMs
    <3>5. /\ v \in SUBSET Ages /\ w \in SUBSET Ages /\ t \in SUBSET Ages /\ u \in SUBSET Ages
          /\ \A b \in w : b = 0 \/ b - 1 \in v
          /\ \A b \in u : b = 0 \/ b - 1 \in t
      BY <3>1, Bounds DEF Ages
    <3>6. Total(hits, v) <= counts[a - 1] /\ Total(hits, t) <= MaxRequests BY <3>3
    <3> HIDE DEF v, w, t, u
    <3>7. Total(hits', w) <= Total(hits, v) /\ Total(hits', w) \in Nat /\ Total(hits, v) \in Nat
      BY <1>5, <3>5
    <3>8. Total(hits', u) <= Total(hits, t) /\ Total(hits', u) \in Nat /\ Total(hits, t) \in Nat
      BY <1>5, <3>5
    <3>9. counts'[a] = counts[a - 1] /\ counts[a - 1] \in Nat BY <1>1, <1>3, <3>1
    <3>10. QED BY <3>4, <3>6, <3>7, <3>8, <3>9, Bounds DEF w, u
  <2>3. QED BY <2>1, <2>2 DEF FixedInv
<1>8. DistributedInv'
  <2> SUFFICES ASSUME kind = "distributed", NEW a \in 0..(WindowMs - 1)
               PROVE  hits'[a] <= counts'[a]
    BY <1>2 DEF DistributedInv
  <2>1. a \in Ages /\ (a /= 0 => a - 1 \in 0..(WindowMs - 1)) BY Bounds DEF Ages
  <2>2. CASE a = 0 BY <1>3, <2>2
  <2>3. CASE a /= 0 BY <1>3, <2>1, <2>3 DEF LimitInv, DistributedInv
  <2>4. QED BY <2>2, <2>3
<1>9. Limited'
  <2> DEFINE w == 0..Memory
  <2>1. Memory' = Memory /\ Memory \in Ages BY <1>1, <1>2, Bounds DEF Memory, Ages
  <2>2. w \in SUBSET Ages /\ \A a \in w : a = 0 \/ a - 1 \in w BY <2>1, Spans
  <2>3. Total(hits, w) <= IF kind = "fixed" THEN 2 * MaxRequests ELSE MaxRequests
    BY DEF LimitInv, Limited
  <2> HIDE DEF w
  <2>4. Total(hits', w) <= Total(hits, w) /\ Total(hits', w) \in Nat /\ Total(hits, w) \in Nat
    BY <1>5, <2>2
  <2>5. Total(hits', w) <= IF kind = "fixed" THEN 2 * MaxRequests ELSE MaxRequests
    BY <2>3, <2>4, Bounds
  <2>6. QED BY <1>2, <2>1, <2>5 DEF Limited, w
<1>10. QED BY <1>4, <1>6, <1>7, <1>8, <1>9 DEF LimitInv

\* A limiter's step, whatever the limiter.
LEMMA LimitStep ==
  ASSUME LimitInv, Allow \/ Deny \/ FailOpen \/ ResetLimit \/ LimitTick \/ UNCHANGED limitVars
  PROVE  LimitInv'
<1>1. LimitTypes /\ kind \in Kinds /\ kind \in {"sliding", "fixed", "distributed"}
  BY LimitKinds DEF LimitInv, LimitTypes
<1>2. CASE Allow \/ Deny
  BY <1>1, <1>2, SlidingStep, FixedStep, DistributedStep
<1>3. CASE FailOpen BY <1>3, DistributedStep DEF FailOpen
<1>4. CASE ResetLimit
  <2>1. (kind \in Kinds /\ offset \in 0..(SubWindowMs - 1) /\ counts = Nothing /\ hits = Nothing)'
    BY <1>1, <1>4 DEF ResetLimit, LimitTypes
  <2>2. QED BY <2>1, NothingInv, PTL
<1>5. CASE LimitTick BY <1>5, TickInv
<1>6. CASE UNCHANGED limitVars
  BY <1>6 DEF limitVars, LimitInv, LimitTypes, SlidingInv, FixedInv, DistributedInv, Opened,
              Limited, Memory
<1>7. QED BY <1>2, <1>3, <1>4, <1>5, <1>6

LEMMA LimitInitially == LimitInit => LimitInv
BY NothingInv, Bounds DEF LimitInit
-----------------------------------------------------------------------------
(* The circuit breaker.                                                    *)

BreakerInv == BreakerTypeOK /\ NeverWedged

LEMMA BreakerInitially == BreakerInit => BreakerInv
BY BreakerAssumption DEF BreakerInit, BreakerInv, BreakerTypeOK, NeverWedged

\* Whatever was admitted takes a half-open circuit out of that state when it
\* settles; so one with attempts used has a call in flight.
LEMMA BreakerStep ==
  ASSUME BreakerInv, [BreakerNext]_breakerVars
  PROVE  BreakerInv'
<1> USE BreakerAssumption DEF BreakerInv, BreakerTypeOK, NeverWedged
<1>1. Seen \in {"CLOSED", "OPEN", "HALF_OPEN"} /\ Tries \in 0..HalfOpenMaxAttempts
      /\ (Seen = "OPEN" => circuit = "OPEN")
      /\ (Seen = "HALF_OPEN" /\ Tries > 0 => inFlight /= {})
  BY DEF Seen, Tries, Due
<1>2. ASSUME NEW c \in Requests, Admit(c) PROVE BreakerInv'
  BY <1>1, <1>2 DEF Admit, Admits
<1>3. ASSUME NEW c \in Requests, Success(c) PROVE BreakerInv'
  BY <1>3 DEF Success, Closed
<1>4. ASSUME NEW c \in Requests, Failure(c) PROVE BreakerInv'
  BY <1>4 DEF Failure, Opens
<1>5. CASE Refuse \/ Look BY <1>1, <1>5 DEF Refuse, Look
<1>6. CASE ResetBreaker BY <1>6 DEF ResetBreaker, Closed
<1>7. CASE BreakerTick BY <1>7 DEF BreakerTick
<1>8. CASE UNCHANGED breakerVars BY <1>8 DEF breakerVars
<1>9. QED BY <1>2, <1>3, <1>4, <1>5, <1>6, <1>7, <1>8 DEF BreakerNext
-----------------------------------------------------------------------------
(* The shutdown.                                                           *)

\* The requests inside the chain.
Chain == {c \in Requests : at[c] = "chain"}

ShutdownInv ==
  /\ at \in [Requests -> {"idle", "gate", "chain", "handler", "storage"}]
  /\ waited \in Nat
  /\ IsFiniteSet(Chain) /\ pending = Cardinality(Chain)
  /\ ClosesDrained

LEMMA GateInv ==
  ASSUME ShutdownInv, NEW c \in Requests, Gate(c)
  PROVE  ShutdownInv'
<1> USE DEF ShutdownInv
<1>1. CASE Refused /\ Moves(c, "idle")
  <2>1. Chain' = Chain BY <1>1 DEF Chain, Gate, Moves
  <2>2. QED BY <1>1, <2>1 DEF Refused, shutdownVars, Moves, ClosesDrained, GivesUp, Gate
<1>2. CASE ~isShuttingDown /\ requestStart /\ Moves(c, "chain")
  <2>1. Chain' = Chain \cup {c} /\ c \notin Chain BY <1>2 DEF Chain, Gate, Moves
  <2>2. IsFiniteSet(Chain') /\ Cardinality(Chain') = pending + 1
    BY <2>1, FS_AddElement
  <2>3. QED BY <1>2, <2>2 DEF requestStart, isShuttingDown, ClosesDrained, Moves
<1>3. QED BY <1>1, <1>2 DEF Gate

LEMMA ChainEndsInv ==
  ASSUME ShutdownInv, NEW c \in Requests, ChainEnds(c)
  PROVE  ShutdownInv'
<1> USE DEF ShutdownInv
<1>1. Chain' = Chain \ {c} /\ c \in Chain BY DEF Chain, ChainEnds, Moves
<1>2. IsFiniteSet(Chain') /\ Cardinality(Chain') = pending - 1
  BY <1>1, FS_RemoveElement
<1>3. pending > 0 /\ pending \in Nat BY <1>1, FS_EmptySet, FS_CardinalityType
<1>4. pending' = Cardinality(Chain') BY <1>2, <1>3 DEF ChainEnds, requestEnd
<1>5. ClosesDrained' BY DEF ClosesDrained, ChainEnds, requestEnd, GivesUp, Moves
<1>6. QED BY <1>2, <1>4, <1>5 DEF ChainEnds, requestEnd, Moves

\* A request elsewhere moves past the chain.
LEMMA MovesInv ==
  ASSUME ShutdownInv, NEW c \in Requests, at[c] /= "chain", UNCHANGED shutdownVars,
         NEW label \in {"idle", "gate", "handler", "storage"}, Moves(c, label) \/ UNCHANGED at
  PROVE  ShutdownInv'
<1>1. Chain' = Chain BY DEF Chain, Moves, ShutdownInv
<1>2. QED BY <1>1 DEF ShutdownInv, shutdownVars, ClosesDrained, GivesUp, Moves

LEMMA StagesInv ==
  ASSUME ShutdownInv, Shutdown \/ Exit \/ ShutdownStep \/ ShutdownTick \/ UNCHANGED shutdownVars,
         UNCHANGED at
  PROVE  ShutdownInv'
<1>1. Chain' = Chain BY DEF Chain
<1>2. waited' \in Nat /\ waited' >= waited /\ pending' = pending
  BY ShutdownAssumption
  DEF ShutdownInv, Shutdown, Exit, ShutdownStep, Notified, Drained, HandlersRun, Close,
      ShutdownTick, shutdownVars
<1>3. GivesUp => GivesUp' BY <1>2, ShutdownAssumption DEF GivesUp, ShutdownInv
<1>4. ClosesDrained'
  <2>1. CASE Drained
    <3>1. pending = 0 => Chain = {} BY FS_EmptySet DEF ShutdownInv
    <3>2. QED BY <1>3, <2>1, <3>1 DEF Drained, ClosesDrained, Chain
  <2>2. CASE ~Drained
    BY <1>3, <2>2 DEF ClosesDrained, ShutdownInv, Shutdown, Exit, Goes, ShutdownStep, Notified,
                HandlersRun, Close, ShutdownTick, shutdownVars
  <2>3. QED BY <2>1, <2>2
<1>5. QED BY <1>1, <1>2, <1>4 DEF ShutdownInv
-----------------------------------------------------------------------------
(* The service.                                                            *)

ServiceInv == LimitInv /\ BreakerInv /\ ShutdownInv

LEMMA ServiceInitially == Init => ServiceInv
<1> SUFFICES ASSUME Init PROVE ServiceInv
  OBVIOUS
<1>1. Chain = {} BY DEF Init, Chain
<1>2. ShutdownInv
  BY <1>1, FS_EmptySet DEF Init, ShutdownInit, ShutdownInv, ClosesDrained
<1>3. QED BY <1>2, LimitInitially, BreakerInitially DEF Init, ServiceInv

LEMMA ServiceStep == ServiceInv /\ [Next]_allVars => ServiceInv'
<1> SUFFICES ASSUME ServiceInv, [Next]_allVars PROVE ServiceInv'
  OBVIOUS
<1> USE DEF ServiceInv
<1>1. ASSUME UNCHANGED limitVars PROVE LimitInv' BY <1>1, LimitStep
<1>2. ASSUME UNCHANGED breakerVars PROVE BreakerInv' BY <1>2, BreakerStep
<1>3. ASSUME NEW c \in Requests, Arrive(c) PROVE ServiceInv'
  <2>1. LimitInv' BY <1>3, LimitStep DEF Arrive
  <2>2. ShutdownInv' BY <1>3, MovesInv DEF Arrive
  <2>3. QED BY <1>2, <1>3, <2>1, <2>2 DEF Arrive
<1>4. ASSUME NEW c \in Requests, Gate(c) \/ ChainEnds(c) PROVE ServiceInv'
  BY <1>1, <1>2, <1>4, GateInv, ChainEndsInv DEF Gate, ChainEnds
<1>5. ASSUME NEW c \in Requests, Call(c) PROVE ServiceInv'
  <2>1. BreakerInv' BY <1>5, BreakerStep DEF Call, BreakerNext
  <2>2. ShutdownInv' BY <1>5, MovesInv DEF Call
  <2>3. QED BY <1>1, <1>5, <2>1, <2>2 DEF Call
<1>6. ASSUME NEW c \in Requests, Retry(c) PROVE ServiceInv'
  <2>1. ShutdownInv' BY <1>6, MovesInv DEF Retry
  <2>2. QED BY <1>1, <1>2, <1>6, <2>1 DEF Retry
<1>7. ASSUME NEW c \in Requests, Settle(c) PROVE ServiceInv'
  <2>1. BreakerInv' BY <1>7, BreakerStep DEF Settle, BreakerNext
  <2>2. ShutdownInv' BY <1>7, MovesInv DEF Settle
  <2>3. QED BY <1>1, <1>7, <2>1, <2>2 DEF Settle
<1>8. CASE Operate
  <2>1. LimitInv' BY <1>8, LimitStep DEF Operate
  <2>2. BreakerInv' BY <1>8, BreakerStep DEF Operate, BreakerNext
  <2>3. ShutdownInv' BY <1>8, StagesInv DEF Operate, serviceVars
  <2>4. QED BY <2>1, <2>2, <2>3
<1>9. CASE ShutsDown
  BY <1>1, <1>2, <1>9, StagesInv DEF ShutsDown, serviceVars
<1>10. CASE Tick
  BY <1>10, LimitStep, BreakerStep, StagesInv DEF Tick, BreakerNext, serviceVars
<1>11. CASE UNCHANGED allVars
  BY <1>1, <1>2, <1>11, StagesInv DEF allVars, serviceVars
<1>12. QED
  BY <1>3, <1>4, <1>5, <1>6, <1>7, <1>8, <1>9, <1>10, <1>11 DEF Next

LEMMA ServiceInvariant == Spec => []ServiceInv
BY ServiceInitially, ServiceStep, PTL DEF Spec

\* No stretch of a limiter's memory has more requests let through on a count
\* than it promises: for any window, any sub-windows that divide it, any
\* limit, and any number of requests at any time.
THEOREM LimitsHold == Spec => []Limited
BY ServiceInvariant, PTL DEF ServiceInv, LimitInv

\* Storage is closed with no request in the chain, unless the shutdown's
\* timeout is over, for any set of requests.
THEOREM ClosesAfterDraining == Spec => []ClosesDrained
BY ServiceInvariant, PTL DEF ServiceInv, ShutdownInv

\* The breaker never stays half-open without a call to decide it, nor open
\* without a time to leave it, for any calls that overlap and any thresholds.
THEOREM BreakerNotWedged == Spec => []NeverWedged
BY ServiceInvariant, PTL DEF ServiceInv, BreakerInv
=============================================================================
