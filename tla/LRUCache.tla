------------------------------ MODULE LRUCache -------------------------------
(***************************************************************************)
(* LRUCache (Performance.js): a Map of bounded size whose order is that of *)
(* use.  A cache is the sequence of its entries, records with a key, from  *)
(* the one that was not used for longest to the newest.                    *)
(***************************************************************************)
EXTENDS Naturals, Sequences, FiniteSets

At(entries, key) == {i \in DOMAIN entries : entries[i].key = key}
EntryOf(entries, key) == entries[CHOOSE i \in At(entries, key) : TRUE]

\* The entries at the positions kept, in their order: the k-th of them is
\* the one with k positions up to its own.
Nth(kept, k) == CHOOSE i \in kept : Cardinality({j \in kept : j <= i}) = k
Sifted(entries, kept) == [k \in 1 .. Cardinality(kept) |-> entries[Nth(kept, k)]]

\* delete.
Without(entries, keys) == Sifted(entries, {i \in DOMAIN entries : entries[i].key \notin keys})

\* get of an entry: it becomes the newest.
MovedToEnd(entries, key) == Append(Without(entries, {key}), EntryOf(entries, key))

\* set: at capacity the oldest entry goes, also when the key is present; a
\* present key keeps its place.
Room(entries, maxSize) == IF Len(entries) >= maxSize THEN Tail(entries) ELSE entries
WithEntry(entries, e) ==
  IF At(entries, e.key) = {} THEN Append(entries, e)
  ELSE [i \in DOMAIN entries |-> IF i \in At(entries, e.key) THEN e ELSE entries[i]]
=============================================================================
