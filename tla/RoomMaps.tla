------------------------------ MODULE RoomMaps ------------------------------
(***************************************************************************)
(* The two std::map<string, map<string, bool>> of an Adapter as values,    *)
(* and the updates Adapter::Add and Adapter::Del make to them.  A map is a *)
(* function whose domain is the set of keys present; an inner map of bools *)
(* is the set of its keys (the code only ever stores true).                *)
(***************************************************************************)
EXTENDS Integers

\* A map in which no key is present.
NoKeys == [k \in {} |-> {}]

\* m[k], and the empty set where k is not present.
Row(m, k) == IF k \in DOMAIN m THEN m[k] ELSE {}

\* `if (m.find(k) == m.end()) m[k] = {}; m[k][v] = true;`
Put(m, k, v) ==
  [x \in DOMAIN m \cup {k} |-> IF x = k THEN Row(m, k) \cup {v} ELSE m[x]]

\* Mutant of Take: the whole inner map goes with one of its values.
TakeWhole(m, k, v) == [x \in DOMAIN m \ {k} |-> m[x]]

\* `m[k].erase(v); if (m[k].empty()) m.erase(k);`
Take(m, k, v) ==
  LET left == Row(m, k) \ {v} IN
  [x \in IF left = {} THEN DOMAIN m \ {k} ELSE DOMAIN m \cup {k} |->
     IF x = k THEN left ELSE m[x]]

\* The maps from keys in K to sets of values in V.
Maps(K, V) == UNION {[D -> SUBSET V] : D \in SUBSET K}

\* An adapter is the pair of its maps, and one that was just constructed.
Adapters(K, R) == [sids : Maps(K, R), rooms : Maps(R, K)]
NewAdapter == [sids |-> NoKeys, rooms |-> NoKeys]

\* Mutants of Added and Deleted: both maps indexed by id; one map forgotten.
AddedBothById(a, i, r) == [sids |-> Put(a.sids, i, r), rooms |-> Put(a.rooms, i, r)]
DeletedInRoomsOnly(a, i, r) == [a EXCEPT !.rooms = Take(@, r, i)]

\* Adapter::Add and Adapter::Del.
Added(a, i, r) == [sids |-> Put(a.sids, i, r), rooms |-> Put(a.rooms, r, i)]
Deleted(a, i, r) == [sids |-> Take(a.sids, i, r), rooms |-> Take(a.rooms, r, i)]

\* The members Adapter::Broadcast emits to.  The room is walked in the order
\* of the ids; the sender is skipped, and the walk returns at the first id
\* whose socket the namespace does not find.
Reached(a, sender, r, found) ==
  LET others == Row(a.rooms, r) \ {sender} IN
  {i \in others : \A j \in others : j <= i => j \in found}

\* The relation that an adapter stands for.
Pairs(a) == UNION {{<<i, r>> : r \in a.sids[i]} : i \in DOMAIN a.sids}

\* The two maps of an adapter list the same pairs; neither has an empty row.
Mirrored(a, K, R) ==
  \A i \in K, r \in R : i \in Row(a.rooms, r) <=> r \in Row(a.sids, i)
NoEmptyRow(a) ==
  /\ \A i \in DOMAIN a.sids : a.sids[i] # {}
  /\ \A r \in DOMAIN a.rooms : a.rooms[r] # {}
=============================================================================
