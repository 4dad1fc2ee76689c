-------------------------- MODULE RequestLimits_proof --------------------------
(***************************************************************************)
(* What the limiters of RequestLimits keep, for any number of accounts,    *)
(* addresses and logins, any limits and any room of their Maps.            *)
(***************************************************************************)
EXTENDS RequestLimits, FiniteSetTheorems, SequenceTheorems, TLAPS

-----------------------------------------------------------------------------
(* The inductive invariant *)

\* A Map as the limiters keep it: a key once, and no entry without a call.
Distinct(map) == \A i, j \in DOMAIN map : map[i].key = map[j].key => i = j
Map(map) == map \in Seq(Entries) /\ Distinct(map) /\ \A i \in DOMAIN map : map[i].count >= 1

\* What a Map says of a key, as the promise counts it.
Live(e) == IF e.left > 0 THEN [count |-> e.count, left |-> e.left] ELSE Promise!Unused
Seen(map, k) == IF k \in KeysOf(map) THEN Live(EntryOf(map, k)) ELSE Promise!Unused

\* The logins that were let through to the row of a and wait.
Waiting(a) == {c \in use.calls : pending[c] = a /\ pending[c] # "none"}

\* Only the users of the limiter are in its Maps, and the Maps are bounded.
MapsFit ==
    /\ Map(windows) /\ Map(ips)
    /\ KeysOf(windows) \subseteq use.keys /\ KeysOf(ips) \subseteq use.keys
    /\ Len(windows) <= MaxKeys + (IF use.limiter = "password" THEN 1 ELSE 0)
    /\ Len(ips) <= MaxKeys

PendingFit == \A c \in Calls : pending[c] # "none" =>
                 use.limiter = "login" /\ c \in use.calls /\ pending[c] \in use.keys

\* With room for every key nothing is forgotten.
Mirror == HasRoom => \A k \in Keys : spent[k] = Seen(windows, k)

\* A login that waits may still fail: it counts as a failure to come.
FewFailures ==
    HasRoom /\ use.limiter = "login" =>
        \A a \in Accounts : Seen(windows, a).count + Cardinality(Waiting(a))
                              <= AccountLimit + Cardinality(use.calls) - 1

IInv == TypeOK /\ MapsFit /\ PendingFit /\ Mirror /\ FewFailures

-----------------------------------------------------------------------------
(* The entries of a Map *)

\* A key has one entry, and EntryOf finds it.
LEMMA FoundAt ==
    ASSUME NEW map, Distinct(map), NEW i \in DOMAIN map
    PROVE map[i].key \in KeysOf(map) /\ EntryOf(map, map[i].key) = map[i]
<1>1. PICK j : j = CHOOSE x \in DOMAIN map : map[x].key = map[i].key
  OBVIOUS
<1>2. j \in DOMAIN map /\ map[j].key = map[i].key
  BY <1>1
<1>3. j = i
  BY <1>2 DEF Distinct
<1> QED
  BY <1>1, <1>3 DEF KeysOf, EntryOf

\* What a Map says of the key at a place is what stands there.
LEMMA SeenAt ==
    ASSUME NEW map, Distinct(map), NEW i \in DOMAIN map
    PROVE Seen(map, map[i].key) = Live(map[i])
BY FoundAt DEF Seen

LEMMA SeenNowhere ==
    ASSUME NEW map, NEW k, k \notin KeysOf(map)
    PROVE Seen(map, k) = Promise!Unused
BY DEF Seen

\* A key in the Map is at some place.
LEMMA PlaceOf ==
    ASSUME NEW map, NEW k \in KeysOf(map)
    PROVE \E i \in DOMAIN map : map[i].key = k
BY DEF KeysOf

\* Every entry has the fields of its type.
LEMMA EntryType ==
    ASSUME NEW map, Map(map), NEW i \in DOMAIN map
    PROVE /\ map[i] \in Entries /\ map[i].key \in Keys
          /\ map[i].count \in Nat /\ map[i].count >= 1 /\ map[i].left \in 0..Window
<1>1. map[i] \in Entries
  BY LenProperties DEF Map
<1> QED
  BY <1>1 DEF Map, Entries

\* CountOf is the count that Seen tells.
LEMMA CountSeen ==
    ASSUME NEW map, Map(map), NEW k
    PROVE /\ Seen(map, k).count \in Nat
          /\ CountOf(map, k) = Seen(map, k).count
          /\ Seen(map, k).count = 0 <=> Seen(map, k) = Promise!Unused
<1>1. CASE k \in KeysOf(map)
  <2>1. PICK i \in DOMAIN map : map[i].key = k
    BY <1>1, PlaceOf
  <2>2. EntryOf(map, k) = map[i]
    BY <2>1, FoundAt DEF Map
  <2> QED
    BY <1>1, <2>1, <2>2, EntryType, LimitsType DEF CountOf, Seen, Live, Promise!Unused
<1>2. CASE k \notin KeysOf(map)
  BY <1>2 DEF CountOf, Seen, Promise!Unused
<1> QED
  BY <1>1, <1>2

\* A Map has as many keys as entries.
LEMMA AsManyKeys ==
    ASSUME NEW map, Map(map)
    PROVE IsFiniteSet(KeysOf(map)) /\ Cardinality(KeysOf(map)) = Len(map)
<1> DEFINE f == [i \in 1..Len(map) |-> map[i].key]
<1>1. Len(map) \in Nat /\ DOMAIN map = 1..Len(map)
  BY LenProperties DEF Map
<1>2. f \in Bijection(1..Len(map), KeysOf(map))
  BY <1>1 DEF Map, Distinct, KeysOf, Bijection, Injection, Surjection, IsInjective
<1>3. ExistsBijection(1..Len(map), KeysOf(map))
  BY <1>2 DEF ExistsBijection
<1>4. IsFiniteSet(1..Len(map))
  BY <1>1, FS_Interval
<1> HIDE DEF f
<1> QED
  BY <1>1, <1>3, <1>4, FS_CountingElements, FS_Bijection
-----------------------------------------------------------------------------
(* The entries at some places of a Map *)

\* The places in keep are numbered in their order.
LEMMA PlacesInOrder ==
    ASSUME NEW n \in Nat, NEW keep \in SUBSET (1..n)
    PROVE /\ IsFiniteSet(keep) /\ Cardinality(keep) \in Nat /\ Cardinality(keep) <= n
          /\ \A i \in keep : Place(keep, i) \in 1..Cardinality(keep)
          /\ \A i, j \in keep : i < j <=> Place(keep, i) < Place(keep, j)
          /\ \A m \in 1..Cardinality(keep) : \E i \in keep : Place(keep, i) = m
<1> DEFINE Below(i) == {j \in keep : j <= i}
<1>1. IsFiniteSet(keep) /\ Cardinality(keep) \in Nat /\ Cardinality(keep) <= n
  <2>1. IsFiniteSet(1..n) /\ Cardinality(1..n) = n
    BY FS_Interval
  <2> QED
    BY <2>1, FS_Subset, FS_CardinalityType
<1>2. ASSUME NEW i \in keep PROVE Place(keep, i) \in 1..Cardinality(keep)
  <2>1. IsFiniteSet(Below(i)) /\ Cardinality(Below(i)) <= Cardinality(keep)
    BY <1>1, FS_Subset
  <2>2. Cardinality({i}) = 1 /\ {i} \in SUBSET Below(i)
    <3>1. Cardinality({i}) = 1
      BY FS_Singleton
    <3> QED
      BY <3>1
  <2>3. Cardinality(Below(i)) >= 1
    BY <2>1, <2>2, FS_Subset
  <2> QED
    BY <1>1, <2>1, <2>3, FS_CardinalityType DEF Place
<1>3. ASSUME NEW i \in keep, NEW j \in keep, i < j PROVE Place(keep, i) < Place(keep, j)
  <2>1. Below(i) \in SUBSET Below(j) /\ j \in Below(j) /\ j \notin Below(i)
    <3>1. \A x \in keep : x \in Int
      OBVIOUS
    <3>2. \A x \in Below(i) : x \in Below(j)
      BY <1>3, <3>1
    <3>3. j \in Below(j) /\ j \notin Below(i)
      BY <1>3, <3>1
    <3> HIDE DEF Below
    <3> QED
      BY <3>2, <3>3
  <2> IsFiniteSet(Below(j))
    BY <1>1, FS_Subset
  <2>2. Cardinality(Below(i)) <= Cardinality(Below(j)) /\ Cardinality(Below(i)) # Cardinality(Below(j))
    BY <2>1, FS_Subset
  <2> QED
    BY <1>2, <2>2 DEF Place
<1>4. \A i, j \in keep : i < j <=> Place(keep, i) < Place(keep, j)
  BY <1>2, <1>3
<1>5. ASSUME NEW m \in 1..Cardinality(keep) PROVE \E i \in keep : Place(keep, i) = m
  <2> DEFINE f == [i \in keep |-> Place(keep, i)]
  <2>1. f \in Injection(keep, 1..Cardinality(keep))
    BY <1>2, <1>4 DEF Injection, IsInjective
  <2>2. IsFiniteSet(1..Cardinality(keep)) /\ Cardinality(1..Cardinality(keep)) = Cardinality(keep)
    BY <1>1, FS_Interval
  <2>3. f \in Surjection(keep, 1..Cardinality(keep))
    BY <2>1, <2>2, FS_Injection
  <2> QED
    BY <2>3 DEF Surjection
<1> QED
  BY <1>1, <1>2, <1>4, <1>5

\* Selected keeps the entries in keep, in their order, and nothing else.
LEMMA SelectedEffect ==
    ASSUME NEW map, Map(map), NEW keep \in SUBSET DOMAIN map
    PROVE /\ Map(Selected(map, keep))
          /\ Len(Selected(map, keep)) = Cardinality(keep)
          /\ Len(Selected(map, keep)) <= Len(map)
          /\ \A i \in keep : /\ Place(keep, i) \in DOMAIN Selected(map, keep)
                            /\ Selected(map, keep)[Place(keep, i)] = map[i]
          /\ \A x \in DOMAIN Selected(map, keep) : \E i \in keep : Place(keep, i) = x
<1> DEFINE next == Selected(map, keep)
           At(x) == CHOOSE i \in keep : Place(keep, i) = x
<1>1. Len(map) \in Nat /\ DOMAIN map = 1..Len(map)
  BY LenProperties DEF Map
<1>2. /\ Cardinality(keep) \in Nat /\ Cardinality(keep) <= Len(map)
      /\ \A i \in keep : Place(keep, i) \in 1..Cardinality(keep)
      /\ \A i, j \in keep : i < j <=> Place(keep, i) < Place(keep, j)
      /\ \A m \in 1..Cardinality(keep) : \E i \in keep : Place(keep, i) = m
  BY <1>1, PlacesInOrder
<1>3. \A i, j \in keep : Place(keep, i) = Place(keep, j) => i = j
  <2>1. keep \subseteq Int
    BY <1>1
  <2> QED
    BY <1>2, <2>1
<1>4. \A x \in 1..Cardinality(keep) : At(x) \in keep /\ Place(keep, At(x)) = x
  BY <1>2
<1>5. \A i \in keep : At(Place(keep, i)) = i
  BY <1>2, <1>3, <1>4
<1>6. /\ next = [x \in 1..Cardinality(keep) |-> map[At(x)]]
      /\ DOMAIN next = 1..Cardinality(keep)
      /\ \A x \in 1..Cardinality(keep) : next[x] = map[At(x)]
  BY DEF Selected
<1> HIDE DEF next, At
<1>7. \A x \in 1..Cardinality(keep) : map[At(x)] \in Entries /\ map[At(x)].count >= 1
  BY <1>1, <1>4, EntryType
<1>8. next \in Seq(Entries) /\ Len(next) = Cardinality(keep)
  BY <1>2, <1>6, <1>7
<1>9. Distinct(next)
  BY <1>4, <1>6 DEF Map, Distinct
<1>10. Map(next)
  BY <1>6, <1>7, <1>8, <1>9 DEF Map
<1> QED
  BY <1>2, <1>5, <1>6, <1>8, <1>10 DEF next

\* What is left out had expired: no key is forgotten.
LEMMA SelectedSeen ==
    ASSUME NEW map, Map(map), NEW keep \in SUBSET DOMAIN map,
           \A i \in DOMAIN map : map[i].left > 0 => i \in keep
    PROVE /\ KeysOf(Selected(map, keep)) \subseteq KeysOf(map)
          /\ \A k \in KeysOf(Selected(map, keep)) :
                \E i \in keep : map[i].key = k
          /\ \A k : Seen(Selected(map, keep), k) = Seen(map, k)
<1> DEFINE next == Selected(map, keep)
<1>1. /\ Map(next)
      /\ \A i \in keep : Place(keep, i) \in DOMAIN next /\ next[Place(keep, i)] = map[i]
      /\ \A x \in DOMAIN next : \E i \in keep : Place(keep, i) = x
  BY SelectedEffect
<1> HIDE DEF next
<1>2. ASSUME NEW k \in KeysOf(next) PROVE \E i \in keep : map[i].key = k /\ next[Place(keep, i)].key = k
  BY <1>1, PlaceOf
<1>3. KeysOf(next) \subseteq KeysOf(map)
  BY <1>2 DEF KeysOf
<1>4. ASSUME NEW k PROVE Seen(next, k) = Seen(map, k)
  <2>1. CASE k \in KeysOf(next)
    <3>1. PICK i \in keep : map[i].key = k /\ next[Place(keep, i)].key = k
      BY <1>2, <2>1
    <3>2. Seen(next, k) = Live(next[Place(keep, i)])
      BY <1>1, <3>1, SeenAt DEF Map
    <3>3. Seen(map, k) = Live(map[i])
      BY <3>1, SeenAt DEF Map
    <3> QED
      BY <1>1, <3>1, <3>2, <3>3
  <2>2. CASE k \in KeysOf(map) /\ k \notin KeysOf(next)
    <3>1. PICK i \in DOMAIN map : map[i].key = k
      BY <2>2, PlaceOf
    <3>2. i \notin keep
      BY <1>1, <2>2, <3>1 DEF KeysOf
    <3>3. Seen(map, k) = Promise!Unused
      BY <3>1, <3>2, SeenAt DEF Map, Live
    <3> QED
      BY <2>2, <3>3, SeenNowhere
  <2>3. CASE k \notin KeysOf(map)
    BY <1>3, <2>3, SeenNowhere
  <2> QED
    BY <2>1, <2>2, <2>3
<1> QED
  BY <1>2, <1>3, <1>4 DEF next

-----------------------------------------------------------------------------
(* What the operations do to a Map *)

\* Pruning forgets no key and leaves the live ones.
LEMMA UnexpiredEffect ==
    ASSUME NEW map, Map(map)
    PROVE /\ Map(Unexpired(map)) /\ Len(Unexpired(map)) <= Len(map)
          /\ KeysOf(Unexpired(map)) \subseteq KeysOf(map)
          /\ \A k : Seen(Unexpired(map), k) = Seen(map, k)
          /\ \A k \in KeysOf(Unexpired(map)) : Seen(map, k) # Promise!Unused
<1> DEFINE keep == {i \in DOMAIN map : map[i].left > 0}
<1>1. keep \in SUBSET DOMAIN map /\ \A i \in DOMAIN map : map[i].left > 0 => i \in keep
  OBVIOUS
<1>2. Unexpired(map) = Selected(map, keep)
  BY DEF Unexpired
<1>3. \A i \in keep : map[i].left > 0
  OBVIOUS
<1> HIDE DEF keep
<1>4. /\ Map(Selected(map, keep)) /\ Len(Selected(map, keep)) <= Len(map)
      /\ KeysOf(Selected(map, keep)) \subseteq KeysOf(map)
      /\ \A k \in KeysOf(Selected(map, keep)) : \E i \in keep : map[i].key = k
      /\ \A k : Seen(Selected(map, keep), k) = Seen(map, k)
  BY <1>1, SelectedEffect, SelectedSeen
<1>5. ASSUME NEW k \in KeysOf(Selected(map, keep)) PROVE Seen(map, k) # Promise!Unused
  <2>1. PICK i \in keep : map[i].key = k
    BY <1>4
  <2>2. Seen(map, k) = Live(map[i]) /\ map[i].count >= 1 /\ map[i].left > 0
    BY <1>1, <1>3, <2>1, SeenAt, EntryType DEF Map
  <2> QED
    BY <2>2 DEF Live, Promise!Unused
<1> QED
  BY <1>2, <1>4, <1>5

\* Reading a key deletes it if it has expired and nothing else.
LEMMA ReadEffect ==
    ASSUME NEW map, Map(map), NEW key
    PROVE /\ Map(Read(map, key)) /\ Len(Read(map, key)) <= Len(map)
          /\ KeysOf(Read(map, key)) \subseteq KeysOf(map)
          /\ \A k : Seen(Read(map, key), k) = Seen(map, k)
          /\ key \in KeysOf(Read(map, key)) => Seen(map, key) # Promise!Unused
<1> DEFINE keep == {i \in DOMAIN map : map[i].key # key \/ map[i].left > 0}
<1>1. keep \in SUBSET DOMAIN map /\ \A i \in DOMAIN map : map[i].left > 0 => i \in keep
  OBVIOUS
<1>2. Read(map, key) = Selected(map, keep)
  BY DEF Read
<1>3. \A i \in keep : map[i].key = key => map[i].left > 0
  OBVIOUS
<1> HIDE DEF keep
<1>4. /\ Map(Selected(map, keep)) /\ Len(Selected(map, keep)) <= Len(map)
      /\ KeysOf(Selected(map, keep)) \subseteq KeysOf(map)
      /\ \A k \in KeysOf(Selected(map, keep)) : \E i \in keep : map[i].key = k
      /\ \A k : Seen(Selected(map, keep), k) = Seen(map, k)
  BY <1>1, SelectedEffect, SelectedSeen
<1>5. ASSUME key \in KeysOf(Selected(map, keep)) PROVE Seen(map, key) # Promise!Unused
  <2>1. PICK i \in keep : map[i].key = key
    BY <1>4, <1>5
  <2>2. Seen(map, key) = Live(map[i]) /\ map[i].count >= 1 /\ map[i].left > 0
    BY <1>1, <1>3, <2>1, SeenAt, EntryType DEF Map
  <2> QED
    BY <2>2 DEF Live, Promise!Unused
<1> QED
  BY <1>2, <1>4, <1>5

\* Making room keeps the newest entries, and all of them while there is room.
LEMMA EvictEffect ==
    ASSUME NEW map, Map(map), MaxKeys \in Nat \ {0}
    PROVE /\ Map(Evict(map)) /\ Len(Evict(map)) < MaxKeys
          /\ KeysOf(Evict(map)) \subseteq KeysOf(map)
          /\ \A k \in KeysOf(Evict(map)) : Seen(Evict(map), k) = Seen(map, k)
          /\ Len(map) < MaxKeys => Evict(map) = map
          /\ Len(map) >= MaxKeys => Len(Evict(map)) = MaxKeys - 1
<1> DEFINE first == Len(map) - MaxKeys + 2
           next == SubSeq(map, first, Len(map))
<1>1. Len(map) \in Nat /\ DOMAIN map = 1..Len(map)
  BY LenProperties DEF Map
<1>2. CASE Len(map) < MaxKeys
  BY <1>1, <1>2 DEF Evict
<1>3. CASE Len(map) >= MaxKeys
  <2>1. first \in Int /\ first >= 2 /\ \A x \in first..Len(map) : x \in DOMAIN map
    BY <1>1, <1>3
  <2>2. \A x \in first..Len(map) : map[x] \in Entries
    BY <2>1, EntryType
  <2>3. /\ next \in Seq(Entries)
        /\ Len(next) = IF first <= Len(map) THEN Len(map) - first + 1 ELSE 0
        /\ \A x \in 1..(Len(map) - first + 1) : next[x] = map[first + x - 1]
    BY <1>1, <2>1, <2>2, SubSeqProperties
  <2>4. Len(next) = MaxKeys - 1 /\ DOMAIN next = 1..(MaxKeys - 1)
    BY <1>1, <1>3, <2>3, LenProperties
  <2>5. \A x \in DOMAIN next : first + x - 1 \in DOMAIN map /\ next[x] = map[first + x - 1]
    BY <1>1, <1>3, <2>3, <2>4
  <2>6. Evict(map) = next
    BY <1>1, <1>3 DEF Evict
  <2>7. \A x, y \in DOMAIN next : first + x - 1 = first + y - 1 => x = y
    BY <2>1, <2>4
  <2> HIDE DEF next, first
  <2>8. Map(next)
    BY <2>3, <2>5, <2>7 DEF Map, Distinct
  <2>9. KeysOf(next) \subseteq KeysOf(map)
    BY <2>5 DEF KeysOf
  <2>10. ASSUME NEW k \in KeysOf(next) PROVE Seen(next, k) = Seen(map, k)
    <3>1. PICK x \in DOMAIN next : next[x].key = k
      BY PlaceOf
    <3> QED
      BY <2>5, <2>8, <3>1, SeenAt DEF Map
  <2> QED
    BY <1>1, <1>3, <2>4, <2>6, <2>8, <2>9, <2>10
<1> QED
  BY <1>1, <1>2, <1>3

\* A call adds one to the window of its key, or opens it, and touches no other.
LEMMA IncrementEffect ==
    ASSUME NEW map, Map(map), NEW key \in Keys,
           key \in KeysOf(map) => Seen(map, key) # Promise!Unused
    PROVE /\ Map(Increment(map, key))
          /\ KeysOf(Increment(map, key)) = KeysOf(map) \cup {key}
          /\ Len(Increment(map, key)) = IF key \in KeysOf(map) THEN Len(map) ELSE Len(map) + 1
          /\ Seen(Increment(map, key), key) = Promise!Charged(Seen(map, key))
          /\ \A k : k # key => Seen(Increment(map, key), k) = Seen(map, k)
<1> DEFINE next == Increment(map, key)
<1>1. Len(map) \in Nat /\ DOMAIN map = 1..Len(map)
  BY LenProperties DEF Map
<1>2. CASE key \in KeysOf(map)
  <2>1. /\ next = [i \in 1..Len(map) |-> IF map[i].key = key
                                         THEN [map[i] EXCEPT !.count = @ + 1] ELSE map[i]]
        /\ DOMAIN next = 1..Len(map)
    BY <1>1, <1>2 DEF Increment
  <2>2. ASSUME NEW i \in DOMAIN map, map[i].key = key
        PROVE /\ next[i] = [map[i] EXCEPT !.count = @ + 1] /\ next[i] \in Entries
              /\ next[i].key = key /\ next[i].count = map[i].count + 1
              /\ next[i].left = map[i].left
    <3>1. next[i] = [map[i] EXCEPT !.count = @ + 1]
      BY <1>1, <2>1, <2>2
    <3>2. map[i] \in Entries
      BY EntryType
    <3> HIDE DEF next
    <3> QED
      BY <2>2, <3>1, <3>2 DEF Entries
  <2>3. ASSUME NEW i \in DOMAIN map, map[i].key # key PROVE next[i] = map[i]
    BY <1>1, <2>1, <2>3
  <2> HIDE DEF next
  <2>4. \A i \in DOMAIN map : /\ next[i] \in Entries /\ next[i].count >= 1
                             /\ next[i].key = map[i].key
    <3> SUFFICES ASSUME NEW i \in DOMAIN map
                 PROVE next[i] \in Entries /\ next[i].count >= 1 /\ next[i].key = map[i].key
      OBVIOUS
    <3>1. map[i] \in Entries /\ map[i].count \in Nat /\ map[i].count >= 1
      BY EntryType
    <3>2. CASE map[i].key = key
      <4>1. next[i] \in Entries /\ next[i].key = map[i].key /\ next[i].count = map[i].count + 1
        BY <2>2, <3>2
      <4> QED
        BY <3>1, <4>1
    <3>3. CASE map[i].key # key
      BY <2>3, <3>1, <3>3
    <3> QED
      BY <3>2, <3>3
  <2>5. next \in Seq(Entries) /\ Len(next) = Len(map)
    BY <1>1, <2>1, <2>4
  <2>6. Map(next)
    BY <1>1, <2>1, <2>4, <2>5 DEF Map, Distinct
  <2>7. KeysOf(next) = KeysOf(map) /\ key \in KeysOf(map)
    BY <1>1, <1>2, <2>1, <2>4 DEF KeysOf
  <2>8. PICK i \in DOMAIN map : map[i].key = key
    BY <1>2, PlaceOf
  <2>9. Seen(map, key) = Live(map[i]) /\ Seen(next, key) = Live(next[i])
    <3>1. Seen(map, key) = Live(map[i])
      BY <2>8, SeenAt DEF Map
    <3>2. i \in DOMAIN next /\ next[i].key = key
      BY <1>1, <2>1, <2>2, <2>8
    <3>3. Seen(next, key) = Live(next[i])
      BY <2>6, <3>2, SeenAt DEF Map
    <3> QED
      BY <3>1, <3>3
  <2>10. Seen(next, key) = Promise!Charged(Seen(map, key))
    <3>1. Seen(map, key) # Promise!Unused
      BY <1>2
    <3>2. Live(map[i]) = [count |-> map[i].count, left |-> map[i].left] /\ map[i].left > 0
      BY <2>9, <3>1 DEF Live
    <3>3. Live(next[i]) = [count |-> map[i].count + 1, left |-> map[i].left]
      BY <2>2, <2>8, <3>2 DEF Live
    <3> QED
      BY <2>9, <3>1, <3>2, <3>3 DEF Promise!Charged
  <2>11. ASSUME NEW k, k # key PROVE Seen(next, k) = Seen(map, k)
    <3>1. CASE k \in KeysOf(map)
      <4>1. PICK j \in DOMAIN map : map[j].key = k
        BY <3>1, PlaceOf
      <4> QED
        BY <1>1, <2>1, <2>3, <2>6, <2>11, <4>1, SeenAt DEF Map
    <3>2. CASE k \notin KeysOf(map)
      BY <2>7, <3>2, SeenNowhere
    <3> QED
      BY <3>1, <3>2
  <2> QED
    BY <1>2, <2>5, <2>6, <2>7, <2>10, <2>11 DEF next
<1>3. CASE key \notin KeysOf(map)
  <2> DEFINE opened == [key |-> key, count |-> 1, left |-> Window]
  <2>1. next = Append(map, opened)
    BY <1>3 DEF Increment
  <2>2. opened \in Entries
    BY LimitsType DEF Entries
  <2>3. /\ next \in Seq(Entries) /\ Len(next) = Len(map) + 1
        /\ \A i \in 1..Len(map) : next[i] = map[i]
        /\ next[Len(map) + 1] = opened
    BY <2>1, <2>2, AppendProperties DEF Map
  <2>4. DOMAIN next = 1..(Len(map) + 1)
    BY <2>3, LenProperties
  <2>5. opened.key = key /\ opened.count = 1 /\ opened.left = Window /\ opened.left > 0
    BY LimitsType
  <2>6. Live(opened) = Promise!Charged(Promise!Unused)
    BY <2>5 DEF Live, Promise!Charged
  <2> HIDE DEF next, opened
  <2>7. \A i \in DOMAIN map : i \in DOMAIN next /\ next[i] = map[i] /\ map[i].key # key
    BY <1>1, <1>3, <2>3, <2>4 DEF KeysOf
  <2>8. \A i \in DOMAIN next : i \in DOMAIN map \/ i = Len(map) + 1
    BY <1>1, <2>4
  <2>9. Map(next)
    <3>1. Distinct(next)
      BY <2>3, <2>5, <2>7, <2>8 DEF Map, Distinct
    <3>2. \A i \in DOMAIN next : next[i].count >= 1
      BY <2>3, <2>5, <2>7, <2>8 DEF Map
    <3> QED
      BY <2>3, <3>1, <3>2 DEF Map
  <2>10. Len(map) + 1 \in DOMAIN next
    BY <1>1, <2>4
  <2>11. KeysOf(next) = KeysOf(map) \cup {key}
    BY <2>3, <2>5, <2>7, <2>8, <2>10 DEF KeysOf
  <2>12. Seen(next, key) = Live(opened)
    BY <2>3, <2>5, <2>9, <2>10, SeenAt DEF Map
  <2>13. Seen(map, key) = Promise!Unused
    BY <1>3, SeenNowhere
  <2>14. ASSUME NEW k, k # key PROVE Seen(next, k) = Seen(map, k)
    <3>1. CASE k \in KeysOf(map)
      <4>1. PICK j \in DOMAIN map : map[j].key = k
        BY <3>1, PlaceOf
      <4> QED
        BY <2>7, <2>9, <4>1, SeenAt DEF Map
    <3>2. CASE k \notin KeysOf(map)
      BY <2>11, <2>14, <3>2, SeenNowhere
    <3> QED
      BY <3>1, <3>2
  <2> QED
    BY <1>3, <2>3, <2>6, <2>9, <2>11, <2>12, <2>13, <2>14 DEF next
<1> QED
  BY <1>2, <1>3

\* A tick takes from every window what the promise says it does.
LEMMA AgedEffect ==
    ASSUME NEW map, Map(map)
    PROVE /\ Map(Aged(map)) /\ Len(Aged(map)) = Len(map) /\ KeysOf(Aged(map)) = KeysOf(map)
          /\ \A k : Seen(Aged(map), k) = Promise!Elapse(Seen(map, k))
<1> DEFINE next == Aged(map)
<1>1. Len(map) \in Nat /\ DOMAIN map = 1..Len(map)
  BY LenProperties DEF Map
<1>2. DOMAIN next = 1..Len(map) /\ next = [i \in 1..Len(map) |-> next[i]]
  BY <1>1 DEF Aged
<1>3. ASSUME NEW i \in DOMAIN map
      PROVE /\ next[i] \in Entries /\ next[i].key = map[i].key /\ next[i].count = map[i].count
            /\ next[i].left = IF map[i].left = 0 THEN 0 ELSE map[i].left - 1
  <2>1. next[i] = [map[i] EXCEPT !.left = IF @ = 0 THEN 0 ELSE @ - 1]
    BY DEF Aged
  <2>2. map[i] \in Entries
    BY EntryType
  <2> HIDE DEF next
  <2> QED
    BY <2>1, <2>2, LimitsType DEF Entries
<1> HIDE DEF next
<1>4. next \in Seq(Entries) /\ Len(next) = Len(map)
  BY <1>1, <1>2, <1>3
<1>5. Map(next)
  BY <1>1, <1>2, <1>3, <1>4 DEF Map, Distinct
<1>6. KeysOf(next) = KeysOf(map)
  BY <1>1, <1>2, <1>3 DEF KeysOf
<1>7. ASSUME NEW i \in DOMAIN map PROVE Live(next[i]) = Promise!Elapse(Live(map[i]))
  <2>1. map[i].left \in Nat /\ map[i].count \in Nat
    BY EntryType, LimitsType
  <2>2. CASE map[i].left = 0
    BY <1>3, <2>2 DEF Live, Promise!Elapse, Promise!Unused
  <2>3. CASE map[i].left = 1
    BY <1>3, <2>3 DEF Live, Promise!Elapse, Promise!Unused
  <2>4. CASE map[i].left > 1
    BY <1>3, <2>1, <2>4 DEF Live, Promise!Elapse, Promise!Unused
  <2> QED
    BY <2>1, <2>2, <2>3, <2>4
<1>8. ASSUME NEW k PROVE Seen(next, k) = Promise!Elapse(Seen(map, k))
  <2>1. CASE k \in KeysOf(map)
    <3>1. PICK i \in DOMAIN map : map[i].key = k
      BY <2>1, PlaceOf
    <3> QED
      BY <1>1, <1>2, <1>3, <1>5, <1>7, <3>1, SeenAt DEF Map
  <2>2. CASE k \notin KeysOf(map)
    BY <1>6, <2>2, SeenNowhere DEF Promise!Elapse, Promise!Unused
  <2> QED
    BY <2>1, <2>2
<1> QED
  BY <1>4, <1>5, <1>6, <1>8 DEF next

-----------------------------------------------------------------------------
(* The calls of the limiters: a Map stays a Map, it stays in its bounds, and *)
(* as long as it has room each call does to its keys what is promised.       *)

LEMMA LimitType == \A k \in Keys : LimitOf(k) \in Nat \ {0}
BY LimitsType DEF LimitOf

\* prune() and the room it makes leave only live windows, as they were.
LEMMA PrunedEffect ==
    ASSUME NEW map, Map(map), MaxKeys \in Nat \ {0}
    PROVE /\ Map(PasswordPruned(map)) /\ Len(PasswordPruned(map)) < MaxKeys
          /\ KeysOf(PasswordPruned(map)) \subseteq KeysOf(map)
          /\ \A k \in KeysOf(PasswordPruned(map)) :
                /\ Seen(PasswordPruned(map), k) = Seen(map, k)
                /\ Seen(map, k) # Promise!Unused
          /\ Len(map) < MaxKeys => \A k : Seen(PasswordPruned(map), k) = Seen(map, k)
<1> DEFINE pruned == Unexpired(map)
<1>1. /\ Map(pruned) /\ Len(pruned) <= Len(map) /\ KeysOf(pruned) \subseteq KeysOf(map)
      /\ \A k : Seen(pruned, k) = Seen(map, k)
      /\ \A k \in KeysOf(pruned) : Seen(map, k) # Promise!Unused
  BY UnexpiredEffect
<1>2. Len(pruned) \in Nat /\ Len(map) \in Nat
  BY <1>1, LenProperties DEF Map
<1>3. PasswordPruned(map) = Evict(pruned)
  BY DEF PasswordPruned
<1> HIDE DEF pruned
<1> QED
  BY <1>1, <1>2, <1>3, EvictEffect

\* consume() of the boost and lookup limiters.
LEMMA BoostEffect ==
    ASSUME NEW map, Map(map), NEW key \in Keys, MaxKeys \in Nat \ {0}, Len(map) <= MaxKeys
    PROVE /\ Map(BoostConsume(map, key)) /\ Len(BoostConsume(map, key)) <= MaxKeys
          /\ KeysOf(BoostConsume(map, key)) \subseteq KeysOf(map) \cup {key}
          /\ Blocked(map, key) => BoostConsume(map, key) = map
          /\ Len(map) < MaxKeys /\ ~Blocked(map, key) =>
                /\ Seen(BoostConsume(map, key), key) = Promise!Charged(Seen(map, key))
                /\ \A k : k # key => Seen(BoostConsume(map, key), k) = Seen(map, k)
<1> DEFINE next == BoostConsume(map, key)
           room == PasswordPruned(map)
<1>1. /\ CountOf(map, key) \in Nat /\ CountOf(map, key) = Seen(map, key).count
      /\ CountOf(map, key) = 0 <=> Seen(map, key) = Promise!Unused
  BY CountSeen
<1>2. Len(map) \in Nat
  BY LenProperties DEF Map
<1>3. CASE CountOf(map, key) = 0
  <2>1. next = Increment(room, key) /\ ~Blocked(map, key)
    BY <1>3, LimitType DEF BoostConsume, PasswordPruned, Blocked
  <2>2. /\ Map(room) /\ Len(room) < MaxKeys /\ KeysOf(room) \subseteq KeysOf(map)
        /\ \A k \in KeysOf(room) : Seen(map, k) # Promise!Unused
        /\ Len(map) < MaxKeys => \A k : Seen(room, k) = Seen(map, k)
    BY PrunedEffect
  <2>3. key \notin KeysOf(room) /\ Len(room) \in Nat
    BY <1>1, <1>3, <2>2, LenProperties DEF Map
  <2> HIDE DEF room, next
  <2>4. /\ Map(next) /\ KeysOf(next) = KeysOf(room) \cup {key} /\ Len(next) = Len(room) + 1
        /\ Seen(next, key) = Promise!Charged(Seen(room, key))
        /\ \A k : k # key => Seen(next, k) = Seen(room, k)
    BY <2>1, <2>2, <2>3, IncrementEffect
  <2> QED
    BY <2>1, <2>2, <2>3, <2>4 DEF next
<1>4. CASE CountOf(map, key) # 0 /\ Blocked(map, key)
  BY <1>4 DEF BoostConsume
<1>5. CASE CountOf(map, key) # 0 /\ ~Blocked(map, key)
  <2>1. next = Increment(map, key)
    BY <1>5 DEF BoostConsume
  <2>2. Seen(map, key) # Promise!Unused
    BY <1>1, <1>5
  <2>3. key \in KeysOf(map)
    BY <2>2, SeenNowhere
  <2> HIDE DEF next
  <2>4. /\ Map(next) /\ KeysOf(next) = KeysOf(map) \cup {key} /\ Len(next) = Len(map)
        /\ Seen(next, key) = Promise!Charged(Seen(map, key))
        /\ \A k : k # key => Seen(next, k) = Seen(map, k)
    BY <2>1, <2>2, <2>3, IncrementEffect
  <2> QED
    BY <1>5, <2>4 DEF next
<1> QED
  BY <1>3, <1>4, <1>5

\* The two keys of a password change that is let through.
LEMMA PasswordEffect ==
    ASSUME NEW map, Map(map), NEW a \in Accounts, NEW ip \in Ips, MaxKeys \in Nat \ {0}
    PROVE LET pruned == PasswordPruned(map)
              next == Increment(Increment(pruned, a), ip)
          IN /\ Map(next) /\ Len(next) <= MaxKeys + 1
             /\ KeysOf(next) = KeysOf(pruned) \cup {a, ip}
             /\ KeysOf(next) \subseteq KeysOf(map) \cup {a, ip}
             /\ \A k \in {a, ip} : Seen(next, k) = Promise!Charged(Seen(pruned, k))
             /\ \A k : k \notin {a, ip} => Seen(next, k) = Seen(pruned, k)
<1> DEFINE pruned == PasswordPruned(map)
           one == Increment(pruned, a)
           next == Increment(one, ip)
<1>1. /\ Map(pruned) /\ Len(pruned) < MaxKeys /\ KeysOf(pruned) \subseteq KeysOf(map)
      /\ \A k \in KeysOf(pruned) : Seen(pruned, k) # Promise!Unused
  BY PrunedEffect
<1>2. a \in Keys /\ ip \in Keys /\ a # ip
  BY KeysDiffer DEF Keys
<1>3. Len(pruned) \in Nat
  BY <1>1, LenProperties DEF Map
<1> HIDE DEF pruned
<1>4. /\ Map(one) /\ KeysOf(one) = KeysOf(pruned) \cup {a} /\ Len(one) <= Len(pruned) + 1
      /\ Seen(one, a) = Promise!Charged(Seen(pruned, a))
      /\ \A k : k # a => Seen(one, k) = Seen(pruned, k)
  BY <1>1, <1>2, <1>3, IncrementEffect
<1>5. (ip \in KeysOf(one) => Seen(one, ip) # Promise!Unused) /\ Len(one) \in Nat
  BY <1>1, <1>2, <1>4, LenProperties DEF Map
<1> HIDE DEF one
<1>6. /\ Map(next) /\ KeysOf(next) = KeysOf(one) \cup {ip} /\ Len(next) <= Len(one) + 1
      /\ Seen(next, ip) = Promise!Charged(Seen(one, ip))
      /\ \A k : k # ip => Seen(next, k) = Seen(one, k)
  BY <1>2, <1>4, <1>5, IncrementEffect
<1>7. Len(next) \in Nat
  BY <1>6, LenProperties DEF Map
<1> HIDE DEF next
<1>8. /\ Len(next) <= MaxKeys + 1
      /\ KeysOf(next) = KeysOf(pruned) \cup {a, ip}
      /\ KeysOf(next) \subseteq KeysOf(map) \cup {a, ip}
      /\ \A k \in {a, ip} : Seen(next, k) = Promise!Charged(Seen(pruned, k))
      /\ \A k : k \notin {a, ip} => Seen(next, k) = Seen(pruned, k)
  BY <1>1, <1>2, <1>3, <1>4, <1>5, <1>6, <1>7
<1> QED
  BY <1>6, <1>8 DEF next, one, pruned

\* consume() of the login limiter, which has no limit of its own.
LEMMA LoginEffect ==
    ASSUME NEW map, Map(map), NEW key \in Keys, MaxKeys \in Nat \ {0}, Len(map) <= MaxKeys
    PROVE /\ Map(LoginConsume(map, key)) /\ Len(LoginConsume(map, key)) <= MaxKeys
          /\ KeysOf(LoginConsume(map, key)) \subseteq KeysOf(map) \cup {key}
          /\ Len(map) < MaxKeys =>
                /\ Seen(LoginConsume(map, key), key) = Promise!Charged(Seen(map, key))
                /\ \A k : k # key => Seen(LoginConsume(map, key), k) = Seen(map, k)
<1> DEFINE next == LoginConsume(map, key)
           found == Read(map, key)
           room == MakeRoom(found)
<1>1. /\ Map(found) /\ Len(found) <= Len(map) /\ KeysOf(found) \subseteq KeysOf(map)
      /\ \A k : Seen(found, k) = Seen(map, k)
      /\ key \in KeysOf(found) => Seen(map, key) # Promise!Unused
  BY ReadEffect
<1>2. Len(found) \in Nat /\ Len(map) \in Nat
  BY <1>1, LenProperties DEF Map
<1>3. next = Increment(IF key \in KeysOf(found) THEN found ELSE room, key)
  BY DEF LoginConsume
<1> HIDE DEF found, next
<1>4. CASE key \in KeysOf(found)
  <2>1. /\ Map(next) /\ KeysOf(next) = KeysOf(found) \cup {key} /\ Len(next) = Len(found)
        /\ Seen(next, key) = Promise!Charged(Seen(found, key))
        /\ \A k : k # key => Seen(next, k) = Seen(found, k)
    BY <1>1, <1>3, <1>4, IncrementEffect
  <2> QED
    BY <1>1, <1>2, <2>1 DEF next
<1>5. CASE key \notin KeysOf(found)
  <2>1. /\ Map(room) /\ Len(room) < MaxKeys /\ KeysOf(room) \subseteq KeysOf(found)
        /\ Len(map) < MaxKeys => room = found
    <3>1. CASE Len(found) < MaxKeys
      BY <1>1, <3>1 DEF MakeRoom
    <3>2. CASE ~(Len(found) < MaxKeys)
      BY <1>1, <1>2, <3>2, PrunedEffect DEF MakeRoom, PasswordPruned
    <3> QED
      BY <3>1, <3>2
  <2>2. Len(room) \in Nat /\ key \notin KeysOf(room)
    BY <1>5, <2>1, LenProperties DEF Map
  <2> HIDE DEF room
  <2>3. /\ Map(next) /\ KeysOf(next) = KeysOf(room) \cup {key} /\ Len(next) = Len(room) + 1
        /\ Seen(next, key) = Promise!Charged(Seen(room, key))
        /\ \A k : k # key => Seen(next, k) = Seen(room, k)
    BY <1>3, <1>5, <2>1, <2>2, IncrementEffect
  <2> QED
    BY <1>1, <1>2, <2>1, <2>2, <2>3 DEF next
<1> QED
  BY <1>4, <1>5

-----------------------------------------------------------------------------
(* The use of the limiter and the history of its keys *)

Slots == [count : Nat, left : 0..Window]

LEMMA SlotSteps ==
    ASSUME NEW e \in Slots
    PROVE /\ Promise!Charged(e) \in Slots /\ Promise!Elapse(e) \in Slots
          /\ e # Promise!Unused => Promise!Charged(e).count = e.count + 1
          /\ Promise!Charged(Promise!Unused).count = 1
          /\ Promise!Elapse(e).count <= e.count
<1>1. Promise!Unused \in Slots /\ Promise!Unused.count = 0
  BY LimitsType DEF Slots, Promise!Unused
<1>2. Promise!Charged(Promise!Unused) \in Slots /\ Promise!Charged(Promise!Unused).count = 1
  BY LimitsType DEF Slots, Promise!Charged
<1>3. e # Promise!Unused => Promise!Charged(e) \in Slots /\ Promise!Charged(e).count = e.count + 1
  BY DEF Slots, Promise!Charged
<1>4. Promise!Elapse(e) \in Slots /\ Promise!Elapse(e).count <= e.count
  <2>1. CASE e.left <= 1
    BY <1>1, <2>1 DEF Slots, Promise!Elapse
  <2>2. CASE ~(e.left <= 1)
    BY <2>2, LimitsType DEF Slots, Promise!Elapse
  <2> QED
    BY <2>1, <2>2
<1> QED
  BY <1>2, <1>3, <1>4

\* What is fixed with the use; a Map with room for every key is never full.
LEMMA Setting ==
    ASSUME TypeOK, MapsFit
    PROVE /\ MaxKeys \in Nat \ {0}
          /\ use.limiter \in Limiters /\ use.keys \in SUBSET Keys /\ use.calls \in SUBSET Calls
          /\ IsFiniteSet(use.calls) /\ Cardinality(use.calls) \in Nat
          /\ HasRoom => Len(windows) < MaxKeys
<1>1. /\ MaxKeys \in Nat \ {0} /\ use.limiter \in Limiters
      /\ use.keys \in SUBSET Keys /\ use.calls \in SUBSET Calls
  BY UsesType DEF TypeOK, MaxKeys
<1>2. IsFiniteSet(use.calls) /\ Cardinality(use.calls) \in Nat
  BY <1>1, FinitelyMany, FS_Subset, FS_CardinalityType
<1>3. IsFiniteSet(use.keys) /\ Cardinality(use.keys) \in Nat
  BY <1>1, FinitelyMany, FS_Subset, FS_CardinalityType DEF Keys
<1>4. IsFiniteSet(KeysOf(windows)) /\ Cardinality(KeysOf(windows)) = Len(windows)
  BY AsManyKeys DEF MapsFit
<1>5. Cardinality(KeysOf(windows)) <= Cardinality(use.keys)
  BY <1>3, FS_Subset DEF MapsFit
<1>6. Len(windows) \in Nat
  BY LenProperties DEF TypeOK
<1>7. HasRoom => Len(windows) < MaxKeys
  BY <1>1, <1>3, <1>4, <1>5, <1>6 DEF HasRoom, MaxKeys
<1> QED
  BY <1>1, <1>2, <1>7

\* Charging keys leaves the history of the others.
LEMMA AccountEffect ==
    ASSUME TypeOK, NEW keys, Account(keys)
    PROVE /\ spent' \in [Keys -> Slots]
          /\ \A k \in Keys : spent'[k] = IF k \in keys /\ spent[k].count < SpentBound(k)
                                        THEN Promise!Charged(spent[k]) ELSE spent[k]
<1>1. \A k \in Keys : spent[k] \in Slots
  BY DEF TypeOK, Slots
<1>2. \A k \in Keys : Promise!Charged(spent[k]) \in Slots
  BY <1>1, SlotSteps
<1> QED
  BY <1>1, <1>2 DEF Account

\* A call that every key of it allows is charged to each of them.
LEMMA AllowedCharge ==
    ASSUME TypeOK, MapsFit, NEW keys \in SUBSET Keys, Account(keys),
           \A k \in keys : spent[k].count < LimitOf(k)
    PROVE spent' = [k \in Keys |-> IF k \in keys THEN Promise!Charged(spent[k]) ELSE spent[k]]
<1>1. \A k \in keys : spent[k].count < SpentBound(k)
  <2> SUFFICES ASSUME NEW k \in keys PROVE spent[k].count < SpentBound(k)
    OBVIOUS
  <2>1. spent[k].count \in Nat /\ LimitOf(k) \in Nat /\ Cardinality(use.calls) \in Nat
    BY LimitType, Setting DEF TypeOK
  <2> QED
    BY <2>1 DEF SpentBound
<1> QED
  BY <1>1 DEF Account

-----------------------------------------------------------------------------
(* The steps keep the invariant *)

LEMMA InitIsGood == Init => IInv
<1> SUFFICES ASSUME Init PROVE IInv
  OBVIOUS
<1>1. windows = <<>> /\ ips = <<>> /\ pending = [c \in Calls |-> "none"] /\ use \in Uses
      /\ spent = [k \in Keys |-> Promise!Unused] /\ answer = TRUE
  BY DEF Init, Promise!Init
<1>2. <<>> \in Seq(Entries) /\ Len(<<>>) = 0 /\ DOMAIN <<>> = {}
  BY EmptySeq
<1>3. Map(<<>>) /\ KeysOf(<<>>) = {}
  BY <1>2 DEF Map, Distinct, KeysOf
<1>4. TypeOK
  <2>1. Promise!Unused \in [count : Nat, left : 0..Window]
    BY LimitsType DEF Promise!Unused
  <2> QED
    BY <1>1, <1>2, <2>1 DEF TypeOK
<1>5. MaxKeys \in Nat \ {0}
  BY <1>1, UsesType DEF MaxKeys
<1>6. MapsFit
  BY <1>1, <1>2, <1>3, <1>5 DEF MapsFit
<1>7. PendingFit
  BY <1>1 DEF PendingFit
<1>8. Mirror
  BY <1>1, <1>3, SeenNowhere DEF Mirror
<1>9. FewFailures
  <2>1. ASSUME NEW a \in Accounts
        PROVE Seen(windows, a).count + Cardinality(Waiting(a)) <= AccountLimit + Cardinality(use.calls) - 1
    <3>1. Waiting(a) = {}
      BY <1>1, <1>4, <1>6, Setting DEF Waiting
    <3>2. Seen(windows, a).count = 0
      BY <1>1, <1>3, SeenNowhere DEF Promise!Unused
    <3> QED
      BY <1>4, <1>6, <3>1, <3>2, FS_EmptySet, Setting, LimitsType
  <2> QED
    BY <2>1 DEF FewFailures
<1> QED
  BY <1>4, <1>6, <1>7, <1>8, <1>9 DEF IInv

\* The boost and lookup limiters: the count tells whether the key is blocked.
LEMMA BoostCallKeeps ==
    ASSUME IInv, NEW ip \in Ips, BoostCall(ip)
    PROVE IInv' /\ (HasRoom => Promise!Next)
<1>1. /\ use.limiter = "boost" /\ ip \in use.keys /\ windows' = BoostConsume(windows, ip)
      /\ answer' = ~Blocked(windows, ip)
      /\ ips' = ips /\ pending' = pending /\ use' = use
      /\ Blocked(windows, ip) => spent' = spent
      /\ ~Blocked(windows, ip) => Account({ip})
  BY DEF BoostCall, Charge
<1>2. ip \in Keys
  BY DEF Keys
<1>3. /\ MaxKeys \in Nat \ {0} /\ use.keys \in SUBSET Keys
      /\ HasRoom => Len(windows) < MaxKeys
  BY Setting DEF IInv
<1>4. Len(windows) <= MaxKeys /\ Map(windows)
  BY <1>1, <1>3 DEF IInv, MapsFit
<1>5. /\ Map(windows') /\ Len(windows') <= MaxKeys
      /\ KeysOf(windows') \subseteq KeysOf(windows) \cup {ip}
      /\ Blocked(windows, ip) => windows' = windows
      /\ Len(windows) < MaxKeys /\ ~Blocked(windows, ip) =>
            /\ Seen(windows', ip) = Promise!Charged(Seen(windows, ip))
            /\ \A k : k # ip => Seen(windows', k) = Seen(windows, k)
  BY <1>1, <1>2, <1>3, <1>4, BoostEffect
<1>6. TypeOK'
  <2>1. spent' \in [Keys -> [count : Nat, left : 0..Window]]
    BY <1>1, AccountEffect DEF IInv, TypeOK, Slots
  <2>2. answer' \in BOOLEAN
    BY <1>1
  <2> QED
    BY <1>1, <1>5, <2>1, <2>2 DEF IInv, TypeOK, Map
<1>7. MapsFit'
  BY <1>1, <1>3, <1>5 DEF IInv, MapsFit, MaxKeys
<1>8. PendingFit'
  BY <1>1 DEF IInv, PendingFit
<1>9. ASSUME HasRoom
      PROVE /\ \A k \in Keys : spent[k] = Seen(windows, k)
            /\ Blocked(windows, ip) <=> ~(spent[ip].count < LimitOf(ip))
  <2>1. \A k \in Keys : spent[k] = Seen(windows, k)
    BY <1>9 DEF IInv, Mirror
  <2>2. CountOf(windows, ip) = spent[ip].count /\ spent[ip].count \in Nat /\ LimitOf(ip) \in Nat
    BY <1>2, <1>4, <2>1, CountSeen, LimitType
  <2> QED
    BY <2>1, <2>2 DEF Blocked
<1>10. HasRoom /\ ~Blocked(windows, ip) =>
          spent' = [k \in Keys |-> IF k \in {ip} THEN Promise!Charged(spent[k]) ELSE spent[k]]
  BY <1>1, <1>2, <1>9, AllowedCharge DEF IInv
<1>11. Mirror'
  <2> SUFFICES ASSUME HasRoom, NEW k \in Keys PROVE spent'[k] = Seen(windows', k)
    BY <1>1 DEF Mirror, HasRoom
  <2>1. CASE Blocked(windows, ip)
    BY <1>1, <1>5, <1>9, <2>1
  <2>2. CASE ~Blocked(windows, ip)
    BY <1>3, <1>5, <1>9, <1>10, <2>2
  <2> QED
    BY <2>1, <2>2
<1>12. FewFailures'
  BY <1>1 DEF FewFailures
<1>13. HasRoom => Promise!Next
  <2> SUFFICES ASSUME HasRoom PROVE Promise!Call({ip, ip})
    BY <1>2 DEF Promise!Next
  <2>1. answer' = \A k \in {ip, ip} : Promise!Below(k)
    BY <1>1, <1>9 DEF Promise!Below
  <2>2. CASE Blocked(windows, ip)
    BY <1>1, <2>1, <2>2 DEF Promise!Call
  <2>3. CASE ~Blocked(windows, ip)
    BY <1>1, <1>10, <2>1, <2>3 DEF Promise!Call
  <2> QED
    BY <2>2, <2>3
<1> QED
  BY <1>6, <1>7, <1>8, <1>11, <1>12, <1>13 DEF IInv

\* A password change prunes first, and is charged to both keys or to none.
LEMMA PasswordCallKeeps ==
    ASSUME IInv, NEW a \in Accounts, NEW ip \in Ips, PasswordCall(a, ip)
    PROVE IInv' /\ (HasRoom => Promise!Next)
<1> DEFINE pruned == PasswordPruned(windows)
           grown == Increment(Increment(pruned, a), ip)
           blocked == PasswordBlocked(pruned, a, ip)
<1>1. /\ use.limiter = "password" /\ {a, ip} \subseteq use.keys
      /\ windows' = IF ~blocked THEN grown ELSE pruned
      /\ answer' = ~blocked
      /\ ips' = ips /\ pending' = pending /\ use' = use
      /\ blocked => spent' = spent
      /\ ~blocked => Account({a, ip})
  BY DEF PasswordCall, Charge
<1>2. a \in Keys /\ ip \in Keys
  BY DEF Keys
<1>3. /\ MaxKeys \in Nat \ {0} /\ use.keys \in SUBSET Keys
      /\ HasRoom => Len(windows) < MaxKeys
  BY Setting DEF IInv
<1>4. Map(windows) /\ KeysOf(windows) \subseteq use.keys
  BY DEF IInv, MapsFit
<1>5. /\ Map(pruned) /\ Len(pruned) < MaxKeys
      /\ KeysOf(pruned) \subseteq KeysOf(windows)
      /\ Len(windows) < MaxKeys => \A k : Seen(pruned, k) = Seen(windows, k)
  BY <1>3, <1>4, PrunedEffect
<1>6. /\ Map(grown) /\ Len(grown) <= MaxKeys + 1
      /\ KeysOf(grown) \subseteq KeysOf(windows) \cup {a, ip}
      /\ \A k \in {a, ip} : Seen(grown, k) = Promise!Charged(Seen(pruned, k))
      /\ \A k : k \notin {a, ip} => Seen(grown, k) = Seen(pruned, k)
  BY <1>3, <1>4, PasswordEffect
<1>7. blocked <=> Blocked(pruned, a) \/ Blocked(pruned, ip)
  BY DEF PasswordBlocked
<1>8. Len(pruned) \in Nat
  BY <1>5, LenProperties DEF Map
<1> HIDE DEF pruned, grown, blocked
<1>9. /\ Map(windows') /\ Len(windows') <= MaxKeys + 1 /\ KeysOf(windows') \subseteq use.keys
  BY <1>1, <1>3, <1>4, <1>5, <1>6, <1>8
<1>10. TypeOK'
  <2>1. spent' \in [Keys -> [count : Nat, left : 0..Window]]
    BY <1>1, AccountEffect DEF IInv, TypeOK, Slots
  <2>2. answer' \in BOOLEAN
    BY <1>1, <1>7
  <2> QED
    BY <1>1, <1>9, <2>1, <2>2 DEF IInv, TypeOK, Map
<1>11. MapsFit'
  BY <1>1, <1>3, <1>9 DEF IInv, MapsFit, MaxKeys
<1>12. PendingFit'
  BY <1>1 DEF IInv, PendingFit
<1>13. ASSUME HasRoom
       PROVE /\ \A k \in Keys : spent[k] = Seen(pruned, k)
             /\ \A k \in {a, ip} : Blocked(pruned, k) <=> ~(spent[k].count < LimitOf(k))
  <2>1. \A k \in Keys : spent[k] = Seen(pruned, k)
    BY <1>3, <1>5, <1>13 DEF IInv, Mirror
  <2>2. ASSUME NEW k \in {a, ip} PROVE Blocked(pruned, k) <=> ~(spent[k].count < LimitOf(k))
    <3>1. CountOf(pruned, k) = spent[k].count /\ spent[k].count \in Nat /\ LimitOf(k) \in Nat
      BY <1>2, <1>5, <2>1, CountSeen, LimitType
    <3> QED
      BY <3>1 DEF Blocked
  <2> QED
    BY <2>1, <2>2
<1>14. HasRoom /\ ~blocked =>
          spent' = [k \in Keys |-> IF k \in {a, ip} THEN Promise!Charged(spent[k]) ELSE spent[k]]
  <2> SUFFICES ASSUME HasRoom, ~blocked
               PROVE spent' = [k \in Keys |-> IF k \in {a, ip} THEN Promise!Charged(spent[k]) ELSE spent[k]]
    OBVIOUS
  <2>1. \A k \in {a, ip} : spent[k].count < LimitOf(k)
    BY <1>7, <1>13
  <2>2. {a, ip} \in SUBSET Keys
    BY <1>2
  <2> QED
    BY <1>1, <2>1, <2>2, AllowedCharge DEF IInv
<1>15. Mirror'
  <2> SUFFICES ASSUME HasRoom, NEW k \in Keys PROVE spent'[k] = Seen(windows', k)
    BY <1>1 DEF Mirror, HasRoom
  <2>1. CASE blocked
    BY <1>1, <1>13, <2>1
  <2>2. CASE ~blocked
    BY <1>1, <1>6, <1>13, <1>14, <2>2
  <2> QED
    BY <2>1, <2>2
<1>16. FewFailures'
  BY <1>1 DEF FewFailures
<1>17. HasRoom => Promise!Next
  <2> SUFFICES ASSUME HasRoom PROVE Promise!Call({a, ip})
    BY <1>2 DEF Promise!Next
  <2>1. answer' = \A k \in {a, ip} : Promise!Below(k)
    BY <1>1, <1>7, <1>13 DEF Promise!Below
  <2>2. CASE blocked
    BY <1>1, <2>1, <2>2 DEF Promise!Call
  <2>3. CASE ~blocked
    BY <1>1, <1>14, <2>1, <2>3 DEF Promise!Call
  <2> QED
    BY <2>2, <2>3
<1> QED
  BY <1>10, <1>11, <1>12, <1>15, <1>16, <1>17 DEF IInv

\* Letting a login through to the row uses one of the waiting places.
LEMMA LoginArrivesKeeps ==
    ASSUME IInv, NEW c \in Calls, NEW a \in Accounts, NEW ip \in Ips, LoginArrives(c, a, ip)
    PROVE IInv'
<1>1. /\ use.limiter = "login" /\ c \in use.calls /\ {a, ip} \subseteq use.keys
      /\ pending[c] = "none"
      /\ ips' = LoginConsume(ips, ip) \/ ips' = Read(ips, ip)
      /\ windows' = Read(windows, a) \/ windows' = windows
      /\ answer' \in BOOLEAN
      /\ answer' => ~Blocked(windows, a)
      /\ pending' = IF answer' THEN [pending EXCEPT ![c] = a] ELSE pending
      /\ spent' = spent /\ use' = use
  BY DEF LoginArrives
<1>2. a \in Keys /\ ip \in Keys /\ LimitOf(a) = AccountLimit
  BY DEF Keys, LimitOf
<1>3. /\ MaxKeys \in Nat \ {0} /\ use.calls \in SUBSET Calls
      /\ IsFiniteSet(use.calls) /\ Cardinality(use.calls) \in Nat
  BY Setting DEF IInv
<1>4. /\ Map(windows) /\ KeysOf(windows) \subseteq use.keys /\ Len(windows) <= MaxKeys
      /\ Map(ips) /\ KeysOf(ips) \subseteq use.keys /\ Len(ips) <= MaxKeys
      /\ Len(windows) \in Nat /\ Len(ips) \in Nat
  BY <1>1, <1>3, LenProperties DEF IInv, MapsFit, TypeOK
<1>5. /\ Map(windows') /\ Len(windows') <= MaxKeys /\ KeysOf(windows') \subseteq use.keys
      /\ \A k : Seen(windows', k) = Seen(windows, k)
  <2>1. /\ Map(Read(windows, a)) /\ Len(Read(windows, a)) <= Len(windows)
        /\ KeysOf(Read(windows, a)) \subseteq KeysOf(windows)
        /\ \A k : Seen(Read(windows, a), k) = Seen(windows, k)
    BY <1>4, ReadEffect
  <2>2. Len(Read(windows, a)) \in Nat
    BY <2>1, LenProperties DEF Map
  <2> QED
    BY <1>1, <1>3, <1>4, <2>1, <2>2
<1>6. Map(ips') /\ Len(ips') <= MaxKeys /\ KeysOf(ips') \subseteq use.keys
  <2>1. /\ Map(Read(ips, ip)) /\ Len(Read(ips, ip)) <= Len(ips)
        /\ KeysOf(Read(ips, ip)) \subseteq KeysOf(ips)
    BY <1>4, ReadEffect
  <2>2. Len(Read(ips, ip)) \in Nat
    BY <2>1, LenProperties DEF Map
  <2>3. /\ Map(LoginConsume(ips, ip)) /\ Len(LoginConsume(ips, ip)) <= MaxKeys
        /\ KeysOf(LoginConsume(ips, ip)) \subseteq KeysOf(ips) \cup {ip}
    BY <1>2, <1>3, <1>4, LoginEffect
  <2> QED
    BY <1>1, <1>3, <1>4, <2>1, <2>2, <2>3
<1>7. /\ pending' \in [Calls -> Accounts \cup {"none"}]
      /\ \A d \in Calls : pending'[d] = IF answer' /\ d = c THEN a ELSE pending[d]
  BY <1>1 DEF IInv, TypeOK
<1>8. TypeOK'
  BY <1>1, <1>5, <1>6, <1>7 DEF IInv, TypeOK, Map
<1>9. MapsFit'
  BY <1>1, <1>3, <1>5, <1>6 DEF MapsFit, MaxKeys
<1>10. PendingFit'
  BY <1>1, <1>7 DEF IInv, PendingFit
<1>11. Mirror'
  BY <1>1, <1>5 DEF IInv, Mirror, HasRoom
<1>12. ASSUME HasRoom, NEW b \in Accounts
       PROVE Seen(windows', b).count + Cardinality(Waiting(b)') <= AccountLimit + Cardinality(use.calls) - 1
  <2>1. /\ Waiting(b) \in SUBSET use.calls /\ Waiting(b)' \in SUBSET use.calls
    BY <1>1 DEF Waiting
  <2>2. /\ Cardinality(Waiting(b)') \in Nat /\ Cardinality(Waiting(b)') <= Cardinality(use.calls)
    BY <1>3, <2>1, FS_Subset, FS_CardinalityType
  <2>3. Seen(windows', b) = Seen(windows, b) /\ Seen(windows, b).count \in Nat
    BY <1>4, <1>5, CountSeen
  <2>4. CASE answer' /\ b = a
    <3>1. Seen(windows, a).count < AccountLimit
      BY <1>1, <1>2, <1>4, <2>4, CountSeen, LimitType DEF Blocked
    <3> QED
      BY <1>3, <2>2, <2>3, <2>4, <3>1, LimitsType
  <2>5. CASE ~(answer' /\ b = a)
    <3>1. Waiting(b)' \subseteq Waiting(b)
      BY <1>1, <1>3, <1>7, <2>5 DEF Waiting
    <3>2. Cardinality(Waiting(b)') <= Cardinality(Waiting(b)) /\ Cardinality(Waiting(b)) \in Nat
      BY <1>3, <2>1, <3>1, FS_Subset, FS_CardinalityType
    <3>3. Seen(windows, b).count + Cardinality(Waiting(b)) <= AccountLimit + Cardinality(use.calls) - 1
      BY <1>1, <1>12 DEF IInv, FewFailures
    <3> QED
      BY <1>3, <2>2, <2>3, <3>2, <3>3, LimitsType
  <2> QED
    BY <2>4, <2>5
<1>13. FewFailures'
  BY <1>1, <1>12 DEF FewFailures, HasRoom
<1> QED
  BY <1>8, <1>9, <1>10, <1>11, <1>13 DEF IInv

\* A login that stops waiting frees its place in FewFailures.
LEMMA WaitsNoMore ==
    ASSUME IInv, NEW c \in Calls, pending[c] # "none", use' = use,
           pending' = [pending EXCEPT ![c] = "none"]
    PROVE /\ use.limiter = "login" /\ pending[c] \in Accounts /\ pending[c] \in use.keys
          /\ PendingFit' /\ pending' \in [Calls -> Accounts \cup {"none"}]
          /\ \A b \in Accounts :
                /\ Cardinality(Waiting(b)) \in Nat /\ Cardinality(Waiting(b)') \in Nat
                /\ Cardinality(Waiting(b)') = IF b = pending[c] THEN Cardinality(Waiting(b)) - 1
                                              ELSE Cardinality(Waiting(b))
<1>1. /\ use.limiter = "login" /\ c \in use.calls
      /\ pending[c] \in Accounts /\ pending[c] \in use.keys
  BY DEF IInv, PendingFit, TypeOK
<1>2. /\ pending' \in [Calls -> Accounts \cup {"none"}]
      /\ \A d \in Calls : pending'[d] = IF d = c THEN "none" ELSE pending[d]
  BY DEF IInv, TypeOK
<1>3. PendingFit'
  BY <1>2 DEF IInv, PendingFit
<1>4. IsFiniteSet(use.calls) /\ use.calls \in SUBSET Calls
  BY Setting DEF IInv
<1>5. ASSUME NEW b \in Accounts
      PROVE /\ Cardinality(Waiting(b)) \in Nat /\ Cardinality(Waiting(b)') \in Nat
            /\ Cardinality(Waiting(b)') = IF b = pending[c] THEN Cardinality(Waiting(b)) - 1
                                          ELSE Cardinality(Waiting(b))
  <2>1. Waiting(b) \in SUBSET use.calls
    BY DEF Waiting
  <2>2. IsFiniteSet(Waiting(b))
    BY <1>4, <2>1, FS_Subset
  <2>3. Waiting(b)' = Waiting(b) \ {c}
    BY <1>2, <1>4 DEF Waiting
  <2>4. c \in Waiting(b) <=> b = pending[c]
    BY <1>1 DEF Waiting
  <2> HIDE DEF Waiting
  <2> QED
    BY <2>2, <2>3, <2>4, FS_RemoveElement, FS_CardinalityType
<1> QED
  BY <1>1, <1>2, <1>3, <1>5

\* A wrong password takes one waiting place and adds one failure.
LEMMA LoginFailsKeeps ==
    ASSUME IInv, NEW c \in Calls, LoginFails(c)
    PROVE IInv' /\ use.limiter = "login"
<1> DEFINE a == pending[c]
<1>1. /\ windows' = LoginConsume(windows, a) /\ Account({a})
      /\ ips' = ips /\ answer' = answer /\ use' = use
  BY DEF LoginFails
<1>2. /\ use.limiter = "login" /\ a \in Accounts /\ a \in use.keys
      /\ PendingFit' /\ pending' \in [Calls -> Accounts \cup {"none"}]
      /\ \A b \in Accounts :
            /\ Cardinality(Waiting(b)) \in Nat /\ Cardinality(Waiting(b)') \in Nat
            /\ Cardinality(Waiting(b)') = IF b = a THEN Cardinality(Waiting(b)) - 1
                                          ELSE Cardinality(Waiting(b))
  BY WaitsNoMore DEF LoginFails
<1> HIDE DEF a
<1>3. a \in Keys /\ LimitOf(a) = AccountLimit
  BY <1>2 DEF Keys, LimitOf
<1>4. /\ MaxKeys \in Nat \ {0} /\ Cardinality(use.calls) \in Nat
      /\ HasRoom => Len(windows) < MaxKeys
  BY Setting DEF IInv
<1>5. Map(windows) /\ Len(windows) <= MaxKeys /\ KeysOf(windows) \subseteq use.keys
  BY <1>2, <1>4, LenProperties DEF IInv, MapsFit, TypeOK
<1>6. /\ Map(windows') /\ Len(windows') <= MaxKeys
      /\ KeysOf(windows') \subseteq KeysOf(windows) \cup {a}
      /\ Len(windows) < MaxKeys =>
            /\ Seen(windows', a) = Promise!Charged(Seen(windows, a))
            /\ \A k : k # a => Seen(windows', k) = Seen(windows, k)
  BY <1>1, <1>3, <1>4, <1>5, LoginEffect
<1>7. /\ spent' \in [Keys -> Slots]
      /\ \A k \in Keys : spent'[k] = IF k \in {a} /\ spent[k].count < SpentBound(k)
                                    THEN Promise!Charged(spent[k]) ELSE spent[k]
  BY <1>1, AccountEffect DEF IInv
<1>8. TypeOK'
  BY <1>1, <1>2, <1>6, <1>7 DEF IInv, TypeOK, Map, Slots
<1>9. MapsFit'
  BY <1>1, <1>2, <1>4, <1>5, <1>6 DEF IInv, MapsFit, MaxKeys
<1>10. ASSUME HasRoom
       PROVE /\ \A k \in Keys : spent[k] = Seen(windows, k) /\ spent[k] \in Slots
             /\ Seen(windows', a) = Promise!Charged(Seen(windows, a))
             /\ \A k : k # a => Seen(windows', k) = Seen(windows, k)
             /\ \A b \in Accounts : Seen(windows, b).count + Cardinality(Waiting(b))
                                      <= AccountLimit + Cardinality(use.calls) - 1
  BY <1>2, <1>4, <1>6, <1>10 DEF IInv, Mirror, FewFailures, TypeOK, Slots
<1>11. HasRoom => spent[a].count < SpentBound(a)
  <2> SUFFICES ASSUME HasRoom PROVE spent[a].count < SpentBound(a)
    OBVIOUS
  <2>1. spent[a].count + Cardinality(Waiting(a)) <= AccountLimit + Cardinality(use.calls) - 1
    BY <1>2, <1>3, <1>10
  <2>2. spent[a].count \in Nat
    BY <1>3, <1>10 DEF Slots
  <2> QED
    BY <1>2, <1>3, <1>4, <2>1, <2>2, LimitsType DEF SpentBound
<1>12. Mirror'
  <2> SUFFICES ASSUME HasRoom, NEW k \in Keys PROVE spent'[k] = Seen(windows', k)
    BY <1>1 DEF Mirror, HasRoom
  <2> QED
    BY <1>7, <1>10, <1>11
<1>13. ASSUME HasRoom, NEW b \in Accounts
       PROVE Seen(windows', b).count + Cardinality(Waiting(b)') <= AccountLimit + Cardinality(use.calls) - 1
  <2>1. Seen(windows, b).count + Cardinality(Waiting(b)) <= AccountLimit + Cardinality(use.calls) - 1
    BY <1>10, <1>13
  <2>2. b \in Keys /\ Seen(windows, b) \in Slots
    BY <1>10, <1>13 DEF Keys
  <2>3. Seen(windows, b).count \in Nat
    BY <2>2 DEF Slots
  <2>4. CASE b = a
    <3>1. Seen(windows', b).count = Seen(windows, b).count + 1
      <4>1. Seen(windows, b) # Promise!Unused =>
               Promise!Charged(Seen(windows, b)).count = Seen(windows, b).count + 1
        BY <2>2, SlotSteps
      <4>2. Seen(windows, b) = Promise!Unused =>
               Promise!Charged(Seen(windows, b)).count = 1 /\ Seen(windows, b).count = 0
        BY <2>2, SlotSteps DEF Promise!Unused
      <4> QED
        BY <1>10, <1>13, <2>4, <4>1, <4>2
    <3> QED
      BY <1>2, <1>4, <2>1, <2>3, <2>4, <3>1, LimitsType
  <2>5. CASE b # a
    BY <1>2, <1>10, <1>13, <2>1, <2>5
  <2> QED
    BY <2>4, <2>5
<1>14. FewFailures'
  BY <1>1, <1>13 DEF FewFailures, HasRoom
<1> QED
  BY <1>2, <1>8, <1>9, <1>12, <1>14 DEF IInv

LEMMA LoginSucceedsKeeps ==
    ASSUME IInv, NEW c \in Calls, LoginSucceeds(c)
    PROVE IInv' /\ spent' = spent /\ answer' = answer
<1>1. /\ windows' = windows /\ ips' = ips /\ answer' = answer /\ spent' = spent /\ use' = use
  BY DEF LoginSucceeds
<1>2. /\ PendingFit' /\ pending' \in [Calls -> Accounts \cup {"none"}]
      /\ \A b \in Accounts :
            /\ Cardinality(Waiting(b)) \in Nat /\ Cardinality(Waiting(b)') \in Nat
            /\ Cardinality(Waiting(b)') <= Cardinality(Waiting(b))
  <2>1. /\ PendingFit' /\ pending' \in [Calls -> Accounts \cup {"none"}]
        /\ \A b \in Accounts :
              /\ Cardinality(Waiting(b)) \in Nat /\ Cardinality(Waiting(b)') \in Nat
              /\ Cardinality(Waiting(b)') = IF b = pending[c] THEN Cardinality(Waiting(b)) - 1
                                            ELSE Cardinality(Waiting(b))
    BY <1>1, WaitsNoMore DEF LoginSucceeds
  <2> QED
    BY <2>1
<1>3. TypeOK' /\ MapsFit' /\ Mirror'
  BY <1>1, <1>2 DEF IInv, TypeOK, MapsFit, Mirror, MaxKeys, HasRoom
<1>4. FewFailures'
  <2> SUFFICES ASSUME HasRoom, use.limiter = "login", NEW b \in Accounts
               PROVE Seen(windows, b).count + Cardinality(Waiting(b)')
                       <= AccountLimit + Cardinality(use.calls) - 1
    BY <1>1 DEF FewFailures, HasRoom
  <2>1. Seen(windows, b).count + Cardinality(Waiting(b)) <= AccountLimit + Cardinality(use.calls) - 1
    BY DEF IInv, FewFailures
  <2>2. Seen(windows, b).count \in Nat /\ Cardinality(use.calls) \in Nat
    BY CountSeen, Setting DEF IInv, MapsFit
  <2> QED
    BY <1>2, <2>1, <2>2, LimitsType
<1> QED
  BY <1>1, <1>2, <1>3, <1>4 DEF IInv

\* The windows and their history grow old together.
LEMMA TickKeeps ==
    ASSUME IInv, Tick
    PROVE IInv' /\ Promise!Tick
<1>1. /\ windows' = Aged(windows) /\ ips' = Aged(ips) /\ answer' = answer
      /\ spent' = [k \in Keys |-> Promise!Elapse(spent[k])]
      /\ pending' = pending /\ use' = use
  BY DEF Tick, Promise!Tick
<1>2. /\ Map(windows') /\ Len(windows') = Len(windows) /\ KeysOf(windows') = KeysOf(windows)
      /\ \A k : Seen(windows', k) = Promise!Elapse(Seen(windows, k))
      /\ Map(ips') /\ Len(ips') = Len(ips) /\ KeysOf(ips') = KeysOf(ips)
  BY <1>1, AgedEffect DEF IInv, MapsFit
<1>3. TypeOK'
  <2>1. \A k \in Keys : Promise!Elapse(spent[k]) \in [count : Nat, left : 0..Window]
    BY SlotSteps DEF IInv, TypeOK, Slots
  <2> QED
    BY <1>1, <1>2, <2>1 DEF IInv, TypeOK, Map
<1>4. MapsFit' /\ PendingFit'
  BY <1>1, <1>2 DEF IInv, MapsFit, PendingFit, MaxKeys
<1>5. Mirror'
  BY <1>1, <1>2 DEF IInv, Mirror, HasRoom
<1>6. FewFailures'
  <2> SUFFICES ASSUME HasRoom, use.limiter = "login", NEW b \in Accounts
               PROVE Seen(windows', b).count + Cardinality(Waiting(b))
                       <= AccountLimit + Cardinality(use.calls) - 1
    BY <1>1 DEF FewFailures, HasRoom, Waiting
  <2>1. Seen(windows, b).count + Cardinality(Waiting(b)) <= AccountLimit + Cardinality(use.calls) - 1
    BY DEF IInv, FewFailures
  <2>2. Seen(windows, b) \in Slots
    BY DEF IInv, Mirror, TypeOK, Keys, Slots
  <2>3. Seen(windows', b).count <= Seen(windows, b).count
    BY <1>2, <2>2, SlotSteps
  <2>4. Seen(windows', b).count \in Nat /\ Seen(windows, b).count \in Nat
    BY <1>2, <2>2, SlotSteps DEF Slots
  <2>5. Cardinality(use.calls) \in Nat /\ Cardinality(Waiting(b)) \in Nat
    <3>1. IsFiniteSet(use.calls) /\ Cardinality(use.calls) \in Nat /\ Waiting(b) \in SUBSET use.calls
      BY Setting DEF IInv, Waiting
    <3> QED
      BY <3>1, FS_Subset, FS_CardinalityType
  <2> QED
    BY <2>1, <2>3, <2>4, <2>5, LimitsType
<1> QED
  BY <1>3, <1>4, <1>5, <1>6 DEF IInv, Tick

-----------------------------------------------------------------------------
(* What a full Map gives up *)

\* What room keeps of a Map is the newest: what is live and younger than an
\* entry that stays, stays.
Newest(map, room) ==
    \A x, y \in DOMAIN map :
        x < y /\ map[x].key \in KeysOf(room) /\ map[y].left > 0 => map[y].key \in KeysOf(room)

LEMMA EvictNewest ==
    ASSUME NEW map, Map(map), MaxKeys \in Nat \ {0}
    PROVE Newest(map, Evict(map))
<1> DEFINE first == Len(map) - MaxKeys + 2
           next == SubSeq(map, first, Len(map))
<1>1. Len(map) \in Nat /\ DOMAIN map = 1..Len(map)
  BY LenProperties DEF Map
<1>2. CASE Len(map) < MaxKeys
  BY <1>2 DEF Evict, Newest, KeysOf
<1>3. CASE Len(map) >= MaxKeys
  <2>1. first \in Int /\ first >= 2 /\ \A x \in first..Len(map) : x \in DOMAIN map
    BY <1>1, <1>3
  <2>2. \A x \in first..Len(map) : map[x] \in Entries
    BY <2>1, EntryType
  <2>3. /\ next \in Seq(Entries)
        /\ Len(next) = IF first <= Len(map) THEN Len(map) - first + 1 ELSE 0
        /\ \A x \in 1..(Len(map) - first + 1) : next[x] = map[first + x - 1]
    BY <1>1, <2>1, <2>2, SubSeqProperties
  <2>4. Len(next) = Len(map) - first + 1 /\ DOMAIN next = 1..(Len(map) - first + 1)
    BY <1>1, <1>3, <2>3, LenProperties
  <2>5. Evict(map) = next
    BY <1>1, <1>3 DEF Evict
  <2> HIDE DEF next, first
  <2>6. ASSUME NEW x \in DOMAIN map, NEW y \in DOMAIN map, x < y, map[x].key \in KeysOf(next)
        PROVE map[y].key \in KeysOf(next)
    <3>1. PICK z \in DOMAIN next : next[z].key = map[x].key
      BY <2>6, PlaceOf
    <3>2. first + z - 1 \in DOMAIN map /\ next[z] = map[first + z - 1]
      BY <1>1, <2>1, <2>3, <2>4
    <3>3. x = first + z - 1
      BY <3>1, <3>2 DEF Map, Distinct
    <3>4. y - first + 1 \in DOMAIN next /\ y - first + 1 \in 1..(Len(map) - first + 1)
      BY <1>1, <2>1, <2>4, <2>6, <3>3
    <3>5. next[y - first + 1] = map[first + (y - first + 1) - 1]
      BY <2>3, <3>4
    <3>6. first + (y - first + 1) - 1 = y
      BY <1>1, <2>1
    <3> QED
      BY <3>4, <3>5, <3>6 DEF KeysOf
  <2> QED
    BY <2>5, <2>6 DEF Newest
<1> QED
  BY <1>1, <1>2, <1>3

\* Leaving out what has expired first changes nothing in that.
LEMMA SelectedNewest ==
    ASSUME NEW map, Map(map), NEW keep \in SUBSET DOMAIN map,
           \A i \in DOMAIN map : map[i].left > 0 => i \in keep,
           NEW room, KeysOf(room) \subseteq KeysOf(Selected(map, keep)),
           Newest(Selected(map, keep), room)
    PROVE Newest(map, room)
<1> DEFINE found == Selected(map, keep)
<1>1. /\ \A i \in keep : Place(keep, i) \in DOMAIN found /\ found[Place(keep, i)] = map[i]
      /\ \A k \in KeysOf(found) : \E i \in keep : map[i].key = k
  BY SelectedEffect, SelectedSeen
<1>2. Len(map) \in Nat /\ DOMAIN map = 1..Len(map)
  BY LenProperties DEF Map
<1>3. \A i, j \in keep : i < j <=> Place(keep, i) < Place(keep, j)
  BY <1>2, PlacesInOrder
<1> HIDE DEF found
<1>4. ASSUME NEW x \in DOMAIN map, NEW y \in DOMAIN map,
             x < y, map[x].key \in KeysOf(room), map[y].left > 0
      PROVE map[y].key \in KeysOf(room)
  <2>1. PICK i \in keep : map[i].key = map[x].key
    BY <1>1, <1>4 DEF found
  <2>2. x \in keep /\ y \in keep
    BY <1>4, <2>1 DEF Map, Distinct
  <2>3. Place(keep, x) < Place(keep, y)
    BY <1>3, <1>4, <2>2
  <2> QED
    BY <1>1, <1>4, <2>2, <2>3 DEF Newest, found
<1> QED
  BY <1>4 DEF Newest

\* What the eviction of a pruned Map leaves: live windows as they were, the
\* newest ones, and when one is lost as many as there is room for but one.
Leaves(map, room) ==
    /\ Map(room) /\ KeysOf(room) \subseteq KeysOf(map)
    /\ \A k \in KeysOf(room) : Seen(room, k) = Seen(map, k) /\ Seen(map, k) # Promise!Unused
    /\ Newest(map, room)
    /\ (\A k : Seen(room, k) = Seen(map, k)) \/ Len(room) = MaxKeys - 1

LEMMA PrunedLeaves ==
    ASSUME NEW map, Map(map), MaxKeys \in Nat \ {0}
    PROVE Leaves(map, PasswordPruned(map))
<1> DEFINE keep == {i \in DOMAIN map : map[i].left > 0}
           pruned == Unexpired(map)
           room == PasswordPruned(map)
<1>1. /\ Map(pruned) /\ KeysOf(pruned) \subseteq KeysOf(map)
      /\ \A k : Seen(pruned, k) = Seen(map, k)
      /\ Len(pruned) \in Nat
  BY UnexpiredEffect, LenProperties DEF Map
<1>2. /\ Map(room) /\ KeysOf(room) \subseteq KeysOf(map)
      /\ \A k \in KeysOf(room) : Seen(room, k) = Seen(map, k) /\ Seen(map, k) # Promise!Unused
  BY PrunedEffect
<1>3. room = Evict(pruned)
  BY DEF PasswordPruned
<1>4. pruned = Selected(map, keep)
  BY DEF Unexpired
<1>5. keep \in SUBSET DOMAIN map /\ \A i \in DOMAIN map : map[i].left > 0 => i \in keep
  OBVIOUS
<1> HIDE DEF pruned, room, keep
<1>6. /\ KeysOf(room) \subseteq KeysOf(pruned) /\ Newest(pruned, room)
      /\ Len(pruned) < MaxKeys => room = pruned
      /\ Len(pruned) >= MaxKeys => Len(room) = MaxKeys - 1
  BY <1>1, <1>3, EvictEffect, EvictNewest
<1>7. Newest(map, room)
  BY <1>4, <1>5, <1>6, SelectedNewest
<1>8. (\A k : Seen(room, k) = Seen(map, k)) \/ Len(room) = MaxKeys - 1
  BY <1>1, <1>6
<1> QED
  BY <1>2, <1>7, <1>8 DEF Leaves, room

\* The same when a key that has expired was deleted before.
LEMMA ReadLeaves ==
    ASSUME NEW map, Map(map), NEW key, NEW room, Leaves(Read(map, key), room)
    PROVE Leaves(map, room)
<1> DEFINE keep == {i \in DOMAIN map : map[i].key # key \/ map[i].left > 0}
           found == Read(map, key)
<1>1. KeysOf(found) \subseteq KeysOf(map) /\ \A k : Seen(found, k) = Seen(map, k)
  BY ReadEffect
<1>2. found = Selected(map, keep)
  BY DEF Read
<1>3. keep \in SUBSET DOMAIN map /\ \A i \in DOMAIN map : map[i].left > 0 => i \in keep
  OBVIOUS
<1> HIDE DEF found, keep
<1>4. Leaves(found, room)
  BY DEF found
<1>5. Newest(map, room)
  BY <1>2, <1>3, <1>4, SelectedNewest DEF Leaves
<1> QED
  BY <1>1, <1>4, <1>5 DEF Leaves

\* A Map in which no count went down has given nothing up.
LEMMA NothingGivenUp ==
    ASSUME NEW map, Map(map), NEW next, Map(next),
           \A k : Seen(next, k).count >= Seen(map, k).count
    PROVE GivenUpOnlyWhenFull(map, next)
<1>1. ASSUME NEW k PROVE ~(CountOf(next, k) < CountOf(map, k))
  <2>1. /\ CountOf(next, k) = Seen(next, k).count /\ Seen(next, k).count \in Nat
        /\ CountOf(map, k) = Seen(map, k).count /\ Seen(map, k).count \in Nat
    BY CountSeen
  <2>2. Seen(next, k).count >= Seen(map, k).count
    OBVIOUS
  <2> QED
    BY <2>1, <2>2
<1> QED
  BY <1>1 DEF GivenUpOnlyWhenFull, Forgiven

\* A call that lets what was left of a Map grow gave a window up only because
\* the Map was full, and reopened what was older and is open now.
LEMMA GrownFrom ==
    ASSUME NEW map, Map(map), NEW room, Leaves(map, room), NEW next, Map(next),
           MaxKeys \in Nat \ {0},
           KeysOf(room) \subseteq KeysOf(next), KeysOf(next) \subseteq Keys,
           \A k \in KeysOf(room) : \/ Seen(next, k) = Seen(room, k)
                                   \/ Seen(next, k) = Promise!Charged(Seen(room, k)),
           \A k \in KeysOf(next) \ KeysOf(room) : Seen(next, k) = Promise!Charged(Promise!Unused)
    PROVE GivenUpOnlyWhenFull(map, next)
<1>1. ASSUME NEW k
      PROVE /\ CountOf(next, k) = Seen(next, k).count /\ Seen(next, k).count \in Nat
            /\ CountOf(map, k) = Seen(map, k).count /\ Seen(map, k).count \in Nat
            /\ Seen(map, k).count = 0 <=> Seen(map, k) = Promise!Unused
  BY CountSeen
<1>2. ASSUME NEW k \in KeysOf(room)
      PROVE Seen(next, k).count >= Seen(map, k).count /\ Seen(map, k).count > 0
  <2>1. Seen(room, k) = Seen(map, k) /\ Seen(map, k) # Promise!Unused
    BY DEF Leaves
  <2>2. Seen(map, k).count > 0
    BY <1>1, <2>1
  <2>3. Promise!Charged(Seen(map, k)).count = Seen(map, k).count + 1
    <3>1. PICK i \in DOMAIN map : map[i].key = k
      BY PlaceOf DEF Leaves
    <3>2. Seen(map, k) = [count |-> map[i].count, left |-> map[i].left]
      BY <2>1, <3>1, SeenAt DEF Map, Live
    <3> QED
      BY <2>1, <3>2 DEF Promise!Charged
  <2> QED
    BY <1>1, <2>1, <2>2, <2>3
<1>3. SUFFICES ASSUME NEW k \in Keys, Forgiven(map, next, k)
               PROVE LET stay == Open(next) \ {k}
                     IN /\ Cardinality(stay) >= MaxKeys - 1
                        /\ \A j \in stay \cap Older(map, k) : EntryOf(next, j).left = Window
  BY DEF GivenUpOnlyWhenFull
<1>4. Seen(map, k).count > 0 /\ Seen(next, k).count < Seen(map, k).count
  BY <1>1, <1>3 DEF Forgiven, Open
<1>5. k \notin KeysOf(room)
  BY <1>1, <1>2, <1>4
<1>6. Len(room) = MaxKeys - 1
  <2>1. Seen(room, k) # Seen(map, k)
    BY <1>1, <1>4, <1>5, SeenNowhere
  <2> QED
    BY <2>1 DEF Leaves
<1> DEFINE stay == Open(next) \ {k}
<1>7. Cardinality(stay) >= MaxKeys - 1
  <2>1. KeysOf(room) \in SUBSET stay
    <3>1. \A j \in KeysOf(room) : j \in Keys /\ CountOf(next, j) > 0
      BY <1>1, <1>2
    <3> QED
      BY <1>5, <3>1 DEF Open
  <2>2. IsFiniteSet(stay)
    <3>1. IsFiniteSet(Keys) /\ stay \in SUBSET Keys
      BY FinitelyMany DEF Open, Keys
    <3> QED
      BY <3>1, FS_Subset
  <2>3. Cardinality(KeysOf(room)) = MaxKeys - 1
    BY <1>6, AsManyKeys DEF Leaves
  <2> HIDE DEF stay
  <2> QED
    BY <2>1, <2>2, <2>3, FS_Subset
<1>8. ASSUME NEW j \in stay \cap Older(map, k) PROVE EntryOf(next, j).left = Window
  <2>1. PICK x, y \in DOMAIN map : x < y /\ map[x].key = j /\ map[y].key = k
    BY <1>8 DEF Older
  <2>2. map[y].left > 0
    <3>1. Seen(map, k) = Live(map[y])
      BY <2>1, SeenAt DEF Map
    <3> QED
      BY <1>1, <1>4, <3>1 DEF Live, Promise!Unused
  <2>3. j \notin KeysOf(room)
    BY <1>5, <2>1, <2>2 DEF Leaves, Newest
  <2>4. CountOf(next, j) > 0
    BY <1>8 DEF Open
  <2>5. j \in KeysOf(next)
    BY <2>4 DEF CountOf
  <2>6. Seen(next, j) = [count |-> 1, left |-> Window]
    BY <2>3, <2>5 DEF Promise!Charged
  <2>7. EntryOf(next, j).left > 0
    BY <2>4, <2>5 DEF CountOf
  <2> QED
    BY <2>5, <2>6, <2>7 DEF Seen, Live
<1> QED
  BY <1>7, <1>8

LEMMA SameMap == ASSUME NEW map, Map(map) PROVE GivenUpOnlyWhenFull(map, map)
<1>1. \A k : Seen(map, k).count >= Seen(map, k).count
  BY CountSeen
<1> QED
  BY <1>1, NothingGivenUp

LEMMA ChargedGrows ==
    ASSUME NEW map, Map(map), NEW k
    PROVE Promise!Charged(Seen(map, k)).count >= Seen(map, k).count
<1>1. Seen(map, k) \in Slots
  <2>1. CASE k \in KeysOf(map)
    <3>1. PICK i \in DOMAIN map : map[i].key = k
      BY <2>1, PlaceOf
    <3>2. Seen(map, k) = Live(map[i]) /\ map[i].count \in Nat /\ map[i].left \in 0..Window
      BY <3>1, SeenAt, EntryType DEF Map
    <3> QED
      BY <3>2, LimitsType DEF Live, Slots, Promise!Unused
  <2>2. CASE k \notin KeysOf(map)
    BY <2>2, SeenNowhere, LimitsType DEF Slots, Promise!Unused
  <2> QED
    BY <2>1, <2>2
<1>2. Seen(map, k) = Promise!Unused => Seen(map, k).count = 0
  BY DEF Promise!Unused
<1>3. Seen(map, k).count \in Nat
  BY <1>1 DEF Slots
<1> QED
  BY <1>1, <1>2, <1>3, SlotSteps

\* Opening a window where there was none, in what an eviction left.
LEMMA OpenedFrom ==
    ASSUME NEW map, Map(map), NEW room, Leaves(map, room), NEW key \in Keys,
           key \notin KeysOf(room), MaxKeys \in Nat \ {0}
    PROVE GivenUpOnlyWhenFull(map, Increment(room, key))
<1> DEFINE next == Increment(room, key)
<1>1. /\ Map(next) /\ KeysOf(next) = KeysOf(room) \cup {key}
      /\ Seen(next, key) = Promise!Charged(Seen(room, key))
      /\ \A k : k # key => Seen(next, k) = Seen(room, k)
  BY IncrementEffect DEF Leaves
<1>2. Seen(room, key) = Promise!Unused
  BY SeenNowhere
<1> HIDE DEF next
<1>3. KeysOf(next) \subseteq Keys
  BY <1>1, EntryType DEF KeysOf
<1>4. GivenUpOnlyWhenFull(map, next)
  BY <1>1, <1>2, <1>3, GrownFrom
<1> QED
  BY <1>4 DEF next

LEMMA ReadGives ==
    ASSUME NEW map, Map(map), NEW key
    PROVE GivenUpOnlyWhenFull(map, Read(map, key))
<1>1. Map(Read(map, key)) /\ \A k : Seen(Read(map, key), k) = Seen(map, k)
  BY ReadEffect
<1>2. \A k : Seen(Read(map, key), k).count >= Seen(map, k).count
  BY <1>1, CountSeen
<1> QED
  BY <1>1, <1>2, NothingGivenUp

LEMMA BoostGives ==
    ASSUME NEW map, Map(map), NEW key \in Keys, MaxKeys \in Nat \ {0}
    PROVE GivenUpOnlyWhenFull(map, BoostConsume(map, key))
<1>1. /\ CountOf(map, key) = Seen(map, key).count
      /\ Seen(map, key).count = 0 <=> Seen(map, key) = Promise!Unused
  BY CountSeen
<1>2. CASE CountOf(map, key) = 0
  <2>1. BoostConsume(map, key) = Increment(PasswordPruned(map), key)
    BY <1>2 DEF BoostConsume, PasswordPruned
  <2>2. Leaves(map, PasswordPruned(map))
    BY PrunedLeaves
  <2>3. key \notin KeysOf(PasswordPruned(map))
    BY <1>1, <1>2, <2>2 DEF Leaves
  <2> QED
    BY <2>1, <2>2, <2>3, OpenedFrom
<1>3. CASE CountOf(map, key) # 0 /\ Blocked(map, key)
  BY <1>3, SameMap DEF BoostConsume
<1>4. CASE CountOf(map, key) # 0 /\ ~Blocked(map, key)
  <2>1. BoostConsume(map, key) = Increment(map, key)
    BY <1>4 DEF BoostConsume
  <2>2. Seen(map, key) # Promise!Unused
    BY <1>1, <1>4
  <2>3. /\ Map(Increment(map, key))
        /\ Seen(Increment(map, key), key) = Promise!Charged(Seen(map, key))
        /\ \A k : k # key => Seen(Increment(map, key), k) = Seen(map, k)
    BY <2>2, IncrementEffect
  <2>4. \A k : Seen(Increment(map, key), k).count >= Seen(map, k).count
    BY <2>3, ChargedGrows, CountSeen
  <2> QED
    BY <2>1, <2>3, <2>4, NothingGivenUp
<1> QED
  BY <1>2, <1>3, <1>4

LEMMA LoginGives ==
    ASSUME NEW map, Map(map), NEW key \in Keys, MaxKeys \in Nat \ {0}
    PROVE GivenUpOnlyWhenFull(map, LoginConsume(map, key))
<1> DEFINE found == Read(map, key)
           next == LoginConsume(map, key)
<1>1. /\ Map(found) /\ \A k : Seen(found, k) = Seen(map, k)
      /\ key \in KeysOf(found) => Seen(map, key) # Promise!Unused
  BY ReadEffect
<1>2. next = Increment(IF key \in KeysOf(found) THEN found ELSE MakeRoom(found), key)
  BY DEF LoginConsume
<1>3. Leaves(found, PasswordPruned(found)) => Leaves(map, PasswordPruned(found))
  BY ReadLeaves
<1>4. Len(found) \in Nat
  BY <1>1, LenProperties DEF Map
<1> HIDE DEF found, next
<1>5. CASE key \in KeysOf(found) \/ Len(found) < MaxKeys
  <2>1. next = Increment(found, key)
    BY <1>2, <1>5 DEF MakeRoom
  <2>2. /\ Map(next) /\ Seen(next, key) = Promise!Charged(Seen(found, key))
        /\ \A k : k # key => Seen(next, k) = Seen(found, k)
    BY <1>1, <2>1, IncrementEffect
  <2>3. \A k : Seen(next, k).count >= Seen(map, k).count
    BY <1>1, <2>2, ChargedGrows, CountSeen
  <2> QED
    BY <2>2, <2>3, NothingGivenUp DEF next
<1>6. CASE key \notin KeysOf(found) /\ ~(Len(found) < MaxKeys)
  <2>1. next = Increment(PasswordPruned(found), key)
    BY <1>2, <1>6 DEF MakeRoom, PasswordPruned
  <2>2. Leaves(found, PasswordPruned(found))
    BY <1>1, PrunedLeaves
  <2>3. key \notin KeysOf(PasswordPruned(found))
    BY <1>6, <2>2 DEF Leaves
  <2> QED
    BY <1>3, <2>1, <2>2, <2>3, OpenedFrom DEF next
<1> QED
  BY <1>5, <1>6

LEMMA PasswordGives ==
    ASSUME NEW map, Map(map), NEW a \in Accounts, NEW ip \in Ips, MaxKeys \in Nat \ {0}
    PROVE /\ GivenUpOnlyWhenFull(map, PasswordPruned(map))
          /\ GivenUpOnlyWhenFull(map, Increment(Increment(PasswordPruned(map), a), ip))
<1> DEFINE room == PasswordPruned(map)
           next == Increment(Increment(room, a), ip)
<1>1. Leaves(map, room)
  BY PrunedLeaves
<1>2. /\ Map(next) /\ KeysOf(next) = KeysOf(room) \cup {a, ip}
      /\ \A k \in {a, ip} : Seen(next, k) = Promise!Charged(Seen(room, k))
      /\ \A k : k \notin {a, ip} => Seen(next, k) = Seen(room, k)
  BY PasswordEffect
<1> HIDE DEF room, next
<1>3. Map(room)
  BY <1>1 DEF Leaves
<1>4. KeysOf(room) \subseteq Keys /\ KeysOf(next) \subseteq Keys
  BY <1>2, <1>3, EntryType DEF KeysOf
<1>5. GivenUpOnlyWhenFull(map, room)
  BY <1>1, <1>3, <1>4, GrownFrom
<1>6. \A k \in KeysOf(next) \ KeysOf(room) : Seen(next, k) = Promise!Charged(Promise!Unused)
  BY <1>2, SeenNowhere
<1>7. GivenUpOnlyWhenFull(map, next)
  BY <1>1, <1>2, <1>4, <1>6, GrownFrom
<1> QED
  BY <1>5, <1>7 DEF room, next

-----------------------------------------------------------------------------
(* The theorems *)

LEMMA NextKeeps ==
    ASSUME IInv, [Next]_vars
    PROVE IInv' /\ [HasRoom /\ use.limiter # "login" => Promise!Next]_<<spent, answer>>
<1>1. ASSUME NEW ip \in Ips, BoostCall(ip) PROVE IInv' /\ (HasRoom => Promise!Next)
  BY <1>1, BoostCallKeeps
<1>2. ASSUME NEW a \in Accounts, NEW ip \in Ips, PasswordCall(a, ip)
      PROVE IInv' /\ (HasRoom => Promise!Next)
  BY <1>2, PasswordCallKeeps
<1>3. ASSUME NEW c \in Calls, NEW a \in Accounts, NEW ip \in Ips, LoginArrives(c, a, ip)
      PROVE IInv' /\ use.limiter = "login"
  BY <1>3, LoginArrivesKeeps DEF LoginArrives
<1>4. ASSUME NEW c \in Calls, LoginFails(c) PROVE IInv' /\ use.limiter = "login"
  BY <1>4, LoginFailsKeeps
<1>5. ASSUME NEW c \in Calls, LoginSucceeds(c) PROVE IInv' /\ spent' = spent /\ answer' = answer
  BY <1>5, LoginSucceedsKeeps
<1>6. ASSUME Tick PROVE IInv' /\ Promise!Next
  BY <1>6, TickKeeps DEF Promise!Next
<1>7. ASSUME UNCHANGED vars PROVE IInv' /\ spent' = spent /\ answer' = answer
  <2>1. /\ windows' = windows /\ ips' = ips /\ pending' = pending /\ answer' = answer
        /\ spent' = spent /\ use' = use
    BY <1>7 DEF vars
  <2> QED
    BY <2>1 DEF IInv, TypeOK, MapsFit, PendingFit, Mirror, FewFailures, HasRoom, MaxKeys, Waiting
<1> QED
  BY <1>1, <1>2, <1>3, <1>4, <1>5, <1>6, <1>7 DEF Next

\* The inductive invariant of the limiters: their Maps hold each key of their
\* use once and mirror what the keys used, and the logins that wait are counted.
THEOREM Invariance == Spec => []IInv
<1>1. Init => IInv
  BY InitIsGood
<1>2. IInv /\ [Next]_vars => IInv'
  BY NextKeeps
<1> QED
  BY <1>1, <1>2, PTL DEF Spec

\* The Maps keep their type through every prune, eviction and tick: no window
\* has less than no time left, or more than WINDOW_MS.
THEOREM TypeCorrect == Spec => []TypeOK
<1>1. IInv => TypeOK
  BY DEF IInv
<1> QED
  BY <1>1, Invariance, PTL

\* However many addresses and accounts call, the Maps hold at most MAX_KEYS
\* windows, the one of the password limiter one more, and a key once.
THEOREM Bounded == Spec => []MapsBounded
<1>1. IInv => MapsBounded
  BY AsManyKeys DEF IInv, MapsFit, MapsBounded
<1> QED
  BY <1>1, Invariance, PTL

\* Logins that are checked while others wait for the row pass the limit of an
\* account by at most the number of them in flight, less one.
THEOREM OverrunBounded == Spec => []FailuresBounded
<1>1. ASSUME IInv PROVE FailuresBounded
  <2> SUFFICES ASSUME HasRoom, use.limiter = "login", NEW a \in Accounts
               PROVE spent[a].count <= AccountLimit + Cardinality(use.calls) - 1
    BY DEF FailuresBounded
  <2>1. Seen(windows, a).count + Cardinality(Waiting(a)) <= AccountLimit + Cardinality(use.calls) - 1
    BY <1>1 DEF IInv, FewFailures
  <2>2. spent[a] = Seen(windows, a) /\ spent[a].count \in Nat
    BY <1>1 DEF IInv, Mirror, TypeOK, Keys
  <2>3. Cardinality(use.calls) \in Nat /\ Cardinality(Waiting(a)) \in Nat
    <3>1. IsFiniteSet(use.calls) /\ Cardinality(use.calls) \in Nat /\ Waiting(a) \in SUBSET use.calls
      BY <1>1, Setting DEF IInv, Waiting
    <3> QED
      BY <3>1, FS_Subset, FS_CardinalityType
  <2> QED
    BY <2>1, <2>2, <2>3, LimitsType
<1>2. IInv => FailuresBounded
  BY <1>1
<1> QED
  BY <1>2, Invariance, PTL

\* With room for every key the boost, lookup and password limiters implement
\* the fixed windows they promise: every step is a call or a tick of those.
THEOREM ExactWithRoom == Spec => Exact
<1>1. Init => Promise!Init
  BY DEF Init
<1>2. IInv /\ [Next]_vars =>
         [HasRoom /\ use.limiter # "login" => Promise!Next]_<<spent, answer>>
  BY NextKeeps
<1> QED
  BY <1>1, <1>2, Invariance, PTL DEF Spec, Exact

\* A window with time left keeps its count in every call, unless the Map is full
\* of live windows that stay and every older one that is open was reopened.
THEOREM NoneForgivenEarly == Spec => NoEarlyForgiveness
<1>1. ASSUME IInv, [Next]_vars
      PROVE [\/ windows' = Aged(windows) /\ ips' = Aged(ips)
             \/ /\ GivenUpOnlyWhenFull(windows, windows')
                /\ GivenUpOnlyWhenFull(ips, ips')]_vars
  <2> DEFINE Kept == GivenUpOnlyWhenFull(windows, windows') /\ GivenUpOnlyWhenFull(ips, ips')
  <2>1. Map(windows) /\ Map(ips) /\ MaxKeys \in Nat \ {0}
    BY <1>1, Setting DEF IInv, MapsFit
  <2>2. GivenUpOnlyWhenFull(windows, windows) /\ GivenUpOnlyWhenFull(ips, ips)
    BY <2>1, SameMap
  <2>3. ASSUME NEW ip \in Ips, BoostCall(ip) PROVE Kept
    BY <2>1, <2>2, <2>3, BoostGives DEF BoostCall, Keys
  <2>4. ASSUME NEW a \in Accounts, NEW ip \in Ips, PasswordCall(a, ip) PROVE Kept
    <3>1. /\ GivenUpOnlyWhenFull(windows, PasswordPruned(windows))
          /\ GivenUpOnlyWhenFull(windows, Increment(Increment(PasswordPruned(windows), a), ip))
      BY <2>1, PasswordGives
    <3>2. /\ ips' = ips
          /\ \/ windows' = PasswordPruned(windows)
             \/ windows' = Increment(Increment(PasswordPruned(windows), a), ip)
      BY <2>4 DEF PasswordCall
    <3> QED
      BY <2>2, <3>1, <3>2
  <2>5. ASSUME NEW c \in Calls, NEW a \in Accounts, NEW ip \in Ips, LoginArrives(c, a, ip) PROVE Kept
    <3>1. /\ ips' = LoginConsume(ips, ip) \/ ips' = Read(ips, ip)
          /\ windows' = Read(windows, a) \/ windows' = windows
      BY <2>5 DEF LoginArrives
    <3>2. /\ GivenUpOnlyWhenFull(ips, LoginConsume(ips, ip)) /\ GivenUpOnlyWhenFull(ips, Read(ips, ip))
          /\ GivenUpOnlyWhenFull(windows, Read(windows, a))
      BY <2>1, LoginGives, ReadGives DEF Keys
    <3> QED
      BY <2>2, <3>1, <3>2
  <2>6. ASSUME NEW c \in Calls, LoginFails(c) PROVE Kept
    <3>1. pending[c] \in Keys
      BY <1>1, <2>6 DEF LoginFails, IInv, TypeOK, Keys
    <3> QED
      BY <2>1, <2>2, <2>6, <3>1, LoginGives DEF LoginFails
  <2>7. ASSUME NEW c \in Calls, LoginSucceeds(c) PROVE Kept
    BY <2>2, <2>7 DEF LoginSucceeds
  <2>8. ASSUME Tick PROVE windows' = Aged(windows) /\ ips' = Aged(ips)
    BY <2>8 DEF Tick
  <2> HIDE DEF Kept
  <2>9. CASE Next
    <3>1. Kept \/ (windows' = Aged(windows) /\ ips' = Aged(ips))
      BY <2>3, <2>4, <2>5, <2>6, <2>7, <2>8, <2>9 DEF Next
    <3> QED
      BY <3>1 DEF Kept
  <2>10. CASE UNCHANGED vars
    BY <2>10
  <2> QED
    BY <1>1, <2>9, <2>10
<1>2. IInv /\ [Next]_vars =>
         [\/ windows' = Aged(windows) /\ ips' = Aged(ips)
          \/ /\ GivenUpOnlyWhenFull(windows, windows')
             /\ GivenUpOnlyWhenFull(ips, ips')]_vars
  BY <1>1
<1> QED
  BY <1>2, Invariance, PTL DEF Spec, NoEarlyForgiveness

=============================================================================
