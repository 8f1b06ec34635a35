---------------------------- MODULE MapGrid_proofs ----------------------------
(* Theorems about MapGrid: whatever lists, filters and limits, no map that *)
(* was asked for is lost or left loading, and few of an earlier list turn  *)
(* up in a later one.                                                      *)
EXTENDS MapGrid, FiniteSetTheorems, TLAPS

-----------------------------------------------------------------------------
(* Sequences of maps.  What is in one,                                     *)
LEMMA Elements ==
  ASSUME NEW s \in Seq(Maps)
  PROVE  /\ ToSet(s) = {s[i] : i \in 1 .. Len(s)} /\ ToSet(s) \subseteq Maps
         /\ DOMAIN s = 1 .. Len(s) /\ Len(s) \in Nat
BY DEF ToSet

(* what two have together,                                                 *)
LEMMA TwoSequences ==
  ASSUME NEW s \in Seq(Maps), NEW t \in Seq(Maps)
  PROVE  /\ s \o t \in Seq(Maps) /\ Len(s \o t) = Len(s) + Len(t)
         /\ ToSet(s \o t) = ToSet(s) \cup ToSet(t)
         /\ \A i \in 1 .. Len(s) : (s \o t)[i] = s[i]
         /\ \A i \in 1 .. Len(t) : (s \o t)[Len(s) + i] = t[i]
<1>1. s \o t \in Seq(Maps) /\ Len(s \o t) = Len(s) + Len(t)
  OBVIOUS
<1>2. \A i \in 1 .. Len(s) : (s \o t)[i] = s[i]
  OBVIOUS
<1>3. \A i \in 1 .. Len(t) : (s \o t)[Len(s) + i] = t[i]
  OBVIOUS
<1> DEFINE r == s \o t
<1>4. /\ r \in Seq(Maps) /\ Len(r) = Len(s) + Len(t)
      /\ \A i \in 1 .. Len(s) : r[i] = s[i]
      /\ \A i \in 1 .. Len(t) : r[Len(s) + i] = t[i]
  BY <1>1, <1>2, <1>3
<1> HIDE DEF r
<1>5. ToSet(r) = {r[i] : i \in 1 .. Len(r)} /\ ToSet(s) = {s[i] : i \in 1 .. Len(s)}
      /\ ToSet(t) = {t[i] : i \in 1 .. Len(t)} /\ Len(s) \in Nat /\ Len(t) \in Nat
  BY <1>4, Elements
<1>6. ASSUME NEW i \in 1 .. Len(r)
      PROVE  r[i] \in ToSet(s) \cup ToSet(t)
  <2>1. CASE i <= Len(s)
    BY <2>1, <1>4, <1>5
  <2>2. CASE i > Len(s)
    <3>1. i - Len(s) \in 1 .. Len(t) /\ Len(s) + (i - Len(s)) = i
      BY <2>2, <1>4, <1>5
    <3> QED
      BY <3>1, <1>4, <1>5
  <2> QED
    BY <2>1, <2>2, <1>4, <1>5
<1>7. ASSUME NEW i \in 1 .. Len(s) PROVE s[i] \in ToSet(r)
  <2>1. i \in 1 .. Len(r) /\ r[i] = s[i]
    BY <1>4, <1>5
  <2> QED
    BY <2>1, <1>5
<1>8. ASSUME NEW i \in 1 .. Len(t) PROVE t[i] \in ToSet(r)
  <2>1. Len(s) + i \in 1 .. Len(r) /\ r[Len(s) + i] = t[i]
    BY <1>4, <1>5
  <2> QED
    BY <2>1, <1>5
<1>9. ToSet(r) = ToSet(s) \cup ToSet(t)
  BY <1>5, <1>6, <1>7, <1>8
<1> QED
  BY <1>4, <1>9 DEF r

(* what the pieces of one have when it is cut,                             *)
LEMMA CutSequence ==
  ASSUME NEW s \in Seq(Maps), NEW n \in 0 .. Len(s)
  PROVE  /\ SubSeq(s, 1, n) \in Seq(Maps) /\ Len(SubSeq(s, 1, n)) = n
         /\ SubSeq(s, n + 1, Len(s)) \in Seq(Maps)
         /\ Len(SubSeq(s, n + 1, Len(s))) = Len(s) - n
         /\ ToSet(s) = ToSet(SubSeq(s, 1, n)) \cup ToSet(SubSeq(s, n + 1, Len(s)))
<1> DEFINE a == SubSeq(s, 1, n)
           b == SubSeq(s, n + 1, Len(s))
<1>1. a \in Seq(Maps) /\ Len(a) = n /\ \A i \in 1 .. n : a[i] = s[i]
  OBVIOUS
<1>2. b \in Seq(Maps) /\ Len(b) = Len(s) - n /\ \A i \in 1 .. Len(s) - n : b[i] = s[n + i]
  OBVIOUS
<1> HIDE DEF a, b
<1>3. /\ ToSet(a) = {a[i] : i \in 1 .. n} /\ ToSet(b) = {b[i] : i \in 1 .. Len(s) - n}
      /\ ToSet(s) = {s[i] : i \in 1 .. Len(s)} /\ Len(s) \in Nat /\ n \in Nat
  BY <1>1, <1>2, Elements
<1>4. ASSUME NEW i \in 1 .. Len(s) PROVE s[i] \in ToSet(a) \cup ToSet(b)
  <2>1. CASE i <= n
    BY <2>1, <1>1, <1>3
  <2>2. CASE i > n
    <3>1. i - n \in 1 .. Len(s) - n /\ n + (i - n) = i
      BY <2>2, <1>3
    <3> QED
      BY <3>1, <1>2, <1>3
  <2> QED
    BY <2>1, <2>2, <1>3
<1>5. ASSUME NEW i \in 1 .. n PROVE a[i] \in ToSet(s)
  BY <1>1, <1>3
<1>6. ASSUME NEW i \in 1 .. Len(s) - n PROVE b[i] \in ToSet(s)
  <2>1. n + i \in 1 .. Len(s) /\ b[i] = s[n + i]
    BY <1>2, <1>3
  <2> QED
    BY <2>1, <1>3
<1>7. ToSet(s) = ToSet(a) \cup ToSet(b)
  BY <1>3, <1>4, <1>5, <1>6
<1> QED
  BY <1>1, <1>2, <1>7 DEF a, b

(* what is left when the fetch i is over: the others, each at its place or *)
(* the one before;                                                         *)
LEMMA OneLess ==
  ASSUME NEW s \in Seq(Maps), NEW i \in 1 .. Len(s)
  PROVE  /\ RemoveAt(s, i) \in Seq(Maps) /\ Len(RemoveAt(s, i)) = Len(s) - 1
         /\ \A j \in 1 .. Len(s) - 1 : RemoveAt(s, i)[j] = s[IF j < i THEN j ELSE j + 1]
         /\ ToSet(RemoveAt(s, i)) \subseteq ToSet(s)
         /\ ToSet(s) \subseteq ToSet(RemoveAt(s, i)) \cup {s[i]}
<1> DEFINE a == SubSeq(s, 1, i - 1)
           b == SubSeq(s, i + 1, Len(s))
           r == RemoveAt(s, i)
<1>1. a \in Seq(Maps) /\ Len(a) = i - 1 /\ \A j \in 1 .. i - 1 : a[j] = s[j]
  OBVIOUS
<1>2. b \in Seq(Maps) /\ Len(b) = Len(s) - i /\ \A j \in 1 .. Len(s) - i : b[j] = s[i + j]
  OBVIOUS
<1>3. r = a \o b
  BY DEF RemoveAt
<1> HIDE DEF a, b, r
<1>a. Len(s) \in Nat /\ i \in Nat
  BY Elements
<1>b. /\ r \in Seq(Maps) /\ Len(r) = Len(a) + Len(b)
      /\ \A j \in 1 .. Len(a) : r[j] = a[j]
      /\ \A j \in 1 .. Len(b) : r[Len(a) + j] = b[j]
  BY <1>1, <1>2, <1>3, TwoSequences
<1>4. /\ r \in Seq(Maps) /\ Len(r) = Len(s) - 1 /\ Len(s) \in Nat /\ i \in Nat
      /\ \A j \in 1 .. Len(a) : r[j] = a[j]
      /\ \A j \in 1 .. Len(b) : r[Len(a) + j] = b[j]
  BY <1>1, <1>2, <1>a, <1>b
<1>5. ASSUME NEW j \in 1 .. Len(s) - 1
      PROVE  r[j] = s[IF j < i THEN j ELSE j + 1]
  <2>1. CASE j < i
    BY <2>1, <1>1, <1>4
  <2>2. CASE j >= i
    <3>1. j - (i - 1) \in 1 .. Len(s) - i /\ (i - 1) + (j - (i - 1)) = j
          /\ i + (j - (i - 1)) = j + 1
      BY <2>2, <1>4
    <3>2. r[j] = b[j - (i - 1)]
      BY <3>1, <1>1, <1>2, <1>4
    <3> QED
      BY <2>2, <3>1, <3>2, <1>2, <1>4
  <2> QED
    BY <2>1, <2>2, <1>4
<1>6. ToSet(r) = {r[j] : j \in 1 .. Len(s) - 1} /\ ToSet(s) = {s[j] : j \in 1 .. Len(s)}
  BY <1>4, Elements
<1>7. ASSUME NEW j \in 1 .. Len(s) - 1 PROVE r[j] \in ToSet(s)
  <2>1. (IF j < i THEN j ELSE j + 1) \in 1 .. Len(s)
    BY <1>4
  <2> QED
    BY <2>1, <1>5, <1>6
<1>8. ASSUME NEW j \in 1 .. Len(s), j # i PROVE s[j] \in ToSet(r)
  <2>1. CASE j < i
    <3>1. j \in 1 .. Len(s) - 1 /\ r[j] = s[j]
      BY <2>1, <1>4, <1>5
    <3> QED
      BY <3>1, <1>6
  <2>2. CASE j > i
    <3>1. j - 1 \in 1 .. Len(s) - 1 /\ ~ (j - 1 < i) /\ (j - 1) + 1 = j
      BY <2>2, <1>4
    <3>2. r[j - 1] = s[j]
      BY <3>1, <1>5
    <3> QED
      BY <3>1, <3>2, <1>6
  <2> QED
    BY <1>8, <2>1, <2>2, <1>4
<1>9. ToSet(r) \subseteq ToSet(s) /\ ToSet(s) \subseteq ToSet(r) \cup {s[i]}
  BY <1>6, <1>7, <1>8
<1> QED
  BY <1>4, <1>5, <1>9 DEF r

(* which of one are in a set: these and no others;                         *)
LEMMA ThoseElements ==
  ASSUME NEW s \in Seq(Maps), NEW S
  PROVE  Those(s, S) \in Seq(Maps) /\ ToSet(Those(s, S)) = ToSet(s) \cap S
<1> DEFINE at == {i \in DOMAIN s : s[i] \in S}
           Before(i) == {j \in at : j <= i}
           N == Cardinality(at)
           rank == [i \in at |-> Cardinality(Before(i))]
           nth == [n \in 1 .. N |-> CHOOSE i \in at : Cardinality(Before(i)) = n]
           r == Those(s, S)
<1>1. IsFiniteSet(at) /\ N \in Nat /\ at \subseteq 1 .. Len(s) /\ Len(s) \in Nat
  <2>1. DOMAIN s = 1 .. Len(s) /\ Len(s) \in Nat
    BY Elements
  <2>2. IsFiniteSet(1 .. Len(s))
    BY <2>1, FS_Interval
  <2>3. at \subseteq 1 .. Len(s)
    BY <2>1
  <2> HIDE DEF at
  <2> QED
    BY <2>1, <2>2, <2>3, FS_Subset, FS_CardinalityType
<1>2. r = [n \in 1 .. N |-> s[nth[n]]]
  BY DEF Those
<1>3. \A i \in at : s[i] \in ToSet(s) \cap S
  BY DEF ToSet
<1>4. ASSUME NEW m \in ToSet(s) \cap S
      PROVE  \E i \in at : s[i] = m
  BY DEF ToSet
<1> HIDE DEF at, r
<1>5. ASSUME NEW i \in at
      PROVE  IsFiniteSet(Before(i)) /\ Cardinality(Before(i)) \in 1 .. N
  <2>1. Before(i) \subseteq at /\ i \in Before(i)
    BY <1>1
  <2> HIDE DEF Before
  <2>2. /\ IsFiniteSet(Before(i)) /\ Cardinality(Before(i)) \in Nat
        /\ Cardinality(Before(i)) <= N
    BY <2>1, <1>1, FS_Subset, FS_CardinalityType
  <2>3. Cardinality(Before(i)) # 0
    BY <2>1, <2>2, FS_EmptySet
  <2> QED
    BY <2>2, <2>3, <1>1
<1>6. ASSUME NEW i \in at, NEW k \in at, i < k
      PROVE  Cardinality(Before(i)) # Cardinality(Before(k))
  <2>1. Before(i) \subseteq Before(k) /\ k \in Before(k) /\ k \notin Before(i)
    <3>1. at \subseteq Int
      BY <1>1
    <3>2. \A j \in at : j <= i => j <= k
      BY <3>1, <1>6
    <3>3. k <= k /\ ~ (k <= i)
      BY <3>1, <1>6
    <3> QED
      BY <3>2, <3>3
  <2>2. IsFiniteSet(Before(k))
    BY <1>5
  <2> HIDE DEF Before
  <2> QED
    BY <2>1, <2>2, FS_Subset
<1>7. \A i, k \in at : rank[i] = rank[k] => i = k
  <2>1. \A i \in at : rank[i] = Cardinality(Before(i))
    OBVIOUS
  <2> HIDE DEF rank, Before
  <2>2. ASSUME NEW i \in at, NEW k \in at, rank[i] = rank[k] PROVE i = k
    <3>1. i \in Int /\ k \in Int /\ Cardinality(Before(i)) = Cardinality(Before(k))
      BY <1>1, <2>1, <2>2
    <3>2. ~ (i < k) /\ ~ (k < i)
      BY <3>1, <1>6
    <3> QED
      BY <3>1, <3>2
  <2> QED
    BY <2>2
<1>8. rank \in Injection(at, 1 .. N)
  <2>1. rank \in [at -> 1 .. N]
    BY <1>5
  <2> HIDE DEF rank
  <2> QED
    BY <2>1, <1>7 DEF Injection, IsInjective
<1>9. \A n \in 1 .. N : \E i \in at : rank[i] = n
  <2>1. IsFiniteSet(1 .. N) /\ Cardinality(1 .. N) = N
    BY <1>1, FS_Interval
  <2> HIDE DEF rank
  <2>2. rank \in Surjection(at, 1 .. N)
    BY <2>1, <1>8, FS_Injection
  <2> QED
    BY <2>2 DEF Surjection
<1>10. ASSUME NEW n \in 1 .. N
       PROVE  nth[n] \in at /\ rank[nth[n]] = n
  <2>1. \E i \in at : Cardinality(Before(i)) = n
    BY <1>9
  <2> HIDE DEF Before
  <2>2. nth[n] \in at /\ Cardinality(Before(nth[n])) = n
    BY <2>1
  <2> QED
    BY <2>2
<1>11. \A i \in at : rank[i] \in 1 .. N
  BY <1>5
<1> HIDE DEF rank, nth, N, Before
<1>12. /\ ToSet(s) \subseteq Maps
       /\ r \in Seq(Maps) /\ ToSet(r) = {s[nth[n]] : n \in 1 .. N}
  <2>1. ToSet(s) \subseteq Maps
    BY Elements
  <2>2. \A n \in 1 .. N : s[nth[n]] \in Maps
    BY <2>1, <1>3, <1>10
  <2>3. r \in [1 .. N -> Maps]
    BY <2>2, <1>2
  <2>4. r \in Seq(Maps) /\ Len(r) = N
    BY <2>3, <1>1 DEF N
  <2>5. ToSet(r) = {r[n] : n \in 1 .. N}
    BY <2>4, Elements
  <2>6. \A n \in 1 .. N : r[n] = s[nth[n]]
    BY <1>2
  <2> QED
    BY <2>1, <2>4, <2>5, <2>6
<1>13. ASSUME NEW m \in ToSet(s) \cap S PROVE m \in ToSet(r)
  <2>1. PICK i \in at : s[i] = m
    BY <1>4
  <2>2. rank[i] \in 1 .. N /\ nth[rank[i]] \in at /\ rank[nth[rank[i]]] = rank[i]
    BY <1>10, <1>11
  <2>3. nth[rank[i]] = i
    BY <2>2, <1>7
  <2> QED
    BY <2>1, <2>2, <2>3, <1>12
<1> QED
  BY <1>3, <1>10, <1>12, <1>13 DEF r

(* and a set as one.                                                       *)
LEMMA SetElements ==
  ASSUME NEW S \in SUBSET Maps
  PROVE  SetToSeq(S) \in Seq(Maps) /\ ToSet(SetToSeq(S)) = S
<1> DEFINE n == Cardinality(S)
           r == SetToSeq(S)
<1>1. IsFiniteSet(S) /\ n \in Nat /\ ExistsBijection(1 .. n, S)
  BY MapGridAssumption, FS_Subset, FS_CardinalityType
<1>2. \E f \in [1 .. n -> S] : IsInjective(f)
  <2>1. PICK f : f \in Bijection(1 .. n, S)
    BY <1>1 DEF ExistsBijection
  <2> QED
    BY <2>1 DEF Bijection, Injection
<1>3. r \in [1 .. n -> S] /\ IsInjective(r)
  BY <1>2 DEF SetToSeq
<1> HIDE DEF r
<1>4. IsFiniteSet(1 .. n) /\ Cardinality(1 .. n) = n
  BY <1>1, FS_Interval
<1>5. r \in Surjection(1 .. n, S)
  BY <1>1, <1>3, <1>4, FS_Injection DEF Injection
<1>6. r \in Seq(Maps) /\ Len(r) = n
  BY <1>1, <1>3
<1>7. ToSet(r) = {r[i] : i \in 1 .. n}
  BY <1>6, Elements
<1> QED
  BY <1>3, <1>5, <1>6, <1>7 DEF r, Surjection

-----------------------------------------------------------------------------
(* The containers of maps.  What one has after another was inserted,       *)
LEMMA InsertMaps ==
  ASSUME NEW c \in MapMap, NEW d \in MapMap
  PROVE  /\ Insert(c, d) \in MapMap /\ In(Insert(c, d)) = In(c) \cup In(d)
         /\ \A m \in Maps : Insert(c, d)[m] \in {c[m], d[m]}
BY DEF MapMap, MapStates, Insert, In

(* after all but some were taken out,                                      *)
LEMMA OnlyMaps ==
  ASSUME NEW c \in MapMap, NEW S
  PROVE  /\ Only(c, S) \in MapMap /\ In(Only(c, S)) = In(c) \cap S
         /\ \A m \in Maps : Only(c, S)[m] \in {c[m], "absent"}
BY DEF MapMap, MapStates, Only, In

(* and after some were.                                                    *)
LEMMA WithoutMaps ==
  ASSUME NEW c \in MapMap, NEW S
  PROVE  /\ Without(c, S) \in MapMap /\ In(Without(c, S)) = In(c) \ S
         /\ \A m \in Maps : Without(c, S)[m] \in {c[m], "absent"}
BY DEF MapMap, MapStates, Without, In

(* The empty one has none.                                                 *)
LEMMA NothingIn ==
  Nothing \in MapMap /\ In(Nothing) = {} /\ \A m \in Maps : Nothing[m] = "absent"
BY DEF MapMap, MapStates, Nothing, In

-----------------------------------------------------------------------------
(* The parts of the inductive invariant, said of a control g, since the    *)
(* handlers take it through several.  What must hold between any two calls *)
(* of its methods,                                                         *)
Counted(g) ==
  /\ g.mapinfo_fetches = Len(g.infos) /\ g.mapinfo_fetches <= MAX_MAPINFO_FETCHES
  /\ g.minimap_fetches = Len(g.images) /\ g.minimap_fetches <= MAX_MINIMAP_FETCHES

Pointed(g) == {g.mouseover, g.selected} \subseteq In(g.maps) \cup {NULL}

Apart(g) ==
  /\ In(g.maps) \cap In(g.unused) = {}
  /\ In(g.filtered) \subseteq In(g.maps) \cup In(g.unused)

Loads(c, g) == \A m \in Maps : c[m] = "GetMinimap" => m \in ToSet(g.images)

Sound(g) ==
  /\ g \in Control /\ Counted(g) /\ Pointed(g) /\ Apart(g)
  /\ Loads(g.maps, g) /\ Loads(g.unused, g) /\ Loads(g.filtered, g)

(* and what between any two handlers: a name waits only at the limit;      *)
Waits(g) == g.pending # <<>> => g.mapinfo_fetches = MAX_MAPINFO_FETCHES

(* the installed ones of the names are in the list or coming;              *)
Held(g) == In(g.maps) \cup In(g.filtered)

Coming(g) == ToSet(g.infos) \cup ToSet(g.pending)

Promised(g, names) == names \ Missing \subseteq Held(g) \cup Coming(g)

(* only such names wait; and the maps of other names in the list, together *)
(* with the fetches that may bring further ones, are no more than may be   *)
(* fetched at a time.                                                      *)
Old(q, names) == {i \in DOMAIN q : q[i] \notin names}

Few(g, names) ==
  /\ ToSet(g.pending) \subseteq names
  /\ Cardinality(Held(g) \ names) + Cardinality(Old(g.infos, names)) <= MAX_MAPINFO_FETCHES

(* The inductive invariant.                                                *)
IInv ==
  /\ text \subseteq Maps /\ completed \in BOOLEAN /\ asked \subseteq Maps
  /\ Sound(grid) /\ Waits(grid) /\ Promised(grid, asked) /\ Few(grid, asked)

-----------------------------------------------------------------------------
(* The fetches of an older list.  New ones of the list's own names make    *)
(* them no more,                                                           *)
LEMMA OldStay ==
  ASSUME NEW q \in Seq(Maps), NEW s \in Seq(Maps), NEW names, ToSet(s) \subseteq names
  PROVE  Old(q \o s, names) = Old(q, names)
<1>1. q \o s \in Seq(Maps) /\ Len(q \o s) = Len(q) + Len(s)
      /\ (\A i \in 1 .. Len(q) : (q \o s)[i] = q[i])
      /\ (\A i \in 1 .. Len(s) : (q \o s)[Len(q) + i] = s[i])
  BY TwoSequences
<1> DEFINE r == q \o s
<1> HIDE DEF r
<1>2. /\ DOMAIN r = 1 .. Len(r) /\ DOMAIN q = 1 .. Len(q) /\ Len(q) \in Nat /\ Len(s) \in Nat
      /\ \A i \in 1 .. Len(s) : s[i] \in names
  BY <1>1, Elements DEF r
<1>3. Len(r) = Len(q) + Len(s) /\ (\A i \in 1 .. Len(q) : r[i] = q[i])
      /\ (\A i \in 1 .. Len(s) : r[Len(q) + i] = s[i])
  BY <1>1 DEF r
<1>4. ASSUME NEW i \in 1 .. Len(r), i \notin 1 .. Len(q) PROVE r[i] \in names
  <2>1. i - Len(q) \in 1 .. Len(s) /\ Len(q) + (i - Len(q)) = i
    BY <1>2, <1>3, <1>4
  <2> QED
    BY <2>1, <1>2, <1>3
<1>5. 1 .. Len(q) \subseteq 1 .. Len(r)
  BY <1>2, <1>3
<1>6. Old(r, names) = Old(q, names)
  BY <1>2, <1>3, <1>4, <1>5 DEF Old
<1> QED
  BY <1>6 DEF r

(* they are no more than all,                                              *)
LEMMA OldFew ==
  ASSUME NEW q \in Seq(Maps), NEW names
  PROVE  /\ IsFiniteSet(Old(q, names)) /\ Cardinality(Old(q, names)) \in Nat
         /\ Cardinality(Old(q, names)) <= Len(q)
<1>1. DOMAIN q = 1 .. Len(q) /\ Len(q) \in Nat
  BY Elements
<1>2. IsFiniteSet(1 .. Len(q)) /\ Cardinality(1 .. Len(q)) = Len(q)
  BY <1>1, FS_Interval
<1>3. Old(q, names) \subseteq 1 .. Len(q)
  BY <1>1 DEF Old
<1> QED
  BY <1>2, <1>3, FS_Subset, FS_CardinalityType

(* and one less when one of them is over.                                  *)
LEMMA OldLess ==
  ASSUME NEW q \in Seq(Maps), NEW i \in 1 .. Len(q), NEW names
  PROVE  Cardinality(Old(RemoveAt(q, i), names))
           <= Cardinality(Old(q, names)) - (IF q[i] \in names THEN 0 ELSE 1)
<1> DEFINE r == RemoveAt(q, i)
           next == [j \in Old(r, names) |-> IF j < i THEN j ELSE j + 1]
           rest == Old(q, names) \ {i}
<1>1. /\ r \in Seq(Maps) /\ Len(r) = Len(q) - 1
      /\ \A j \in 1 .. Len(q) - 1 : r[j] = q[IF j < i THEN j ELSE j + 1]
  BY OneLess
<1> HIDE DEF r
<1>2. DOMAIN r = 1 .. Len(q) - 1 /\ DOMAIN q = 1 .. Len(q) /\ Len(q) \in Nat /\ i \in Nat
  BY <1>1, Elements
<1>3. ASSUME NEW j \in Old(r, names)
      PROVE  j \in Nat /\ next[j] \in rest
  <2>1. j \in 1 .. Len(q) - 1 /\ r[j] \notin names
    BY <1>2 DEF Old
  <2>2. next[j] \in 1 .. Len(q) /\ next[j] # i /\ next[j] = IF j < i THEN j ELSE j + 1
    BY <2>1, <1>2
  <2> HIDE DEF next
  <2>3. q[next[j]] \notin names
    BY <2>1, <2>2, <1>1
  <2> QED
    BY <2>1, <2>2, <2>3, <1>2 DEF Old
<1>4. ASSUME NEW j \in Old(r, names), NEW k \in Old(r, names), next[j] = next[k]
      PROVE  j = k
  <2>1. next[j] = (IF j < i THEN j ELSE j + 1) /\ next[k] = (IF k < i THEN k ELSE k + 1)
    OBVIOUS
  <2> HIDE DEF next
  <2> QED
    BY <2>1, <1>2, <1>3, <1>4
<1>5. next \in Injection(Old(r, names), rest)
  <2>1. next \in [Old(r, names) -> rest]
    BY <1>3
  <2> HIDE DEF next
  <2> QED
    BY <2>1, <1>4 DEF Injection, IsInjective
<1>6. /\ IsFiniteSet(Old(q, names)) /\ Cardinality(Old(q, names)) \in Nat
      /\ IsFiniteSet(Old(r, names)) /\ Cardinality(Old(r, names)) \in Nat
  BY <1>1, OldFew
<1> HIDE DEF next
<1>7. /\ IsFiniteSet(rest)
      /\ Cardinality(rest) = IF i \in Old(q, names) THEN Cardinality(Old(q, names)) - 1
                             ELSE Cardinality(Old(q, names))
  BY <1>6, FS_RemoveElement
<1>8. Cardinality(Old(r, names)) <= Cardinality(rest)
  BY <1>5, <1>7, FS_Injection
<1>9. i \in Old(q, names) <=> q[i] \notin names
  BY <1>2 DEF Old
<1>10. CASE q[i] \in names
  BY <1>6, <1>7, <1>8, <1>9, <1>10 DEF r
<1>11. CASE q[i] \notin names
  BY <1>6, <1>7, <1>8, <1>9, <1>11 DEF r
<1> QED
  BY <1>10, <1>11

-----------------------------------------------------------------------------
(* The methods of the control.  The lesser of two numbers.                 *)
LEMMA SmallerIs ==
  ASSUME NEW a \in Nat, NEW b \in Nat
  PROVE  Smaller(a, b) \in 0 .. a /\ Smaller(a, b) \in 0 .. b /\ Smaller(a, b) \in {a, b}
BY DEF Smaller

(* FetchMapInfo for each of several names: some are fetched, the others    *)
(* wait, and nothing else changes.                                         *)
LEMMA Fetched ==
  ASSUME NEW g, Sound(g), Waits(g), NEW names \in Seq(Maps)
  PROVE  LET h == FetchMapInfo(g, names) IN
           /\ Sound(h) /\ Waits(h)
           /\ h.maps = g.maps /\ h.unused = g.unused /\ h.filtered = g.filtered
           /\ h.images = g.images
           /\ \E s, t \in Seq(Maps) :
                /\ ToSet(names) = ToSet(s) \cup ToSet(t)
                /\ h.infos = g.infos \o s /\ h.pending = g.pending \o t
<1> DEFINE room == Smaller(MAX_MAPINFO_FETCHES - g.mapinfo_fetches, Len(names))
           s == SubSeq(names, 1, room)
           t == SubSeq(names, room + 1, Len(names))
           h == FetchMapInfo(g, names)
<1>1. /\ g \in Control /\ Counted(g) /\ Pointed(g) /\ Apart(g)
      /\ Loads(g.maps, g) /\ Loads(g.unused, g) /\ Loads(g.filtered, g)
  BY DEF Sound
<1>2. /\ g.infos \in Seq(Maps) /\ g.pending \in Seq(Maps) /\ g.mapinfo_fetches \in Nat
      /\ Len(names) \in Nat /\ MAX_MAPINFO_FETCHES \in Nat
      /\ MAX_MAPINFO_FETCHES - g.mapinfo_fetches \in Nat
  BY <1>1, MapGridAssumption, Elements DEF Control, Counted
<1>3. /\ room \in 0 .. Len(names) /\ room <= MAX_MAPINFO_FETCHES - g.mapinfo_fetches
      /\ (room = Len(names) \/ room = MAX_MAPINFO_FETCHES - g.mapinfo_fetches)
  <2> DEFINE a == MAX_MAPINFO_FETCHES - g.mapinfo_fetches
             b == Len(names)
  <2>1. a \in Nat /\ b \in Nat
    BY <1>2
  <2> HIDE DEF a, b
  <2>2. Smaller(a, b) \in 0 .. b /\ Smaller(a, b) <= a /\ Smaller(a, b) \in {a, b}
    <3>1. Smaller(a, b) \in 0 .. a /\ Smaller(a, b) \in 0 .. b /\ Smaller(a, b) \in {a, b}
      BY <2>1, SmallerIs
    <3> QED
      BY <3>1, <2>1
  <2> QED
    BY <2>2 DEF a, b
<1> HIDE DEF room
<1>4. /\ s \in Seq(Maps) /\ Len(s) = room /\ t \in Seq(Maps) /\ Len(t) = Len(names) - room
      /\ ToSet(names) = ToSet(s) \cup ToSet(t)
  BY <1>3, CutSequence
<1>5. h = [g EXCEPT !.infos = @ \o s, !.mapinfo_fetches = @ + room, !.pending = @ \o t]
  BY DEF FetchMapInfo, room
<1> HIDE DEF s, t, h
<1>6. /\ g.infos \o s \in Seq(Maps) /\ Len(g.infos \o s) = Len(g.infos) + room
      /\ g.pending \o t \in Seq(Maps) /\ Len(g.pending \o t) = Len(g.pending) + Len(t)
  BY <1>2, <1>4, TwoSequences
<1>7. /\ h.maps = g.maps /\ h.unused = g.unused /\ h.filtered = g.filtered
      /\ h.infos = g.infos \o s /\ h.pending = g.pending \o t /\ h.images = g.images
      /\ h.mapinfo_fetches = g.mapinfo_fetches + room
      /\ h.minimap_fetches = g.minimap_fetches
      /\ h.mouseover = g.mouseover /\ h.selected = g.selected
  BY <1>1, <1>5 DEF Control
<1>8. h \in Control
  <2> DEFINE i == g.infos \o s
             p == g.pending \o t
             n == g.mapinfo_fetches + room
  <2>1. i \in Seq(Maps) /\ p \in Seq(Maps) /\ n \in Nat
    BY <1>2, <1>3, <1>6
  <2>2. h = [g EXCEPT !.infos = i, !.mapinfo_fetches = n, !.pending = p]
    BY <1>5
  <2> HIDE DEF i, p, n
  <2> QED
    BY <1>1, <2>1, <2>2 DEF Control
<1>9. Counted(h)
  BY <1>1, <1>2, <1>3, <1>6, <1>7 DEF Counted
<1>10. Pointed(h) /\ Apart(h) /\ Loads(h.maps, h) /\ Loads(h.unused, h) /\ Loads(h.filtered, h)
  BY <1>1, <1>7 DEF Pointed, Apart, Loads
<1>11. Waits(h)
  <2>1. CASE room = MAX_MAPINFO_FETCHES - g.mapinfo_fetches
    BY <2>1, <1>2, <1>7 DEF Waits
  <2>2. CASE room = Len(names) /\ g.pending = <<>>
    <3>1. Len(h.pending) = 0 /\ h.pending \in Seq(Maps)
      BY <2>2, <1>2, <1>4, <1>6, <1>7
    <3>2. h.pending = <<>>
      BY <3>1
    <3> QED
      BY <3>2 DEF Waits
  <2>3. CASE g.pending # <<>>
    <3>1. g.mapinfo_fetches = MAX_MAPINFO_FETCHES
      BY <2>3 DEF Waits
    <3> QED
      BY <3>1, <1>2, <1>3, <1>7 DEF Waits
  <2> QED
    BY <2>1, <2>2, <2>3, <1>3
<1>12. Sound(h)
  BY <1>8, <1>9, <1>10 DEF Sound
<1> QED
  BY <1>4, <1>7, <1>11, <1>12 DEF h

(* AddMap for each of several names: those that are unused come back into  *)
(* the list, those that are nowhere are fetched or wait.                   *)
LEMMA Added ==
  ASSUME NEW g, Sound(g), Waits(g), NEW names \in Seq(Maps)
  PROVE  LET h == AddMaps(g, names) IN
           /\ Sound(h) /\ Waits(h)
           /\ In(h.maps) = In(g.maps) \cup (ToSet(names) \cap In(g.unused))
           /\ In(h.unused) = In(g.unused) \ ToSet(names)
           /\ h.filtered = g.filtered /\ h.images = g.images
           /\ \E s, t \in Seq(Maps) :
                /\ ToSet(names) \ (In(g.maps) \cup In(g.unused)) = ToSet(s) \cup ToSet(t)
                /\ h.infos = g.infos \o s /\ h.pending = g.pending \o t
<1> DEFINE known == {m \in ToSet(names) : g.maps[m] = "absent"} \cap In(g.unused)
           unknown == Those(names, Maps \ (In(g.maps) \cup In(g.unused)))
           maps == Insert(g.maps, Only(g.unused, known))
           unused == Without(g.unused, known)
           f == [g EXCEPT !.maps = maps, !.unused = unused]
           h == AddMaps(g, names)
<1>1. /\ g \in Control /\ Counted(g) /\ Pointed(g) /\ Apart(g)
      /\ Loads(g.maps, g) /\ Loads(g.unused, g) /\ Loads(g.filtered, g)
  BY DEF Sound
<1>2. g.maps \in MapMap /\ g.unused \in MapMap /\ ToSet(names) \subseteq Maps
  BY <1>1, Elements DEF Control
<1>3. known = ToSet(names) \cap In(g.unused)
  BY <1>1, <1>2 DEF Apart, In
<1>4. /\ unknown \in Seq(Maps)
      /\ ToSet(unknown) = ToSet(names) \ (In(g.maps) \cup In(g.unused))
  BY <1>2, ThoseElements
<1>5. h = FetchMapInfo(f, unknown)
  BY DEF AddMaps
<1> HIDE DEF known, unknown, h
<1>6. /\ Only(g.unused, known) \in MapMap /\ In(Only(g.unused, known)) = In(g.unused) \cap known
      /\ \A m \in Maps : Only(g.unused, known)[m] \in {g.unused[m], "absent"}
  BY <1>2, OnlyMaps
<1>7. /\ maps \in MapMap /\ In(maps) = In(g.maps) \cup In(Only(g.unused, known))
      /\ \A m \in Maps : maps[m] \in {g.maps[m], Only(g.unused, known)[m]}
  BY <1>2, <1>6, InsertMaps
<1>8. /\ unused \in MapMap /\ In(unused) = In(g.unused) \ known
      /\ \A m \in Maps : unused[m] \in {g.unused[m], "absent"}
  BY <1>2, WithoutMaps
<1> HIDE DEF maps, unused
<1>9. /\ f.maps = maps /\ f.unused = unused /\ f.filtered = g.filtered
      /\ f.infos = g.infos /\ f.pending = g.pending /\ f.images = g.images
      /\ f.mapinfo_fetches = g.mapinfo_fetches /\ f.minimap_fetches = g.minimap_fetches
      /\ f.mouseover = g.mouseover /\ f.selected = g.selected
      /\ f \in Control
  BY <1>1, <1>7, <1>8 DEF Control
<1> HIDE DEF f
<1>10. In(f.maps) = In(g.maps) \cup (ToSet(names) \cap In(g.unused))
       /\ In(f.unused) = In(g.unused) \ ToSet(names)
  BY <1>3, <1>6, <1>7, <1>8, <1>9
<1>11. Counted(f) /\ Waits(f)
  BY <1>1, <1>9 DEF Counted, Waits
<1>12. Pointed(f) /\ Apart(f)
  BY <1>1, <1>9, <1>10 DEF Pointed, Apart
<1>13. Loads(f.maps, f) /\ Loads(f.unused, f) /\ Loads(f.filtered, f)
  <2>1. \A m \in Maps : g.maps[m] = "GetMinimap" \/ g.unused[m] = "GetMinimap"
                          => m \in ToSet(f.images)
    BY <1>1, <1>9 DEF Loads
  <2>2. ASSUME NEW m \in Maps
        PROVE  f.maps[m] \in {g.maps[m], g.unused[m], "absent"}
               /\ f.unused[m] \in {g.unused[m], "absent"}
    BY <1>6, <1>7, <1>8, <1>9
  <2> QED
    BY <1>1, <1>9, <2>1, <2>2 DEF Loads
<1>14. Sound(f)
  BY <1>9, <1>11, <1>12, <1>13 DEF Sound
<1>15. /\ Sound(h) /\ Waits(h)
       /\ h.maps = f.maps /\ h.unused = f.unused /\ h.filtered = f.filtered
       /\ h.images = f.images
       /\ \E s, t \in Seq(Maps) :
            /\ ToSet(unknown) = ToSet(s) \cup ToSet(t)
            /\ h.infos = f.infos \o s /\ h.pending = f.pending \o t
  <2> DEFINE k == FetchMapInfo(f, unknown)
  <2>1. /\ Sound(k) /\ Waits(k)
        /\ k.maps = f.maps /\ k.unused = f.unused /\ k.filtered = f.filtered
        /\ k.images = f.images
        /\ \E s, t \in Seq(Maps) :
             /\ ToSet(unknown) = ToSet(s) \cup ToSet(t)
             /\ k.infos = f.infos \o s /\ k.pending = f.pending \o t
    BY <1>4, <1>11, <1>14, Fetched
  <2> QED
    BY <2>1, <1>5
<1> QED
  BY <1>4, <1>9, <1>10, <1>15 DEF h

(* Clear: nothing is in the list, nothing hidden, nothing waits; what is   *)
(* on its way still is.                                                    *)
LEMMA Cleared ==
  ASSUME NEW g, Sound(g)
  PROVE  LET h == Clear(g) IN
           /\ Sound(h) /\ Waits(h)
           /\ In(h.maps) = {} /\ In(h.filtered) = {}
           /\ h.pending = <<>> /\ h.infos = g.infos
<1> DEFINE both == Insert(g.unused, g.maps)
           unused == Insert(both, g.filtered)
           h == Clear(g)
<1>1. /\ g \in Control /\ Counted(g)
      /\ Loads(g.maps, g) /\ Loads(g.unused, g) /\ Loads(g.filtered, g)
  BY DEF Sound
<1>2. g.maps \in MapMap /\ g.unused \in MapMap /\ g.filtered \in MapMap
  BY <1>1 DEF Control
<1>3. both \in MapMap /\ \A m \in Maps : both[m] \in {g.unused[m], g.maps[m]}
  BY <1>2, InsertMaps
<1> HIDE DEF both
<1>4. unused \in MapMap /\ \A m \in Maps : unused[m] \in {both[m], g.filtered[m]}
  BY <1>2, <1>3, InsertMaps
<1> HIDE DEF unused
<1>5. h = [g EXCEPT !.unused = unused, !.pending = <<>>, !.maps = Nothing,
                    !.filtered = Nothing, !.mouseover = NULL, !.selected = NULL]
  BY DEF Clear, unused, both
<1> HIDE DEF h
<1>6. /\ h.maps = Nothing /\ h.unused = unused /\ h.filtered = Nothing
      /\ h.infos = g.infos /\ h.pending = <<>> /\ h.images = g.images
      /\ h.mapinfo_fetches = g.mapinfo_fetches /\ h.minimap_fetches = g.minimap_fetches
      /\ h.mouseover = NULL /\ h.selected = NULL
  BY <1>1, <1>5 DEF Control
<1>7. h \in Control
  <2>1. Nothing \in MapMap /\ <<>> \in Seq(Maps) /\ NULL \in Maps \cup {NULL}
    BY NothingIn
  <2> QED
    BY <1>1, <1>4, <1>5, <2>1 DEF Control
<1>8. Counted(h) /\ Waits(h)
  BY <1>1, <1>6 DEF Counted, Waits
<1>9. Pointed(h) /\ Apart(h)
  BY <1>6, NothingIn DEF Pointed, Apart
<1>10. Loads(h.maps, h) /\ Loads(h.unused, h) /\ Loads(h.filtered, h)
  BY <1>1, <1>3, <1>4, <1>6, NothingIn DEF Loads
<1> QED
  BY <1>6, <1>7, <1>8, <1>9, <1>10, NothingIn DEF Sound, h

(* Filter: the same maps are in the list or hidden, and nothing is fetched *)
(* for it, since what it shows was unused.                                 *)
LEMMA Filtered ==
  ASSUME NEW g, Sound(g), Waits(g), NEW pred
  PROVE  LET h == Filter(g, pred) IN
           /\ Sound(h) /\ Waits(h) /\ Held(h) = Held(g)
           /\ h.infos = g.infos /\ h.pending = g.pending
<1> DEFINE all == Insert(g.filtered, g.maps)
           found == pred \cap In(all)
           unused == Insert(g.unused, g.maps)
           hidden == Without(all, found)
           f == [g EXCEPT !.unused = unused, !.maps = Nothing,
                          !.mouseover = NULL, !.selected = NULL]
           names == SetToSeq(found)
           k == AddMaps(f, names)
           h == Filter(g, pred)
<1>1. /\ g \in Control /\ Counted(g) /\ Apart(g)
      /\ Loads(g.maps, g) /\ Loads(g.unused, g) /\ Loads(g.filtered, g)
  BY DEF Sound
<1>2. g.maps \in MapMap /\ g.unused \in MapMap /\ g.filtered \in MapMap
  BY <1>1 DEF Control
<1>3. h = [k EXCEPT !.filtered = hidden]
  BY DEF Filter
<1>4. /\ all \in MapMap /\ In(all) = In(g.filtered) \cup In(g.maps)
      /\ \A m \in Maps : all[m] \in {g.filtered[m], g.maps[m]}
  BY <1>2, InsertMaps
<1> HIDE DEF all, h
<1>5. found \in SUBSET Maps /\ found \subseteq In(all)
  BY DEF In
<1> HIDE DEF found
<1>6. names \in Seq(Maps) /\ ToSet(names) = found
  BY <1>5, SetElements
<1> HIDE DEF names
<1>7. /\ unused \in MapMap /\ In(unused) = In(g.unused) \cup In(g.maps)
      /\ \A m \in Maps : unused[m] \in {g.unused[m], g.maps[m]}
  BY <1>2, InsertMaps
<1>8. /\ hidden \in MapMap /\ In(hidden) = In(all) \ found
      /\ \A m \in Maps : hidden[m] \in {all[m], "absent"}
  BY <1>4, WithoutMaps
<1> HIDE DEF unused, hidden
<1>9. /\ f.maps = Nothing /\ f.unused = unused /\ f.filtered = g.filtered
      /\ f.infos = g.infos /\ f.pending = g.pending /\ f.images = g.images
      /\ f.mapinfo_fetches = g.mapinfo_fetches /\ f.minimap_fetches = g.minimap_fetches
      /\ f.mouseover = NULL /\ f.selected = NULL
  BY <1>1 DEF Control
<1>10. f \in Control
  <2>1. Nothing \in MapMap /\ NULL \in Maps \cup {NULL}
    BY NothingIn
  <2> QED
    BY <1>1, <1>7, <2>1 DEF Control
<1> HIDE DEF f
<1>11. Counted(f) /\ Pointed(f) /\ Waits(f)
  BY <1>1, <1>9 DEF Counted, Pointed, Waits
<1>12. Apart(f)
  BY <1>1, <1>7, <1>9, NothingIn DEF Apart
<1>13. Loads(f.maps, f) /\ Loads(f.unused, f) /\ Loads(f.filtered, f)
  BY <1>1, <1>7, <1>9, NothingIn DEF Loads
<1>14. Sound(f)
  BY <1>10, <1>11, <1>12, <1>13 DEF Sound
<1>15. /\ Sound(k) /\ Waits(k)
       /\ In(k.maps) = In(f.maps) \cup (ToSet(names) \cap In(f.unused))
       /\ In(k.unused) = In(f.unused) \ ToSet(names)
       /\ k.filtered = f.filtered /\ k.images = f.images
       /\ \E s, t \in Seq(Maps) :
            /\ ToSet(names) \ (In(f.maps) \cup In(f.unused)) = ToSet(s) \cup ToSet(t)
            /\ k.infos = f.infos \o s /\ k.pending = f.pending \o t
  BY <1>6, <1>11, <1>14, Added
<1> HIDE DEF k
<1>16. found \subseteq In(f.unused)
  BY <1>1, <1>4, <1>5, <1>7, <1>9 DEF Apart
<1>17. In(k.maps) = found /\ In(k.unused) = In(f.unused) \ found
  BY <1>6, <1>9, <1>15, <1>16, NothingIn
<1>18. k.infos = g.infos /\ k.pending = g.pending
  <2>1. PICK s, t \in Seq(Maps) :
          /\ ToSet(names) \ (In(f.maps) \cup In(f.unused)) = ToSet(s) \cup ToSet(t)
          /\ k.infos = f.infos \o s /\ k.pending = f.pending \o t
    BY <1>15
  <2>2. ToSet(s) = {} /\ ToSet(t) = {}
    BY <2>1, <1>6, <1>16
  <2>3. \A q \in Seq(Maps) : ToSet(q) = {} => q = <<>>
    <3>1. SUFFICES ASSUME NEW q \in Seq(Maps), ToSet(q) = {} PROVE q = <<>>
      OBVIOUS
    <3>a. ToSet(q) = {q[i] : i \in 1 .. Len(q)} /\ Len(q) \in Nat
      BY Elements
    <3>2. 1 \notin 1 .. Len(q) /\ Len(q) \in Nat
      <4>1. ASSUME 1 \in 1 .. Len(q) PROVE q[1] \in ToSet(q)
        BY <3>a, <4>1
      <4> QED
        BY <3>1, <3>a, <4>1
    <3> QED
      BY <3>2
  <2>4. s = <<>> /\ t = <<>>
    BY <2>2, <2>3
  <2>5. g.infos \in Seq(Maps) /\ g.pending \in Seq(Maps)
    BY <1>1 DEF Control
  <2>6. g.infos \o <<>> = g.infos /\ g.pending \o <<>> = g.pending
    BY <2>5
  <2> QED
    BY <2>1, <2>4, <2>6, <1>9
<1>19. /\ k \in Control /\ Counted(k) /\ Pointed(k) /\ Apart(k)
       /\ Loads(k.maps, k) /\ Loads(k.unused, k) /\ Loads(k.filtered, k)
  BY <1>15 DEF Sound
<1>20. /\ h.maps = k.maps /\ h.unused = k.unused /\ h.filtered = hidden
       /\ h.infos = k.infos /\ h.pending = k.pending /\ h.images = k.images
       /\ h.mapinfo_fetches = k.mapinfo_fetches /\ h.minimap_fetches = k.minimap_fetches
       /\ h.mouseover = k.mouseover /\ h.selected = k.selected
       /\ h \in Control
  BY <1>3, <1>8, <1>19 DEF Control
<1>21. k.images = g.images
  BY <1>9, <1>15
<1>22. Counted(h) /\ Pointed(h) /\ Waits(h)
  BY <1>15, <1>19, <1>20 DEF Counted, Pointed, Waits
<1>23. Apart(h)
  BY <1>1, <1>4, <1>7, <1>8, <1>9, <1>17, <1>20 DEF Apart
<1>24. Loads(h.maps, h) /\ Loads(h.unused, h) /\ Loads(h.filtered, h)
  BY <1>1, <1>4, <1>8, <1>19, <1>20, <1>21 DEF Loads
<1>25. Held(h) = Held(g)
  BY <1>4, <1>5, <1>8, <1>17, <1>20 DEF Held
<1> QED
  BY <1>15, <1>18, <1>20, <1>22, <1>23, <1>24, <1>25 DEF Sound, h

(* FetchMinimap for some of the maps that lack their picture, within the   *)
(* limit: they are loading then, and nothing else changes.                 *)
LEMMA Pictured ==
  ASSUME NEW g, Sound(g), NEW n \in Nat, NEW names \in [1 .. n -> NoMinimap(g)],
         g.minimap_fetches + n <= MAX_MINIMAP_FETCHES
  PROVE  LET h == FetchMinimap(g, names) IN
           /\ Sound(h) /\ In(h.maps) = In(g.maps) /\ h.filtered = g.filtered
           /\ h.infos = g.infos /\ h.pending = g.pending
           /\ h.mapinfo_fetches = g.mapinfo_fetches
<1> DEFINE images == g.images \o names
           maps == [m \in Maps |-> IF m \in ToSet(names) THEN "GetMinimap" ELSE g.maps[m]]
           m == g.minimap_fetches + Len(names)
           h == FetchMinimap(g, names)
<1>1. /\ g \in Control /\ Counted(g) /\ Pointed(g) /\ Apart(g)
      /\ Loads(g.maps, g) /\ Loads(g.unused, g) /\ Loads(g.filtered, g)
  BY DEF Sound
<1>2. g.maps \in MapMap /\ g.images \in Seq(Maps) /\ g.minimap_fetches \in Nat
  BY <1>1 DEF Control
<1>3. names \in Seq(Maps) /\ Len(names) = n
  BY DEF NoMinimap
<1>4. \A x \in ToSet(names) : x \in Maps /\ g.maps[x] = "NoMinimap"
  <2>1. ToSet(names) = {names[i] : i \in 1 .. n}
    BY <1>3, Elements
  <2> QED
    BY <2>1 DEF NoMinimap
<1>5. h = [g EXCEPT !.images = images, !.minimap_fetches = m, !.maps = maps]
  BY <1>1 DEF FetchMinimap, Control
<1> HIDE DEF h
<1>6. images \in Seq(Maps) /\ Len(images) = Len(g.images) + n
      /\ ToSet(images) = ToSet(g.images) \cup ToSet(names)
  BY <1>2, <1>3, TwoSequences
<1>7. m \in Nat /\ m = g.minimap_fetches + n
  BY <1>2, <1>3
<1>8. /\ maps \in MapMap
      /\ \A x \in Maps : maps[x] = IF x \in ToSet(names) THEN "GetMinimap" ELSE g.maps[x]
  BY <1>2 DEF MapMap, MapStates
<1> HIDE DEF images, maps, m
<1>9. In(maps) = In(g.maps)
  BY <1>4, <1>8 DEF In
<1>10. /\ h.maps = maps /\ h.unused = g.unused /\ h.filtered = g.filtered
       /\ h.infos = g.infos /\ h.pending = g.pending /\ h.images = images
       /\ h.mapinfo_fetches = g.mapinfo_fetches /\ h.minimap_fetches = m
       /\ h.mouseover = g.mouseover /\ h.selected = g.selected
       /\ h \in Control
  BY <1>1, <1>5, <1>6, <1>7, <1>8 DEF Control
<1>11. Counted(h)
  BY <1>1, <1>6, <1>7, <1>10 DEF Counted
<1>12. Pointed(h) /\ Apart(h)
  BY <1>1, <1>9, <1>10 DEF Pointed, Apart
<1>13. Loads(h.maps, h) /\ Loads(h.unused, h) /\ Loads(h.filtered, h)
  BY <1>1, <1>6, <1>8, <1>10 DEF Loads
<1> QED
  BY <1>9, <1>10, <1>11, <1>12, <1>13 DEF Sound, h

(* UpdateAsyncFetches: as many of the names that wait are fetched as the   *)
(* limit allows, and perhaps a picture.                                    *)
LEMMA Updated ==
  ASSUME NEW g, Sound(g), NEW h \in UpdateAsyncFetches(g)
  PROVE  /\ Sound(h) /\ Waits(h)
         /\ In(h.maps) = In(g.maps) /\ h.filtered = g.filtered
         /\ \E s \in Seq(Maps) :
              /\ ToSet(g.pending) = ToSet(h.pending) \cup ToSet(s)
              /\ h.infos = g.infos \o s
<1> DEFINE room == MAX_MAPINFO_FETCHES - g.mapinfo_fetches
           n == Smaller(room, Len(g.pending))
           left == Len(g.pending) - n
           s == SubSeq(g.pending, left + 1, Len(g.pending))
           p == SubSeq(g.pending, 1, left)
           k == [g EXCEPT !.infos = @ \o s, !.mapinfo_fetches = @ + n, !.pending = p]
<1>1. /\ g \in Control /\ Counted(g) /\ Pointed(g) /\ Apart(g)
      /\ Loads(g.maps, g) /\ Loads(g.unused, g) /\ Loads(g.filtered, g)
  BY DEF Sound
<1>2. /\ g.infos \in Seq(Maps) /\ g.pending \in Seq(Maps) /\ g.mapinfo_fetches \in Nat
      /\ Len(g.pending) \in Nat /\ MAX_MAPINFO_FETCHES \in Nat /\ room \in Nat
  BY <1>1, MapGridAssumption, Elements DEF Control, Counted
<1>3. h \in IF k.mapinfo_fetches = 0 /\ k.minimap_fetches = 0 /\ NoMinimap(k) # {}
            THEN {FetchMinimap(k, <<m>>) : m \in NoMinimap(k)}
            ELSE {k}
  <2>1. k = [g EXCEPT !.infos = @ \o s, !.mapinfo_fetches = @ + n,
                      !.pending = SubSeq(@, 1, left)]
    BY <1>1 DEF Control
  <2> QED
    BY <2>1 DEF UpdateAsyncFetches
<1>4. n \in 0 .. room /\ n \in 0 .. Len(g.pending) /\ n \in {room, Len(g.pending)}
  BY <1>2, SmallerIs
<1> HIDE DEF n
<1>5. left \in 0 .. Len(g.pending) /\ Len(g.pending) - left = n
  BY <1>2, <1>4
<1> HIDE DEF left
<1>6. /\ p \in Seq(Maps) /\ Len(p) = left /\ s \in Seq(Maps) /\ Len(s) = n
      /\ ToSet(g.pending) = ToSet(p) \cup ToSet(s)
  BY <1>2, <1>5, CutSequence
<1> HIDE DEF s, p
<1>7. g.infos \o s \in Seq(Maps) /\ Len(g.infos \o s) = Len(g.infos) + n
  BY <1>2, <1>6, TwoSequences
<1>8. /\ k.maps = g.maps /\ k.unused = g.unused /\ k.filtered = g.filtered
      /\ k.infos = g.infos \o s /\ k.pending = p /\ k.images = g.images
      /\ k.mapinfo_fetches = g.mapinfo_fetches + n
      /\ k.minimap_fetches = g.minimap_fetches
      /\ k.mouseover = g.mouseover /\ k.selected = g.selected
  BY <1>1 DEF Control
<1>9. k \in Control
  <2> DEFINE i == g.infos \o s
             c == g.mapinfo_fetches + n
  <2>1. i \in Seq(Maps) /\ c \in Nat
    BY <1>2, <1>4, <1>7
  <2>2. k = [g EXCEPT !.infos = i, !.mapinfo_fetches = c, !.pending = p]
    BY <1>1 DEF Control
  <2> HIDE DEF i, c, k
  <2> QED
    BY <1>1, <1>6, <2>1, <2>2 DEF Control
<1> HIDE DEF k
<1>10. Counted(k)
  BY <1>1, <1>2, <1>4, <1>7, <1>8 DEF Counted
<1>11. Sound(k)
  BY <1>1, <1>8, <1>9, <1>10 DEF Sound, Pointed, Apart, Loads
<1>12. Waits(k)
  <2>1. CASE n = room
    BY <2>1, <1>2, <1>8 DEF Waits
  <2>2. CASE n = Len(g.pending)
    <3>1. Len(p) = 0
      BY <2>2, <1>2, <1>5, <1>6
    <3>2. p = <<>>
      BY <3>1, <1>6
    <3> QED
      BY <3>2, <1>8 DEF Waits
  <2> QED
    BY <2>1, <2>2, <1>4
<1>13. CASE h = k
  BY <1>6, <1>8, <1>11, <1>12, <1>13
<1>14. CASE /\ k.minimap_fetches = 0
            /\ h \in {FetchMinimap(k, <<m>>) : m \in NoMinimap(k)}
  <2>1. PICK m \in NoMinimap(k) : h = FetchMinimap(k, <<m>>)
    BY <1>14
  <2>2. <<m>> \in [1 .. 1 -> NoMinimap(k)]
    OBVIOUS
  <2>3. k.minimap_fetches + 1 <= MAX_MINIMAP_FETCHES
    BY <1>14, MapGridAssumption
  <2>4. /\ Sound(h) /\ In(h.maps) = In(k.maps) /\ h.filtered = k.filtered
        /\ h.infos = k.infos /\ h.pending = k.pending
        /\ h.mapinfo_fetches = k.mapinfo_fetches
    BY <2>1, <2>2, <2>3, <1>11, Pictured
  <2>5. Waits(h)
    BY <2>4, <1>12 DEF Waits
  <2> QED
    BY <2>4, <2>5, <1>6, <1>8
<1> QED
  BY <1>3, <1>13, <1>14

-----------------------------------------------------------------------------
(* The handlers.  A new list: nothing but the list's own names is held or  *)
(* waits, and what else is on its way is no more than may be.              *)
LEMMA NewList ==
  ASSUME NEW g, Sound(g), NEW list \in Seq(Maps)
  PROVE  LET h == AddMaps(Clear(g), list) IN
           Sound(h) /\ Waits(h) /\ Promised(h, ToSet(list)) /\ Few(h, ToSet(list))
<1> DEFINE f == Clear(g)
           h == AddMaps(f, list)
           names == ToSet(list)
<1>1. /\ Sound(f) /\ Waits(f) /\ In(f.maps) = {} /\ In(f.filtered) = {}
      /\ f.pending = <<>> /\ f.infos = g.infos
  BY Cleared
<1> HIDE DEF f
<1>2. /\ Sound(h) /\ Waits(h)
      /\ In(h.maps) = In(f.maps) \cup (names \cap In(f.unused))
      /\ h.filtered = f.filtered
      /\ \E s, t \in Seq(Maps) :
           /\ names \ (In(f.maps) \cup In(f.unused)) = ToSet(s) \cup ToSet(t)
           /\ h.infos = f.infos \o s /\ h.pending = f.pending \o t
  BY <1>1, Added
<1>3. PICK s, t \in Seq(Maps) :
        /\ names \ (In(f.maps) \cup In(f.unused)) = ToSet(s) \cup ToSet(t)
        /\ h.infos = f.infos \o s /\ h.pending = f.pending \o t
  BY <1>2
<1>4. /\ g.infos \in Seq(Maps) /\ Len(g.infos) <= MAX_MAPINFO_FETCHES /\ Len(g.infos) \in Nat
      /\ MAX_MAPINFO_FETCHES \in Nat
  BY MapGridAssumption, Elements DEF Sound, Control, Counted
<1> HIDE DEF h, names
<1>5. Held(h) = names \cap In(f.unused)
  BY <1>1, <1>2 DEF Held
<1>6. h.pending = t /\ h.infos = g.infos \o s
  BY <1>1, <1>3
<1>7. ToSet(h.infos) = ToSet(g.infos) \cup ToSet(s)
  BY <1>4, <1>6, TwoSequences
<1>8. Promised(h, names)
  BY <1>1, <1>3, <1>5, <1>6, <1>7 DEF Promised, Coming
<1>9. Few(h, names)
  <2>1. ToSet(s) \subseteq names /\ ToSet(h.pending) \subseteq names
    BY <1>3, <1>6
  <2>2. Old(h.infos, names) = Old(g.infos, names)
    BY <2>1, <1>4, <1>6, OldStay
  <2>3. Cardinality(Old(g.infos, names)) \in Nat
        /\ Cardinality(Old(g.infos, names)) <= Len(g.infos)
    BY <1>4, OldFew
  <2>4. Held(h) \ names = {}
    BY <1>5
  <2>5. Cardinality(Held(h) \ names) = 0
    BY <2>4, FS_EmptySet
  <2> QED
    BY <2>1, <2>2, <2>3, <2>5, <1>4 DEF Few
<1> QED
  BY <1>2, <1>8, <1>9 DEF h, names, f

(* Another filter changes nothing of this.                                 *)
LEMMA NewFilter ==
  ASSUME NEW g, Sound(g), Waits(g), NEW names, Promised(g, names), Few(g, names), NEW pred
  PROVE  LET h == Filter(g, pred) IN
           Sound(h) /\ Waits(h) /\ Promised(h, names) /\ Few(h, names)
<1> DEFINE h == Filter(g, pred)
<1>1. /\ Sound(h) /\ Waits(h) /\ Held(h) = Held(g)
      /\ h.infos = g.infos /\ h.pending = g.pending
  BY Filtered
<1> HIDE DEF h
<1> QED
  BY <1>1 DEF Promised, Few, Coming, h

(* The control when the information about a map arrives, and before more   *)
(* is fetched.                                                             *)
LEMMA Arrived ==
  ASSUME NEW g, Sound(g), NEW i \in 1 .. Len(g.infos)
  PROVE  LET m == g.infos[i]
             added == IF m \in Missing THEN g ELSE AddMap(g, m)
             f == [added EXCEPT !.infos = RemoveAt(@, i), !.mapinfo_fetches = @ - 1]
         IN /\ Sound(f) /\ f.infos = RemoveAt(g.infos, i) /\ f.pending = g.pending
            /\ Held(f) = Held(g) \cup ({m} \ Missing)
<1> DEFINE m == g.infos[i]
           added == IF m \in Missing THEN g ELSE AddMap(g, m)
           f == [added EXCEPT !.infos = RemoveAt(@, i), !.mapinfo_fetches = @ - 1]
           rest == RemoveAt(g.infos, i)
           n == g.mapinfo_fetches - 1
<1>1. /\ g \in Control /\ Counted(g) /\ Pointed(g) /\ Apart(g)
      /\ Loads(g.maps, g) /\ Loads(g.unused, g) /\ Loads(g.filtered, g)
  BY DEF Sound
<1>2. /\ g.infos \in Seq(Maps) /\ g.maps \in MapMap /\ g.unused \in MapMap
      /\ g.mapinfo_fetches \in Nat /\ m \in Maps
  BY <1>1, Elements DEF Control
<1>3. rest \in Seq(Maps) /\ Len(rest) = Len(g.infos) - 1
  BY <1>2, OneLess
<1>4. n \in Nat /\ n = Len(rest) /\ n <= g.mapinfo_fetches
  BY <1>1, <1>2, <1>3 DEF Counted
<1>5. PICK maps, unused \in MapMap :
        /\ added = [g EXCEPT !.maps = maps, !.unused = unused]
        /\ In(maps) = In(g.maps) \cup ({m} \ Missing)
        /\ In(unused) = In(g.unused) \ ({m} \ Missing)
        /\ \A x \in Maps : /\ maps[x] \in {g.maps[x], "NoMinimap"}
                           /\ unused[x] \in {g.unused[x], "absent"}
  <2>1. g = [g EXCEPT !.maps = g.maps, !.unused = g.unused]
    BY <1>1 DEF Control
  <2>2. CASE m \in Missing
    BY <2>1, <2>2, <1>2
  <2>3. CASE m \notin Missing /\ g.maps[m] # "absent"
    <3>1. m \in In(g.maps) /\ m \notin In(g.unused)
      BY <2>3, <1>1, <1>2 DEF In, Apart
    <3>2. added = g
      BY <2>3 DEF AddMap
    <3> QED
      BY <2>1, <2>3, <3>1, <3>2, <1>2
  <2>4. CASE m \notin Missing /\ g.maps[m] = "absent"
    <3> DEFINE c == [g.maps EXCEPT ![m] = "NoMinimap"]
               d == Without(g.unused, {m})
    <3>1. c \in MapMap /\ In(c) = In(g.maps) \cup {m}
          /\ \A x \in Maps : c[x] \in {g.maps[x], "NoMinimap"}
      BY <1>2 DEF MapMap, MapStates, In
    <3>2. d \in MapMap /\ In(d) = In(g.unused) \ {m}
          /\ \A x \in Maps : d[x] \in {g.unused[x], "absent"}
      BY <1>2, WithoutMaps
    <3>3. added = [g EXCEPT !.maps = c, !.unused = d]
      BY <2>4, <1>1 DEF AddMap, Control
    <3> HIDE DEF c, d, added
    <3>4. {m} \ Missing = {m}
      BY <2>4
    <3>5. /\ In(c) = In(g.maps) \cup ({m} \ Missing)
          /\ In(d) = In(g.unused) \ ({m} \ Missing)
      BY <3>1, <3>2, <3>4
    <3> QED
      BY <3>1, <3>2, <3>3, <3>5
  <2> QED
    BY <2>2, <2>3, <2>4
<1> HIDE DEF added, rest, n, m
<1>6. added \in Control /\ added.infos = g.infos /\ added.mapinfo_fetches = g.mapinfo_fetches
  BY <1>1, <1>5 DEF Control
<1>7. f = [added EXCEPT !.infos = rest, !.mapinfo_fetches = n]
  BY <1>6 DEF rest, n, Control
<1> HIDE DEF f
<1>8. /\ f.maps = maps /\ f.unused = unused /\ f.filtered = g.filtered
      /\ f.infos = rest /\ f.pending = g.pending /\ f.images = g.images
      /\ f.mapinfo_fetches = n /\ f.minimap_fetches = g.minimap_fetches
      /\ f.mouseover = g.mouseover /\ f.selected = g.selected
  BY <1>1, <1>5, <1>7 DEF Control
<1>9. f \in Control
  BY <1>3, <1>4, <1>6, <1>7 DEF Control
<1>10. Counted(f)
  BY <1>1, <1>2, <1>4, <1>8, MapGridAssumption DEF Counted
<1>11. Pointed(f) /\ Apart(f)
  BY <1>1, <1>5, <1>8 DEF Pointed, Apart
<1>12. Loads(f.maps, f) /\ Loads(f.unused, f) /\ Loads(f.filtered, f)
  BY <1>1, <1>5, <1>8 DEF Loads
<1>13. Held(f) = Held(g) \cup ({m} \ Missing)
  BY <1>5, <1>8 DEF Held
<1>14. Sound(f) /\ f.infos = rest /\ f.pending = g.pending
  BY <1>8, <1>9, <1>10, <1>11, <1>12 DEF Sound
<1> QED
  BY <1>13, <1>14 DEF f, added, m, rest

(* The control when a picture arrives: the map has it wherever it is, so   *)
(* that none but the maps of other fetches are still loading.              *)
LEMMA PictureArrived ==
  ASSUME NEW g, Sound(g), NEW i \in 1 .. Len(g.images)
  PROVE  LET f == [SetMinimap(g, g.images[i]) EXCEPT
                     !.images = RemoveAt(@, i), !.minimap_fetches = @ - 1]
         IN Sound(f) /\ f.infos = g.infos /\ f.pending = g.pending /\ Held(f) = Held(g)
<1> DEFINE m == g.images[i]
           Got(c) == [c EXCEPT ![m] = IF @ = "absent" THEN @ ELSE "GotMinimap"]
           maps == Got(g.maps)
           unused == Got(g.unused)
           filtered == Got(g.filtered)
           rest == RemoveAt(g.images, i)
           n == g.minimap_fetches - 1
           f == [SetMinimap(g, m) EXCEPT !.images = RemoveAt(@, i), !.minimap_fetches = @ - 1]
<1>1. /\ g \in Control /\ Counted(g) /\ Pointed(g) /\ Apart(g)
      /\ Loads(g.maps, g) /\ Loads(g.unused, g) /\ Loads(g.filtered, g)
  BY DEF Sound
<1>2. /\ g.images \in Seq(Maps) /\ g.maps \in MapMap /\ g.unused \in MapMap
      /\ g.filtered \in MapMap /\ g.minimap_fetches \in Nat /\ m \in Maps
  BY <1>1, Elements DEF Control
<1>3. /\ rest \in Seq(Maps) /\ Len(rest) = Len(g.images) - 1
      /\ ToSet(g.images) \subseteq ToSet(rest) \cup {m}
  BY <1>2, OneLess
<1>4. n \in Nat /\ n = Len(rest) /\ n <= g.minimap_fetches
  BY <1>1, <1>2, <1>3 DEF Counted
<1>5. ASSUME NEW c \in MapMap
      PROVE  /\ Got(c) \in MapMap /\ In(Got(c)) = In(c)
             /\ Got(c)[m] # "GetMinimap" /\ \A x \in Maps \ {m} : Got(c)[x] = c[x]
  BY <1>2, <1>5 DEF MapMap, MapStates, In
<1>6. f = [g EXCEPT !.maps = maps, !.unused = unused, !.filtered = filtered,
                    !.images = rest, !.minimap_fetches = n]
  BY <1>1 DEF SetMinimap, Control
<1>7. /\ maps \in MapMap /\ In(maps) = In(g.maps)
      /\ maps[m] # "GetMinimap" /\ \A x \in Maps \ {m} : maps[x] = g.maps[x]
  BY <1>2, <1>5
<1>8. /\ unused \in MapMap /\ In(unused) = In(g.unused)
      /\ unused[m] # "GetMinimap" /\ \A x \in Maps \ {m} : unused[x] = g.unused[x]
  BY <1>2, <1>5
<1>9. /\ filtered \in MapMap /\ In(filtered) = In(g.filtered)
      /\ filtered[m] # "GetMinimap" /\ \A x \in Maps \ {m} : filtered[x] = g.filtered[x]
  BY <1>2, <1>5
<1> HIDE DEF f, maps, unused, filtered, rest, n, m
<1>10. /\ f.maps = maps /\ f.unused = unused /\ f.filtered = filtered
       /\ f.infos = g.infos /\ f.pending = g.pending /\ f.images = rest
       /\ f.mapinfo_fetches = g.mapinfo_fetches /\ f.minimap_fetches = n
       /\ f.mouseover = g.mouseover /\ f.selected = g.selected
       /\ f \in Control
  BY <1>1, <1>3, <1>4, <1>6, <1>7, <1>8, <1>9 DEF Control
<1>11. Counted(f)
  BY <1>1, <1>2, <1>4, <1>10, MapGridAssumption DEF Counted
<1>12. Pointed(f) /\ Apart(f)
  BY <1>1, <1>7, <1>8, <1>9, <1>10 DEF Pointed, Apart
<1>13. \A x \in Maps \ {m} : x \in ToSet(g.images) => x \in ToSet(f.images)
  BY <1>3, <1>10
<1>14. Loads(f.maps, f)
  BY <1>1, <1>7, <1>10, <1>13 DEF Loads
<1>15. Loads(f.unused, f)
  BY <1>1, <1>8, <1>10, <1>13 DEF Loads
<1>16. Loads(f.filtered, f)
  BY <1>1, <1>9, <1>10, <1>13 DEF Loads
<1>17. Held(f) = Held(g)
  BY <1>7, <1>9, <1>10 DEF Held
<1> QED
  BY <1>10, <1>11, <1>12, <1>14, <1>15, <1>16, <1>17 DEF Sound, f, m

-----------------------------------------------------------------------------
(* The invariant holds at the start,                                       *)
LEMMA IInvInit ==
  ASSUME Init PROVE IInv
<1>1. Nothing \in MapMap /\ In(Nothing) = {} /\ <<>> \in Seq(Maps) /\ ToSet(<<>>) = {}
      /\ (\A m \in Maps : Nothing[m] # "GetMinimap") /\ NULL \in Maps \cup {NULL}
      /\ 0 <= MAX_MAPINFO_FETCHES /\ 0 <= MAX_MINIMAP_FETCHES
  BY NothingIn, MapGridAssumption DEF ToSet
<1>2. /\ grid.maps = Nothing /\ grid.unused = Nothing /\ grid.filtered = Nothing
      /\ grid.infos = <<>> /\ grid.pending = <<>> /\ grid.images = <<>>
      /\ grid.mapinfo_fetches = 0 /\ grid.minimap_fetches = 0
      /\ grid.mouseover = NULL /\ grid.selected = NULL
      /\ text = Maps /\ completed = FALSE /\ asked = {}
  BY DEF Init
<1>3. grid \in Control
  BY <1>1 DEF Init, Control
<1>4. Sound(grid) /\ Waits(grid)
  BY <1>1, <1>2, <1>3 DEF Sound, Counted, Pointed, Apart, Loads, Waits
<1>5. Held(grid) = {} /\ Old(grid.infos, asked) = {}
  BY <1>1, <1>2 DEF Held, Old
<1>6. Promised(grid, asked) /\ Few(grid, asked)
  <2>1. Held(grid) \ asked = {} /\ asked \ Missing = {}
    BY <1>2, <1>5
  <2>2. Cardinality(Held(grid) \ asked) = 0 /\ Cardinality(Old(grid.infos, asked)) = 0
    BY <2>1, <1>5, FS_EmptySet
  <2> QED
    BY <2>1, <2>2, <1>1, <1>2 DEF Promised, Few
<1> QED
  BY <1>2, <1>4, <1>6 DEF IInv

(* and a change of the pointers to maps of the list does not disturb it.   *)
LEMMA PointersMove ==
  ASSUME NEW g, Sound(g), Waits(g), NEW names, Promised(g, names), Few(g, names),
         NEW a \in In(g.maps) \cup {NULL}, NEW b \in In(g.maps) \cup {NULL}
  PROVE  LET h == [g EXCEPT !.mouseover = a, !.selected = b] IN
           Sound(h) /\ Waits(h) /\ Promised(h, names) /\ Few(h, names)
<1> DEFINE h == [g EXCEPT !.mouseover = a, !.selected = b]
<1>1. g \in Control
  BY DEF Sound
<1>2. /\ h.maps = g.maps /\ h.unused = g.unused /\ h.filtered = g.filtered
      /\ h.infos = g.infos /\ h.pending = g.pending /\ h.images = g.images
      /\ h.mapinfo_fetches = g.mapinfo_fetches /\ h.minimap_fetches = g.minimap_fetches
      /\ h.mouseover = a /\ h.selected = b
  BY <1>1 DEF Control
<1>3. h \in Control
  <2>1. a \in Maps \cup {NULL} /\ b \in Maps \cup {NULL}
    BY DEF In
  <2> QED
    BY <1>1, <2>1 DEF Control
<1> HIDE DEF h
<1>4. Sound(h)
  BY <1>2, <1>3 DEF Sound, Counted, Pointed, Apart, Loads
<1> QED
  BY <1>2, <1>4 DEF Waits, Promised, Few, Held, Coming, h

(* What is fetched next are names that wait, so the invariant's account of *)
(* the names need hold only of what comes before.                          *)
LEMMA MoreFetched ==
  ASSUME NEW f, Sound(f), NEW h \in UpdateAsyncFetches(f),
         NEW names, Promised(f, names), Few(f, names)
  PROVE  Sound(h) /\ Waits(h) /\ Promised(h, names) /\ Few(h, names)
<1>1. /\ Sound(h) /\ Waits(h)
      /\ In(h.maps) = In(f.maps) /\ h.filtered = f.filtered
      /\ \E s \in Seq(Maps) :
           /\ ToSet(f.pending) = ToSet(h.pending) \cup ToSet(s)
           /\ h.infos = f.infos \o s
  BY Updated
<1>2. PICK s \in Seq(Maps) : /\ ToSet(f.pending) = ToSet(h.pending) \cup ToSet(s)
                             /\ h.infos = f.infos \o s
  BY <1>1
<1>3. f.infos \in Seq(Maps)
  BY DEF Sound, Control
<1>4. ToSet(h.infos) = ToSet(f.infos) \cup ToSet(s)
  BY <1>2, <1>3, TwoSequences
<1>5. Held(h) = Held(f) /\ Coming(h) = Coming(f)
  BY <1>1, <1>2, <1>4 DEF Held, Coming
<1>6. ToSet(h.pending) \subseteq names /\ ToSet(s) \subseteq names
  BY <1>2 DEF Few
<1>7. Old(h.infos, names) = Old(f.infos, names)
  BY <1>2, <1>3, <1>6, OldStay
<1> QED
  BY <1>1, <1>5, <1>6, <1>7 DEF Promised, Few

(* The information about a map takes the place of its fetch.               *)
LEMMA InfoStep ==
  ASSUME IInv, NEW i \in DOMAIN grid.infos, OnGetMapExAsyncCompleted(i)
  PROVE  IInv'
<1> DEFINE m == grid.infos[i]
           added == IF m \in Missing THEN grid ELSE AddMap(grid, m)
           f == [added EXCEPT !.infos = RemoveAt(@, i), !.mapinfo_fetches = @ - 1]
           rest == RemoveAt(grid.infos, i)
<1>1. /\ Sound(grid) /\ Waits(grid) /\ Promised(grid, asked) /\ Few(grid, asked)
      /\ text \subseteq Maps /\ completed \in BOOLEAN /\ asked \subseteq Maps
  BY DEF IInv
<1>2. grid.infos \in Seq(Maps) /\ i \in 1 .. Len(grid.infos) /\ m \in Maps
  BY <1>1, Elements DEF Sound, Control
<1>3. /\ Sound(f) /\ f.infos = rest /\ f.pending = grid.pending
      /\ Held(f) = Held(grid) \cup ({m} \ Missing)
  BY <1>1, <1>2, Arrived
<1>4. /\ grid' \in UpdateAsyncFetches(f) /\ completed' \in BOOLEAN
      /\ text' = text /\ asked' = asked
  BY <1>1 DEF OnGetMapExAsyncCompleted
<1> HIDE DEF f, added, m, rest
<1>5. rest \in Seq(Maps) /\ ToSet(grid.infos) \subseteq ToSet(rest) \cup {m}
  BY <1>2, OneLess DEF rest, m
<1>6. Promised(f, asked)
  BY <1>1, <1>3, <1>5 DEF Promised, Coming
<1>7. Few(f, asked)
  <2> DEFINE stale == Held(grid) \ asked
             old == Cardinality(Old(grid.infos, asked))
             less == Cardinality(Old(rest, asked))
  <2>1. /\ ToSet(grid.pending) \subseteq asked
        /\ Cardinality(stale) + old <= MAX_MAPINFO_FETCHES
    BY <1>1 DEF Few
  <2>2. old \in Nat /\ less \in Nat /\ MAX_MAPINFO_FETCHES \in Nat
    BY <1>2, <1>5, OldFew, MapGridAssumption
  <2>3. less <= old - (IF m \in asked THEN 0 ELSE 1)
    BY <1>2, OldLess DEF rest, m
  <2>4. IsFiniteSet(stale) /\ Cardinality(stale) \in Nat
    <3>1. stale \subseteq Maps
      BY DEF Held, In
    <3> HIDE DEF stale
    <3> QED
      BY <3>1, MapGridAssumption, FS_Subset, FS_CardinalityType
  <2>5. Cardinality(Held(f) \ asked) <= Cardinality(stale) + (IF m \in asked THEN 0 ELSE 1)
    <3>1. CASE m \in asked \/ m \in Missing
      <4>1. Held(f) \ asked = stale
        BY <3>1, <1>3
      <4> QED
        BY <4>1, <2>4
    <3>2. CASE m \notin asked /\ m \notin Missing
      <4>1. Held(f) \ asked = stale \cup {m}
        BY <3>2, <1>3
      <4> HIDE DEF stale
      <4>2. Cardinality(stale \cup {m}) <= Cardinality(stale) + 1
        BY <2>4, FS_AddElement
      <4> QED
        BY <3>2, <4>1, <4>2
    <3> QED
      BY <3>1, <3>2
  <2>6. Cardinality(Held(f) \ asked) \in Nat
    <3>1. Held(f) \ asked \subseteq Maps
      BY DEF Held, In
    <3> QED
      BY <3>1, MapGridAssumption, FS_Subset, FS_CardinalityType
  <2> HIDE DEF stale, old, less
  <2>7. Cardinality(Held(f) \ asked) + less <= MAX_MAPINFO_FETCHES
    <3>1. CASE m \in asked
      BY <3>1, <2>1, <2>2, <2>3, <2>4, <2>5, <2>6
    <3>2. CASE m \notin asked
      BY <3>2, <2>1, <2>2, <2>3, <2>4, <2>5, <2>6
    <3> QED
      BY <3>1, <3>2
  <2> QED
    BY <2>1, <2>7, <1>3 DEF Few, less
<1>8. Sound(grid') /\ Waits(grid') /\ Promised(grid', asked) /\ Few(grid', asked)
  BY <1>3, <1>4, <1>6, <1>7, MoreFetched
<1> QED
  BY <1>1, <1>4, <1>8 DEF IInv

(* So does a picture, whichever fetch it is of.                            *)
LEMMA ImageStep ==
  ASSUME IInv, NEW i \in DOMAIN grid.images, OnGetMapImageAsyncCompleted(i)
  PROVE  IInv'
<1> DEFINE f == [SetMinimap(grid, grid.images[i]) EXCEPT
                   !.images = RemoveAt(@, i), !.minimap_fetches = @ - 1]
<1>1. /\ Sound(grid) /\ Waits(grid) /\ Promised(grid, asked) /\ Few(grid, asked)
      /\ text \subseteq Maps /\ completed \in BOOLEAN /\ asked \subseteq Maps
  BY DEF IInv
<1>2. i \in 1 .. Len(grid.images)
  BY <1>1, Elements DEF Sound, Control
<1>3. Sound(f) /\ f.infos = grid.infos /\ f.pending = grid.pending /\ Held(f) = Held(grid)
  BY <1>1, <1>2, PictureArrived
<1>4. /\ grid' \in UpdateAsyncFetches(f)
      /\ text' = text /\ completed' = completed /\ asked' = asked
  BY DEF OnGetMapImageAsyncCompleted
<1> HIDE DEF f
<1>5. Promised(f, asked) /\ Few(f, asked)
  BY <1>1, <1>3 DEF Promised, Few, Coming
<1>6. Sound(grid') /\ Waits(grid') /\ Promised(grid', asked) /\ Few(grid', asked)
  BY <1>3, <1>4, <1>5, MoreFetched
<1> QED
  BY <1>1, <1>4, <1>6 DEF IInv

(* Painting fetches pictures within the limit.                             *)
LEMMA PaintStep ==
  ASSUME IInv, OnPaint
  PROVE  IInv'
<1> DEFINE bare == visible \cap NoMinimap(grid)
           room == MAX_MINIMAP_FETCHES - grid.minimap_fetches
           n == IF grid.mapinfo_fetches # 0 THEN 0 ELSE Smaller(room, Cardinality(bare))
<1>1. /\ Sound(grid) /\ Waits(grid) /\ Promised(grid, asked) /\ Few(grid, asked)
      /\ text \subseteq Maps /\ completed \in BOOLEAN /\ asked \subseteq Maps
  BY DEF IInv
<1>2. /\ room \in Nat /\ MAX_MINIMAP_FETCHES \in Nat /\ grid.minimap_fetches \in Nat
  BY <1>1, MapGridAssumption DEF Sound, Control, Counted
<1>3. Cardinality(bare) \in Nat
  <2>1. bare \subseteq Maps
    BY DEF NoMinimap
  <2> HIDE DEF bare
  <2> QED
    BY <2>1, MapGridAssumption, FS_Subset, FS_CardinalityType
<1>4. PICK names \in Painted : grid' = FetchMinimap(grid, names)
  BY DEF OnPaint
<1>5. names \in [1 .. n -> bare]
  BY DEF Painted
<1> HIDE DEF bare
<1>6. n \in 0 .. room
  <2>1. Smaller(room, Cardinality(bare)) \in 0 .. room
    BY <1>2, <1>3, SmallerIs
  <2>2. 0 \in 0 .. room
    BY <1>2
  <2> HIDE DEF room
  <2> QED
    BY <2>1, <2>2
<1> HIDE DEF n
<1>7. n \in Nat /\ grid.minimap_fetches + n <= MAX_MINIMAP_FETCHES
  BY <1>2, <1>6
<1>8. names \in [1 .. n -> NoMinimap(grid)]
  BY <1>5 DEF bare
<1>9. /\ Sound(grid') /\ In(grid'.maps) = In(grid.maps) /\ grid'.filtered = grid.filtered
      /\ grid'.infos = grid.infos /\ grid'.pending = grid.pending
      /\ grid'.mapinfo_fetches = grid.mapinfo_fetches
  BY <1>1, <1>4, <1>7, <1>8, Pictured
<1>10. Waits(grid') /\ Promised(grid', asked) /\ Few(grid', asked)
  BY <1>1, <1>9 DEF Waits, Promised, Few, Held, Coming
<1>11. text' = text /\ completed' = completed /\ asked' = asked
  BY DEF OnPaint
<1> QED
  BY <1>1, <1>9, <1>10, <1>11 DEF IInv

(* The user gives another list or filter, or moves the pointer.            *)
LEMMA UserStep ==
  ASSUME IInv, User
  PROVE  IInv'
<1>1. /\ Sound(grid) /\ Waits(grid) /\ Promised(grid, asked) /\ Few(grid, asked)
      /\ text \subseteq Maps /\ completed \in BOOLEAN /\ asked \subseteq Maps
  BY DEF IInv
<1>2. ASSUME NEW list \in Lists, OnInit(list) PROVE IInv'
  <2> DEFINE h == AddMaps(Clear(grid), list)
  <2>1. list \in Seq(Maps) /\ ToSet(list) \subseteq Maps
    BY MapGridAssumption, Elements
  <2>2. Sound(h) /\ Waits(h) /\ Promised(h, ToSet(list)) /\ Few(h, ToSet(list))
    BY <1>1, <2>1, NewList
  <2>3. /\ grid' = Filter(h, text) /\ asked' = ToSet(list)
        /\ text' = text /\ completed' = completed
    BY <1>2 DEF OnInit
  <2> HIDE DEF h
  <2>4. Sound(grid') /\ Waits(grid') /\ Promised(grid', asked') /\ Few(grid', asked')
    BY <2>2, <2>3, NewFilter
  <2> QED
    BY <1>1, <2>1, <2>3, <2>4 DEF IInv
<1>3. ASSUME NEW list \in Lists, OnFilterSelect(list) PROVE IInv'
  <2>1. list \in Seq(Maps) /\ ToSet(list) \subseteq Maps
    BY MapGridAssumption, Elements
  <2>2. /\ grid' = AddMaps(Clear(grid), list) /\ asked' = ToSet(list)
        /\ text' = text /\ completed' = completed
    BY <1>3 DEF OnFilterSelect
  <2>3. Sound(grid') /\ Waits(grid') /\ Promised(grid', asked') /\ Few(grid', asked')
    BY <1>1, <2>1, <2>2, NewList
  <2> QED
    BY <1>1, <2>1, <2>2, <2>3 DEF IInv
<1>4. ASSUME NEW pred \in Texts, OnFilterTextChanged(pred) PROVE IInv'
  <2>1. /\ grid' = Filter(grid, pred) /\ text' = pred /\ pred \subseteq Maps
        /\ completed' = completed /\ asked' = asked
    BY <1>4, MapGridAssumption DEF OnFilterTextChanged
  <2>2. Sound(grid') /\ Waits(grid') /\ Promised(grid', asked) /\ Few(grid', asked)
    BY <1>1, <2>1, NewFilter
  <2> QED
    BY <1>1, <2>1, <2>2 DEF IInv
<1>5. ASSUME NEW m \in (Cursor \cap In(grid.maps)) \cup {NULL}, OnMouseMove(m) PROVE IInv'
  <2> DEFINE follows == FollowMouse /\ m # NULL /\ m # grid.mouseover
             s == IF follows THEN m ELSE grid.selected
  <2>1. /\ grid' = [grid EXCEPT !.mouseover = m, !.selected = s]
        /\ text' = text /\ completed' = completed /\ asked' = asked
    BY <1>1, <1>5 DEF OnMouseMove, Sound, Control
  <2>2. m \in In(grid.maps) \cup {NULL} /\ s \in In(grid.maps) \cup {NULL}
    BY <1>1 DEF Sound, Pointed
  <2> HIDE DEF s
  <2>3. Sound(grid') /\ Waits(grid') /\ Promised(grid', asked) /\ Few(grid', asked)
    BY <1>1, <2>1, <2>2, PointersMove
  <2> QED
    BY <1>1, <2>1, <2>3 DEF IInv
<1>6. ASSUME OnLeftUp PROVE IInv'
  <2>1. /\ grid' = [grid EXCEPT !.mouseover = grid.mouseover, !.selected = grid.mouseover]
        /\ text' = text /\ completed' = completed /\ asked' = asked
    BY <1>1, <1>6 DEF OnLeftUp, Sound, Control
  <2>2. grid.mouseover \in In(grid.maps) \cup {NULL}
    BY <1>1 DEF Sound, Pointed
  <2>3. Sound(grid') /\ Waits(grid') /\ Promised(grid', asked) /\ Few(grid', asked)
    BY <1>1, <2>1, <2>2, PointersMove
  <2> QED
    BY <1>1, <2>1, <2>3 DEF IInv
<1>7. ASSUME Scroll PROVE IInv'
  BY <1>1, <1>7 DEF Scroll, IInv
<1> QED
  BY <1>2, <1>3, <1>4, <1>5, <1>6, <1>7 DEF User

(* The end of loading applies the filter to what has come.                 *)
LEMMA CompletedStep ==
  ASSUME IInv, OnMapLoadingCompleted
  PROVE  IInv'
<1>1. /\ Sound(grid) /\ Waits(grid) /\ Promised(grid, asked) /\ Few(grid, asked)
      /\ text \subseteq Maps /\ completed \in BOOLEAN /\ asked \subseteq Maps
  BY DEF IInv
<1>2. /\ grid' = Filter(grid, text) /\ completed' = FALSE
      /\ text' = text /\ asked' = asked
  BY DEF OnMapLoadingCompleted
<1>3. Sound(grid') /\ Waits(grid') /\ Promised(grid', asked) /\ Few(grid', asked)
  BY <1>1, <1>2, NewFilter
<1> QED
  BY <1>1, <1>2, <1>3 DEF IInv

(* Only maps are on screen, whatever is drawn.                             *)
Drawn == visible \subseteq Maps /\ refresh \in BOOLEAN

LEMMA DrawnStays == Spec => []Drawn
<1>1. Init => Drawn
  BY DEF Init, Drawn
<1>2. Drawn /\ [Next]_vars => Drawn'
  <2>1. ASSUME Drawn, Rearrange PROVE Drawn'
    BY <2>1 DEF Drawn, Rearrange, InBounds, In
  <2>2. ASSUME Drawn, visible' = visible, refresh' \in BOOLEAN PROVE Drawn'
    BY <2>2 DEF Drawn
  <2>3. ASSUME Drawn, User PROVE Drawn'
    <3>1. Rearrange \/ (visible' = visible /\ refresh' \in BOOLEAN)
      BY <2>3 DEF Drawn, User, OnInit, OnFilterSelect, OnFilterTextChanged, OnMouseMove,
                  Scroll, OnLeftUp
    <3> QED
      BY <2>1, <2>2, <2>3, <3>1
  <2>4. ASSUME Drawn, NEW i \in DOMAIN grid.infos, OnGetMapExAsyncCompleted(i) PROVE Drawn'
    <3>1. Rearrange \/ (visible' = visible /\ refresh' \in BOOLEAN)
      BY <2>4 DEF Drawn, OnGetMapExAsyncCompleted
    <3> QED
      BY <2>1, <2>2, <2>4, <3>1
  <2>5. ASSUME Drawn, Results PROVE Drawn'
    <3>1. ASSUME NEW i \in DOMAIN grid.images, OnGetMapImageAsyncCompleted(i) PROVE Drawn'
      BY <2>2, <2>5, <3>1 DEF OnGetMapImageAsyncCompleted
    <3>2. ASSUME OnMapLoadingCompleted PROVE Drawn'
      BY <2>1, <2>5, <3>2 DEF OnMapLoadingCompleted
    <3> QED
      BY <2>4, <2>5, <3>1, <3>2 DEF Results
  <2>6. ASSUME Drawn, OnPaint \/ Expose PROVE Drawn'
    BY <2>2, <2>6 DEF OnPaint, Expose
  <2>7. ASSUME Drawn, UNCHANGED vars PROVE Drawn'
    BY <2>7 DEF Drawn, vars, screen
  <2> QED
    BY <2>3, <2>5, <2>6, <2>7 DEF Next
<1> QED
  BY <1>1, <1>2, PTL DEF Spec

(* The inductive invariant holds in every reachable state.                 *)
LEMMA Invariance == Spec => []IInv
<1>1. Init => IInv
  BY IInvInit
<1>2. IInv /\ [Next]_vars => IInv'
  <2>1. ASSUME IInv, Next PROVE IInv'
    <3>1. ASSUME Expose PROVE IInv'
      BY <2>1, <3>1 DEF Expose, IInv
    <3> QED
      BY <2>1, <3>1, InfoStep, ImageStep, CompletedStep, PaintStep, UserStep DEF Next, Results
  <2>2. ASSUME IInv, UNCHANGED vars PROVE IInv'
    BY <2>2 DEF IInv, vars
  <2> QED
    BY <2>1, <2>2
<1> QED
  BY <1>1, <1>2, PTL DEF Spec

-----------------------------------------------------------------------------
(* The counters are what is in flight, within their limits, and no pointer *)
(* outlives its map (mapgridctrl.cpp:202, 307, 319; springunitsync.cpp:    *)
(* 1057), for any lists, filters and limits.                               *)
THEOREM ControlCorrect == Spec => []ControlSound
<1>1. IInv /\ Drawn => ControlSound
  BY DEF IInv, Drawn, Sound, Counted, Pointed, ControlSound, TypeOK, CountersSymmetric,
         PointersValid
<1> QED
  BY <1>1, Invariance, DrawnStays, PTL

(* Whatever the user chose meanwhile, a map that was asked for is in the   *)
(* list, hidden, being fetched or waiting, and what waits will be looked   *)
(* at again (mapgridctrl.cpp:215, 283).                                    *)
THEOREM AskedCorrect == Spec => []NothingLost
<1>1. IInv => NothingLost
  BY DEF IInv, Waits, Promised, Held, Coming, NothingLost, NoneForgotten, AskedForArrives
<1> QED
  BY <1>1, Invariance, PTL

(* No map is both in the list and unused, a hidden one can be shown at     *)
(* once, and one that is loading has a picture on its way                  *)
(* (mapgridctrl.cpp:239, 337; mapgridctrl.h:51).                           *)
THEOREM MapsCorrect == Spec => []MapsSound
<1>1. ASSUME IInv PROVE MapsSound
  <2>1. Apart(grid) /\ Loads(grid.maps, grid) /\ Loads(grid.unused, grid)
        /\ Loads(grid.filtered, grid)
    BY <1>1 DEF IInv, Sound
  <2>2. LoadingIsLoading
    BY <2>1 DEF Loads, LoadingIsLoading
  <2> QED
    BY <2>1, <2>2 DEF Apart, MapsApart, MapsSound
<1> QED
  BY <1>1, Invariance, PTL

(* Of the maps of earlier lists no more turn up in the present one than    *)
(* may be fetched at a time (mapgridctrl.cpp:26, 307).                     *)
THEOREM StaleCorrect == Spec => []StaleBounded
<1>1. ASSUME IInv PROVE StaleBounded
  <2>1. Cardinality(Held(grid) \ asked) + Cardinality(Old(grid.infos, asked))
          <= MAX_MAPINFO_FETCHES
    BY <1>1 DEF IInv, Few
  <2>2. Cardinality(Old(grid.infos, asked)) \in Nat /\ Cardinality(Held(grid) \ asked) \in Nat
        /\ MAX_MAPINFO_FETCHES \in Nat
    <3>1. grid.infos \in Seq(Maps) /\ Held(grid) \ asked \subseteq Maps
      BY <1>1 DEF IInv, Sound, Control, Held, In
    <3> QED
      BY <3>1, OldFew, MapGridAssumption, FS_Subset, FS_CardinalityType
  <2>3. Cardinality(Held(grid) \ asked) <= MAX_MAPINFO_FETCHES
    BY <2>1, <2>2
  <2> QED
    BY <2>3 DEF StaleBounded, Held
<1> QED
  BY <1>1, Invariance, PTL
=============================================================================
