------------------------------ MODULE RtMapProofs ------------------------------
(***************************************************************************)
(* The hash map of RtMap, for every set of keys, every hash and every      *)
(* capacity to begin with: the table stays well formed and finds are right.*)
(***************************************************************************)
EXTENDS RtMap, FiniteSetTheorems, SequenceTheorems, TLAPS

Entry == [key : Keys, value : Values]

(* A block is a record with these fields.                                  *)
Typed(t) ==
  /\ t = [cap |-> t.cap, index |-> t.index, entries |-> t.entries, live |-> t.live]
  /\ t.index = [s \in DOMAIN t.index |-> t.index[s]]
  /\ t.entries \in Seq(Entry)
  /\ t.live \in Seq(BOOLEAN)

Good(t) == Typed(t) /\ WellFormed(t)

HasKey(t, k) == \E i \in 1..Used(t) : t.live[i] /\ t.entries[i].key = k

(* No slot before s on the way of a probe for k holds k.                   *)
NotPassed(t, k, s) ==
  \A x \in DOMAIN t.index :
    Distance(t, Home(t, k), x) < Distance(t, Home(t, k), s) => ~RefersTo(t, x, k)

(* The remainder, where the code has `& mask`.                             *)
LEMMA Remainder ==
  ASSUME NEW n \in Nat \ {0}, NEW x \in Nat
  PROVE  x % n \in 0..(n - 1)
OBVIOUS

LEMMA Successor ==
  ASSUME NEW n \in Nat \ {0}, NEW s \in 0..(n - 1)
  PROVE  (s + 1) % n = IF s = n - 1 THEN 0 ELSE s + 1
<1>1. CASE s = n - 1
  BY <1>1
<1>2. CASE s < n - 1
  BY <1>2
<1> QED BY <1>1, <1>2

(* A sequence with one more element.                                       *)
LEMMA Appended ==
  ASSUME NEW S, NEW q \in Seq(S), NEW e \in S
  PROVE  /\ Append(q, e) \in Seq(S)
         /\ Len(Append(q, e)) = Len(q) + 1
         /\ DOMAIN Append(q, e) = 1..(Len(q) + 1)
         /\ \A i \in 1..Len(q) : Append(q, e)[i] = q[i]
         /\ Append(q, e)[Len(q) + 1] = e
OBVIOUS

(* The slots of a block, and where a key is at home among them.            *)
LEMMA Slots ==
  ASSUME NEW t, Typed(t), Shaped(t), t.cap # 0
  PROVE  /\ IndexCap(t) \in Nat \ {0}
         /\ DOMAIN t.index = 0..(IndexCap(t) - 1)
         /\ \A k \in Keys : Home(t, k) \in DOMAIN t.index
         /\ \A s \in DOMAIN t.index :
              After(t, s) = IF s = IndexCap(t) - 1 THEN 0 ELSE s + 1
<1>1. IndexCap(t) \in Nat \ {0} /\ DOMAIN t.index = 0..(IndexCap(t) - 1)
  BY DEF Shaped, IndexCap
<1>2. ASSUME NEW k \in Keys PROVE Home(t, k) \in DOMAIN t.index
  BY <1>1, MapAssumption, Remainder DEF Home
<1>3. ASSUME NEW s \in DOMAIN t.index
      PROVE  After(t, s) = IF s = IndexCap(t) - 1 THEN 0 ELSE s + 1
  BY <1>1, Successor DEF After
<1> QED BY <1>1, <1>2, <1>3

(* A block that is not full has a slot to spare.                           *)
LEMMA Spare ==
  ASSUME NEW t, Typed(t), Shaped(t), Roomy(t), t.cap # 0
  PROVE  \E s \in DOMAIN t.index : t.index[s] = Empty
<1> SUFFICES ASSUME Taken(t) = DOMAIN t.index PROVE FALSE
  BY DEF Taken
<1>1. IndexCap(t) \in Nat \ {0} /\ DOMAIN t.index = 0..(IndexCap(t) - 1)
  BY Slots
<1>2. Cardinality(Taken(t)) = IndexCap(t)
  <2>1. IndexCap(t) - 1 \in Int /\ ~(0 > IndexCap(t) - 1)
    BY <1>1
  <2>2. Cardinality(0..(IndexCap(t) - 1)) = IndexCap(t) - 1 - 0 + 1
    BY <2>1, FS_Interval
  <2> QED BY <1>1, <2>2
<1>3. Used(t) \in Nat
  BY DEF Typed, Used
<1> QED BY <1>1, <1>2, <1>3 DEF Roomy, Shaped, IndexCap

(* The distance from h to s around n slots, and that it grows by one with  *)
(* each step of a walk which has a slot p still before it.                 *)
Walked(n, h, s) == IF s >= h THEN s - h ELSE s - h + n

LEMMA WalkOn ==
  ASSUME NEW n \in Nat \ {0}, NEW h \in 0..(n - 1), NEW s \in 0..(n - 1),
         NEW p \in 0..(n - 1), ~(Walked(n, h, p) < Walked(n, h, s)), p # s
  PROVE  Walked(n, h, IF s = n - 1 THEN 0 ELSE s + 1) = Walked(n, h, s) + 1
<1>1. CASE s >= h /\ s = n - 1
  <2>1. Walked(n, h, s) = n - 1 - h /\ Walked(n, h, 0) = IF h = 0 THEN 0 ELSE n - h
    BY <1>1 DEF Walked
  <2>2. (p < s /\ Walked(n, h, p) < n - 1 - h) \/ h # 0
    BY <1>1 DEF Walked
  <2> QED BY <1>1, <2>1, <2>2
<1>2. CASE s >= h /\ s # n - 1
  BY <1>2 DEF Walked
<1>3. CASE s < h
  <2>1. s # n - 1 /\ s + 1 \in 0..(n - 1)
    BY <1>3
  <2>2. CASE s + 1 = h
    <3>1. Walked(n, h, s) = n - 1
      BY <1>3, <2>2 DEF Walked
    <3>2. Walked(n, h, p) < n - 1
      BY <1>3, <2>2 DEF Walked
    <3> QED BY <3>1, <3>2
  <2>3. CASE s + 1 # h
    BY <1>3, <2>1, <2>3 DEF Walked
  <2> QED BY <2>2, <2>3
<1> QED BY <1>1, <1>2, <1>3

(* No two slots are as far from h.                                         *)
LEMMA WalkDiffers ==
  ASSUME NEW n \in Nat \ {0}, NEW h \in 0..(n - 1),
         NEW s \in 0..(n - 1), NEW x \in 0..(n - 1)
  PROVE  /\ Walked(n, h, s) \in Nat
         /\ Walked(n, h, x) = Walked(n, h, s) => x = s
  BY DEF Walked

(* A probe goes on by one slot, and comes round only if all are taken.     *)
LEMMA Advance ==
  ASSUME NEW t, Typed(t), Shaped(t), Roomy(t), t.cap # 0, NEW k \in Keys,
         NEW s \in DOMAIN t.index, Reaches(t, k, s), t.index[s] # Empty
  PROVE  /\ After(t, s) \in DOMAIN t.index
         /\ Reaches(t, k, After(t, s))
         /\ NotPassed(t, k, s) /\ ~RefersTo(t, s, k) => NotPassed(t, k, After(t, s))
<1> DEFINE n == IndexCap(t)
           h == Home(t, k)
           a == After(t, s)
<1>1. /\ n \in Nat \ {0} /\ DOMAIN t.index = 0..(n - 1) /\ h \in 0..(n - 1)
      /\ a = IF s = n - 1 THEN 0 ELSE s + 1
  BY Slots
<1>2. \A x \in 0..(n - 1) : Distance(t, h, x) = IF x >= h THEN x - h ELSE x - h + n
  BY DEF Distance
<1>3. PICK spare \in 0..(n - 1) : t.index[spare] = Empty
  BY <1>1, Spare
<1>4. ~(Distance(t, h, spare) < Distance(t, h, s)) /\ spare # s
  BY <1>1, <1>3 DEF Reaches
<1> HIDE DEF n, h, a
<1>5. a \in 0..(n - 1) /\ Distance(t, h, a) = Distance(t, h, s) + 1
  <2>1. s \in 0..(n - 1) /\ a \in 0..(n - 1)
    BY <1>1
  <2>2. Distance(t, h, s) = Walked(n, h, s)
    BY <1>2, <2>1 DEF Walked
  <2>3. Distance(t, h, spare) = Walked(n, h, spare)
    BY <1>2 DEF Walked
  <2>4. Distance(t, h, a) = Walked(n, h, IF s = n - 1 THEN 0 ELSE s + 1)
    BY <1>1, <1>2, <2>1 DEF Walked
  <2>5. ~(Walked(n, h, spare) < Walked(n, h, s)) /\ spare # s
    BY <1>4, <2>2, <2>3
  <2>6. Walked(n, h, IF s = n - 1 THEN 0 ELSE s + 1) = Walked(n, h, s) + 1
    BY <1>1, <2>1, <2>5, WalkOn
  <2> QED BY <2>1, <2>2, <2>4, <2>6
<1>6. ASSUME NEW x \in 0..(n - 1), Distance(t, h, x) < Distance(t, h, a)
      PROVE  Distance(t, h, x) < Distance(t, h, s) \/ x = s
  <2>1. /\ s \in 0..(n - 1)
        /\ Distance(t, h, x) = Walked(n, h, x)
        /\ Distance(t, h, s) = Walked(n, h, s)
    BY <1>1, <1>2 DEF Walked
  <2>2. /\ Walked(n, h, x) \in Nat /\ Walked(n, h, s) \in Nat
        /\ Walked(n, h, x) = Walked(n, h, s) => x = s
    BY <1>1, <2>1, WalkDiffers
  <2> QED BY <1>5, <1>6, <2>1, <2>2
<1>7. Reaches(t, k, a)
  BY <1>1, <1>6 DEF Reaches, h
<1>8. NotPassed(t, k, s) /\ ~RefersTo(t, s, k) => NotPassed(t, k, a)
  BY <1>1, <1>6 DEF NotPassed, h
<1> QED BY <1>1, <1>5, <1>7, <1>8 DEF a, n

(* A probe that ends at an empty slot has seen every slot that could hold  *)
(* its key.                                                                *)
LEMMA NotFound ==
  ASSUME NEW t, Typed(t), WellFormed(t), t.cap # 0, NEW k \in Keys,
         NEW s \in DOMAIN t.index, NotPassed(t, k, s), t.index[s] = Empty
  PROVE  ~HasKey(t, k)
<1> SUFFICES ASSUME NEW i \in 1..Used(t), t.live[i], t.entries[i].key = k
             PROVE  FALSE
  BY DEF HasKey
<1>1. PICK x \in DOMAIN t.index : t.index[x] = i
  BY DEF WellFormed, Refers
<1>2. i \in Nat /\ i > 0 /\ RefersTo(t, x, k)
  BY <1>1 DEF RefersTo, EntryAt, Empty, Tomb
<1>3. Reaches(t, k, x)
  BY <1>1, <1>2 DEF WellFormed, Refers, EntryAt
<1> DEFINE h == Home(t, k)
           n == IndexCap(t)
<1>4. /\ n \in Nat \ {0} /\ DOMAIN t.index = 0..(n - 1) /\ h \in 0..(n - 1)
  BY Slots DEF WellFormed
<1>5. ~(Distance(t, h, x) < Distance(t, h, s))
  BY <1>2 DEF NotPassed
<1>6. ~(Distance(t, h, s) < Distance(t, h, x))
  BY <1>3 DEF Reaches
<1>7. x = s
  <2> HIDE DEF h
  <2> QED BY <1>4, <1>5, <1>6 DEF Distance
<1> QED BY <1>1, <1>2, <1>7 DEF Empty

(* The slots that are taken are finitely many.                             *)
LEMMA TakenFinite ==
  ASSUME NEW t, Typed(t), Shaped(t)
  PROVE  IsFiniteSet(Taken(t)) /\ IsFiniteSet(LiveSet(t))
         /\ Cardinality(Taken(t)) \in Nat /\ Cardinality(LiveSet(t)) \in Nat
<1>1. IsFiniteSet(DOMAIN t.index)
  BY FS_Interval DEF Shaped, IndexCap
<1>2. IsFiniteSet(1..Used(t))
  <2>1. Used(t) \in Int
    BY DEF Typed, Used
  <2> QED BY <2>1, FS_Interval
<1>3. Taken(t) \in SUBSET DOMAIN t.index /\ LiveSet(t) \in SUBSET (1..Used(t))
  BY DEF Taken, LiveSet
<1> QED BY <1>1, <1>2, <1>3, FS_Subset, FS_CardinalityType

(* A block without entries is well formed.                                 *)
LEMMA EmptyBlock ==
  ASSUME NEW c \in Nat
  PROVE  /\ Good(Block(c)) /\ Used(Block(c)) = 0 /\ Block(c).cap = c
         /\ LiveSet(Block(c)) = {}
<1> DEFINE b == Block(c)
<1>1. /\ b.cap = c /\ b.index = [s \in 0..(2 * c - 1) |-> Empty]
      /\ b.entries = <<>> /\ b.live = <<>>
      /\ b = [cap |-> b.cap, index |-> b.index, entries |-> b.entries, live |-> b.live]
  BY DEF Block
<1> HIDE DEF b
<1>2. Used(b) = 0
  BY <1>1 DEF Used
<1>3. Taken(b) = {}
  BY <1>1 DEF Taken
<1>4. Typed(b)
  BY <1>1 DEF Typed
<1>5. WellFormed(b)
  BY <1>1, <1>2, <1>3, FS_EmptySet
  DEF WellFormed, Shaped, Refers, KeysDiffer, Roomy, IndexCap, Empty
<1> QED BY <1>1, <1>2, <1>4, <1>5 DEF Good, b, LiveSet

(* A new entry in the first empty slot of its key's probe.                 *)
LEMMA PlacedIsGood ==
  ASSUME NEW t, Good(t), t.cap # 0, Used(t) < t.cap,
         NEW e \in Entry, ~HasKey(t, e.key),
         NEW s \in DOMAIN t.index, t.index[s] = Empty, Reaches(t, e.key, s)
  PROVE  /\ Good(Placed(t, s, e))
         /\ Used(Placed(t, s, e)) = Used(t) + 1
         /\ Placed(t, s, e).cap = t.cap
         /\ LiveSet(Placed(t, s, e)) = LiveSet(t) \cup {Used(t) + 1}
         /\ \A i \in 1..Used(t) : Placed(t, s, e).entries[i] = t.entries[i]
         /\ Placed(t, s, e).entries[Used(t) + 1] = e
<1> DEFINE u == Placed(t, s, e)
           m == Used(t)
<1>1. /\ t = [cap |-> t.cap, index |-> t.index, entries |-> t.entries, live |-> t.live]
      /\ t.index = [x \in DOMAIN t.index |-> t.index[x]]
      /\ t.entries \in Seq(Entry) /\ t.live \in Seq(BOOLEAN)
      /\ m \in Nat /\ m = Len(t.entries)
  BY DEF Good, Typed, Used
<1>2. /\ u.cap = t.cap
      /\ u.index = [t.index EXCEPT ![s] = m + 1]
      /\ u.entries = Append(t.entries, e)
      /\ u.live = Append(t.live, TRUE)
      /\ u = [cap |-> u.cap, index |-> u.index, entries |-> u.entries, live |-> u.live]
  BY <1>1 DEF Placed
<1>3. DOMAIN t.live = 1..m /\ Len(t.live) = m
  <2>1. DOMAIN t.live = 1..m
    BY DEF Good, WellFormed, Shaped
  <2>2. Len(t.live) \in Nat /\ DOMAIN t.live = 1..Len(t.live)
    BY <1>1
  <2> QED BY <2>1, <2>2, <1>1
<1> HIDE DEF u, m
<1>4. /\ u.entries \in Seq(Entry) /\ u.live \in Seq(BOOLEAN)
      /\ Used(u) = m + 1
      /\ \A i \in 1..m : u.entries[i] = t.entries[i] /\ u.live[i] = t.live[i]
      /\ u.entries[m + 1] = e /\ u.live[m + 1] = TRUE
      /\ DOMAIN u.live = 1..(m + 1)
  <2>1. /\ Append(t.entries, e) \in Seq(Entry)
        /\ Len(Append(t.entries, e)) = m + 1
        /\ \A i \in 1..m : Append(t.entries, e)[i] = t.entries[i]
        /\ Append(t.entries, e)[m + 1] = e
    BY <1>1, Appended
  <2>2. /\ Append(t.live, TRUE) \in Seq(BOOLEAN)
        /\ \A i \in 1..m : Append(t.live, TRUE)[i] = t.live[i]
        /\ Append(t.live, TRUE)[m + 1] = TRUE
        /\ DOMAIN Append(t.live, TRUE) = 1..(m + 1)
    <3> DEFINE B == BOOLEAN
               yes == TRUE
               l == t.live
    <3>1. l \in Seq(B) /\ yes \in B /\ Len(l) = m
      BY <1>1, <1>3
    <3> HIDE DEF B, yes, l
    <3>2. /\ Append(l, yes) \in Seq(B)
          /\ \A i \in 1..m : Append(l, yes)[i] = l[i]
          /\ Append(l, yes)[m + 1] = yes
          /\ DOMAIN Append(l, yes) = 1..(m + 1)
      <4>1. /\ Append(l, yes) \in Seq(B)
            /\ \A i \in 1..Len(l) : Append(l, yes)[i] = l[i]
            /\ Append(l, yes)[Len(l) + 1] = yes
            /\ DOMAIN Append(l, yes) = 1..(Len(l) + 1)
        BY <3>1, Appended
      <4> QED BY <3>1, <4>1
    <3> QED BY <3>2 DEF B, yes, l
  <2> QED BY <1>2, <2>1, <2>2 DEF Used
<1>5. /\ DOMAIN u.index = DOMAIN t.index
      /\ u.index[s] = m + 1
      /\ \A x \in DOMAIN t.index : x # s => u.index[x] = t.index[x]
      /\ u.index = [x \in DOMAIN u.index |-> u.index[x]]
  BY <1>1, <1>2
<1>6. Typed(u)
  BY <1>2, <1>4, <1>5 DEF Typed
<1>7. Shaped(u)
  BY <1>1, <1>2, <1>4, <1>5 DEF Good, WellFormed, Shaped, IndexCap, m
<1>8. \A x \in DOMAIN t.index : t.index[x] \in {Empty, Tomb} \cup 1..m
  BY DEF Good, WellFormed, Refers, m
<1>9. \A k \in Keys, x \in DOMAIN t.index : Reaches(t, k, x) => Reaches(u, k, x)
  <2>1. \A k, x, y : Distance(u, Home(u, k), x) = Distance(t, Home(t, k), x)
    BY <1>2 DEF Distance, Home, IndexCap
  <2>2. m + 1 # Empty
    BY <1>1 DEF Empty
  <2> QED BY <1>5, <2>1, <2>2 DEF Reaches
<1>10. Refers(u)
  <2>1. ASSUME NEW x \in DOMAIN u.index
        PROVE  /\ u.index[x] \in {Empty, Tomb} \cup 1..Used(u)
               /\ u.index[x] > 0 => u.live[u.index[x]] /\ Reaches(u, EntryAt(u, x).key, x)
    <3>1. CASE x = s
      <4>1. e.key \in Keys
        BY DEF Entry
      <4> QED BY <1>1, <1>4, <1>5, <1>9, <3>1, <4>1 DEF EntryAt
    <3>2. CASE x # s
      <4>1. u.index[x] = t.index[x] /\ x \in DOMAIN t.index
        BY <1>5, <3>2
      <4>2. ASSUME u.index[x] > 0
            PROVE  u.live[u.index[x]] /\ Reaches(u, EntryAt(u, x).key, x)
        <5>1. u.index[x] \in 1..m
          BY <1>1, <1>8, <4>1, <4>2 DEF Empty, Tomb
        <5>2. t.live[t.index[x]] /\ Reaches(t, EntryAt(t, x).key, x)
          BY <4>1, <4>2 DEF Good, WellFormed, Refers
        <5>3. EntryAt(u, x) = EntryAt(t, x) /\ EntryAt(t, x).key \in Keys
          <6>1. EntryAt(u, x) = EntryAt(t, x)
            BY <1>4, <4>1, <5>1 DEF EntryAt
          <6>2. t.entries[t.index[x]] \in Entry
            BY <1>1, <4>1, <5>1
          <6> QED BY <6>1, <6>2 DEF EntryAt, Entry
        <5> QED BY <1>4, <1>9, <4>1, <5>1, <5>2, <5>3
      <4> QED BY <1>1, <1>4, <1>8, <4>1, <4>2
    <3> QED BY <3>1, <3>2
  <2>2. ASSUME NEW i \in 1..Used(u), u.live[i]
        PROVE  \E x \in DOMAIN u.index : u.index[x] = i
    <3>1. CASE i = m + 1
      BY <1>5, <3>1
    <3>2. CASE i # m + 1
      <4>1. i \in 1..m /\ t.live[i]
        BY <1>1, <1>4, <2>2, <3>2
      <4>2. PICK x \in DOMAIN t.index : t.index[x] = i
        BY <4>1 DEF Good, WellFormed, Refers, m
      <4>3. x # s
        BY <4>1, <4>2 DEF Empty
      <4> QED BY <1>5, <4>2, <4>3
    <3> QED BY <3>1, <3>2
  <2>3. ASSUME NEW x \in DOMAIN u.index, NEW y \in DOMAIN u.index,
               u.index[x] > 0, u.index[x] = u.index[y]
        PROVE  x = y
    <3>1. \A z \in DOMAIN t.index : t.index[z] # m + 1
      BY <1>1, <1>8 DEF Empty, Tomb
    <3>2. CASE x = s \/ y = s
      BY <1>5, <2>3, <3>1, <3>2
    <3>3. CASE x # s /\ y # s
      BY <1>5, <2>3, <3>3 DEF Good, WellFormed, Refers
    <3> QED BY <3>2, <3>3
  <2> QED BY <2>1, <2>2, <2>3 DEF Refers
<1>11. KeysDiffer(u)
  <2>1. \A i, j \in 1..m :
          t.live[i] /\ t.live[j] /\ t.entries[i].key = t.entries[j].key => i = j
    BY DEF Good, WellFormed, KeysDiffer, m
  <2>2. \A i \in 1..m : t.live[i] => t.entries[i].key # e.key
    BY DEF HasKey, m
  <2> SUFFICES ASSUME NEW i \in 1..Used(u), NEW j \in 1..Used(u),
                      u.live[i], u.live[j], u.entries[i].key = u.entries[j].key
               PROVE  i = j
    BY DEF KeysDiffer
  <2>3. \A q \in 1..Used(u) : q \in 1..m \/ q = m + 1
    BY <1>1, <1>4
  <2>4. CASE i \in 1..m /\ j \in 1..m
    BY <1>4, <2>1, <2>4
  <2>5. CASE i = m + 1 /\ j \in 1..m
    BY <1>4, <2>2, <2>5
  <2>6. CASE i \in 1..m /\ j = m + 1
    BY <1>4, <2>2, <2>6
  <2>7. CASE i = m + 1 /\ j = m + 1
    BY <2>7
  <2> QED BY <2>3, <2>4, <2>5, <2>6, <2>7
<1>12. Roomy(u)
  <2>1. Taken(u) = Taken(t) \cup {s}
    BY <1>1, <1>5 DEF Taken, Empty
  <2>2. s \notin Taken(t)
    BY DEF Taken
  <2>3. IsFiniteSet(Taken(t)) /\ Cardinality(Taken(t)) \in Nat
    BY TakenFinite DEF Good, WellFormed
  <2>4. Cardinality(Taken(u)) = Cardinality(Taken(t)) + 1
    BY <2>1, <2>2, <2>3, FS_AddElement
  <2>5. Cardinality(Taken(t)) <= m
    BY DEF Good, WellFormed, Roomy, m
  <2> QED BY <1>1, <1>4, <2>3, <2>4, <2>5 DEF Roomy
<1>13. LiveSet(u) = LiveSet(t) \cup {m + 1}
  <2>1. LiveSet(u) \subseteq LiveSet(t) \cup {m + 1}
    BY <1>1, <1>4 DEF LiveSet, m
  <2>2. LiveSet(t) \cup {m + 1} \subseteq LiveSet(u)
    BY <1>1, <1>4 DEF LiveSet, m
  <2> QED BY <2>1, <2>2
<1> QED
  BY <1>2, <1>4, <1>6, <1>7, <1>10, <1>11, <1>12, <1>13 DEF Good, WellFormed, u, m

(* Another value in the place of an entry's.                               *)
LEMMA OverwrittenIsGood ==
  ASSUME NEW t, Good(t), NEW i \in 1..Used(t), NEW v \in Values
  PROVE  /\ Good(Overwritten(t, i, v))
         /\ LiveSet(Overwritten(t, i, v)) = LiveSet(t)
<1> DEFINE u == Overwritten(t, i, v)
           es == [t.entries EXCEPT ![i] = [key |-> t.entries[i].key, value |-> v]]
<1>1. /\ t = [cap |-> t.cap, index |-> t.index, entries |-> t.entries, live |-> t.live]
      /\ t.index = [x \in DOMAIN t.index |-> t.index[x]]
      /\ t.entries \in Seq(Entry) /\ t.live \in Seq(BOOLEAN)
  BY DEF Good, Typed
<1>2. /\ u.cap = t.cap /\ u.index = t.index /\ u.entries = es /\ u.live = t.live
      /\ u = [cap |-> u.cap, index |-> u.index, entries |-> u.entries, live |-> u.live]
  BY DEF Overwritten
<1>3. t.entries[i] \in Entry
  BY <1>1 DEF Used
<1>4. [key |-> t.entries[i].key, value |-> v] \in Entry
  BY <1>3 DEF Entry
<1>5. /\ es \in Seq(Entry) /\ Len(es) = Used(t)
      /\ \A j \in 1..Used(t) : es[j].key = t.entries[j].key
  <2> DEFINE e == [key |-> t.entries[i].key, value |-> v]
  <2>1. e \in Entry /\ e.key = t.entries[i].key
    BY <1>4
  <2> HIDE DEF e
  <2>2. [t.entries EXCEPT ![i] = e] \in Seq(Entry) /\ Len([t.entries EXCEPT ![i] = e]) = Used(t)
    BY <1>1, <2>1 DEF Used
  <2>3. \A j \in 1..Used(t) :
          [t.entries EXCEPT ![i] = e][j] = IF j = i THEN e ELSE t.entries[j]
    BY <1>1 DEF Used
  <2> QED BY <2>1, <2>2, <2>3 DEF e
<1> HIDE DEF u, es
<1>6. Used(u) = Used(t)
  BY <1>2, <1>5 DEF Used
<1>7. \A j \in 1..Used(t) : u.entries[j].key = t.entries[j].key
  BY <1>2, <1>5
<1>8. Typed(u)
  BY <1>1, <1>2, <1>5 DEF Typed
<1>9. Shaped(u) /\ KeysDiffer(u) /\ Roomy(u)
  BY <1>2, <1>6, <1>7 DEF Good, WellFormed, Shaped, KeysDiffer, Roomy, Taken, IndexCap
<1>10. \A k, x : Reaches(t, k, x) => Reaches(u, k, x)
  BY <1>2 DEF Reaches, Distance, Home, IndexCap
<1>11. Refers(u)
  <2>1. ASSUME NEW x \in DOMAIN u.index
        PROVE  /\ u.index[x] \in {Empty, Tomb} \cup 1..Used(u)
               /\ u.index[x] > 0 => u.live[u.index[x]] /\ Reaches(u, EntryAt(u, x).key, x)
    <3>1. u.index[x] \in {Empty, Tomb} \cup 1..Used(u)
      BY <1>2, <1>6 DEF Good, WellFormed, Refers
    <3>2. ASSUME u.index[x] > 0
          PROVE  u.live[u.index[x]] /\ Reaches(u, EntryAt(u, x).key, x)
      <4>1. u.index[x] = t.index[x] /\ t.index[x] \in 1..Used(t)
        BY <1>2, <1>6, <3>1, <3>2 DEF Empty, Tomb
      <4>2. t.live[t.index[x]] /\ Reaches(t, EntryAt(t, x).key, x)
        BY <1>2, <3>2 DEF Good, WellFormed, Refers
      <4>3. EntryAt(u, x).key = EntryAt(t, x).key
        BY <1>7, <4>1 DEF EntryAt
      <4> QED BY <1>2, <1>10, <4>1, <4>2, <4>3
    <3> QED BY <3>1, <3>2
  <2> QED BY <1>2, <1>6, <2>1 DEF Good, WellFormed, Refers
<1>12. LiveSet(u) = LiveSet(t)
  BY <1>2, <1>6 DEF LiveSet
<1> QED BY <1>8, <1>9, <1>11, <1>12 DEF Good, WellFormed, u

(* A hole and a tombstone in the place of an entry and its slot.           *)
LEMMA RemovedIsGood ==
  ASSUME NEW t, Good(t), NEW s \in DOMAIN t.index, t.index[s] \in 1..Used(t)
  PROVE  /\ Good(Removed(t, s))
         /\ t.index[s] \in LiveSet(t)
         /\ LiveSet(Removed(t, s)) = LiveSet(t) \ {t.index[s]}
<1> DEFINE u == Removed(t, s)
           d == t.index[s]
<1>1. /\ t = [cap |-> t.cap, index |-> t.index, entries |-> t.entries, live |-> t.live]
      /\ t.index = [x \in DOMAIN t.index |-> t.index[x]]
      /\ t.entries \in Seq(Entry) /\ t.live \in Seq(BOOLEAN)
      /\ DOMAIN t.live = 1..Used(t) /\ Used(t) \in Nat
  BY DEF Good, Typed, WellFormed, Shaped, Used
<1>2. /\ u.cap = t.cap /\ u.entries = t.entries
      /\ u.index = [t.index EXCEPT ![s] = Tomb]
      /\ u.live = [t.live EXCEPT ![d] = FALSE]
      /\ u = [cap |-> u.cap, index |-> u.index, entries |-> u.entries, live |-> u.live]
  BY DEF Removed
<1>3. Used(u) = Used(t)
  BY <1>2 DEF Used
<1>4. d \in 1..Used(t) /\ d > 0 /\ t.live[d]
  <2>1. d \in 1..Used(t) /\ d > 0
    BY <1>1
  <2> QED BY <2>1 DEF Good, WellFormed, Refers
<1> HIDE DEF u
<1>5. u.live \in Seq(BOOLEAN) /\ DOMAIN u.live = 1..Used(t)
  <2> DEFINE B == BOOLEAN
             no == FALSE
             l == t.live
  <2>1. l \in Seq(B) /\ no \in B /\ d \in DOMAIN l /\ DOMAIN l = 1..Used(t)
    BY <1>1, <1>4
  <2> HIDE DEF B, no, l, d
  <2>2. [l EXCEPT ![d] = no] \in Seq(B) /\ DOMAIN [l EXCEPT ![d] = no] = DOMAIN l
    <3>0. DOMAIN l = 1..Len(l) /\ Len(l) \in Nat
      BY <2>1
    <3>1. d \in 1..Len(l) /\ DOMAIN l = 1..Len(l) /\ Len(l) \in Nat
      BY <2>1, <3>0, Zenon
    <3> QED BY <2>1, <3>1
  <2> QED BY <1>2, <2>1, <2>2 DEF B, no, l
<1>6. /\ u.live[d] = FALSE
      /\ \A i \in 1..Used(t) : i # d => u.live[i] = t.live[i]
  BY <1>1, <1>2, <1>4
<1>7. /\ DOMAIN u.index = DOMAIN t.index
      /\ u.index[s] = Tomb
      /\ \A x \in DOMAIN t.index : x # s => u.index[x] = t.index[x]
      /\ u.index = [x \in DOMAIN u.index |-> u.index[x]]
  BY <1>1, <1>2
<1>8. Typed(u)
  BY <1>1, <1>2, <1>5, <1>7 DEF Typed
<1>9. Shaped(u)
  BY <1>2, <1>3, <1>5, <1>7 DEF Good, WellFormed, Shaped, IndexCap
<1>10. \A k, x : Reaches(t, k, x) => Reaches(u, k, x)
  <2>1. \A k, x, y : Distance(u, Home(u, k), x) = Distance(t, Home(t, k), x)
    BY <1>2 DEF Distance, Home, IndexCap
  <2>2. Tomb # Empty
    BY DEF Tomb, Empty
  <2> QED BY <1>7, <2>1, <2>2 DEF Reaches
<1>11. \A x \in DOMAIN t.index : x # s => t.index[x] # d
  <2>1. \A x \in DOMAIN t.index : t.index[s] > 0 /\ t.index[s] = t.index[x] => s = x
    BY DEF Good, WellFormed, Refers
  <2> QED BY <1>4, <2>1
<1>12. Refers(u)
  <2>1. ASSUME NEW x \in DOMAIN u.index
        PROVE  /\ u.index[x] \in {Empty, Tomb} \cup 1..Used(u)
               /\ u.index[x] > 0 => u.live[u.index[x]] /\ Reaches(u, EntryAt(u, x).key, x)
    <3>1. CASE x = s
      BY <1>7, <3>1 DEF Tomb
    <3>2. CASE x # s
      <4>1. u.index[x] = t.index[x] /\ u.index[x] \in {Empty, Tomb} \cup 1..Used(u)
        BY <1>3, <1>7, <3>2 DEF Good, WellFormed, Refers
      <4>2. ASSUME u.index[x] > 0
            PROVE  u.live[u.index[x]] /\ Reaches(u, EntryAt(u, x).key, x)
        <5>1. t.live[t.index[x]] /\ Reaches(t, EntryAt(t, x).key, x)
          BY <1>7, <4>1, <4>2 DEF Good, WellFormed, Refers
        <5>2. t.index[x] \in 1..Used(t) /\ t.index[x] # d
          BY <1>3, <1>7, <1>11, <3>2, <4>1, <4>2 DEF Empty, Tomb
        <5>3. u.live[u.index[x]]
          BY <1>6, <4>1, <5>1, <5>2
        <5>4. EntryAt(u, x) = EntryAt(t, x)
          BY <1>2, <4>1 DEF EntryAt
        <5> QED BY <1>10, <5>1, <5>3, <5>4
      <4> QED BY <4>1, <4>2
    <3> QED BY <3>1, <3>2
  <2>2. ASSUME NEW i \in 1..Used(u), u.live[i]
        PROVE  \E x \in DOMAIN u.index : u.index[x] = i
    <3>1. i # d /\ i \in 1..Used(t) /\ t.live[i]
      BY <1>3, <1>6, <2>2
    <3>2. PICK x \in DOMAIN t.index : t.index[x] = i
      BY <3>1 DEF Good, WellFormed, Refers
    <3> QED BY <1>7, <3>1, <3>2
  <2>3. ASSUME NEW x \in DOMAIN u.index, NEW y \in DOMAIN u.index,
               u.index[x] > 0, u.index[x] = u.index[y]
        PROVE  x = y
    <3>1. x # s /\ y # s
      BY <1>7, <2>3 DEF Tomb
    <3> QED BY <1>7, <2>3, <3>1 DEF Good, WellFormed, Refers
  <2> QED BY <2>1, <2>2, <2>3 DEF Refers
<1>13. KeysDiffer(u)
  <2>1. \A i \in 1..Used(t) : u.live[i] => t.live[i]
    BY <1>4, <1>6
  <2> QED BY <1>2, <1>3, <2>1 DEF Good, WellFormed, KeysDiffer
<1>14. Roomy(u)
  <2>1. Tomb # Empty /\ d # Empty
    BY <1>4 DEF Tomb, Empty
  <2>2. Taken(u) = Taken(t)
    BY <1>7, <2>1 DEF Taken
  <2> QED BY <1>3, <2>2 DEF Good, WellFormed, Roomy
<1>15. LiveSet(u) = LiveSet(t) \ {d}
  BY <1>3, <1>4, <1>6 DEF LiveSet
<1> QED
  BY <1>4, <1>8, <1>9, <1>12, <1>13, <1>14, <1>15 DEF Good, WellFormed, u, LiveSet

(* A probe begins at home.                                                 *)
LEMMA AtHome ==
  ASSUME NEW t, Good(t), t.cap # 0, NEW k \in Keys
  PROVE  /\ Home(t, k) \in DOMAIN t.index
         /\ Reaches(t, k, Home(t, k)) /\ NotPassed(t, k, Home(t, k))
<1> DEFINE h == Home(t, k)
<1>1. /\ IndexCap(t) \in Nat /\ DOMAIN t.index = 0..(IndexCap(t) - 1)
      /\ h \in DOMAIN t.index
  BY Slots DEF Good, WellFormed
<1> HIDE DEF h
<1>2. \A x \in DOMAIN t.index : ~(Distance(t, h, x) < Distance(t, h, h))
  BY <1>1 DEF Distance
<1> QED BY <1>1, <1>2 DEF Reaches, NotPassed, h

(* The live entries are no more than the entries.                          *)
LEMMA LiveBound ==
  ASSUME NEW t, Good(t)
  PROVE  /\ Used(t) \in Nat /\ t.cap \in Nat /\ Used(t) <= t.cap
         /\ Cardinality(LiveSet(t)) \in Nat
         /\ Cardinality(LiveSet(t)) <= Used(t)
<1>1. Used(t) \in Nat /\ t.cap \in Nat /\ Used(t) <= t.cap
  BY DEF Good, Typed, WellFormed, Shaped, Used
<1>2. IsFiniteSet(1..Used(t)) /\ Cardinality(1..Used(t)) = Used(t)
  BY <1>1, FS_Interval
<1>3. LiveSet(t) \in SUBSET (1..Used(t))
  BY DEF LiveSet
<1>4. Cardinality(LiveSet(t)) <= Used(t)
  BY <1>2, <1>3, FS_Subset
<1> QED BY <1>1, <1>4, TakenFinite DEF Good, WellFormed

-----------------------------------------------------------------------------
(* The places of the live entries among each other.                        *)
LEMMA RankOnto ==
  ASSUME NEW L \in SUBSET Nat, IsFiniteSet(L)
  PROVE  /\ Cardinality(L) \in Nat
         /\ \A i \in L : Rank(L, i) \in 1..Cardinality(L)
         /\ \A i, j \in L : i < j => Rank(L, i) < Rank(L, j)
         /\ \A n \in 1..Cardinality(L) : \E i \in L : Rank(L, i) = n
<1> DEFINE upTo(i) == {j \in L : j <= i}
<1>1. Cardinality(L) \in Nat
  BY FS_CardinalityType
<1>2. ASSUME NEW i \in L
      PROVE  IsFiniteSet(upTo(i)) /\ Rank(L, i) = Cardinality(upTo(i))
             /\ Rank(L, i) \in 1..Cardinality(L)
  <2>1. upTo(i) \in SUBSET L /\ i \in upTo(i)
    OBVIOUS
  <2>2. IsFiniteSet(upTo(i)) /\ Cardinality(upTo(i)) <= Cardinality(L)
    BY <2>1, FS_Subset
  <2>3. Cardinality(upTo(i)) \in Nat /\ Cardinality(upTo(i)) # 0
    BY <2>1, <2>2, FS_CardinalityType, FS_EmptySet
  <2>4. Rank(L, i) = Cardinality(upTo(i))
    BY DEF Rank
  <2> HIDE DEF upTo
  <2> QED BY <1>1, <2>2, <2>3, <2>4
<1>3. ASSUME NEW i \in L, NEW j \in L, i < j PROVE Rank(L, i) < Rank(L, j)
  <2>1. upTo(i) \in SUBSET upTo(j) /\ j \in upTo(j) /\ j \notin upTo(i)
    <3>1. i \in Nat /\ j \in Nat /\ \A x \in L : x \in Nat
      OBVIOUS
    <3>2. \A x \in L : x <= i => x <= j
      BY <1>3, <3>1
    <3>3. j <= j /\ ~(j <= i)
      BY <1>3, <3>1
    <3> QED BY <3>2, <3>3
  <2> HIDE DEF upTo
  <2>2. Cardinality(upTo(i)) <= Cardinality(upTo(j))
        /\ Cardinality(upTo(i)) # Cardinality(upTo(j))
    BY <1>2, <2>1, FS_Subset
  <2> QED BY <1>1, <1>2, <2>2
<1> DEFINE f == [i \in L |-> Rank(L, i)]
           N == 1..Cardinality(L)
<1>4. f \in Surjection(L, N)
  <2>1. f \in [L -> N]
    BY <1>2
  <2>2. ASSUME NEW i \in L, NEW j \in L, f[i] = f[j] PROVE i = j
    <3>1. i \in Nat /\ j \in Nat /\ Rank(L, i) = Rank(L, j)
      BY <2>2
    <3> HIDE DEF f
    <3>2. Rank(L, i) \in Nat /\ Rank(L, j) \in Nat
      <4>1. Rank(L, i) \in 1..Cardinality(L) /\ Rank(L, j) \in 1..Cardinality(L)
        BY <1>2
      <4> QED BY <1>1, <4>1
    <3>3. ~(i < j) /\ ~(j < i)
      BY <1>3, <3>1, <3>2
    <3> QED BY <3>1, <3>3
  <2>3. f \in Injection(L, N)
    BY <2>1, <2>2 DEF Injection, IsInjective
  <2>4. IsFiniteSet(N) /\ Cardinality(N) = Cardinality(L)
    BY <1>1, FS_Interval
  <2> HIDE DEF f, N
  <2> QED BY <2>3, <2>4, FS_Injection
<1>5. ASSUME NEW n \in N PROVE \E i \in L : Rank(L, i) = n
  BY <1>4 DEF Surjection
<1> QED BY <1>1, <1>2, <1>3, <1>5

(* An element greater than all others comes last.                          *)
LEMMA RankAdded ==
  ASSUME NEW L \in SUBSET Nat, IsFiniteSet(L), NEW x \in Nat, \A i \in L : i < x
  PROVE  /\ \A i \in L : Rank(L \cup {x}, i) = Rank(L, i)
         /\ Rank(L \cup {x}, x) = Cardinality(L) + 1
         /\ Cardinality(L \cup {x}) = Cardinality(L) + 1
<1>1. ASSUME NEW i \in L PROVE Rank(L \cup {x}, i) = Rank(L, i)
  <2>1. {j \in L \cup {x} : j <= i} = {j \in L : j <= i}
    BY <1>1
  <2> QED BY <2>1 DEF Rank
<1>2. Cardinality(L \cup {x}) = Cardinality(L) + 1
  <2>1. x \notin L
    OBVIOUS
  <2> QED BY <2>1, FS_AddElement
<1>3. {j \in L \cup {x} : j <= x} = L \cup {x}
  <2>1. \A j \in L \cup {x} : j <= x
    OBVIOUS
  <2> QED BY <2>1
<1> QED BY <1>1, <1>2, <1>3 DEF Rank

(* Without d the greater ones move up by one.                              *)
LEMMA RankRemoved ==
  ASSUME NEW L \in SUBSET Nat, IsFiniteSet(L), NEW d \in L
  PROVE  /\ \A i \in L : i < d => Rank(L \ {d}, i) = Rank(L, i)
         /\ \A i \in L : i > d => Rank(L \ {d}, i) = Rank(L, i) - 1
         /\ Cardinality(L \ {d}) = Cardinality(L) - 1
<1>1. ASSUME NEW i \in L, i < d PROVE Rank(L \ {d}, i) = Rank(L, i)
  <2>1. {j \in L \ {d} : j <= i} = {j \in L : j <= i}
    BY <1>1
  <2> QED BY <2>1 DEF Rank
<1>2. ASSUME NEW i \in L, i > d PROVE Rank(L \ {d}, i) = Rank(L, i) - 1
  <2> DEFINE S == {j \in L : j <= i}
  <2>1. {j \in L \ {d} : j <= i} = S \ {d} /\ S \in SUBSET L /\ d \in S
    BY <1>2
  <2> HIDE DEF S
  <2>2. IsFiniteSet(S)
    BY <2>1, FS_Subset
  <2>3. Cardinality(S \ {d}) = Cardinality(S) - 1
    BY <2>1, <2>2, FS_RemoveElement
  <2> QED BY <2>1, <2>3 DEF Rank, S
<1>3. Cardinality(L \ {d}) = Cardinality(L) - 1
  BY FS_RemoveElement
<1> QED BY <1>1, <1>2, <1>3

LEMMA RankInterval ==
  ASSUME NEW m \in Nat, NEW i \in 1..m
  PROVE  Rank(1..m, i) = i
<1>1. {j \in 1..m : j <= i} = 1..i
  OBVIOUS
<1>2. Cardinality(1..i) = i
  BY FS_Interval
<1> QED BY <1>1, <1>2 DEF Rank

(* p lists n things.                                                       *)
Lists(p, n) == p = [i \in 1..n |-> p[i]]

(* Packing is a sequence of the live entries, each at its place.           *)
LEMMA PackedIs ==
  ASSUME NEW t, Good(t)
  PROVE  /\ LiveSet(t) \in SUBSET Nat /\ IsFiniteSet(LiveSet(t))
         /\ Packed(t) \in Seq(Entry)
         /\ Lists(Packed(t), Cardinality(LiveSet(t)))
         /\ DOMAIN Packed(t) = 1..Cardinality(LiveSet(t))
         /\ Len(Packed(t)) = Cardinality(LiveSet(t))
         /\ \A i \in LiveSet(t) : Packed(t)[Rank(LiveSet(t), i)] = t.entries[i]
<1> DEFINE L == LiveSet(t)
           at(n) == CHOOSE i \in L : Rank(L, i) = n
<1>1. L \in SUBSET Nat /\ IsFiniteSet(L)
  BY TakenFinite DEF Good, WellFormed, LiveSet
<1>2. \A i \in L : t.entries[i] \in Entry
  <2>1. t.entries \in Seq(Entry) /\ \A i \in L : i \in 1..Len(t.entries)
    BY DEF Good, Typed, Used, LiveSet
  <2> QED BY <2>1
<1>3. Packed(t) = [n \in 1..Cardinality(L) |-> t.entries[at(n)]]
  BY DEF Packed
<1> HIDE DEF L
<1>4. ASSUME NEW n \in 1..Cardinality(L) PROVE at(n) \in L /\ Rank(L, at(n)) = n
  BY <1>1, RankOnto
<1> HIDE DEF at
<1>5. Cardinality(L) \in Nat
  BY <1>1, RankOnto
<1>6. \A n \in 1..Cardinality(L) : Packed(t)[n] = t.entries[at(n)] /\ Packed(t)[n] \in Entry
  BY <1>2, <1>3, <1>4
<1>7. Packed(t) = [n \in 1..Cardinality(L) |-> Packed(t)[n]]
  BY <1>3
<1>8. Packed(t) \in Seq(Entry) /\ Len(Packed(t)) = Cardinality(L)
  BY <1>5, <1>6, <1>7
<1>9. ASSUME NEW i \in L PROVE Packed(t)[Rank(L, i)] = t.entries[i]
  <2>1. Rank(L, i) \in 1..Cardinality(L)
    BY <1>1, RankOnto
  <2>2. at(Rank(L, i)) \in L /\ Rank(L, at(Rank(L, i))) = Rank(L, i)
    BY <1>4, <2>1
  <2>3. at(Rank(L, i)) = i
    <3>1. PICK j \in L : j = at(Rank(L, i))
      BY <2>2
    <3>2. i \in Nat /\ j \in Nat /\ Rank(L, j) = Rank(L, i) /\ Rank(L, i) \in Nat
      BY <1>1, <2>1, <2>2, <3>1
    <3>3. ~(i < j) /\ ~(j < i)
      BY <1>1, <3>2, RankOnto
    <3> QED BY <3>1, <3>2, <3>3
  <2> QED BY <1>6, <2>1, <2>3
<1> QED BY <1>1, <1>7, <1>8, <1>9 DEF L, Lists

(* Two sequences of n entries are equal if they are at all the places.     *)
LEMMA SamePlaces ==
  ASSUME NEW L \in SUBSET Nat, IsFiniteSet(L), NEW p, NEW q,
         Lists(p, Cardinality(L)), Lists(q, Cardinality(L)),
         \A i \in L : p[Rank(L, i)] = q[Rank(L, i)]
  PROVE  p = q
<1>1. \A n \in 1..Cardinality(L) : p[n] = q[n]
  BY RankOnto
<1> QED BY <1>1, Zenon DEF Lists

(* What the calls do to a block, they do to its packed entries.            *)
LEMMA PackedPlaced ==
  ASSUME NEW t, Good(t), t.cap # 0, Used(t) < t.cap,
         NEW e \in Entry, ~HasKey(t, e.key),
         NEW s \in DOMAIN t.index, t.index[s] = Empty, Reaches(t, e.key, s)
  PROVE  Packed(Placed(t, s, e)) = Append(Packed(t), e)
<1> DEFINE u == Placed(t, s, e)
           L == LiveSet(t)
           x == Used(t) + 1
           q == Append(Packed(t), e)
<1>1. /\ Good(u) /\ LiveSet(u) = L \cup {x}
      /\ \A i \in 1..Used(t) : u.entries[i] = t.entries[i]
      /\ u.entries[x] = e
  BY PlacedIsGood
<1>2. L \in SUBSET Nat /\ IsFiniteSet(L) /\ x \in Nat /\ \A i \in L : i < x /\ i \in 1..Used(t)
  <2>1. Used(t) \in Nat /\ L \in SUBSET Nat /\ IsFiniteSet(L)
    BY PackedIs, LiveBound
  <2>2. \A i \in L : i \in 1..Used(t)
    BY DEF LiveSet
  <2> HIDE DEF L
  <2> QED BY <2>1, <2>2
<1>3. /\ Packed(t) \in Seq(Entry) /\ Len(Packed(t)) = Cardinality(L)
      /\ \A i \in L : Packed(t)[Rank(L, i)] = t.entries[i]
  BY PackedIs
<1> HIDE DEF u, L, x
<1>4. /\ \A i \in L : Rank(L \cup {x}, i) = Rank(L, i)
      /\ Rank(L \cup {x}, x) = Cardinality(L) + 1
      /\ Cardinality(L \cup {x}) = Cardinality(L) + 1
  BY <1>2, RankAdded
<1>5. /\ Cardinality(L) \in Nat
      /\ \A i \in L : Rank(L, i) \in 1..Cardinality(L)
  BY <1>2, RankOnto
<1>6. /\ Lists(q, Cardinality(L) + 1)
      /\ \A n \in 1..Cardinality(L) : q[n] = Packed(t)[n]
      /\ q[Cardinality(L) + 1] = e
  <2>1. /\ q \in Seq(Entry) /\ Len(q) = Len(Packed(t)) + 1
        /\ \A n \in 1..Len(Packed(t)) : q[n] = Packed(t)[n]
        /\ q[Len(Packed(t)) + 1] = e
    BY <1>3, Appended
  <2> HIDE DEF q
  <2>2. q = [n \in 1..Len(q) |-> q[n]]
    BY <2>1
  <2> QED BY <1>3, <2>1, <2>2 DEF Lists
<1> HIDE DEF q
<1>7. LiveSet(u) \in SUBSET Nat /\ IsFiniteSet(LiveSet(u))
      /\ Lists(Packed(u), Cardinality(LiveSet(u)))
      /\ \A i \in LiveSet(u) : Packed(u)[Rank(LiveSet(u), i)] = u.entries[i]
  BY <1>1, PackedIs
<1>8. ASSUME NEW i \in LiveSet(u) PROVE Packed(u)[Rank(LiveSet(u), i)] = q[Rank(LiveSet(u), i)]
  <2>1. CASE i \in L
    <3>1. Packed(u)[Rank(LiveSet(u), i)] = t.entries[i]
      BY <1>1, <1>2, <1>7, <2>1
    <3>2. Rank(LiveSet(u), i) = Rank(L, i) /\ q[Rank(L, i)] = Packed(t)[Rank(L, i)]
      BY <1>1, <1>4, <1>5, <1>6, <2>1
    <3> QED BY <1>3, <2>1, <3>1, <3>2
  <2>2. CASE i = x
    BY <1>1, <1>4, <1>6, <1>7, <2>2
  <2> QED BY <1>1, <2>1, <2>2
<1>9. Lists(q, Cardinality(LiveSet(u)))
  BY <1>1, <1>4, <1>6
<1>10. Packed(u) = q
  BY <1>7, <1>8, <1>9, SamePlaces
<1> QED BY <1>10 DEF u, q

LEMMA PackedOverwritten ==
  ASSUME NEW t, Good(t), NEW i \in LiveSet(t), NEW v \in Values
  PROVE  Packed(Overwritten(t, i, v)) = [Packed(t) EXCEPT ![Rank(LiveSet(t), i)].value = v]
<1> DEFINE u == Overwritten(t, i, v)
           L == LiveSet(t)
           e == [key |-> t.entries[i].key, value |-> v]
           q == [Packed(t) EXCEPT ![Rank(L, i)].value = v]
<1>1. i \in 1..Used(t) /\ i \in L
  BY DEF LiveSet
<1>2. Good(u) /\ LiveSet(u) = L
  BY <1>1, OverwrittenIsGood
<1>3. t.entries \in Seq(Entry) /\ DOMAIN t.entries = 1..Used(t) /\ t.entries[i] \in Entry
  <2>1. t.entries \in Seq(Entry) /\ Used(t) = Len(t.entries)
    BY DEF Good, Typed, Used
  <2> QED BY <1>1, <2>1
<1>4. u.entries[i] = e /\ \A j \in L : j # i => u.entries[j] = t.entries[j]
  BY <1>1, <1>3 DEF Overwritten, LiveSet
<1>5. /\ L \in SUBSET Nat /\ IsFiniteSet(L)
      /\ Lists(Packed(t), Cardinality(L)) /\ DOMAIN Packed(t) = 1..Cardinality(L)
      /\ \A j \in L : Packed(t)[Rank(L, j)] = t.entries[j]
  BY PackedIs
<1>6. /\ Lists(Packed(u), Cardinality(L))
      /\ \A j \in L : Packed(u)[Rank(L, j)] = u.entries[j]
  BY <1>2, PackedIs
<1> HIDE DEF u, L
<1>7. /\ \A j \in L : Rank(L, j) \in 1..Cardinality(L) /\ Rank(L, j) \in Nat
      /\ \A j, k \in L : j < k => Rank(L, j) < Rank(L, k)
  <2>1. Cardinality(L) \in Nat /\ \A j \in L : Rank(L, j) \in 1..Cardinality(L)
    BY <1>5, RankOnto
  <2>2. \A j, k \in L : j < k => Rank(L, j) < Rank(L, k)
    BY <1>5, RankOnto
  <2> QED BY <2>1, <2>2
<1>8. /\ Lists(q, Cardinality(L))
      /\ q[Rank(L, i)] = [Packed(t)[Rank(L, i)] EXCEPT !.value = v]
      /\ \A n \in 1..Cardinality(L) : n # Rank(L, i) => q[n] = Packed(t)[n]
  BY <1>1, <1>5, <1>7 DEF Lists
<1>9. [t.entries[i] EXCEPT !.value = v] = e
  BY <1>3 DEF Entry
<1> HIDE DEF q, e
<1>10. ASSUME NEW j \in L PROVE Packed(u)[Rank(L, j)] = q[Rank(L, j)]
  <2>1. CASE j = i
    BY <1>1, <1>4, <1>5, <1>6, <1>8, <1>9, <2>1
  <2>2. CASE j # i
    <3>1. Rank(L, j) # Rank(L, i)
      <4>1. i \in Nat /\ j \in Nat /\ (j < i \/ i < j)
        BY <1>1, <1>5, <2>2
      <4> QED BY <1>1, <1>7, <4>1
    <3> QED BY <1>4, <1>5, <1>6, <1>7, <1>8, <2>2, <3>1
  <2> QED BY <2>1, <2>2
<1>11. Packed(u) = q
  BY <1>5, <1>6, <1>8, <1>10, SamePlaces
<1> QED BY <1>11 DEF u, q, L

LEMMA RemovedAt ==
  ASSUME NEW S, NEW q \in Seq(S), NEW r \in 1..Len(q)
  PROVE  /\ Lists(Map!RemoveAt(q, r), Len(q) - 1)
         /\ \A n \in 1..(Len(q) - 1) :
              Map!RemoveAt(q, r)[n] = IF n < r THEN q[n] ELSE q[n + 1]
<1> DEFINE a == SubSeq(q, 1, r - 1)
           b == SubSeq(q, r + 1, Len(q))
<1>1. a \in Seq(S) /\ Len(a) = r - 1 /\ \A n \in 1..(r - 1) : a[n] = q[n]
  OBVIOUS
<1>2. b \in Seq(S) /\ Len(b) = Len(q) - r /\ \A n \in 1..(Len(q) - r) : b[n] = q[n + r]
  OBVIOUS
<1> HIDE DEF a, b
<1>3. /\ a \o b \in Seq(S) /\ Len(a \o b) = Len(q) - 1
      /\ \A n \in 1..(Len(q) - 1) : (a \o b)[n] = IF n <= r - 1 THEN a[n] ELSE b[n - (r - 1)]
  <2>1. /\ a \o b \in Seq(S) /\ Len(a \o b) = Len(a) + Len(b)
        /\ \A n \in 1..(Len(a) + Len(b)) :
             (a \o b)[n] = IF n <= Len(a) THEN a[n] ELSE b[n - Len(a)]
    BY <1>1, <1>2, ConcatProperties
  <2>2. Len(a) + Len(b) = Len(q) - 1
    BY <1>1, <1>2
  <2> QED BY <1>1, <2>1, <2>2
<1>4. ASSUME NEW n \in 1..(Len(q) - 1)
      PROVE  (a \o b)[n] = IF n < r THEN q[n] ELSE q[n + 1]
  <2>1. CASE n < r
    BY <1>1, <1>3, <2>1
  <2>2. CASE ~(n < r)
    <3>1. n - (r - 1) \in 1..(Len(q) - r) /\ (n - (r - 1)) + r = n + 1 /\ ~(n <= r - 1)
      BY <2>2
    <3>2. b[n - (r - 1)] = q[(n - (r - 1)) + r]
      BY <1>2, <3>1
    <3> QED BY <1>3, <2>2, <3>1, <3>2
  <2> QED BY <2>1, <2>2
<1>5. Lists(a \o b, Len(q) - 1)
  <2> DEFINE c == a \o b
  <2>1. c \in Seq(S)
    BY <1>3
  <2> HIDE DEF c
  <2>2. c = [n \in 1..Len(c) |-> c[n]]
    BY <2>1
  <2>3. a \o b = [n \in 1..Len(a \o b) |-> (a \o b)[n]]
    BY <2>2 DEF c
  <2> QED BY <1>3, <2>3 DEF Lists
<1>6. Map!RemoveAt(q, r) = a \o b
  BY DEF Map!RemoveAt, a, b
<1> QED BY <1>4, <1>5, <1>6

LEMMA PackedRemoved ==
  ASSUME NEW t, Good(t), NEW s \in DOMAIN t.index, t.index[s] \in 1..Used(t)
  PROVE  Packed(Removed(t, s)) = Map!RemoveAt(Packed(t), Rank(LiveSet(t), t.index[s]))
<1> DEFINE u == Removed(t, s)
           L == LiveSet(t)
           d == t.index[s]
           r == Rank(L, d)
           q == Map!RemoveAt(Packed(t), r)
<1>1. Good(u) /\ d \in L /\ LiveSet(u) = L \ {d} /\ u.entries = t.entries
  BY RemovedIsGood DEF Removed
<1>2. /\ L \in SUBSET Nat /\ IsFiniteSet(L)
      /\ Packed(t) \in Seq(Entry) /\ Len(Packed(t)) = Cardinality(L)
      /\ \A i \in L : Packed(t)[Rank(L, i)] = t.entries[i]
  BY PackedIs
<1>3. /\ L \ {d} \in SUBSET Nat /\ IsFiniteSet(L \ {d})
      /\ Lists(Packed(u), Cardinality(L \ {d}))
      /\ \A i \in L \ {d} : Packed(u)[Rank(L \ {d}, i)] = t.entries[i]
  <2>1. /\ LiveSet(u) \in SUBSET Nat /\ IsFiniteSet(LiveSet(u))
        /\ Lists(Packed(u), Cardinality(LiveSet(u)))
        /\ \A i \in LiveSet(u) : Packed(u)[Rank(LiveSet(u), i)] = u.entries[i]
    BY <1>1, PackedIs
  <2> HIDE DEF u, L, d
  <2> QED BY <1>1, <2>1
<1> HIDE DEF u, L, d
<1>4. /\ \A i \in L : i < d => Rank(L \ {d}, i) = Rank(L, i)
      /\ \A i \in L : i > d => Rank(L \ {d}, i) = Rank(L, i) - 1
      /\ Cardinality(L \ {d}) = Cardinality(L) - 1
  BY <1>1, <1>2, RankRemoved
<1>5. /\ Cardinality(L) \in Nat
      /\ \A i \in L : Rank(L, i) \in 1..Cardinality(L)
      /\ \A i, j \in L : i < j => Rank(L, i) < Rank(L, j)
  BY <1>2, RankOnto
<1>6. r \in 1..Len(Packed(t))
  BY <1>1, <1>2, <1>5
<1> HIDE DEF r
<1>7. /\ Lists(q, Cardinality(L) - 1)
      /\ \A n \in 1..(Cardinality(L) - 1) : q[n] = IF n < r THEN Packed(t)[n] ELSE Packed(t)[n + 1]
  BY <1>2, <1>6, RemovedAt
<1> HIDE DEF q
<1>8. ASSUME NEW i \in L \ {d} PROVE q[Rank(L \ {d}, i)] = t.entries[i]
  <2>1. Rank(L, i) \in 1..Cardinality(L) /\ r \in 1..Cardinality(L) /\ i \in Nat /\ d \in Nat
    BY <1>1, <1>2, <1>5 DEF r
  <2>2. CASE i < d
    <3>1. Rank(L, i) < r
      BY <1>1, <1>5, <2>2 DEF r
    <3>2. Rank(L, i) \in 1..(Cardinality(L) - 1)
      BY <1>5, <2>1, <3>1
    <3> QED BY <1>2, <1>4, <1>7, <2>2, <3>1, <3>2
  <2>3. CASE i > d
    <3>1. r < Rank(L, i)
      BY <1>1, <1>5, <2>1, <2>3 DEF r
    <3> DEFINE n == Rank(L, i) - 1
    <3>2. n \in 1..(Cardinality(L) - 1) /\ ~(n < r) /\ n + 1 = Rank(L, i)
      BY <1>5, <2>1, <3>1
    <3>3. Rank(L \ {d}, i) = n
      BY <1>4, <2>3
    <3> HIDE DEF n
    <3> QED BY <1>2, <1>7, <3>2, <3>3
  <2> QED BY <2>1, <2>2, <2>3
<1>9. Packed(u) = q
  BY <1>3, <1>4, <1>7, <1>8, SamePlaces
<1> QED BY <1>9 DEF u, q, r, L, d

LEMMA NothingPacked == Packed(Block(0)) = <<>>
<1>1. Good(Block(0)) /\ LiveSet(Block(0)) = {}
  BY EmptyBlock
<1>2. Packed(Block(0)) \in Seq(Entry) /\ Len(Packed(Block(0))) = 0
  BY <1>1, PackedIs, FS_EmptySet
<1> QED BY <1>2

(* A key that is live is at one position of the list, its place.           *)
LEMMA Found ==
  ASSUME Good(table), NEW i \in LiveSet(table)
  PROVE  LET k == table.entries[i].key
             r == Rank(LiveSet(table), i)
         IN  /\ r \in DOMAIN Packed(table)
             /\ Map!Positions(k) # {} /\ Map!First(k) = r
             /\ Map!Lookup(k) = Some(table.entries[i].value)
<1> DEFINE L == LiveSet(table)
           k == table.entries[i].key
           r == Rank(L, i)
<1>1. /\ L \in SUBSET Nat /\ IsFiniteSet(L)
      /\ DOMAIN Packed(table) = 1..Cardinality(L)
      /\ \A j \in L : Packed(table)[Rank(L, j)] = table.entries[j]
  BY PackedIs
<1>2. /\ \A j \in L : Rank(L, j) \in 1..Cardinality(L)
      /\ \A n \in 1..Cardinality(L) : \E j \in L : Rank(L, j) = n
      /\ Cardinality(L) \in Nat
  BY <1>1, RankOnto
<1>3. \A j \in L : table.entries[j].key = k => j = i
  BY DEF Good, WellFormed, KeysDiffer, LiveSet
<1>4. i \in L
  OBVIOUS
<1>5. Map!Positions(k) = {r}
  <2> HIDE DEF L, k
  <2>1. ASSUME NEW n \in 1..Cardinality(L), Packed(table)[n].key = k PROVE n = r
    BY <1>1, <1>2, <1>3, <2>1
  <2>2. r \in 1..Cardinality(L) /\ Packed(table)[r].key = k
    BY <1>1, <1>2, <1>4 DEF k
  <2> QED BY <1>1, <2>1, <2>2 DEF Map!Positions
<1>6. Map!First(k) = r
  BY <1>1, <1>2, <1>5 DEF Map!First
<1> HIDE DEF r
<1>7. Map!Lookup(k) = Some(table.entries[i].value)
  BY <1>1, <1>5, <1>6 DEF Map!Lookup, Map!Some, Some, r
<1> QED BY <1>1, <1>2, <1>4, <1>5, <1>6, <1>7 DEF r

LEMMA Absent ==
  ASSUME Good(table), NEW k, ~HasKey(table, k)
  PROVE  Map!Positions(k) = {} /\ Map!Lookup(k) = None
<1> DEFINE L == LiveSet(table)
<1>1. /\ DOMAIN Packed(table) = 1..Cardinality(L)
      /\ \A j \in L : Packed(table)[Rank(L, j)] = table.entries[j]
      /\ L \in SUBSET Nat /\ IsFiniteSet(L)
  BY PackedIs
<1>2. \A n \in 1..Cardinality(L) : \E j \in L : Rank(L, j) = n
  BY <1>1, RankOnto
<1>3. \A j \in L : table.entries[j].key # k
  BY DEF HasKey, LiveSet
<1> HIDE DEF L
<1>4. Map!Positions(k) = {}
  BY <1>1, <1>2, <1>3 DEF Map!Positions
<1> QED BY <1>4 DEF Map!Lookup, Map!None, None

-----------------------------------------------------------------------------
TableOK == Good(table) /\ len = Cardinality(LiveSet(table))

CallOK ==
  /\ pc \in {"idle", "find", "absent", "present", "place", "rehome", "pack"}
  /\ pc # "idle" =>
       /\ call.key \in Keys
       /\ call.op = "insert" => call.value \in Values

(* What the probe for the key knows so far.                                *)
ProbeOK ==
  /\ pc = "find" =>
       /\ table.cap # 0 /\ slot \in DOMAIN table.index
       /\ Reaches(table, call.key, slot) /\ NotPassed(table, call.key, slot)
  /\ pc = "present" => slot \in DOMAIN table.index /\ RefersTo(table, slot, call.key)
  /\ pc \in {"absent", "place", "rehome", "pack"} => ~HasKey(table, call.key)

(* An entry is placed in a block with room for it.                         *)
PlaceOK ==
  /\ pc \in {"place", "rehome", "pack"} => call.op = "insert"
  /\ pc = "place" =>
       /\ table.cap # 0 /\ Used(table) < table.cap
       /\ slot \in DOMAIN table.index /\ Reaches(table, call.key, slot)

(* The new block has the live entries before next, and room for the others *)
(* and the one to be inserted.                                             *)
Before(t, n) == {i \in LiveSet(t) : i < n}

RehomeOK ==
  pc \in {"rehome", "pack"} =>
    /\ Good(fresh) /\ len < fresh.cap
    /\ next \in 1..(Used(table) + 1)
    /\ LiveSet(fresh) = 1..Used(fresh)
    /\ Used(fresh) = Cardinality(Before(table, next))
    /\ \A i \in 1..Used(fresh) :
         \E j \in Before(table, next) :
           Rank(LiveSet(table), j) = i /\ table.entries[j] = fresh.entries[i]
    /\ pc = "pack" =>
         /\ next \in LiveSet(table) /\ slot \in DOMAIN fresh.index
         /\ Reaches(fresh, table.entries[next].key, slot)

IInv == TableOK /\ CallOK /\ ProbeOK /\ PlaceOK /\ RehomeOK

(* A call that returns leaves a table that is well formed.                 *)
LEMMA Returned ==
  ASSUME NEW r, Return(r), TableOK'
  PROVE  IInv'
BY DEF Return, IInv, CallOK, ProbeOK, PlaceOK, RehomeOK

LEMMA BeginKeeps ==
  ASSUME IInv, NEW c, Begin(c), c.key \in Keys, c.op = "insert" => c.value \in Values
  PROVE  IInv'
<1>1. TableOK'
  BY DEF IInv, TableOK, Begin
<1>2. CASE table.cap = 0
  <2>1. Used(table) = 0
    BY <1>2, LiveBound DEF IInv, TableOK
  <2>2. ~HasKey(table, c.key)
    BY <2>1 DEF HasKey
  <2>3. pc' = "absent" /\ call' = c /\ table' = table
    BY <1>2 DEF Begin
  <2> QED BY <1>1, <2>2, <2>3 DEF IInv, CallOK, ProbeOK, PlaceOK, RehomeOK
<1>3. CASE table.cap # 0
  <2>1. pc' = "find" /\ call' = c /\ table' = table /\ slot' = Home(table, c.key)
    BY <1>3 DEF Begin
  <2>2. /\ Home(table, c.key) \in DOMAIN table.index
        /\ Reaches(table, c.key, Home(table, c.key))
        /\ NotPassed(table, c.key, Home(table, c.key))
    BY <1>3, AtHome DEF IInv, TableOK
  <2> QED BY <1>1, <1>3, <2>1, <2>2 DEF IInv, CallOK, ProbeOK, PlaceOK, RehomeOK
<1> QED BY <1>2, <1>3

LEMMA FindKeeps ==
  ASSUME IInv, Probe \/ FindEnds
  PROVE  IInv'
<1>1. /\ pc = "find" /\ call.key \in Keys /\ Good(table) /\ table.cap # 0
      /\ slot \in DOMAIN table.index
      /\ Reaches(table, call.key, slot) /\ NotPassed(table, call.key, slot)
  BY DEF IInv, TableOK, CallOK, ProbeOK, Probe, FindEnds
<1>2. TableOK' /\ table' = table /\ call' = call
  BY DEF IInv, TableOK, Probe, FindEnds
<1>3. CASE Probe
  <2>1. /\ After(table, slot) \in DOMAIN table.index
        /\ Reaches(table, call.key, After(table, slot))
        /\ NotPassed(table, call.key, After(table, slot))
    BY <1>1, <1>3, Advance DEF Probe, Good, WellFormed
  <2> QED BY <1>1, <1>2, <1>3, <2>1 DEF Probe, IInv, CallOK, ProbeOK, PlaceOK, RehomeOK
<1>4. CASE FindEnds /\ table.index[slot] = Empty /\ pc' = "absent"
  <2>1. ~HasKey(table, call.key)
    BY <1>1, <1>4, NotFound DEF Good
  <2> QED BY <1>1, <1>2, <1>4, <2>1 DEF FindEnds, IInv, CallOK, ProbeOK, PlaceOK, RehomeOK
<1>5. CASE FindEnds /\ RefersTo(table, slot, call.key) /\ pc' = "present"
  BY <1>1, <1>2, <1>5 DEF FindEnds, IInv, CallOK, ProbeOK, PlaceOK, RehomeOK
<1> QED BY <1>3, <1>4, <1>5 DEF FindEnds

LEMMA AnswersKeep ==
  ASSUME IInv, GetEnds \/ Overwrite \/ RemoveEnds
  PROVE  IInv'
<1>1. Good(table) /\ len = Cardinality(LiveSet(table))
  BY DEF IInv, TableOK
<1>2. ASSUME pc = "present"
      PROVE  slot \in DOMAIN table.index /\ table.index[slot] \in 1..Used(table)
  <2>1. slot \in DOMAIN table.index /\ RefersTo(table, slot, call.key)
    BY <1>2 DEF IInv, ProbeOK
  <2>2. table.index[slot] \in {Empty, Tomb} \cup 1..Used(table)
    BY <1>1, <2>1 DEF Good, WellFormed, Refers
  <2> QED BY <2>1, <2>2 DEF RefersTo
<1>3. CASE GetEnds
  <2>1. TableOK' /\ \E r : Return(r)
    BY <1>3 DEF IInv, TableOK, GetEnds
  <2> QED BY <2>1, Returned
<1>4. CASE Overwrite
  <2>1. call.value \in Values /\ pc = "present"
    BY <1>4 DEF IInv, CallOK, Overwrite
  <2>2. table' = Overwritten(table, table.index[slot], call.value) /\ len' = len
    BY <1>4 DEF Overwrite
  <2>3. Good(table') /\ LiveSet(table') = LiveSet(table)
    BY <1>1, <1>2, <2>1, <2>2, OverwrittenIsGood
  <2>4. TableOK' /\ \E r : Return(r)
    BY <1>1, <1>4, <2>2, <2>3 DEF TableOK, Overwrite
  <2> QED BY <2>4, Returned
<1>5. CASE RemoveEnds /\ pc = "absent"
  <2>1. TableOK' /\ \E r : Return(r)
    BY <1>5 DEF IInv, TableOK, RemoveEnds
  <2> QED BY <2>1, Returned
<1>6. CASE RemoveEnds /\ pc = "present"
  <2>1. table' = Removed(table, slot) /\ len' = len - 1 /\ \E r : Return(r)
    BY <1>6 DEF RemoveEnds
  <2>2. /\ Good(table') /\ table.index[slot] \in LiveSet(table)
        /\ LiveSet(table') = LiveSet(table) \ {table.index[slot]}
    BY <1>1, <1>2, <1>6, <2>1, RemovedIsGood
  <2>3. IsFiniteSet(LiveSet(table))
    BY <1>1, TakenFinite DEF Good, WellFormed
  <2>4. Cardinality(LiveSet(table')) = Cardinality(LiveSet(table)) - 1
    BY <2>2, <2>3, FS_RemoveElement
  <2>5. TableOK'
    BY <1>1, <2>1, <2>2, <2>4 DEF TableOK
  <2> QED BY <2>1, <2>5, Returned
<1> QED BY <1>3, <1>4, <1>5, <1>6 DEF RemoveEnds

(* The entries before a number, when it moves on.                          *)
LEMMA BeforeMoves ==
  ASSUME Good(table), NEW n \in 1..Used(table)
  PROVE  /\ IsFiniteSet(Before(table, n)) /\ Cardinality(Before(table, n)) \in Nat
         /\ ~table.live[n] => Before(table, n + 1) = Before(table, n)
         /\ table.live[n] =>
              /\ n \in LiveSet(table) /\ n \notin Before(table, n)
              /\ Before(table, n + 1) = Before(table, n) \cup {n}
              /\ Cardinality(Before(table, n + 1)) = Cardinality(Before(table, n)) + 1
<1>1. IsFiniteSet(LiveSet(table)) /\ Used(table) \in Nat
  BY TakenFinite, LiveBound DEF Good, WellFormed
<1>2. IsFiniteSet(Before(table, n)) /\ Cardinality(Before(table, n)) \in Nat
  <2>1. Before(table, n) \in SUBSET LiveSet(table)
    BY DEF Before
  <2> QED BY <1>1, <2>1, FS_Subset, FS_CardinalityType
<1>3. \A i \in 1..Used(table) : i < n + 1 <=> i < n \/ i = n
  BY <1>1
<1>4. CASE ~table.live[n]
  <2>1. Before(table, n + 1) = Before(table, n)
    BY <1>1, <1>3, <1>4 DEF Before, LiveSet
  <2> QED BY <1>2, <1>4, <2>1
<1>5. CASE table.live[n]
  <2>1. n \in LiveSet(table) /\ n \notin Before(table, n)
    BY <1>1, <1>5 DEF Before, LiveSet
  <2>2. Before(table, n + 1) = Before(table, n) \cup {n}
    BY <1>1, <1>3, <1>5, <2>1 DEF Before, LiveSet
  <2> QED BY <1>2, <1>5, <2>1, <2>2, FS_AddElement
<1> QED BY <1>4, <1>5

LEMMA StartAppendKeeps ==
  ASSUME IInv, StartAppend
  PROVE  IInv'
<1>1. /\ pc = "absent" /\ call.op = "insert" /\ call.key \in Keys /\ Good(table)
      /\ len = Cardinality(LiveSet(table)) /\ ~HasKey(table, call.key)
      /\ table' = table /\ len' = len /\ call' = call
  BY DEF IInv, TableOK, CallOK, ProbeOK, StartAppend
<1>2. TableOK' /\ CallOK' /\ ProbeOK'
  BY <1>1 DEF StartAppend, IInv, TableOK, CallOK, ProbeOK
<1>3. CASE Used(table) = table.cap
  <2>1. pc' = "rehome" /\ fresh' = Block(NewCap) /\ next' = 1
    BY <1>3 DEF StartAppend
  <2>2. NewCap \in Nat /\ len < NewCap
    BY <1>1, <1>3, LiveBound, MapAssumption DEF NewCap
  <2>3. Good(fresh') /\ Used(fresh') = 0 /\ fresh'.cap = NewCap /\ LiveSet(fresh') = {}
    BY <2>1, <2>2, EmptyBlock
  <2>4. Before(table, 1) = {}
    BY LiveBound, <1>1 DEF Before, LiveSet
  <2>5. Before(table', next') = {}
    BY <1>1, <2>1, <2>4 DEF Before
  <2>6. LiveSet(fresh') = 1..Used(fresh')
    BY <2>3
  <2>7. next' \in 1..(Used(table) + 1)
    BY <1>1, <2>1, LiveBound
  <2>8. RehomeOK'
    BY <1>1, <2>1, <2>2, <2>3, <2>5, <2>6, <2>7, FS_EmptySet DEF RehomeOK
  <2> QED BY <1>1, <1>2, <2>1, <2>8 DEF IInv, PlaceOK
<1>4. CASE Used(table) # table.cap
  <2>1. pc' = "place" /\ slot' = Home(table, call.key)
    BY <1>4 DEF StartAppend
  <2>2. Used(table) < table.cap /\ table.cap # 0
    BY <1>1, <1>4, LiveBound
  <2>3. slot' \in DOMAIN table.index /\ Reaches(table, call.key, slot')
    BY <1>1, <2>1, <2>2, AtHome
  <2> QED BY <1>1, <1>2, <2>1, <2>2, <2>3 DEF IInv, PlaceOK, RehomeOK
<1> QED BY <1>3, <1>4

LEMMA PlaceProbeKeeps ==
  ASSUME IInv, PlaceProbe
  PROVE  IInv'
<1>1. Good(table) /\ call.key \in Keys
  BY DEF IInv, TableOK, CallOK, PlaceProbe
<1>2. /\ table' = table /\ len' = len /\ call' = call /\ pc' = pc /\ fresh' = fresh
      /\ next' = next
  BY DEF PlaceProbe
<1>3. TableOK' /\ CallOK'
  BY <1>2 DEF IInv, TableOK, CallOK
<1>4. CASE pc = "place"
  <2>1. /\ table.cap # 0 /\ slot \in DOMAIN table.index /\ Reaches(table, call.key, slot)
        /\ table.index[slot] # Empty /\ slot' = After(table, slot)
    BY <1>4 DEF IInv, PlaceOK, PlaceProbe
  <2>2. slot' \in DOMAIN table.index /\ Reaches(table, call.key, slot')
    BY <1>1, <2>1, Advance DEF Good, WellFormed
  <2> QED BY <1>2, <1>3, <1>4, <2>2 DEF IInv, ProbeOK, PlaceOK, RehomeOK
<1>5. CASE pc = "pack"
  <2>1. /\ Good(fresh) /\ len < fresh.cap /\ next \in LiveSet(table)
        /\ slot \in DOMAIN fresh.index
        /\ Reaches(fresh, table.entries[next].key, slot)
        /\ fresh.index[slot] # Empty /\ slot' = After(fresh, slot)
    BY <1>5 DEF IInv, RehomeOK, PlaceProbe
  <2>2. fresh.cap # 0
    BY <1>1, <2>1, LiveBound DEF IInv, TableOK
  <2>3. table.entries[next].key \in Keys
    <3>1. table.entries \in Seq(Entry) /\ next \in 1..Len(table.entries)
      BY <1>1, <2>1 DEF Good, Typed, LiveSet, Used
    <3>2. table.entries[next] \in Entry
      BY <3>1
    <3> QED BY <3>2 DEF Entry
  <2>4. slot' \in DOMAIN fresh.index /\ Reaches(fresh, table.entries[next].key, slot')
    BY <2>1, <2>2, <2>3, Advance DEF Good, WellFormed
  <2>5. RehomeOK'
    BY <1>2, <1>5, <2>4 DEF IInv, RehomeOK, Before
  <2> QED BY <1>2, <1>3, <1>5, <2>5 DEF IInv, ProbeOK, PlaceOK
<1> QED BY <1>4, <1>5 DEF PlaceProbe

LEMMA AppendEndsKeeps ==
  ASSUME IInv, AppendEnds
  PROVE  IInv'
<1> DEFINE e == [key |-> call.key, value |-> call.value]
<1>1. /\ Good(table) /\ len = Cardinality(LiveSet(table)) /\ table.cap # 0
      /\ Used(table) < table.cap /\ ~HasKey(table, call.key)
      /\ slot \in DOMAIN table.index /\ Reaches(table, call.key, slot)
      /\ table.index[slot] = Empty
      /\ call.key \in Keys /\ call.value \in Values
  BY DEF IInv, TableOK, CallOK, ProbeOK, PlaceOK, AppendEnds
<1>2. e \in Entry /\ e.key = call.key
  BY <1>1 DEF Entry
<1>3. table' = Placed(table, slot, e) /\ len' = len + 1 /\ \E r : Return(r)
  BY DEF AppendEnds
<1> HIDE DEF e
<1>4. Good(table') /\ LiveSet(table') = LiveSet(table) \cup {Used(table) + 1}
  BY <1>1, <1>2, <1>3, PlacedIsGood
<1>5. Used(table) + 1 \notin LiveSet(table) /\ IsFiniteSet(LiveSet(table))
  BY <1>1, LiveBound, TakenFinite DEF LiveSet, Good, WellFormed
<1>6. Cardinality(LiveSet(table')) = Cardinality(LiveSet(table)) + 1
  BY <1>4, <1>5, FS_AddElement
<1>7. TableOK'
  BY <1>1, <1>3, <1>4, <1>6 DEF TableOK
<1> QED BY <1>3, <1>7, Returned

LEMMA SkipHoleKeeps ==
  ASSUME IInv, SkipHole
  PROVE  IInv'
<1>1. /\ table' = table /\ len' = len /\ call' = call /\ pc' = pc /\ pc = "rehome"
      /\ fresh' = fresh /\ next' = next + 1 /\ slot' = slot
      /\ next <= Used(table) /\ ~table.live[next]
  BY DEF SkipHole
<1>2. Good(table) /\ next \in 1..(Used(table) + 1) /\ Used(table) \in Nat
  BY <1>1, LiveBound DEF IInv, TableOK, RehomeOK
<1>3. next \in 1..Used(table) /\ next + 1 \in 1..(Used(table) + 1)
  BY <1>1, <1>2
<1>4. Before(table, next + 1) = Before(table, next)
  BY <1>1, <1>2, <1>3, BeforeMoves
<1>5. Before(table', next') = Before(table, next)
  BY <1>1, <1>4 DEF Before
<1>6. RehomeOK'
  BY <1>1, <1>3, <1>5 DEF IInv, RehomeOK
<1> QED BY <1>1, <1>6 DEF IInv, TableOK, CallOK, ProbeOK, PlaceOK

LEMMA PackKeeps ==
  ASSUME IInv, Pack
  PROVE  IInv'
<1>1. /\ table' = table /\ len' = len /\ call' = call /\ pc' = "pack" /\ pc = "rehome"
      /\ fresh' = fresh /\ next' = next /\ slot' = Home(fresh, table.entries[next].key)
      /\ next <= Used(table) /\ table.live[next]
  BY DEF Pack
<1>2. /\ Good(table) /\ next \in 1..(Used(table) + 1) /\ Used(table) \in Nat
      /\ Good(fresh) /\ len < fresh.cap /\ len = Cardinality(LiveSet(table))
  BY <1>1, LiveBound DEF IInv, TableOK, RehomeOK
<1>3. next \in 1..Used(table) /\ next \in LiveSet(table)
  BY <1>1, <1>2 DEF LiveSet
<1>4. table.entries[next].key \in Keys
  <2>1. table.entries \in Seq(Entry) /\ next \in 1..Len(table.entries)
    BY <1>2, <1>3 DEF Good, Typed, Used
  <2>2. table.entries[next] \in Entry
    BY <2>1
  <2> QED BY <2>2 DEF Entry
<1>5. fresh.cap # 0
  BY <1>2, LiveBound
<1>6. slot' \in DOMAIN fresh.index /\ Reaches(fresh, table.entries[next].key, slot')
  BY <1>1, <1>2, <1>4, <1>5, AtHome
<1>7. RehomeOK'
  BY <1>1, <1>3, <1>6 DEF IInv, RehomeOK, Before
<1> QED BY <1>1, <1>7 DEF IInv, TableOK, CallOK, ProbeOK, PlaceOK

LEMMA PackEndsKeeps ==
  ASSUME IInv, PackEnds
  PROVE  IInv'
<1> DEFINE e == table.entries[next]
           m == Used(fresh)
<1>1. /\ table' = table /\ len' = len /\ call' = call /\ pc' = "rehome" /\ pc = "pack"
      /\ fresh' = Placed(fresh, slot, e) /\ next' = next + 1
      /\ fresh.index[slot] = Empty
  BY DEF PackEnds
<1>2. /\ Good(table) /\ Good(fresh) /\ len < fresh.cap
      /\ len = Cardinality(LiveSet(table)) /\ next \in LiveSet(table)
      /\ LiveSet(fresh) = 1..m /\ m = Cardinality(Before(table, next))
      /\ slot \in DOMAIN fresh.index /\ Reaches(fresh, e.key, slot)
      /\ \A i \in 1..m :
           \E j \in Before(table, next) :
             Rank(LiveSet(table), j) = i /\ table.entries[j] = fresh.entries[i]
  BY <1>1 DEF IInv, TableOK, RehomeOK
<1>3. next \in 1..Used(table) /\ table.live[next] /\ Used(table) \in Nat /\ m \in Nat
      /\ fresh.cap \in Nat
  BY <1>2, LiveBound DEF LiveSet
<1>4. e \in Entry
  <2>1. table.entries \in Seq(Entry) /\ next \in 1..Len(table.entries)
    BY <1>2, <1>3 DEF Good, Typed, Used
  <2> QED BY <2>1
<1>5. ~HasKey(fresh, e.key)
  <2> SUFFICES ASSUME NEW i \in 1..m, fresh.entries[i].key = e.key PROVE FALSE
    BY DEF HasKey
  <2>1. PICK j \in Before(table, next) : table.entries[j] = fresh.entries[i]
    BY <1>2
  <2>2. j \in 1..Used(table) /\ table.live[j] /\ j < next
    BY <2>1 DEF Before, LiveSet
  <2>3. table.entries[j].key = table.entries[next].key
    BY <2>1
  <2>4. KeysDiffer(table)
    BY <1>2 DEF Good, WellFormed
  <2>5. j = next
    BY ONLY <1>3, <2>2, <2>3, <2>4 DEF KeysDiffer
  <2> QED BY <1>3, <2>2, <2>5
<1>6. m < fresh.cap /\ fresh.cap # 0
  <2>1. IsFiniteSet(LiveSet(table)) /\ Cardinality(LiveSet(table)) \in Nat
    BY <1>2, TakenFinite DEF Good, WellFormed
  <2>2. Before(table, next) \in SUBSET LiveSet(table)
    BY DEF Before
  <2>3. Cardinality(Before(table, next)) <= Cardinality(LiveSet(table))
    BY <2>1, <2>2, FS_Subset
  <2> QED BY <1>2, <1>3, <2>1, <2>3
<1> HIDE DEF e
<1>7. /\ Good(fresh') /\ Used(fresh') = m + 1 /\ fresh'.cap = fresh.cap
      /\ LiveSet(fresh') = LiveSet(fresh) \cup {m + 1}
      /\ \A i \in 1..m : fresh'.entries[i] = fresh.entries[i]
      /\ fresh'.entries[m + 1] = e
  <2> DEFINE p == Placed(fresh, slot, e)
  <2>1. /\ Good(fresh) /\ fresh.cap # 0 /\ Used(fresh) < fresh.cap
        /\ e \in Entry /\ ~HasKey(fresh, e.key)
        /\ slot \in DOMAIN fresh.index /\ fresh.index[slot] = Empty
        /\ Reaches(fresh, e.key, slot)
    BY <1>1, <1>2, <1>4, <1>5, <1>6
  <2> HIDE DEF m, p
  <2>2. /\ Good(p) /\ Used(p) = Used(fresh) + 1 /\ p.cap = fresh.cap
        /\ LiveSet(p) = LiveSet(fresh) \cup {Used(fresh) + 1}
        /\ \A i \in 1..Used(fresh) : p.entries[i] = fresh.entries[i]
        /\ p.entries[Used(fresh) + 1] = e
    BY <2>1, PlacedIsGood DEF p
  <2>3. fresh' = p
    BY <1>1 DEF p
  <2> QED BY <2>2, <2>3 DEF m
<1> HIDE DEF m
<1>8. LiveSet(fresh') = 1..(m + 1)
  <2>1. LiveSet(fresh') = (1..m) \cup {m + 1}
    BY <1>2, <1>7
  <2> QED BY <1>3, <2>1
<1>9. /\ Before(table, next + 1) = Before(table, next) \cup {next}
      /\ Cardinality(Before(table, next + 1)) = m + 1
  BY <1>2, <1>3, BeforeMoves
<1>10. ASSUME NEW i \in 1..(m + 1)
       PROVE  \E j \in Before(table, next + 1) :
                Rank(LiveSet(table), j) = i /\ table.entries[j] = fresh'.entries[i]
  <2>1. CASE i \in 1..m
    BY <1>2, <1>7, <1>9, <2>1
  <2>2. CASE i = m + 1
    <3>1. {j \in LiveSet(table) : j <= next} = Before(table, next + 1)
      <4>1. \A j \in 1..Used(table) : j <= next <=> j < next + 1
        BY <1>3
      <4> QED BY <4>1 DEF Before, LiveSet
    <3>2. Rank(LiveSet(table), next) = m + 1
      BY <1>9, <3>1 DEF Rank
    <3> QED BY <1>7, <1>9, <2>2, <3>2 DEF e
  <2> QED BY <1>3, <2>1, <2>2
<1>11. next + 1 \in 1..(Used(table) + 1)
  BY <1>3
<1>12. RehomeOK'
  BY <1>1, <1>2, <1>7, <1>8, <1>9, <1>10, <1>11 DEF RehomeOK
<1> QED BY <1>1, <1>12 DEF IInv, TableOK, CallOK, ProbeOK, PlaceOK

LEMMA RehomeEndsKeeps ==
  ASSUME IInv, RehomeEnds
  PROVE  IInv'
<1>1. /\ table' = fresh /\ len' = len /\ call' = call /\ pc' = "place" /\ pc = "rehome"
      /\ slot' = Home(fresh, call.key) /\ next > Used(table)
  BY DEF RehomeEnds
<1>2. /\ Good(table) /\ Good(fresh) /\ len < fresh.cap
      /\ len = Cardinality(LiveSet(table)) /\ next \in 1..(Used(table) + 1)
      /\ LiveSet(fresh) = 1..Used(fresh) /\ Used(fresh) = Cardinality(Before(table, next))
      /\ ~HasKey(table, call.key) /\ call.key \in Keys /\ call.op = "insert"
      /\ \A i \in 1..Used(fresh) :
           \E j \in Before(table, next) : table.entries[j] = fresh.entries[i]
  BY <1>1 DEF IInv, TableOK, CallOK, ProbeOK, PlaceOK, RehomeOK
<1>3. Used(table) \in Nat /\ Used(fresh) \in Nat /\ fresh.cap \in Nat
  BY <1>2, LiveBound
<1>4. Before(table, next) = LiveSet(table)
  <2>1. \A i \in 1..Used(table) : i < next
    BY <1>1, <1>2, <1>3
  <2> QED BY <2>1 DEF Before, LiveSet
<1>5. Cardinality(LiveSet(fresh)) = Used(fresh) /\ Used(fresh) = len
  BY <1>2, <1>3, <1>4, FS_Interval
<1>6. ~HasKey(fresh, call.key)
  <2> SUFFICES ASSUME NEW i \in 1..Used(fresh), fresh.entries[i].key = call.key
               PROVE  FALSE
    BY DEF HasKey
  <2>1. PICK j \in LiveSet(table) : table.entries[j] = fresh.entries[i]
    BY <1>2, <1>4
  <2> QED BY <1>2, <2>1 DEF HasKey, LiveSet
<1>7. fresh.cap # 0 /\ Used(fresh) < fresh.cap
  BY <1>2, <1>3, <1>5
<1>8. slot' \in DOMAIN fresh.index /\ Reaches(fresh, call.key, slot')
  BY <1>1, <1>2, <1>7, AtHome
<1>9. TableOK' /\ CallOK'
  BY <1>1, <1>2, <1>5 DEF IInv, TableOK, CallOK
<1> QED BY <1>1, <1>2, <1>6, <1>7, <1>8, <1>9 DEF IInv, ProbeOK, PlaceOK, RehomeOK

LEMMA IdleCallsKeep ==
  ASSUME IInv, KeysOf \/ LenOf \/ MapEmpty
  PROVE  IInv'
<1>1. CASE KeysOf \/ LenOf
  <2>1. TableOK' /\ \E r : Return(r)
    BY <1>1 DEF IInv, TableOK, KeysOf, LenOf
  <2> QED BY <2>1, Returned
<1>2. CASE MapEmpty
  <2>1. table' = Block(0) /\ len' = 0 /\ Return(Nothing)
    BY <1>2 DEF MapEmpty
  <2>2. Good(table') /\ LiveSet(table') = {}
    BY <2>1, EmptyBlock
  <2>3. TableOK'
    BY <2>1, <2>2, FS_EmptySet DEF TableOK
  <2> QED BY <2>1, <2>3, Returned
<1> QED BY <1>1, <1>2

-----------------------------------------------------------------------------
LEMMA InitOK == Init => IInv
<1> SUFFICES ASSUME Init PROVE IInv
  OBVIOUS
<1>1. table = Block(0) /\ len = 0 /\ pc = "idle"
  BY DEF Init
<1>2. TableOK
  BY <1>1, EmptyBlock, FS_EmptySet DEF TableOK
<1> QED BY <1>1, <1>2 DEF IInv, CallOK, ProbeOK, PlaceOK, RehomeOK

LEMMA NextKeeps == IInv /\ [Next]_vars => IInv'
<1> SUFFICES ASSUME IInv, [Next]_vars PROVE IInv'
  OBVIOUS
<1>1. ASSUME NEW k \in Keys, Get(k) \/ Remove(k) PROVE IInv'
  <2>1. PICK c \in {[op |-> "get", key |-> k], [op |-> "remove", key |-> k]} : Begin(c)
    BY <1>1 DEF Get, Remove
  <2>2. c.key \in Keys /\ c.op # "insert"
    OBVIOUS
  <2> QED BY <2>1, <2>2, BeginKeeps
<1>2. ASSUME NEW k \in Keys, NEW v \in Values, Insert(k, v) PROVE IInv'
  <2> DEFINE c == [op |-> "insert", key |-> k, value |-> v]
  <2>1. Begin(c) /\ c.key \in Keys /\ c.value \in Values
    BY <1>2 DEF Insert
  <2> HIDE DEF c
  <2> QED BY <2>1, BeginKeeps
<1>3. CASE Calls
  BY <1>1, <1>2, <1>3, IdleCallsKeep DEF Calls
<1>4. CASE Probe \/ FindEnds
  BY <1>4, FindKeeps
<1>5. CASE GetEnds \/ Overwrite \/ RemoveEnds
  BY <1>5, AnswersKeep
<1>6. CASE StartAppend \/ PlaceProbe \/ AppendEnds
  BY <1>6, StartAppendKeeps, PlaceProbeKeeps, AppendEndsKeeps
<1>7. CASE SkipHole \/ Pack \/ PackEnds \/ RehomeEnds
  BY <1>7, SkipHoleKeeps, PackKeeps, PackEndsKeeps, RehomeEndsKeeps
<1>8. CASE UNCHANGED vars
  BY <1>8 DEF vars, IInv, TableOK, CallOK, ProbeOK, PlaceOK, RehomeOK
<1> QED BY <1>3, <1>4, <1>5, <1>6, <1>7, <1>8 DEF Next, Steps

(* Between two steps of any calls, whatever they were, the table, the      *)
(* probe that is under way and the block that is being built are as the    *)
(* C code takes them to be.                                                *)
THEOREM MapInvariant == Spec => []IInv
<1> QED BY InitOK, NextKeeps, PTL DEF Spec

(* The index of a map refers to each live entry once, from a slot its key  *)
(* reaches; every block with room has an empty slot, so that probes end;   *)
(* and the length in the header is the number of live entries.             *)
THEOREM MapIsWellFormed == Spec => []TableWellFormed
<1>1. IInv => TableWellFormed
  BY DEF IInv, TableOK, Good, TableWellFormed
<1> QED BY <1>1, MapInvariant, PTL

(* The entry that a find ended at.                                         *)
LEMMA FoundEntry ==
  ASSUME IInv, pc = "present"
  PROVE  /\ slot \in DOMAIN table.index /\ RefersTo(table, slot, call.key)
         /\ table.index[slot] \in LiveSet(table)
         /\ table.entries[table.index[slot]].key = call.key
<1>1. Good(table) /\ slot \in DOMAIN table.index /\ RefersTo(table, slot, call.key)
  BY DEF IInv, TableOK, ProbeOK
<1>2. table.index[slot] \in {Empty, Tomb} \cup 1..Used(table)
  BY <1>1 DEF Good, WellFormed, Refers
<1>3. table.index[slot] \in 1..Used(table) /\ table.index[slot] > 0
  BY <1>1, <1>2, LiveBound DEF RefersTo
<1> QED BY <1>1, <1>3 DEF Good, WellFormed, Refers, RefersTo, EntryAt, LiveSet

(* A call finds the live entry of its key, and misses it only if the map   *)
(* has none, for all the tombstones and rehomes before it.                 *)
THEOREM MapFindsAreRight == Spec => []FindsAreRight
<1>1. ASSUME IInv PROVE FindsAreRight
  <2>1. pc = "present" => RefersTo(table, slot, call.key) /\ table.live[table.index[slot]]
    BY <1>1, FoundEntry DEF LiveSet
  <2> QED BY <1>1, <2>1 DEF IInv, ProbeOK, FindsAreRight, HasKey
<1> QED BY <1>1, MapInvariant, PTL

-----------------------------------------------------------------------------
(* The steps, as the association list sees them.                           *)
LEMMA Unseen ==
  ASSUME UNCHANGED <<table, reply>>
  PROVE  UNCHANGED Map!vars
BY DEF Map!vars

LEMMA CallsUnseen ==
  ASSUME NEW c, Begin(c)
  PROVE  Map!UseAnswer
BY DEF Begin, Map!UseAnswer, Nothing, Map!Nothing

LEMMA GetSeen ==
  ASSUME IInv, GetEnds
  PROVE  Map!MapGet(call.key)
<1>1. Good(table) /\ table' = table
  BY DEF IInv, TableOK, GetEnds
<1>2. CASE pc = "absent"
  <2>1. ~HasKey(table, call.key) /\ reply' = Answer("get", call.key, None)
    BY <1>2 DEF IInv, ProbeOK, GetEnds, Return
  <2>2. Map!Lookup(call.key) = None
    BY <1>1, <2>1, Absent
  <2> QED BY <1>1, <2>1, <2>2 DEF Map!MapGet, Answer, Map!Answer
<1>3. CASE pc = "present"
  <2> DEFINE i == table.index[slot]
  <2>1. /\ i \in LiveSet(table) /\ table.entries[i].key = call.key
        /\ reply' = Answer("get", call.key, Some(table.entries[i].value))
    BY <1>3, FoundEntry DEF GetEnds, Return, EntryAt
  <2> HIDE DEF i
  <2>2. Map!Lookup(call.key) = Some(table.entries[i].value)
    BY <1>1, <2>1, Found
  <2> QED BY <1>1, <2>1, <2>2 DEF Map!MapGet, Answer, Map!Answer
<1> QED BY <1>2, <1>3 DEF GetEnds

LEMMA OverwriteSeen ==
  ASSUME IInv, Overwrite
  PROVE  call.value \in Values /\ Map!MapInsert(call.key, call.value)
<1> DEFINE i == table.index[slot]
           r == Rank(LiveSet(table), i)
<1>1. /\ Good(table) /\ pc = "present" /\ call.value \in Values
      /\ table' = Overwritten(table, i, call.value)
  BY DEF IInv, TableOK, CallOK, Overwrite
<1>2. /\ i \in LiveSet(table) /\ table.entries[i].key = call.key
      /\ reply' = Answer("insert", call.key, Some(table.entries[i].value))
  BY <1>1, FoundEntry DEF Overwrite, Return, EntryAt
<1> HIDE DEF i
<1>3. Packed(table') = [Packed(table) EXCEPT ![r].value = call.value]
  BY <1>1, <1>2, PackedOverwritten
<1>4. /\ Map!Positions(call.key) # {} /\ Map!First(call.key) = r
      /\ Map!Lookup(call.key) = Some(table.entries[i].value)
  BY <1>1, <1>2, Found
<1> HIDE DEF r
<1>5. Packed(table)' = [Packed(table) EXCEPT ![Map!First(call.key)].value = call.value]
  BY <1>3, <1>4
<1> QED BY <1>1, <1>2, <1>4, <1>5 DEF Map!MapInsert, Answer, Map!Answer

LEMMA RemoveSeen ==
  ASSUME IInv, RemoveEnds
  PROVE  Map!MapRemove(call.key)
<1>1. Good(table)
  BY DEF IInv, TableOK
<1>2. CASE pc = "absent"
  <2>1. ~HasKey(table, call.key) /\ reply' = Answer("remove", call.key, None) /\ table' = table
    BY <1>2 DEF IInv, ProbeOK, RemoveEnds, Return
  <2>2. Map!Positions(call.key) = {} /\ Map!Lookup(call.key) = None
    BY <1>1, <2>1, Absent
  <2> QED BY <2>1, <2>2 DEF Map!MapRemove, Answer, Map!Answer
<1>3. CASE pc = "present"
  <2> DEFINE i == table.index[slot]
             r == Rank(LiveSet(table), i)
  <2>1. /\ i \in LiveSet(table) /\ table.entries[i].key = call.key
        /\ slot \in DOMAIN table.index
        /\ reply' = Answer("remove", call.key, Some(table.entries[i].value))
        /\ table' = Removed(table, slot)
    BY <1>3, FoundEntry DEF RemoveEnds, Return, EntryAt
  <2>2. Packed(table') = Map!RemoveAt(Packed(table), r)
    BY <1>1, <2>1, PackedRemoved DEF LiveSet
  <2> HIDE DEF i
  <2>3. /\ Map!Positions(call.key) # {} /\ Map!First(call.key) = r
        /\ Map!Lookup(call.key) = Some(table.entries[i].value)
    BY <1>1, <2>1, Found
  <2> HIDE DEF r
  <2>4. Packed(table)' = Map!RemoveAt(Packed(table), Map!First(call.key))
    BY <2>2, <2>3
  <2> QED BY <2>1, <2>3, <2>4 DEF Map!MapRemove, Answer, Map!Answer
<1> QED BY <1>2, <1>3 DEF RemoveEnds

LEMMA AppendSeen ==
  ASSUME IInv, AppendEnds
  PROVE  call.value \in Values /\ Map!MapInsert(call.key, call.value)
<1> DEFINE e == [key |-> call.key, value |-> call.value]
<1>1. /\ Good(table) /\ table.cap # 0
      /\ Used(table) < table.cap /\ ~HasKey(table, call.key)
      /\ slot \in DOMAIN table.index /\ Reaches(table, call.key, slot)
      /\ table.index[slot] = Empty
      /\ call.key \in Keys /\ call.value \in Values
  BY DEF IInv, TableOK, CallOK, ProbeOK, PlaceOK, AppendEnds
<1>2. e \in Entry /\ e.key = call.key
  BY <1>1 DEF Entry
<1>3. table' = Placed(table, slot, e) /\ reply' = Answer("insert", call.key, None)
  BY DEF AppendEnds, Return
<1>4. Map!Positions(call.key) = {} /\ Map!Lookup(call.key) = None
  BY <1>1, Absent
<1> HIDE DEF e
<1>5. Packed(table') = Append(Packed(table), e)
  BY <1>1, <1>2, <1>3, PackedPlaced
<1>6. Packed(table)' = Append(Packed(table), [key |-> call.key, value |-> call.value])
  BY <1>5 DEF e
<1> QED BY <1>1, <1>3, <1>4, <1>6 DEF Map!MapInsert, Answer, Map!Answer

(* The block that is put in the old one's place lists the same.            *)
LEMMA RehomeUnseen ==
  ASSUME IInv, RehomeEnds
  PROVE  UNCHANGED Map!vars
<1> DEFINE L == LiveSet(table)
           m == Used(fresh)
<1>1. /\ table' = fresh /\ reply' = reply /\ pc = "rehome" /\ next > Used(table)
  BY DEF RehomeEnds
<1>2. /\ Good(table) /\ Good(fresh) /\ next \in 1..(Used(table) + 1)
      /\ LiveSet(fresh) = 1..m /\ m = Cardinality(Before(table, next))
      /\ \A i \in 1..m :
           \E j \in Before(table, next) : Rank(L, j) = i /\ table.entries[j] = fresh.entries[i]
  BY <1>1 DEF IInv, TableOK, RehomeOK
<1>3. Used(table) \in Nat /\ m \in Nat
  BY <1>2, LiveBound
<1>4. Before(table, next) = L
  <2>1. \A i \in 1..Used(table) : i < next
    BY <1>1, <1>2, <1>3
  <2> QED BY <2>1 DEF Before, LiveSet
<1>5. /\ Lists(Packed(table), m)
      /\ \A j \in L : Packed(table)[Rank(L, j)] = table.entries[j]
  BY <1>2, <1>4, PackedIs
<1> HIDE DEF L, m
<1>6. Cardinality(1..m) = m
  BY <1>3, FS_Interval
<1>7. /\ Lists(Packed(fresh), m)
      /\ \A i \in 1..m : Packed(fresh)[Rank(1..m, i)] = fresh.entries[i]
  BY <1>2, <1>6, PackedIs
<1>8. ASSUME NEW i \in 1..m PROVE Packed(fresh)[i] = Packed(table)[i]
  <2>1. Packed(fresh)[i] = fresh.entries[i]
    BY <1>3, <1>7, RankInterval
  <2>2. PICK j \in L : Rank(L, j) = i /\ table.entries[j] = fresh.entries[i]
    BY <1>2, <1>4
  <2> QED BY <1>5, <2>1, <2>2
<1>9. Packed(fresh) = Packed(table)
  BY <1>5, <1>7, <1>8, Zenon DEF Lists
<1> QED BY <1>1, <1>9 DEF Map!vars

LEMMA IdleCallsSeen ==
  ASSUME IInv, KeysOf \/ LenOf \/ MapEmpty
  PROVE  Map!MapKeys \/ Map!MapLen \/ Map!MapEmpty
<1>1. CASE KeysOf
  BY <1>1 DEF KeysOf, Return, Map!MapKeys
<1>2. CASE LenOf
  <2>1. Good(table) /\ len = Cardinality(LiveSet(table))
    BY DEF IInv, TableOK
  <2>2. Len(Packed(table)) = len
    BY <2>1, PackedIs
  <2> QED BY <1>2, <2>2 DEF LenOf, Return, Map!MapLen
<1>3. CASE MapEmpty
  <2>1. table' = Block(0) /\ reply' = Nothing
    BY <1>3 DEF MapEmpty, Return
  <2>2. Packed(Block(0)) = <<>>
    BY NothingPacked
  <2> QED BY <2>1, <2>2 DEF Map!MapEmpty, Nothing, Map!Nothing
<1> QED BY <1>1, <1>2, <1>3

(* The hash table behaves as the interpreter's association list: each call *)
(* answers what the list answers, when it returns, and no probe, rehome or *)
(* compaction on the way can be seen in the keys, values or their order.   *)
THEOREM MapImplementsList == Spec => ImplementsOrderedMap
<1>1. Init => Map!Init
  BY NothingPacked DEF Init, Map!Init, Nothing, Map!Nothing
<1>2. ASSUME IInv, [Next]_vars PROVE [Map!Next]_(Map!vars)
  <2>1. ASSUME NEW k \in Keys, Get(k) \/ Remove(k) \/ \E v \in Values : Insert(k, v)
        PROVE  Map!Next
    <3>1. \E c : Begin(c)
      BY <2>1 DEF Get, Remove, Insert
    <3> QED BY <3>1, CallsUnseen DEF Map!Next
  <2>2. CASE KeysOf \/ LenOf \/ MapEmpty
    BY <1>2, <2>2, IdleCallsSeen DEF Map!Next
  <2>3. CASE Probe \/ FindEnds \/ StartAppend \/ PlaceProbe
    BY <2>3, Unseen DEF Probe, FindEnds, StartAppend, PlaceProbe
  <2>4. CASE SkipHole \/ Pack \/ PackEnds
    BY <2>4, Unseen DEF SkipHole, Pack, PackEnds
  <2>5. CASE GetEnds \/ RemoveEnds
    <3>1. call.key \in Keys
      BY <1>2, <2>5 DEF IInv, CallOK, GetEnds, RemoveEnds
    <3> QED BY <1>2, <2>5, <3>1, GetSeen, RemoveSeen DEF Map!Next
  <2>6. CASE Overwrite \/ AppendEnds
    <3>1. call.key \in Keys
      BY <1>2, <2>6 DEF IInv, CallOK, Overwrite, AppendEnds
    <3>2. call.value \in Values /\ Map!MapInsert(call.key, call.value)
      BY <1>2, <2>6, OverwriteSeen, AppendSeen
    <3> QED BY <3>1, <3>2 DEF Map!Next
  <2>7. CASE RehomeEnds
    BY <1>2, <2>7, RehomeUnseen
  <2>8. CASE UNCHANGED vars
    BY <2>8, Unseen DEF vars
  <2> QED BY <1>2, <2>1, <2>2, <2>3, <2>4, <2>5, <2>6, <2>7, <2>8 DEF Next, Calls, Steps
<1>3. IInv /\ [Next]_vars => [Map!Next]_(Map!vars)
  BY <1>2
<1> QED BY <1>1, <1>3, MapInvariant, PTL DEF Spec, ImplementsOrderedMap, Map!Spec
===============================================================================
