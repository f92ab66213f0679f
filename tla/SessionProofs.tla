----------------------------- MODULE SessionProofs -----------------------------
(***************************************************************************)
(* What the session promises, for all texts and any number of edits and    *)
(* questions: the digests it takes for verified are those of the current   *)
(* program, no query runs for a symbol that is gone, and a selection is    *)
(* the one of this program.                                                *)
(*                                                                         *)
(* The engine cannot give these for every host: this one slices its values *)
(* out of the whole program, so a verified memo is current only where the  *)
(* reads of a query cover its slice.  The invariant says that of each memo *)
(* (MemoOK): the values its dependencies had when it was verified explain  *)
(* its own, and those which have not changed since still have them.        *)
(***************************************************************************)
EXTENDS IncrementalSession, FiniteSetTheorems, TLAPS

-----------------------------------------------------------------------------
(* Sequences of anything.                                                  *)
IsSeq(s) == \E S : s \in Seq(S)

(* A sequence is given by its length and its entries.                      *)
LEMMA SeqIs ==
  ASSUME NEW s, IsSeq(s)
  PROVE  Len(s) \in Nat /\ DOMAIN s = 1..Len(s) /\ (s = <<>> <=> Len(s) = 0)
<1>1. PICK S : s \in Seq(S)
  BY DEF IsSeq
<1> QED BY <1>1

(* The empty sequence is one.                                              *)
LEMMA EmptyIs == IsSeq(<<>>) /\ Len(<<>>) = 0
<1>1. <<>> \in Seq({})
  OBVIOUS
<1> QED BY <1>1 DEF IsSeq

(* A function on 1..n is a sequence.                                       *)
LEMMA FunIs ==
  ASSUME NEW n \in Nat, NEW s, s = [i \in 1..n |-> s[i]]
  PROVE  IsSeq(s) /\ Len(s) = n
<1> DEFINE S == {s[i] : i \in 1..n}
<1>1. s \in [1..n -> S]
  OBVIOUS
<1>2. s \in Seq(S) /\ Len(s) = n
  BY <1>1
<1> QED BY <1>2 DEF IsSeq

(* What a push does.                                                       *)
LEMMA PushIs ==
  ASSUME NEW s, IsSeq(s), NEW e
  PROVE  LET t == Append(s, e) IN
         /\ IsSeq(t) /\ Len(t) = Len(s) + 1
         /\ \A i \in 1..Len(s) : t[i] = s[i]
         /\ t[Len(s) + 1] = e /\ Top(t) = e /\ t # <<>>
<1>1. PICK S : s \in Seq(S)
  BY DEF IsSeq
<1> DEFINE T == S \cup {e}
           t == Append(s, e)
<1>2. s \in Seq(T) /\ e \in T
  BY <1>1
<1> HIDE DEF T
<1>3. t \in Seq(T) /\ Len(t) = Len(s) + 1 /\ Len(s) \in Nat
  BY <1>2
<1>4. /\ \A i \in 1..Len(s) : t[i] = s[i]
      /\ t[Len(s) + 1] = e
  BY <1>2
<1> HIDE DEF t
<1>5. IsSeq(t) /\ t # <<>>
  BY <1>3 DEF IsSeq
<1>6. Top(t) = e
  BY <1>3, <1>4 DEF Top
<1> QED BY <1>3, <1>4, <1>5, <1>6 DEF t

(* What a pop does.                                                        *)
LEMMA PopIs ==
  ASSUME NEW s, IsSeq(s), s # <<>>
  PROVE  LET t == Pop(s) IN
         /\ IsSeq(t) /\ Len(t) = Len(s) - 1
         /\ \A i \in 1..(Len(s) - 1) : t[i] = s[i]
         /\ Len(s) \in Nat \ {0} /\ Top(s) = s[Len(s)]
<1>1. PICK S : s \in Seq(S)
  BY DEF IsSeq
<1>2. Len(s) \in Nat \ {0}
  BY <1>1
<1> DEFINE n == Len(s) - 1
<1>3. n \in Nat /\ n = Len(s) - 1 /\ Pop(s) = SubSeq(s, 1, n)
  BY <1>2 DEF Pop
<1> HIDE DEF n
<1>4. SubSeq(s, 1, n) \in Seq(S)
  BY <1>1, <1>3
<1>5. Len(SubSeq(s, 1, n)) = n
  BY <1>1, <1>3
<1>6. \A i \in 1..n : SubSeq(s, 1, n)[i] = s[i]
  BY <1>1, <1>3
<1>7. IsSeq(Pop(s))
  BY <1>3, <1>4 DEF IsSeq
<1> QED BY <1>2, <1>3, <1>5, <1>6, <1>7 DEF Top

(* Replacing the top is a pop and a push.                                  *)
LEMMA ReplaceIs ==
  ASSUME NEW s, IsSeq(s), s # <<>>, NEW e
  PROVE  ReplaceTop(s, e) = Append(Pop(s), e)
<1>1. PICK S : s \in Seq(S)
  BY DEF IsSeq
<1>2. /\ IsSeq(Pop(s)) /\ Len(Pop(s)) = Len(s) - 1
      /\ \A i \in 1..(Len(s) - 1) : Pop(s)[i] = s[i]
      /\ Len(s) \in Nat \ {0} /\ DOMAIN s = 1..Len(s)
  BY PopIs, SeqIs
<1> DEFINE a == Append(Pop(s), e)
           r == ReplaceTop(s, e)
<1>3. /\ IsSeq(a) /\ Len(a) = Len(s)
      /\ \A i \in 1..(Len(s) - 1) : a[i] = s[i]
      /\ a[Len(s)] = e
  BY <1>2, PushIs
<1>4. DOMAIN a = 1..Len(s)
  BY <1>3, SeqIs
<1>5. /\ DOMAIN r = 1..Len(s) /\ r[Len(s)] = e
      /\ \A i \in 1..(Len(s) - 1) : r[i] = s[i]
  BY <1>2 DEF ReplaceTop
<1>6. /\ r = [i \in 1..Len(s) |-> r[i]] /\ a = [i \in 1..Len(s) |-> a[i]]
  <2>1. r = [i \in DOMAIN r |-> r[i]]
    BY DEF ReplaceTop
  <2>2. PICK S1 : a \in Seq(S1)
    BY <1>3 DEF IsSeq
  <2>3. a = [i \in DOMAIN a |-> a[i]]
    <3> HIDE DEF a
    <3> QED BY <2>2
  <2> QED BY <2>1, <2>3, <1>4, <1>5
<1>7. \A i \in 1..Len(s) : r[i] = a[i]
  <2> HIDE DEF a, r
  <2> QED BY <1>2, <1>3, <1>5
<1> HIDE DEF a, r
<1>8. r = a
  BY <1>6, <1>7
<1> QED BY <1>8 DEF a, r

(* One entry before a sequence.                                            *)
LEMMA ConsIs ==
  ASSUME NEW a, NEW s, IsSeq(s)
  PROVE  LET t == <<a>> \o s IN
         /\ IsSeq(t) /\ Len(t) = Len(s) + 1
         /\ t[1] = a
         /\ \A i \in 1..Len(s) : t[i + 1] = s[i]
<1>1. PICK S : s \in Seq(S)
  BY DEF IsSeq
<1> DEFINE T == S \cup {a}
           t == <<a>> \o s
<1>2. s \in Seq(T) /\ <<a>> \in Seq(T) /\ Len(<<a>>) = 1
  BY <1>1
<1> HIDE DEF T
<1>3. t \in Seq(T) /\ Len(t) = Len(s) + 1 /\ Len(s) \in Nat
  BY <1>2
<1>4. t[1] = a
  BY <1>2, <1>3
<1>5. ASSUME NEW i \in 1..Len(s) PROVE t[i + 1] = s[i]
  BY <1>2, <1>3
<1>6. IsSeq(t)
  BY <1>3 DEF IsSeq
<1> QED BY <1>3, <1>4, <1>5, <1>6
-----------------------------------------------------------------------------
(* Finite sets in an order.                                                *)

(* below[d] are the members of S before d, in a strict total order.        *)
Ordered(S, below) ==
  /\ \A d \in S : below[d] \in SUBSET S /\ d \notin below[d]
  /\ \A d, e \in S :
       d # e => \/ d \in below[e] /\ below[d] \subseteq below[e]
                \/ e \in below[d] /\ below[e] \subseteq below[d]

(* InOrder lists exactly the members of the set.                           *)
LEMMA OrderOnto ==
  ASSUME NEW S, IsFiniteSet(S), NEW below, Ordered(S, below)
  PROVE  LET q == InOrder(S, below) IN
         /\ IsSeq(q) /\ Len(q) = Cardinality(S) /\ Len(q) \in Nat
         /\ \A n \in 1..Len(q) : q[n] \in S
         /\ \A d \in S : \E n \in 1..Len(q) : q[n] = d
<1> DEFINE q == InOrder(S, below)
           N == 1..Cardinality(S)
           g == [d \in S |-> Cardinality(below[d]) + 1]
<1>1. Cardinality(S) \in Nat
  BY FS_CardinalityType
<1>2. ASSUME NEW d \in S
      PROVE  IsFiniteSet(below[d]) /\ Cardinality(below[d]) \in Nat /\ Cardinality(below[d]) < Cardinality(S)
  <2>1. below[d] \in SUBSET S /\ below[d] # S
    BY DEF Ordered
  <2>2. IsFiniteSet(below[d]) /\ Cardinality(below[d]) <= Cardinality(S)
        /\ Cardinality(below[d]) # Cardinality(S)
    BY <2>1, FS_Subset
  <2>3. Cardinality(below[d]) \in Nat
    BY <2>2, FS_CardinalityType
  <2> QED BY <1>1, <2>2, <2>3
<1>3. ASSUME NEW d \in S, NEW e \in S, d \in below[e], below[d] \subseteq below[e]
      PROVE  Cardinality(below[d]) < Cardinality(below[e])
  <2>1. d \notin below[d] /\ below[d] # below[e]
    BY <1>3 DEF Ordered
  <2>2. IsFiniteSet(below[e]) /\ Cardinality(below[e]) \in Nat /\ Cardinality(below[d]) \in Nat
    BY <1>2
  <2>3. Cardinality(below[d]) <= Cardinality(below[e]) /\ Cardinality(below[d]) # Cardinality(below[e])
    BY <1>3, <2>1, <2>2, FS_Subset
  <2> QED BY <2>2, <2>3
<1>4. ASSUME NEW d \in S, NEW e \in S, Cardinality(below[d]) = Cardinality(below[e]) PROVE d = e
  <2>1. Cardinality(below[d]) \in Nat /\ Cardinality(below[e]) \in Nat
    BY <1>2
  <2>2. ~(Cardinality(below[d]) < Cardinality(below[e])) /\ ~(Cardinality(below[e]) < Cardinality(below[d]))
    BY <1>4, <2>1
  <2> QED BY <1>3, <2>2 DEF Ordered
<1>5. g \in Surjection(S, N)
  <2>1. g \in [S -> N]
    BY <1>1, <1>2
  <2>2. ASSUME NEW d \in S, NEW e \in S, g[d] = g[e] PROVE d = e
    <3>1. Cardinality(below[d]) = Cardinality(below[e])
      BY <1>2, <2>2
    <3> QED BY <1>4, <3>1
  <2>3. g \in Injection(S, N)
    BY <2>1, <2>2 DEF Injection, IsInjective
  <2>4. IsFiniteSet(N) /\ Cardinality(N) = Cardinality(S)
    BY <1>1, FS_Interval
  <2> HIDE DEF g, N
  <2> QED BY <2>3, <2>4, FS_Injection
<1>6. ASSUME NEW n \in N PROVE q[n] \in S /\ Cardinality(below[q[n]]) = n - 1
  <2>1. PICK d \in S : g[d] = n
    BY <1>5 DEF Surjection
  <2>2. Cardinality(below[d]) = n - 1
    BY <1>2, <2>1
  <2>3. q[n] = CHOOSE e \in S : Cardinality(below[e]) = n - 1
    BY DEF InOrder
  <2> HIDE DEF q
  <2> QED BY <2>2, <2>3
<1>7. ASSUME NEW d \in S PROVE \E n \in N : q[n] = d
  <2>1. g[d] \in N /\ g[d] - 1 = Cardinality(below[d])
    BY <1>1, <1>2
  <2>2. q[g[d]] \in S /\ Cardinality(below[q[g[d]]]) = Cardinality(below[d])
    <3> HIDE DEF g, q
    <3> QED BY <1>6, <2>1
  <2>3. q[g[d]] = d
    <3> HIDE DEF g, q
    <3> QED BY <1>4, <2>2
  <2> QED BY <2>1, <2>3
<1>8. IsSeq(q) /\ Len(q) = Cardinality(S)
  <2>1. q = [n \in 1..Cardinality(S) |-> q[n]]
    BY DEF InOrder
  <2> HIDE DEF q
  <2> QED BY <1>1, <2>1, FunIs
<1> HIDE DEF q
<1>9. /\ \A n \in 1..Len(q) : q[n] \in S
      /\ \A d \in S : \E n \in 1..Len(q) : q[n] = d
  BY <1>6, <1>7, <1>8
<1> QED BY <1>1, <1>8, <1>9 DEF q

(* Ids, from the least.                                                    *)
LEMMA IdsOnto ==
  ASSUME NEW S \in SUBSET Nat, IsFiniteSet(S)
  PROVE  LET q == InIdOrder(S) IN
         /\ IsSeq(q) /\ Len(q) \in Nat
         /\ \A n \in 1..Len(q) : q[n] \in S
         /\ \A d \in S : \E n \in 1..Len(q) : q[n] = d
<1> DEFINE below == [d \in S |-> {e \in S : e < d}]
<1>1. \A d \in S : d \in Nat
  OBVIOUS
<1>2. ASSUME NEW d \in S, NEW e \in S, d < e PROVE d \in below[e] /\ below[d] \subseteq below[e]
  <2>1. ASSUME NEW x \in below[d] PROVE x \in below[e]
    <3>1. x \in S /\ x < d /\ x \in Nat /\ d \in Nat /\ e \in Nat
      BY <1>1
    <3>2. x < e
      BY <1>2, <3>1
    <3> QED BY <3>1, <3>2
  <2> QED BY <1>2, <2>1
<1>3. ASSUME NEW d \in S, NEW e \in S, d # e PROVE d < e \/ e < d
  BY <1>1, <1>3
<1>4. \A d \in S : below[d] \in SUBSET S /\ d \notin below[d]
  BY <1>1
<1>5. Ordered(S, below)
  <2> HIDE DEF below
  <2> QED BY <1>2, <1>3, <1>4 DEF Ordered
<1>6. InIdOrder(S) = InOrder(S, below)
  BY DEF InIdOrder
<1> HIDE DEF below
<1> QED BY <1>5, <1>6, OrderOnto
-----------------------------------------------------------------------------
(* Programs and their symbols.                                             *)

(* The files of a program and their texts.                                 *)
LEMMA ProgramIs ==
  ASSUME NEW p \in Programs
  PROVE  /\ \E n \in 0..NumFiles : n \in Nat /\ DOMAIN p = 1..n
         /\ p = [f \in DOMAIN p |-> p[f]]
         /\ \A f \in DOMAIN p : f \in 1..NumFiles /\ f \in Nat /\ p[f] \in Texts[f]
                                /\ Len(p[f].items) \in Nat
<1> DEFINE All == UNION {Texts[f] : f \in 1..NumFiles}
<1>1. PICK n \in 0..NumFiles : p \in [1..n -> All] /\ \A f \in 1..n : p[f] \in Texts[f]
  BY DEF Programs
<1>2. NumFiles \in Nat /\ n \in Nat /\ DOMAIN p = 1..n /\ p = [f \in 1..n |-> p[f]]
  BY <1>1, SessionAssumption
<1>3. ASSUME NEW f \in 1..n PROVE f \in 1..NumFiles /\ p[f] \in Texts[f] /\ Len(p[f].items) \in Nat
  BY <1>1, <1>2, SessionAssumption
<1> QED BY <1>2, <1>3

(* Where items are.                                                        *)
LEMMA SiteIs ==
  ASSUME NEW p \in Programs, NEW d \in Sites(p)
  PROVE  \E f \in DOMAIN p : \E i \in 1..Len(p[f].items) :
           d = <<f, i>> /\ d[1] = f /\ d[2] = i /\ f \in Nat /\ i \in Nat
<1>1. PICK f \in DOMAIN p : d \in {f} \X (1..Len(p[f].items))
  BY DEF Sites
<1>2. f \in Nat /\ Len(p[f].items) \in Nat
  BY ProgramIs
<1> QED BY <1>1, <1>2

(* A program has finitely many items.                                      *)
LEMMA SitesFinite ==
  ASSUME NEW p \in Programs
  PROVE  IsFiniteSet(Sites(p))
<1> DEFINE at(f) == {f} \X (1..Len(p[f].items))
<1>1. PICK n \in Nat : DOMAIN p = 1..n
  BY ProgramIs
<1>2. IsFiniteSet(DOMAIN p)
  BY <1>1, FS_Interval
<1>3. ASSUME NEW f \in DOMAIN p PROVE IsFiniteSet(at(f))
  <2>1. Len(p[f].items) \in Nat
    BY ProgramIs
  <2>2. IsFiniteSet(1..Len(p[f].items))
    BY <2>1, FS_Interval
  <2>3. IsFiniteSet({f})
    BY FS_Singleton
  <2> QED BY <2>2, <2>3, FS_Product
<1> DEFINE parts == {at(f) : f \in DOMAIN p}
<1>4. IsFiniteSet(parts)
  <2> DEFINE g == [f \in DOMAIN p |-> at(f)]
  <2>1. g \in Surjection(DOMAIN p, parts)
    <3> HIDE DEF at
    <3> QED BY DEF Surjection
  <2> HIDE DEF g, parts
  <2> QED BY <1>2, <2>1, FS_Surjection
<1>5. \A P \in parts : IsFiniteSet(P)
  BY <1>3
<1>6. IsFiniteSet(UNION parts)
  <2> HIDE DEF parts
  <2> QED BY <1>4, <1>5, FS_UNION
<1> QED BY <1>6 DEF Sites

(* The order of the front end is total.                                    *)
LEMMA SitesOrdered ==
  ASSUME NEW p \in Programs
  PROVE  Ordered(Declared(p), Earlier(Declared(p)))
<1> DEFINE D == Declared(p)
           below == [d \in D |-> {e \in D : Before(e, d)}]
<1>1. ASSUME NEW d \in D
      PROVE  d \in Sites(p) /\ d = <<d[1], d[2]>> /\ d[1] \in Nat /\ d[2] \in Nat
  <2>1. d \in Sites(p)
    BY DEF Declared
  <2> QED BY <2>1, SiteIs
<1> HIDE DEF D
<1>2. ASSUME NEW d \in D, NEW e \in D, Before(d, e) PROVE d \in below[e] /\ below[d] \subseteq below[e]
  <2>1. ASSUME NEW x \in D, Before(x, d) PROVE Before(x, e)
    BY <1>1, <1>2, <2>1 DEF Before
  <2> QED BY <1>2, <2>1
<1>3. ASSUME NEW d \in D, NEW e \in D, d # e PROVE Before(d, e) \/ Before(e, d)
  BY <1>1, <1>3 DEF Before
<1>4. ASSUME NEW d \in D PROVE below[d] \in SUBSET D /\ d \notin below[d]
  BY <1>1 DEF Before
<1>5. Ordered(D, below)
  <2> HIDE DEF below
  <2> QED BY <1>2, <1>3, <1>4 DEF Ordered
<1> QED BY <1>5 DEF D, Earlier

(* The symbols of a program: numbered from 1, each declared by an item.    *)
LEMMA SymbolsAre ==
  ASSUME NEW p \in Programs
  PROVE  /\ IsFiniteSet(DOMAIN Symbols[p]) /\ DOMAIN Symbols[p] \in SUBSET Nat
         /\ \A s \in DOMAIN Symbols[p] : \E d \in Sites(p) : Symbols[p][s] = SymbolOf(p, d)
<1> DEFINE D == Declared(p)
           below == Earlier(D)
           q == InOrder(D, below)
<1>1. D \in SUBSET Sites(p) /\ IsFiniteSet(D)
  <2>1. D \in SUBSET Sites(p)
    BY DEF Declared
  <2> QED BY <2>1, SitesFinite, FS_Subset
<1>2. Ordered(D, below)
  BY SitesOrdered
<1>3. Symbols[p] = [s \in 1..Cardinality(D) |-> SymbolOf(p, q[s])]
  <2>1. Symbols[p] = SymbolsAt(p, q)
    BY Zenon DEF Symbols
  <2>2. DOMAIN q = 1..Cardinality(D)
    BY DEF InOrder
  <2> QED BY <2>1, <2>2, Zenon DEF SymbolsAt
<1> HIDE DEF D, below
<1>4. Len(q) = Cardinality(D) /\ Cardinality(D) \in Nat /\ \A s \in 1..Cardinality(D) : q[s] \in D
  BY <1>1, <1>2, OrderOnto
<1> HIDE DEF q
<1>5. DOMAIN Symbols[p] = 1..Cardinality(D)
  BY <1>3
<1>6. ASSUME NEW s \in DOMAIN Symbols[p] PROVE \E d \in Sites(p) : Symbols[p][s] = SymbolOf(p, d)
  <2>1. s \in 1..Cardinality(D) /\ q[s] \in Sites(p)
    BY <1>1, <1>4, <1>5
  <2>2. Symbols[p][s] = SymbolOf(p, q[s])
    BY <1>3, <2>1
  <2> QED BY <2>1, <2>2
<1> QED BY <1>4, <1>5, <1>6, FS_Interval

(* A symbol is of a file of the program, and no function is named like a   *)
(* free-standing spec.                                                     *)
LEMMA SymbolIs ==
  ASSUME NEW p \in Programs, NEW s \in DOMAIN Symbols[p]
  PROVE  /\ Symbols[p][s].file \in DOMAIN p
         /\ Symbols[p][s].item.kind = "fn" => Symbols[p][s].item.name # FreeStanding
<1>1. PICK d \in Sites(p) : Symbols[p][s] = SymbolOf(p, d)
  BY SymbolsAre
<1>2. PICK f \in DOMAIN p : \E i \in 1..Len(p[f].items) : d[1] = f /\ d[2] = i
  BY SiteIs
<1>3. PICK i \in 1..Len(p[f].items) : d[1] = f /\ d[2] = i
  BY <1>2
<1>4. Symbols[p][s].file = f /\ Symbols[p][s].item = p[f].items[i]
  BY <1>1, <1>3 DEF SymbolOf, ItemAt
<1>5. f \in 1..NumFiles /\ p[f] \in Texts[f]
  BY ProgramIs
<1>6. p[f].items[i].kind = "fn" => p[f].items[i].name # FreeStanding
  BY <1>5, SessionAssumption
<1> QED BY <1>4, <1>6

(* The specs of a program, and what its parts refer to.                    *)
LEMMA SpecsAre ==
  ASSUME NEW p \in Programs
  PROVE  SpecsIn(p) \in SUBSET Nat /\ IsFiniteSet(SpecsIn(p))
<1>1. SpecsIn(p) \in SUBSET DOMAIN Symbols[p]
  BY DEF SpecsIn
<1> QED BY <1>1, SymbolsAre, FS_Subset

(* Only functions are referred to.                                         *)
LEMMA ReferencesAre ==
  ASSUME NEW p, NEW s, NEW d \in References(p, s)
  PROVE  IsFunction(p, d) /\ ~IsSpec(p, d) /\ d \in DOMAIN Symbols[p]
BY DEF References, Named, IsFunction, IsSpec, IsKind

(* Nothing refers to a spec, so a closure is what the spec names itself.   *)
LEMMA ClosureIs ==
  ASSUME NEW p, NEW s, IsSpec(p, s)
  PROVE  SpecClosure(p, s) = References(p, s) /\ DependenciesOf(p, s) = References(p, s)
<1>1. DependenciesOf(p, s) = References(p, s)
  BY DEF DependenciesOf
<1>2. \A d \in References(p, s) : DependenciesOf(p, d) = {}
  BY ReferencesAre DEF DependenciesOf
<1> QED BY <1>1, <1>2 DEF SpecClosure
-----------------------------------------------------------------------------
(* The invariant.                                                          *)

(* Queries read only keys of a lower rank, so they never read in a circle. *)
Rank(k) ==
  CASE k.kind \in {"FILE_SET", "SOURCE"} -> 0
    [] k.kind = "PARSE" -> 1
    [] k.kind \in {"RESOLUTION", "SPEC_GRAPH"} -> 2
    [] k.kind = "INTERFACE" -> 3
    [] k.kind \in {"TYPE_OF", "FN_BODY"} -> 4
    [] OTHER -> 5

(* The key has a value, when it last changed, and whether that is settled  *)
(* in this revision.                                                       *)
Held(d)  == IF d \in SessionInputs THEN world[d] ELSE memos[d].value
Since(d) == IF d \in SessionInputs THEN inputChanged[d] ELSE memos[d].changedAt
Kept(d)  == d \in SessionInputs \/ Memoized(d)
Fresh(d) == d \in SessionInputs \/ Verified(d)

(* The file or the symbol that query k is about exists.                    *)
Lives(k) ==
  /\ k.kind \in {"PARSE", "INTERFACE"} => k.arg \in Files
  /\ k.kind \in {"TYPE_OF", "FN_BODY", "MIR_OF"} => IsFunction(Now, k.arg)
  /\ k.kind = "SPEC_DEPS" => IsSpec(Now, k.arg)

WorldOK ==
  /\ revision \in Nat
  /\ world = [i \in SessionInputs |-> world[i]]
  /\ world[FileSet] \in 0..NumFiles
  /\ \A f \in 1..world[FileSet] : world[Source(f)] \in Texts[f]
  /\ inputChanged = [i \in SessionInputs |-> inputChanged[i]]
  /\ \A i \in SessionInputs : inputChanged[i] \in Nat /\ inputChanged[i] <= revision

(* The values past of the dependencies deps account for the value v of k.  *)
Explains(past, k, deps, v) ==
  /\ k.kind = "PARSE" =>
       Len(deps) = 1 /\ deps[1] = Source(k.arg) /\ v = past[Source(k.arg)]
  /\ k.kind \in {"RESOLUTION", "SPEC_GRAPH"} =>
       /\ past[FileSet] \in Nat /\ Len(deps) = past[FileSet] + 1
       /\ deps[1] = FileSet
       /\ \A f \in 1..past[FileSet] : deps[f + 1] = Parse(f)
       /\ v = Slice(k, [f \in 1..past[FileSet] |-> past[Parse(f)]])
  /\ k.kind = "SPEC_DEPS" =>
       /\ Len(deps) > 0 /\ deps[1] = SpecGraph
       /\ <<k.arg, v>> \in past[SpecGraph]
       /\ \A j \in 2..Len(deps) : \E d \in v : deps[j] = TypeOf(d)
  /\ k.kind = "MIR_OF" =>
       \A j \in 1..Len(deps) : deps[j] \in {TypeOf(k.arg), FnBody(k.arg)}

(* The dependencies that have not changed since memo m was verified still  *)
(* have the values that explain it.                                        *)
Explained(k, m) ==
  \E past :
    /\ \A j \in 1..Len(m.deps) :
         Since(m.deps[j]) <= m.verifiedAt => past[m.deps[j]] = Held(m.deps[j])
    /\ Explains(past, k, m.deps, m.value)

IsMemo(m) ==
  m = [value |-> m.value, changedAt |-> m.changedAt, verifiedAt |-> m.verifiedAt, deps |-> m.deps]

MemoOK(k, m) ==
  /\ k \in SessionDerived
  /\ k.kind \in {"PARSE", "INTERFACE"} => k.arg \in Files
  /\ IsMemo(m)
  /\ m.changedAt \in Nat /\ m.verifiedAt \in Nat
  /\ m.changedAt <= m.verifiedAt /\ m.verifiedAt <= revision
  /\ Len(m.deps) \in Nat
  /\ \A j \in 1..Len(m.deps) :
       /\ Rank(m.deps[j]) < Rank(k) /\ Kept(m.deps[j])
       /\ m.verifiedAt = revision => Fresh(m.deps[j])
  /\ Explained(k, m)

MemosOK == memos = [k \in DOMAIN memos |-> memos[k]] /\ \A k \in DOMAIN memos : MemoOK(k, memos[k])

(* A check of c.memo: the dependencies before the next are settled, and    *)
(* none of them changed since the memo was verified.                       *)
CheckOK(c) ==
  /\ c = [op |-> "validate", key |-> c.key, memo |-> c.memo, next |-> c.next]
  /\ c.key \in DOMAIN memos /\ c.memo = memos[c.key]
  /\ c.next \in 1..(Len(c.memo.deps) + 1)
  /\ \A j \in 1..(c.next - 1) :
       Fresh(c.memo.deps[j]) /\ Since(c.memo.deps[j]) <= c.memo.verifiedAt

(* A run of the host: what it read so far is settled.                      *)
RunOK(c) ==
  /\ c = [op |-> "compute", key |-> c.key, existing |-> c.existing, seen |-> c.seen]
  /\ c.existing # <<>> => c.key \in DOMAIN memos /\ c.existing = <<memos[c.key]>>
  /\ IsSeq(c.seen) /\ Len(c.seen) <= Len(ReadsOf(c.key, Now))
  /\ \A j \in 1..Len(c.seen) : Fresh(ReadsOf(c.key, Now)[j])

CallOK(c) ==
  /\ c.key \in SessionDerived /\ Lives(c.key) /\ ~Verified(c.key)
  /\ c.op \in {"validate", "compute"}
  /\ c.op = "validate" => CheckOK(c)
  /\ c.op = "compute" => RunOK(c)

(* Activation c waits for key d.                                           *)
Waits(c, d) ==
  /\ c.op = "validate" => c.next <= Len(c.memo.deps) /\ c.memo.deps[c.next] = d
  /\ c.op = "compute" =>
       Len(c.seen) < Len(ReadsOf(c.key, Now)) /\ ReadsOf(c.key, Now)[Len(c.seen) + 1] = d

(* The frame f of a run has an edge for each read, the h it waits for      *)
(* included.                                                               *)
FrameOK(c, f, h) ==
  c.op = "compute" =>
    /\ IsSeq(f) /\ Len(f) = Len(c.seen) + h
    /\ \A j \in 1..Len(f) : f[j] = ReadsOf(c.key, Now)[j]

(* Each activation waits for the one above it.                             *)
Chain(cs, fs) ==
  /\ IsSeq(cs) /\ IsSeq(fs) /\ Len(cs) = Len(fs)
  /\ \A i \in 1..Len(cs) : CallOK(cs[i])
  /\ \A i \in 1..(Len(cs) - 1) : Waits(cs[i], cs[i + 1].key) /\ FrameOK(cs[i], fs[i], 1)
  /\ \A i, j \in 1..Len(cs) : i < j => Rank(cs[j].key) < Rank(cs[i].key)

(* The answer r is the one that the innermost activation waits for.        *)
RetOK(cs, fs, r) ==
  /\ r.tag = "ok" =>
       /\ Verified(r.key) /\ r.key \in SessionDerived
       /\ r.value = memos[r.key].value /\ r.changedAt = memos[r.key].changedAt
  /\ cs # <<>> =>
       /\ r = Nothing => FrameOK(Top(cs), Top(fs), 0)
       /\ r.tag = "ok" => Waits(Top(cs), r.key) /\ FrameOK(Top(cs), Top(fs), 1)

(* The specs a selection is made of.                                       *)
Wanted(f) ==
  {s \in SpecsIn(Now) :
     \/ s \in SymbolsInFile(Now, f)
     \/ \E d \in References(Now, s) : Symbols[Now][d].file = f}

(* The affected_specs call: the wanted specs are chosen or still to come,  *)
(* and the query in progress is that of the next.                          *)
JobOK ==
  /\ job.asking =>
       /\ job = [asking |-> TRUE, changed |-> job.changed, todo |-> job.todo, affected |-> job.affected]
       /\ IsSeq(job.todo)
       /\ \A i \in 1..Len(job.todo) : job.todo[i] \in SpecsIn(Now)
       /\ job.affected \subseteq Wanted(job.changed)
       /\ \A s \in Wanted(job.changed) :
            s \in job.affected \/ \E i \in 1..Len(job.todo) : job.todo[i] = s
       /\ calls # <<>> => job.todo # <<>> /\ calls[1].key = SpecDeps(job.todo[1])
       /\ calls = <<>> /\ ret.tag = "ok" => job.todo # <<>> /\ ret.key = SpecDeps(job.todo[1])
  /\ selection.made => selection.specs = Wanted(selection.changed)

IInv ==
  /\ WorldOK
  /\ MemosOK
  /\ Chain(calls, frames)
  /\ RetOK(calls, frames, ret)
  /\ JobOK

-----------------------------------------------------------------------------
(* Keys, and the program as it stands.                                     *)

Kinds == {"PARSE", "INTERFACE", "RESOLUTION", "SPEC_GRAPH", "TYPE_OF", "FN_BODY", "MIR_OF", "SPEC_DEPS"}

(* Derived keys are no inputs, and have the kind that Rank looks at.       *)
LEMMA KeysAre ==
  /\ \A k \in SessionDerived :
       /\ k \notin SessionInputs /\ k.kind \in Kinds /\ k = Key(k.kind, k.arg)
       /\ k.kind = "RESOLUTION" => k = ResolutionKey
       /\ k.kind = "SPEC_GRAPH" => k = SpecGraph
  /\ FileSet \in SessionInputs
  /\ \A f \in 1..NumFiles : Source(f) \in SessionInputs /\ Source(f) # FileSet
<1>1. ASSUME NEW k \in SessionDerived
      PROVE  /\ k.kind \in Kinds /\ k = Key(k.kind, k.arg)
             /\ k.kind = "RESOLUTION" => k = ResolutionKey
             /\ k.kind = "SPEC_GRAPH" => k = SpecGraph
  BY DEF SessionDerived, ResolutionKey, SpecGraph, Key, Kinds
<1>2. ASSUME NEW k \in SessionInputs PROVE k.kind \in {"FILE_SET", "SOURCE"}
  BY DEF SessionInputs, FileSet, Source, Key
<1>3. \A k \in SessionDerived : k \notin SessionInputs
  BY <1>1, <1>2 DEF Kinds
<1>4. FileSet \in SessionInputs /\ \A f \in 1..NumFiles : Source(f) \in SessionInputs /\ Source(f) # FileSet
  BY DEF SessionInputs, FileSet, Source, Key
<1> QED BY <1>1, <1>3, <1>4

(* The ranks.                                                              *)
LEMMA RankIs ==
  /\ \A k : Rank(k) \in 0..5
  /\ \A k \in SessionInputs : Rank(k) = 0
  /\ \A f : Rank(Source(f)) = 0 /\ Rank(Parse(f)) = 1 /\ Rank(Interface(f)) = 3
  /\ \A s : Rank(TypeOf(s)) = 4 /\ Rank(FnBody(s)) = 4
  /\ Rank(FileSet) = 0 /\ Rank(ResolutionKey) = 2 /\ Rank(SpecGraph) = 2
  /\ \A k \in SessionDerived :
       /\ k.kind = "PARSE" => Rank(k) = 1
       /\ k.kind \in {"RESOLUTION", "SPEC_GRAPH"} => Rank(k) = 2
       /\ k.kind = "INTERFACE" => Rank(k) = 3
       /\ k.kind \in {"TYPE_OF", "FN_BODY"} => Rank(k) = 4
       /\ k.kind \in {"MIR_OF", "SPEC_DEPS"} => Rank(k) = 5
<1>1. \A k : Rank(k) \in 0..5
  BY DEF Rank
<1>2. \A k \in SessionInputs : Rank(k) = 0
  BY DEF Rank, SessionInputs, FileSet, Source, Key
<1>3. \A f : Rank(Source(f)) = 0 /\ Rank(Parse(f)) = 1 /\ Rank(Interface(f)) = 3
  BY DEF Rank, Source, Parse, Interface, Key
<1>4. \A s : Rank(TypeOf(s)) = 4 /\ Rank(FnBody(s)) = 4
  BY DEF Rank, TypeOf, FnBody, Key
<1>5. Rank(FileSet) = 0 /\ Rank(ResolutionKey) = 2 /\ Rank(SpecGraph) = 2
  BY DEF Rank, FileSet, ResolutionKey, SpecGraph, Key
<1>6. ASSUME NEW k \in SessionDerived
      PROVE  /\ k.kind = "PARSE" => Rank(k) = 1
             /\ k.kind \in {"RESOLUTION", "SPEC_GRAPH"} => Rank(k) = 2
             /\ k.kind = "INTERFACE" => Rank(k) = 3
             /\ k.kind \in {"TYPE_OF", "FN_BODY"} => Rank(k) = 4
             /\ k.kind \in {"MIR_OF", "SPEC_DEPS"} => Rank(k) = 5
  BY DEF Rank
<1> QED BY <1>1, <1>2, <1>3, <1>4, <1>5, <1>6

(* The program as it stands is one.                                        *)
LEMMA NowIs ==
  ASSUME WorldOK
  PROVE  /\ Now \in Programs
         /\ Files = 1..world[FileSet] /\ world[FileSet] \in Nat /\ world[FileSet] \in 0..NumFiles
         /\ \A f \in Files : Now[f] = world[Source(f)] /\ f \in 1..NumFiles
         /\ Now = [f \in 1..world[FileSet] |-> world[Source(f)]]
<1> DEFINE n == world[FileSet]
           All == UNION {Texts[f] : f \in 1..NumFiles}
<1>1. n \in 0..NumFiles /\ NumFiles \in Nat /\ n \in Nat /\ \A f \in 1..n : f \in 1..NumFiles
  BY SessionAssumption DEF WorldOK
<1>2. Now = [f \in 1..n |-> world[Source(f)]]
  BY DEF Now, Program
<1>3. ASSUME NEW f \in 1..n PROVE Now[f] \in Texts[f] /\ Now[f] \in All
  BY <1>1, <1>2 DEF WorldOK
<1>4. Now \in [1..n -> All]
  <2> HIDE DEF n, All
  <2> QED BY <1>2, <1>3
<1>5. Now \in {p \in [1..n -> All] : \A f \in 1..n : p[f] \in Texts[f]}
  <2> HIDE DEF n, All
  <2> QED BY <1>3, <1>4
<1>6. Now \in Programs
  <2> HIDE DEF n
  <2> QED BY <1>1, <1>5 DEF Programs
<1>7. Files = 1..n
  BY <1>2 DEF Files
<1> QED BY <1>1, <1>2, <1>6, <1>7
-----------------------------------------------------------------------------
(* What the queries read.                                                  *)

(* The whole-program digests read the set of files and every file.         *)
LEMMA EveryFileIs ==
  ASSUME WorldOK
  PROVE  LET r == EveryFile(Now) IN
         /\ IsSeq(r) /\ Len(r) = world[FileSet] + 1 /\ r[1] = FileSet
         /\ \A f \in 1..world[FileSet] : r[f + 1] = Parse(f)
<1> DEFINE n == world[FileSet]
           q == [f \in DOMAIN Now |-> Parse(f)]
<1>1. n \in Nat /\ DOMAIN Now = 1..n
  BY NowIs DEF Files
<1>2. q = [f \in 1..n |-> q[f]] /\ \A f \in 1..n : q[f] = Parse(f)
  BY <1>1
<1>3. EveryFile(Now) = <<FileSet>> \o q
  BY DEF EveryFile
<1> HIDE DEF n, q
<1>4. IsSeq(q) /\ Len(q) = n
  BY <1>1, <1>2, FunIs
<1>5. LET t == <<FileSet>> \o q IN
      IsSeq(t) /\ Len(t) = Len(q) + 1 /\ t[1] = FileSet /\ \A i \in 1..Len(q) : t[i + 1] = q[i]
  BY <1>4, ConsIs
<1> QED BY <1>2, <1>3, <1>4, <1>5 DEF n

(* The type of a function reads the resolution and every interface.        *)
LEMMA TypeReadsAre ==
  ASSUME WorldOK
  PROVE  LET r == <<ResolutionKey>> \o [f \in DOMAIN Now |-> Interface(f)] IN
         /\ IsSeq(r) /\ Len(r) = world[FileSet] + 1 /\ r[1] = ResolutionKey
         /\ \A f \in 1..world[FileSet] : r[f + 1] = Interface(f)
<1> DEFINE n == world[FileSet]
           q == [f \in DOMAIN Now |-> Interface(f)]
<1>1. n \in Nat /\ DOMAIN Now = 1..n
  BY NowIs DEF Files
<1>2. q = [f \in 1..n |-> q[f]] /\ \A f \in 1..n : q[f] = Interface(f)
  BY <1>1
<1> HIDE DEF n, q
<1>4. IsSeq(q) /\ Len(q) = n
  BY <1>1, <1>2, FunIs
<1>5. LET t == <<ResolutionKey>> \o q IN
      IsSeq(t) /\ Len(t) = Len(q) + 1 /\ t[1] = ResolutionKey /\ \A i \in 1..Len(q) : t[i + 1] = q[i]
  BY <1>4, ConsIs
<1> QED BY <1>2, <1>4, <1>5 DEF n, q

(* A spec reads the graph, then the types of functions of its closure.     *)
LEMMA SpecReadsAre ==
  ASSUME WorldOK, NEW s
  PROVE  LET r == SpecDepsReads(Now, s) IN
         /\ IsSeq(r) /\ Len(r) \in Nat /\ Len(r) > 0 /\ r[1] = SpecGraph
         /\ \A j \in 2..Len(r) :
              \E d \in SpecClosure(Now, s) : IsFunction(Now, d) /\ r[j] = TypeOf(d)
<1> DEFINE S == {d \in SpecClosure(Now, s) : IsFunction(Now, d)}
           ids == InIdOrder(S)
           q == [i \in DOMAIN ids |-> TypeOf(ids[i])]
<1>1. S \in SUBSET Nat /\ IsFiniteSet(S)
  <2>1. S \in SUBSET DOMAIN Symbols[Now]
    BY DEF IsFunction, IsKind
  <2>2. IsFiniteSet(DOMAIN Symbols[Now]) /\ DOMAIN Symbols[Now] \in SUBSET Nat
    BY NowIs, SymbolsAre
  <2> HIDE DEF S
  <2> QED BY <2>1, <2>2, FS_Subset
<1>2. SpecDepsReads(Now, s) = <<SpecGraph>> \o q
  BY DEF SpecDepsReads, TypesOf, FunctionsIn
<1>3. IsSeq(ids) /\ Len(ids) \in Nat /\ \A n \in 1..Len(ids) : ids[n] \in S
  <2> HIDE DEF S
  <2> QED BY <1>1, IdsOnto
<1>4. DOMAIN ids = 1..Len(ids)
  <2> HIDE DEF ids
  <2> QED BY <1>3, SeqIs
<1> HIDE DEF ids
<1>5. q = [i \in 1..Len(ids) |-> q[i]] /\ \A i \in 1..Len(ids) : q[i] = TypeOf(ids[i])
  BY <1>4
<1> HIDE DEF q, S
<1>6. IsSeq(q) /\ Len(q) = Len(ids)
  BY <1>3, <1>5, FunIs
<1>7. LET t == <<SpecGraph>> \o q IN
      IsSeq(t) /\ Len(t) = Len(q) + 1 /\ t[1] = SpecGraph /\ \A i \in 1..Len(q) : t[i + 1] = q[i]
  BY <1>6, ConsIs
<1> DEFINE r == SpecDepsReads(Now, s)
<1>8. IsSeq(r) /\ Len(r) = Len(ids) + 1 /\ r[1] = SpecGraph /\ \A i \in 1..Len(ids) : r[i + 1] = TypeOf(ids[i])
  BY <1>2, <1>5, <1>6, <1>7
<1> HIDE DEF r
<1>9. ASSUME NEW j \in 2..Len(r) PROVE \E d \in S : r[j] = TypeOf(d)
  <2>1. j - 1 \in 1..Len(ids) /\ (j - 1) + 1 = j
    BY <1>3, <1>8
  <2>2. r[j] = TypeOf(ids[j - 1]) /\ ids[j - 1] \in S
    BY <1>3, <1>8, <2>1
  <2> QED BY <2>2
<1>10. \A d \in S : d \in SpecClosure(Now, s) /\ IsFunction(Now, d)
  BY DEF S
<1>11. Len(r) \in Nat /\ Len(r) > 0
  BY <1>3, <1>8
<1> QED BY <1>8, <1>9, <1>10, <1>11 DEF r

(* Sequences written out.                                                  *)
LEMMA OneIs ==
  ASSUME NEW a, NEW s, s = <<a>>
  PROVE  IsSeq(s) /\ Len(s) = 1 /\ s[1] = a
<1>1. s \in Seq({a})
  OBVIOUS
<1> QED BY <1>1 DEF IsSeq

LEMMA TwoIs ==
  ASSUME NEW a, NEW b, NEW s, s = <<a, b>>
  PROVE  IsSeq(s) /\ Len(s) = 2 /\ s[1] = a /\ s[2] = b
<1>1. s \in Seq({a, b})
  OBVIOUS
<1> QED BY <1>1 DEF IsSeq

(* The reads of a live query, by its kind.                                 *)
LEMMA ReadsByKind ==
  ASSUME WorldOK, NEW k \in SessionDerived
  PROVE  LET r == ReadsOf(k, Now) IN
         /\ IsSeq(r)
         /\ k.kind = "PARSE" => Len(r) = 1 /\ r[1] = Source(k.arg)
         /\ k.kind = "INTERFACE" => Len(r) = 2 /\ r[1] = Parse(k.arg) /\ r[2] = ResolutionKey
         /\ k.kind \in {"RESOLUTION", "SPEC_GRAPH"} =>
              /\ Len(r) = world[FileSet] + 1 /\ r[1] = FileSet
              /\ \A f \in 1..world[FileSet] : r[f + 1] = Parse(f)
         /\ k.kind = "TYPE_OF" =>
              /\ Len(r) = world[FileSet] + 1 /\ r[1] = ResolutionKey
              /\ \A f \in 1..world[FileSet] : r[f + 1] = Interface(f)
         /\ k.kind = "FN_BODY" => Len(r) = 1 /\ r[1] = Parse(Symbols[Now][k.arg].file)
         /\ k.kind = "MIR_OF" => Len(r) = 2 /\ r[1] = TypeOf(k.arg) /\ r[2] = FnBody(k.arg)
         /\ k.kind = "SPEC_DEPS" => r = SpecDepsReads(Now, k.arg)
<1>1. k.kind \in Kinds
  BY KeysAre
<1>2. CASE k.kind = "PARSE"
  <2>1. ReadsOf(k, Now) = <<Source(k.arg)>>
    BY <1>2 DEF ReadsOf
  <2> QED BY <1>2, <2>1, OneIs
<1>3. CASE k.kind = "INTERFACE"
  <2>1. ReadsOf(k, Now) = <<Parse(k.arg), ResolutionKey>>
    BY <1>3 DEF ReadsOf
  <2>2. LET r == ReadsOf(k, Now) IN IsSeq(r) /\ Len(r) = 2 /\ r[1] = Parse(k.arg) /\ r[2] = ResolutionKey
    BY ONLY <2>1, TwoIs
  <2> QED BY <1>3, <2>2
<1>4. CASE k.kind \in {"RESOLUTION", "SPEC_GRAPH"}
  <2>1. ReadsOf(k, Now) = EveryFile(Now)
    BY <1>4 DEF ReadsOf
  <2> QED BY <1>4, <2>1, EveryFileIs
<1>5. CASE k.kind = "TYPE_OF"
  <2>1. ReadsOf(k, Now) = <<ResolutionKey>> \o [f \in DOMAIN Now |-> Interface(f)]
    BY <1>5 DEF ReadsOf
  <2> QED BY <1>5, <2>1, TypeReadsAre
<1>6. CASE k.kind = "FN_BODY"
  <2>1. ReadsOf(k, Now) = <<Parse(Symbols[Now][k.arg].file)>>
    BY <1>6 DEF ReadsOf
  <2> QED BY <1>6, <2>1, OneIs
<1>7. CASE k.kind = "MIR_OF"
  <2>1. ReadsOf(k, Now) = <<TypeOf(k.arg), FnBody(k.arg)>>
    BY <1>7 DEF ReadsOf
  <2>2. LET r == ReadsOf(k, Now) IN IsSeq(r) /\ Len(r) = 2 /\ r[1] = TypeOf(k.arg) /\ r[2] = FnBody(k.arg)
    BY ONLY <2>1, TwoIs
  <2> QED BY <1>7, <2>2
<1>8. CASE k.kind = "SPEC_DEPS"
  <2>1. ReadsOf(k, Now) = SpecDepsReads(Now, k.arg)
    BY <1>8 DEF ReadsOf
  <2> QED BY <1>8, <2>1, SpecReadsAre
<1> QED BY <1>1, <1>2, <1>3, <1>4, <1>5, <1>6, <1>7, <1>8 DEF Kinds

(* A key about nothing but a file is live when the file is there.          *)
LEMMA LiveKeys ==
  /\ \A f \in Files : Lives(Parse(f)) /\ Lives(Interface(f))
  /\ \A s : IsFunction(Now, s) => Lives(TypeOf(s)) /\ Lives(FnBody(s))
  /\ Lives(ResolutionKey) /\ Lives(SpecGraph)
BY DEF Lives, Parse, Interface, TypeOf, FnBody, ResolutionKey, SpecGraph, Key

(* What a live query reads is of a lower rank, and live.                   *)
LEMMA ReadsLive ==
  ASSUME WorldOK, NEW k \in SessionDerived, Lives(k)
  PROVE  LET r == ReadsOf(k, Now) IN
         \A j \in 1..Len(r) :
           Rank(r[j]) < Rank(k) /\ (r[j] \in SessionDerived => Lives(r[j]))
<1> DEFINE r == ReadsOf(k, Now)
           n == world[FileSet]
<1>1. k.kind \in Kinds
  BY KeysAre
<1>2. Files = 1..n /\ n \in Nat
  BY NowIs
<1> HIDE DEF r
<1> SUFFICES ASSUME NEW j \in 1..Len(r)
             PROVE  Rank(r[j]) < Rank(k) /\ (r[j] \in SessionDerived => Lives(r[j]))
  BY DEF r
<1>3. CASE k.kind = "PARSE"
  <2>1. r[j] = Source(k.arg)
    <3>1. Len(r) = 1 /\ r[1] = Source(k.arg)
      BY <1>3, ReadsByKind DEF r
    <3> QED BY <3>1
  <2>2. r[j] \notin SessionDerived
    BY <2>1, KeysAre DEF Source, Key, Kinds
  <2>3. Rank(k) = 1 /\ Rank(r[j]) = 0
    BY <1>3, <2>1, RankIs
  <2> QED BY <2>2, <2>3
<1>4. CASE k.kind = "INTERFACE"
  <2>1. r[j] = Parse(k.arg) \/ r[j] = ResolutionKey
    <3>1. Len(r) = 2 /\ r[1] = Parse(k.arg) /\ r[2] = ResolutionKey
      BY <1>4, ReadsByKind DEF r
    <3> QED BY <3>1
  <2>2. k.arg \in Files
    BY <1>4 DEF Lives
  <2>3. Rank(k) = 3 /\ (Rank(r[j]) = 1 \/ Rank(r[j]) = 2)
    BY <1>4, <2>1, RankIs
  <2> QED BY <2>1, <2>2, <2>3, LiveKeys
<1>5. CASE k.kind \in {"RESOLUTION", "SPEC_GRAPH"}
  <2>1. r[j] = FileSet \/ \E f \in Files : r[j] = Parse(f)
    <3>1. Len(r) = n + 1 /\ r[1] = FileSet /\ \A f \in 1..n : r[f + 1] = Parse(f)
      BY <1>5, ReadsByKind DEF r
    <3>2. j = 1 \/ (j - 1 \in 1..n /\ (j - 1) + 1 = j)
      BY <1>2, <3>1
    <3> QED BY <1>2, <3>1, <3>2
  <2>2. Rank(k) = 2 /\ (Rank(r[j]) = 0 \/ Rank(r[j]) = 1)
    BY <1>5, <2>1, RankIs
  <2> QED BY <2>1, <2>2, LiveKeys, KeysAre
<1>6. CASE k.kind = "TYPE_OF"
  <2>1. r[j] = ResolutionKey \/ \E f \in Files : r[j] = Interface(f)
    <3>1. Len(r) = n + 1 /\ r[1] = ResolutionKey /\ \A f \in 1..n : r[f + 1] = Interface(f)
      BY <1>6, ReadsByKind DEF r
    <3>2. j = 1 \/ (j - 1 \in 1..n /\ (j - 1) + 1 = j)
      BY <1>2, <3>1
    <3> QED BY <1>2, <3>1, <3>2
  <2>2. Rank(k) = 4 /\ (Rank(r[j]) = 2 \/ Rank(r[j]) = 3)
    BY <1>6, <2>1, RankIs
  <2> QED BY <2>1, <2>2, LiveKeys
<1>7. CASE k.kind = "FN_BODY"
  <2>1. r[j] = Parse(Symbols[Now][k.arg].file)
    <3>1. Len(r) = 1 /\ r[1] = Parse(Symbols[Now][k.arg].file)
      BY <1>7, ReadsByKind DEF r
    <3> QED BY <3>1
  <2>2. k.arg \in DOMAIN Symbols[Now]
    BY <1>7 DEF Lives, IsFunction, IsKind
  <2>3. Symbols[Now][k.arg].file \in Files
    BY <2>2, NowIs, SymbolIs DEF Files
  <2>4. Rank(k) = 4 /\ Rank(r[j]) = 1
    BY <1>7, <2>1, RankIs
  <2> QED BY <2>1, <2>3, <2>4, LiveKeys
<1>8. CASE k.kind = "MIR_OF"
  <2>1. r[j] = TypeOf(k.arg) \/ r[j] = FnBody(k.arg)
    <3>1. Len(r) = 2 /\ r[1] = TypeOf(k.arg) /\ r[2] = FnBody(k.arg)
      BY <1>8, ReadsByKind DEF r
    <3> QED BY <3>1
  <2>2. IsFunction(Now, k.arg)
    BY <1>8 DEF Lives
  <2>3. Rank(k) = 5 /\ Rank(r[j]) = 4
    BY <1>8, <2>1, RankIs
  <2> QED BY <2>1, <2>2, <2>3, LiveKeys
<1>9. CASE k.kind = "SPEC_DEPS"
  <2>1. r[j] = SpecGraph \/ \E d : IsFunction(Now, d) /\ r[j] = TypeOf(d)
    <3>1. r = SpecDepsReads(Now, k.arg)
      BY <1>9, ReadsByKind DEF r
    <3>2. Len(r) \in Nat /\ r[1] = SpecGraph
          /\ \A i \in 2..Len(r) : \E d \in SpecClosure(Now, k.arg) : IsFunction(Now, d) /\ r[i] = TypeOf(d)
      BY <3>1, SpecReadsAre
    <3>3. j = 1 \/ j \in 2..Len(r)
      BY <3>2
    <3> QED BY <3>2, <3>3
  <2>2. Rank(k) = 5 /\ (Rank(r[j]) = 2 \/ Rank(r[j]) = 4)
    BY <1>9, <2>1, RankIs
  <2> QED BY <2>1, <2>2, LiveKeys
<1> QED BY <1>1, <1>3, <1>4, <1>5, <1>6, <1>7, <1>8, <1>9 DEF Kinds
-----------------------------------------------------------------------------
(* What verified memos say.                                                *)

(* Nothing changed after this revision.                                    *)
LEMMA SinceIs ==
  ASSUME WorldOK, MemosOK, NEW d, Kept(d)
  PROVE  Since(d) \in Nat /\ Since(d) <= revision
<1>1. CASE d \in SessionInputs
  BY <1>1 DEF Since, WorldOK
<1>2. CASE d \notin SessionInputs
  <2>1. d \in DOMAIN memos /\ Since(d) = memos[d].changedAt /\ MemoOK(d, memos[d])
    BY <1>2 DEF Since, Kept, Memoized, MemosOK
  <2>2. /\ memos[d].changedAt \in Nat /\ memos[d].verifiedAt \in Nat /\ revision \in Nat
        /\ memos[d].changedAt <= memos[d].verifiedAt /\ memos[d].verifiedAt <= revision
    BY <2>1 DEF MemoOK, WorldOK
  <2> QED BY <2>1, <2>2
<1> QED BY <1>1, <1>2

(* A verified memo is explained by the values of now.                      *)
LEMMA VerifiedExplained ==
  ASSUME WorldOK, MemosOK, NEW k, Verified(k)
  PROVE  /\ k \in SessionDerived
         /\ \A j \in 1..Len(memos[k].deps) : Fresh(memos[k].deps[j])
         /\ \E past :
              /\ \A j \in 1..Len(memos[k].deps) : past[memos[k].deps[j]] = Held(memos[k].deps[j])
              /\ Explains(past, k, memos[k].deps, memos[k].value)
<1> DEFINE m == memos[k]
<1>1. MemoOK(k, m) /\ m.verifiedAt = revision
  BY DEF Verified, Memoized, MemosOK
<1>2. \A j \in 1..Len(m.deps) : Kept(m.deps[j]) /\ Fresh(m.deps[j])
  BY <1>1 DEF MemoOK
<1>3. \A j \in 1..Len(m.deps) : Since(m.deps[j]) <= m.verifiedAt
  BY <1>1, <1>2, SinceIs
<1>4. k \in SessionDerived /\ Explained(k, m)
  BY <1>1 DEF MemoOK
<1> HIDE DEF m
<1>5. \E past : /\ \A j \in 1..Len(m.deps) : past[m.deps[j]] = Held(m.deps[j])
                /\ Explains(past, k, m.deps, m.value)
  BY <1>3, <1>4 DEF Explained
<1> QED BY <1>2, <1>4, <1>5 DEF m

(* Those of the queries whose reads cover their slices are current.        *)
LEMMA ParseCurrent ==
  ASSUME WorldOK, MemosOK, NEW f \in Files, Verified(Parse(f))
  PROVE  Held(Parse(f)) = Now[f] /\ memos[Parse(f)].value = Now[f]
<1> DEFINE k == Parse(f)
           m == memos[k]
<1>1. k.kind = "PARSE" /\ k.arg = f /\ k \notin SessionInputs
  <2>1. k \in SessionDerived
    BY VerifiedExplained
  <2> QED BY <2>1, KeysAre DEF Parse, Key
<1> HIDE DEF k
<1>2. PICK past : /\ \A j \in 1..Len(m.deps) : past[m.deps[j]] = Held(m.deps[j])
                  /\ Explains(past, k, m.deps, m.value)
  BY VerifiedExplained DEF k
<1>3. Len(m.deps) = 1 /\ m.deps[1] = Source(f) /\ m.value = past[Source(f)]
  BY <1>1, <1>2 DEF Explains
<1>4. past[Source(f)] = Held(Source(f))
  BY <1>2, <1>3
<1>5. Held(Source(f)) = world[Source(f)] /\ world[Source(f)] = Now[f]
  BY NowIs, KeysAre DEF Held
<1>6. Held(k) = m.value
  BY <1>1 DEF Held
<1> QED BY <1>3, <1>4, <1>5, <1>6 DEF k

(* Once every file is parsed, the parses are the program.                  *)
LEMMA ParsesAreNow ==
  ASSUME WorldOK, MemosOK, \A f \in Files : Fresh(Parse(f))
  PROVE  [f \in 1..Held(FileSet) |-> Held(Parse(f))] = Now /\ Held(FileSet) = world[FileSet]
<1>1. Held(FileSet) = world[FileSet] /\ Files = 1..world[FileSet]
  BY NowIs, KeysAre DEF Held
<1>2. ASSUME NEW f \in Files PROVE Held(Parse(f)) = world[Source(f)]
  <2>1. Parse(f) \notin SessionInputs
    BY DEF Parse, Key, SessionInputs, FileSet, Source
  <2>2. Verified(Parse(f))
    BY <2>1 DEF Fresh
  <2> QED BY <2>2, ParseCurrent, NowIs
<1>3. Now = [f \in 1..world[FileSet] |-> world[Source(f)]]
  BY NowIs
<1> QED BY <1>1, <1>2, <1>3

(* Rank by rank, verified digests are those of the program as it stands.   *)
LEMMA DigestCurrent ==
  ASSUME WorldOK, MemosOK, NEW k, Verified(k), k.kind \in Digested
  PROVE  /\ memos[k].value = Slice(k, Now)
         /\ k.kind = "SPEC_DEPS" => IsSpec(Now, k.arg) /\ memos[k].value = References(Now, k.arg)
<1>1. k \in SessionDerived /\ MemoOK(k, memos[k])
  BY DEF Verified, Memoized, MemosOK, MemoOK
<1>2. CASE k.kind = "PARSE"
  <2>1. k = Parse(k.arg) /\ k.arg \in Files
    <3>1. k = Key(k.kind, k.arg)
      BY <1>1, KeysAre
    <3> QED BY <1>1, <1>2, <3>1 DEF MemoOK, Parse
  <2>2. Verified(Parse(k.arg))
    BY <2>1
  <2>3. memos[Parse(k.arg)].value = Now[k.arg]
    BY <2>1, <2>2, ParseCurrent
  <2>4. Slice(k, Now) = Now[k.arg]
    BY <1>2 DEF Slice
  <2> QED BY <1>2, <2>1, <2>3, <2>4
<1>3. ASSUME NEW g, Verified(g), g \in SessionDerived, g.kind \in {"RESOLUTION", "SPEC_GRAPH"}
      PROVE  memos[g].value = Slice(g, Now)
  <2> DEFINE m == memos[g]
             n == world[FileSet]
  <2>1. \A j \in 1..Len(m.deps) : Fresh(m.deps[j])
    BY <1>3, VerifiedExplained
  <2>2. PICK past : /\ \A j \in 1..Len(m.deps) : past[m.deps[j]] = Held(m.deps[j])
                    /\ Explains(past, g, m.deps, m.value)
    BY <1>3, VerifiedExplained
  <2> HIDE DEF m
  <2>3. /\ past[FileSet] \in Nat /\ Len(m.deps) = past[FileSet] + 1
        /\ m.deps[1] = FileSet
        /\ \A f \in 1..past[FileSet] : m.deps[f + 1] = Parse(f)
        /\ m.value = Slice(g, [f \in 1..past[FileSet] |-> past[Parse(f)]])
    BY <1>3, <2>2 DEF Explains
  <2>4. past[FileSet] = n /\ Files = 1..n /\ n \in Nat
    <3>1. past[FileSet] = Held(FileSet)
      BY <2>2, <2>3
    <3> QED BY <3>1, NowIs, KeysAre DEF Held
  <2>5. ASSUME NEW f \in Files PROVE Fresh(Parse(f)) /\ past[Parse(f)] = Held(Parse(f))
    <3>1. f + 1 \in 1..Len(m.deps) /\ m.deps[f + 1] = Parse(f)
      BY <2>3, <2>4
    <3> QED BY <2>1, <2>2, <3>1 DEF m
  <2>6. [f \in 1..n |-> past[Parse(f)]] = [f \in 1..n |-> Held(Parse(f))]
    BY <2>4, <2>5
  <2>7. [f \in 1..n |-> Held(Parse(f))] = Now
    <3>1. [f \in 1..Held(FileSet) |-> Held(Parse(f))] = Now /\ Held(FileSet) = n
      BY <2>5, ParsesAreNow
    <3> QED BY <3>1
  <2> HIDE DEF n
  <2>8. m.value = Slice(g, Now)
    BY <2>3, <2>4, <2>6, <2>7
  <2> QED BY <2>8 DEF m
<1>4. CASE k.kind \in {"RESOLUTION", "SPEC_GRAPH"}
  BY <1>1, <1>3, <1>4
<1>5. CASE k.kind = "SPEC_DEPS"
  <2> DEFINE m == memos[k]
  <2>1. \A j \in 1..Len(m.deps) : Fresh(m.deps[j])
    BY VerifiedExplained
  <2>2. PICK past : /\ \A j \in 1..Len(m.deps) : past[m.deps[j]] = Held(m.deps[j])
                    /\ Explains(past, k, m.deps, m.value)
    BY VerifiedExplained
  <2> HIDE DEF m
  <2>3. Len(m.deps) > 0 /\ m.deps[1] = SpecGraph /\ <<k.arg, m.value>> \in past[SpecGraph]
        /\ Len(m.deps) \in Nat
    BY <1>1, <1>5, <2>2 DEF Explains, MemoOK, m
  <2>4. 1 \in 1..Len(m.deps)
    BY <2>3
  <2>5. Fresh(SpecGraph) /\ past[SpecGraph] = Held(SpecGraph)
    BY <2>1, <2>2, <2>3, <2>4 DEF m
  <2>6. SpecGraph.kind = "SPEC_GRAPH" /\ SpecGraph \in SessionDerived /\ SpecGraph \notin SessionInputs
    <3>1. SpecGraph \in SessionDerived
      BY DEF SessionDerived
    <3> QED BY <3>1, KeysAre DEF SpecGraph, Key
  <2>7. Held(SpecGraph) = Slice(SpecGraph, Now)
    BY <1>3, <2>5, <2>6 DEF Fresh, Held
  <2>8. Slice(SpecGraph, Now) = SpecGraphDigest(Now)
    BY <2>6 DEF Slice
  <2>9. PICK s \in SpecsIn(Now) : <<k.arg, m.value>> = <<s, DependenciesOf(Now, s)>>
    BY <2>3, <2>5, <2>7, <2>8 DEF SpecGraphDigest
  <2>10. k.arg \in SpecsIn(Now) /\ m.value = DependenciesOf(Now, k.arg)
    BY <2>9
  <2>11. IsSpec(Now, k.arg)
    BY <2>10 DEF SpecsIn
  <2>12. Slice(k, Now) = SpecClosure(Now, k.arg)
    BY <1>5 DEF Slice
  <2> QED BY <2>10, <2>11, <2>12, ClosureIs DEF m
<1> QED BY <1>2, <1>4, <1>5 DEF Digested

(* The next dependency of a memo whose dependencies so far are as they     *)
(* were is live: what a spec depended on, it still does.                   *)
LEMMA NextDepLives ==
  ASSUME WorldOK, MemosOK, NEW k \in DOMAIN memos, Lives(k),
         NEW n \in 1..Len(memos[k].deps),
         \A j \in 1..(n - 1) :
           Fresh(memos[k].deps[j]) /\ Since(memos[k].deps[j]) <= memos[k].verifiedAt,
         Memoized(memos[k].deps[n])
  PROVE  /\ Lives(memos[k].deps[n]) /\ memos[k].deps[n] \in SessionDerived
         /\ Rank(memos[k].deps[n]) < Rank(k)
<1> DEFINE m == memos[k]
           d == m.deps[n]
<1>1. MemoOK(k, m) /\ MemoOK(d, memos[d])
  BY DEF MemosOK, Memoized
<1> HIDE DEF m
<1>2. Rank(d) < Rank(k) /\ Len(m.deps) \in Nat /\ Explained(k, m) /\ k \in SessionDerived
  BY <1>1 DEF MemoOK, m
<1>3. d \in SessionDerived /\ (d.kind \in {"PARSE", "INTERFACE"} => d.arg \in Files)
  BY <1>1 DEF MemoOK
<1>4. d.kind \in Kinds /\ k.kind \in Kinds
  BY <1>2, <1>3, KeysAre
<1>5. PICK past :
        /\ \A j \in 1..Len(m.deps) : Since(m.deps[j]) <= m.verifiedAt => past[m.deps[j]] = Held(m.deps[j])
        /\ Explains(past, k, m.deps, m.value)
  BY <1>2 DEF Explained
<1>6. ASSUME d.kind \in {"PARSE", "INTERFACE", "RESOLUTION", "SPEC_GRAPH"} PROVE Lives(d)
  BY <1>3, <1>6 DEF Lives
<1>7. ASSUME d.kind \in {"TYPE_OF", "FN_BODY", "MIR_OF", "SPEC_DEPS"} PROVE Lives(d)
  <2>1. Rank(d) \in {4, 5} /\ Rank(k) \in 0..5
    BY <1>3, <1>7, RankIs
  <2>2. Rank(k) = 5
    BY <1>2, <2>1
  <2>3. k.kind \in {"MIR_OF", "SPEC_DEPS"}
    BY <1>2, <1>4, <2>2, RankIs DEF Kinds
  <2>4. CASE k.kind = "MIR_OF"
    <3>1. d = TypeOf(k.arg) \/ d = FnBody(k.arg)
      BY <1>5, <2>4 DEF Explains, m
    <3>2. IsFunction(Now, k.arg)
      BY <2>4 DEF Lives
    <3> QED BY <3>1, <3>2, LiveKeys
  <2>5. CASE k.kind = "SPEC_DEPS"
    <3>1. /\ Len(m.deps) > 0 /\ m.deps[1] = SpecGraph
          /\ <<k.arg, m.value>> \in past[SpecGraph]
          /\ \A j \in 2..Len(m.deps) : \E t \in m.value : m.deps[j] = TypeOf(t)
      BY <1>5, <2>5 DEF Explains
    <3>2. n # 1
      <4>1. d # SpecGraph
        BY <1>7 DEF SpecGraph, Key
      <4> QED BY <3>1, <4>1
    <3>3. n \in 2..Len(m.deps) /\ 1 \in 1..(n - 1) /\ 1 \in 1..Len(m.deps)
      <4>1. n \in 1..Len(m.deps)
        BY DEF m
      <4> QED BY <1>2, <3>2, <4>1
    <3>4. PICK t \in m.value : d = TypeOf(t)
      BY <3>1, <3>3
    <3>5. Fresh(SpecGraph) /\ Since(SpecGraph) <= m.verifiedAt
      BY <3>1, <3>3 DEF m
    <3>6. past[SpecGraph] = Held(SpecGraph)
      BY <1>5, <3>1, <3>3, <3>5
    <3>7. SpecGraph \notin SessionInputs /\ SpecGraph.kind = "SPEC_GRAPH"
      BY DEF SpecGraph, Key, SessionInputs, FileSet, Source
    <3>8. Held(SpecGraph) = Slice(SpecGraph, Now)
      BY <3>5, <3>7, DigestCurrent DEF Fresh, Held, Digested
    <3>9. Slice(SpecGraph, Now) = SpecGraphDigest(Now)
      BY <3>7 DEF Slice
    <3>10. PICK s \in SpecsIn(Now) : <<k.arg, m.value>> = <<s, DependenciesOf(Now, s)>>
      BY <3>1, <3>6, <3>8, <3>9 DEF SpecGraphDigest
    <3>11. t \in DependenciesOf(Now, s)
      BY <3>4, <3>10
    <3>12. IsFunction(Now, t)
      BY <3>11, ReferencesAre DEF DependenciesOf
    <3> QED BY <3>4, <3>12, LiveKeys
  <2> QED BY <2>3, <2>4, <2>5
<1> QED BY <1>2, <1>3, <1>4, <1>6, <1>7 DEF m, Kinds

(* The value a run returns is explained by what it read.                   *)
LEMMA ReturnExplained ==
  ASSUME WorldOK, MemosOK, NEW k \in SessionDerived, Lives(k),
         NEW deps, Len(deps) = Len(ReadsOf(k, Now)),
         \A j \in 1..Len(deps) : deps[j] = ReadsOf(k, Now)[j] /\ Fresh(deps[j])
  PROVE  \E past :
           /\ \A j \in 1..Len(deps) : past[deps[j]] = Held(deps[j])
           /\ Explains(past, k, deps, Slice(k, Now))
<1> DEFINE past == [d \in SessionInputs \cup DOMAIN memos |-> Held(d)]
           r == ReadsOf(k, Now)
           n == world[FileSet]
<1>1. \A d : Fresh(d) => past[d] = Held(d)
  BY DEF Fresh, Verified, Memoized
<1>2. \A j \in 1..Len(deps) : past[deps[j]] = Held(deps[j])
  BY <1>1
<1>3. Len(deps) = Len(r) /\ \A j \in 1..Len(deps) : deps[j] = r[j] /\ Fresh(deps[j])
  OBVIOUS
<1>4. Files = 1..n /\ n \in Nat
  BY NowIs
<1>5. IsSeq(r) /\ Len(r) \in Nat
  BY ReadsByKind, SeqIs
<1> HIDE DEF past, r, n
<1>6. ASSUME k.kind = "PARSE"
      PROVE  Len(deps) = 1 /\ deps[1] = Source(k.arg) /\ Slice(k, Now) = past[Source(k.arg)]
  <2>1. Len(r) = 1 /\ r[1] = Source(k.arg)
    BY <1>6, ReadsByKind DEF r
  <2>2. Len(deps) = 1 /\ deps[1] = Source(k.arg)
    BY <1>3, <2>1
  <2>3. k.arg \in Files
    BY <1>6 DEF Lives
  <2>4. Source(k.arg) \in SessionInputs /\ Now[k.arg] = world[Source(k.arg)]
    BY <2>3, NowIs, KeysAre
  <2>5. past[Source(k.arg)] = world[Source(k.arg)]
    BY <2>4 DEF past, Held
  <2>6. Slice(k, Now) = Now[k.arg]
    BY <1>6 DEF Slice
  <2> QED BY <2>2, <2>4, <2>5, <2>6
<1>7. ASSUME k.kind \in {"RESOLUTION", "SPEC_GRAPH"}
      PROVE  /\ past[FileSet] \in Nat /\ Len(deps) = past[FileSet] + 1
             /\ deps[1] = FileSet
             /\ \A f \in 1..past[FileSet] : deps[f + 1] = Parse(f)
             /\ Slice(k, Now) = Slice(k, [f \in 1..past[FileSet] |-> past[Parse(f)]])
  <2>1. Len(r) = n + 1 /\ r[1] = FileSet /\ \A f \in 1..n : r[f + 1] = Parse(f)
    BY <1>7, ReadsByKind DEF r, n
  <2>2. Len(deps) = n + 1 /\ deps[1] = FileSet /\ \A f \in 1..n : deps[f + 1] = Parse(f) /\ Fresh(Parse(f))
    BY <1>3, <1>4, <2>1
  <2>3. past[FileSet] = n
    BY KeysAre DEF past, Held, n
  <2>4. \A f \in Files : Fresh(Parse(f))
    BY <1>4, <2>2
  <2>5. [f \in 1..Held(FileSet) |-> Held(Parse(f))] = Now /\ Held(FileSet) = n
    BY <2>4, ParsesAreNow DEF n
  <2>6. \A f \in 1..n : past[Parse(f)] = Held(Parse(f))
    BY <1>1, <2>2
  <2>7. [f \in 1..n |-> past[Parse(f)]] = Now
    BY <2>5, <2>6
  <2> QED BY <1>4, <2>2, <2>3, <2>7
<1>8. ASSUME k.kind = "SPEC_DEPS"
      PROVE  /\ Len(deps) > 0 /\ deps[1] = SpecGraph
             /\ <<k.arg, Slice(k, Now)>> \in past[SpecGraph]
             /\ \A j \in 2..Len(deps) : \E d \in Slice(k, Now) : deps[j] = TypeOf(d)
  <2>1. Slice(k, Now) = SpecClosure(Now, k.arg)
    BY <1>8 DEF Slice
  <2>2. r = SpecDepsReads(Now, k.arg)
    BY <1>8, ReadsByKind DEF r
  <2>3. /\ Len(r) \in Nat /\ Len(r) > 0 /\ r[1] = SpecGraph
        /\ \A j \in 2..Len(r) :
             \E d \in SpecClosure(Now, k.arg) : IsFunction(Now, d) /\ r[j] = TypeOf(d)
    BY <2>2, SpecReadsAre
  <2>4. /\ Len(deps) > 0 /\ deps[1] = SpecGraph /\ Fresh(SpecGraph)
        /\ \A j \in 2..Len(deps) : \E d \in SpecClosure(Now, k.arg) : deps[j] = TypeOf(d)
    BY <1>3, <2>3
  <2>5. SpecGraph \notin SessionInputs /\ SpecGraph.kind = "SPEC_GRAPH"
    BY DEF SpecGraph, Key, SessionInputs, FileSet, Source
  <2>6. past[SpecGraph] = Slice(SpecGraph, Now)
    BY <1>1, <2>4, <2>5, DigestCurrent DEF Fresh, Held, Digested
  <2>7. Slice(SpecGraph, Now) = SpecGraphDigest(Now)
    BY <2>5 DEF Slice
  <2>8. k.arg \in SpecsIn(Now) /\ IsSpec(Now, k.arg)
    BY <1>8 DEF Lives, SpecsIn, IsSpec, IsKind
  <2>9. <<k.arg, SpecClosure(Now, k.arg)>> \in SpecGraphDigest(Now)
    BY <2>8, ClosureIs DEF SpecGraphDigest
  <2> QED BY <2>1, <2>4, <2>6, <2>7, <2>9
<1>9. ASSUME k.kind = "MIR_OF"
      PROVE  \A j \in 1..Len(deps) : deps[j] \in {TypeOf(k.arg), FnBody(k.arg)}
  <2>1. Len(r) = 2 /\ r[1] = TypeOf(k.arg) /\ r[2] = FnBody(k.arg)
    BY <1>9, ReadsByKind DEF r
  <2> QED BY <1>3, <2>1
<1>10. Explains(past, k, deps, Slice(k, Now))
  BY ONLY <1>6, <1>7, <1>8, <1>9 DEF Explains
<1> QED BY <1>2, <1>10
-----------------------------------------------------------------------------
(* What an engine step does to the memos: at most one key is settled anew. *)

SameWorld == UNCHANGED <<revision, inputChanged, world>>

(* Settled keys stay as they are, and what changes does so now.            *)
SettledStays ==
  /\ SameWorld
  /\ \A d : Fresh(d) => Fresh(d)'
  /\ \A d : Kept(d) =>
       /\ Kept(d)'
       /\ \/ Since(d)' = Since(d) /\ Held(d)' = Held(d)
          \/ Since(d)' = revision /\ ~Fresh(d)

(* The program is the same in the same world.                              *)
LEMMA SameNow ==
  ASSUME SameWorld
  PROVE  /\ Now' = Now /\ Files' = Files
         /\ \A k : Lives(k)' <=> Lives(k)
         /\ WorldOK' <=> WorldOK
         /\ \A c, d : Waits(c, d)' <=> Waits(c, d)
         /\ \A c, f, h : FrameOK(c, f, h)' <=> FrameOK(c, f, h)
<1>1. world' = world /\ revision' = revision /\ inputChanged' = inputChanged
  BY DEF SameWorld
<1>2. Now' = Now
  BY <1>1 DEF Now, Program
<1>3. Files' = Files
  BY <1>2 DEF Files
<1>4. \A k : Lives(k)' <=> Lives(k)
  BY <1>2, <1>3 DEF Lives
<1>5. WorldOK' <=> WorldOK
  BY <1>1 DEF WorldOK
<1>6. \A c, d : Waits(c, d)' <=> Waits(c, d)
  BY <1>2 DEF Waits
<1>7. \A c, f, h : FrameOK(c, f, h)' <=> FrameOK(c, f, h)
  BY <1>2 DEF FrameOK
<1> QED BY <1>2, <1>3, <1>4, <1>5, <1>6, <1>7

(* The other memos stay explained.                                         *)
LEMMA MemoStays ==
  ASSUME WorldOK, SettledStays, NEW k, NEW m, MemoOK(k, m)
  PROVE  MemoOK(k, m)'
<1>1. revision' = revision /\ revision \in Nat /\ Files' = Files
  BY SameNow DEF SettledStays, SameWorld, WorldOK
<1>2. /\ m.verifiedAt \in Nat /\ m.verifiedAt <= revision /\ Len(m.deps) \in Nat
      /\ \A j \in 1..Len(m.deps) :
           Kept(m.deps[j]) /\ (m.verifiedAt = revision => Fresh(m.deps[j]))
  BY DEF MemoOK
<1>3. ASSUME NEW j \in 1..Len(m.deps)
      PROVE  /\ Rank(m.deps[j]) < Rank(k) /\ Kept(m.deps[j])'
             /\ m.verifiedAt = revision' => Fresh(m.deps[j])'
  <2>1. Rank(m.deps[j]) < Rank(k)
    BY DEF MemoOK
  <2> QED BY <1>1, <1>2, <2>1 DEF SettledStays
<1>4. PICK past :
        /\ \A j \in 1..Len(m.deps) : Since(m.deps[j]) <= m.verifiedAt => past[m.deps[j]] = Held(m.deps[j])
        /\ Explains(past, k, m.deps, m.value)
  BY DEF MemoOK, Explained
<1>5. ASSUME NEW j \in 1..Len(m.deps), Since(m.deps[j])' <= m.verifiedAt
      PROVE  past[m.deps[j]] = Held(m.deps[j])'
  <2> DEFINE d == m.deps[j]
  <2>1. Kept(d) /\ (m.verifiedAt = revision => Fresh(d))
    BY <1>2
  <2>2. CASE Since(d)' = Since(d) /\ Held(d)' = Held(d)
    BY <1>4, <1>5, <2>2
  <2>3. CASE Since(d)' = revision /\ ~Fresh(d)
    <3>1. m.verifiedAt = revision
      <4>1. revision <= m.verifiedAt
        BY <1>5, <2>3
      <4> QED BY <1>1, <1>2, <4>1
    <3> QED BY <2>1, <2>3, <3>1
  <2> QED BY <2>1, <2>2, <2>3 DEF SettledStays
<1>6. Explained(k, m)'
  BY <1>4, <1>5 DEF Explained
<1>7. /\ k \in SessionDerived
      /\ k.kind \in {"PARSE", "INTERFACE"} => k.arg \in Files'
      /\ IsMemo(m)
      /\ m.changedAt \in Nat /\ m.verifiedAt \in Nat
      /\ m.changedAt <= m.verifiedAt /\ m.verifiedAt <= revision'
      /\ Len(m.deps) \in Nat
  BY <1>1 DEF MemoOK
<1> QED BY <1>3, <1>6, <1>7 DEF MemoOK

(* The activations of other keys stay true.                                *)
LEMMA CallStays ==
  ASSUME SettledStays, MemosOK, NEW c, CallOK(c), ~Verified(c.key)',
         c.key \in DOMAIN memos => c.key \in DOMAIN memos' /\ memos'[c.key] = memos[c.key]
  PROVE  CallOK(c)'
<1>1. SameWorld /\ \A d : Fresh(d) => Fresh(d)' /\ Since(d)' = Since(d)
  BY DEF SettledStays, Fresh, Kept, Verified
<1>2. Now' = Now /\ (Lives(c.key)' <=> Lives(c.key))
  BY <1>1, SameNow
<1>3. ASSUME CheckOK(c) PROVE CheckOK(c)'
  <2>1. /\ c = [op |-> "validate", key |-> c.key, memo |-> c.memo, next |-> c.next]
        /\ c.key \in DOMAIN memos' /\ c.memo = memos'[c.key]
        /\ c.next \in 1..(Len(c.memo.deps) + 1)
    BY <1>3 DEF CheckOK
  <2>2. ASSUME NEW j \in 1..(c.next - 1)
        PROVE  Fresh(c.memo.deps[j])' /\ Since(c.memo.deps[j])' <= c.memo.verifiedAt
    <3>1. Fresh(c.memo.deps[j]) /\ Since(c.memo.deps[j]) <= c.memo.verifiedAt
      BY <1>3 DEF CheckOK
    <3> QED BY <1>1, <3>1
  <2> QED BY <2>1, <2>2 DEF CheckOK
<1>4. ASSUME RunOK(c) PROVE RunOK(c)'
  BY <1>1, <1>2, <1>4 DEF RunOK
<1> QED BY <1>2, <1>3, <1>4 DEF CallOK

(* What the activations know outlives a step that settles another key.     *)
LEMMA ChainStays ==
  ASSUME SettledStays, MemosOK, NEW cs, NEW fs, Chain(cs, fs),
         \A i \in 1..Len(cs) :
           /\ ~Verified(cs[i].key)'
           /\ cs[i].key \in DOMAIN memos =>
                cs[i].key \in DOMAIN memos' /\ memos'[cs[i].key] = memos[cs[i].key]
  PROVE  Chain(cs, fs)'
<1>1. SameWorld
  BY DEF SettledStays
<1>2. ASSUME NEW i \in 1..Len(cs) PROVE CallOK(cs[i])'
  <2>1. PICK c : c = cs[i]
    OBVIOUS
  <2>2. CallOK(c)
    BY <2>1 DEF Chain
  <2>3. ~Verified(c.key)' /\ (c.key \in DOMAIN memos => c.key \in DOMAIN memos' /\ memos'[c.key] = memos[c.key])
    BY <2>1
  <2>4. CallOK(c)'
    BY <2>2, <2>3, CallStays
  <2> QED BY <2>1, <2>4
<1>3. \A i \in 1..(Len(cs) - 1) : Waits(cs[i], cs[i + 1].key)' /\ FrameOK(cs[i], fs[i], 1)'
  BY <1>1, SameNow DEF Chain
<1> QED BY <1>2, <1>3 DEF Chain

(* Nothing settled: the world and the memos are as they were.              *)
LEMMA QuietTable ==
  ASSUME WorldOK, MemosOK, SameWorld, UNCHANGED memos
  PROVE  /\ WorldOK' /\ MemosOK' /\ SettledStays
         /\ \A k : (Verified(k)' <=> Verified(k)) /\ (Memoized(k)' <=> Memoized(k))
<1>1. \A k : (Verified(k)' <=> Verified(k)) /\ (Memoized(k)' <=> Memoized(k))
  BY DEF Verified, Memoized, SameWorld
<1>2. \A d : Since(d)' = Since(d) /\ Held(d)' = Held(d)
  BY DEF Since, Held, SameWorld
<1>3. \A d : (Kept(d)' <=> Kept(d)) /\ (Fresh(d)' <=> Fresh(d))
  BY <1>1 DEF Kept, Fresh
<1>4. SettledStays
  BY <1>2, <1>3 DEF SettledStays
<1>5. ASSUME NEW k \in DOMAIN memos PROVE MemoOK(k, memos[k])'
  <2>1. PICK m : m = memos[k]
    OBVIOUS
  <2>2. MemoOK(k, m)'
    BY <1>4, <1>5, <2>1, MemoStays DEF MemosOK
  <2> QED BY <2>1, <2>2
<1>6. MemosOK'
  BY <1>5 DEF MemosOK
<1> QED BY <1>1, <1>4, <1>6, SameNow

(* An unchanged chain over an unchanged table.                             *)
LEMMA QuietChain ==
  ASSUME WorldOK, MemosOK, SameWorld, UNCHANGED memos, NEW cs, NEW fs, Chain(cs, fs)
  PROVE  Chain(cs, fs)'
<1>1. SettledStays /\ \A k : Verified(k)' <=> Verified(k)
  BY QuietTable
<1>2. \A i \in 1..Len(cs) : ~Verified(cs[i].key)
  BY DEF Chain, CallOK
<1> QED BY <1>1, <1>2, ChainStays

(* The memo m of k is settled in this revision, over settled dependencies. *)
Settles(k, m) ==
  /\ k \in SessionDerived /\ ~Verified(k)
  /\ k.kind \in {"PARSE", "INTERFACE"} => k.arg \in Files
  /\ IsMemo(m) /\ m.verifiedAt = revision
  /\ m.changedAt \in Nat /\ m.changedAt <= revision /\ Len(m.deps) \in Nat
  /\ \/ k \in DOMAIN memos /\ m.value = memos[k].value /\ m.changedAt = memos[k].changedAt
     \/ m.changedAt = revision
  /\ \A j \in 1..Len(m.deps) : Rank(m.deps[j]) < Rank(k) /\ Fresh(m.deps[j])
  /\ \E past :
       /\ \A j \in 1..Len(m.deps) : past[m.deps[j]] = Held(m.deps[j])
       /\ Explains(past, k, m.deps, m.value)

(* Settling one key keeps every memo explained.                            *)
LEMMA TableStep ==
  ASSUME WorldOK, MemosOK, SameWorld, NEW k, NEW m, Settles(k, m),
         memos' = [d \in DOMAIN memos \cup {k} |-> IF d = k THEN m ELSE memos[d]]
  PROVE  /\ WorldOK' /\ MemosOK' /\ SettledStays
         /\ Verified(k)' /\ memos'[k] = m
         /\ \A d : d # k => (Verified(d)' <=> Verified(d))
         /\ \A d \in DOMAIN memos : d # k => d \in DOMAIN memos' /\ memos'[d] = memos[d]
<1>1. revision' = revision /\ revision \in Nat /\ world' = world /\ inputChanged' = inputChanged
  BY DEF SameWorld, WorldOK
<1>2. DOMAIN memos' = DOMAIN memos \cup {k} /\ memos'[k] = m
  OBVIOUS
<1>3. \A d \in DOMAIN memos : d # k => d \in DOMAIN memos' /\ memos'[d] = memos[d]
  OBVIOUS
<1>4. \A d : d # k => (d \in DOMAIN memos' <=> d \in DOMAIN memos)
  BY <1>2
<1>5. \A d : d # k => (Verified(d)' <=> Verified(d))
  BY <1>1, <1>3, <1>4 DEF Verified, Memoized
<1>6. Verified(k)'
  BY <1>1, <1>2 DEF Verified, Memoized, Settles
<1>7. k \notin SessionInputs /\ k \in SessionDerived /\ ~Verified(k) /\ ~Fresh(k)
  BY KeysAre DEF Settles, Fresh
<1>8. \A d : Fresh(d) => Fresh(d)'
  BY <1>5, <1>7 DEF Fresh
<1>9. ASSUME NEW d, Kept(d)
      PROVE  /\ Kept(d)'
             /\ \/ Since(d)' = Since(d) /\ Held(d)' = Held(d)
                \/ Since(d)' = revision /\ ~Fresh(d)
  <2>1. CASE d \in SessionInputs
    BY <1>1, <2>1 DEF Kept, Since, Held
  <2>2. CASE d \notin SessionInputs /\ d # k
    <3>1. d \in DOMAIN memos
      BY <1>9, <2>2 DEF Kept, Memoized
    <3>2. d \in DOMAIN memos' /\ memos'[d] = memos[d]
      BY <1>3, <2>2, <3>1
    <3> QED BY <2>2, <3>2 DEF Kept, Memoized, Since, Held
  <2>3. CASE d = k
    <3>1. Kept(k)' /\ Since(k)' = m.changedAt /\ Held(k)' = m.value
      BY <1>2, <1>7 DEF Kept, Memoized, Since, Held
    <3>2. Since(k) = memos[k].changedAt /\ Held(k) = memos[k].value
      BY <1>7 DEF Since, Held
    <3>3. (m.value = memos[k].value /\ m.changedAt = memos[k].changedAt) \/ m.changedAt = revision
      BY DEF Settles
    <3> QED BY <1>7, <2>3, <3>1, <3>2, <3>3
  <2> QED BY <2>1, <2>2, <2>3
<1>10. SettledStays
  BY <1>8, <1>9 DEF SettledStays
<1>11. MemoOK(k, m)'
  <2>1. ASSUME NEW j \in 1..Len(m.deps)
        PROVE  /\ Rank(m.deps[j]) < Rank(k) /\ Kept(m.deps[j])' /\ Fresh(m.deps[j])'
               /\ Held(m.deps[j])' = Held(m.deps[j])
    <3>1. Rank(m.deps[j]) < Rank(k) /\ Fresh(m.deps[j])
      BY DEF Settles
    <3>2. Kept(m.deps[j])
      BY <3>1 DEF Fresh, Kept, Verified
    <3> QED BY <3>1, <3>2, <1>8, <1>9
  <2>2. PICK past :
          /\ \A j \in 1..Len(m.deps) : past[m.deps[j]] = Held(m.deps[j])
          /\ Explains(past, k, m.deps, m.value)
    BY DEF Settles
  <2>3. \A j \in 1..Len(m.deps) : past[m.deps[j]] = Held(m.deps[j])'
    BY <2>1, <2>2
  <2>4. Explained(k, m)'
    BY <2>2, <2>3 DEF Explained
  <2>5. Files' = Files
    BY SameNow
  <2>6. /\ k \in SessionDerived
        /\ k.kind \in {"PARSE", "INTERFACE"} => k.arg \in Files'
        /\ IsMemo(m)
        /\ m.changedAt \in Nat /\ m.verifiedAt \in Nat
        /\ m.changedAt <= m.verifiedAt /\ m.verifiedAt <= revision'
        /\ Len(m.deps) \in Nat
    BY <1>1, <2>5 DEF Settles
  <2> QED BY <2>1, <2>4, <2>6 DEF MemoOK
<1>12. ASSUME NEW d \in DOMAIN memos' PROVE MemoOK(d, memos[d])'
  <2>1. CASE d = k
    BY <1>2, <1>11, <2>1
  <2>2. CASE d # k
    <3>1. d \in DOMAIN memos /\ memos'[d] = memos[d]
      BY <1>3, <1>4, <2>2
    <3>2. PICK mm : mm = memos[d]
      OBVIOUS
    <3>3. MemoOK(d, mm)'
      BY <1>10, <3>1, <3>2, MemoStays DEF MemosOK
    <3> QED BY <3>1, <3>2, <3>3
  <2> QED BY <2>1, <2>2
<1>13. MemosOK'
  <2>1. memos' = [d \in DOMAIN memos' |-> memos'[d]]
    BY <1>2
  <2> QED BY <1>12, <2>1 DEF MemosOK
<1> QED BY <1>2, <1>3, <1>5, <1>6, <1>10, <1>13, SameNow
-----------------------------------------------------------------------------
(* The stack of activations.                                               *)

(* Nothing runs.                                                           *)
LEMMA EmptyChain == Chain(<<>>, <<>>)
BY EmptyIs DEF Chain

(* The innermost activation.                                               *)
LEMMA TopIs ==
  ASSUME NEW cs, NEW fs, Chain(cs, fs), cs # <<>>
  PROVE  /\ fs # <<>> /\ Len(cs) \in Nat \ {0} /\ Len(fs) = Len(cs)
         /\ IsSeq(cs) /\ IsSeq(fs)
         /\ Top(cs) = cs[Len(cs)] /\ Top(fs) = fs[Len(cs)]
         /\ CallOK(Top(cs))
         /\ \A i \in 1..(Len(cs) - 1) : Rank(Top(cs).key) < Rank(cs[i].key)
<1>1. IsSeq(cs) /\ IsSeq(fs) /\ Len(cs) = Len(fs)
  BY DEF Chain
<1>2. Len(cs) \in Nat \ {0} /\ Top(cs) = cs[Len(cs)]
  BY <1>1, PopIs
<1>3. fs # <<>>
  BY <1>1, <1>2, SeqIs
<1>4. Top(fs) = fs[Len(cs)]
  BY <1>1, <1>3, PopIs
<1>5. CallOK(cs[Len(cs)]) /\ \A i \in 1..(Len(cs) - 1) : Rank(cs[Len(cs)].key) < Rank(cs[i].key)
  BY <1>2 DEF Chain
<1> QED BY <1>1, <1>2, <1>3, <1>4, <1>5

(* Below it there is a chain, whose top waits for it.                      *)
LEMMA PopChain ==
  ASSUME NEW cs, NEW fs, Chain(cs, fs), cs # <<>>
  PROVE  /\ Chain(Pop(cs), Pop(fs))
         /\ Pop(cs) # <<>> =>
              /\ Waits(Top(Pop(cs)), Top(cs).key) /\ FrameOK(Top(Pop(cs)), Top(Pop(fs)), 1)
              /\ Rank(Top(cs).key) < Rank(Top(Pop(cs)).key)
              /\ Pop(cs)[1] = cs[1]
<1> DEFINE n == Len(cs) - 1
           p == Pop(cs)
           g == Pop(fs)
<1>1. /\ fs # <<>> /\ Len(cs) \in Nat \ {0} /\ Len(fs) = Len(cs)
      /\ IsSeq(cs) /\ IsSeq(fs) /\ Top(cs) = cs[n + 1] /\ n \in Nat
      /\ \A i \in 1..n : Rank(Top(cs).key) < Rank(cs[i].key)
  BY TopIs
<1>2. IsSeq(p) /\ Len(p) = n /\ \A i \in 1..n : p[i] = cs[i]
  BY <1>1, PopIs
<1>3. IsSeq(g) /\ Len(g) = n /\ \A i \in 1..n : g[i] = fs[i]
  BY <1>1, PopIs
<1>0. Len(cs) = n + 1
  BY <1>1
<1> HIDE DEF n, p, g
<1>4. /\ \A i \in 1..(n + 1) : CallOK(cs[i])
      /\ \A i \in 1..n : Waits(cs[i], cs[i + 1].key) /\ FrameOK(cs[i], fs[i], 1)
      /\ \A i, j \in 1..(n + 1) : i < j => Rank(cs[j].key) < Rank(cs[i].key)
  <2>1. (n + 1) - 1 = n
    BY <1>1
  <2> QED BY <1>0, <2>1 DEF Chain
<1>5. Chain(p, g)
  <2>1. \A i \in 1..n : CallOK(p[i])
    BY <1>1, <1>2, <1>4
  <2>2. ASSUME NEW i \in 1..(n - 1) PROVE Waits(p[i], p[i + 1].key) /\ FrameOK(p[i], g[i], 1)
    <3>1. i \in 1..n /\ i + 1 \in 1..n
      BY <1>1
    <3> QED BY <1>2, <1>3, <1>4, <3>1
  <2>3. ASSUME NEW i \in 1..n, NEW j \in 1..n, i < j PROVE Rank(p[j].key) < Rank(p[i].key)
    <3>1. i \in 1..(n + 1) /\ j \in 1..(n + 1)
      BY <1>1
    <3> QED BY <1>2, <1>4, <2>3, <3>1
  <2> QED BY <1>2, <1>3, <2>1, <2>2, <2>3 DEF Chain
<1>6. ASSUME p # <<>>
      PROVE  /\ Waits(Top(p), Top(cs).key) /\ FrameOK(Top(p), Top(g), 1)
             /\ Rank(Top(cs).key) < Rank(Top(p).key) /\ p[1] = cs[1]
  <2>1. n \in Nat \ {0} /\ Top(p) = p[n]
    BY <1>2, <1>6, PopIs
  <2>2. g # <<>>
    BY <1>3, <2>1, SeqIs
  <2>3. Top(g) = g[n]
    BY <1>3, <2>2, PopIs
  <2>4. n \in 1..n /\ 1 \in 1..n
    BY <2>1
  <2>5. p[n] = cs[n] /\ g[n] = fs[n] /\ p[1] = cs[1]
    BY <1>2, <1>3, <2>4
  <2>6. Waits(cs[n], cs[n + 1].key) /\ FrameOK(cs[n], fs[n], 1) /\ Rank(Top(cs).key) < Rank(cs[n].key)
    BY <1>1, <1>4, <2>4
  <2> QED BY <1>1, <2>1, <2>3, <2>5, <2>6
<1> QED BY <1>5, <1>6 DEF p, g

(* An activation pushed on a chain whose top waits for it.                 *)
LEMMA PushChain ==
  ASSUME NEW cs, NEW fs, Chain(cs, fs), NEW c, CallOK(c), NEW f,
         cs # <<>> => /\ Waits(Top(cs), c.key) /\ FrameOK(Top(cs), Top(fs), 1)
                      /\ Rank(c.key) < Rank(Top(cs).key)
  PROVE  /\ Chain(Append(cs, c), Append(fs, f))
         /\ Append(cs, c) # <<>>
         /\ Top(Append(cs, c)) = c /\ Top(Append(fs, f)) = f
         /\ Append(cs, c)[1] = IF cs = <<>> THEN c ELSE cs[1]
<1> DEFINE n == Len(cs)
           p == Append(cs, c)
           g == Append(fs, f)
<1>1. IsSeq(cs) /\ IsSeq(fs) /\ Len(fs) = n /\ n \in Nat /\ (cs = <<>> <=> n = 0)
  BY SeqIs DEF Chain
<1>2. /\ IsSeq(p) /\ Len(p) = n + 1 /\ p[n + 1] = c /\ Top(p) = c /\ p # <<>>
      /\ \A i \in 1..n : p[i] = cs[i]
  BY <1>1, PushIs
<1>3. /\ IsSeq(g) /\ Len(g) = n + 1 /\ g[n + 1] = f /\ Top(g) = f
      /\ \A i \in 1..n : g[i] = fs[i]
  BY <1>1, PushIs
<1> HIDE DEF p, g
<1>4. /\ \A i \in 1..n : CallOK(cs[i])
      /\ \A i \in 1..(n - 1) : Waits(cs[i], cs[i + 1].key) /\ FrameOK(cs[i], fs[i], 1)
      /\ \A i, j \in 1..n : i < j => Rank(cs[j].key) < Rank(cs[i].key)
  BY DEF Chain
<1>5. ASSUME n # 0
      PROVE  /\ Top(cs) = cs[n] /\ Top(fs) = fs[n]
             /\ Waits(cs[n], c.key) /\ FrameOK(cs[n], fs[n], 1) /\ Rank(c.key) < Rank(cs[n].key)
             /\ \A i \in 1..n : Rank(c.key) < Rank(cs[i].key)
  <2>1. Top(cs) = cs[n] /\ Top(fs) = fs[n] /\ cs # <<>>
    BY <1>1, <1>5, TopIs
  <2>2. Waits(cs[n], c.key) /\ FrameOK(cs[n], fs[n], 1) /\ Rank(c.key) < Rank(cs[n].key)
    BY <2>1
  <2>3. ASSUME NEW i \in 1..n PROVE Rank(c.key) < Rank(cs[i].key)
    <3>1. i = n \/ Rank(cs[n].key) < Rank(cs[i].key)
      BY <1>1, <1>4
    <3>2. Rank(c.key) \in 0..5 /\ Rank(cs[n].key) \in 0..5 /\ Rank(cs[i].key) \in 0..5
      BY RankIs
    <3> QED BY <2>2, <3>1, <3>2
  <2> QED BY <2>1, <2>2, <2>3
<1> HIDE DEF n
<1>6. \A i \in 1..(n + 1) : CallOK(p[i])
  BY <1>1, <1>2, <1>4
<1>7. ASSUME NEW i \in 1..n PROVE Waits(p[i], p[i + 1].key) /\ FrameOK(p[i], g[i], 1)
  <2>1. CASE i = n
    BY <1>1, <1>2, <1>3, <1>5, <2>1
  <2>2. CASE i # n
    <3>1. i \in 1..(n - 1) /\ i + 1 \in 1..n
      BY <1>1, <2>2
    <3> QED BY <1>2, <1>3, <1>4, <3>1
  <2> QED BY <2>1, <2>2
<1>8. ASSUME NEW i \in 1..(n + 1), NEW j \in 1..(n + 1), i < j PROVE Rank(p[j].key) < Rank(p[i].key)
  <2>1. i \in 1..n /\ n # 0
    BY <1>1, <1>8
  <2>2. CASE j = n + 1
    BY <1>2, <1>5, <2>1, <2>2
  <2>3. CASE j # n + 1
    <3>1. j \in 1..n
      BY <1>1, <2>3
    <3> QED BY <1>2, <1>4, <1>8, <2>1, <3>1
  <2> QED BY <2>2, <2>3
<1>9. (n + 1) - 1 = n
  BY <1>1
<1>10. Chain(p, g)
  BY <1>2, <1>3, <1>6, <1>7, <1>8, <1>9 DEF Chain
<1>11. p[1] = IF cs = <<>> THEN c ELSE cs[1]
  BY <1>1, <1>2
<1> QED BY <1>2, <1>3, <1>10, <1>11 DEF p, g

(* The innermost activation goes on as another of the same key.            *)
LEMMA ReplaceChain ==
  ASSUME NEW cs, NEW fs, Chain(cs, fs), cs # <<>>, NEW c, CallOK(c), NEW f, c.key = Top(cs).key
  PROVE  /\ Chain(Append(Pop(cs), c), Append(Pop(fs), f))
         /\ Append(Pop(cs), c) # <<>>
         /\ Top(Append(Pop(cs), c)) = c /\ Top(Append(Pop(fs), f)) = f
         /\ Append(Pop(cs), c)[1].key = cs[1].key
<1> DEFINE p == Pop(cs)
           g == Pop(fs)
<1>1. /\ Chain(p, g)
      /\ p # <<>> => /\ Waits(Top(p), c.key) /\ FrameOK(Top(p), Top(g), 1)
                     /\ Rank(c.key) < Rank(Top(p).key) /\ p[1] = cs[1]
  BY PopChain
<1>2. ASSUME p = <<>> PROVE cs[1] = Top(cs)
  <2>1. IsSeq(cs)
    BY DEF Chain
  <2>2. IsSeq(p) /\ Len(p) = Len(cs) - 1 /\ Top(cs) = cs[Len(cs)] /\ Len(cs) \in Nat \ {0}
    BY <2>1, PopIs
  <2> HIDE DEF p
  <2>3. Len(p) = 0
    BY <1>2, <2>2, SeqIs
  <2>4. Len(cs) = 1
    BY <2>2, <2>3
  <2> QED BY <2>2, <2>4
<1> HIDE DEF p, g
<1>3. /\ Chain(Append(p, c), Append(g, f))
      /\ Append(p, c) # <<>>
      /\ Top(Append(p, c)) = c /\ Top(Append(g, f)) = f
      /\ Append(p, c)[1] = IF p = <<>> THEN c ELSE p[1]
  BY <1>1, PushChain
<1> QED BY <1>1, <1>2, <1>3 DEF p, g
-----------------------------------------------------------------------------
(* The steps of the engine.                                                *)
EngineOK ==
  /\ WorldOK
  /\ MemosOK
  /\ Chain(calls, frames)
  /\ RetOK(calls, frames, ret)

(* The query the client asked for is the outermost activation until it is  *)
(* answered.                                                               *)
BottomStays ==
  /\ calls' # <<>> => calls'[1].key = calls[1].key
  /\ calls' = <<>> /\ ret'.tag = "ok" => ret'.key = calls[1].key

(* The results have different tags.                                        *)
LEMMA TagsAre ==
  /\ Nothing.tag = "nothing"
  /\ \A k, v, c : LET r == Answer(k, v, c) IN
       r # Nothing /\ r.tag = "ok" /\ r.key = k /\ r.value = v /\ r.changedAt = c
  /\ \A k, why : Error(k, why) # Nothing /\ Error(k, why).tag = "error"
  /\ \A k : Panic(k) # Nothing /\ Panic(k).tag = "panic"
BY DEF Nothing, Answer, Error, Panic

(* A step that settles nothing.                                            *)
LEMMA QuietMove ==
  ASSUME EngineOK, SameWorld, UNCHANGED memos,
         NEW cs, NEW fs, NEW r, calls' = cs, frames' = fs, ret' = r,
         Chain(cs, fs), RetOK(cs, fs, r)
  PROVE  EngineOK'
<1>1. WorldOK' /\ MemosOK' /\ \A k : Verified(k)' <=> Verified(k)
  BY QuietTable DEF EngineOK
<1>2. Chain(cs, fs)'
  BY QuietChain DEF EngineOK
<1>3. RetOK(cs, fs, r)'
  <2>1. r.tag = "ok" => /\ Verified(r.key)' /\ r.key \in SessionDerived
                        /\ r.value = memos'[r.key].value /\ r.changedAt = memos'[r.key].changedAt
    BY <1>1 DEF RetOK
  <2>2. cs # <<>> =>
          /\ r = Nothing => FrameOK(Top(cs), Top(fs), 0)'
          /\ r.tag = "ok" => Waits(Top(cs), r.key)' /\ FrameOK(Top(cs), Top(fs), 1)'
    BY SameNow DEF RetOK
  <2> QED BY <2>1, <2>2 DEF RetOK
<1> QED BY <1>1, <1>2, <1>3 DEF EngineOK

(* A step that settles k and answers with it.                              *)
LEMMA SettleMove ==
  ASSUME EngineOK, SameWorld, NEW k, NEW m, Settles(k, m),
         memos' = [d \in DOMAIN memos \cup {k} |-> IF d = k THEN m ELSE memos[d]],
         NEW cs, NEW fs, calls' = cs, frames' = fs, ret' = Answer(k, m.value, m.changedAt),
         Chain(cs, fs), \A i \in 1..Len(cs) : cs[i].key # k,
         cs # <<>> => Waits(Top(cs), k) /\ FrameOK(Top(cs), Top(fs), 1)
  PROVE  EngineOK'
<1>1. /\ WorldOK' /\ MemosOK' /\ SettledStays /\ Verified(k)' /\ memos'[k] = m
      /\ \A d : d # k => (Verified(d)' <=> Verified(d))
      /\ \A d \in DOMAIN memos : d # k => d \in DOMAIN memos' /\ memos'[d] = memos[d]
  BY TableStep DEF EngineOK
<1>2. Chain(cs, fs)'
  <2>1. \A i \in 1..Len(cs) : ~Verified(cs[i].key) /\ cs[i].key # k
    BY DEF Chain, CallOK
  <2> QED BY <1>1, <2>1, ChainStays DEF EngineOK
<1>3. RetOK(cs, fs, ret)'
  <2> PICK r : r = Answer(k, m.value, m.changedAt)
    OBVIOUS
  <2>1. r # Nothing /\ r.tag = "ok" /\ r.key = k /\ r.value = m.value /\ r.changedAt = m.changedAt
    BY TagsAre
  <2>2. k \in SessionDerived
    BY DEF Settles
  <2>3. cs # <<>> => Waits(Top(cs), r.key)' /\ FrameOK(Top(cs), Top(fs), 1)'
    BY <2>1, SameNow
  <2>4. Verified(r.key)' /\ r.key \in SessionDerived
    BY ONLY <1>1, <2>1, <2>2
  <2>5. r.value = memos'[r.key].value /\ r.changedAt = memos'[r.key].changedAt
    BY ONLY <1>1, <2>1
  <2>6. RetOK(cs, fs, r)'
    BY ONLY <2>1, <2>3, <2>4, <2>5 DEF RetOK
  <2> QED BY <2>6
<1> QED BY <1>1, <1>2, <1>3 DEF EngineOK

(* The innermost activation, by what it does.                              *)
LEMMA RunningIs ==
  ASSUME EngineOK, NEW op, Running(op)
  PROVE  /\ calls # <<>> /\ Top(calls).op = op /\ CallOK(Top(calls))
         /\ Top(calls).key \in SessionDerived /\ Lives(Top(calls).key) /\ ~Verified(Top(calls).key)
         /\ IsSeq(frames) /\ frames # <<>> /\ IsSeq(calls)
         /\ op = "validate" => CheckOK(Top(calls))
         /\ op = "compute" => RunOK(Top(calls))
         /\ ret = Nothing => FrameOK(Top(calls), Top(frames), 0)
         /\ ret.tag = "ok" =>
              /\ Waits(Top(calls), ret.key) /\ FrameOK(Top(calls), Top(frames), 1)
              /\ Verified(ret.key) /\ ret.key \in SessionDerived
              /\ ret.changedAt = memos[ret.key].changedAt
<1>1. calls # <<>> /\ Top(calls).op = op
  BY DEF Running
<1>2. CallOK(Top(calls)) /\ frames # <<>> /\ IsSeq(frames) /\ IsSeq(calls)
  BY <1>1, TopIs DEF EngineOK
<1> QED BY <1>1, <1>2 DEF EngineOK, RetOK, CallOK

(* The top on what is below it is the stack.                               *)
LEMMA PushedBack ==
  ASSUME NEW s, IsSeq(s), s # <<>>
  PROVE  Append(Pop(s), Top(s)) = s
<1>1. PICK S : s \in Seq(S)
  BY DEF IsSeq
<1>2. Top(s) = s[Len(s)]
  BY DEF Top
<1>3. ReplaceTop(s, Top(s)) = s
  BY <1>1, <1>2 DEF ReplaceTop
<1>4. ReplaceTop(s, Top(s)) = Append(Pop(s), Top(s))
  BY ReplaceIs
<1> QED BY <1>3, <1>4

(* The edge of the read that a run waits for is recorded on its frame.     *)
LEMMA EdgeRecorded ==
  ASSUME EngineOK, NEW k,
         calls # <<>> => /\ Top(calls).op = "compute" /\ Waits(Top(calls), k)
                         /\ FrameOK(Top(calls), Top(frames), 0)
  PROVE  /\ Chain(calls, RecordEdge(k))
         /\ calls # <<>> => FrameOK(Top(calls), Top(RecordEdge(k)), 1)
<1>1. CASE calls = <<>>
  <2>1. frames = <<>>
    <3>1. IsSeq(calls) /\ IsSeq(frames) /\ Len(calls) = Len(frames)
      BY DEF EngineOK, Chain
    <3>2. Len(calls) = 0
      BY <1>1, <3>1, SeqIs
    <3> QED BY <3>1, <3>2, SeqIs
  <2>2. RecordEdge(k) = <<>>
    BY <2>1 DEF RecordEdge
  <2> QED BY <1>1, <2>2, EmptyChain
<1>2. CASE calls # <<>>
  <2> DEFINE c == Top(calls)
             f == Top(frames)
             g == Append(f, k)
  <2>1. Chain(calls, frames) /\ frames # <<>> /\ IsSeq(frames) /\ IsSeq(calls) /\ CallOK(c)
    BY <1>2, TopIs DEF EngineOK
  <2>2. RecordEdge(k) = Append(Pop(frames), g)
    BY <2>1, ReplaceIs DEF RecordEdge
  <2>3. Append(Pop(calls), c) = calls
    BY <1>2, <2>1, PushedBack
  <2>4. c.op = "compute" /\ Waits(c, k) /\ FrameOK(c, f, 0) /\ RunOK(c)
    BY <1>2, <2>1 DEF CallOK
  <2>5. IsSeq(c.seen) /\ Len(c.seen) \in Nat
    BY <2>4, SeqIs DEF RunOK
  <2>6. IsSeq(f) /\ Len(f) = Len(c.seen) /\ \A j \in 1..Len(f) : f[j] = ReadsOf(c.key, Now)[j]
    BY <2>4, <2>5 DEF FrameOK
  <2> HIDE DEF c, f
  <2>7. /\ IsSeq(g) /\ Len(g) = Len(f) + 1 /\ g[Len(f) + 1] = k
        /\ \A i \in 1..Len(f) : g[i] = f[i]
    BY <2>6, PushIs
  <2> HIDE DEF g
  <2>8. ReadsOf(c.key, Now)[Len(f) + 1] = k
    BY <2>4, <2>6 DEF Waits
  <2>9. \A j \in 1..Len(g) : g[j] = ReadsOf(c.key, Now)[j]
    BY <2>5, <2>6, <2>7, <2>8
  <2>10. FrameOK(c, g, 1)
    BY <2>6, <2>7, <2>9 DEF FrameOK
  <2>11. Chain(Append(Pop(calls), c), Append(Pop(frames), g)) /\ Top(Append(Pop(frames), g)) = g
    BY <1>2, <2>1, ReplaceChain DEF c
  <2> QED BY <2>2, <2>3, <2>10, <2>11 DEF c
<1> QED BY <1>1, <1>2

(* fetch, for the client or for the innermost run.                         *)
LEMMA FetchKeeps ==
  ASSUME EngineOK, NEW k \in SessionDerived, Lives(k), Fetch(k),
         calls # <<>> => /\ Top(calls).op = "compute" /\ Waits(Top(calls), k)
                         /\ FrameOK(Top(calls), Top(frames), 0)
                         /\ Rank(k) < Rank(Top(calls).key)
  PROVE  /\ EngineOK' /\ SameWorld /\ UNCHANGED memos
         /\ calls # <<>> => calls' # <<>>
         /\ calls' # <<>> => calls'[1].key = IF calls = <<>> THEN k ELSE calls[1].key
         /\ calls' = <<>> /\ ret'.tag = "ok" => ret'.key = k
<1> DEFINE fs == RecordEdge(k)
<1>1. SameWorld /\ UNCHANGED memos
  BY DEF Fetch, SameWorld
<1>2. Chain(calls, frames) /\ Chain(calls, fs) /\ (calls # <<>> => FrameOK(Top(calls), Top(fs), 1))
  BY EdgeRecorded DEF EngineOK
<1> HIDE DEF fs
<1>3. CASE cancelled
  <2>1. calls' = calls /\ frames' = frames /\ ret' = Error(k, "Cancelled")
    BY <1>3 DEF Fetch
  <2> PICK cs : cs = calls
    OBVIOUS
  <2> PICK ff : ff = frames
    OBVIOUS
  <2> PICK r : r = Error(k, "Cancelled")
    OBVIOUS
  <2>2. r # Nothing /\ r.tag = "error"
    BY TagsAre
  <2>3. RetOK(cs, ff, r)
    BY <2>2 DEF RetOK
  <2>4. EngineOK'
    BY <1>1, <1>2, <2>1, <2>3, QuietMove
  <2> QED BY <1>1, <2>1, <2>2, <2>4
<1>4. CASE ~cancelled /\ k \in Range(active)
  <2>1. calls' = calls /\ frames' = fs /\ ret' = Panic(k)
    BY <1>4 DEF Fetch, fs
  <2> PICK cs : cs = calls
    OBVIOUS
  <2> PICK ff : ff = fs
    OBVIOUS
  <2> PICK r : r = Panic(k)
    OBVIOUS
  <2>2. r # Nothing /\ r.tag = "panic"
    BY TagsAre
  <2>3. RetOK(cs, ff, r)
    BY <2>2 DEF RetOK
  <2>4. EngineOK'
    BY <1>1, <1>2, <2>1, <2>3, QuietMove
  <2> QED BY <1>1, <2>1, <2>2, <2>4
<1>5. CASE ~cancelled /\ k \notin Range(active) /\ Verified(k)
  <2>1. calls' = calls /\ frames' = fs /\ ret' = AnswerOf(k)
    BY <1>5 DEF Fetch, Reusable, Verified, fs
  <2> PICK cs : cs = calls
    OBVIOUS
  <2> PICK ff : ff = fs
    OBVIOUS
  <2> PICK r : r = AnswerOf(k)
    OBVIOUS
  <2>2. r # Nothing /\ r.tag = "ok" /\ r.key = k /\ r.value = memos[k].value /\ r.changedAt = memos[k].changedAt
    BY TagsAre DEF AnswerOf
  <2>3. RetOK(cs, ff, r)
    BY <1>2, <1>5, <2>2 DEF RetOK
  <2>4. EngineOK'
    BY <1>1, <1>2, <2>1, <2>3, QuietMove
  <2> QED BY <1>1, <2>1, <2>2, <2>4
<1>6. CASE ~cancelled /\ k \notin Range(active) /\ Memoized(k) /\ ~Verified(k)
  <2>1. calls' = Append(calls, Validate(k)) /\ frames' = Append(fs, <<>>) /\ ret' = Nothing
    BY <1>6 DEF Fetch, Reusable, fs
  <2> PICK c : c = Validate(k)
    OBVIOUS
  <2>2. c.op = "validate" /\ c.key = k /\ c.memo = memos[k] /\ c.next = 1
        /\ c = [op |-> "validate", key |-> c.key, memo |-> c.memo, next |-> c.next]
    BY DEF Validate
  <2>3. CheckOK(c)
    <3>1. Len(memos[k].deps) \in Nat
      BY <1>6 DEF Memoized, EngineOK, MemosOK, MemoOK
    <3>2. k \in DOMAIN memos /\ 1 \in 1..(Len(memos[k].deps) + 1) /\ \A j \in 1..(1 - 1) : FALSE
      BY <1>6, <3>1 DEF Memoized
    <3> QED BY ONLY <2>2, <3>2 DEF CheckOK
  <2>4. CallOK(c)
    BY <1>6, <2>2, <2>3 DEF CallOK
  <2> PICK cs : cs = Append(calls, c)
    OBVIOUS
  <2> PICK ff : ff = Append(fs, <<>>)
    OBVIOUS
  <2>5. Chain(cs, ff) /\ cs # <<>> /\ Top(cs) = c /\ cs[1] = IF calls = <<>> THEN c ELSE calls[1]
    BY <1>2, <2>2, <2>4, PushChain
  <2>6. RetOK(cs, ff, Nothing)
    BY <2>2, <2>5, TagsAre DEF RetOK, FrameOK
  <2>7. EngineOK'
    <3> PICK r : r = Nothing
      OBVIOUS
    <3> QED BY <1>1, <2>1, <2>5, <2>6, QuietMove
  <2> QED BY <1>1, <2>1, <2>2, <2>5, <2>7, TagsAre
<1>7. CASE ~cancelled /\ k \notin Range(active) /\ ~Memoized(k)
  <2>1. calls' = Append(calls, Compute(k, <<>>)) /\ frames' = Append(fs, <<>>) /\ ret' = Nothing
    BY <1>7 DEF Fetch, Reusable, Verified, fs, StartCompute
  <2> PICK c : c = Compute(k, <<>>)
    OBVIOUS
  <2>2. c.op = "compute" /\ c.key = k /\ c.existing = <<>> /\ c.seen = <<>>
        /\ c = [op |-> "compute", key |-> c.key, existing |-> c.existing, seen |-> c.seen]
    BY DEF Compute
  <2>3. IsSeq(ReadsOf(k, Now)) /\ Len(ReadsOf(k, Now)) \in Nat
    BY ReadsByKind, SeqIs DEF EngineOK
  <2>4. RunOK(c) /\ FrameOK(c, <<>>, 0)
    BY <2>2, <2>3, EmptyIs DEF RunOK, FrameOK
  <2>5. CallOK(c)
    BY <1>7, <2>2, <2>4 DEF CallOK, Verified
  <2> PICK cs : cs = Append(calls, c)
    OBVIOUS
  <2> PICK ff : ff = Append(fs, <<>>)
    OBVIOUS
  <2>6. Chain(cs, ff) /\ cs # <<>> /\ Top(cs) = c /\ Top(ff) = <<>> /\ cs[1] = IF calls = <<>> THEN c ELSE calls[1]
    BY <1>2, <2>2, <2>5, PushChain
  <2>7. RetOK(cs, ff, Nothing)
    BY <2>4, <2>6, TagsAre DEF RetOK
  <2>8. EngineOK'
    <3> PICK r : r = Nothing
      OBVIOUS
    <3> QED BY <1>1, <2>1, <2>6, <2>7, QuietMove
  <2> QED BY <1>1, <2>1, <2>2, <2>6, <2>8, TagsAre
<1> QED BY <1>3, <1>4, <1>5, <1>6, <1>7

(* The next move of the running host: its next read, or its slice.         *)
LEMMA MoveIs ==
  ASSUME EngineOK, Running("compute")
  PROVE  LET c == Top(calls)
             r == ReadsOf(c.key, Now) IN
         /\ Len(r) \in Nat /\ Len(c.seen) \in Nat
         /\ HostMove = IF Len(c.seen) < Len(r) THEN [op |-> "read", key |-> r[Len(c.seen) + 1]]
                                               ELSE [op |-> "done", value |-> Slice(c.key, Now)]
         /\ HostMove.op = "read" => Len(c.seen) < Len(r) /\ Waits(c, HostMove.key)
                                    /\ HostMove.key = r[Len(c.seen) + 1]
         /\ HostMove.op = "done" => Len(c.seen) = Len(r) /\ HostMove.value = Slice(c.key, Now)
<1> DEFINE c == Top(calls)
           r == ReadsOf(c.key, Now)
<1>1. CallOK(c) /\ c.op = "compute" /\ RunOK(c) /\ c.key \in SessionDerived
  BY RunningIs
<1>2. IsSeq(r) /\ IsSeq(c.seen)
  BY <1>1, ReadsByKind DEF EngineOK, RunOK
<1>3. Len(r) \in Nat /\ Len(c.seen) \in Nat /\ Len(c.seen) <= Len(r)
  BY <1>1, <1>2, SeqIs DEF RunOK
<1>4. HostMove = IF Len(c.seen) < Len(r) THEN [op |-> "read", key |-> r[Len(c.seen) + 1]]
                                         ELSE [op |-> "done", value |-> Slice(c.key, Now)]
  BY DEF HostMove, SessionStep, MoveAfter, Now
<1> HIDE DEF r
<1>5. HostMove.op = "read" => Len(c.seen) < Len(r) /\ HostMove.key = r[Len(c.seen) + 1]
  BY <1>4
<1>6. HostMove.op = "done" => Len(c.seen) = Len(r) /\ HostMove.value = Slice(c.key, Now)
  BY <1>3, <1>4
<1>7. HostMove.op = "read" => Waits(c, HostMove.key)
  BY <1>1, <1>5 DEF Waits, r
<1> QED BY <1>3, <1>4, <1>5, <1>6, <1>7 DEF r

(* A read of a query: its key lives, for its reader does.                  *)
LEMMA HostReadsQueryKeeps ==
  ASSUME EngineOK, HostReadsQuery
  PROVE  EngineOK' /\ SameWorld /\ UNCHANGED memos /\ BottomStays
<1> DEFINE c == Top(calls)
           k == HostMove.key
           r == ReadsOf(c.key, Now)
<1>1. Running("compute") /\ ret = Nothing /\ HostMove.op = "read" /\ k \in SessionDerived /\ Fetch(k)
  BY DEF HostReadsQuery, HostAsksFor
<1>2. /\ calls # <<>> /\ c.op = "compute" /\ FrameOK(c, Top(frames), 0)
      /\ c.key \in SessionDerived /\ Lives(c.key)
  BY <1>1, RunningIs
<1>3. Len(r) \in Nat /\ Len(c.seen) \in Nat /\ Len(c.seen) < Len(r) /\ Waits(c, k) /\ k = r[Len(c.seen) + 1]
  BY <1>1, MoveIs
<1>4. Len(c.seen) + 1 \in 1..Len(r)
  BY <1>3
<1>5. \A j \in 1..Len(r) : Rank(r[j]) < Rank(c.key) /\ (r[j] \in SessionDerived => Lives(r[j]))
  BY <1>2, ReadsLive DEF EngineOK
<1> HIDE DEF r, c, k
<1>6. Rank(k) < Rank(c.key) /\ Lives(k)
  BY <1>1, <1>3, <1>4, <1>5
<1>7. /\ EngineOK' /\ SameWorld /\ UNCHANGED memos
      /\ calls # <<>> => calls' # <<>>
      /\ calls' # <<>> => calls'[1].key = IF calls = <<>> THEN k ELSE calls[1].key
  BY <1>1, <1>2, <1>3, <1>6, FetchKeeps DEF c
<1> QED BY <1>2, <1>7 DEF BottomStays

(* The run has seen what it waited for.                                    *)
LEMMA SeenCall ==
  ASSUME WorldOK, NEW c, CallOK(c), c.op = "compute", NEW d, Waits(c, d), Fresh(d), NEW v, NEW e,
         e = [c EXCEPT !.seen = Append(@, v)]
  PROVE  /\ CallOK(e) /\ e.key = c.key
         /\ \A f : FrameOK(c, f, 1) => FrameOK(e, f, 0)
<1> DEFINE r == ReadsOf(c.key, Now)
<1>1. /\ c = [op |-> "compute", key |-> c.key, existing |-> c.existing, seen |-> c.seen]
      /\ c.existing # <<>> => c.key \in DOMAIN memos /\ c.existing = <<memos[c.key]>>
      /\ IsSeq(c.seen) /\ Len(c.seen) <= Len(r)
      /\ \A j \in 1..Len(c.seen) : Fresh(r[j])
      /\ c.key \in SessionDerived /\ Lives(c.key) /\ ~Verified(c.key)
  BY DEF CallOK, RunOK
<1>2. Len(c.seen) < Len(r) /\ r[Len(c.seen) + 1] = d
  BY DEF Waits
<1> HIDE DEF r
<1>3. IsSeq(Append(c.seen, v)) /\ Len(Append(c.seen, v)) = Len(c.seen) + 1 /\ Len(c.seen) \in Nat
  BY <1>1, PushIs, SeqIs
<1>4. e = [op |-> "compute", key |-> c.key, existing |-> c.existing, seen |-> Append(c.seen, v)]
  BY <1>1
<1>5. e.op = "compute" /\ e.key = c.key /\ e.existing = c.existing /\ e.seen = Append(c.seen, v)
      /\ e = [op |-> "compute", key |-> e.key, existing |-> e.existing, seen |-> e.seen]
  BY <1>4
<1>6. IsSeq(e.seen) /\ Len(e.seen) = Len(c.seen) + 1
  BY <1>3, <1>5
<1>7. Len(r) \in Nat
  <2>1. IsSeq(r)
    BY <1>1, ReadsByKind DEF r
  <2> QED BY <2>1, SeqIs
<1>8. Len(e.seen) <= Len(r) /\ \A j \in 1..Len(e.seen) : Fresh(r[j])
  BY <1>1, <1>2, <1>3, <1>6, <1>7
<1>9. RunOK(e)
  BY ONLY <1>1, <1>5, <1>6, <1>8 DEF RunOK, r
<1>10. CallOK(e)
  BY ONLY <1>1, <1>5, <1>9 DEF CallOK
<1>11. ASSUME NEW f, FrameOK(c, f, 1) PROVE FrameOK(e, f, 0)
  <2>1. IsSeq(f) /\ Len(f) = Len(c.seen) + 1 /\ \A j \in 1..Len(f) : f[j] = ReadsOf(c.key, Now)[j]
    BY <1>11 DEF FrameOK
  <2> QED BY <1>3, <1>5, <1>6, <2>1 DEF FrameOK
<1> QED BY <1>5, <1>10, <1>11

(* The innermost run goes on, over the frames gs.                          *)
LEMMA SeeKeeps ==
  ASSUME EngineOK, Running("compute"), NEW v, SeeValue(v), SameWorld, UNCHANGED memos,
         NEW d, Waits(Top(calls), d), Fresh(d),
         NEW gs, frames' = gs, Chain(calls, gs), FrameOK(Top(calls), Top(gs), 1)
  PROVE  EngineOK' /\ BottomStays
<1> DEFINE c == Top(calls)
<1>1. calls # <<>> /\ c.op = "compute" /\ CallOK(c) /\ IsSeq(calls)
  BY RunningIs
<1>2. gs # <<>> /\ IsSeq(gs)
  BY <1>1, TopIs
<1> PICK e : e = [c EXCEPT !.seen = Append(@, v)]
  OBVIOUS
<1>3. CallOK(e) /\ e.key = c.key /\ FrameOK(e, Top(gs), 0)
  BY <1>1, SeenCall DEF EngineOK
<1>4. calls' = ReplaceTop(calls, e) /\ ret' = Nothing
  BY DEF SeeValue
<1> PICK cs : cs = Append(Pop(calls), e)
  OBVIOUS
<1>5. calls' = cs
  BY <1>1, <1>4, ReplaceIs
<1>6. Append(Pop(gs), Top(gs)) = gs
  BY <1>2, PushedBack
<1>7. Chain(cs, gs) /\ cs # <<>> /\ Top(cs) = e /\ cs[1].key = calls[1].key
  <2> PICK f : f = Top(gs)
    OBVIOUS
  <2> HIDE DEF c
  <2>1. /\ Chain(Append(Pop(calls), e), Append(Pop(gs), f))
        /\ Append(Pop(calls), e) # <<>>
        /\ Top(Append(Pop(calls), e)) = e
        /\ Append(Pop(calls), e)[1].key = calls[1].key
    BY <1>1, <1>3, ReplaceChain DEF c
  <2> QED BY <1>6, <2>1
<1>8. RetOK(cs, gs, Nothing)
  BY <1>3, <1>7, TagsAre DEF RetOK
<1>9. EngineOK'
  <2> PICK r : r = Nothing
    OBVIOUS
  <2> QED BY <1>4, <1>5, <1>7, <1>8, QuietMove
<1> QED BY <1>5, <1>7, <1>9 DEF BottomStays

(* A read of an input is seen at once, unless the query is cancelled.      *)
LEMMA HostReadsInputKeeps ==
  ASSUME EngineOK, HostReadsInput
  PROVE  EngineOK' /\ SameWorld /\ UNCHANGED memos /\ BottomStays
<1> DEFINE c == Top(calls)
           i == HostMove.key
<1>1. Running("compute") /\ ret = Nothing /\ HostMove.op = "read" /\ i \in SessionInputs
      /\ SameWorld /\ UNCHANGED memos
  BY DEF HostReadsInput, HostAsksFor, SameWorld
<1>2. calls # <<>> /\ c.op = "compute" /\ FrameOK(c, Top(frames), 0) /\ Waits(c, i)
  BY <1>1, RunningIs, MoveIs
<1>3. CASE cancelled
  <2>1. calls' = calls /\ frames' = frames /\ ret' = Error(i, "Cancelled")
    BY <1>3 DEF HostReadsInput
  <2> PICK cs : cs = calls
    OBVIOUS
  <2> PICK ff : ff = frames
    OBVIOUS
  <2> PICK r : r = Error(i, "Cancelled")
    OBVIOUS
  <2>2. r # Nothing /\ r.tag = "error"
    BY TagsAre
  <2>3. RetOK(cs, ff, r) /\ Chain(cs, ff)
    BY <2>2 DEF RetOK, EngineOK
  <2>4. EngineOK'
    BY <1>1, <2>1, <2>3, QuietMove
  <2> QED BY <1>1, <1>2, <2>1, <2>4 DEF BottomStays
<1>4. CASE ~cancelled
  <2>1. frames' = RecordEdge(i) /\ SeeValue(world[i])
    BY <1>4 DEF HostReadsInput
  <2> PICK v : v = world[i]
    OBVIOUS
  <2> PICK d : d = i
    OBVIOUS
  <2> PICK gs : gs = RecordEdge(d)
    OBVIOUS
  <2>2. Chain(calls, gs) /\ FrameOK(c, Top(gs), 1)
    BY <1>2, EdgeRecorded
  <2>3. Fresh(d) /\ Waits(c, d)
    BY <1>1, <1>2 DEF Fresh
  <2>4. SeeValue(v) /\ frames' = gs
    BY <2>1
  <2> HIDE DEF i
  <2> QED BY <1>1, <2>2, <2>3, <2>4, SeeKeeps
<1> QED BY <1>3, <1>4

(* The value read is the settled one.                                      *)
LEMMA HostReceivesKeeps ==
  ASSUME EngineOK, HostReceives
  PROVE  EngineOK' /\ SameWorld /\ UNCHANGED memos /\ BottomStays
<1>1. Running("compute") /\ ret.tag = "ok" /\ SeeValue(ret.value) /\ SameWorld /\ UNCHANGED <<memos, frames>>
  BY DEF HostReceives, SameWorld
<1>2. /\ Waits(Top(calls), ret.key) /\ FrameOK(Top(calls), Top(frames), 1)
      /\ Fresh(ret.key) /\ Chain(calls, frames)
  BY <1>1, RunningIs DEF Fresh, EngineOK
<1> PICK d : d = ret.key
  OBVIOUS
<1> PICK gs : gs = frames
  OBVIOUS
<1> PICK v : v = ret.value
  OBVIOUS
<1>3. EngineOK' /\ BottomStays
  BY <1>1, <1>2, SeeKeeps
<1> QED BY <1>1, <1>3

(* The innermost activation ends with an error.                            *)
LEMMA ErrorKeeps ==
  ASSUME EngineOK, calls # <<>>, SameWorld, UNCHANGED memos,
         calls' = Pop(calls), frames' = Pop(frames),
         NEW k, NEW why, ret' = Error(k, why)
  PROVE  EngineOK' /\ BottomStays
<1> PICK cs : cs = Pop(calls)
  OBVIOUS
<1> PICK fs : fs = Pop(frames)
  OBVIOUS
<1> PICK r : r = Error(k, why)
  OBVIOUS
<1>1. Chain(cs, fs) /\ (cs # <<>> => cs[1] = calls[1])
  BY PopChain DEF EngineOK
<1>2. r # Nothing /\ r.tag = "error"
  BY TagsAre
<1>3. RetOK(cs, fs, r)
  BY <1>2 DEF RetOK
<1>4. EngineOK'
  BY <1>1, <1>3, QuietMove
<1> QED BY <1>1, <1>2, <1>4 DEF BottomStays

(* An error takes the innermost activation off and settles nothing.        *)
LEMMA AbandonKeeps ==
  ASSUME EngineOK, Running("compute"), NEW why, AbandonCompute(why)
  PROVE  EngineOK' /\ SameWorld /\ UNCHANGED memos /\ BottomStays
<1>1. SameWorld /\ UNCHANGED memos /\ calls' = Pop(calls) /\ frames' = Pop(frames)
      /\ ret' = Error(Top(calls).key, why) /\ calls # <<>>
  BY DEF AbandonCompute, SameWorld, Running
<1> PICK k : k = Top(calls).key
  OBVIOUS
<1> QED BY <1>1, ErrorKeeps

(* The answered activation, popped, was the only one of its key.           *)
LEMMA PoppedKey ==
  ASSUME EngineOK, calls # <<>>
  PROVE  \A i \in 1..Len(Pop(calls)) : Pop(calls)[i].key # Top(calls).key
<1>1. IsSeq(calls) /\ \A i \in 1..(Len(calls) - 1) : Rank(Top(calls).key) < Rank(calls[i].key)
  BY TopIs DEF EngineOK
<1>2. Len(Pop(calls)) = Len(calls) - 1 /\ \A i \in 1..(Len(calls) - 1) : Pop(calls)[i] = calls[i]
  BY <1>1, PopIs
<1>3. ASSUME NEW i \in 1..(Len(calls) - 1) PROVE calls[i].key # Top(calls).key
  <2>1. Rank(Top(calls).key) < Rank(calls[i].key) /\ Rank(calls[i].key) \in 0..5
    BY <1>1, RankIs
  <2> QED BY <2>1
<1> QED BY <1>2, <1>3

(* An activation ends with the value of its key, which is settled by it.   *)
LEMMA AnswerKeeps ==
  ASSUME EngineOK, calls # <<>>, SameWorld, NEW k, k = Top(calls).key, NEW m, Settles(k, m),
         memos' = [d \in DOMAIN memos \cup {k} |-> IF d = k THEN m ELSE memos[d]],
         calls' = Pop(calls), frames' = Pop(frames), ret' = Answer(k, m.value, m.changedAt)
  PROVE  EngineOK' /\ BottomStays
<1> PICK cs : cs = Pop(calls)
  OBVIOUS
<1> PICK fs : fs = Pop(frames)
  OBVIOUS
<1>1. /\ Chain(cs, fs)
      /\ cs # <<>> => Waits(Top(cs), k) /\ FrameOK(Top(cs), Top(fs), 1) /\ cs[1] = calls[1]
  BY PopChain DEF EngineOK
<1>2. \A i \in 1..Len(cs) : cs[i].key # k
  BY PoppedKey
<1>3. EngineOK'
  BY <1>1, <1>2, SettleMove
<1>4. ASSUME cs = <<>> PROVE calls[1].key = k
  <2>1. IsSeq(calls)
    BY TopIs DEF EngineOK
  <2>2. Len(cs) = Len(calls) - 1 /\ Len(calls) \in Nat \ {0} /\ Top(calls) = calls[Len(calls)]
    BY <2>1, PopIs
  <2>3. Len(cs) = 0
    BY <1>4, EmptyIs
  <2>4. Len(calls) = 1
    BY <2>2, <2>3
  <2> QED BY <2>2, <2>4
<1>5. ret'.key = k
  BY TagsAre
<1> QED BY <1>1, <1>3, <1>4, <1>5 DEF BottomStays

(* A run that is through has read all that explains its value.             *)
LEMMA HostReturnsKeeps ==
  ASSUME EngineOK, HostReturns
  PROVE  EngineOK' /\ SameWorld /\ BottomStays
<1> DEFINE c == Top(calls)
           r == ReadsOf(c.key, Now)
<1>1. Running("compute") /\ ret = Nothing /\ HostMove.op = "done" /\ SameWorld
      /\ calls' = Pop(calls) /\ frames' = Pop(frames)
  BY DEF HostReturns, SameWorld
<1>2. /\ calls # <<>> /\ c.op = "compute" /\ RunOK(c) /\ FrameOK(c, Top(frames), 0)
      /\ c.key \in SessionDerived /\ Lives(c.key) /\ ~Verified(c.key)
  BY <1>1, RunningIs
<1>3. Len(r) \in Nat /\ Len(c.seen) = Len(r) /\ HostMove.value = Slice(c.key, Now)
  BY <1>1, MoveIs
<1> PICK k : k = c.key
  OBVIOUS
<1> PICK f : f = Top(frames)
  OBVIOUS
<1> PICK v : v = Slice(k, Now)
  OBVIOUS
<1> PICK ch : ch = CutoffChangedAt(c.existing, v)
  OBVIOUS
<1> PICK m : m = [value |-> v, changedAt |-> ch, verifiedAt |-> revision, deps |-> f]
  OBVIOUS
<1>4. /\ m.value = v /\ m.changedAt = ch /\ m.verifiedAt = revision /\ m.deps = f /\ IsMemo(m)
  BY DEF IsMemo
<1>5. /\ memos' = [d \in DOMAIN memos \cup {k} |-> IF d = k THEN m ELSE memos[d]]
      /\ ret' = Answer(k, m.value, m.changedAt)
  BY <1>3, <1>4 DEF HostReturns
<1>6. WorldOK /\ MemosOK /\ revision \in Nat
  BY DEF EngineOK, WorldOK
<1>7. /\ ch \in Nat /\ ch <= revision
      /\ \/ k \in DOMAIN memos /\ v = memos[k].value /\ ch = memos[k].changedAt
         \/ ch = revision
  <2>1. CASE c.existing # <<>> /\ c.existing[1].value = v
    <3>1. ch = c.existing[1].changedAt
      BY <2>1 DEF CutoffChangedAt
    <3>2. k \in DOMAIN memos /\ c.existing = <<memos[k]>>
      BY <1>2, <2>1 DEF RunOK
    <3>3. c.existing[1] = memos[k]
      BY <3>2
    <3>4. /\ memos[k].changedAt \in Nat /\ memos[k].verifiedAt \in Nat
          /\ memos[k].changedAt <= memos[k].verifiedAt /\ memos[k].verifiedAt <= revision
      BY <1>6, <3>2 DEF MemosOK, MemoOK
    <3> QED BY <1>6, <2>1, <3>1, <3>2, <3>3, <3>4
  <2>2. CASE ~(c.existing # <<>> /\ c.existing[1].value = v)
    <3>1. ch = revision
      BY <2>2 DEF CutoffChangedAt
    <3> QED BY <1>6, <3>1
  <2> QED BY <2>1, <2>2
<1>8. Len(f) = Len(r) /\ \A j \in 1..Len(f) : f[j] = r[j] /\ Fresh(f[j])
  <2>1. IsSeq(f) /\ Len(f) = Len(c.seen) + 0 /\ \A j \in 1..Len(f) : f[j] = r[j]
    BY <1>2 DEF FrameOK
  <2>2. Len(f) = Len(r)
    BY <1>3, <2>1
  <2>3. \A j \in 1..Len(c.seen) : Fresh(r[j])
    BY <1>2 DEF RunOK
  <2> QED BY <1>3, <2>1, <2>2, <2>3
<1>9. \A j \in 1..Len(f) : Rank(f[j]) < Rank(k)
  <2>1. \A j \in 1..Len(r) : Rank(r[j]) < Rank(c.key)
    BY <1>2, <1>6, ReadsLive
  <2> HIDE DEF r
  <2> QED BY <1>8, <2>1
<1>10. \E past : /\ \A j \in 1..Len(f) : past[f[j]] = Held(f[j])
                 /\ Explains(past, k, f, v)
  <2>1. Len(f) = Len(ReadsOf(k, Now)) /\ \A j \in 1..Len(f) : f[j] = ReadsOf(k, Now)[j] /\ Fresh(f[j])
    BY <1>8
  <2> HIDE DEF c
  <2> QED BY <1>2, <1>6, <2>1, ReturnExplained DEF c
<1>11. k.kind \in {"PARSE", "INTERFACE"} => k.arg \in Files
  BY <1>2 DEF Lives
<1>12. Settles(k, m)
  <2>1. Len(f) \in Nat
    BY <1>3, <1>8
  <2> HIDE DEF c, r
  <2> QED BY <1>2, <1>4, <1>7, <1>8, <1>9, <1>10, <1>11, <2>1 DEF Settles, c
<1> HIDE DEF r
<1>13. EngineOK' /\ BottomStays
  BY <1>1, <1>2, <1>5, <1>12, AnswerKeeps
<1> QED BY <1>1, <1>13

(* A check, and its memo.                                                  *)
LEMMA CheckIs ==
  ASSUME EngineOK, Running("validate")
  PROVE  LET c == Top(calls)
             m == c.memo IN
         /\ calls # <<>> /\ c.op = "validate" /\ CallOK(c)
         /\ c = [op |-> "validate", key |-> c.key, memo |-> m, next |-> c.next]
         /\ c.key \in DOMAIN memos /\ m = memos[c.key] /\ MemoOK(c.key, m)
         /\ Lives(c.key) /\ c.key \in SessionDerived /\ ~Verified(c.key)
         /\ Len(m.deps) \in Nat /\ c.next \in 1..(Len(m.deps) + 1)
         /\ \A j \in 1..(c.next - 1) : Fresh(m.deps[j]) /\ Since(m.deps[j]) <= m.verifiedAt
<1> DEFINE c == Top(calls)
           m == c.memo
<1>1. calls # <<>> /\ c.op = "validate" /\ CallOK(c) /\ CheckOK(c)
      /\ c.key \in SessionDerived /\ Lives(c.key) /\ ~Verified(c.key)
  BY RunningIs
<1>2. /\ c = [op |-> "validate", key |-> c.key, memo |-> m, next |-> c.next]
      /\ c.key \in DOMAIN memos /\ m = memos[c.key] /\ c.next \in 1..(Len(m.deps) + 1)
      /\ \A j \in 1..(c.next - 1) : Fresh(m.deps[j]) /\ Since(m.deps[j]) <= m.verifiedAt
  BY <1>1 DEF CheckOK
<1>3. MemoOK(c.key, m)
  BY <1>2 DEF EngineOK, MemosOK
<1>4. Len(m.deps) \in Nat
  BY <1>3 DEF MemoOK
<1> QED BY <1>1, <1>2, <1>3, <1>4

(* The dependency in hand is judged.                                       *)
LEMMA JudgeKeeps ==
  ASSUME EngineOK, Running("validate"), DepsLeft, NEW ch, JudgeDep(ch), SameWorld, UNCHANGED memos,
         Fresh(Dep), Since(Dep) = ch
  PROVE  EngineOK' /\ BottomStays
<1> DEFINE c == Top(calls)
           m == c.memo
<1>1. /\ calls # <<>> /\ c.op = "validate" /\ CallOK(c)
      /\ c = [op |-> "validate", key |-> c.key, memo |-> m, next |-> c.next]
      /\ c.key \in DOMAIN memos /\ m = memos[c.key] /\ MemoOK(c.key, m)
      /\ Lives(c.key) /\ c.key \in SessionDerived /\ ~Verified(c.key)
      /\ Len(m.deps) \in Nat /\ c.next \in 1..(Len(m.deps) + 1)
      /\ \A j \in 1..(c.next - 1) : Fresh(m.deps[j]) /\ Since(m.deps[j]) <= m.verifiedAt
  BY CheckIs
<1>2. c.next <= Len(m.deps) /\ Dep = m.deps[c.next]
  BY DEF DepsLeft, Dep
<1>3. IsSeq(calls) /\ IsSeq(frames) /\ frames # <<>> /\ Chain(calls, frames)
  BY <1>1, TopIs DEF EngineOK
<1>4. CASE DepChanged(ch)
  <2> PICK e : e = Compute(c.key, <<m>>)
    OBVIOUS
  <2>1. calls' = Append(Pop(calls), e) /\ frames' = Append(Pop(frames), <<>>) /\ ret' = Nothing
    BY <1>4 DEF JudgeDep, StartCompute
  <2>2. /\ e.op = "compute" /\ e.key = c.key /\ e.existing = <<m>> /\ e.seen = <<>>
        /\ e = [op |-> "compute", key |-> e.key, existing |-> e.existing, seen |-> e.seen]
    BY DEF Compute
  <2> HIDE DEF m
  <2>3. IsSeq(ReadsOf(e.key, Now)) /\ Len(ReadsOf(e.key, Now)) \in Nat
    BY <1>1, <2>2, ReadsByKind, SeqIs DEF EngineOK
  <2>4. RunOK(e) /\ FrameOK(e, <<>>, 0)
    <3>1. e.key \in DOMAIN memos /\ e.existing = <<memos[e.key]>>
      BY <1>1, <2>2
    <3> QED BY <2>2, <2>3, <3>1, EmptyIs DEF RunOK, FrameOK
  <2>5. CallOK(e)
    BY <1>1, <2>2, <2>4 DEF CallOK
  <2> HIDE DEF c
  <2> PICK cs : cs = Append(Pop(calls), e)
    OBVIOUS
  <2> PICK fs : fs = Append(Pop(frames), <<>>)
    OBVIOUS
  <2>6. Chain(cs, fs) /\ cs # <<>> /\ Top(cs) = e /\ Top(fs) = <<>> /\ cs[1].key = calls[1].key
    BY <1>1, <1>3, <2>2, <2>5, ReplaceChain DEF c
  <2>7. RetOK(cs, fs, Nothing)
    BY <2>4, <2>6, TagsAre DEF RetOK
  <2>8. EngineOK'
    <3> PICK r : r = Nothing
      OBVIOUS
    <3> QED BY <2>1, <2>6, <2>7, QuietMove
  <2> QED BY <2>1, <2>6, <2>8 DEF BottomStays
<1>5. CASE ~DepChanged(ch)
  <2> PICK e : e = NextDep
    OBVIOUS
  <2>1. calls' = ReplaceTop(calls, e) /\ frames' = frames /\ ret' = Nothing
    BY <1>5 DEF JudgeDep
  <2>2. e = [op |-> "validate", key |-> c.key, memo |-> m, next |-> c.next + 1]
    BY <1>1 DEF NextDep
  <2>3. /\ e.op = "validate" /\ e.key = c.key /\ e.memo = m /\ e.next = c.next + 1
        /\ e = [op |-> "validate", key |-> e.key, memo |-> e.memo, next |-> e.next]
    BY <2>2
  <2>4. Since(Dep) <= m.verifiedAt
    <3>1. ~(ch > m.verifiedAt)
      BY <1>5 DEF DepChanged
    <3>2. m.verifiedAt \in Nat
      BY <1>1 DEF MemoOK
    <3>3. Since(Dep) \in Nat
      <4>1. Kept(Dep)
        BY DEF Fresh, Kept, Verified
      <4> QED BY <4>1, SinceIs DEF EngineOK
    <3> QED BY <3>1, <3>2, <3>3
  <2>5. ASSUME NEW j \in 1..(e.next - 1)
        PROVE  Fresh(m.deps[j]) /\ Since(m.deps[j]) <= m.verifiedAt
    <3>1. j \in 1..(c.next - 1) \/ j = c.next
      BY <1>1, <2>3
    <3> QED BY <1>1, <1>2, <2>4, <3>1
  <2>6. e.next \in 1..(Len(m.deps) + 1)
    BY <1>1, <1>2, <2>3
  <2> HIDE DEF m
  <2>7. CheckOK(e)
    BY <1>1, <2>3, <2>5, <2>6 DEF CheckOK
  <2>8. CallOK(e)
    BY <1>1, <2>3, <2>7 DEF CallOK
  <2> HIDE DEF c
  <2> PICK cs : cs = Append(Pop(calls), e)
    OBVIOUS
  <2> PICK fs : fs = frames
    OBVIOUS
  <2>9. calls' = cs
    BY <1>1, <1>3, <2>1, ReplaceIs
  <2>10. Chain(cs, fs) /\ cs # <<>> /\ Top(cs) = e /\ cs[1].key = calls[1].key
    <3>1. Append(Pop(fs), Top(fs)) = fs
      BY <1>3, PushedBack
    <3> PICK f : f = Top(fs)
      OBVIOUS
    <3>2. /\ Chain(Append(Pop(calls), e), Append(Pop(frames), f))
          /\ Append(Pop(calls), e) # <<>>
          /\ Top(Append(Pop(calls), e)) = e
          /\ Append(Pop(calls), e)[1].key = calls[1].key
      BY <1>1, <1>3, <2>3, <2>8, ReplaceChain DEF c
    <3> QED BY <3>1, <3>2
  <2>11. RetOK(cs, fs, Nothing)
    BY <2>3, <2>10, TagsAre DEF RetOK, FrameOK
  <2>12. EngineOK'
    <3> PICK r : r = Nothing
      OBVIOUS
    <3> QED BY <2>1, <2>9, <2>10, <2>11, QuietMove
  <2> QED BY <2>9, <2>10, <2>12 DEF BottomStays
<1> QED BY <1>4, <1>5

(* The dependency in hand is an input, or has a memo.                      *)
LEMMA DepIs ==
  ASSUME EngineOK, Running("validate"), DepsLeft
  PROVE  /\ Kept(Dep) /\ Waits(Top(calls), Dep)
         /\ Memoized(Dep) =>
              Lives(Dep) /\ Dep \in SessionDerived /\ Rank(Dep) < Rank(Top(calls).key)
         /\ ~Memoized(Dep) => Dep \in SessionInputs
<1> DEFINE c == Top(calls)
           m == c.memo
<1>1. /\ c.op = "validate"
      /\ c.key \in DOMAIN memos /\ m = memos[c.key] /\ MemoOK(c.key, m)
      /\ Lives(c.key)
      /\ Len(m.deps) \in Nat /\ c.next \in 1..(Len(m.deps) + 1)
      /\ \A j \in 1..(c.next - 1) : Fresh(m.deps[j]) /\ Since(m.deps[j]) <= m.verifiedAt
  BY CheckIs
<1>2. c.next <= Len(m.deps) /\ Dep = m.deps[c.next]
  BY DEF DepsLeft, Dep
<1>3. c.next \in 1..Len(m.deps)
  BY <1>1, <1>2
<1> HIDE DEF m
<1>4. Kept(Dep)
  BY <1>1, <1>2, <1>3 DEF MemoOK
<1>5. Waits(c, Dep)
  BY <1>1, <1>2 DEF Waits, m
<1> HIDE DEF c
<1>6. ASSUME Memoized(Dep)
      PROVE  Lives(Dep) /\ Dep \in SessionDerived /\ Rank(Dep) < Rank(c.key)
  <2> PICK k \in DOMAIN memos : k = c.key
    BY <1>1
  <2> PICK n : n = c.next
    OBVIOUS
  <2>1. /\ n \in 1..Len(memos[k].deps) /\ Dep = memos[k].deps[n] /\ Lives(k)
        /\ \A j \in 1..(n - 1) : Fresh(memos[k].deps[j]) /\ Since(memos[k].deps[j]) <= memos[k].verifiedAt
    BY <1>1, <1>2, <1>3
  <2>2. /\ Lives(memos[k].deps[n]) /\ memos[k].deps[n] \in SessionDerived
        /\ Rank(memos[k].deps[n]) < Rank(k)
    BY <1>6, <2>1, NextDepLives DEF EngineOK
  <2> QED BY <2>1, <2>2
<1> QED BY <1>4, <1>5, <1>6 DEF c, Kept

(* A dependency without a memo is an input.                                *)
LEMMA CheckInputKeeps ==
  ASSUME EngineOK, CheckInput
  PROVE  EngineOK' /\ SameWorld /\ UNCHANGED memos /\ BottomStays
<1>1. /\ Running("validate") /\ DepsLeft /\ ~Memoized(Dep) /\ SameWorld /\ UNCHANGED memos
      /\ JudgeDep(IF Dep \in SessionInputs THEN inputChanged[Dep] ELSE 0)
  BY DEF CheckInput, SameWorld
<1>2. Dep \in SessionInputs
  BY <1>1, DepIs
<1> PICK ch : ch = inputChanged[Dep]
  OBVIOUS
<1>3. Fresh(Dep) /\ Since(Dep) = ch
  BY <1>2 DEF Fresh, Since
<1>4. JudgeDep(ch)
  BY <1>1, <1>2
<1> QED BY <1>1, <1>3, <1>4, JudgeKeeps

(* A dependency that was verified is judged by its stamp.                  *)
LEMMA CheckReturnsKeeps ==
  ASSUME EngineOK, CheckReturns
  PROVE  EngineOK' /\ SameWorld /\ UNCHANGED memos /\ BottomStays
<1>1. Running("validate") /\ ret.tag = "ok" /\ JudgeDep(ret.changedAt) /\ SameWorld /\ UNCHANGED memos
  BY DEF CheckReturns, SameWorld
<1>2. /\ Waits(Top(calls), ret.key) /\ Top(calls).op = "validate"
      /\ Verified(ret.key) /\ ret.key \in SessionDerived /\ ret.changedAt = memos[ret.key].changedAt
  BY <1>1, RunningIs
<1>3. DepsLeft /\ Dep = ret.key
  BY <1>2 DEF Waits, DepsLeft, Dep
<1>4. ret.key \notin SessionInputs
  BY <1>2, KeysAre
<1> PICK ch : ch = ret.changedAt
  OBVIOUS
<1>5. Fresh(Dep) /\ Since(Dep) = ch
  BY <1>2, <1>3, <1>4 DEF Fresh, Since
<1> QED BY <1>1, <1>3, <1>5, JudgeKeeps

(* A check descends to a dependency only if that lives.                    *)
LEMMA CheckQueryKeeps ==
  ASSUME EngineOK, CheckQuery
  PROVE  EngineOK' /\ SameWorld /\ UNCHANGED memos /\ BottomStays
<1> DEFINE c == Top(calls)
<1>1. Running("validate") /\ ret = Nothing /\ DepsLeft /\ Memoized(Dep) /\ SameWorld /\ UNCHANGED memos
  BY DEF CheckQuery, SameWorld
<1> PICK d : d = Dep
  OBVIOUS
<1>2. /\ Waits(c, d) /\ Lives(d) /\ d \in SessionDerived /\ Rank(d) < Rank(c.key) /\ Memoized(d)
  BY <1>1, DepIs
<1>3. calls # <<>> /\ c.op = "validate"
  BY <1>1, RunningIs
<1>4. Chain(calls, frames) /\ FrameOK(c, Top(frames), 1)
  BY <1>3 DEF EngineOK, FrameOK
<1> HIDE DEF c
<1>5. CASE cancelled
  <2>1. calls' = calls /\ frames' = frames /\ ret' = Error(d, "Cancelled")
    BY <1>5 DEF CheckQuery
  <2> PICK cs : cs = calls
    OBVIOUS
  <2> PICK ff : ff = frames
    OBVIOUS
  <2> PICK r : r = Error(d, "Cancelled")
    OBVIOUS
  <2>2. r # Nothing /\ r.tag = "error"
    BY TagsAre
  <2>3. RetOK(cs, ff, r)
    BY <2>2 DEF RetOK
  <2>4. EngineOK'
    BY <1>1, <1>4, <2>1, <2>3, QuietMove
  <2> QED BY <1>1, <1>3, <2>1, <2>4 DEF BottomStays
<1>6. CASE ~cancelled /\ Verified(d)
  <2>1. calls' = calls /\ frames' = frames /\ ret' = AnswerOf(d)
    BY <1>6 DEF CheckQuery, Reusable
  <2> PICK cs : cs = calls
    OBVIOUS
  <2> PICK ff : ff = frames
    OBVIOUS
  <2> PICK r : r = AnswerOf(d)
    OBVIOUS
  <2>2. r # Nothing /\ r.tag = "ok" /\ r.key = d /\ r.value = memos[d].value /\ r.changedAt = memos[d].changedAt
    BY TagsAre DEF AnswerOf
  <2>3. RetOK(cs, ff, r)
    BY <1>2, <1>4, <1>6, <2>2 DEF RetOK, c
  <2>4. EngineOK'
    BY <1>1, <1>4, <2>1, <2>3, QuietMove
  <2> QED BY <1>1, <1>3, <2>1, <2>4 DEF BottomStays
<1>7. CASE ~cancelled /\ ~Verified(d)
  <2>1. calls' = Append(calls, Validate(d)) /\ frames' = Append(frames, <<>>) /\ ret' = Nothing
    BY <1>7 DEF CheckQuery, Reusable
  <2> PICK e : e = Validate(d)
    OBVIOUS
  <2>2. e.op = "validate" /\ e.key = d /\ e.memo = memos[d] /\ e.next = 1
        /\ e = [op |-> "validate", key |-> e.key, memo |-> e.memo, next |-> e.next]
    BY DEF Validate
  <2>3. CheckOK(e)
    <3>1. Len(memos[d].deps) \in Nat
      BY <1>2 DEF Memoized, EngineOK, MemosOK, MemoOK
    <3>2. d \in DOMAIN memos /\ 1 \in 1..(Len(memos[d].deps) + 1) /\ \A j \in 1..(1 - 1) : FALSE
      BY <1>2, <3>1 DEF Memoized
    <3> QED BY ONLY <2>2, <3>2 DEF CheckOK
  <2>4. CallOK(e)
    BY <1>2, <1>7, <2>2, <2>3 DEF CallOK
  <2> PICK cs : cs = Append(calls, e)
    OBVIOUS
  <2> PICK ff : ff = Append(frames, <<>>)
    OBVIOUS
  <2>5. Chain(cs, ff) /\ cs # <<>> /\ Top(cs) = e /\ cs[1] = calls[1]
    BY <1>2, <1>3, <1>4, <2>2, <2>4, PushChain DEF c
  <2>6. RetOK(cs, ff, Nothing)
    BY <2>2, <2>5, TagsAre DEF RetOK, FrameOK
  <2>7. EngineOK'
    <3> PICK r : r = Nothing
      OBVIOUS
    <3> QED BY <1>1, <2>1, <2>5, <2>6, QuietMove
  <2> QED BY <1>1, <2>1, <2>5, <2>7 DEF BottomStays
<1> QED BY <1>5, <1>6, <1>7

(* With no dependency changed the memo's explanation is that of now.       *)
LEMMA ConfirmKeeps ==
  ASSUME EngineOK, ConfirmMemo
  PROVE  EngineOK' /\ SameWorld /\ BottomStays
<1> DEFINE c == Top(calls)
<1>1. Running("validate") /\ ~DepsLeft /\ SameWorld /\ calls' = Pop(calls) /\ frames' = Pop(frames)
      /\ memos' = [memos EXCEPT ![c.key].verifiedAt = revision] /\ ret' = AnswerOf(c.key)
  BY DEF ConfirmMemo, SameWorld
<1> PICK k : k = c.key
  OBVIOUS
<1> PICK q : q = memos[k]
  OBVIOUS
<1> PICK m : m = [q EXCEPT !.verifiedAt = revision]
  OBVIOUS
<1>2. /\ calls # <<>> /\ k \in DOMAIN memos /\ c.memo = q /\ MemoOK(k, q)
      /\ k \in SessionDerived /\ ~Verified(k)
      /\ Len(q.deps) \in Nat /\ c.next \in 1..(Len(q.deps) + 1)
      /\ \A j \in 1..(c.next - 1) : Fresh(q.deps[j]) /\ Since(q.deps[j]) <= q.verifiedAt
  BY <1>1, CheckIs
<1>3. c.next = Len(q.deps) + 1
  <2>1. ~(c.next <= Len(q.deps))
    BY <1>1, <1>2 DEF DepsLeft
  <2> QED BY <1>2, <2>1
<1>4. \A j \in 1..Len(q.deps) : Fresh(q.deps[j]) /\ Since(q.deps[j]) <= q.verifiedAt
  BY <1>2, <1>3
<1>5. /\ m.value = q.value /\ m.changedAt = q.changedAt /\ m.deps = q.deps /\ m.verifiedAt = revision
      /\ IsMemo(m)
  <2>1. q = [value |-> q.value, changedAt |-> q.changedAt, verifiedAt |-> q.verifiedAt, deps |-> q.deps]
    BY <1>2 DEF MemoOK, IsMemo
  <2>2. m = [value |-> q.value, changedAt |-> q.changedAt, verifiedAt |-> revision, deps |-> q.deps]
    BY <2>1
  <2> QED BY <2>2 DEF IsMemo
<1>6. memos' = [d \in DOMAIN memos \cup {k} |-> IF d = k THEN m ELSE memos[d]]
  <2>1. memos = [d \in DOMAIN memos |-> memos[d]] /\ DOMAIN memos \cup {k} = DOMAIN memos
    BY <1>2 DEF EngineOK, MemosOK
  <2>2. memos' = [memos EXCEPT ![k] = m]
    BY <1>1
  <2> QED BY <2>1, <2>2
<1>7. ret' = Answer(k, m.value, m.changedAt)
  BY <1>1, <1>5 DEF AnswerOf
<1>8. Settles(k, m)
  <2>1. /\ q.changedAt \in Nat /\ q.verifiedAt \in Nat /\ revision \in Nat
        /\ q.changedAt <= q.verifiedAt /\ q.verifiedAt <= revision
        /\ k.kind \in {"PARSE", "INTERFACE"} => k.arg \in Files
        /\ \A j \in 1..Len(q.deps) : Rank(q.deps[j]) < Rank(k)
        /\ Explained(k, q)
    BY <1>2 DEF MemoOK, EngineOK, WorldOK
  <2>2. \E past : /\ \A j \in 1..Len(q.deps) : past[q.deps[j]] = Held(q.deps[j])
                  /\ Explains(past, k, q.deps, q.value)
    BY <1>4, <2>1 DEF Explained
  <2>3. q.changedAt <= revision
    BY <2>1
  <2> HIDE DEF c
  <2>4. \E past : /\ \A j \in 1..Len(m.deps) : past[m.deps[j]] = Held(m.deps[j])
                  /\ Explains(past, k, m.deps, m.value)
    BY ONLY <1>5, <2>2
  <2> QED BY ONLY <1>2, <1>4, <1>5, <2>1, <2>3, <2>4, q = memos[k] DEF Settles
<1>9. EngineOK' /\ BottomStays
  BY <1>1, <1>2, <1>6, <1>7, <1>8, AnswerKeeps
<1> QED BY <1>1, <1>9

(* Every step of the engine.                                               *)
LEMMA EngineStepKeeps ==
  ASSUME EngineOK, EngineStep
  PROVE  EngineOK' /\ SameWorld /\ BottomStays /\ calls # <<>>
<1>0. calls # <<>>
  BY DEF EngineStep, HostReadsQuery, HostReadsInput, HostAsksFor, HostReceives, HostFails, HostPropagates,
         HostReturns, CheckInput, CheckQuery, CheckReturns, CheckFails, ConfirmMemo, Running
<1>1. CASE HostReadsQuery
  BY <1>0, <1>1, HostReadsQueryKeeps
<1>2. CASE HostReadsInput
  BY <1>0, <1>2, HostReadsInputKeeps
<1>3. CASE HostReceives
  BY <1>0, <1>3, HostReceivesKeeps
<1>4. CASE HostFails
  <2> PICK why : why = "Failed"
    OBVIOUS
  <2>1. Running("compute") /\ AbandonCompute(why)
    BY <1>4 DEF HostFails
  <2> QED BY <1>0, <2>1, AbandonKeeps
<1>5. CASE HostPropagates
  <2> PICK why : why = ret.why
    OBVIOUS
  <2>1. Running("compute") /\ AbandonCompute(why)
    BY <1>5 DEF HostPropagates
  <2> QED BY <1>0, <2>1, AbandonKeeps
<1>6. CASE HostReturns
  BY <1>0, <1>6, HostReturnsKeeps
<1>7. CASE CheckInput
  BY <1>0, <1>7, CheckInputKeeps
<1>8. CASE CheckQuery
  BY <1>0, <1>8, CheckQueryKeeps
<1>9. CASE CheckReturns
  BY <1>0, <1>9, CheckReturnsKeeps
<1>10. CASE CheckFails
  <2>1. SameWorld /\ UNCHANGED memos /\ calls' = Pop(calls) /\ frames' = Pop(frames)
        /\ ret' = Error(Top(calls).key, ret.why)
    BY <1>10 DEF CheckFails, SameWorld
  <2> PICK k : k = Top(calls).key
    OBVIOUS
  <2> PICK why : why = ret.why
    OBVIOUS
  <2> QED BY <1>0, <2>1, ErrorKeeps
<1>11. CASE ConfirmMemo
  BY <1>0, <1>11, ConfirmKeeps
<1> QED BY <1>1, <1>2, <1>3, <1>4, <1>5, <1>6, <1>7, <1>8, <1>9, <1>10, <1>11 DEF EngineStep
-----------------------------------------------------------------------------
(* The steps of the client.                                                *)

(* An edit: the memos keep what explains them, but for what it changed.    *)
LEMMA SetFileKeeps ==
  ASSUME IInv, NEW f \in 1..NumFiles, NEW text \in Texts[f], SetFile(f, text)
  PROVE  IInv'
<1> DEFINE n == world[FileSet]
           isNew == f \notin Files
           at == IF isNew THEN revision + 2 ELSE revision + 1
<1>1. WorldOK /\ MemosOK /\ Chain(calls, frames) /\ JobOK
  BY DEF IInv
<1>2. /\ calls = <<>> /\ ~job.asking /\ f <= n + 1
      /\ revision' = at /\ ret' = Nothing /\ selection' = NoSelection
      /\ UNCHANGED <<memos, frames, calls, job>>
      /\ inputChanged' = [inputChanged EXCEPT ![FileSet] = IF isNew THEN revision + 1 ELSE @,
                                              ![Source(f)] = at]
      /\ world' = [world EXCEPT ![FileSet] = IF isNew THEN @ + 1 ELSE @, ![Source(f)] = text]
  BY DEF SetFile, ClientRuns, Idle
<1>3. /\ Files = 1..n /\ n \in Nat /\ n \in 0..NumFiles /\ NumFiles \in Nat
      /\ revision \in Nat /\ at \in Nat /\ at > revision
      /\ isNew => f = n + 1 /\ n + 1 \in 0..NumFiles /\ at > revision + 1
  <2>1. Files = 1..n /\ n \in Nat /\ n \in 0..NumFiles /\ NumFiles \in Nat /\ revision \in Nat
    BY <1>1, NowIs, SessionAssumption DEF WorldOK
  <2> HIDE DEF n
  <2>2. isNew => f = n + 1
    BY <1>2, <2>1
  <2> QED BY <2>1, <2>2
<1>4. FileSet \in SessionInputs /\ Source(f) \in SessionInputs /\ Source(f) # FileSet
  BY KeysAre
<1>5. /\ world = [i \in SessionInputs |-> world[i]]
      /\ inputChanged = [i \in SessionInputs |-> inputChanged[i]]
      /\ \A i \in SessionInputs : inputChanged[i] \in Nat /\ inputChanged[i] <= revision
      /\ \A g \in 1..n : world[Source(g)] \in Texts[g]
  BY <1>1 DEF WorldOK
<1> HIDE DEF isNew, at
<1>6. /\ world' = [i \in SessionInputs |-> world'[i]]
      /\ world'[FileSet] = (IF isNew THEN n + 1 ELSE n) /\ world'[Source(f)] = text
      /\ \A i \in SessionInputs : i # FileSet /\ i # Source(f) => world'[i] = world[i]
  <2>1. world' = [i \in SessionInputs |-> IF i = Source(f) THEN text
                    ELSE IF i = FileSet THEN (IF isNew THEN n + 1 ELSE n) ELSE world[i]]
    BY <1>2, <1>4, <1>5
  <2> HIDE DEF n
  <2> QED BY <1>4, <2>1
<1>7. /\ inputChanged' = [i \in SessionInputs |-> inputChanged'[i]]
      /\ inputChanged'[FileSet] = (IF isNew THEN revision + 1 ELSE inputChanged[FileSet])
      /\ inputChanged'[Source(f)] = at
      /\ \A i \in SessionInputs : i # FileSet /\ i # Source(f) => inputChanged'[i] = inputChanged[i]
  <2>1. inputChanged' = [i \in SessionInputs |-> IF i = Source(f) THEN at
                           ELSE IF i = FileSet THEN (IF isNew THEN revision + 1 ELSE inputChanged[FileSet])
                           ELSE inputChanged[i]]
    BY <1>2, <1>4, <1>5
  <2> QED BY <1>4, <2>1
<1> HIDE DEF n
<1>8. world'[FileSet] \in Nat /\ world'[FileSet] \in 0..NumFiles /\ n <= world'[FileSet]
  BY <1>3, <1>6
<1>9. ASSUME NEW g \in 1..world'[FileSet] PROVE world'[Source(g)] \in Texts[g]
  <2>1. CASE g = f
    BY <1>6, <2>1
  <2>2. CASE g # f
    <3>1. g \in 1..n
      BY <1>3, <1>6, <2>2
    <3>2. g \in 1..NumFiles
      BY <1>3, <3>1
    <3>3. Source(g) \in SessionInputs /\ Source(g) # FileSet /\ Source(g) # Source(f)
      BY <2>2, <3>2, KeysAre DEF Source, Key
    <3> QED BY <1>5, <1>6, <3>1, <3>3
  <2> QED BY <2>1, <2>2
<1>10. \A i \in SessionInputs : inputChanged'[i] \in Nat /\ inputChanged'[i] <= revision'
  <2>1. inputChanged'[Source(f)] \in Nat /\ inputChanged'[Source(f)] <= revision'
    BY <1>2, <1>3, <1>7
  <2>2. inputChanged'[FileSet] \in Nat /\ inputChanged'[FileSet] <= revision'
    BY <1>2, <1>3, <1>4, <1>5, <1>7
  <2>3. ASSUME NEW i \in SessionInputs, i # FileSet, i # Source(f)
        PROVE  inputChanged'[i] \in Nat /\ inputChanged'[i] <= revision'
    <3>1. inputChanged'[i] = inputChanged[i] /\ inputChanged[i] \in Nat /\ inputChanged[i] <= revision
      BY <1>5, <1>7, <2>3
    <3> QED BY <1>2, <1>3, <3>1
  <2> QED BY <2>1, <2>2, <2>3
<1>11. WorldOK'
  BY <1>2, <1>3, <1>6, <1>7, <1>8, <1>9, <1>10 DEF WorldOK
<1>12. Files \subseteq Files'
  <2>1. Files' = 1..world'[FileSet]
    BY DEF Files, Now, Program
  <2> QED BY <1>3, <1>8, <2>1
<1>13. ASSUME NEW d, Since(d)' <= revision
       PROVE  Held(d)' = Held(d) /\ Since(d)' = Since(d)
  <2>1. CASE d \notin SessionInputs
    BY <1>2, <2>1 DEF Held, Since
  <2>2. CASE d \in SessionInputs
    <3>1. inputChanged'[d] <= revision
      BY <1>13, <2>2 DEF Since
    <3>2. d # Source(f)
      BY <1>3, <1>7, <3>1
    <3>3. d = FileSet => ~isNew
      BY <1>3, <1>7, <3>1
    <3>4. world'[d] = world[d] /\ inputChanged'[d] = inputChanged[d]
      BY <1>6, <1>7, <2>2, <3>2, <3>3 DEF n
    <3> QED BY <2>2, <3>4 DEF Held, Since
  <2> QED BY <2>1, <2>2
<1>14. ASSUME NEW k, NEW m, MemoOK(k, m) PROVE MemoOK(k, m)'
  <2>1. /\ m.verifiedAt \in Nat /\ m.verifiedAt <= revision /\ Len(m.deps) \in Nat
        /\ Explained(k, m)
    BY <1>14 DEF MemoOK
  <2>2. m.verifiedAt <= revision' /\ m.verifiedAt # revision'
    BY <1>2, <1>3, <2>1
  <2>3. PICK past :
          /\ \A j \in 1..Len(m.deps) : Since(m.deps[j]) <= m.verifiedAt => past[m.deps[j]] = Held(m.deps[j])
          /\ Explains(past, k, m.deps, m.value)
    BY <2>1 DEF Explained
  <2>4. ASSUME NEW j \in 1..Len(m.deps), Since(m.deps[j])' <= m.verifiedAt
        PROVE  past[m.deps[j]] = Held(m.deps[j])'
    <3>1. Kept(m.deps[j]) /\ Kept(m.deps[j])'
      BY <1>2, <1>14 DEF MemoOK, Kept, Memoized
    <3>2. Since(m.deps[j])' \in Nat
      <4>1. CASE m.deps[j] \in SessionInputs
        BY <1>10, <4>1 DEF Since
      <4>2. CASE m.deps[j] \notin SessionInputs
        <5>1. Since(m.deps[j])' = Since(m.deps[j])
          BY <1>2, <4>2 DEF Since
        <5> QED BY <1>1, <3>1, <5>1, SinceIs
      <4> QED BY <4>1, <4>2
    <3>3. Since(m.deps[j])' <= revision
      BY <1>3, <2>1, <2>4, <3>2
    <3> QED BY <1>13, <2>3, <2>4, <3>3
  <2>5. Explained(k, m)'
    BY <2>3, <2>4 DEF Explained
  <2>6. \A j \in 1..Len(m.deps) : Rank(m.deps[j]) < Rank(k) /\ Kept(m.deps[j])'
    BY <1>2, <1>14 DEF MemoOK, Kept, Memoized
  <2>7. /\ k \in SessionDerived
        /\ k.kind \in {"PARSE", "INTERFACE"} => k.arg \in Files'
        /\ IsMemo(m)
        /\ m.changedAt \in Nat /\ m.changedAt <= m.verifiedAt
    BY <1>12, <1>14 DEF MemoOK
  <2> QED BY <2>1, <2>2, <2>5, <2>6, <2>7 DEF MemoOK
<1>15. MemosOK'
  <2>1. ASSUME NEW k \in DOMAIN memos' PROVE MemoOK(k, memos[k])'
    <3>1. k \in DOMAIN memos /\ memos'[k] = memos[k]
      BY <1>2
    <3> PICK m : m = memos[k]
      OBVIOUS
    <3>2. MemoOK(k, m)'
      BY <1>1, <1>14, <3>1 DEF MemosOK
    <3> QED BY <3>1, <3>2
  <2>2. memos' = [k \in DOMAIN memos' |-> memos'[k]]
    BY <1>1, <1>2 DEF MemosOK
  <2> QED BY <2>1, <2>2 DEF MemosOK
<1>16. Chain(calls, frames)' /\ RetOK(calls, frames, ret)'
  <2>1. frames = <<>>
    <3>1. IsSeq(calls) /\ IsSeq(frames) /\ Len(calls) = Len(frames)
      BY <1>1 DEF Chain
    <3> QED BY <1>2, <3>1, SeqIs, EmptyIs
  <2>2. calls' = <<>> /\ frames' = <<>> /\ ret' = Nothing
    BY <1>2, <2>1
  <2> QED BY <2>2, EmptyIs, TagsAre DEF Chain, RetOK
<1>17. JobOK'
  BY <1>2 DEF JobOK, NoSelection
<1> QED BY <1>11, <1>15, <1>16, <1>17 DEF IInv

(* A symbol's key is one of the host's.                                    *)
LEMMA SymbolKeys ==
  ASSUME WorldOK, NEW s \in DOMAIN Symbols[Now]
  PROVE  SpecDeps(s) \in SessionDerived
<1>1. Symbols[Now] \in SeqOf(Declarations, NumSymbols)
  BY NowIs, BoundAssumption
<1>2. PICK m \in 0..NumSymbols : Symbols[Now] \in [1..m -> Declarations]
  BY <1>1 DEF SeqOf
<1>3. NumSymbols \in Nat
  BY SessionAssumption
<1>4. s \in 1..NumSymbols
  BY <1>2, <1>3
<1> QED BY <1>4 DEF SessionDerived, SpecDeps

(* A spec is affected just if it is wanted.                                *)
LEMMA AffectedIs ==
  ASSUME WorldOK, NEW s \in SpecsIn(Now), NEW f
  PROVE  Affected(s, References(Now, s), f) <=> s \in Wanted(f)
<1>1. ASSUME NEW d \in References(Now, s)
      PROVE  d \in SymbolsInFile(Now, f) <=> Symbols[Now][d].file = f
  <2>1. d \in DOMAIN Symbols[Now] /\ IsFunction(Now, d)
    BY ReferencesAre
  <2>2. Symbols[Now][d].item.kind = "fn"
    BY <2>1 DEF IsFunction, IsKind
  <2>3. Symbols[Now][d].item.name # FreeStanding
    BY <2>1, <2>2, NowIs, SymbolIs
  <2> QED BY <2>1, <2>3 DEF SymbolsInFile
<1>2. References(Now, s) \cap SymbolsInFile(Now, f) # {}
        <=> \E d \in References(Now, s) : Symbols[Now][d].file = f
  BY <1>1
<1> QED BY <1>2 DEF Affected, Wanted

(* The job is as it was, and its query still its own.                      *)
LEMMA JobStays ==
  ASSUME JobOK, SameWorld, UNCHANGED <<job, selection>>,
         job.asking =>
           /\ calls' # <<>> => job.todo # <<>> /\ calls'[1].key = SpecDeps(job.todo[1])
           /\ calls' = <<>> /\ ret'.tag = "ok" => job.todo # <<>> /\ ret'.key = SpecDeps(job.todo[1])
  PROVE  JobOK'
<1>1. Now' = Now
  BY SameNow
<1>2. \A f : Wanted(f)' = Wanted(f)
  BY <1>1 DEF Wanted
<1>3. job' = job /\ selection' = selection
  OBVIOUS
<1>4. Wanted(job.changed)' = Wanted(job.changed)
  BY <1>1, <1>3 DEF Wanted
<1>5. Wanted(selection.changed)' = Wanted(selection.changed)
  BY <1>1, <1>3 DEF Wanted
<1>6. SpecsIn(Now)' = SpecsIn(Now)
  BY <1>1
<1> QED BY <1>3, <1>4, <1>5, <1>6 DEF JobOK

(* The engine's part of the invariant, and the client's.                   *)
LEMMA EngineMeans == IInv <=> EngineOK /\ JobOK
BY DEF IInv, EngineOK

(* Between queries the stacks are empty.                                   *)
LEMMA IdleMove ==
  ASSUME EngineOK, calls = <<>>, SameWorld, UNCHANGED <<memos, frames, calls>>,
         ret' = Nothing \/ ret' = ret
  PROVE  EngineOK'
<1> PICK cs : cs = calls
  OBVIOUS
<1> PICK fs : fs = frames
  OBVIOUS
<1> PICK r : r = ret'
  OBVIOUS
<1>1. Chain(cs, fs)
  BY DEF EngineOK
<1>2. RetOK(cs, fs, r)
  <2>1. CASE r = Nothing
    BY <2>1, TagsAre DEF RetOK
  <2>2. CASE r = ret
    BY <2>2 DEF RetOK, EngineOK
  <2> QED BY <2>1, <2>2
<1> QED BY <1>1, <1>2, QuietMove

(* The client asks only about what exists.                                 *)
LEMMA AskKeeps ==
  ASSUME IInv, NEW k \in SessionDerived, Ask(k)
  PROVE  IInv'
<1>1. calls = <<>> /\ ~job.asking /\ ClientKey(k) /\ Fetch(k) /\ UNCHANGED <<job, selection>>
  BY DEF Ask, ClientRuns, Idle, Query, sessionVars
<1>2. k.kind \notin {"INTERFACE", "FN_BODY"}
  BY <1>1, SessionAssumption DEF ClientKey
<1>3. Lives(k)
  BY <1>1, <1>2 DEF ClientKey, Lives
<1>4. EngineOK' /\ SameWorld
  BY <1>1, <1>3, FetchKeeps, EngineMeans
<1>5. JobOK'
  <2>1. JobOK
    BY EngineMeans
  <2> QED BY ONLY <1>1, <1>4, <2>1, JobStays
<1> QED BY <1>4, <1>5 DEF IInv, EngineOK

(* At first all specs are to be asked about.                               *)
LEMMA AskAffectedKeeps ==
  ASSUME IInv, NEW f, AskAffected(f)
  PROVE  IInv'
<1>1. /\ calls = <<>> /\ ret' = Nothing /\ selection' = NoSelection /\ SameWorld
      /\ UNCHANGED <<memos, frames, calls>>
      /\ job' = [asking |-> TRUE, changed |-> f, todo |-> InIdOrder(SpecsIn(Now)), affected |-> {}]
  BY DEF AskAffected, ClientRuns, Idle, SameWorld
<1>2. EngineOK'
  BY <1>1, IdleMove, EngineMeans
<1> PICK q : q = InIdOrder(SpecsIn(Now))
  OBVIOUS
<1>3. /\ IsSeq(q) /\ \A i \in 1..Len(q) : q[i] \in SpecsIn(Now)
      /\ \A s \in SpecsIn(Now) : \E i \in 1..Len(q) : q[i] = s
  <2>1. SpecsIn(Now) \in SUBSET Nat /\ IsFiniteSet(SpecsIn(Now))
    BY NowIs, SpecsAre DEF IInv
  <2> QED BY <2>1, IdsOnto
<1>4. Now' = Now
  BY <1>1, SameNow
<1>5. Wanted(job.changed)' \subseteq SpecsIn(Now)
  BY <1>4 DEF Wanted
<1>6. /\ job' = [asking |-> TRUE, changed |-> job'.changed, todo |-> job'.todo, affected |-> job'.affected]
      /\ job'.todo = q /\ job'.affected = {}
  BY <1>1
<1>7. \A s \in Wanted(job.changed)' : \E i \in 1..Len(q) : q[i] = s
  BY <1>3, <1>5
<1>8. \A i \in 1..Len(q) : q[i] \in SpecsIn(Now)'
  BY <1>3, <1>4
<1>9. ~selection'.made
  BY <1>1 DEF NoSelection
<1>10. calls' = <<>> /\ ret'.tag # "ok"
  BY <1>1, TagsAre
<1>11. JobOK'
  BY ONLY <1>3, <1>6, <1>7, <1>8, <1>9, <1>10 DEF JobOK
<1> QED BY <1>2, <1>11 DEF IInv, EngineOK

(* The first of what is left to ask.                                       *)
LEMMA HeadIs ==
  ASSUME NEW q, IsSeq(q), q # <<>>
  PROVE  /\ Head(q) = q[1] /\ Len(q) \in Nat \ {0}
         /\ IsSeq(Tail(q)) /\ Len(Tail(q)) = Len(q) - 1
         /\ \A i \in 1..(Len(q) - 1) : Tail(q)[i] = q[i + 1]
<1>1. PICK S : q \in Seq(S)
  BY DEF IsSeq
<1>2. Head(q) = q[1] /\ Len(q) \in Nat \ {0}
  BY <1>1
<1>3. Tail(q) \in Seq(S) /\ Len(Tail(q)) = Len(q) - 1
  BY <1>1
<1>4. ASSUME NEW i \in 1..(Len(q) - 1) PROVE Tail(q)[i] = q[i + 1]
  BY <1>1, <1>2
<1> QED BY <1>2, <1>3, <1>4 DEF IsSeq

(* The query in progress is that of the next spec.                         *)
LEMMA AskNextSpecKeeps ==
  ASSUME IInv, AskNextSpec
  PROVE  IInv'
<1>1. calls = <<>> /\ job.asking /\ job.todo # <<>> /\ Fetch(SpecDeps(Head(job.todo)))
      /\ UNCHANGED <<job, selection>>
  BY DEF AskNextSpec, Idle, Query, sessionVars
<1>2. IsSeq(job.todo) /\ \A i \in 1..Len(job.todo) : job.todo[i] \in SpecsIn(Now)
  BY <1>1 DEF IInv, JobOK
<1>3. Head(job.todo) = job.todo[1] /\ Len(job.todo) \in Nat \ {0}
  BY <1>1, <1>2, HeadIs
<1> PICK s : s = job.todo[1]
  OBVIOUS
<1>4. s \in SpecsIn(Now)
  BY <1>2, <1>3
<1>5. s \in DOMAIN Symbols[Now] /\ IsSpec(Now, s)
  BY <1>4 DEF SpecsIn
<1> PICK k : k = SpecDeps(s)
  OBVIOUS
<1>6. k \in SessionDerived /\ Lives(k)
  BY <1>5, SymbolKeys DEF IInv, Lives, SpecDeps, Key
<1>7. Fetch(k)
  BY <1>1, <1>3
<1>8. /\ EngineOK' /\ SameWorld
      /\ calls' # <<>> => calls'[1].key = k
      /\ calls' = <<>> /\ ret'.tag = "ok" => ret'.key = k
  BY <1>1, <1>6, <1>7, FetchKeeps, EngineMeans
<1>9. JobOK'
  <2>1. JobOK
    BY EngineMeans
  <2> QED BY ONLY <1>1, <1>8, <2>1, JobStays, k = SpecDeps(s), s = job.todo[1]
<1> QED BY <1>8, <1>9 DEF IInv, EngineOK

(* The answer for the next spec is what the spec refers to, so the spec is *)
(* chosen just if it is wanted.                                            *)
LEMMA JudgeSpecKeeps ==
  ASSUME IInv, JudgeSpec
  PROVE  IInv'
<1> DEFINE q == job.todo
           f == job.changed
           s == Head(q)
           chosen == IF Affected(s, ret.value, f) THEN job.affected \cup {s} ELSE job.affected
<1>1. /\ calls = <<>> /\ job.asking /\ ret.tag = "ok" /\ ret' = Nothing /\ SameWorld
      /\ UNCHANGED <<memos, frames, calls, selection>>
      /\ job' = [job EXCEPT !.todo = Tail(@),
                            !.affected = IF Affected(s, ret.value, f) THEN @ \cup {s} ELSE @]
  BY DEF JudgeSpec, Idle, SameWorld
<1>2. EngineOK'
  BY <1>1, IdleMove, EngineMeans
<1>3. /\ job = [asking |-> TRUE, changed |-> f, todo |-> q, affected |-> job.affected]
      /\ IsSeq(q) /\ q # <<>> /\ ret.key = SpecDeps(q[1])
      /\ \A i \in 1..Len(q) : q[i] \in SpecsIn(Now)
      /\ job.affected \subseteq Wanted(f)
      /\ \A t \in Wanted(f) : t \in job.affected \/ \E i \in 1..Len(q) : q[i] = t
  BY <1>1 DEF IInv, JobOK
<1>4. /\ s = q[1] /\ Len(q) \in Nat \ {0}
      /\ IsSeq(Tail(q)) /\ Len(Tail(q)) = Len(q) - 1
      /\ \A i \in 1..(Len(q) - 1) : Tail(q)[i] = q[i + 1]
  BY <1>3, HeadIs
<1>5. job' = [asking |-> TRUE, changed |-> f, todo |-> Tail(q), affected |-> chosen]
  BY <1>1, <1>3
<1> HIDE DEF s, q, f
<1>6. s \in SpecsIn(Now)
  BY <1>3, <1>4
<1>7. ret.value = References(Now, s)
  <2>1. Verified(ret.key) /\ ret.value = memos[ret.key].value
    BY <1>1 DEF IInv, RetOK
  <2>2. ret.key.kind = "SPEC_DEPS" /\ ret.key.arg = s
    BY <1>3, <1>4 DEF SpecDeps, Key
  <2> QED BY <2>1, <2>2, DigestCurrent DEF IInv, Digested
<1>8. Affected(s, ret.value, f) <=> s \in Wanted(f)
  BY <1>6, <1>7, AffectedIs DEF IInv
<1>9. chosen \subseteq Wanted(f)
  BY <1>3, <1>8
<1>10. ASSUME NEW t \in Wanted(f)
       PROVE  t \in chosen \/ \E i \in 1..Len(Tail(q)) : Tail(q)[i] = t
  <2>1. CASE t \in job.affected
    BY <2>1
  <2>2. CASE t \notin job.affected
    <3>1. PICK i \in 1..Len(q) : q[i] = t
      BY <1>3, <2>2
    <3>2. CASE i = 1
      BY <1>4, <1>8, <3>1, <3>2
    <3>3. CASE i # 1
      <4>1. i - 1 \in 1..(Len(q) - 1) /\ (i - 1) + 1 = i
        BY <1>4, <3>3
      <4>2. Tail(q)[i - 1] = t
        BY <1>4, <3>1, <4>1
      <4> QED BY <1>4, <4>1, <4>2
    <3> QED BY <3>2, <3>3
  <2> QED BY <2>1, <2>2
<1>11. ASSUME NEW i \in 1..Len(Tail(q)) PROVE Tail(q)[i] \in SpecsIn(Now)
  <2>1. i \in 1..(Len(q) - 1) /\ i + 1 \in 1..Len(q)
    BY <1>4
  <2> QED BY <1>3, <1>4, <2>1
<1> HIDE DEF chosen
<1>12. Now' = Now
  BY <1>1, SameNow
<1>13. job'.asking /\ job'.changed = f /\ job'.todo = Tail(q) /\ job'.affected = chosen
       /\ job' = [asking |-> TRUE, changed |-> job'.changed, todo |-> job'.todo, affected |-> job'.affected]
  BY <1>5
<1>14. Wanted(job.changed)' = Wanted(f)
  BY <1>12, <1>13 DEF Wanted
<1>15. SpecsIn(Now)' = SpecsIn(Now)
  BY <1>12
<1>16. selection'.made => selection'.specs = Wanted(selection.changed)'
  <2>1. Wanted(selection.changed)' = Wanted(selection.changed)
    BY <1>1, <1>12 DEF Wanted
  <2> QED BY <1>1, <2>1 DEF IInv, JobOK
<1>17. calls' = <<>> /\ ret'.tag # "ok"
  BY <1>1, TagsAre
<1>18. JobOK'
  BY ONLY <1>4, <1>9, <1>10, <1>11, <1>13, <1>14, <1>15, <1>16, <1>17 DEF JobOK
<1> QED BY <1>2, <1>18 DEF IInv, EngineOK

(* A job that ends leaves its engine as it was.                            *)
LEMMA GiveUpKeeps ==
  ASSUME IInv, GiveUp
  PROVE  IInv'
<1>1. calls = <<>> /\ job' = NoJob /\ UNCHANGED selection /\ SameWorld
      /\ UNCHANGED <<memos, frames, calls>> /\ ret' = ret
  BY DEF GiveUp, Idle, SameWorld, engineVars
<1>2. EngineOK'
  BY <1>1, IdleMove, EngineMeans
<1>3. ~job'.asking
  BY <1>1 DEF NoJob
<1>4. selection'.made => selection'.specs = Wanted(selection.changed)'
  <2>1. Now' = Now
    BY <1>1, SameNow
  <2>2. Wanted(selection.changed)' = Wanted(selection.changed)
    BY <1>1, <2>1 DEF Wanted
  <2> QED BY <1>1, <2>2 DEF IInv, JobOK
<1>5. JobOK'
  BY ONLY <1>3, <1>4 DEF JobOK
<1> QED BY <1>2, <1>5 DEF IInv, EngineOK

(* With nothing left to ask, the wanted specs are all chosen.              *)
LEMMA SelectKeeps ==
  ASSUME IInv, Select
  PROVE  IInv'
<1>1. /\ calls = <<>> /\ job.asking /\ job.todo = <<>> /\ job' = NoJob /\ SameWorld
      /\ selection' = [made |-> TRUE, changed |-> job.changed, specs |-> job.affected]
      /\ UNCHANGED <<memos, frames, calls>> /\ ret' = ret
  BY DEF Select, Idle, SameWorld, engineVars
<1>2. EngineOK'
  BY <1>1, IdleMove, EngineMeans
<1>3. ~job'.asking
  BY <1>1 DEF NoJob
<1>4. job.affected = Wanted(job.changed)
  <2>1. /\ job.affected \subseteq Wanted(job.changed)
        /\ \A s \in Wanted(job.changed) :
             s \in job.affected \/ \E i \in 1..Len(job.todo) : job.todo[i] = s
    BY <1>1 DEF IInv, JobOK
  <2>2. 1..Len(job.todo) = {}
    BY <1>1, EmptyIs
  <2> QED BY <2>1, <2>2
<1>5. Wanted(selection.changed)' = Wanted(job.changed)
  <2>1. Now' = Now /\ selection'.changed = job.changed
    BY <1>1, SameNow
  <2> QED BY <2>1 DEF Wanted
<1>6. selection'.specs = Wanted(selection.changed)'
  BY <1>1, <1>4, <1>5
<1>7. JobOK'
  BY ONLY <1>3, <1>6 DEF JobOK
<1> QED BY <1>2, <1>7 DEF IInv, EngineOK

(* Steps that neither ask nor answer: the flag, and stuttering.            *)
LEMMA FlagKeeps ==
  ASSUME IInv, UNCHANGED <<revision, inputChanged, world, memos, frames, calls, ret, job, selection>>
  PROVE  IInv'
<1> PICK cs : cs = calls
  OBVIOUS
<1> PICK fs : fs = frames
  OBVIOUS
<1> PICK r : r = ret
  OBVIOUS
<1>1. SameWorld
  BY DEF SameWorld
<1>2. Chain(cs, fs) /\ RetOK(cs, fs, r) /\ EngineOK /\ JobOK
  BY EngineMeans DEF EngineOK
<1>3. EngineOK'
  BY <1>1, <1>2, QuietMove
<1>4. job.asking =>
        /\ calls' # <<>> => job.todo # <<>> /\ calls'[1].key = SpecDeps(job.todo[1])
        /\ calls' = <<>> /\ ret'.tag = "ok" => job.todo # <<>> /\ ret'.key = SpecDeps(job.todo[1])
  BY <1>2 DEF JobOK
<1>5. JobOK'
  BY <1>1, <1>2, <1>4, JobStays
<1> QED BY <1>3, <1>5 DEF IInv, EngineOK

(* The engine works on the query that the job has asked.                   *)
LEMMA SessionEngineStepKeeps ==
  ASSUME IInv, SessionEngineStep
  PROVE  IInv'
<1>1. EngineOK /\ JobOK
  BY EngineMeans
<1>2. EngineStep /\ UNCHANGED <<job, selection>>
  BY DEF SessionEngineStep, sessionVars
<1>3. EngineOK' /\ SameWorld /\ BottomStays /\ calls # <<>>
  BY <1>1, <1>2, EngineStepKeeps
<1>4. job.asking =>
        /\ calls' # <<>> => job.todo # <<>> /\ calls'[1].key = SpecDeps(job.todo[1])
        /\ calls' = <<>> /\ ret'.tag = "ok" => job.todo # <<>> /\ ret'.key = SpecDeps(job.todo[1])
  BY <1>1, <1>3 DEF JobOK, BottomStays
<1>5. JobOK'
  BY <1>1, <1>2, <1>3, <1>4, JobStays
<1> QED BY <1>3, <1>5 DEF IInv, EngineOK
-----------------------------------------------------------------------------
(* The session.                                                            *)

(* It starts with no file and no memo.                                     *)
LEMMA InitHolds == SessionInit => IInv
<1> SUFFICES ASSUME SessionInit PROVE IInv
  OBVIOUS
<1>1. /\ revision = 0 /\ inputChanged = [i \in SessionInputs |-> 0] /\ world = EmptySession
      /\ memos = [k \in {} |-> Nothing] /\ frames = <<>> /\ calls = <<>> /\ ret = Nothing
      /\ job = NoJob /\ selection = NoSelection
  BY DEF SessionInit, Init
<1>2. WorldOK
  <2>1. FileSet \in SessionInputs /\ NumFiles \in Nat
    BY KeysAre, SessionAssumption
  <2>2. world[FileSet] = 0 /\ world = [i \in SessionInputs |-> world[i]]
    BY <1>1, <2>1 DEF EmptySession
  <2> QED BY <1>1, <2>1, <2>2 DEF WorldOK
<1>3. MemosOK
  BY <1>1 DEF MemosOK
<1>4. Chain(calls, frames)
  BY <1>1, EmptyChain
<1>5. RetOK(calls, frames, ret)
  BY <1>1, TagsAre DEF RetOK
<1>6. JobOK
  BY <1>1 DEF JobOK, NoJob, NoSelection
<1> QED BY <1>2, <1>3, <1>4, <1>5, <1>6 DEF IInv

(* Every step of the session.                                              *)
LEMMA StepKeeps == IInv /\ [SessionNext]_allVars => IInv'
<1> SUFFICES ASSUME IInv, [SessionNext]_allVars PROVE IInv'
  OBVIOUS
<1>1. CASE \E f \in 1..NumFiles : \E text \in Texts[f] : SetFile(f, text)
  BY <1>1, SetFileKeeps
<1>2. CASE \E k \in SessionDerived : Ask(k)
  BY <1>2, AskKeeps
<1>3. CASE \E f \in 1..NumFiles : AskAffected(f)
  BY <1>3, AskAffectedKeeps
<1>4. CASE AffectedStep
  BY <1>4, AskNextSpecKeeps, JudgeSpecKeeps, GiveUpKeeps, SelectKeeps DEF AffectedStep
<1>5. CASE SwitchCancellation
  <2>1. UNCHANGED <<revision, inputChanged, world, memos, frames, calls, ret, job, selection>>
    BY <1>5 DEF SwitchCancellation, ClearCancellation, RequestCancellation, sessionVars
  <2> QED BY <2>1, FlagKeeps
<1>6. CASE SessionEngineStep
  BY <1>6, SessionEngineStepKeeps
<1>7. CASE UNCHANGED allVars
  <2>1. UNCHANGED <<revision, inputChanged, world, memos, frames, calls, ret, job, selection>>
    BY <1>7 DEF allVars, engineVars, sessionVars
  <2> QED BY <2>1, FlagKeeps
<1> QED BY <1>1, <1>2, <1>3, <1>4, <1>5, <1>6, <1>7 DEF SessionNext

(* Whatever the client edits and asks, every memo is explained by what it  *)
(* was verified against, every activation waits for the one above it, and  *)
(* the selection in progress misses no spec.                               *)
THEOREM Invariance == SessionSpec => []IInv
<1>1. SessionInit => IInv
  BY InitHolds
<1>2. IInv /\ [SessionNext]_allVars => IInv'
  BY StepKeeps
<1> QED BY <1>1, <1>2, PTL DEF SessionSpec

(* A verified memo of the parse, resolution, spec graph or spec dependency *)
(* digests (incremental.rs, compute) is the current program's: their       *)
(* recorded reads cover what they slice.                                   *)
THEOREM VerifiedDigestsAreCurrent == SessionSpec => []DigestsAreCurrent
<1>1. IInv => DigestsAreCurrent
  BY DigestCurrent DEF IInv, DigestsAreCurrent
<1> QED BY <1>1, Invariance, PTL

(* No query (incremental.rs, compute) runs for a symbol that an edit took  *)
(* away, though memos and dependency lists of old revisions name such      *)
(* symbols: a check stops at the first dependency that changed, before it  *)
(* comes to one that is gone.                                              *)
THEOREM NoSymbolIsMissed == SessionSpec => []ComputedSymbolsExist
<1>1. ASSUME IInv PROVE ComputedSymbolsExist
  <2>1. ASSUME NEW i \in DOMAIN calls,
               calls[i].key.kind \in {"TYPE_OF", "FN_BODY", "MIR_OF", "SPEC_DEPS"}
        PROVE  calls[i].key.arg \in DOMAIN Symbols[Now]
    <3>1. Lives(calls[i].key)
      <4>1. IsSeq(calls) /\ \A j \in 1..Len(calls) : CallOK(calls[j])
        BY <1>1 DEF IInv, Chain
      <4>2. DOMAIN calls = 1..Len(calls)
        BY <4>1, SeqIs
      <4> QED BY <2>1, <4>1, <4>2 DEF CallOK
    <3> QED BY <2>1, <3>1 DEF Lives, IsFunction, IsSpec, IsKind
  <2> QED BY <2>1 DEF ComputedSymbolsExist
<1>2. IInv => ComputedSymbolsExist
  BY <1>1
<1> QED BY <1>2, Invariance, PTL

(* What affected_specs (incremental.rs) selects is the selection of the    *)
(* current program, though it is put together from as many queries as      *)
(* there are specs, each answered from memos of earlier revisions.         *)
THEOREM SelectionsAreCurrent == SessionSpec => []SelectionIsOfThisProgram
<1>1. IInv => SelectionIsOfThisProgram
  BY DEF IInv, JobOK, Wanted, SelectionIsOfThisProgram
<1> QED BY <1>1, Invariance, PTL
================================================================================
