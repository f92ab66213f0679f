----------------------------- MODULE CompilerProofs -----------------------------
(***************************************************************************)
(* Two facts the compiler's middle rests on.  The ownership checker joins  *)
(* two paths exactly: after merge a place is abnormal if it was on one of  *)
(* the paths, and definitely gone only if it was on both.  And the         *)
(* verifier's data flow is sound: in a function it accepts, no path reads  *)
(* a local that holds no value.                                            *)
(***************************************************************************)
EXTENDS MirFlow, WellFoundedInduction, NaturalsInduction, TLAPS

-----------------------------------------------------------------------------
(* The merge of two maps of states (Places), for every set of places.      *)

(* Prefixing is reflexive, and of two prefixes of a place the shorter is a *)
(* prefix of the longer.                                                   *)
LEMMA PrefixFacts ==
  ASSUME NEW Names, NEW p \in Seq(Names)
  PROVE  /\ IsPrefixOf(p, p)
         /\ \A q, r \in Seq(Names) :
              IsPrefixOf(q, p) /\ IsPrefixOf(r, p) /\ Len(q) <= Len(r) => IsPrefixOf(q, r)
         /\ \A q, r \in Seq(Names) :
              IsPrefixOf(q, r) /\ IsPrefixOf(r, p) => IsPrefixOf(q, p)
BY DEF IsPrefixOf

(* A set of sequences that has members has a shortest one.                 *)
LEMMA ShortestExists ==
  ASSUME NEW Names, NEW S, S \subseteq Seq(Names), S # {}
  PROVE  \E q \in S : \A r \in S : Len(q) <= Len(r)
<1> DEFINE T == {Len(q) : q \in S}
<1>1. T \subseteq Nat /\ T # {}
  <2>1. \A q \in S : Len(q) \in Nat
    OBVIOUS
  <2> QED BY <2>1
<1>2. IsWellFoundedOn(OpToRel(<, Nat), Nat)
  BY NatLessThanWellFounded
<1>3. PICK n \in T : \A k \in T : ~ (<<k, n>> \in OpToRel(<, Nat))
  BY <1>1, <1>2, WFMin, Zenon
<1>4. ASSUME NEW k \in T
      PROVE  n <= k
  <2>1. n \in Nat /\ k \in Nat
    BY <1>1
  <2>2. ~ (k < n)
    BY <1>3, <2>1 DEF OpToRel
  <2> HIDE DEF T
  <2> QED BY <2>1, <2>2
<1>5. PICK q \in S : n = Len(q)
  BY <1>3
<1> QED BY <1>4, <1>5

(* Among the entries that govern a place one is the worst.                 *)
LEMMA WorstExists ==
  ASSUME NEW Names, NEW m, IsMap(m, Names), NEW p, Entries(m, p) # {}
  PROVE  Worst(m, p) # {}
<1> DEFINE Bad == {q \in Entries(m, p) : Rank(m[q]) = 2}
<1>1. \A q \in Entries(m, p) : Rank(m[q]) \in {1, 2}
  BY DEF Entries, Rank, Kinds, IsMap
<1>2. CASE Bad # {}
  <2>1. PICK q \in Entries(m, p) : Rank(m[q]) = 2
    BY <1>2
  <2>2. q \in Worst(m, p)
    BY <1>1, <2>1 DEF Worst
  <2> QED BY <2>2
<1>3. CASE Bad = {}
  <2>1. PICK q \in Entries(m, p) : TRUE
    OBVIOUS
  <2>2. \A r \in Entries(m, p) : Rank(m[r]) = 1
    BY <1>1, <1>3
  <2>3. q \in Worst(m, p)
    BY <2>1, <2>2 DEF Worst
  <2> QED BY <2>3
<1> QED BY <1>2, <1>3
(* The governing entry of a place is one of the worst, so a place is       *)
(* abnormal when its governing kind is not ok, and definitely gone when    *)
(* that kind has rank 2.                                                   *)
LEMMA GoverningFacts ==
  ASSUME NEW Names, NEW m, IsMap(m, Names), NEW p \in Seq(Names)
  PROVE  /\ Governing(m, p) \in Kinds \cup {"ok"}
         /\ Governing(m, p) # "ok" <=> Abnormal(m, p)
         /\ Governing(m, p) \in {"Uninit", "Moved"} <=> Definite(m, p)
<1>1. CASE Entries(m, p) = {}
  BY <1>1 DEF Governing, Abnormal, Definite, Kinds
<1>2. CASE Entries(m, p) # {}
  <2>1. Worst(m, p) # {} /\ Worst(m, p) \subseteq Seq(Names)
    BY <1>2, WorstExists DEF Worst, Entries, IsMap
  <2>2. \E q \in Worst(m, p) : \A r \in Worst(m, p) : Len(q) <= Len(r)
    BY <2>1, ShortestExists, Zenon
  <2>3. GoverningPlace(m, p) \in Worst(m, p)
    BY <2>2 DEF GoverningPlace
  <2> DEFINE g == GoverningPlace(m, p)
  <2>4. /\ g \in Entries(m, p)
        /\ \A r \in Entries(m, p) : Rank(m[r]) <= Rank(m[g])
    BY <2>3 DEF Worst
  <2>5. Governing(m, p) = m[g] /\ m[g] \in Kinds
    BY <1>2, <2>4 DEF Governing, Entries, IsMap
  <2> HIDE DEF g
  <2>6. m[g] \in {"Uninit", "Moved"} <=> Definite(m, p)
    <3>1. \A r \in Entries(m, p) : Rank(m[r]) \in {1, 2}
      BY DEF Rank
    <3>2. m[g] \in {"Uninit", "Moved"} <=> Rank(m[g]) = 2
      BY DEF Rank
    <3> QED BY <2>4, <3>1, <3>2 DEF Definite
  <2> QED BY <1>2, <2>5, <2>6 DEF Abnormal, Kinds
<1> QED BY <1>1, <1>2

(* merge_pair is ok only of two ok states, and definite only of two that   *)
(* are.                                                                    *)
LEMMA MergePairFacts ==
  ASSUME NEW a \in Kinds \cup {"ok"}, NEW b \in Kinds \cup {"ok"}
  PROVE  /\ MergePair(a, b) \in Kinds \cup {"ok"}
         /\ MergePair(a, b) = "ok" <=> a = "ok" /\ b = "ok"
         /\ MergePair(a, b) \in {"Uninit", "Moved"}
              <=> a \in {"Uninit", "Moved"} /\ b \in {"Uninit", "Moved"}
BY DEF MergePair, Kinds

(* A join is abnormal where one of the two paths was, definitely gone      *)
(* where both were, and its kinds are kinds.  (Body::merge)                *)
THEOREM MergeIsExact ==
  ASSUME NEW Names, NEW a, IsMap(a, Names), NEW b, IsMap(b, Names), NEW p \in Seq(Names)
  PROVE  /\ IsMap(Merge(a, b), Names)
         /\ Abnormal(Merge(a, b), p) <=> Abnormal(a, p) \/ Abnormal(b, p)
         /\ Definite(Merge(a, b), p) <=> Definite(a, p) /\ Definite(b, p)
<1> DEFINE m         == Merge(a, b)
           Joined(q) == MergePair(Governing(a, q), Governing(b, q))
           Keys      == DOMAIN a \cup DOMAIN b
<1>1. \A q \in Seq(Names) :
        /\ Joined(q) \in Kinds \cup {"ok"}
        /\ Joined(q) # "ok" <=> Abnormal(a, q) \/ Abnormal(b, q)
        /\ Joined(q) \in {"Uninit", "Moved"} <=> Definite(a, q) /\ Definite(b, q)
  <2> SUFFICES ASSUME NEW q \in Seq(Names)
               PROVE  /\ Joined(q) \in Kinds \cup {"ok"}
                      /\ Joined(q) # "ok" <=> Abnormal(a, q) \/ Abnormal(b, q)
                      /\ Joined(q) \in {"Uninit", "Moved"} <=> Definite(a, q) /\ Definite(b, q)
    OBVIOUS
  <2>1. /\ Governing(a, q) \in Kinds \cup {"ok"}
        /\ Governing(a, q) # "ok" <=> Abnormal(a, q)
        /\ Governing(a, q) \in {"Uninit", "Moved"} <=> Definite(a, q)
    BY GoverningFacts
  <2>2. /\ Governing(b, q) \in Kinds \cup {"ok"}
        /\ Governing(b, q) # "ok" <=> Abnormal(b, q)
        /\ Governing(b, q) \in {"Uninit", "Moved"} <=> Definite(b, q)
    BY GoverningFacts
  <2>3. /\ Joined(q) \in Kinds \cup {"ok"}
        /\ Joined(q) = "ok" <=> Governing(a, q) = "ok" /\ Governing(b, q) = "ok"
        /\ Joined(q) \in {"Uninit", "Moved"}
             <=> Governing(a, q) \in {"Uninit", "Moved"} /\ Governing(b, q) \in {"Uninit", "Moved"}
    BY <2>1, <2>2, MergePairFacts, Zenon
  <2> QED BY <2>1, <2>2, <2>3, Zenon
<1>2. /\ DOMAIN m = {q \in Keys : Joined(q) # "ok"}
      /\ \A q \in DOMAIN m : m[q] = Joined(q)
  BY DEF Merge
<1>3. Keys \subseteq Seq(Names)
  BY DEF IsMap
<1>4. IsMap(m, Names)
  <2> HIDE DEF m, Joined, Keys
  <2> QED BY <1>1, <1>2, <1>3 DEF IsMap
(* A place above p that is abnormal on a path makes p abnormal on it.      *)
<1>5. \A q, r \in Seq(Names) :
        IsPrefixOf(q, r) => /\ Abnormal(a, q) => Abnormal(a, r)
                            /\ Abnormal(b, q) => Abnormal(b, r)
                            /\ Definite(a, q) => Definite(a, r)
                            /\ Definite(b, q) => Definite(b, r)
  <2> SUFFICES ASSUME NEW q \in Seq(Names), NEW r \in Seq(Names), IsPrefixOf(q, r)
               PROVE  Entries(a, q) \subseteq Entries(a, r) /\ Entries(b, q) \subseteq Entries(b, r)
    BY DEF Abnormal, Definite
  <2> QED BY PrefixFacts DEF Entries, IsMap
<1>6. \A q \in Entries(m, p) : q \in Seq(Names) /\ IsPrefixOf(q, p) /\ q \in DOMAIN m
  BY <1>2, <1>3 DEF Entries
<1>7. Abnormal(m, p) => Abnormal(a, p) \/ Abnormal(b, p)
  <2> SUFFICES ASSUME NEW q \in Entries(m, p)
               PROVE  Abnormal(a, p) \/ Abnormal(b, p)
    BY DEF Abnormal
  <2>1. Abnormal(a, q) \/ Abnormal(b, q)
    BY <1>1, <1>2, <1>6
  <2> QED BY <1>5, <1>6, <2>1
<1>8. ASSUME NEW q \in Keys, IsPrefixOf(q, p)
      PROVE  q \in DOMAIN m /\ q \in Entries(m, p)
  <2>1. q \in Seq(Names) /\ (Abnormal(a, q) \/ Abnormal(b, q))
    BY <1>3, PrefixFacts DEF Abnormal, Entries
  <2>2. q \in DOMAIN m
    BY <1>1, <1>2, <2>1
  <2> QED BY <1>8, <2>2 DEF Entries
<1>9. Abnormal(a, p) \/ Abnormal(b, p) => Abnormal(m, p)
  BY <1>8 DEF Abnormal, Entries
<1>10. Definite(m, p) => Definite(a, p) /\ Definite(b, p)
  <2> SUFFICES ASSUME NEW q \in Entries(m, p), Rank(m[q]) = 2
               PROVE  Definite(a, p) /\ Definite(b, p)
    BY DEF Definite
  <2>1. Joined(q) \in {"Uninit", "Moved"}
    BY <1>2, <1>6 DEF Rank
  <2>2. Definite(a, q) /\ Definite(b, q)
    BY <1>1, <1>6, <2>1
  <2> QED BY <1>5, <1>6, <2>2
(* Of the definite entries of both paths the longer is definite in both.   *)
<1>11. Definite(a, p) /\ Definite(b, p) => Definite(m, p)
  <2> SUFFICES ASSUME NEW q \in Entries(a, p), Rank(a[q]) = 2,
                      NEW r \in Entries(b, p), Rank(b[r]) = 2
               PROVE  Definite(m, p)
    BY DEF Definite
  <2>1. /\ q \in Seq(Names) /\ q \in Keys /\ IsPrefixOf(q, p) /\ Definite(a, q)
        /\ r \in Seq(Names) /\ r \in Keys /\ IsPrefixOf(r, p) /\ Definite(b, r)
    BY <1>3, PrefixFacts DEF Entries, Definite
  <2>2. \E l \in {q, r} : Definite(a, l) /\ Definite(b, l)
    <3>1. Len(q) <= Len(r) \/ Len(r) <= Len(q)
      BY <2>1
    <3>2. IsPrefixOf(q, r) \/ IsPrefixOf(r, q)
      BY <2>1, <3>1, PrefixFacts
    <3> QED BY <1>5, <2>1, <3>2
  <2>3. PICK l \in {q, r} : Definite(a, l) /\ Definite(b, l)
    BY <2>2
  <2>4. l \in Entries(m, p) /\ l \in DOMAIN m /\ l \in Seq(Names)
    BY <1>8, <2>1
  <2>5. m[l] \in {"Uninit", "Moved"}
    BY <1>1, <1>2, <2>3, <2>4
  <2> QED BY <2>4, <2>5 DEF Definite, Rank
<1> QED BY <1>4, <1>7, <1>9, <1>10, <1>11

-----------------------------------------------------------------------------
(* The paths through a function (MirFlow), for every function and account. *)

(* A statement fills and takes the same locals whatever else holds a       *)
(* value, so more before it means more after it.                           *)
LEMMA ApplyIsMonotone ==
  ASSUME NEW s, NEW a, NEW b, a \subseteq b
  PROVE  ApplyStatement(s, a) \subseteq ApplyStatement(s, b)
BY DEF ApplyStatement

(* The points of a block: its statements and its terminator.               *)
LEMMA BlockShape ==
  ASSUME IsCode, NEW b \in R
  PROVE  /\ Length(b) \in Nat
         /\ DOMAIN F.blocks[b].statements = 1..Length(b)
         /\ Points(F, b) = 1..(Length(b) + 1)
<1>1. F.blocks[b].statements \in Seq(Statements(F))
  BY DEF IsCode
<1> QED BY <1>1 DEF Length, Points

(* Execution begins where the account begins.                              *)
LEMMA StartsInStep ==
  ASSUME IsCode, Audited, Init
  PROVE  InStep
<1>1. 1 \in R /\ At[1][1] \subseteq ParamsOf(F)
  BY DEF Audited, IsSolution
<1>2. 1 \in Points(F, 1)
  BY <1>1, BlockShape
<1> QED BY <1>1, <1>2 DEF Init, InStep

(* A statement keeps execution and account in step.                        *)
LEMMA ExecInStep ==
  ASSUME IsCode, Audited, InStep, Exec
  PROVE  InStep'
<1> DEFINE s == F.blocks[block].statements[next]
<1>1. /\ block \in R /\ block' = block
      /\ DOMAIN F.blocks[block].statements = 1..Length(block)
      /\ Length(block) \in Nat
      /\ next \in 1..Length(block)
  BY BlockShape DEF InStep, Exec
<1>2. next' \in Points(F, block')
  BY <1>1, BlockShape DEF Exec
<1>3. At[block][next + 1] = ApplyStatement(s, At[block][next])
  BY <1>1 DEF Audited, IsSolution
<1>4. ApplyStatement(s, At[block][next]) \subseteq ApplyStatement(s, live)
  BY ApplyIsMonotone DEF InStep
<1>5. live' = ApplyStatement(s, live) /\ next' = next + 1
  BY DEF Exec
<1> QED BY <1>1, <1>2, <1>3, <1>4, <1>5 DEF InStep

(* An edge loses nothing of the account, so a jump keeps them in step.     *)
LEMMA JumpInStep ==
  ASSUME IsCode, Audited, InStep, Jump
  PROVE  InStep'
<1>1. /\ block \in R
      /\ block' \in R
      /\ At[block'][1] \subseteq At[block][Length(block) + 1]
  BY DEF InStep, Jump, Audited, IsSolution, Length
<1>2. next = Length(block) + 1 /\ next' = 1 /\ live' = live
  BY DEF Jump
<1>3. 1 \in Points(F, block')
  BY <1>1, BlockShape
<1> QED BY <1>1, <1>2, <1>3 DEF InStep

(* In step, and with a clean audit, the next read is of live locals.       *)
LEMMA InStepReadsLive ==
  ASSUME IsCode, Audited, InStep
  PROVE  NoDeadRead
<1>1. block \in R /\ At[block][next] \subseteq live
  BY DEF InStep
<1>2. AuditOk(F, block, At[block])
  BY <1>1 DEF Audited
<1>3. CASE next \in DOMAIN F.blocks[block].statements
  <2>1. Reads(F.blocks[block].statements[next]) \subseteq At[block][next]
    BY <1>2, <1>3 DEF AuditOk
  <2>2. next # Length(block) + 1
    BY <1>1, <1>3, BlockShape
  <2> QED BY <1>1, <2>1, <2>2 DEF NoDeadRead
<1>4. CASE next \notin DOMAIN F.blocks[block].statements
  BY <1>1, <1>2, <1>4 DEF AuditOk, NoDeadRead, Length
<1> QED BY <1>3, <1>4

(* Audited is a state-independent fact about a function and its account:   *)
(* if the sets are any solution of the data flow and the audit finds no    *)
(* read outside them, no path of the function, however long and whichever  *)
(* branches it takes, reads a local without a value.                       *)
THEOREM VerifiedReadsAreLive ==
  ASSUME IsCode, Audited
  PROVE  Spec => []NoDeadRead
<1>1. Init => InStep
  BY StartsInStep
<1>2. InStep /\ [Next]_vars => InStep'
  <2>1. CASE Exec BY <2>1, ExecInStep
  <2>2. CASE Jump BY <2>2, JumpInStep
  <2>3. CASE UNCHANGED vars BY <2>3 DEF vars, InStep
  <2> QED BY <2>1, <2>2, <2>3 DEF Next
<1>3. InStep => NoDeadRead
  BY InStepReadsLive
<1> QED BY <1>1, <1>2, <1>3, PTL DEF Spec
===============================================================================
