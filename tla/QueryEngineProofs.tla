--------------------------- MODULE QueryEngineProofs ---------------------------
(***************************************************************************)
(* The recursive engine, for every host that obeys the purity rules and    *)
(* whose queries, over any one state of the inputs, do not read each other *)
(* in a circle: it implements RedGreen, whatever order its activations     *)
(* nest in and wherever cancellation or an error cuts them short; every    *)
(* answer it hands out is true; it repeats no work; and it never takes a   *)
(* stale read for a cycle.                                                 *)
(*                                                                         *)
(* The invariant has a part for each thing the recursion carries: the two  *)
(* stacks fit the activations (Stacks), each activation is a run or a      *)
(* check that is true so far (ActivationOK), and the result on its way to  *)
(* the activation below is the one that it waits for (ResultOK).           *)
(***************************************************************************)
EXTENDS QueryEngineSpec, SequenceTheorems, WellFoundedInduction, TLAPS

RG == INSTANCE RedGreenProofs WITH Step <- ClosedStep

(* A ranking of the queries over the inputs of now: the host is acyclic.   *)
Rank == CHOOSE rank \in [Derived -> 0..Cardinality(Derived)] : RankedBy(rank, world)

(* Activation c, whose frame is f, waits for the result of key d.          *)
Waits(c, f, d) ==
  \/ /\ c.op = "compute"
     /\ Len(f) = Len(c.seen) + 1 /\ f[Len(f)] = d
  \/ /\ c.op = "validate"
     /\ c.next <= Len(c.memo.deps) /\ c.memo.deps[c.next] = d

(* a and b agree on their first n entries.                                 *)
Agree(a, b, n) == \A i \in 1..n : a[i] = b[i]

(* The m active keys as are those of the runs among the n activations cs,  *)
(* in their order.                                                         *)
Aligned(cs, n, act, m) ==
  \E at \in [1..m -> 1..n] :
    /\ \A i, j \in 1..m : i < j => at[i] < at[j]
    /\ \A j \in 1..m : Computing(cs[at[j]]) /\ act[j] = cs[at[j]].key
    /\ \A i \in 1..n : Computing(cs[i]) => \E j \in 1..m : at[j] = i

(* Each of the n activations cs waits for the key of the one above it, and *)
(* ranks above all that are above it.                                      *)
Chain(cs, fs, n) ==
  /\ \A i, j \in 1..n : j = i + 1 => Waits(cs[i], fs[i], cs[j].key)
  /\ \A i, j \in 1..n : i < j => Rank[cs[j].key] < Rank[cs[i].key]

(* The stacks of activations, frames and active keys fit.                  *)
Stacks(cs, fs, act) ==
  /\ cs \in Seq(Activation) /\ fs \in Seq(Seq(Keys)) /\ act \in Seq(Derived)
  /\ Len(fs) = Len(cs)
  /\ Chain(cs, fs, Len(cs))
  /\ Aligned(cs, Len(cs), act, Len(act))

(* A check of c.memo: the dependencies before the next are settled, and    *)
(* none of them changed since the memo was verified.                       *)
CheckOK(c, f) ==
  /\ c.key \in DOMAIN memos /\ c.memo = memos[c.key]
  /\ f = <<>>
  /\ c.next \in 1..(Len(c.memo.deps) + 1)
  /\ \A j \in 1..(c.next - 1) :
       /\ RG!Settled(c.memo.deps[j])
       /\ RG!ChangedAt(c.memo.deps[j]) <= c.memo.verifiedAt

(* A run of the host: so far it read what f has, in that order, and saw    *)
(* the values that these keys have now.                                    *)
RunOK(c, f) ==
  /\ c.existing = IF c.key \in DOMAIN memos THEN <<memos[c.key]>> ELSE <<>>
  /\ f \in ReadSeqs
  /\ Len(f) \in {Len(c.seen), Len(c.seen) + 1}
  /\ c.seen = RG!Seen(f, RG!Current, Len(c.seen))
  /\ \A j \in 1..Len(c.seen) : RG!Settled(f[j])
  /\ \A j \in 1..Len(f) : ClosedStep(c.key, RG!Seen(f, RG!Current, j - 1)) = Reads(f[j])

ActivationOK(c, f) ==
  /\ ~RG!Fresh(c.key)
  /\ c.op = "validate" => CheckOK(c, f)
  /\ c.op = "compute" => RunOK(c, f)

(* A result is of this revision, and a failure is one of the query's own.  *)
Truthful(r) ==
  /\ r \in Results /\ r.tag # "panic"
  /\ r.tag = "ok" => RG!Fresh(r.key) /\ r.value = memos[r.key].value
                                     /\ r.changedAt = memos[r.key].changedAt
  /\ r.tag = "error" /\ r.why = "Failed" => Truth[world][r.key] = NoValue

(* The result r is the one that the innermost activation waits for; if     *)
(* there is none yet, a run waits for nothing.                             *)
ResultOK(cs, fs, r) ==
  /\ Truthful(r)
  /\ cs # <<>> =>
       /\ r = Nothing /\ Top(cs).op = "compute" => Len(Top(fs)) = Len(Top(cs).seen)
       /\ r.tag = "ok" \/ (r.tag = "error" /\ r.why = "Failed") => Waits(Top(cs), Top(fs), r.key)

Fits(cs, fs, act) ==
  /\ Stacks(cs, fs, act)
  /\ \A i \in 1..Len(cs) : ActivationOK(cs[i], fs[i])

EInv ==
  /\ RG!IInv
  /\ cancelled \in BOOLEAN
  /\ Fits(calls, frames, active)
  /\ ResultOK(calls, frames, ret)

-----------------------------------------------------------------------------
(* The assumptions, as the abstract engine has them.                       *)
LEMMA AbstractNames ==
  RG!Keys = Keys /\ RG!Worlds = Worlds /\ RG!Revisions = Revisions
BY DEF RG!Keys, Keys, RG!Worlds, Worlds, RG!Revisions, Revisions

LEMMA AbstractRuns ==
  /\ \A k, reads, vals, v : RG!RunReturns(k, reads, vals, v) <=> Abstract!RunReturns(k, reads, vals, v)
  /\ \A reads, vals, n : RG!Seen(reads, vals, n) = Abstract!Seen(reads, vals, n)
BY DEF RG!RunReturns, Abstract!RunReturns, RG!Seen, Abstract!Seen,
       RG!Reads, Abstract!Reads, RG!Returns, Abstract!Returns

LEMMA AbstractConstants ==
  /\ Inputs \cap Derived = {}
  /\ InitialWorld \in RG!Worlds
  /\ ReadSeqs \subseteq Seq(RG!Keys)
  /\ MaxRevision \in Nat
BY EngineAssumption, ReadSeqsAssumption, AbstractNames

LEMMA AbstractTruth ==
  /\ Truth \in [RG!Worlds -> [RG!Keys -> Values \cup {NoValue}]]
  /\ \A w \in RG!Worlds :
       /\ \A i \in Inputs : Truth[w][i] = w[i]
       /\ \A k \in Derived, reads \in ReadSeqs, v \in Values :
            RG!RunReturns(k, reads, Truth[w], v) => Truth[w][k] = v
BY TruthIsMeaning, AbstractNames, AbstractRuns

LEMMA Ranked ==
  ASSUME world \in Worlds
  PROVE  RankedBy(Rank, world) /\ \A k \in Derived : Rank[k] \in Int
<1>1. Rank \in [Derived -> 0..Cardinality(Derived)] /\ RankedBy(Rank, world)
  BY HostIsAcyclic DEF Rank
<1> QED BY <1>1

-----------------------------------------------------------------------------
(* Stacks as sequences.                                                    *)
LEMMA SeqFacts ==
  ASSUME NEW S, NEW s \in Seq(S)
  PROVE  /\ Len(s) \in Nat /\ DOMAIN s = 1..Len(s) /\ s = [i \in 1..Len(s) |-> s[i]]
         /\ \A i \in 1..Len(s) : s[i] \in S
         /\ s # <<>> => Len(s) \in 1..Len(s) /\ Len(s) > 0
         /\ s = <<>> => Len(s) = 0
OBVIOUS

LEMMA PopOps ==
  ASSUME NEW S, NEW s \in Seq(S), s # <<>>
  PROVE  /\ Len(s) \in Nat \ {0} /\ Top(s) = s[Len(s)] /\ Top(s) \in S
         /\ Pop(s) \in Seq(S) /\ Len(Pop(s)) = Len(s) - 1
         /\ DOMAIN Pop(s) = 1..(Len(s) - 1)
         /\ \A i \in 1..(Len(s) - 1) : Pop(s)[i] = s[i]
<1> DEFINE n == Len(s) - 1
<1>1. Len(s) \in Nat \ {0} /\ s[Len(s)] \in S
  BY SeqFacts
<1>2. n \in Nat /\ n = Len(s) - 1 /\ Pop(s) = SubSeq(s, 1, n)
  BY <1>1 DEF Pop
<1> HIDE DEF n
<1>3. SubSeq(s, 1, n) \in Seq(S)
  BY <1>2
<1>4. Len(SubSeq(s, 1, n)) = n
  BY <1>2
<1>5. \A i \in 1..n : SubSeq(s, 1, n)[i] = s[i]
  BY <1>2
<1>6. DOMAIN Pop(s) = 1..n
  BY <1>2, <1>3, <1>4, SeqFacts
<1> QED BY <1>1, <1>2, <1>3, <1>4, <1>5, <1>6 DEF Top

LEMMA PushOps ==
  ASSUME NEW S, NEW s \in Seq(S), NEW e \in S
  PROVE  /\ Append(s, e) \in Seq(S) /\ Len(Append(s, e)) = Len(s) + 1
         /\ DOMAIN Append(s, e) = 1..(Len(s) + 1)
         /\ Append(s, e) # <<>> /\ Top(Append(s, e)) = e /\ Append(s, e)[Len(s) + 1] = e
         /\ \A i \in 1..Len(s) : Append(s, e)[i] = s[i]
BY DEF Top

LEMMA ReplaceOps ==
  ASSUME NEW S, NEW s \in Seq(S), s # <<>>, NEW e \in S
  PROVE  /\ ReplaceTop(s, e) \in Seq(S) /\ Len(ReplaceTop(s, e)) = Len(s)
         /\ DOMAIN ReplaceTop(s, e) = 1..Len(s)
         /\ ReplaceTop(s, e) # <<>> /\ Top(ReplaceTop(s, e)) = e
         /\ ReplaceTop(s, e)[Len(s)] = e
         /\ \A i \in 1..(Len(s) - 1) : ReplaceTop(s, e)[i] = s[i]
<1> DEFINE n == Len(s)
           q == ReplaceTop(s, e)
<1>1. n \in Nat /\ n \in 1..n
  BY SeqFacts
<1>2. q = [s EXCEPT ![n] = e]
  BY DEF ReplaceTop
<1> HIDE DEF q
<1>3. q \in Seq(S) /\ Len(q) = n /\ \A j \in 1..n : q[j] = IF j = n THEN e ELSE s[j]
  BY <1>1, <1>2, ExceptSeq
<1>4. q # <<>> /\ DOMAIN q = 1..n
  BY <1>1, <1>3, SeqFacts
<1>5. q[n] = e /\ \A i \in 1..(n - 1) : q[i] = s[i]
  <2> HIDE DEF n
  <2>1. \A i \in 1..(n - 1) : i \in 1..n /\ i # n
    BY <1>1
  <2> QED BY <1>1, <1>3, <2>1
<1>6. Top(q) = e
  BY <1>3, <1>5 DEF Top
<1> QED BY <1>3, <1>4, <1>5, <1>6 DEF q

(* The same, by the number n of entries that stay.                         *)
LEMMA PushAt ==
  ASSUME NEW S, NEW s \in Seq(S), NEW e \in S, NEW n \in Nat, Len(s) = n
  PROVE  /\ Append(s, e) \in Seq(S) /\ Len(Append(s, e)) = n + 1
         /\ Append(s, e)[n + 1] = e /\ Agree(Append(s, e), s, n)
BY PushOps DEF Agree

LEMMA PopAt ==
  ASSUME NEW S, NEW s \in Seq(S), NEW n \in Nat, Len(s) = n + 1
  PROVE  /\ Pop(s) \in Seq(S) /\ Len(Pop(s)) = n /\ Agree(Pop(s), s, n)
         /\ s # <<>> /\ Top(s) = s[n + 1]
<1>1. s # <<>> /\ Len(s) - 1 = n
  OBVIOUS
<1>2. Pop(s) \in Seq(S) /\ Len(Pop(s)) = n /\ Top(s) = s[n + 1]
  BY <1>1, PopOps
<1>3. \A i \in 1..(Len(s) - 1) : Pop(s)[i] = s[i]
  BY <1>1, PopOps
<1> QED BY <1>1, <1>2, <1>3 DEF Agree

LEMMA ReplaceAt ==
  ASSUME NEW S, NEW s \in Seq(S), NEW e \in S, NEW n \in Nat, Len(s) = n + 1
  PROVE  /\ ReplaceTop(s, e) \in Seq(S) /\ Len(ReplaceTop(s, e)) = n + 1
         /\ ReplaceTop(s, e)[n + 1] = e /\ Agree(ReplaceTop(s, e), s, n)
<1>1. s # <<>> /\ Len(s) - 1 = n
  OBVIOUS
<1>2. /\ ReplaceTop(s, e) \in Seq(S) /\ Len(ReplaceTop(s, e)) = Len(s)
      /\ ReplaceTop(s, e)[Len(s)] = e
      /\ \A i \in 1..(Len(s) - 1) : ReplaceTop(s, e)[i] = s[i]
  <2>1. s # <<>>
    BY <1>1
  <2> QED BY ONLY s \in Seq(S), e \in S, <2>1, ReplaceOps
<1> QED BY <1>1, <1>2 DEF Agree

(* The fields of an activation.                                            *)
LEMMA Fields ==
  ASSUME NEW c \in Activation
  PROVE  /\ c.key \in Derived
         /\ c.op \in {"validate", "compute"}
         /\ c.op = "validate" => c.memo \in Memo /\ c.next \in Nat \ {0}
         /\ c.op = "compute" => c.existing \in Option(Memo) /\ c.seen \in Seq(Values)
BY DEF Activation

(* A check on top of the activations leaves the active keys as they were.  *)
LEMMA CheckAligns ==
  ASSUME NEW cs, NEW n \in Nat, NEW act, NEW m \in Nat, Aligned(cs, n, act, m),
         NEW ds, Agree(ds, cs, n), ~Computing(ds[n + 1])
  PROVE  Aligned(ds, n + 1, act, m)
<1> USE DEF Agree
<1>1. PICK at \in [1..m -> 1..n] :
        /\ \A i, j \in 1..m : i < j => at[i] < at[j]
        /\ \A j \in 1..m : Computing(cs[at[j]]) /\ act[j] = cs[at[j]].key
        /\ \A i \in 1..n : Computing(cs[i]) => \E j \in 1..m : at[j] = i
  BY DEF Aligned
<1>2. at \in [1..m -> 1..(n + 1)] /\ \A j \in 1..m : at[j] \in 1..n
  OBVIOUS
<1>3. \A j \in 1..m : Computing(ds[at[j]]) /\ act[j] = ds[at[j]].key
  BY <1>1, <1>2
<1>4. ASSUME NEW i \in 1..(n + 1), Computing(ds[i])
      PROVE  \E j \in 1..m : at[j] = i
  <2>1. i \in 1..n
    BY <1>4
  <2> QED BY <1>1, <1>4, <2>1
<1> QED BY <1>1, <1>2, <1>3, <1>4 DEF Aligned

(* A run on top of the activations puts its key on top of the active keys. *)
LEMMA RunAligns ==
  ASSUME NEW cs, NEW n \in Nat, NEW act, NEW m \in Nat, Aligned(cs, n, act, m),
         NEW ds, Agree(ds, cs, n), Computing(ds[n + 1]),
         NEW a, Agree(a, act, m), a[m + 1] = ds[n + 1].key
  PROVE  Aligned(ds, n + 1, a, m + 1)
<1> USE DEF Agree
<1>1. PICK at \in [1..m -> 1..n] :
        /\ \A i, j \in 1..m : i < j => at[i] < at[j]
        /\ \A j \in 1..m : Computing(cs[at[j]]) /\ act[j] = cs[at[j]].key
        /\ \A i \in 1..n : Computing(cs[i]) => \E j \in 1..m : at[j] = i
  BY DEF Aligned
<1> DEFINE to == [j \in 1..(m + 1) |-> IF j = m + 1 THEN n + 1 ELSE at[j]]
<1>2. \A j \in 1..(m + 1) : j \in 1..m \/ j = m + 1
  OBVIOUS
<1>3. to[m + 1] = n + 1 /\ \A j \in 1..m : to[j] = at[j] /\ at[j] \in 1..n /\ j # m + 1
  OBVIOUS
<1>4. to \in [1..(m + 1) -> 1..(n + 1)]
  <2>1. \A j \in 1..(m + 1) : to[j] \in 1..(n + 1)
    BY <1>2, <1>3
  <2> QED BY <2>1
<1> HIDE DEF to
<1>5. ASSUME NEW i \in 1..(m + 1), NEW j \in 1..(m + 1), i < j PROVE to[i] < to[j]
  <2>1. i \in 1..m
    BY <1>5
  <2>2. CASE j = m + 1
    BY <1>3, <2>1, <2>2
  <2>3. CASE j \in 1..m
    BY <1>1, <1>3, <1>5, <2>1, <2>3
  <2> QED BY <1>2, <2>2, <2>3
<1>6. ASSUME NEW j \in 1..(m + 1)
      PROVE  Computing(ds[to[j]]) /\ a[j] = ds[to[j]].key
  <2>1. CASE j = m + 1
    BY <1>3, <2>1
  <2>2. CASE j \in 1..m
    <3>1. to[j] = at[j] /\ ds[at[j]] = cs[at[j]]
      BY <1>3, <2>2
    <3> QED BY <1>1, <2>2, <3>1
  <2> QED BY <1>2, <2>1, <2>2
<1>7. ASSUME NEW i \in 1..(n + 1), Computing(ds[i])
      PROVE  \E j \in 1..(m + 1) : to[j] = i
  <2>1. CASE i = n + 1
    BY <1>3, <2>1
  <2>2. CASE i \in 1..n
    <3>1. PICK j \in 1..m : at[j] = i
      BY <1>1, <1>7, <2>2
    <3>2. j \in 1..(m + 1) /\ to[j] = i
      BY <1>3, <3>1
    <3> QED BY <3>2
  <2> QED BY <2>1, <2>2
<1> QED BY <1>4, <1>5, <1>6, <1>7 DEF Aligned

LEMMA PushChains ==
  ASSUME NEW cs, NEW fs, NEW n \in Nat, Chain(cs, fs, n),
         NEW ds, Agree(ds, cs, n),
         NEW gs, Agree(gs, fs, n),
         n # 0 => Waits(cs[n], fs[n], ds[n + 1].key),
         \A i \in 1..n : Rank[ds[n + 1].key] < Rank[cs[i].key]
  PROVE  Chain(ds, gs, n + 1)
<1> USE DEF Agree
<1>1. ASSUME NEW i \in 1..(n + 1), NEW j \in 1..(n + 1), j = i + 1
      PROVE  Waits(ds[i], gs[i], ds[j].key)
  <2>1. i \in 1..n
    BY <1>1
  <2>2. CASE i = n
    <3>1. n # 0 /\ j = n + 1
      BY <1>1, <2>1, <2>2
    <3>2. ds[i] = cs[n] /\ gs[i] = fs[n]
      BY <2>1, <2>2
    <3> QED BY <3>1, <3>2
  <2>3. CASE i # n
    <3>1. j \in 1..n
      BY <1>1, <2>1, <2>3
    <3>2. Waits(cs[i], fs[i], cs[j].key)
      BY <1>1, <2>1, <3>1 DEF Chain
    <3> QED BY <2>1, <3>1, <3>2
  <2> QED BY <2>2, <2>3
<1>2. ASSUME NEW i \in 1..(n + 1), NEW j \in 1..(n + 1), i < j
      PROVE  Rank[ds[j].key] < Rank[ds[i].key]
  <2>1. i \in 1..n
    BY <1>2
  <2>2. CASE j = n + 1
    BY <2>1, <2>2
  <2>3. CASE j \in 1..n
    <3>1. Rank[cs[j].key] < Rank[cs[i].key]
      BY <1>2, <2>1, <2>3 DEF Chain
    <3> QED BY <2>1, <2>3, <3>1
  <2>4. j = n + 1 \/ j \in 1..n
    OBVIOUS
  <2> QED BY <2>2, <2>3, <2>4
<1> QED BY <1>1, <1>2 DEF Chain

LEMMA PopChains ==
  ASSUME NEW cs, NEW fs, NEW n \in Nat, Chain(cs, fs, n + 1),
         NEW ds, Agree(ds, cs, n),
         NEW gs, Agree(gs, fs, n)
  PROVE  /\ Chain(ds, gs, n)
         /\ n # 0 => Waits(ds[n], gs[n], cs[n + 1].key)
         /\ \A i \in 1..n : Rank[cs[n + 1].key] < Rank[ds[i].key]
<1> USE DEF Agree
<1>1. \A i \in 1..n : i \in 1..(n + 1) /\ i < n + 1
  OBVIOUS
<1>2. n + 1 \in 1..(n + 1)
  OBVIOUS
<1>3. ASSUME NEW i \in 1..n, NEW j \in 1..n, j = i + 1
      PROVE  Waits(ds[i], gs[i], ds[j].key)
  <2>1. Waits(cs[i], fs[i], cs[j].key)
    BY <1>1, <1>3 DEF Chain
  <2> QED BY <2>1
<1>4. ASSUME NEW i \in 1..n, NEW j \in 1..n, i < j
      PROVE  Rank[ds[j].key] < Rank[ds[i].key]
  <2>1. Rank[cs[j].key] < Rank[cs[i].key]
    BY <1>1, <1>4 DEF Chain
  <2> QED BY <2>1
<1>5. ASSUME n # 0 PROVE Waits(ds[n], gs[n], cs[n + 1].key)
  <2>1. n \in 1..n
    BY <1>5
  <2>2. Waits(cs[n], fs[n], cs[n + 1].key)
    BY <1>1, <1>2, <2>1 DEF Chain
  <2> QED BY <2>1, <2>2
<1>6. ASSUME NEW i \in 1..n PROVE Rank[cs[n + 1].key] < Rank[ds[i].key]
  <2>1. Rank[cs[n + 1].key] < Rank[cs[i].key]
    BY <1>1, <1>2 DEF Chain
  <2> QED BY <2>1
<1> QED BY <1>3, <1>4, <1>5, <1>6 DEF Chain

(* Popping a check leaves the active keys; popping a run pops its key.     *)
LEMMA CheckUnaligns ==
  ASSUME NEW cs, NEW n \in Nat, NEW act, NEW m \in Nat, Aligned(cs, n + 1, act, m),
         NEW ds, Agree(ds, cs, n), ~Computing(cs[n + 1])
  PROVE  Aligned(ds, n, act, m)
<1> USE DEF Agree
<1>1. PICK at \in [1..m -> 1..(n + 1)] :
        /\ \A i, j \in 1..m : i < j => at[i] < at[j]
        /\ \A j \in 1..m : Computing(cs[at[j]]) /\ act[j] = cs[at[j]].key
        /\ \A i \in 1..(n + 1) : Computing(cs[i]) => \E j \in 1..m : at[j] = i
  BY DEF Aligned
<1>2. ASSUME NEW j \in 1..m PROVE at[j] \in 1..n
  <2>1. at[j] \in 1..(n + 1) /\ at[j] # n + 1
    BY <1>1
  <2> QED BY <2>1
<1>3. at \in [1..m -> 1..n]
  BY <1>2
<1>4. \A j \in 1..m : Computing(ds[at[j]]) /\ act[j] = ds[at[j]].key
  BY <1>1, <1>2
<1>5. ASSUME NEW i \in 1..n, Computing(ds[i])
      PROVE  \E j \in 1..m : at[j] = i
  <2>1. i \in 1..(n + 1) /\ ds[i] = cs[i]
    OBVIOUS
  <2> QED BY <1>1, <1>5, <2>1
<1> QED BY <1>1, <1>3, <1>4, <1>5 DEF Aligned

LEMMA RunUnaligns ==
  ASSUME NEW cs, NEW n \in Nat, NEW act, NEW m \in Nat, Aligned(cs, n + 1, act, m),
         NEW ds, Agree(ds, cs, n), Computing(cs[n + 1])
  PROVE  /\ m # 0 /\ act[m] = cs[n + 1].key
         /\ \A a, l : l \in Nat /\ l + 1 = m /\ Agree(a, act, l) => Aligned(ds, n, a, l)
<1> USE DEF Agree
<1>1. PICK at \in [1..m -> 1..(n + 1)] :
        /\ \A i, j \in 1..m : i < j => at[i] < at[j]
        /\ \A j \in 1..m : Computing(cs[at[j]]) /\ act[j] = cs[at[j]].key
        /\ \A i \in 1..(n + 1) : Computing(cs[i]) => \E j \in 1..m : at[j] = i
  BY DEF Aligned
<1>2. PICK top \in 1..m : at[top] = n + 1
  <2>1. n + 1 \in 1..(n + 1)
    OBVIOUS
  <2> QED BY <1>1, <2>1
<1>3. m \in 1..m /\ m # 0
  OBVIOUS
<1>4. top = m
  <2> SUFFICES ASSUME top < m PROVE FALSE
    OBVIOUS
  <2>1. n + 1 < at[m] /\ at[m] \in 1..(n + 1)
    BY <1>1, <1>2, <1>3
  <2> QED BY <2>1
<1>5. act[m] = cs[n + 1].key
  BY <1>1, <1>2, <1>3, <1>4
<1>6. \A j \in 1..(m - 1) : j \in 1..m /\ j < m
  OBVIOUS
<1>7. ASSUME NEW j \in 1..(m - 1) PROVE at[j] \in 1..n
  <2>1. at[j] \in 1..(n + 1) /\ at[j] < n + 1
    BY <1>1, <1>2, <1>3, <1>4, <1>6
  <2> QED BY <2>1
<1> DEFINE to == [j \in 1..(m - 1) |-> at[j]]
<1>8. to \in [1..(m - 1) -> 1..n] /\ \A j \in 1..(m - 1) : to[j] = at[j]
  BY <1>7
<1> HIDE DEF to
<1>9. ASSUME NEW i \in 1..(m - 1), NEW j \in 1..(m - 1), i < j PROVE to[i] < to[j]
  BY <1>1, <1>6, <1>8, <1>9
<1>10. ASSUME NEW a, \A j \in 1..(m - 1) : a[j] = act[j], NEW j \in 1..(m - 1)
       PROVE  Computing(ds[to[j]]) /\ a[j] = ds[to[j]].key
  <2>1. to[j] = at[j] /\ ds[at[j]] = cs[at[j]] /\ a[j] = act[j]
    BY <1>7, <1>8, <1>10
  <2> QED BY <1>1, <1>6, <2>1
<1>11. ASSUME NEW i \in 1..n, Computing(ds[i])
       PROVE  \E j \in 1..(m - 1) : to[j] = i
  <2>1. i \in 1..(n + 1) /\ ds[i] = cs[i] /\ i # n + 1
    OBVIOUS
  <2>2. PICK j \in 1..m : at[j] = i
    BY <1>1, <1>11, <2>1
  <2>3. j # m
    BY <1>2, <1>4, <2>1, <2>2
  <2>4. j \in 1..(m - 1)
    BY <2>3
  <2> QED BY <1>8, <2>2, <2>4
<1>12. ASSUME NEW a, \A j \in 1..(m - 1) : a[j] = act[j]
       PROVE  Aligned(ds, n, a, m - 1)
  <2>1. \A j \in 1..(m - 1) : Computing(ds[to[j]]) /\ a[j] = ds[to[j]].key
    BY <1>10, <1>12
  <2> QED BY <1>8, <1>9, <1>11, <2>1 DEF Aligned
<1>13. ASSUME NEW a, NEW l \in Nat, l + 1 = m, Agree(a, act, l)
       PROVE  Aligned(ds, n, a, l)
  <2>1. l = m - 1
    BY <1>13
  <2> QED BY <1>12, <1>13, <2>1
<1> QED BY <1>3, <1>5, <1>13

LEMMA MakeStacks ==
  ASSUME NEW cs \in Seq(Activation), NEW fs \in Seq(Seq(Keys)), NEW act \in Seq(Derived),
         NEW n, Len(cs) = n, Len(fs) = n, NEW m, Len(act) = m,
         Chain(cs, fs, n), Aligned(cs, n, act, m)
  PROVE  Stacks(cs, fs, act)
BY DEF Stacks

(* An activation is pushed when the top waits for its key.                 *)
LEMMA PushFits ==
  ASSUME NEW cs, NEW fs, NEW act, Fits(cs, fs, act),
         NEW c \in Activation, NEW f \in Seq(Keys), ActivationOK(c, f),
         cs # <<>> => Waits(Top(cs), Top(fs), c.key),
         \A i \in 1..Len(cs) : Rank[c.key] < Rank[cs[i].key]
  PROVE  /\ Computing(c) => Fits(Append(cs, c), Append(fs, f), Append(act, c.key))
         /\ ~Computing(c) => Fits(Append(cs, c), Append(fs, f), act)
         /\ Append(cs, c) # <<>> /\ Top(Append(cs, c)) = c /\ Top(Append(fs, f)) = f
<1>1. PICK n \in Nat : n = Len(cs)
  BY SeqFacts DEF Fits, Stacks
<1>2. PICK m \in Nat : m = Len(act)
  BY SeqFacts DEF Fits, Stacks
<1>3. /\ cs \in Seq(Activation) /\ fs \in Seq(Seq(Keys)) /\ act \in Seq(Derived)
      /\ c.key \in Derived
  BY Fields DEF Fits, Stacks
<1>4. Chain(cs, fs, n) /\ Aligned(cs, n, act, m) /\ Len(fs) = n
  BY <1>1, <1>2 DEF Fits, Stacks
<1>5. n # 0 => Waits(cs[n], fs[n], c.key)
  <2>1. Top(cs) = cs[n] /\ Top(fs) = fs[n]
    BY <1>1, <1>4 DEF Top
  <2>2. n # 0 => cs # <<>>
    BY <1>1
  <2> QED BY <2>1, <2>2
<1>6. \A i \in 1..n : Rank[c.key] < Rank[cs[i].key] /\ ActivationOK(cs[i], fs[i])
  BY <1>1 DEF Fits
<1> DEFINE ds == Append(cs, c)
           gs == Append(fs, f)
           a  == Append(act, c.key)
<1>7. ds \in Seq(Activation) /\ Len(ds) = n + 1 /\ ds[n + 1] = c /\ Agree(ds, cs, n)
  BY <1>1, <1>3, PushAt
<1>8. gs \in Seq(Seq(Keys)) /\ Len(gs) = n + 1 /\ gs[n + 1] = f /\ Agree(gs, fs, n)
  BY <1>3, <1>4, PushAt
<1>9. a \in Seq(Derived) /\ Len(a) = m + 1 /\ a[m + 1] = c.key /\ Agree(a, act, m)
  <2>1. act \in Seq(Derived) /\ c.key \in Derived /\ Len(act) = m
    BY <1>2, <1>3
  <2> QED BY ONLY m \in Nat, <2>1, PushAt
<1>10. ds # <<>> /\ Top(ds) = c /\ Top(gs) = f
  <2>1. ds # <<>>
    BY ONLY n \in Nat, <1>7, SeqFacts
  <2> QED BY ONLY <1>7, <1>8, <2>1 DEF Top
<1> HIDE DEF ds, gs, a
<1>11. Chain(ds, gs, n + 1)
  <2>1. /\ n # 0 => Waits(cs[n], fs[n], ds[n + 1].key)
        /\ \A i \in 1..n : Rank[ds[n + 1].key] < Rank[cs[i].key]
    BY <1>5, <1>6, <1>7
  <2> QED BY <1>4, <1>7, <1>8, <2>1, PushChains
<1>12. ASSUME Computing(c) PROVE Stacks(ds, gs, a)
  <2>1. Computing(ds[n + 1]) /\ a[m + 1] = ds[n + 1].key /\ Agree(ds, cs, n) /\ Agree(a, act, m)
    BY <1>7, <1>9, <1>12
  <2>2. Aligned(ds, n + 1, a, m + 1)
    BY <1>4, <2>1, RunAligns
  <2> QED BY <1>7, <1>8, <1>9, <1>11, <2>2, MakeStacks
<1>13. ASSUME ~Computing(c) PROVE Stacks(ds, gs, act)
  <2>1. Agree(ds, cs, n) /\ ~Computing(ds[n + 1])
    BY <1>7, <1>13
  <2>2. Aligned(ds, n + 1, act, m)
    BY <1>4, <2>1, CheckAligns
  <2> QED BY <1>2, <1>3, <1>7, <1>8, <1>11, <2>2, MakeStacks
<1>14. ASSUME NEW i \in 1..Len(ds) PROVE ActivationOK(ds[i], gs[i])
  <2>1. CASE i = n + 1
    BY <1>7, <1>8, <2>1
  <2>2. CASE i # n + 1
    <3>1. i \in 1..n
      BY <1>7, <2>2
    <3>2. ds[i] = cs[i] /\ gs[i] = fs[i]
      BY <1>7, <1>8, <3>1 DEF Agree
    <3> QED BY <1>6, <3>1, <3>2
  <2> QED BY <2>1, <2>2
<1>15. (Computing(c) => Fits(ds, gs, a)) /\ (~Computing(c) => Fits(ds, gs, act))
  BY <1>12, <1>13, <1>14 DEF Fits
<1> QED BY <1>10, <1>15 DEF ds, gs, a

(* The innermost activation ends: the one below waits for its key.         *)
LEMMA PopFits ==
  ASSUME NEW cs, NEW fs, NEW act, Fits(cs, fs, act), cs # <<>>
  PROVE  /\ Computing(Top(cs)) => Fits(Pop(cs), Pop(fs), Pop(act))
         /\ ~Computing(Top(cs)) => Fits(Pop(cs), Pop(fs), act)
         /\ Pop(cs) # <<>> => Waits(Top(Pop(cs)), Top(Pop(fs)), Top(cs).key)
         /\ \A i \in 1..Len(Pop(cs)) : Rank[Top(cs).key] < Rank[Pop(cs)[i].key]
<1>1. PICK n \in Nat : n + 1 = Len(cs)
  <2>1. Len(cs) - 1 \in Nat /\ (Len(cs) - 1) + 1 = Len(cs)
    BY SeqFacts DEF Fits, Stacks
  <2> QED BY <2>1
<1>2. PICK m \in Nat : m = Len(act)
  BY SeqFacts DEF Fits, Stacks
<1>3. cs \in Seq(Activation) /\ fs \in Seq(Seq(Keys)) /\ act \in Seq(Derived)
  BY DEF Fits, Stacks
<1>4. Chain(cs, fs, n + 1) /\ Aligned(cs, n + 1, act, m) /\ Len(fs) = n + 1
  BY <1>1, <1>2 DEF Fits, Stacks
<1> DEFINE ds == Pop(cs)
           gs == Pop(fs)
           a  == Pop(act)
<1>5. /\ ds \in Seq(Activation) /\ Len(ds) = n /\ Agree(ds, cs, n)
      /\ Top(cs) = cs[n + 1]
  BY <1>1, <1>3, PopAt
<1>6. gs \in Seq(Seq(Keys)) /\ Len(gs) = n /\ Agree(gs, fs, n)
  BY <1>3, <1>4, PopAt
<1>7. ASSUME m # 0
      PROVE  \E l \in Nat : l + 1 = m /\ a \in Seq(Derived) /\ Len(a) = l /\ Agree(a, act, l)
  <2>1. PICK l \in Nat : l + 1 = m
    <3>1. m - 1 \in Nat /\ (m - 1) + 1 = m
      BY <1>7
    <3> QED BY <3>1
  <2>2. a \in Seq(Derived) /\ Len(a) = l /\ Agree(a, act, l)
    BY <1>2, <1>3, <2>1, PopAt
  <2> QED BY <2>1, <2>2
<1>8. ASSUME ds # <<>> PROVE n # 0
  BY <1>5, <1>8
<1>9. Top(ds) = ds[n] /\ Top(gs) = gs[n]
  BY <1>5, <1>6 DEF Top
<1> HIDE DEF ds, gs, a
<1>10. /\ Chain(ds, gs, n)
       /\ n # 0 => Waits(ds[n], gs[n], cs[n + 1].key)
       /\ \A i \in 1..n : Rank[cs[n + 1].key] < Rank[ds[i].key]
  BY <1>4, <1>5, <1>6, PopChains
<1>11. ASSUME NEW i \in 1..Len(ds) PROVE ActivationOK(ds[i], gs[i])
  <2>1. i \in 1..n /\ i \in 1..Len(cs)
    BY <1>1, <1>5
  <2>2. ds[i] = cs[i] /\ gs[i] = fs[i]
    BY <1>5, <1>6, <2>1 DEF Agree
  <2> QED BY <2>1, <2>2 DEF Fits
<1>12. ASSUME Computing(Top(cs)) PROVE Fits(ds, gs, a)
  <2>1. Computing(cs[n + 1])
    BY <1>5, <1>12
  <2>2. m # 0
    BY <1>4, <1>5, <2>1, RunUnaligns
  <2>3. PICK l \in Nat : l + 1 = m /\ a \in Seq(Derived) /\ Len(a) = l /\ Agree(a, act, l)
    BY <1>7, <2>2
  <2>4. Aligned(ds, n, a, l)
    BY <1>4, <1>5, <2>1, <2>3, RunUnaligns
  <2>5. Stacks(ds, gs, a)
    BY <1>5, <1>6, <1>10, <2>3, <2>4, MakeStacks
  <2> QED BY <1>11, <2>5 DEF Fits
<1>13. ASSUME ~Computing(Top(cs)) PROVE Fits(ds, gs, act)
  <2>1. ~Computing(cs[n + 1])
    BY <1>5, <1>13
  <2>2. Aligned(ds, n, act, m)
    BY <1>4, <1>5, <2>1, CheckUnaligns
  <2>3. Stacks(ds, gs, act)
    BY <1>2, <1>3, <1>5, <1>6, <1>10, <2>2, MakeStacks
  <2> QED BY <1>11, <2>3 DEF Fits
<1>14. ds # <<>> => Waits(Top(ds), Top(gs), Top(cs).key)
  BY <1>5, <1>8, <1>9, <1>10
<1>15. \A i \in 1..Len(ds) : Rank[Top(cs).key] < Rank[ds[i].key]
  BY <1>5, <1>10
<1> QED BY <1>12, <1>13, <1>14, <1>15 DEF ds, gs, a

(* The innermost activation goes on as c, with the frame f.                *)
LEMMA ReplaceFits ==
  ASSUME NEW cs, NEW fs, NEW act, Fits(cs, fs, act), cs # <<>>,
         NEW c \in Activation, c.key = Top(cs).key, Computing(c) <=> Computing(Top(cs)),
         NEW f \in Seq(Keys), ActivationOK(c, f),
         NEW ds, ds = ReplaceTop(cs, c) \/ (ds = cs /\ c = Top(cs)),
         NEW gs, gs = ReplaceTop(fs, f) \/ (gs = fs /\ f = Top(fs))
  PROVE  Fits(ds, gs, act) /\ ds # <<>> /\ Top(ds) = c /\ Top(gs) = f
<1>1. PICK n \in Nat : n + 1 = Len(cs)
  <2>1. Len(cs) - 1 \in Nat /\ (Len(cs) - 1) + 1 = Len(cs)
    BY SeqFacts DEF Fits, Stacks
  <2> QED BY <2>1
<1>2. PICK m \in Nat : m = Len(act)
  BY SeqFacts DEF Fits, Stacks
<1>3. cs \in Seq(Activation) /\ fs \in Seq(Seq(Keys)) /\ act \in Seq(Derived)
  BY DEF Fits, Stacks
<1>4. Chain(cs, fs, n + 1) /\ Aligned(cs, n + 1, act, m) /\ Len(fs) = n + 1
  BY <1>1, <1>2 DEF Fits, Stacks
<1>5. Top(cs) = cs[n + 1] /\ Top(fs) = fs[n + 1]
  BY <1>1, <1>4 DEF Top
<1>6. Agree(cs, cs, n) /\ Agree(fs, fs, n)
  BY DEF Agree
<1>7. ds \in Seq(Activation) /\ Len(ds) = n + 1 /\ ds[n + 1] = c /\ Agree(ds, cs, n)
  <2>1. CASE ds = ReplaceTop(cs, c)
    <3>1. cs \in Seq(Activation) /\ Len(cs) = n + 1 /\ c \in Activation
      BY <1>1, <1>3
    <3>2. /\ ReplaceTop(cs, c) \in Seq(Activation) /\ Len(ReplaceTop(cs, c)) = n + 1
          /\ ReplaceTop(cs, c)[n + 1] = c /\ Agree(ReplaceTop(cs, c), cs, n)
      BY ONLY n \in Nat, <3>1, ReplaceAt
    <3> QED BY ONLY <2>1, <3>2
  <2>2. CASE ds = cs /\ c = Top(cs)
    BY <1>1, <1>3, <1>5, <1>6, <2>2
  <2> QED BY <2>1, <2>2
<1>8. gs \in Seq(Seq(Keys)) /\ Len(gs) = n + 1 /\ gs[n + 1] = f /\ Agree(gs, fs, n)
  <2>1. CASE gs = ReplaceTop(fs, f)
    <3>1. fs \in Seq(Seq(Keys)) /\ Len(fs) = n + 1 /\ f \in Seq(Keys)
      BY <1>3, <1>4
    <3>2. /\ ReplaceTop(fs, f) \in Seq(Seq(Keys)) /\ Len(ReplaceTop(fs, f)) = n + 1
          /\ ReplaceTop(fs, f)[n + 1] = f /\ Agree(ReplaceTop(fs, f), fs, n)
      BY ONLY n \in Nat, <3>1, ReplaceAt
    <3> QED BY <2>1, <3>2
  <2>2. CASE gs = fs /\ f = Top(fs)
    BY <1>3, <1>4, <1>5, <1>6, <2>2
  <2> QED BY <2>1, <2>2
<1>9. ds # <<>> /\ Top(ds) = c /\ Top(gs) = f
  BY <1>7, <1>8 DEF Top
<1>10. Chain(ds, gs, n + 1)
  <2>1. ds[n + 1].key = cs[n + 1].key
    BY <1>5, <1>7
  <2>2. /\ Chain(cs, fs, n)
        /\ n # 0 => Waits(cs[n], fs[n], ds[n + 1].key)
        /\ \A i \in 1..n : Rank[ds[n + 1].key] < Rank[cs[i].key]
    BY <1>4, <1>6, <2>1, PopChains
  <2> QED BY <1>7, <1>8, <2>2, PushChains
<1>11. ASSUME ~Computing(c) PROVE Stacks(ds, gs, act)
  <2>1. ~Computing(cs[n + 1]) /\ ~Computing(ds[n + 1]) /\ Agree(ds, cs, n)
    BY <1>5, <1>7, <1>11
  <2>2. Aligned(cs, n, act, m)
    BY <1>4, <1>6, <2>1, CheckUnaligns
  <2>3. Aligned(ds, n + 1, act, m)
    BY <2>1, <2>2, CheckAligns
  <2> QED BY <1>2, <1>3, <1>7, <1>8, <1>10, <2>3, MakeStacks
<1>12. ASSUME Computing(c) PROVE Stacks(ds, gs, act)
  <2>1. Computing(cs[n + 1]) /\ Computing(ds[n + 1]) /\ Agree(ds, cs, n)
    BY <1>5, <1>7, <1>12
  <2>2. m # 0 /\ act[m] = cs[n + 1].key
    <3>1. Aligned(cs, n + 1, act, m) /\ Agree(cs, cs, n) /\ Computing(cs[n + 1])
      BY <1>4, <1>6, <2>1
    <3> QED BY ONLY n \in Nat, m \in Nat, <3>1, RunUnaligns
  <2>3. PICK l \in Nat : l + 1 = m
    <3>1. m - 1 \in Nat /\ (m - 1) + 1 = m
      BY <2>2
    <3> QED BY <3>1
  <2>4. Agree(act, act, l)
    BY DEF Agree
  <2>5. Aligned(cs, n, act, l)
    BY <1>4, <1>6, <2>1, <2>3, <2>4, RunUnaligns
  <2>6. act[l + 1] = ds[n + 1].key
    BY <1>5, <1>7, <2>2, <2>3
  <2>7. Aligned(ds, n + 1, act, l + 1)
    BY <2>1, <2>4, <2>5, <2>6, RunAligns
  <2> QED BY <1>2, <1>3, <1>7, <1>8, <1>10, <2>3, <2>7, MakeStacks
<1>13. ASSUME NEW i \in 1..Len(ds) PROVE ActivationOK(ds[i], gs[i])
  <2>1. CASE i = n + 1
    BY <1>7, <1>8, <2>1
  <2>2. CASE i # n + 1
    <3>1. i \in 1..n /\ i \in 1..Len(cs)
      BY <1>1, <1>7, <2>2
    <3>2. ds[i] = cs[i] /\ gs[i] = fs[i]
      BY <1>7, <1>8, <3>1 DEF Agree
    <3> QED BY <3>1, <3>2 DEF Fits
  <2> QED BY <2>1, <2>2
<1> QED BY <1>9, <1>11, <1>12, <1>13 DEF Fits

-----------------------------------------------------------------------------
(* Memos, runs and their meaning.                                          *)
LEMMA MemoFacts ==
  ASSUME RG!IInv
  PROVE  /\ revision \in Revisions /\ world \in Worlds
         /\ DOMAIN memos \subseteq Derived
         /\ \A k \in DOMAIN memos :
              /\ k \notin Inputs /\ memos[k] \in Memo /\ memos[k].deps \in ReadSeqs
              /\ memos[k].value \in Values
<1>1. RG!TypeOK
  BY DEF RG!IInv
<1>2. revision \in Revisions /\ world \in Worlds /\ DOMAIN memos \subseteq Derived
  BY <1>1, AbstractNames DEF RG!TypeOK
<1>3. ASSUME NEW k \in DOMAIN memos
      PROVE  k \notin Inputs /\ memos[k] \in RG!Memo
  BY <1>1, EngineAssumption DEF RG!TypeOK
<1>4. RG!Memo \subseteq Memo
  BY ReadSeqsAssumption, AbstractNames DEF RG!Memo, Memo
<1>5. \A m \in RG!Memo : m.deps \in ReadSeqs /\ m.value \in Values
  BY DEF RG!Memo
<1> QED BY <1>2, <1>3, <1>4, <1>5

LEMMA ReadFacts ==
  ASSUME NEW reads \in ReadSeqs
  PROVE  /\ reads \in Seq(Keys) /\ Len(reads) \in Nat
         /\ \A j \in 1..Len(reads) : reads[j] \in Keys
BY ReadSeqsAssumption

(* What a settled key is worth is what a computation from scratch gives.   *)
LEMMA SettledIsTrue ==
  ASSUME RG!IInv, NEW d \in Keys, RG!Settled(d)
  PROVE  /\ RG!Current[d] = Truth[world][d] /\ RG!Current[d] \in Values
         /\ RG!Current[d] # NoValue
<1>1. RG!Current[d] = IF d \in Inputs THEN world[d] ELSE IF d \in DOMAIN memos THEN memos[d].value ELSE NoValue
  BY AbstractNames DEF RG!Current
<1>2. CASE d \in Inputs
  BY <1>1, <1>2, MemoFacts, TruthIsMeaning, EngineAssumption DEF Worlds
<1>3. CASE d \notin Inputs
  <2>1. d \in DOMAIN memos /\ RG!Fresh(d)
    BY <1>3 DEF RG!Settled, RG!Fresh
  <2>2. memos[d].value = Truth[world][d]
    BY <2>1 DEF RG!IInv, RG!FreshMemosAreTrue
  <2> QED BY <1>1, <1>3, <2>1, <2>2, MemoFacts, EngineAssumption
<1> QED BY <1>2, <1>3

(* A run that read settled keys goes as it would from scratch.             *)
LEMMA TrueRun ==
  ASSUME RG!IInv, NEW k \in Derived, NEW reads \in ReadSeqs,
         \A j \in 1..Len(reads) : RG!Settled(reads[j]),
         \A j \in 1..Len(reads) : ClosedStep(k, RG!Seen(reads, RG!Current, j - 1)) = Reads(reads[j])
  PROVE  /\ RunReads(k, reads, Truth[world])
         /\ RunMove(k, reads, Truth[world]) = ClosedStep(k, RG!Seen(reads, RG!Current, Len(reads)))
<1>1. \A j \in 1..Len(reads) :
        Truth[world][reads[j]] = RG!Current[reads[j]] /\ Truth[world][reads[j]] # NoValue
  BY ReadFacts, SettledIsTrue
<1>2. \A j \in 0..Len(reads) : Abstract!Seen(reads, Truth[world], j) = RG!Seen(reads, RG!Current, j)
  <2>1. PICK n \in Nat : n = Len(reads)
    BY ReadFacts
  <2>2. \A j \in 1..n : Truth[world][reads[j]] = RG!Current[reads[j]]
    BY <1>1, <2>1
  <2>3. \A j \in 0..n : RG!Seen(reads, Truth[world], j) = RG!Seen(reads, RG!Current, j)
    BY <2>2 DEF RG!Seen
  <2> QED BY <2>1, <2>3, AbstractRuns
<1>3. \A j \in 1..Len(reads) : j - 1 \in 0..Len(reads) /\ Len(reads) \in 0..Len(reads)
  BY ReadFacts
<1>4. \A j \in 1..Len(reads) : ClosedStep(k, Abstract!Seen(reads, Truth[world], j - 1)) = Reads(reads[j])
  BY <1>2, <1>3
<1>5. Len(reads) \in 0..Len(reads)
  BY ReadFacts
<1>6. RunReads(k, reads, Truth[world])
  BY <1>1, <1>4 DEF RunReads
<1>7. RunMove(k, reads, Truth[world]) = ClosedStep(k, RG!Seen(reads, RG!Current, Len(reads)))
  BY <1>2, <1>5 DEF RunMove
<1> QED BY <1>6, <1>7

(* A query that reads d over the inputs of now ranks above d, and fails if *)
(* d does.                                                                 *)
LEMMA NextRead ==
  ASSUME RG!IInv, NEW k \in Derived, NEW reads \in ReadSeqs, NEW d \in Keys,
         RunReads(k, reads, Truth[world]), RunMove(k, reads, Truth[world]) = Reads(d)
  PROVE  /\ d \in Derived => Rank[d] < Rank[k]
         /\ Truth[world][d] = NoValue => Truth[world][k] = NoValue
<1>1. world \in Worlds
  BY MemoFacts
<1>2. d \in Derived => Rank[d] < Rank[k]
  BY <1>1, Ranked DEF RankedBy
<1>3. ASSUME Truth[world][d] = NoValue PROVE Truth[world][k] = NoValue
  <2>1. RunFails(k, reads, Truth[world])
    BY <1>3 DEF RunFails
  <2> QED BY <1>1, <2>1, TruthIsMeaning
<1> QED BY <1>2, <1>3

-----------------------------------------------------------------------------
(* Steps that leave the memos, the inputs and the revision alone.          *)
Quiet == UNCHANGED <<revision, inputChanged, world, memos>>

LEMMA QuietParts ==
  ASSUME Quiet
  PROVE  /\ RG!IInv => RG!IInv'
         /\ \A c, f : ActivationOK(c, f) => ActivationOK(c, f)'
         /\ \A r : Truthful(r) => Truthful(r)'
<1>1. RG!IInv => RG!IInv'
  BY AbstractConstants, AbstractTruth, RG!StutterPreserves DEF Quiet, RG!vars
<1>2. /\ RG!Current' = RG!Current
      /\ \A k : RG!Fresh(k)' = RG!Fresh(k) /\ RG!Settled(k)' = RG!Settled(k)
      /\ \A k : RG!ChangedAt(k)' = RG!ChangedAt(k)
  BY DEF Quiet, RG!Current, RG!Fresh, RG!Settled, RG!ChangedAt
<1>3. ASSUME NEW c, NEW f, ActivationOK(c, f) PROVE ActivationOK(c, f)'
  BY <1>2, <1>3 DEF Quiet, ActivationOK, CheckOK, RunOK
<1>4. ASSUME NEW r, Truthful(r) PROVE Truthful(r)'
  BY <1>2, <1>4 DEF Quiet, Truthful
<1> QED BY <1>1, <1>3, <1>4

(* The ranks are of the world, which changes between queries only.         *)
LEMMA SameStacks ==
  ASSUME UNCHANGED world
  PROVE  Stacks(calls', frames', active') => Stacks(calls, frames, active)'
<1>1. Rank' = Rank
  BY DEF Rank
<1> QED BY <1>1 DEF Stacks, Chain, Aligned, Waits, Computing

LEMMA QuietKeeps ==
  ASSUME EInv, Quiet, cancelled' \in BOOLEAN,
         Fits(calls', frames', active'), ResultOK(calls', frames', ret')
  PROVE  EInv'
<1>1. RG!IInv'
  BY QuietParts DEF EInv
<1>2. Fits(calls, frames, active)'
  BY QuietParts, SameStacks DEF Fits, Quiet
<1>3. ResultOK(calls, frames, ret)'
  BY QuietParts DEF ResultOK
<1> QED BY <1>1, <1>2, <1>3 DEF EInv

(* The innermost activation and its frame.                                 *)
LEMMA TopFacts ==
  ASSUME NEW cs, NEW fs, NEW act, Fits(cs, fs, act), cs # <<>>
  PROVE  /\ Top(cs) \in Activation /\ Top(fs) \in Seq(Keys) /\ Top(cs).key \in Derived
         /\ fs # <<>> /\ ActivationOK(Top(cs), Top(fs))
         /\ \A i \in 1..Len(cs) : cs[i].key = Top(cs).key \/ Rank[Top(cs).key] < Rank[cs[i].key]
<1>1. PICK n \in Nat : n + 1 = Len(cs)
  <2>1. Len(cs) - 1 \in Nat /\ (Len(cs) - 1) + 1 = Len(cs)
    BY SeqFacts DEF Fits, Stacks
  <2> QED BY <2>1
<1>2. cs \in Seq(Activation) /\ fs \in Seq(Seq(Keys)) /\ Len(fs) = n + 1
  BY <1>1 DEF Fits, Stacks
<1>3. Top(cs) = cs[n + 1] /\ Top(fs) = fs[n + 1]
  BY <1>1, <1>2 DEF Top
<1>4. n + 1 \in 1..(n + 1)
  OBVIOUS
<1>5. Top(cs) \in Activation /\ Top(fs) \in Seq(Keys) /\ fs # <<>>
  BY <1>1, <1>2, <1>3, <1>4, SeqFacts
<1>6. ActivationOK(Top(cs), Top(fs))
  BY <1>1, <1>3, <1>4 DEF Fits
<1>7. ASSUME NEW i \in 1..Len(cs), i # n + 1 PROVE Rank[Top(cs).key] < Rank[cs[i].key]
  <2>1. i \in 1..(n + 1) /\ i < n + 1
    BY <1>1, <1>7
  <2>2. Chain(cs, fs, n + 1)
    BY <1>1 DEF Fits, Stacks
  <2> QED BY <1>3, <1>4, <2>1, <2>2 DEF Chain
<1> QED BY <1>3, <1>5, <1>6, <1>7, Fields

LEMMA EmptyFits ==
  ASSUME NEW cs, NEW fs, NEW act, Fits(cs, fs, act), cs = <<>>
  PROVE  fs = <<>> /\ act = <<>>
<1>1. fs \in Seq(Seq(Keys)) /\ act \in Seq(Derived) /\ Len(fs) = Len(cs)
  BY DEF Fits, Stacks
<1>2. PICK m \in Nat : m = Len(act)
  BY <1>1, SeqFacts
<1>3. \E at \in [1..m -> 1..Len(cs)] : TRUE
  BY <1>2 DEF Fits, Stacks, Aligned
<1>4. Len(cs) = 0
  OBVIOUS
<1>5. m = 0
  <2> SUFFICES ASSUME m # 0 PROVE FALSE
    OBVIOUS
  <2>1. 1 \in 1..m
    OBVIOUS
  <2>2. \E i : i \in 1..Len(cs)
    BY <1>3, <2>1
  <2> QED BY <1>4, <2>2
<1>6. Len(fs) = 0
  BY <1>1, <1>4
<1> QED BY <1>1, <1>2, <1>5, <1>6, EmptySeq

-----------------------------------------------------------------------------
(* The host's next move.                                                   *)

(* A run that waits for nothing has seen all that it read, and what it     *)
(* does next depends on that alone.                                        *)
LEMMA MoveFacts ==
  ASSUME EInv, Running("compute"), ret = Nothing
  PROVE  LET c == Top(calls)
             f == Top(frames)
         IN /\ RunOK(c, f) /\ Len(f) = Len(c.seen) /\ f \in ReadSeqs
            /\ \A j \in 1..Len(f) : RG!Settled(f[j])
            /\ HostMove = ClosedStep(c.key, RG!Seen(f, RG!Current, Len(f)))
            /\ \/ \E d \in Keys : HostMove = Reads(d) /\ Append(f, d) \in ReadSeqs
                                 /\ (d \in Derived => Rank[d] < Rank[c.key])
               \/ \E v \in Values : HostMove = Returns(v)
               \/ HostMove = Fails
<1> DEFINE c == Top(calls)
           f == Top(frames)
<1>1. calls # <<>> /\ c.op = "compute"
  BY DEF Running
<1>2. c \in Activation /\ c.key \in Derived /\ ActivationOK(c, f)
  BY <1>1, TopFacts DEF EInv
<1>3. RunOK(c, f) /\ f \in ReadSeqs
  BY <1>1, <1>2 DEF ActivationOK, RunOK
<1>4. Len(f) = Len(c.seen)
  BY <1>1 DEF EInv, ResultOK
<1>5. c.seen = RG!Seen(f, RG!Current, Len(f)) /\ \A j \in 1..Len(f) : RG!Settled(f[j])
  BY <1>3, <1>4 DEF RunOK
<1>6. c.seen \in [1..Len(f) -> Values]
  <2>1. \A j \in 1..Len(f) : RG!Current[f[j]] \in Values
    BY <1>3, <1>5, ReadFacts, SettledIsTrue DEF EInv
  <2> QED BY <1>5, <2>1 DEF RG!Seen
<1>7. world \in Worlds
  BY MemoFacts DEF EInv
<1>8. HostMove = ClosedStep(c.key, c.seen)
  BY <1>2, <1>3, <1>6, <1>7, HostIsClosed DEF HostMove
<1> HIDE DEF c, f
<1>9. \/ \E d \in Keys : HostMove = Reads(d) /\ Append(f, d) \in ReadSeqs
      \/ \E v \in Values : HostMove = Returns(v)
      \/ HostMove = Fails
  BY <1>2, <1>3, <1>6, <1>8, HostIsTotal
<1>10. \A d \in Derived : HostMove = Reads(d) => Rank[d] < Rank[c.key]
  <2>1. \A j \in 1..Len(f) : ClosedStep(c.key, RG!Seen(f, RG!Current, j - 1)) = Reads(f[j])
    BY <1>3 DEF RunOK
  <2>2. RunReads(c.key, f, Truth[world]) /\ RunMove(c.key, f, Truth[world]) = HostMove
    BY <1>2, <1>3, <1>5, <1>8, <2>1, TrueRun DEF EInv
  <2> QED BY <1>2, <1>3, <2>2, NextRead DEF EInv, Keys
<1>11. HostMove = ClosedStep(c.key, RG!Seen(f, RG!Current, Len(f)))
  BY <1>5, <1>8
<1> QED BY <1>3, <1>4, <1>5, <1>9, <1>10, <1>11 DEF c, f

(* A run that reads d next: its frame gets the edge and it waits for d.    *)
LEMMA EdgeRecorded ==
  ASSUME EInv, Running("compute"), ret = Nothing, HostMove.op = "read",
         NEW d, d = HostMove.key
  PROVE  LET c == Top(calls)
             f == Append(Top(frames), d)
         IN /\ d \in Keys /\ (d \in Derived => Rank[d] < Rank[c.key])
            /\ f \in Seq(Keys) /\ ActivationOK(c, f)
            /\ Len(f) = Len(c.seen) + 1 /\ f[Len(f)] = d
            /\ frames # <<>> /\ RecordEdge(d) = ReplaceTop(frames, f)
<1> DEFINE c == Top(calls)
           g == Top(frames)
           f == Append(g, d)
<1>1. /\ calls # <<>> /\ c.op = "compute" /\ frames # <<>> /\ ActivationOK(c, g)
      /\ c \in Activation
  BY TopFacts DEF Running, EInv
<1>2. /\ RunOK(c, g) /\ Len(g) = Len(c.seen) /\ g \in ReadSeqs
      /\ \A j \in 1..Len(g) : RG!Settled(g[j])
      /\ HostMove = ClosedStep(c.key, RG!Seen(g, RG!Current, Len(g)))
  BY MoveFacts
<1>3. /\ d \in Keys /\ HostMove = Reads(d) /\ f \in ReadSeqs
      /\ d \in Derived => Rank[d] < Rank[c.key]
  <2>1. \/ \E e \in Keys : HostMove = Reads(e) /\ Append(g, e) \in ReadSeqs
                                 /\ (e \in Derived => Rank[e] < Rank[c.key])
        \/ \E v \in Values : HostMove = Returns(v)
        \/ HostMove = Fails
    BY MoveFacts
  <2>2. \A v \in Values : HostMove # Returns(v)
    BY DEF Returns
  <2>3. HostMove # Fails
    BY DEF Fails
  <2>4. \A e : HostMove = Reads(e) => e = d
    BY DEF Reads
  <2> QED BY <2>1, <2>2, <2>3, <2>4
<1>4. PICK n \in Nat : n = Len(g) /\ n = Len(c.seen)
  BY <1>2, ReadFacts
<1>5. g \in Seq(Keys)
  BY <1>2, ReadFacts
<1>6. f \in Seq(Keys) /\ Len(f) = n + 1 /\ f[n + 1] = d /\ Agree(f, g, n)
  <2>1. d \in Keys /\ Len(g) = n
    BY <1>3, <1>4
  <2> QED BY <1>5, <2>1, PushAt
<1>7. RecordEdge(d) = ReplaceTop(frames, f)
  BY <1>1 DEF RecordEdge
<1> HIDE DEF c, f, g
<1>8. \A j \in 0..n : RG!Seen(f, RG!Current, j) = RG!Seen(g, RG!Current, j)
  BY <1>6 DEF Agree, RG!Seen
<1>9. \A j \in 1..(n + 1) : j \in 1..n \/ j = n + 1
  OBVIOUS
<1>11. \A j \in 1..Len(f) : ClosedStep(c.key, RG!Seen(f, RG!Current, j - 1)) = Reads(f[j])
  <2>1. ASSUME NEW j \in 1..n
        PROVE  ClosedStep(c.key, RG!Seen(f, RG!Current, j - 1)) = Reads(f[j])
    <3>1. j - 1 \in 0..n /\ f[j] = g[j] /\ j \in 1..Len(g)
      BY <1>4, <1>6 DEF Agree
    <3> QED BY <1>2, <1>8, <3>1 DEF RunOK
  <2>2. ClosedStep(c.key, RG!Seen(f, RG!Current, (n + 1) - 1)) = Reads(f[n + 1])
    <3>1. (n + 1) - 1 = n /\ n \in 0..n
      OBVIOUS
    <3> QED BY <1>2, <1>3, <1>4, <1>6, <1>8, <3>1
  <2> QED BY <1>6, <1>9, <2>1, <2>2
<1>12. RunOK(c, f)
  <2>1. /\ c.existing = IF c.key \in DOMAIN memos THEN <<memos[c.key]>> ELSE <<>>
        /\ c.seen = RG!Seen(g, RG!Current, n)
        /\ \A j \in 1..n : RG!Settled(g[j])
    BY <1>2, <1>4 DEF RunOK
  <2>2. c.seen = RG!Seen(f, RG!Current, n) /\ \A j \in 1..n : RG!Settled(f[j])
    BY <1>6, <1>8, <2>1 DEF Agree
  <2> QED BY <1>3, <1>4, <1>6, <1>11, <2>1, <2>2 DEF RunOK
<1>13. ActivationOK(c, f)
  BY <1>1, <1>12 DEF ActivationOK
<1>14. Len(f) = Len(c.seen) + 1 /\ f[Len(f)] = d
  BY <1>4, <1>6
<1> QED BY <1>1, <1>3, <1>6, <1>7, <1>13, <1>14 DEF c, f, g

-----------------------------------------------------------------------------
(* An activation is started: a run, or a check of a memo.                  *)
LEMMA NothingOK ==
  ASSUME NEW cs, NEW fs, cs # <<>> => Len(Top(fs)) = Len(Top(cs).seen) \/ Top(cs).op # "compute"
  PROVE  ResultOK(cs, fs, Nothing)
<1>1. Nothing \in Results /\ Nothing.tag = "nothing"
  BY DEF Results, Nothing
<1>2. Truthful(Nothing)
  BY <1>1 DEF Truthful
<1> QED BY <1>1, <1>2 DEF ResultOK

LEMMA RunStarts ==
  ASSUME EInv, Quiet, cancelled' \in BOOLEAN,
         NEW k \in Derived, ~RG!Fresh(k),
         NEW existing, existing = IF k \in DOMAIN memos THEN <<memos[k]>> ELSE <<>>,
         NEW cs, NEW fs, Fits(cs, fs, active),
         cs # <<>> => Waits(Top(cs), Top(fs), k),
         \A i \in 1..Len(cs) : Rank[k] < Rank[cs[i].key],
         StartCompute(k, existing, cs, fs)
  PROVE  EInv'
<1> DEFINE c == Compute(k, existing)
<1>1. existing \in Option(Memo)
  <2>1. k \in DOMAIN memos => memos[k] \in Memo
    BY MemoFacts DEF EInv
  <2> QED BY <2>1 DEF Option
<1>2. c \in Activation /\ c.key = k /\ c.op = "compute" /\ c.seen = <<>> /\ c.existing = existing
  BY <1>1 DEF Compute, Activation
<1>3. <<>> \in Seq(Keys) /\ Len(<<>>) = 0 /\ <<>> \in ReadSeqs
  BY ReadSeqsAssumption
<1> HIDE DEF c
<1>4. RunOK(c, <<>>)
  <2>1. c.seen = RG!Seen(<<>>, RG!Current, Len(c.seen))
    BY <1>2, <1>3 DEF RG!Seen
  <2>2. \A j : j \notin 1..Len(<<>>) /\ j \notin 1..Len(c.seen)
    BY <1>2, <1>3
  <2> QED BY <1>2, <1>3, <2>1, <2>2 DEF RunOK
<1>5. ActivationOK(c, <<>>)
  BY <1>2, <1>4 DEF ActivationOK
<1>6. /\ calls' = Append(cs, c) /\ active' = Append(active, k)
      /\ frames' = Append(fs, <<>>) /\ ret' = Nothing
  BY DEF StartCompute, c
<1>7. /\ Fits(Append(cs, c), Append(fs, <<>>), Append(active, c.key))
      /\ Top(Append(cs, c)) = c /\ Top(Append(fs, <<>>)) = <<>>
  <2>1. /\ Computing(c)
        /\ cs # <<>> => Waits(Top(cs), Top(fs), c.key)
        /\ \A i \in 1..Len(cs) : Rank[c.key] < Rank[cs[i].key]
    BY <1>2 DEF Computing
  <2>2. c \in Activation /\ <<>> \in Seq(Keys)
    BY <1>2, <1>3
  <2>3. Fits(Append(cs, c), Append(fs, <<>>), Append(active, c.key))
    BY <1>5, <2>1, <2>2, PushFits
  <2>4. Top(Append(cs, c)) = c /\ Top(Append(fs, <<>>)) = <<>>
    <3>1. cs \in Seq(Activation) /\ fs \in Seq(Seq(Keys))
      BY DEF Fits, Stacks
    <3>2. Top(Append(cs, c)) = c
      BY <2>2, <3>1, PushOps
    <3>3. Top(Append(fs, <<>>)) = <<>>
      <4> DEFINE e == <<>>
      <4>1. e \in Seq(Keys)
        BY <2>2
      <4> HIDE DEF e
      <4>2. Top(Append(fs, e)) = e
        BY <3>1, <4>1, PushOps
      <4> QED BY <4>2 DEF e
    <3> QED BY <3>2, <3>3
  <2> QED BY <2>3, <2>4
<1>8. ResultOK(calls', frames', ret')
  <2>1. Len(Top(frames')) = Len(Top(calls').seen)
    BY <1>2, <1>6, <1>7
  <2> QED BY <1>6, <2>1, NothingOK
<1>9. Fits(calls', frames', active')
  BY <1>2, <1>6, <1>7
<1> QED BY <1>8, <1>9, QuietKeeps

LEMMA CheckStarts ==
  ASSUME EInv, Quiet, cancelled' \in BOOLEAN,
         NEW k \in DOMAIN memos, ~RG!Fresh(k),
         NEW fs, Fits(calls, fs, active),
         calls # <<>> => Waits(Top(calls), Top(fs), k),
         \A i \in 1..Len(calls) : Rank[k] < Rank[calls[i].key],
         calls' = Append(calls, Validate(k)), frames' = Append(fs, <<>>),
         active' = active, ret' = Nothing
  PROVE  EInv'
<1> DEFINE c == Validate(k)
<1>1. k \in Derived /\ memos[k] \in Memo
  BY MemoFacts DEF EInv
<1>2. /\ c \in Activation /\ c.key = k /\ c.op = "validate" /\ c.memo = memos[k] /\ c.next = 1
      /\ c.op # "compute"
  BY <1>1 DEF Validate, Activation
<1>3. <<>> \in Seq(Keys) /\ Len(c.memo.deps) \in Nat
  BY <1>1, <1>2 DEF Memo
<1> HIDE DEF c
<1>4. CheckOK(c, <<>>)
  <2>1. c.next \in 1..(Len(c.memo.deps) + 1) /\ \A j : j \notin 1..(c.next - 1)
    BY <1>2, <1>3
  <2> QED BY <1>2, <2>1 DEF CheckOK
<1>5. ActivationOK(c, <<>>)
  BY <1>2, <1>4 DEF ActivationOK
<1>6. calls' = Append(calls, c)
  BY DEF c
<1>7. /\ Fits(Append(calls, c), Append(fs, <<>>), active)
      /\ Top(Append(calls, c)) = c
  <2>1. /\ ~Computing(c)
        /\ calls # <<>> => Waits(Top(calls), Top(fs), c.key)
        /\ \A i \in 1..Len(calls) : Rank[c.key] < Rank[calls[i].key]
    BY <1>2 DEF Computing
  <2> QED BY <1>2, <1>3, <1>5, <2>1, PushFits
<1>8. ResultOK(calls', frames', ret')
  BY <1>2, <1>6, <1>7, NothingOK
<1> QED BY <1>6, <1>7, <1>8, QuietKeeps

-----------------------------------------------------------------------------
(* fetch: the key asked for has its edge in the frame, if there is one.    *)
LEMMA ResultGiven ==
  ASSUME NEW cs, NEW fs, NEW r, Truthful(r), r # Nothing,
         cs # <<>> => Waits(Top(cs), Top(fs), r.key) \/ (r.tag = "error" /\ r.why = "Cancelled")
  PROVE  ResultOK(cs, fs, r)
BY DEF ResultOK

LEMMA Given ==
  ASSUME RG!IInv
  PROVE  /\ \A k \in Keys : LET r == Error(k, "Cancelled")
                            IN /\ Truthful(r) /\ r # Nothing
                               /\ r.tag = "error" /\ r.why = "Cancelled"
         /\ \A k \in Keys : Truth[world][k] = NoValue =>
              LET r == Error(k, "Failed") IN Truthful(r) /\ r # Nothing /\ r.key = k
         /\ \A k \in DOMAIN memos : RG!Fresh(k) =>
              Truthful(AnswerOf(k)) /\ AnswerOf(k) # Nothing /\ AnswerOf(k).key = k
<1>1. ASSUME NEW k \in Keys
      PROVE  LET r == Error(k, "Cancelled")
             IN Truthful(r) /\ r # Nothing /\ r.tag = "error" /\ r.why = "Cancelled"
  <2> DEFINE r == Error(k, "Cancelled")
  <2>1. r \in Results /\ r.tag = "error" /\ r.why = "Cancelled"
    BY DEF Error, Results
  <2>2. Nothing.tag = "nothing"
    BY DEF Nothing
  <2> HIDE DEF r
  <2>3. Truthful(r) /\ r # Nothing
    BY <2>1, <2>2 DEF Truthful
  <2> QED BY <2>1, <2>3 DEF r
<1>2. ASSUME NEW k \in Keys, Truth[world][k] = NoValue
      PROVE  LET r == Error(k, "Failed") IN Truthful(r) /\ r # Nothing /\ r.key = k
  <2> DEFINE r == Error(k, "Failed")
  <2>1. r \in Results /\ r.tag = "error" /\ r.why = "Failed" /\ r.key = k
    BY DEF Error, Results
  <2>2. Nothing.tag = "nothing"
    BY DEF Nothing
  <2> HIDE DEF r
  <2>3. Truthful(r) /\ r # Nothing
    BY <1>2, <2>1, <2>2 DEF Truthful
  <2> QED BY <2>1, <2>3 DEF r
<1>3. ASSUME NEW k \in DOMAIN memos, RG!Fresh(k)
      PROVE  Truthful(AnswerOf(k)) /\ AnswerOf(k) # Nothing /\ AnswerOf(k).key = k
  <2> DEFINE r == AnswerOf(k)
  <2>1. k \in Derived /\ memos[k].value \in Values /\ memos[k].changedAt \in Revisions
    BY MemoFacts DEF Memo
  <2>2. /\ r \in Results /\ r.tag = "ok" /\ r.key = k
        /\ r.value = memos[k].value /\ r.changedAt = memos[k].changedAt
    BY <2>1 DEF AnswerOf, Answer, Results
  <2>3. Nothing.tag = "nothing"
    BY DEF Nothing
  <2> HIDE DEF r
  <2>4. Truthful(r) /\ r # Nothing
    BY <1>3, <2>2, <2>3 DEF Truthful
  <2> QED BY <2>2, <2>4 DEF r
<1> QED BY <1>1, <1>2, <1>3

LEMMA FetchKeeps ==
  ASSUME EInv, NEW k \in Derived, Fetch(k),
         Fits(calls, RecordEdge(k), active),
         calls # <<>> => Waits(Top(calls), Top(RecordEdge(k)), k),
         \A i \in 1..Len(calls) : Rank[k] < Rank[calls[i].key]
  PROVE  EInv'
<1>1. Quiet /\ cancelled' = cancelled /\ cancelled \in BOOLEAN /\ RG!IInv
  BY DEF Fetch, EInv, Quiet
<1>2. k \in Keys
  BY DEF Keys
<1>3. \A d : RG!Fresh(d) <=> Reusable(d)
  BY DEF RG!Fresh, Reusable, Verified, Memoized
<1>4. CASE ret' = Error(k, "Cancelled") /\ UNCHANGED <<active, frames, calls>>
  <2>1. ResultOK(calls, frames, Error(k, "Cancelled"))
    BY <1>1, <1>2, Given, ResultGiven
  <2> QED BY <1>1, <1>4, <2>1, QuietKeeps DEF EInv
<1>5. k \notin Range(active)
  <2> SUFFICES ASSUME k \in Range(active) PROVE FALSE
    OBVIOUS
  <2>1. Aligned(calls, Len(calls), active, Len(active)) /\ active \in Seq(Derived)
    BY DEF EInv, Fits, Stacks
  <2>2. PICK j \in 1..Len(active) : active[j] = k
    BY <2>1 DEF Range
  <2>3. PICK i \in 1..Len(calls) : active[j] = calls[i].key
    BY <2>1, <2>2 DEF Aligned
  <2>4. Rank[k] < Rank[k]
    BY <2>2, <2>3
  <2> QED BY <1>1, <2>4, MemoFacts, Ranked
<1>6. CASE Reusable(k) /\ ret' = AnswerOf(k) /\ frames' = RecordEdge(k) /\ UNCHANGED <<active, calls>>
  <2>1. k \in DOMAIN memos /\ RG!Fresh(k)
    BY <1>3, <1>6 DEF RG!Fresh
  <2>2. ResultOK(calls, RecordEdge(k), AnswerOf(k))
    BY <1>1, <2>1, Given, ResultGiven
  <2> QED BY <1>1, <1>6, <2>2, QuietKeeps
<1>7. CASE /\ Memoized(k) /\ ~Reusable(k)
           /\ calls' = Append(calls, Validate(k)) /\ frames' = Append(RecordEdge(k), <<>>)
           /\ ret' = Nothing /\ UNCHANGED active
  <2>1. k \in DOMAIN memos /\ ~RG!Fresh(k)
    BY <1>3, <1>7 DEF Memoized
  <2> QED BY <1>1, <1>7, <2>1, CheckStarts
<1>8. CASE ~Memoized(k) /\ StartCompute(k, <<>>, calls, RecordEdge(k))
  <2>1. k \notin DOMAIN memos /\ ~RG!Fresh(k)
    BY <1>3, <1>8 DEF Memoized, Reusable, Verified
  <2> QED BY <1>1, <1>8, <2>1, RunStarts
<1> QED BY <1>4, <1>5, <1>6, <1>7, <1>8 DEF Fetch

LEMMA QueryKeeps ==
  ASSUME EInv, NEW k \in Derived, Query(k)
  PROVE  EInv'
<1>1. calls = <<>> /\ Fetch(k)
  BY DEF Query, Idle
<1>2. frames = <<>> /\ Fits(calls, frames, active)
  BY <1>1, EmptyFits DEF EInv
<1>3. RecordEdge(k) = frames
  BY <1>2 DEF RecordEdge
<1>4. Len(calls) = 0
  BY <1>1
<1> QED BY <1>1, <1>2, <1>3, <1>4, FetchKeeps

LEMMA HostReadsQueryKeeps ==
  ASSUME EInv, HostReadsQuery
  PROVE  EInv'
<1> DEFINE d == HostMove.key
           c == Top(calls)
           f == Append(Top(frames), d)
<1>1. /\ Running("compute") /\ ret = Nothing /\ HostMove.op = "read" /\ d \in Derived
      /\ Fetch(d) /\ Fits(calls, frames, active) /\ calls # <<>> /\ c.op = "compute"
  BY DEF HostReadsQuery, HostAsksFor, Running, EInv
<1>2. /\ Rank[d] < Rank[c.key] /\ f \in Seq(Keys) /\ ActivationOK(c, f)
      /\ Len(f) = Len(c.seen) + 1 /\ f[Len(f)] = d
      /\ RecordEdge(d) = ReplaceTop(frames, f)
  BY <1>1, EdgeRecorded
<1>3. /\ c \in Activation /\ c.key \in Derived
      /\ \A i \in 1..Len(calls) : calls[i].key = c.key \/ Rank[c.key] < Rank[calls[i].key]
  BY <1>1, TopFacts
<1> HIDE DEF f, d, c
<1>4. Fits(calls, RecordEdge(d), active) /\ Top(RecordEdge(d)) = f
  <2>1. c = Top(calls)
    BY DEF c
  <2> QED BY <1>1, <1>2, <1>3, <2>1, ReplaceFits
<1>5. Waits(Top(calls), Top(RecordEdge(d)), d)
  BY <1>1, <1>2, <1>4 DEF Waits, c
<1>6. ASSUME NEW i \in 1..Len(calls) PROVE Rank[d] < Rank[calls[i].key]
  <2>1. calls[i].key \in Derived
    <3>1. calls \in Seq(Activation)
      BY <1>1 DEF Fits, Stacks
    <3> QED BY <3>1, SeqFacts, Fields
  <2>2. Rank[d] \in Int /\ Rank[c.key] \in Int /\ Rank[calls[i].key] \in Int
    BY <1>1, <1>3, <2>1, MemoFacts, Ranked DEF EInv
  <2> QED BY <1>2, <1>3, <2>2
<1> QED BY <1>1, <1>4, <1>5, <1>6, FetchKeeps

-----------------------------------------------------------------------------
(* A read of the host returns: the run saw one more value.                 *)
LEMMA SeenExtends ==
  ASSUME NEW seen \in Seq(Values), NEW n \in Nat, Len(seen) = n,
         NEW reads, NEW vals, seen = RG!Seen(reads, vals, n), vals[reads[n + 1]] \in Values
  PROVE  Append(seen, vals[reads[n + 1]]) = RG!Seen(reads, vals, n + 1)
<1> DEFINE s == Append(seen, vals[reads[n + 1]])
<1>1. s \in Seq(Values) /\ Len(s) = n + 1 /\ s[n + 1] = vals[reads[n + 1]] /\ Agree(s, seen, n)
  BY PushAt
<1> HIDE DEF s
<1>2. s = [i \in 1..(n + 1) |-> s[i]]
  BY <1>1, SeqFacts
<1>3. ASSUME NEW i \in 1..(n + 1) PROVE s[i] = vals[reads[i]]
  <2>1. CASE i = n + 1
    BY <1>1, <2>1
  <2>2. CASE i # n + 1
    <3>1. i \in 1..n
      BY <2>2
    <3> QED BY <1>1, <3>1 DEF Agree, RG!Seen
  <2> QED BY <2>1, <2>2
<1>4. s = RG!Seen(reads, vals, n + 1)
  BY <1>2, <1>3 DEF RG!Seen
<1> QED BY <1>4 DEF s

LEMMA SeeKeeps ==
  ASSUME EInv, Quiet, cancelled' \in BOOLEAN, active' = active,
         NEW c, c = Top(calls), calls # <<>>, c.op = "compute",
         NEW f \in Seq(Keys), ActivationOK(c, f), Len(f) = Len(c.seen) + 1,
         frames' = ReplaceTop(frames, f) \/ (frames' = frames /\ f = Top(frames)),
         NEW d \in Keys, d = f[Len(f)], RG!Settled(d),
         NEW v, v = RG!Current[d], SeeValue(v)
  PROVE  EInv'
<1> DEFINE e == [c EXCEPT !.seen = Append(@, v)]
<1>1. c \in Activation /\ Fits(calls, frames, active) /\ RG!IInv
  BY TopFacts DEF EInv
<1>2. v \in Values
  BY <1>1, SettledIsTrue
<1>3. c.seen \in Seq(Values) /\ Append(c.seen, v) \in Seq(Values)
  BY <1>1, <1>2, Fields
<1>4. /\ e \in Activation /\ e.op = "compute" /\ e.key = c.key /\ e.existing = c.existing
      /\ e.seen = Append(c.seen, v)
  BY <1>1, <1>3 DEF Activation
<1>5. calls' = ReplaceTop(calls, e) /\ ret' = Nothing
  BY DEF SeeValue
<1> HIDE DEF e
<1>6. PICK n \in Nat : n = Len(c.seen)
  BY <1>3
<1>7. RunOK(c, f) /\ ~RG!Fresh(c.key) /\ Len(f) = n + 1
  BY <1>6 DEF ActivationOK
<1>8. Len(e.seen) = n + 1 /\ e.seen = RG!Seen(f, RG!Current, n + 1)
  <2>1. c.seen = RG!Seen(f, RG!Current, n)
    BY <1>6, <1>7 DEF RunOK
  <2>2. v = RG!Current[f[n + 1]]
    BY <1>7
  <2>3. Append(c.seen, v) = RG!Seen(f, RG!Current, n + 1)
    BY <1>2, <1>3, <1>6, <2>1, <2>2, SeenExtends
  <2> QED BY <1>2, <1>3, <1>4, <1>6, <2>3, PushAt
<1>9. \A j \in 1..(n + 1) : RG!Settled(f[j])
  <2>1. \A j \in 1..n : RG!Settled(f[j])
    BY <1>6, <1>7 DEF RunOK
  <2>2. \A j \in 1..(n + 1) : j \in 1..n \/ j = n + 1
    OBVIOUS
  <2> QED BY <1>7, <2>1, <2>2
<1>10. RunOK(e, f)
  <2>1. /\ e.existing = IF e.key \in DOMAIN memos THEN <<memos[e.key]>> ELSE <<>>
        /\ f \in ReadSeqs
        /\ \A j \in 1..Len(f) : ClosedStep(e.key, RG!Seen(f, RG!Current, j - 1)) = Reads(f[j])
    BY <1>4, <1>7 DEF RunOK
  <2> QED BY <1>7, <1>8, <1>9, <2>1 DEF RunOK
<1>11. ActivationOK(e, f)
  BY <1>4, <1>7, <1>10 DEF ActivationOK
<1>12. Fits(calls', frames', active') /\ Top(calls') = e /\ Top(frames') = f
  <2>1. e.key = Top(calls).key /\ (Computing(e) <=> Computing(Top(calls)))
    BY <1>4 DEF Computing
  <2>2. Fits(calls', frames', active) /\ Top(calls') = e /\ Top(frames') = f
    <3>1. calls' = ReplaceTop(calls, e) \/ (calls' = calls /\ e = Top(calls))
      BY <1>5
    <3>2. e \in Activation /\ Fits(calls, frames, active)
      BY <1>1, <1>4
    <3> QED BY <1>11, <2>1, <3>1, <3>2, ReplaceFits
  <2> QED BY <2>2
<1>13. ResultOK(calls', frames', ret')
  BY <1>5, <1>7, <1>8, <1>12, NothingOK
<1> QED BY <1>12, <1>13, QuietKeeps

LEMMA HostReadsInputKeeps ==
  ASSUME EInv, HostReadsInput
  PROVE  EInv'
<1> DEFINE i == HostMove.key
           c == Top(calls)
           f == Append(Top(frames), i)
<1>1. /\ Running("compute") /\ ret = Nothing /\ HostMove.op = "read" /\ i \in Inputs
      /\ Quiet /\ active' = active /\ cancelled' = cancelled /\ cancelled \in BOOLEAN
      /\ Fits(calls, frames, active) /\ calls # <<>> /\ c.op = "compute" /\ RG!IInv
  BY DEF HostReadsInput, HostAsksFor, Running, EInv, Quiet
<1>2. i \in Keys
  BY <1>1 DEF Keys
<1>3. CASE ret' = Error(i, "Cancelled") /\ UNCHANGED <<frames, calls>>
  <2>1. ResultOK(calls, frames, Error(i, "Cancelled"))
    BY <1>1, <1>2, Given, ResultGiven
  <2> QED BY <1>1, <1>3, <2>1, QuietKeeps
<1>4. CASE frames' = RecordEdge(i) /\ SeeValue(world[i])
  <2>1. /\ f \in Seq(Keys) /\ ActivationOK(c, f)
        /\ Len(f) = Len(c.seen) + 1 /\ f[Len(f)] = i
        /\ frames' = ReplaceTop(frames, f)
    BY <1>1, <1>4, EdgeRecorded
  <2>2. RG!Settled(i) /\ RG!Current[i] = world[i]
    BY <1>1, <1>2, AbstractNames DEF RG!Settled, RG!Current
  <2> HIDE DEF i, c, f
  <2>3. c = Top(calls)
    BY DEF c
  <2> QED BY <1>1, <1>2, <1>4, <2>1, <2>2, <2>3, SeeKeeps
<1> QED BY <1>3, <1>4 DEF HostReadsInput

LEMMA HostReceivesKeeps ==
  ASSUME EInv, HostReceives
  PROVE  EInv'
<1> DEFINE c == Top(calls)
           f == Top(frames)
           d == ret.key
<1>1. /\ Quiet /\ active' = active /\ frames' = frames /\ cancelled' = cancelled
      /\ cancelled \in BOOLEAN /\ calls # <<>> /\ c.op = "compute" /\ ret.tag = "ok"
      /\ SeeValue(ret.value) /\ RG!IInv /\ Fits(calls, frames, active)
  BY DEF HostReceives, Running, EInv, Quiet
<1>2. Waits(c, f, d) /\ RG!Fresh(d) /\ ret.value = memos[d].value
  BY <1>1 DEF EInv, ResultOK, Truthful
<1>3. Len(f) = Len(c.seen) + 1 /\ f[Len(f)] = d
  BY <1>1, <1>2 DEF Waits
<1>4. d \in Derived /\ d \notin Inputs /\ d \in Keys /\ d \in DOMAIN memos
  BY <1>1, <1>2, MemoFacts DEF Keys, RG!Fresh
<1>5. RG!Settled(d) /\ RG!Current[d] = ret.value
  BY <1>2, <1>4, AbstractNames DEF RG!Settled, RG!Current
<1>6. f \in Seq(Keys) /\ ActivationOK(c, f)
  BY <1>1, TopFacts
<1>7. c = Top(calls) /\ f = Top(frames)
  OBVIOUS
<1> HIDE DEF c, f, d
<1> QED BY <1>1, <1>3, <1>4, <1>5, <1>6, <1>7, SeeKeeps

-----------------------------------------------------------------------------
(* An activation ends with an error.                                       *)
LEMMA ErrorKeeps ==
  ASSUME EInv, Quiet, cancelled' \in BOOLEAN,
         NEW c, c = Top(calls), calls # <<>>,
         calls' = Pop(calls), frames' = Pop(frames),
         active' = IF Computing(c) THEN Pop(active) ELSE active,
         NEW why, ret' = Error(c.key, why),
         \/ why = "Cancelled"
         \/ why = "Failed" /\ Truth[world][c.key] = NoValue
  PROVE  EInv'
<1>1. Fits(calls, frames, active) /\ RG!IInv /\ c.key \in Derived
  BY TopFacts DEF EInv
<1>2. /\ Fits(calls', frames', active')
      /\ calls' # <<>> => Waits(Top(calls'), Top(frames'), c.key)
  BY <1>1, PopFits
<1>3. c.key \in Keys
  BY <1>1 DEF Keys
<1>4. ResultOK(calls', frames', ret')
  <2>1. CASE why = "Cancelled"
    <3>1. LET r == Error(c.key, "Cancelled")
          IN Truthful(r) /\ r # Nothing /\ r.tag = "error" /\ r.why = "Cancelled"
      BY <1>1, <1>3, Given
    <3> QED BY <2>1, <3>1, ResultGiven
  <2>2. CASE why = "Failed" /\ Truth[world][c.key] = NoValue
    <3>1. LET r == Error(c.key, "Failed") IN Truthful(r) /\ r # Nothing /\ r.key = c.key
      BY <1>1, <1>3, <2>2, Given
    <3> QED BY <1>2, <2>2, <3>1, ResultGiven
  <2> QED BY <2>1, <2>2
<1> QED BY <1>2, <1>4, QuietKeeps

LEMMA HostFailsKeeps ==
  ASSUME EInv, HostFails
  PROVE  EInv'
<1> DEFINE c == Top(calls)
           f == Top(frames)
<1>1. /\ Running("compute") /\ ret = Nothing /\ HostMove = Fails /\ calls # <<>> /\ c.op = "compute"
      /\ calls' = Pop(calls) /\ active' = Pop(active) /\ frames' = Pop(frames)
      /\ ret' = Error(c.key, "Failed") /\ Quiet /\ cancelled' \in BOOLEAN
      /\ RG!IInv /\ Fits(calls, frames, active)
  BY DEF HostFails, AbandonCompute, Running, EInv, Quiet
<1>2. /\ f \in ReadSeqs /\ RunOK(c, f)
      /\ \A j \in 1..Len(f) : RG!Settled(f[j])
      /\ HostMove = ClosedStep(c.key, RG!Seen(f, RG!Current, Len(f)))
  BY <1>1, MoveFacts
<1>3. c.key \in Derived
  BY <1>1, TopFacts
<1> HIDE DEF c, f
<1>4. Truth[world][c.key] = NoValue
  <2>1. \A j \in 1..Len(f) : ClosedStep(c.key, RG!Seen(f, RG!Current, j - 1)) = Reads(f[j])
    BY <1>2 DEF RunOK
  <2>2. RunReads(c.key, f, Truth[world]) /\ RunMove(c.key, f, Truth[world]) = Fails
    BY <1>1, <1>2, <1>3, <2>1, TrueRun
  <2>3. RunFails(c.key, f, Truth[world])
    BY <2>2 DEF RunFails
  <2> QED BY <1>1, <1>2, <1>3, <2>3, MemoFacts, TruthIsMeaning
<1>5. c = Top(calls) /\ Computing(c)
  BY <1>1 DEF c, Computing
<1> QED BY <1>1, <1>4, <1>5, ErrorKeeps

(* The first n of the reads of a run.                                      *)
LEMMA PrefixFacts ==
  ASSUME NEW reads \in ReadSeqs, NEW n \in 0..Len(reads)
  PROVE  \E p \in ReadSeqs : Len(p) = n /\ Agree(p, reads, n)
<1>1. SubSeq(reads, 1, n) \in ReadSeqs
  BY ReadSeqsAssumption
<1>2. reads \in Seq(Keys) /\ n \in Nat /\ n <= Len(reads)
  BY ReadFacts
<1>3. Len(SubSeq(reads, 1, n)) = n /\ \A j \in 1..n : SubSeq(reads, 1, n)[j] = reads[j]
  BY <1>2
<1> QED BY <1>1, <1>3 DEF Agree

(* The same of a run whose next read is among the reads of a longer one.   *)
LEMMA PrefixRun ==
  ASSUME RG!IInv, NEW k \in Derived, NEW reads \in ReadSeqs, NEW n \in Nat,
         n + 1 \in 1..Len(reads),
         \A j \in 1..n : RG!Settled(reads[j]),
         \A j \in 1..(n + 1) : ClosedStep(k, RG!Seen(reads, RG!Current, j - 1)) = Reads(reads[j])
  PROVE  /\ reads[n + 1] \in Derived => Rank[reads[n + 1]] < Rank[k]
         /\ Truth[world][reads[n + 1]] = NoValue => Truth[world][k] = NoValue
<1>1. PICK p \in ReadSeqs : Len(p) = n /\ Agree(p, reads, n)
  <2>1. n \in 0..Len(reads)
    BY ReadFacts
  <2> QED BY <2>1, PrefixFacts
<1>2. \A j \in 0..n : RG!Seen(p, RG!Current, j) = RG!Seen(reads, RG!Current, j)
  BY <1>1 DEF Agree, RG!Seen
<1>3. \A j \in 1..n : RG!Settled(p[j])
  BY <1>1 DEF Agree
<1>4. ASSUME NEW j \in 1..n
      PROVE  ClosedStep(k, RG!Seen(p, RG!Current, j - 1)) = Reads(p[j])
  <2>1. j - 1 \in 0..n /\ j \in 1..(n + 1) /\ p[j] = reads[j]
    BY <1>1 DEF Agree
  <2> QED BY <1>2, <2>1
<1>5. ClosedStep(k, RG!Seen(p, RG!Current, n)) = Reads(reads[n + 1])
  <2>1. n + 1 \in 1..(n + 1) /\ (n + 1) - 1 = n /\ n \in 0..n
    OBVIOUS
  <2>2. ClosedStep(k, RG!Seen(reads, RG!Current, (n + 1) - 1)) = Reads(reads[n + 1])
    BY <2>1
  <2> QED BY <1>2, <2>1, <2>2
<1>6. reads[n + 1] \in Keys
  BY ReadFacts
<1>7. RunReads(k, p, Truth[world]) /\ RunMove(k, p, Truth[world]) = Reads(reads[n + 1])
  BY <1>1, <1>3, <1>4, <1>5, TrueRun
<1> QED BY <1>1, <1>6, <1>7, NextRead

LEMMA HostPropagatesKeeps ==
  ASSUME EInv, HostPropagates
  PROVE  EInv'
<1> DEFINE c == Top(calls)
           f == Top(frames)
<1>1. /\ ret.tag = "error" /\ calls # <<>> /\ c.op = "compute"
      /\ calls' = Pop(calls) /\ active' = Pop(active) /\ frames' = Pop(frames)
      /\ ret' = Error(c.key, ret.why) /\ Quiet /\ cancelled' \in BOOLEAN
      /\ RG!IInv /\ Fits(calls, frames, active) /\ ret \in Results
  BY DEF HostPropagates, AbandonCompute, Running, EInv, Quiet, ResultOK, Truthful
<1>2. ret.why \in {"Cancelled", "Failed"}
  BY <1>1 DEF Results, Nothing
<1>3. c.key \in Derived /\ c \in Activation /\ RunOK(c, f)
  BY <1>1, TopFacts DEF ActivationOK
<1>4. ASSUME ret.why = "Failed" PROVE Truth[world][c.key] = NoValue
  <2>1. Waits(c, f, ret.key) /\ Truth[world][ret.key] = NoValue
    BY <1>1, <1>4 DEF EInv, ResultOK, Truthful
  <2>2. Len(f) = Len(c.seen) + 1 /\ f[Len(f)] = ret.key
    BY <1>1, <2>1 DEF Waits
  <2> HIDE DEF c, f
  <2>3. PICK n \in Nat : n = Len(c.seen)
    BY <1>1, <1>3, Fields
  <2>4. f \in ReadSeqs /\ n + 1 \in 1..Len(f) /\ Truth[world][f[n + 1]] = NoValue
    BY <1>3, <2>1, <2>2, <2>3 DEF RunOK
  <2>5. /\ \A j \in 1..n : RG!Settled(f[j])
        /\ \A j \in 1..(n + 1) : ClosedStep(c.key, RG!Seen(f, RG!Current, j - 1)) = Reads(f[j])
    BY <1>3, <2>2, <2>3 DEF RunOK
  <2> QED BY <1>1, <1>3, <2>4, <2>5, PrefixRun
<1>5. c = Top(calls) /\ Computing(c)
  BY <1>1 DEF Computing
<1> HIDE DEF c, f
<1> QED BY <1>1, <1>2, <1>4, <1>5, ErrorKeeps

-----------------------------------------------------------------------------
(* The check of a memo.                                                    *)
LEMMA CheckFacts ==
  ASSUME EInv, Running("validate")
  PROVE  LET c == Top(calls)
             f == Top(frames)
         IN /\ calls # <<>> /\ c \in Activation /\ c.key \in Derived /\ ~Computing(c)
            /\ f \in Seq(Keys) /\ ActivationOK(c, f) /\ CheckOK(c, f) /\ ~RG!Fresh(c.key)
            /\ c.memo = memos[c.key] /\ c.key \in DOMAIN memos /\ c.memo \in Memo
            /\ c.memo.deps \in ReadSeqs
            /\ c.next \in Nat \ {0} /\ c.next \in 1..(Len(c.memo.deps) + 1)
            /\ \A j \in 1..(c.next - 1) :
                 /\ RG!Settled(c.memo.deps[j])
                 /\ RG!ChangedAt(c.memo.deps[j]) <= c.memo.verifiedAt
<1> DEFINE c == Top(calls)
           f == Top(frames)
<1>1. calls # <<>> /\ c.op = "validate" /\ RG!IInv /\ Fits(calls, frames, active)
  BY DEF Running, EInv
<1>2. c \in Activation /\ c.key \in Derived /\ f \in Seq(Keys) /\ ActivationOK(c, f)
  BY <1>1, TopFacts
<1> HIDE DEF c, f
<1>3. CheckOK(c, f) /\ ~RG!Fresh(c.key) /\ ~Computing(c)
  BY <1>1, <1>2 DEF ActivationOK, Computing
<1>4. /\ c.memo = memos[c.key] /\ c.key \in DOMAIN memos
      /\ c.next \in 1..(Len(c.memo.deps) + 1)
      /\ \A j \in 1..(c.next - 1) :
           /\ RG!Settled(c.memo.deps[j])
           /\ RG!ChangedAt(c.memo.deps[j]) <= c.memo.verifiedAt
  BY <1>3 DEF CheckOK
<1>5. c.memo \in Memo /\ c.memo.deps \in ReadSeqs
  BY <1>1, <1>4, MemoFacts
<1>6. c.next \in Nat \ {0}
  BY <1>1, <1>2, Fields
<1> QED BY <1>1, <1>2, <1>3, <1>4, <1>5, <1>6 DEF c, f

(* The dependency in hand is settled: go on, or recompute.                 *)
LEMMA JudgeKeeps ==
  ASSUME EInv, Running("validate"), DepsLeft, Quiet, cancelled' \in BOOLEAN,
         RG!Settled(Dep), NEW x, x = RG!ChangedAt(Dep), JudgeDep(x)
  PROVE  EInv'
<1> DEFINE c == Top(calls)
           f == Top(frames)
<1>1. /\ calls # <<>> /\ c \in Activation /\ c.key \in Derived /\ ~Computing(c)
      /\ f \in Seq(Keys) /\ CheckOK(c, f) /\ ~RG!Fresh(c.key)
      /\ c.memo = memos[c.key] /\ c.key \in DOMAIN memos /\ c.memo \in Memo
      /\ c.memo.deps \in ReadSeqs
      /\ c.next \in Nat \ {0} /\ c.next \in 1..(Len(c.memo.deps) + 1)
      /\ \A j \in 1..(c.next - 1) :
           /\ RG!Settled(c.memo.deps[j])
           /\ RG!ChangedAt(c.memo.deps[j]) <= c.memo.verifiedAt
  BY CheckFacts
<1>2. Fits(calls, frames, active) /\ c.op = "validate"
  BY DEF EInv, Running
<1>3. CASE DepChanged(x)
  <2>1. StartCompute(c.key, <<c.memo>>, Pop(calls), Pop(frames))
    BY <1>3 DEF JudgeDep
  <2>2. /\ Fits(Pop(calls), Pop(frames), active)
        /\ Pop(calls) # <<>> => Waits(Top(Pop(calls)), Top(Pop(frames)), c.key)
        /\ \A i \in 1..Len(Pop(calls)) : Rank[c.key] < Rank[Pop(calls)[i].key]
    BY <1>1, <1>2, PopFits
  <2>3. <<c.memo>> = IF c.key \in DOMAIN memos THEN <<memos[c.key]>> ELSE <<>>
    BY <1>1
  <2> HIDE DEF c, f
  <2> QED BY <1>1, <2>1, <2>2, <2>3, RunStarts
<1>4. CASE ~DepChanged(x)
  <2> DEFINE e == [c EXCEPT !.next = @ + 1]
  <2>1. /\ calls' = ReplaceTop(calls, e) /\ ret' = Nothing /\ active' = active /\ frames' = frames
        /\ ~(RG!ChangedAt(Dep) > c.memo.verifiedAt) /\ Dep = c.memo.deps[c.next]
        /\ c.next <= Len(c.memo.deps)
    BY <1>4 DEF JudgeDep, NextDep, DepChanged, Dep, DepsLeft
  <2>2. c.next + 1 \in Nat \ {0}
    BY <1>1
  <2>3. /\ e \in Activation /\ e.op = "validate" /\ e.key = c.key /\ e.memo = c.memo
        /\ e.next = c.next + 1
    BY <1>1, <1>2, <2>2 DEF Activation
  <2>4. RG!ChangedAt(Dep) <= c.memo.verifiedAt
    <3>1. RG!ChangedAt(Dep) \in Int /\ c.memo.verifiedAt \in Int
      <4>1. RG!TypeOK /\ RG!IInv
        BY DEF EInv, RG!IInv
      <4>2. c.memo.verifiedAt \in Int
        BY <1>1 DEF Memo, Revisions
      <4>3. Dep \in Inputs => inputChanged[Dep] \in Int
        BY <4>1, AbstractNames DEF RG!TypeOK, Revisions
      <4>4. Dep \in DOMAIN memos => memos[Dep].changedAt \in Int
        BY <4>1, MemoFacts DEF Memo, Revisions
      <4> QED BY <4>2, <4>3, <4>4 DEF RG!ChangedAt, RG!Settled, RG!Fresh
    <3> QED BY <2>1, <3>1
  <2> HIDE DEF c, f, e
  <2>5. e.next \in 1..(Len(e.memo.deps) + 1)
    <3>1. Len(c.memo.deps) \in Nat
      BY <1>1, ReadFacts
    <3> QED BY <1>1, <2>1, <2>3, <3>1
  <2>6. \A j \in 1..(e.next - 1) : j \in 1..(c.next - 1) \/ j = c.next
    BY <1>1, <2>3
  <2>7. CheckOK(e, f)
    <3>1. \A j \in 1..(e.next - 1) : /\ RG!Settled(e.memo.deps[j])
                                     /\ RG!ChangedAt(e.memo.deps[j]) <= e.memo.verifiedAt
      BY <1>1, <2>1, <2>3, <2>4, <2>6
    <3> QED BY <1>1, <2>3, <2>5, <3>1 DEF CheckOK
  <2>8. ActivationOK(e, f)
    BY <1>1, <2>3, <2>7 DEF ActivationOK
  <2>9. Fits(calls', frames', active') /\ Top(calls') = e
    <3>1. e.key = Top(calls).key /\ (Computing(e) <=> Computing(Top(calls)))
      BY <1>1, <2>3 DEF Computing, c
    <3>2. frames' = ReplaceTop(frames, f) \/ (frames' = frames /\ f = Top(frames))
      BY <2>1 DEF f
    <3>3. calls' = ReplaceTop(calls, e) \/ (calls' = calls /\ e = Top(calls))
      BY <2>1
    <3>4. e \in Activation /\ f \in Seq(Keys) /\ calls # <<>> /\ Fits(calls, frames, active)
      BY <1>1, <1>2, <2>3
    <3>5. Fits(calls', frames', active) /\ Top(calls') = e
      BY <2>8, <3>1, <3>2, <3>3, <3>4, ReplaceFits
    <3> QED BY <2>1, <3>5
  <2>10. ResultOK(calls', frames', ret')
    BY <2>1, <2>3, <2>9, NothingOK
  <2> QED BY <2>9, <2>10, QuietKeeps
<1> QED BY <1>3, <1>4

(* The dependency that a check has in hand is one that the query reads     *)
(* over the inputs of now: the memo's run goes the same way up to it.      *)
LEMMA DepFacts ==
  ASSUME EInv, Running("validate"), DepsLeft
  PROVE  /\ Dep \in Keys
         /\ Dep \in Derived => Dep \in DOMAIN memos /\ Rank[Dep] < Rank[Top(calls).key]
         /\ Truth[world][Dep] = NoValue => Truth[world][Top(calls).key] = NoValue
         /\ Waits(Top(calls), Top(frames), Dep)
<1> DEFINE c == Top(calls)
           reads == c.memo.deps
<1>1. /\ c.key \in Derived /\ c.memo = memos[c.key] /\ c.key \in DOMAIN memos
      /\ reads \in ReadSeqs /\ c.next \in Nat \ {0}
      /\ \A j \in 1..(c.next - 1) :
           /\ RG!Settled(reads[j])
           /\ RG!ChangedAt(reads[j]) <= c.memo.verifiedAt
  BY CheckFacts
<1>2. c.next <= Len(reads) /\ Dep = reads[c.next] /\ c.op = "validate" /\ RG!IInv
  BY DEF DepsLeft, Dep, Running, EInv
<1> HIDE DEF c
<1>3. PICK n \in Nat : n + 1 = c.next
  <2>1. c.next - 1 \in Nat /\ (c.next - 1) + 1 = c.next
    BY <1>1
  <2> QED BY <2>1
<1>4. \A j \in 1..n : RG!Settled(reads[j]) /\ RG!ChangedAt(reads[j]) <= c.memo.verifiedAt
  <2>1. c.next - 1 = n
    BY <1>3
  <2> QED BY <1>1, <2>1
<1>5. Len(reads) \in Nat /\ n + 1 \in 1..Len(reads) /\ DOMAIN reads = 1..Len(reads)
  BY <1>1, <1>2, <1>3, ReadFacts, SeqFacts
<1>6. Dep \in Keys
  BY <1>1, <1>2, <1>3, <1>5, ReadFacts
<1>7. Dep \in Derived => Dep \in DOMAIN memos
  <2>1. Dep \in RG!DepsOf(memos[c.key])
    BY <1>1, <1>2, <1>3, <1>5 DEF RG!DepsOf
  <2> QED BY <1>1, <1>2, <2>1 DEF RG!IInv, RG!DepsVerifiedWithReader
<1>8. PICK vals : /\ RG!RunReturns(c.key, reads, vals, c.memo.value)
                  /\ \A d \in RG!DepsOf(c.memo) :
                       RG!ChangedAt(d) <= c.memo.verifiedAt => RG!Current[d] = vals[d]
  BY <1>1, <1>2 DEF RG!IInv, RG!MemosReplay
<1>9. ASSUME NEW j \in 1..n PROVE vals[reads[j]] = RG!Current[reads[j]]
  <2>1. j \in DOMAIN reads
    BY <1>5
  <2>2. reads[j] \in RG!DepsOf(c.memo)
    BY <2>1 DEF RG!DepsOf
  <2> QED BY <1>4, <1>8, <2>2
<1> HIDE DEF reads
<1>10. \A j \in 0..n : RG!Seen(reads, vals, j) = RG!Seen(reads, RG!Current, j)
  BY <1>9 DEF RG!Seen
<1>11. ASSUME NEW j \in 1..(n + 1)
       PROVE  ClosedStep(c.key, RG!Seen(reads, RG!Current, j - 1)) = Reads(reads[j])
  <2>1. j - 1 \in 0..n /\ j \in 1..Len(reads)
    BY <1>5
  <2>2. ClosedStep(c.key, RG!Seen(reads, vals, j - 1)) = Reads(reads[j])
    BY <1>8, <2>1 DEF RG!RunReturns, RG!Reads, Reads
  <2> QED BY <1>10, <2>1, <2>2
<1>12. /\ reads[n + 1] \in Derived => Rank[reads[n + 1]] < Rank[c.key]
       /\ Truth[world][reads[n + 1]] = NoValue => Truth[world][c.key] = NoValue
  BY <1>1, <1>2, <1>4, <1>5, <1>11, PrefixRun
<1>13. Waits(c, Top(frames), Dep)
  BY <1>2 DEF Waits, reads
<1>14. Dep = reads[n + 1]
  BY <1>2, <1>3
<1> QED BY <1>6, <1>7, <1>12, <1>13, <1>14 DEF c

LEMMA CheckInputKeeps ==
  ASSUME EInv, CheckInput
  PROVE  EInv'
<1>1. /\ Running("validate") /\ DepsLeft /\ Dep \notin DOMAIN memos /\ Quiet
      /\ cancelled' \in BOOLEAN
      /\ JudgeDep(IF Dep \in Inputs THEN inputChanged[Dep] ELSE 0)
  BY DEF CheckInput, Memoized, Quiet, EInv
<1>2. Dep \in Inputs
  BY <1>1, DepFacts DEF Keys
<1>3. RG!Settled(Dep) /\ inputChanged[Dep] = RG!ChangedAt(Dep)
  BY <1>2 DEF RG!Settled, RG!ChangedAt
<1>4. JudgeDep(inputChanged[Dep])
  BY <1>1, <1>2
<1> QED BY <1>1, <1>3, <1>4, JudgeKeeps

LEMMA CheckReturnsKeeps ==
  ASSUME EInv, CheckReturns
  PROVE  EInv'
<1>1. /\ Running("validate") /\ ret.tag = "ok" /\ Quiet /\ cancelled' \in BOOLEAN
      /\ JudgeDep(ret.changedAt) /\ calls # <<>> /\ Top(calls).op = "validate" /\ RG!IInv
  BY DEF CheckReturns, Quiet, EInv, Running
<1>2. /\ Waits(Top(calls), Top(frames), ret.key) /\ RG!Fresh(ret.key)
      /\ ret.changedAt = memos[ret.key].changedAt
  BY <1>1 DEF EInv, ResultOK, Truthful
<1>3. DepsLeft /\ Dep = ret.key
  BY <1>1, <1>2 DEF Waits, DepsLeft, Dep
<1>4. RG!Settled(Dep) /\ ret.changedAt = RG!ChangedAt(Dep)
  <2>1. Dep \in DOMAIN memos /\ Dep \notin Inputs
    BY <1>1, <1>2, <1>3, MemoFacts DEF RG!Fresh
  <2> QED BY <1>2, <1>3, <2>1 DEF RG!Settled, RG!ChangedAt
<1> QED BY <1>1, <1>3, <1>4, JudgeKeeps

LEMMA CheckQueryKeeps ==
  ASSUME EInv, CheckQuery
  PROVE  EInv'
<1>1. /\ Running("validate") /\ DepsLeft /\ Dep \in DOMAIN memos /\ Quiet
      /\ cancelled' = cancelled /\ cancelled \in BOOLEAN /\ active' = active
      /\ RG!IInv /\ Fits(calls, frames, active) /\ calls # <<>>
  BY DEF CheckQuery, Memoized, Quiet, EInv, Running
<1>2. Dep \in Derived /\ Dep \in Keys /\ Waits(Top(calls), Top(frames), Dep)
  BY <1>1, MemoFacts, DepFacts
<1>3. RG!Fresh(Dep) <=> Reusable(Dep)
  BY DEF RG!Fresh, Reusable, Verified, Memoized
<1>4. CASE ret' = Error(Dep, "Cancelled") /\ UNCHANGED <<frames, calls>>
  <2>1. ResultOK(calls, frames, Error(Dep, "Cancelled"))
    BY <1>1, <1>2, Given, ResultGiven
  <2> QED BY <1>1, <1>4, <2>1, QuietKeeps
<1>5. CASE Reusable(Dep) /\ ret' = AnswerOf(Dep) /\ UNCHANGED <<frames, calls>>
  <2>1. ResultOK(calls, frames, AnswerOf(Dep))
    BY <1>1, <1>2, <1>3, <1>5, Given, ResultGiven
  <2> QED BY <1>1, <1>5, <2>1, QuietKeeps
<1>6. CASE /\ ~Reusable(Dep) /\ calls' = Append(calls, Validate(Dep))
           /\ frames' = Append(frames, <<>>) /\ ret' = Nothing
  <2>1. ASSUME NEW i \in 1..Len(calls) PROVE Rank[Dep] < Rank[calls[i].key]
    <3>1. calls[i].key \in Derived
      <4>1. calls \in Seq(Activation)
        BY <1>1 DEF Fits, Stacks
      <4> QED BY <4>1, SeqFacts, Fields
    <3>2. /\ Top(calls).key \in Derived
          /\ calls[i].key = Top(calls).key \/ Rank[Top(calls).key] < Rank[calls[i].key]
      BY <1>1, TopFacts
    <3>3. Rank[Dep] < Rank[Top(calls).key]
      BY <1>1, <1>2, DepFacts
    <3>4. Rank[Dep] \in Int /\ Rank[Top(calls).key] \in Int /\ Rank[calls[i].key] \in Int
      BY <1>1, <1>2, <3>1, <3>2, MemoFacts, Ranked
    <3> QED BY <3>2, <3>3, <3>4
  <2>2. ~RG!Fresh(Dep)
    BY <1>3, <1>6
  <2> QED BY <1>1, <1>2, <1>6, <2>1, <2>2, CheckStarts
<1> QED BY <1>4, <1>5, <1>6 DEF CheckQuery

(* A check over a failed dependency: the query would fail there as well.   *)
LEMMA CheckFailsKeeps ==
  ASSUME EInv, CheckFails
  PROVE  EInv'
<1> DEFINE c == Top(calls)
<1>1. /\ Running("validate") /\ ret.tag = "error" /\ Quiet /\ cancelled' \in BOOLEAN
      /\ calls # <<>> /\ c.op = "validate" /\ active' = active
      /\ calls' = Pop(calls) /\ frames' = Pop(frames) /\ ret' = Error(c.key, ret.why)
      /\ RG!IInv /\ ret \in Results
  BY DEF CheckFails, Quiet, EInv, Running, ResultOK, Truthful
<1>2. ret.why \in {"Cancelled", "Failed"}
  BY <1>1 DEF Results, Nothing
<1>3. ASSUME ret.why = "Failed" PROVE Truth[world][c.key] = NoValue
  <2>1. Waits(c, Top(frames), ret.key) /\ Truth[world][ret.key] = NoValue
    BY <1>1, <1>3 DEF EInv, ResultOK, Truthful
  <2>2. DepsLeft /\ Dep = ret.key
    BY <1>1, <2>1 DEF Waits, DepsLeft, Dep
  <2> QED BY <1>1, <2>1, <2>2, DepFacts
<1>4. c = Top(calls) /\ ~Computing(c)
  BY <1>1 DEF Computing
<1> HIDE DEF c
<1> QED BY <1>1, <1>2, <1>3, <1>4, ErrorKeeps

-----------------------------------------------------------------------------
(* A memo is confirmed or installed: the other activations do not see it.  *)
LEMMA OthersKeep ==
  ASSUME RG!IInv, NEW k \in Derived, ~RG!Fresh(k),
         UNCHANGED <<revision, inputChanged, world>>,
         DOMAIN memos' = DOMAIN memos \cup {k},
         \A d \in DOMAIN memos \ {k} : memos'[d] = memos[d],
         NEW c \in Activation, NEW f \in Seq(Keys), c.key # k, ActivationOK(c, f)
  PROVE  ActivationOK(c, f)'
<1>1. k \notin Inputs
  BY EngineAssumption
<1>2. ASSUME NEW d, RG!Settled(d)
      PROVE  /\ d # k /\ RG!Settled(d)' /\ RG!ChangedAt(d)' = RG!ChangedAt(d)
             /\ d \in Keys => RG!Current'[d] = RG!Current[d]
  <2>1. d # k
    BY <1>1, <1>2 DEF RG!Settled
  <2>2. d \in Inputs \/ (d \in DOMAIN memos /\ d \in DOMAIN memos' /\ memos'[d] = memos[d])
    BY <1>2, <2>1 DEF RG!Settled, RG!Fresh
  <2>3. RG!Settled(d)' /\ RG!ChangedAt(d)' = RG!ChangedAt(d)
    BY <1>2, <2>2 DEF RG!Settled, RG!Fresh, RG!ChangedAt
  <2>4. d \in Keys => RG!Current'[d] = RG!Current[d]
    BY <2>2, AbstractNames DEF RG!Current
  <2> QED BY <2>1, <2>3, <2>4
<1>3. ~RG!Fresh(c.key)'
  BY DEF ActivationOK, RG!Fresh
<1>4. /\ c.key \in DOMAIN memos <=> c.key \in DOMAIN memos'
      /\ c.key \in DOMAIN memos => memos'[c.key] = memos[c.key]
  OBVIOUS
<1>5. ASSUME CheckOK(c, f) PROVE CheckOK(c, f)'
  BY <1>2, <1>4, <1>5 DEF CheckOK
<1>6. ASSUME c.op = "compute", RunOK(c, f) PROVE RunOK(c, f)'
  <2>1. PICK n \in Nat : n = Len(c.seen)
    BY <1>6, Fields
  <2>2. f \in ReadSeqs /\ Len(f) \in Nat /\ Len(f) \in {n, n + 1}
    BY <1>6, <2>1, ReadFacts DEF RunOK
  <2>3. ASSUME NEW j \in 1..n
        PROVE  RG!Settled(f[j])' /\ RG!Current'[f[j]] = RG!Current[f[j]]
    <3>1. RG!Settled(f[j]) /\ f[j] \in Keys
      BY <1>6, <2>1, <2>2, ReadFacts DEF RunOK
    <3> QED BY <1>2, <3>1
  <2>4. \A j \in 0..n : RG!Seen(f, RG!Current', j) = RG!Seen(f, RG!Current, j)
    BY <2>3 DEF RG!Seen
  <2>5. c.seen = RG!Seen(f, RG!Current', n)
    <3>1. n \in 0..n
      OBVIOUS
    <3> QED BY <1>6, <2>1, <2>4, <3>1 DEF RunOK
  <2>6. ASSUME NEW j \in 1..Len(f)
        PROVE  ClosedStep(c.key, RG!Seen(f, RG!Current', j - 1)) = Reads(f[j])
    <3>1. j - 1 \in 0..n
      BY <2>2
    <3>2. ClosedStep(c.key, RG!Seen(f, RG!Current, j - 1)) = Reads(f[j])
      BY <1>6 DEF RunOK
    <3> QED BY <2>4, <3>1, <3>2
  <2>7. c.existing = IF c.key \in DOMAIN memos' THEN <<memos'[c.key]>> ELSE <<>>
    BY <1>4, <1>6 DEF RunOK
  <2>9. RG!Seen(f, RG!Current, Len(c.seen))' = RG!Seen(f, RG!Current', n)
    BY <2>1 DEF RG!Seen
  <2>10. \A j : RG!Seen(f, RG!Current, j - 1)' = RG!Seen(f, RG!Current', j - 1)
    BY DEF RG!Seen
  <2> QED BY <2>1, <2>2, <2>3, <2>5, <2>6, <2>7, <2>9, <2>10 DEF RunOK
<1> QED BY <1>3, <1>5, <1>6 DEF ActivationOK

LEMMA FinishKeeps ==
  ASSUME EInv, calls # <<>>, NEW k, k = Top(calls).key,
         UNCHANGED <<revision, inputChanged, world, cancelled>>,
         DOMAIN memos' = DOMAIN memos \cup {k},
         \A d \in DOMAIN memos \ {k} : memos'[d] = memos[d],
         memos'[k].verifiedAt = revision, RG!IInv',
         calls' = Pop(calls), frames' = Pop(frames),
         active' = IF Computing(Top(calls)) THEN Pop(active) ELSE active,
         ret' = Answer(k, memos'[k].value, memos'[k].changedAt)
  PROVE  EInv'
<1>1. /\ RG!IInv /\ Fits(calls, frames, active) /\ k \in Derived
      /\ ActivationOK(Top(calls), Top(frames))
  BY TopFacts DEF EInv
<1>2. ~RG!Fresh(k)
  BY <1>1 DEF ActivationOK
<1>3. /\ Fits(calls', frames', active')
      /\ calls' # <<>> => Waits(Top(calls'), Top(frames'), k)
      /\ \A i \in 1..Len(calls') : Rank[k] < Rank[calls'[i].key]
  BY <1>1, PopFits
<1>4. ASSUME NEW i \in 1..Len(calls') PROVE ActivationOK(calls[i], frames[i])'
  <2>1. calls'[i] \in Activation /\ frames'[i] \in Seq(Keys)
    BY <1>3, SeqFacts DEF Fits, Stacks
  <2>2. calls'[i].key # k
    <3>1. Rank[k] \in Int /\ Rank[k] < Rank[calls'[i].key]
      BY <1>1, <1>3, MemoFacts, Ranked
    <3> QED BY <3>1
  <2>3. ActivationOK(calls'[i], frames'[i])
    BY <1>3 DEF Fits
  <2> QED BY <1>1, <1>2, <2>1, <2>2, <2>3, OthersKeep
<1>5. Fits(calls, frames, active)'
  BY <1>3, <1>4, SameStacks DEF Fits
<1>6. ResultOK(calls, frames, ret)'
  <2>1. k \in DOMAIN memos' /\ RG!Fresh(k)'
    BY DEF RG!Fresh
  <2>2. memos'[k].value \in Values /\ memos'[k].changedAt \in Revisions
    <3>1. memos'[k] \in RG!Memo
      BY <2>1 DEF RG!IInv, RG!TypeOK
    <3> QED BY <3>1, AbstractNames DEF RG!Memo
  <2>3. /\ ret' \in Results /\ ret'.tag = "ok" /\ ret'.key = k
        /\ ret'.value = memos'[k].value /\ ret'.changedAt = memos'[k].changedAt
    BY <1>1, <2>2 DEF Answer, Results
  <2>4. Truthful(ret)' /\ ret' # Nothing
    BY <2>1, <2>3 DEF Truthful, Nothing
  <2> QED BY <1>3, <2>3, <2>4 DEF ResultOK
<1> QED BY <1>5, <1>6 DEF EInv

LEMMA ConfirmKeeps ==
  ASSUME EInv, ConfirmMemo
  PROVE  EInv' /\ Top(calls).key \in Derived /\ RG!Confirm(Top(calls).key)
<1> DEFINE c == Top(calls)
           k == c.key
<1>1. /\ Running("validate") /\ ~DepsLeft /\ calls # <<>>
      /\ memos' = [memos EXCEPT ![k].verifiedAt = revision]
      /\ ret' = AnswerOf(k)
      /\ calls' = Pop(calls) /\ frames' = Pop(frames) /\ active' = active
      /\ UNCHANGED <<revision, inputChanged, world, cancelled>>
      /\ RG!IInv
  BY DEF ConfirmMemo, Running, EInv
<1>2. /\ k \in Derived /\ ~Computing(c) /\ ~RG!Fresh(k)
      /\ c.memo = memos[k] /\ k \in DOMAIN memos
      /\ c.memo.deps \in ReadSeqs
      /\ c.next \in Nat \ {0} /\ c.next \in 1..(Len(c.memo.deps) + 1)
      /\ \A j \in 1..(c.next - 1) :
           /\ RG!Settled(c.memo.deps[j])
           /\ RG!ChangedAt(c.memo.deps[j]) <= c.memo.verifiedAt
  BY <1>1, CheckFacts
<1>3. ~(c.next <= Len(c.memo.deps))
  BY <1>1 DEF DepsLeft
<1> HIDE DEF c
<1>4. \A d \in RG!DepsOf(memos[k]) : RG!Settled(d) /\ RG!ChangedAt(d) <= memos[k].verifiedAt
  <2> SUFFICES ASSUME NEW d \in RG!DepsOf(memos[k])
               PROVE  RG!Settled(d) /\ RG!ChangedAt(d) <= memos[k].verifiedAt
    OBVIOUS
  <2>1. DOMAIN c.memo.deps = 1..Len(c.memo.deps) /\ Len(c.memo.deps) \in Nat
    BY <1>2, ReadFacts, SeqFacts
  <2>2. PICK j \in 1..Len(c.memo.deps) : d = c.memo.deps[j]
    BY <1>2, <2>1 DEF RG!DepsOf
  <2>3. j \in 1..(c.next - 1)
    BY <1>2, <1>3, <2>1, <2>2
  <2> QED BY <1>2, <2>2, <2>3
<1>5. RG!Confirm(k)
  BY <1>1, <1>2, <1>4 DEF RG!Confirm
<1>6. RG!IInv'
  BY <1>1, <1>2, <1>5, AbstractConstants, AbstractTruth, RG!ConfirmPreserves
<1>7. memos[k] \in Memo
  BY <1>1, <1>2, MemoFacts
<1>8. /\ DOMAIN memos' = DOMAIN memos \cup {k}
      /\ \A d \in DOMAIN memos \ {k} : memos'[d] = memos[d]
      /\ memos'[k] = [memos[k] EXCEPT !.verifiedAt = revision]
  BY <1>1, <1>2
<1>9. /\ memos'[k].verifiedAt = revision /\ memos'[k].deps = memos[k].deps
      /\ memos'[k].value = memos[k].value /\ memos'[k].changedAt = memos[k].changedAt
  BY <1>7, <1>8 DEF Memo
<1>10. ret' = Answer(k, memos'[k].value, memos'[k].changedAt)
  BY <1>1, <1>9 DEF AnswerOf
<1>11. active' = IF Computing(Top(calls)) THEN Pop(active) ELSE active
  BY <1>1, <1>2 DEF c
<1>12. k = Top(calls).key
  BY DEF c
<1>13. EInv'
  <2> HIDE DEF k
  <2> QED BY <1>1, <1>6, <1>7, <1>8, <1>9, <1>10, <1>11, <1>12, FinishKeeps
<1> QED BY <1>2, <1>5, <1>12, <1>13

LEMMA HostReturnsKeeps ==
  ASSUME EInv, HostReturns
  PROVE  /\ EInv'
         /\ Top(calls).key \in Derived /\ Top(frames) \in ReadSeqs /\ HostMove.value \in Values
         /\ RG!Install(Top(calls).key, Top(frames), HostMove.value)
<1> DEFINE c == Top(calls)
           k == c.key
           f == Top(frames)
           v == HostMove.value
           m == [value |-> v, changedAt |-> CutoffChangedAt(c.existing, v),
                 verifiedAt |-> revision, deps |-> f]
<1>1. /\ Running("compute") /\ ret = Nothing /\ HostMove.op = "done" /\ calls # <<>>
      /\ c.op = "compute"
      /\ memos' = [d \in DOMAIN memos \cup {k} |-> IF d = k THEN m ELSE memos[d]]
      /\ ret' = Answer(k, v, CutoffChangedAt(c.existing, v))
      /\ calls' = Pop(calls) /\ frames' = Pop(frames) /\ active' = Pop(active)
      /\ UNCHANGED <<revision, inputChanged, world, cancelled>>
      /\ RG!IInv
  BY DEF HostReturns, Running, EInv
<1>2. /\ RunOK(c, f) /\ f \in ReadSeqs
      /\ \A j \in 1..Len(f) : RG!Settled(f[j])
      /\ HostMove = ClosedStep(k, RG!Seen(f, RG!Current, Len(f)))
      /\ \/ \E d \in Keys : HostMove = Reads(d)
         \/ \E w \in Values : HostMove = Returns(w)
         \/ HostMove = Fails
  BY <1>1, MoveFacts
<1>3. k \in Derived /\ ~RG!Fresh(k) /\ Computing(c)
  BY <1>1, TopFacts DEF EInv, ActivationOK, Computing
<1>4. v \in Values /\ HostMove = Returns(v)
  <2>1. \A d : HostMove # Reads(d)
    BY <1>1 DEF Reads
  <2>2. HostMove # Fails
    BY <1>1 DEF Fails
  <2>3. PICK w \in Values : HostMove = Returns(w)
    BY <1>2, <2>1, <2>2
  <2>4. v = w
    BY <2>3 DEF Returns
  <2> QED BY <2>3, <2>4
<1>5. CutoffChangedAt(c.existing, v) = RG!CutoffChangedAt(k, v)
  <2>1. c.existing = IF k \in DOMAIN memos THEN <<memos[k]>> ELSE <<>>
    BY <1>2 DEF RunOK
  <2>2. CASE k \in DOMAIN memos
    <3>1. c.existing # <<>> /\ c.existing[1] = memos[k]
      BY <2>1, <2>2
    <3> QED BY <2>2, <3>1 DEF CutoffChangedAt, RG!CutoffChangedAt
  <2>3. CASE k \notin DOMAIN memos
    BY <2>1, <2>3 DEF CutoffChangedAt, RG!CutoffChangedAt
  <2> QED BY <2>2, <2>3
<1> HIDE DEF c, f, v
<1>6. RG!RunReturns(k, f, RG!Current, v)
  <2>1. ASSUME NEW j \in 1..Len(f) PROVE RG!Current[f[j]] # NoValue
    <3>1. f[j] \in Keys /\ RG!Settled(f[j])
      BY <1>2, ReadFacts
    <3> QED BY <1>1, <3>1, SettledIsTrue
  <2>2. \A j \in 1..Len(f) : ClosedStep(k, RG!Seen(f, RG!Current, j - 1)) = RG!Reads(f[j])
    BY <1>2 DEF RunOK, RG!Reads, Reads
  <2>3. ClosedStep(k, RG!Seen(f, RG!Current, Len(f))) = RG!Returns(v)
    BY <1>2, <1>4 DEF RG!Returns, Returns
  <2> QED BY <2>1, <2>2, <2>3 DEF RG!RunReturns
<1>7. RG!Install(k, f, v)
  <2>1. memos' = RG!Remember(k, [value |-> v, changedAt |-> RG!CutoffChangedAt(k, v),
                                 verifiedAt |-> revision, deps |-> f])
    BY <1>1, <1>5 DEF RG!Remember
  <2> QED BY <1>1, <1>2, <1>3, <1>6, <2>1 DEF RG!Install
<1>8. RG!IInv'
  BY <1>1, <1>2, <1>3, <1>4, <1>7, AbstractConstants, AbstractTruth, RG!InstallPreserves
<1>9. /\ DOMAIN memos' = DOMAIN memos \cup {k}
      /\ \A d \in DOMAIN memos \ {k} : memos'[d] = memos[d]
      /\ memos'[k] = m
  BY <1>1
<1>10. /\ memos'[k].verifiedAt = revision /\ memos'[k].deps = f /\ memos'[k].value = v
       /\ memos'[k].changedAt = CutoffChangedAt(c.existing, v)
  BY <1>9
<1>12. ret' = Answer(k, memos'[k].value, memos'[k].changedAt)
  BY <1>1, <1>10
<1>13. active' = IF Computing(Top(calls)) THEN Pop(active) ELSE active
  BY <1>1, <1>3 DEF c
<1>14. k = Top(calls).key
  BY DEF c
<1>15. EInv'
  <2> HIDE DEF k, m
  <2> QED BY <1>1, <1>8, <1>9, <1>10, <1>12, <1>13, <1>14, FinishKeeps
<1>16. f = Top(frames) /\ v = HostMove.value
  BY DEF f, v
<1> QED BY <1>2, <1>3, <1>4, <1>7, <1>14, <1>15, <1>16

-----------------------------------------------------------------------------
(* The host between queries, and the flag.                                 *)
LEMMA BumpKeeps ==
  ASSUME EInv, NEW i \in Inputs, NEW v \in Values, BumpInput(i, v)
  PROVE  EInv' /\ RG!BumpInput(i, v)
<1>1. /\ calls = <<>> /\ ret' = Nothing /\ UNCHANGED <<memos, active, frames, cancelled, calls>>
      /\ RG!IInv /\ Fits(calls, frames, active)
  BY DEF BumpInput, Idle, EInv
<1>2. RG!BumpInput(i, v)
  BY DEF BumpInput, RG!BumpInput
<1>3. RG!IInv'
  BY <1>1, <1>2, AbstractConstants, AbstractTruth, RG!BumpPreserves
<1>4. Len(calls) = 0 /\ \A j : j \notin 1..Len(calls)
  BY <1>1
<1>5. Fits(calls, frames, active)'
  <2>1. Chain(calls, frames, Len(calls))'
    BY <1>1, <1>4 DEF Chain
  <2>2. Stacks(calls, frames, active)'
    BY <1>1, <2>1 DEF Fits, Stacks, Aligned, Computing
  <2> QED BY <1>1, <1>4, <2>2 DEF Fits
<1>6. ResultOK(calls, frames, ret)'
  <2>1. Nothing \in Results /\ Nothing.tag = "nothing"
    BY DEF Results, Nothing
  <2> QED BY <1>1, <2>1 DEF ResultOK, Truthful
<1>7. cancelled' \in BOOLEAN
  BY <1>1 DEF EInv
<1> QED BY <1>2, <1>3, <1>5, <1>6, <1>7 DEF EInv

LEMMA FlagKeeps ==
  ASSUME EInv, Quiet, cancelled' \in BOOLEAN, UNCHANGED <<active, frames, calls, ret>>
  PROVE  EInv'
<1>1. Fits(calls', frames', active') /\ ResultOK(calls', frames', ret')
  BY DEF EInv
<1> QED BY <1>1, QuietKeeps

LEMMA InitKeeps == Init => EInv
<1> SUFFICES ASSUME Init PROVE EInv
  OBVIOUS
<1>1. /\ DOMAIN memos = {} /\ calls = <<>> /\ frames = <<>> /\ active = <<>> /\ ret = Nothing
      /\ cancelled = FALSE
  BY DEF Init
<1>2. RG!IInv
  <2>1. RG!Init
    <3>1. memos = [k \in {} |-> NoValue]
      BY DEF Init
    <3> QED BY <3>1 DEF Init, RG!Init
  <2> QED BY <2>1, AbstractConstants, AbstractTruth, RG!InitInvariant
<1>3. Stacks(calls, frames, active)
  <2> DEFINE at == [i \in 1..0 |-> 0]
  <2>1. Len(calls) = 0 /\ Len(frames) = 0 /\ Len(active) = 0
    BY <1>1
  <2>2. calls \in Seq(Activation) /\ frames \in Seq(Seq(Keys)) /\ active \in Seq(Derived)
    BY <1>1, EmptySeq
  <2>3. at \in [1..0 -> 1..0] /\ \A j : j \notin 1..0
    OBVIOUS
  <2> HIDE DEF at
  <2>4. Aligned(calls, 0, active, 0)
    BY <2>3 DEF Aligned
  <2>5. Chain(calls, frames, 0)
    BY <2>3 DEF Chain
  <2> QED BY <2>1, <2>2, <2>4, <2>5, MakeStacks
<1>4. Fits(calls, frames, active)
  <2>1. \A j : j \notin 1..Len(calls)
    BY <1>1
  <2> QED BY <1>3, <2>1 DEF Fits
<1>5. ResultOK(calls, frames, ret)
  BY <1>1, NothingOK
<1> QED BY <1>1, <1>2, <1>4, <1>5 DEF EInv

(* Every step keeps the invariant, and is a step of the abstract engine or *)
(* leaves what that engine knows alone.                                    *)
LEMMA StepKeeps ==
  ASSUME EInv, [Next]_vars
  PROVE  EInv' /\ [RG!Next]_(RG!vars)
<1>1. CASE UNCHANGED vars
  BY <1>1, FlagKeeps DEF vars, Quiet, EInv, RG!vars
<1>2. ASSUME NEW k \in Derived, Query(k) PROVE EInv' /\ UNCHANGED RG!vars
  BY <1>2, QueryKeeps DEF Query, Fetch, RG!vars
<1>3. ASSUME NEW i \in Inputs, NEW v \in Values, BumpInput(i, v) PROVE EInv' /\ RG!Next
  BY <1>3, BumpKeeps DEF RG!Next
<1>4. CASE RequestCancellation
  BY <1>4, FlagKeeps DEF RequestCancellation, Quiet, RG!vars
<1>5. CASE ClearCancellation
  BY <1>5, FlagKeeps DEF ClearCancellation, Quiet, RG!vars
<1>6. CASE HostReadsQuery
  BY <1>6, HostReadsQueryKeeps DEF HostReadsQuery, Fetch, RG!vars
<1>7. CASE HostReadsInput
  BY <1>7, HostReadsInputKeeps DEF HostReadsInput, RG!vars
<1>8. CASE HostReceives
  BY <1>8, HostReceivesKeeps DEF HostReceives, RG!vars
<1>9. CASE HostFails
  BY <1>9, HostFailsKeeps DEF HostFails, AbandonCompute, RG!vars
<1>10. CASE HostPropagates
  BY <1>10, HostPropagatesKeeps DEF HostPropagates, AbandonCompute, RG!vars
<1>11. CASE HostReturns
  BY <1>11, HostReturnsKeeps DEF RG!Next
<1>12. CASE CheckInput
  BY <1>12, CheckInputKeeps DEF CheckInput, RG!vars
<1>13. CASE CheckQuery
  BY <1>13, CheckQueryKeeps DEF CheckQuery, RG!vars
<1>14. CASE CheckReturns
  BY <1>14, CheckReturnsKeeps DEF CheckReturns, RG!vars
<1>15. CASE CheckFails
  BY <1>15, CheckFailsKeeps DEF CheckFails, RG!vars
<1>16. CASE ConfirmMemo
  BY <1>16, ConfirmKeeps DEF RG!Next
<1>17. CASE EngineStep
  BY <1>6, <1>7, <1>8, <1>9, <1>10, <1>11, <1>12, <1>13, <1>14, <1>15, <1>16, <1>17 DEF EngineStep
<1> QED BY <1>1, <1>2, <1>3, <1>4, <1>5, <1>17 DEF Next

THEOREM Invariance == Spec => []EInv
<1>1. EInv /\ [Next]_vars => EInv'
  BY StepKeeps
<1> QED BY <1>1, InitKeeps, PTL DEF Spec

(* The engine implements RedGreen: through every nesting of fetches, runs  *)
(* and checks, cancelled or failed at any point, a step confirms one memo  *)
(* whose dependencies all stand, installs one whose run is over, or        *)
(* changes nothing that a reader of memos could see.                       *)
THEOREM EngineImplementsRedGreen == Spec => ImplementsRedGreen
<1>1. Init => Abstract!Init
  <2>1. Init => memos = [k \in {} |-> NoValue]
    BY DEF Init
  <2> QED BY <2>1 DEF Init, Abstract!Init
<1>2. ASSUME EInv, [Next]_vars PROVE [Abstract!Next]_(Abstract!vars)
  <2>1. [RG!Next]_(RG!vars)
    BY <1>2, StepKeeps
  <2>2. UNCHANGED RG!vars => UNCHANGED Abstract!vars
    BY DEF RG!vars, Abstract!vars
  <2>3. /\ RG!Current = Abstract!Current
        /\ \A k : RG!Fresh(k) = Abstract!Fresh(k) /\ RG!Settled(k) = Abstract!Settled(k)
        /\ \A k : RG!ChangedAt(k) = Abstract!ChangedAt(k)
        /\ \A m : RG!DepsOf(m) = Abstract!DepsOf(m)
        /\ \A k, m : RG!Remember(k, m) = Abstract!Remember(k, m)
        /\ \A k, v : RG!CutoffChangedAt(k, v) = Abstract!CutoffChangedAt(k, v)
    BY DEF RG!Current, Abstract!Current, RG!Keys, Abstract!Keys, RG!Fresh, Abstract!Fresh,
           RG!Settled, Abstract!Settled, RG!ChangedAt, Abstract!ChangedAt, RG!DepsOf, Abstract!DepsOf,
           RG!Remember, Abstract!Remember, RG!CutoffChangedAt, Abstract!CutoffChangedAt
  <2>4. ASSUME NEW i \in Inputs, NEW v \in Values, RG!BumpInput(i, v) PROVE Abstract!Next
    BY <2>4 DEF RG!BumpInput, Abstract!BumpInput, Abstract!Next
  <2>5. ASSUME NEW k \in Derived, RG!Confirm(k) PROVE Abstract!Next
    <3>1. Abstract!Confirm(k)
      BY <2>3, <2>5 DEF RG!Confirm, Abstract!Confirm
    <3> QED BY <3>1 DEF Abstract!Next
  <2>6. ASSUME NEW k \in Derived, NEW reads \in ReadSeqs, NEW v \in Values, RG!Install(k, reads, v)
        PROVE  Abstract!Next
    <3>1. Abstract!Install(k, reads, v)
      BY <2>3, <2>6, AbstractRuns DEF RG!Install, Abstract!Install
    <3> QED BY <3>1 DEF Abstract!Next
  <2> QED BY <2>1, <2>2, <2>4, <2>5, <2>6 DEF RG!Next
<1>3. EInv /\ [Next]_vars => [Abstract!Next]_(Abstract!vars)
  BY <1>2
<1> QED BY <1>1, <1>3, Invariance, PTL DEF Spec, ImplementsRedGreen, Abstract!Spec

(* No false cycle: over a host whose queries do not read each other in a   *)
(* circle fetch never panics.  The active keys are those of the runs, and  *)
(* each activation, a check of a stale memo too, is one that the run below *)
(* it needs over the inputs of now.                                        *)
THEOREM CyclesAreReal == Spec => []NoFalseCycle
<1>1. EInv => NoFalseCycle
  BY DEF EInv, ResultOK, Truthful, NoFalseCycle
<1> QED BY <1>1, Invariance, PTL

(* No stale answer from the engine itself: whatever fetch or a check hands *)
(* out, to the host or to an activation, is what a computation from        *)
(* scratch gives, a query fails only if it fails from scratch, and there   *)
(* is no cycle where there is none.                                        *)
THEOREM AnswersTrue == Spec => []AnswersAreTrue
<1>1. ASSUME EInv PROVE AnswersAreTrue
  <2>1. RG!FreshMemosAreTrue /\ Truthful(ret)
    BY <1>1 DEF EInv, RG!IInv, ResultOK
  <2>2. ret.tag = "ok" => ret.value = Truth[world][ret.key]
    BY <2>1 DEF Truthful, RG!FreshMemosAreTrue, RG!Fresh
  <2>3. NoFalseCycle
    BY <1>1 DEF EInv, ResultOK, Truthful, NoFalseCycle
  <2> QED BY <2>1, <2>2, <2>3 DEF Truthful, AnswersAreTrue
<1> QED BY <1>1, Invariance, PTL

(* No repeated work: no key has two activations at once, and none that is  *)
(* being checked or run is already verified.                               *)
THEOREM NoRepeatedWork == Spec => []WorkIsNotRepeated
<1>1. ASSUME EInv PROVE WorkIsNotRepeated
  <2>1. calls \in Seq(Activation) /\ Chain(calls, frames, Len(calls))
    BY <1>1 DEF EInv, Fits, Stacks
  <2>2. DOMAIN calls = 1..Len(calls) /\ Len(calls) \in Nat
    BY <2>1, SeqFacts
  <2>3. \A i \in 1..Len(calls) : ~Verified(calls[i].key)
    BY <1>1 DEF EInv, Fits, ActivationOK, RG!Fresh, Verified, Memoized
  <2>4. ASSUME NEW i \in 1..Len(calls), NEW j \in 1..Len(calls), i < j
        PROVE  calls[i].key # calls[j].key
    <3>1. Rank[calls[j].key] < Rank[calls[i].key]
      BY <2>1, <2>4 DEF Chain
    <3>2. Rank[calls[j].key] \in Int
      BY <1>1, <2>1, SeqFacts, Fields, MemoFacts, Ranked DEF EInv
    <3> QED BY <3>1, <3>2
  <2>5. \A i, j \in 1..Len(calls) : i # j => i < j \/ j < i
    OBVIOUS
  <2> QED BY <2>2, <2>3, <2>4, <2>5 DEF WorkIsNotRepeated
<1> QED BY <1>1, Invariance, PTL

(* The stacks of frames and of active keys match the activations, on every *)
(* path out of one.                                                        *)
THEOREM StacksAlign == Spec => []StacksAligned
<1>1. ASSUME EInv PROVE StacksAligned
  <2>1. /\ Fits(calls, frames, active)
        /\ calls \in Seq(Activation) /\ active \in Seq(Derived) /\ Len(frames) = Len(calls)
        /\ Aligned(calls, Len(calls), active, Len(active))
    BY <1>1 DEF EInv, Fits, Stacks
  <2>2. PICK n \in Nat : n = Len(calls) /\ DOMAIN calls = 1..n
    BY <2>1, SeqFacts
  <2>3. PICK m \in Nat : m = Len(active) /\ DOMAIN active = 1..m
    BY <2>1, SeqFacts
  <2>4. PICK at \in [1..m -> 1..n] :
          /\ \A i, j \in 1..m : i < j => at[i] < at[j]
          /\ \A j \in 1..m : Computing(calls[at[j]]) /\ active[j] = calls[at[j]].key
          /\ \A i \in 1..n : Computing(calls[i]) => \E j \in 1..m : at[j] = i
    <3>1. Aligned(calls, n, active, m)
      BY <2>1, <2>2, <2>3
    <3> QED BY ONLY <3>1 DEF Aligned
  <2>5. at \in [DOMAIN active -> DOMAIN calls] /\ AlignedBy(at)
    BY <2>2, <2>3, <2>4 DEF AlignedBy
  <2>6. ASSUME NEW i \in 1..n
        PROVE  IF Computing(calls[i]) THEN Len(frames[i]) - Len(calls[i].seen) \in 0..1
                                      ELSE frames[i] = <<>>
    <3>1. calls[i] \in Activation /\ ActivationOK(calls[i], frames[i])
      BY <2>1, <2>2, SeqFacts DEF Fits
    <3>2. CASE Computing(calls[i])
      <4>1. RunOK(calls[i], frames[i]) /\ Len(calls[i].seen) \in Nat
        BY <3>1, <3>2, Fields DEF ActivationOK, Computing
      <4>2. Len(frames[i]) \in {Len(calls[i].seen), Len(calls[i].seen) + 1}
        BY <4>1 DEF RunOK
      <4> QED BY <3>2, <4>1, <4>2
    <3>3. CASE ~Computing(calls[i])
      BY <3>1, <3>3, Fields DEF ActivationOK, CheckOK, Computing
    <3> QED BY <3>2, <3>3
  <2> QED BY <2>1, <2>2, <2>5, <2>6 DEF StacksAligned
<1> QED BY <1>1, Invariance, PTL

(* Every variable keeps to its type: stamps are revisions, activations,    *)
(* frames and results are well formed.                                     *)
THEOREM TypeCorrect == Spec => []TypeOK
<1>1. ASSUME EInv PROVE TypeOK
  <2>1. /\ revision \in Revisions /\ world \in Worlds /\ DOMAIN memos \subseteq Derived
        /\ \A k \in DOMAIN memos : memos[k] \in Memo
    BY <1>1, MemoFacts DEF EInv
  <2>2. inputChanged \in [Inputs -> Revisions] /\ memos = [k \in DOMAIN memos |-> memos[k]]
    BY <1>1, AbstractNames DEF EInv, RG!IInv, RG!TypeOK
  <2>3. memos \in [DOMAIN memos -> Memo]
    BY <2>1, <2>2
  <2>4. /\ cancelled \in BOOLEAN /\ ret \in Results
        /\ calls \in Seq(Activation) /\ frames \in Seq(Seq(Keys)) /\ active \in Seq(Derived)
    BY <1>1 DEF EInv, Fits, Stacks, ResultOK, Truthful
  <2> QED BY <2>1, <2>2, <2>3, <2>4 DEF TypeOK
<1> QED BY <1>1, Invariance, PTL
-----------------------------------------------------------------------------
(* What a key of a table of memos rests on: what is in every set that has  *)
(* it and is closed under reading.                                         *)
ClosedIn(M, T) == \A k \in T \cap DOMAIN M : Range(M[k].deps) \subseteq T

Reach(M, k) == {y \in Keys : \A T \in SUBSET Keys : k \in T /\ ClosedIn(M, T) => y \in T}

(* An input that key d rests on changed after revision v.                  *)
News(M, changed, d, v) == \E i \in Inputs : i \in Reach(M, d) /\ changed[i] > v

IsTable(M) == \A k \in DOMAIN M : Range(M[k].deps) \subseteq Keys

LEMMA ReachHas ==
  ASSUME NEW M, NEW k \in Keys
  PROVE  k \in Reach(M, k)
BY DEF Reach

LEMMA ReachLeast ==
  ASSUME NEW M, NEW k, NEW T, T \subseteq Keys, k \in T, ClosedIn(M, T)
  PROVE  Reach(M, k) \subseteq T
BY DEF Reach

LEMMA ReachCloses ==
  ASSUME NEW M, NEW k, IsTable(M)
  PROVE  Reach(M, k) \subseteq Keys /\ ClosedIn(M, Reach(M, k))
<1>1. Reach(M, k) \subseteq Keys
  BY DEF Reach
<1>2. ASSUME NEW y \in Reach(M, k) \cap DOMAIN M, NEW d \in Range(M[y].deps)
      PROVE  d \in Reach(M, k)
  <2>1. d \in Keys
    BY <1>2 DEF IsTable
  <2>2. ASSUME NEW T \in SUBSET Keys, k \in T, ClosedIn(M, T) PROVE d \in T
    <3>1. y \in T
      BY <1>2, <2>2 DEF Reach
    <3> QED BY <1>2, <2>2, <3>1 DEF ClosedIn
  <2> QED BY <2>1, <2>2 DEF Reach
<1> QED BY <1>1, <1>2 DEF ClosedIn

(* What is read rests on no more than its reader.                          *)
LEMMA ReachRead ==
  ASSUME NEW M, NEW k \in DOMAIN M, k \in Keys, IsTable(M), NEW d \in Range(M[k].deps)
  PROVE  Reach(M, d) \subseteq Reach(M, k)
<1>1. k \in Reach(M, k) /\ ClosedIn(M, Reach(M, k)) /\ Reach(M, k) \subseteq Keys
  BY ReachHas, ReachCloses
<1>2. d \in Reach(M, k)
  BY <1>1 DEF ClosedIn
<1> QED BY <1>1, <1>2, ReachLeast

(* A memo that is replaced is reached from where it was; and what does not *)
(* reach it reaches all it did.                                            *)
LEMMA ReachReplaced ==
  ASSUME NEW M, NEW N, IsTable(M), NEW x, DOMAIN M \subseteq DOMAIN N,
         \A y \in DOMAIN N : y # x => y \in DOMAIN M /\ N[y].deps = M[y].deps,
         NEW d \in Keys
  PROVE  /\ x \in Reach(M, d) => x \in Reach(N, d)
         /\ x \notin Reach(M, d) => Reach(M, d) \subseteq Reach(N, d)
<1>1. ASSUME NEW T \in SUBSET Keys, ClosedIn(N, T), x \notin T
      PROVE  ClosedIn(M, T)
  BY <1>1 DEF ClosedIn
<1>2. ASSUME x \in Reach(M, d) PROVE x \in Reach(N, d)
  <2>1. x \in Keys
    BY <1>2 DEF Reach
  <2>2. ASSUME NEW T \in SUBSET Keys, d \in T, ClosedIn(N, T), x \notin T PROVE FALSE
    <3>1. ClosedIn(M, T)
      BY <1>1, <2>2
    <3> QED BY <1>2, <2>2, <3>1 DEF Reach
  <2> QED BY <2>1, <2>2 DEF Reach
<1>3. ASSUME x \notin Reach(M, d) PROVE Reach(M, d) \subseteq Reach(N, d)
  <2> SUFFICES ASSUME NEW T \in SUBSET Keys, d \in T, ClosedIn(N, T)
               PROVE  Reach(M, d) \subseteq T
    BY DEF Reach
  <2> DEFINE U == T \cap Reach(M, d)
  <2>1. d \in Reach(M, d) /\ ClosedIn(M, Reach(M, d))
    BY ReachHas, ReachCloses
  <2>2. ClosedIn(M, U)
    <3> SUFFICES ASSUME NEW y \in U \cap DOMAIN M PROVE Range(M[y].deps) \subseteq U
      BY DEF ClosedIn
    <3>1. y \in Reach(M, d) /\ y # x /\ y \in DOMAIN N /\ N[y].deps = M[y].deps
      BY <1>3
    <3>2. Range(M[y].deps) \subseteq T
      BY <3>1 DEF ClosedIn
    <3>3. Range(M[y].deps) \subseteq Reach(M, d)
      BY <2>1, <3>1 DEF ClosedIn
    <3> QED BY <3>2, <3>3
  <2>3. U \subseteq Keys /\ d \in U
    BY <2>1
  <2>4. Reach(M, d) \subseteq U
    BY <2>2, <2>3, ReachLeast
  <2> QED BY <2>4
<1> QED BY <1>2, <1>3

(* The table of the engine.                                                *)
LEMMA MemoTable ==
  ASSUME RG!IInv
  PROVE  /\ IsTable(memos)
         /\ \A k \in DOMAIN memos : /\ k \in Derived /\ k \in Keys /\ k \notin Inputs
                                    /\ RG!DepsOf(memos[k]) = Range(memos[k].deps)
                                    /\ memos[k].verifiedAt \in Int /\ memos[k].changedAt \in Int
                                    /\ memos[k].verifiedAt <= revision /\ memos[k].changedAt <= revision
<1> SUFFICES ASSUME NEW k \in DOMAIN memos
             PROVE  /\ Range(memos[k].deps) \subseteq Keys
                    /\ k \in Derived /\ k \in Keys /\ k \notin Inputs
                    /\ RG!DepsOf(memos[k]) = Range(memos[k].deps)
                    /\ memos[k].verifiedAt \in Int /\ memos[k].changedAt \in Int
                    /\ memos[k].verifiedAt <= revision /\ memos[k].changedAt <= revision
  BY DEF IsTable
<1>1. k \in Derived /\ k \notin Inputs /\ memos[k] \in Memo /\ revision \in Int
  BY MemoFacts DEF Revisions
<1>2. memos[k].verifiedAt \in Int /\ memos[k].changedAt \in Int /\ memos[k].deps \in Seq(Keys)
  BY <1>1 DEF Memo, Revisions
<1>3. Range(memos[k].deps) \subseteq Keys
  BY <1>2, SeqFacts DEF Range
<1>4. memos[k].changedAt <= memos[k].verifiedAt /\ memos[k].verifiedAt <= revision
  BY DEF RG!IInv, RG!StampsOrdered
<1> QED BY <1>1, <1>2, <1>3, <1>4 DEF RG!DepsOf, Range, Keys

(* What a memo rests on was verified no earlier than it was.               *)
LEMMA ReachVerified ==
  ASSUME RG!IInv, NEW k \in DOMAIN memos, NEW x \in Derived, x \in Reach(memos, k)
  PROVE  x \in DOMAIN memos /\ memos[k].verifiedAt <= memos[x].verifiedAt
<1> DEFINE T == {y \in Keys : y \in Derived =>
                               y \in DOMAIN memos /\ memos[k].verifiedAt <= memos[y].verifiedAt}
<1>1. \A y \in DOMAIN memos : /\ y \in Derived /\ memos[y].verifiedAt \in Int
                              /\ RG!DepsOf(memos[y]) = Range(memos[y].deps)
                              /\ Range(memos[y].deps) \subseteq Keys
  BY MemoTable DEF IsTable
<1>2. k \in T
  BY <1>1 DEF Keys
<1>3. ClosedIn(memos, T)
  <2> SUFFICES ASSUME NEW y \in T \cap DOMAIN memos, NEW d \in Range(memos[y].deps) PROVE d \in T
    BY DEF ClosedIn
  <2>1. y \in Derived /\ memos[k].verifiedAt <= memos[y].verifiedAt /\ d \in Keys
    BY <1>1
  <2>2. d \in Derived => d \in DOMAIN memos /\ memos[d].verifiedAt >= memos[y].verifiedAt
    BY <1>1 DEF RG!IInv, RG!DepsVerifiedWithReader
  <2> QED BY <1>1, <2>1, <2>2
<1>4. Reach(memos, k) \subseteq T
  BY <1>2, <1>3, ReachLeast
<1> QED BY <1>4

LEMMA ReachSame ==
  ASSUME NEW M, NEW N, DOMAIN N = DOMAIN M, \A y \in DOMAIN M : N[y].deps = M[y].deps, NEW k
  PROVE  Reach(N, k) = Reach(M, k)
<1>1. \A T : ClosedIn(N, T) <=> ClosedIn(M, T)
  BY DEF ClosedIn
<1> QED BY <1>1 DEF Reach

(* What is settled does not rest on a memo that is stale.                  *)
LEMMA SettledApart ==
  ASSUME RG!IInv, NEW k \in Derived, ~RG!Fresh(k), NEW d \in Keys, RG!Settled(d)
  PROVE  k \notin Reach(memos, d)
<1>1. CASE d \in Inputs
  <2>1. d \notin DOMAIN memos /\ k # d
    BY <1>1, MemoTable, EngineAssumption
  <2>2. ClosedIn(memos, {d})
    BY <2>1 DEF ClosedIn
  <2> QED BY <2>1, <2>2, ReachLeast
<1>2. CASE d \notin Inputs
  <2>1. d \in DOMAIN memos /\ memos[d].verifiedAt = revision
    BY <1>2 DEF RG!Settled, RG!Fresh
  <2> SUFFICES ASSUME k \in Reach(memos, d) PROVE FALSE
    OBVIOUS
  <2>2. k \in DOMAIN memos /\ memos[d].verifiedAt <= memos[k].verifiedAt
    BY <2>1, ReachVerified
  <2>3. memos[k].verifiedAt = revision
    BY <2>1, <2>2, MemoTable
  <2> QED BY <2>2, <2>3 DEF RG!Fresh
<1> QED BY <1>1, <1>2

-----------------------------------------------------------------------------
(* A memo that changed after its reader was verified rests on an input     *)
(* that changed after that.                                                *)
Told(M, changed, k, d) ==
  M[d].changedAt > M[k].verifiedAt => News(M, changed, d, M[k].verifiedAt)

Reasons ==
  \A k \in DOMAIN memos : \A d \in Range(memos[k].deps) :
    d \in Derived => Told(memos, inputChanged, k, d)

(* A memo is out of date at its read number j: what it read before stands, *)
(* and there is news of what it read then.                                 *)
OutAt(k, j) ==
  /\ \A n \in 1..(j - 1) : /\ RG!Settled(memos[k].deps[n])
                          /\ RG!ChangedAt(memos[k].deps[n]) <= memos[k].verifiedAt
  /\ RG!Settled(memos[k].deps[j])
  /\ News(memos, inputChanged, memos[k].deps[j], memos[k].verifiedAt)

OutOfDate(k) == \E j \in 1..Len(memos[k].deps) : OutAt(k, j)

(* A query that has a memo is run because that is out of date.             *)
RunsForAReason == \A k \in Range(active) : k \in DOMAIN memos => OutOfDate(k)

WInv == Reasons /\ RunsForAReason

(* What is settled keeps its stamps and its news until the next edit.      *)
SettledStays ==
  \A d \in Keys : RG!Settled(d) =>
    /\ RG!Settled(d)' /\ RG!ChangedAt(d)' = RG!ChangedAt(d)
    /\ \A v : News(memos, inputChanged, d, v) => News(memos', inputChanged', d, v)

LEMMA StaysOut ==
  ASSUME RG!IInv, SettledStays, NEW k \in DOMAIN memos, memos'[k] = memos[k], OutOfDate(k)
  PROVE  OutOfDate(k)'
<1>1. PICK j \in 1..Len(memos[k].deps) : OutAt(k, j)
  BY DEF OutOfDate
<1>2. Len(memos[k].deps) \in Nat /\ \A n \in 1..Len(memos[k].deps) : memos[k].deps[n] \in Keys
  BY MemoFacts, ReadFacts
<1>3. \A n \in 1..(j - 1) : n \in 1..Len(memos[k].deps)
  BY <1>2
<1>4. ASSUME NEW n \in 1..(j - 1)
      PROVE  RG!Settled(memos[k].deps[n])' /\ RG!ChangedAt(memos[k].deps[n])' <= memos'[k].verifiedAt
  <2>1. PICK d \in Keys : d = memos[k].deps[n]
    BY <1>2, <1>3
  <2>2. RG!Settled(d) /\ RG!ChangedAt(d) <= memos[k].verifiedAt
    BY <1>1, <2>1 DEF OutAt
  <2>3. RG!Settled(d)' /\ RG!ChangedAt(d)' <= memos'[k].verifiedAt
    BY <2>2 DEF SettledStays
  <2>4. memos'[k].deps[n] = d
    BY <2>1
  <2> QED BY <2>3, <2>4 DEF RG!Settled, RG!Fresh, RG!ChangedAt
<1>5. PICK d \in Keys : d = memos[k].deps[j]
  BY <1>2
<1>6. RG!Settled(d) /\ News(memos, inputChanged, d, memos[k].verifiedAt)
  BY <1>1, <1>5 DEF OutAt
<1>7. RG!Settled(d)' /\ News(memos', inputChanged', d, memos'[k].verifiedAt) /\ memos'[k].deps[j] = d
  BY <1>5, <1>6 DEF SettledStays
<1>8. RG!Settled(memos[k].deps[j])'
  BY <1>7 DEF RG!Settled, RG!Fresh
<1>9. News(memos, inputChanged, memos[k].deps[j], memos[k].verifiedAt)'
  BY <1>7
<1>10. OutAt(k, j)'
  BY <1>4, <1>8, <1>9 DEF OutAt
<1> QED BY <1>10 DEF OutOfDate
(* An edit makes news, and takes none back.                                *)
LEMMA BumpTells ==
  ASSUME RG!IInv, Reasons, NEW i \in Inputs, NEW v \in Values, RG!BumpInput(i, v)
  PROVE  Reasons'
<1>1. memos' = memos /\ revision \in Int /\ inputChanged' = [inputChanged EXCEPT ![i] = revision + 1]
  BY MemoFacts DEF RG!BumpInput, Revisions
<1>2. \A e \in Inputs : inputChanged[e] \in Int /\ inputChanged[e] <= revision
  BY AbstractNames DEF RG!IInv, RG!TypeOK, RG!StampsOrdered, Revisions
<1>3. \A e \in Inputs : inputChanged'[e] \in Int /\ inputChanged'[e] >= inputChanged[e]
  BY <1>1, <1>2 DEF RG!IInv, RG!TypeOK
<1>4. ASSUME NEW d, NEW w \in Int, News(memos, inputChanged, d, w) PROVE News(memos, inputChanged', d, w)
  BY <1>2, <1>3, <1>4 DEF News
<1>5. \A k \in DOMAIN memos : memos[k].verifiedAt \in Int
  BY MemoTable
<1>6. \A k \in DOMAIN memos : \A d : Told(memos, inputChanged, k, d) => Told(memos, inputChanged', k, d)
  BY <1>4, <1>5 DEF Told
<1> QED BY <1>1, <1>6 DEF Reasons

(* A memo that is confirmed has nothing to tell, and none is told less.    *)
LEMMA ConfirmTells ==
  ASSUME RG!IInv, Reasons, NEW k \in Derived, RG!Confirm(k)
  PROVE  /\ Reasons' /\ SettledStays
         /\ \A r \in DOMAIN memos : r # k => memos'[r] = memos[r]
         /\ DOMAIN memos' = DOMAIN memos
<1>1. /\ k \in DOMAIN memos /\ memos[k] \in Memo
      /\ memos' = [memos EXCEPT ![k].verifiedAt = revision]
      /\ revision' = revision /\ inputChanged' = inputChanged
  BY MemoFacts DEF RG!Confirm
<1>2. /\ DOMAIN memos' = DOMAIN memos
      /\ \A r \in DOMAIN memos : /\ r # k => memos'[r] = memos[r]
                                 /\ memos'[r].deps = memos[r].deps
                                 /\ memos'[r].changedAt = memos[r].changedAt
      /\ memos'[k].verifiedAt = revision
  BY <1>1 DEF Memo
<1>3. \A d : Reach(memos', d) = Reach(memos, d)
  BY <1>2, ReachSame
<1>4. \A d, v : News(memos', inputChanged', d, v) <=> News(memos, inputChanged, d, v)
  BY <1>1, <1>3 DEF News
<1>5. SettledStays
  <2> SUFFICES ASSUME NEW d \in Keys, RG!Settled(d)
               PROVE  RG!Settled(d)' /\ RG!ChangedAt(d)' = RG!ChangedAt(d)
    BY <1>4 DEF SettledStays
  <2>1. CASE d \in Inputs
    BY <1>1, <2>1 DEF RG!Settled, RG!ChangedAt
  <2>2. CASE d \notin Inputs
    BY <1>1, <1>2, <2>2 DEF RG!Settled, RG!Fresh, RG!ChangedAt
  <2> QED BY <2>1, <2>2
<1>6. Reasons'
  <2> SUFFICES ASSUME NEW r \in DOMAIN memos, NEW d \in Range(memos[r].deps), d \in Derived
               PROVE  Told(memos', inputChanged', r, d)
    BY <1>2 DEF Reasons
  <2>1. d \in DOMAIN memos
    BY MemoTable DEF RG!IInv, RG!DepsVerifiedWithReader
  <2>2. CASE r = k
    <3>1. memos'[d].changedAt <= revision /\ memos'[d].changedAt \in Int /\ revision \in Int
      BY <1>2, <2>1, MemoTable, MemoFacts DEF Revisions
    <3> QED BY <1>2, <2>2, <3>1 DEF Told
  <2>3. CASE r # k
    <3>1. Told(memos, inputChanged, r, d)
      BY DEF Reasons
    <3> QED BY <1>2, <1>4, <2>1, <2>3, <3>1 DEF Told
  <2> QED BY <2>2, <2>3
<1> QED BY <1>2, <1>5, <1>6

(* The least of a set of positions.                                        *)
LEMMA LeastOf ==
  ASSUME NEW S, S \subseteq Nat, S # {}
  PROVE  \E x \in S : \A y \in S : ~(y < x)
<1>1. PICK x \in S : \A y \in S : ~(<<y, x>> \in OpToRel(<, Nat))
  BY NatLessThanWellFounded, WFMin
<1> SUFFICES ASSUME NEW y \in S PROVE ~(y < x)
  OBVIOUS
<1>2. <<y, x>> \notin OpToRel(<, Nat)
  BY <1>1
<1>3. <<y, x>> \in Nat \X Nat /\ <<y, x>>[1] = y /\ <<y, x>>[2] = x
  OBVIOUS
<1> QED BY <1>2, <1>3 DEF OpToRel

(* Query k, run over values vals, reads f, to begin with.                  *)
Follows(k, f, vals) == \A n \in 1..Len(f) : ClosedStep(k, RG!Seen(f, vals, n - 1)) = Reads(f[n])

(* A run over values that are as they were reads what it read before.      *)
LEMMA SameReads ==
  ASSUME NEW k, NEW f, NEW g, NEW u, NEW w, NEW j \in Nat, Len(f) \in Nat, Len(g) \in Nat, j <= Len(g),
         Follows(k, f, u), Follows(k, g, w), \A n \in 1..(j - 1) : u[g[n]] = w[g[n]]
  PROVE  \A n \in 1..j : n <= Len(f) => f[n] = g[n]
<1> DEFINE Bad == {n \in 1..j : n <= Len(f) /\ f[n] # g[n]}
<1> SUFFICES ASSUME Bad # {} PROVE FALSE
  OBVIOUS
<1>0. Bad \subseteq Nat
  OBVIOUS
<1>1. PICK b \in Bad : \A n \in Bad : ~(n < b)
  <2> HIDE DEF Bad
  <2> QED BY <1>0, LeastOf
<1>2. b \in 1..j /\ b <= Len(f) /\ f[b] # g[b]
  BY <1>1
<1>3. \A n \in 1..(b - 1) : f[n] = g[n]
  <2> SUFFICES ASSUME NEW n \in 1..(b - 1) PROVE f[n] = g[n]
    OBVIOUS
  <2>1. n \in 1..j /\ n <= Len(f) /\ n < b
    BY <1>2
  <2> QED BY <1>1, <2>1
<1> HIDE DEF Bad
<1>4. \A n \in 1..(b - 1) : u[f[n]] = w[g[n]]
  <2> SUFFICES ASSUME NEW n \in 1..(b - 1) PROVE u[f[n]] = w[g[n]]
    OBVIOUS
  <2>1. n \in 1..(j - 1) /\ f[n] = g[n]
    BY <1>2, <1>3
  <2> QED BY <2>1
<1>5. RG!Seen(f, u, b - 1) = RG!Seen(g, w, b - 1)
  BY <1>4 DEF RG!Seen
<1>6. b \in 1..Len(f) /\ b \in 1..Len(g)
  BY <1>2
<1>7. Reads(f[b]) = Reads(g[b])
  BY <1>5, <1>6 DEF Follows
<1> QED BY <1>2, <1>7 DEF Reads

(* A query that runs again reads the dependency that had news.             *)
LEMMA ReRead ==
  ASSUME RG!IInv, NEW k \in DOMAIN memos, NEW f \in ReadSeqs, NEW v,
         RG!RunReturns(k, f, RG!Current, v),
         NEW j \in 1..Len(memos[k].deps), OutAt(k, j)
  PROVE  \E n \in 1..Len(f) : f[n] = memos[k].deps[j]
<1>1. PICK g \in ReadSeqs : g = memos[k].deps
  BY MemoFacts
<1>2. Len(f) \in Nat /\ Len(g) \in Nat /\ j \in Nat /\ j <= Len(g) /\ DOMAIN g = 1..Len(g)
  BY <1>1, ReadFacts, SeqFacts
<1>3. PICK w : /\ RG!RunReturns(k, g, w, memos[k].value)
               /\ \A d \in RG!DepsOf(memos[k]) :
                    RG!ChangedAt(d) <= memos[k].verifiedAt => RG!Current[d] = w[d]
  BY <1>1 DEF RG!IInv, RG!MemosReplay
<1>4. ASSUME NEW n \in 1..(j - 1) PROVE RG!Current[g[n]] = w[g[n]]
  <2>1. RG!ChangedAt(g[n]) <= memos[k].verifiedAt
    BY <1>1 DEF OutAt
  <2>2. n \in DOMAIN g
    BY <1>2
  <2>3. g[n] \in RG!DepsOf(memos[k])
    BY <1>1, <2>2 DEF RG!DepsOf
  <2> QED BY <1>3, <2>1, <2>3
<1>5. /\ \A n \in 1..Len(f) : ClosedStep(k, RG!Seen(f, RG!Current, n - 1)) = Reads(f[n])
      /\ ClosedStep(k, RG!Seen(f, RG!Current, Len(f))) = Returns(v)
      /\ \A n \in 1..Len(g) : ClosedStep(k, RG!Seen(g, w, n - 1)) = Reads(g[n])
  BY <1>3 DEF RG!RunReturns, RG!Reads, Reads, RG!Returns, Returns
<1>6. \A n \in 1..j : n <= Len(f) => f[n] = g[n]
  <2>1. PICK u : u = RG!Current
    OBVIOUS
  <2>2. Follows(k, f, u)
    BY <1>5, <2>1 DEF Follows
  <2>3. \A n \in 1..(j - 1) : u[g[n]] = w[g[n]]
    BY <1>4, <2>1
  <2>4. Follows(k, g, w)
    BY <1>5 DEF Follows
  <2> QED BY ONLY <1>2, <2>2, <2>3, <2>4, SameReads
<1>7. CASE j <= Len(f)
  <2>1. j \in 1..Len(f) /\ f[j] = g[j]
    BY <1>2, <1>6, <1>7
  <2> QED BY <1>1, <2>1
<1>8. CASE Len(f) < j
  <2>1. PICK l \in Nat : l = Len(f)
    BY <1>2
  <2>2. \A n \in 1..l : RG!Current[f[n]] = w[g[n]]
    <3> SUFFICES ASSUME NEW n \in 1..l PROVE RG!Current[f[n]] = w[g[n]]
      OBVIOUS
    <3>1. n \in 1..(j - 1) /\ f[n] = g[n]
      BY <1>2, <1>6, <1>8, <2>1
    <3> QED BY <1>4, <3>1
  <2>3. RG!Seen(f, RG!Current, l) = RG!Seen(g, w, l)
    BY <2>2 DEF RG!Seen
  <2>4. l + 1 \in 1..Len(g) /\ (l + 1) - 1 = l
    BY <1>2, <1>8, <2>1
  <2>5. ClosedStep(k, RG!Seen(g, w, l)) = Reads(g[l + 1])
    BY <1>5, <2>4
  <2>6. Returns(v) = Reads(g[l + 1])
    BY <1>5, <2>1, <2>3, <2>5
  <2> QED BY <2>6 DEF Reads, Returns
<1> QED BY <1>2, <1>7, <1>8

(* A memo that is installed over one that was out of date has its news.    *)
LEMMA InstallTells ==
  ASSUME RG!IInv, Reasons, NEW k \in Derived, NEW f \in ReadSeqs, NEW v, RG!Install(k, f, v),
         k \in DOMAIN memos => OutOfDate(k)
  PROVE  /\ Reasons' /\ SettledStays
         /\ \A r \in DOMAIN memos : r # k => memos'[r] = memos[r]
         /\ DOMAIN memos' = DOMAIN memos \cup {k}
<1>1. /\ ~RG!Fresh(k) /\ RG!RunReturns(k, f, RG!Current, v)
      /\ \A n \in 1..Len(f) : RG!Settled(f[n])
      /\ revision' = revision /\ inputChanged' = inputChanged
  BY DEF RG!Install
<1>2. /\ DOMAIN memos' = DOMAIN memos \cup {k}
      /\ \A r \in DOMAIN memos : r # k => memos'[r] = memos[r]
      /\ memos'[k].deps = f /\ memos'[k].verifiedAt = revision
  BY DEF RG!Install, RG!Remember
<1>3. f \in Seq(Keys) /\ Range(f) = {f[n] : n \in 1..Len(f)} /\ Range(f) \subseteq Keys
  BY ReadFacts, SeqFacts DEF Range
<1>4. /\ IsTable(memos)
      /\ \A r \in DOMAIN memos : /\ r \in Derived /\ r \in Keys /\ r \notin Inputs
                                 /\ RG!DepsOf(memos[r]) = Range(memos[r].deps)
                                 /\ memos[r].verifiedAt \in Int /\ memos[r].changedAt \in Int
                                 /\ memos[r].verifiedAt <= revision /\ memos[r].changedAt <= revision
  BY MemoTable
<1>5. IsTable(memos')
  BY <1>2, <1>3, <1>4 DEF IsTable
<1>6. /\ k \in Keys /\ k \notin Inputs
      /\ \A e \in Inputs : inputChanged[e] \in Int
      /\ revision \in Int
  BY EngineAssumption, MemoFacts, AbstractNames DEF Keys, Revisions, RG!IInv, RG!TypeOK
<1>7. ASSUME NEW d \in Keys
      PROVE  /\ k \in Reach(memos, d) => k \in Reach(memos', d)
             /\ k \notin Reach(memos, d) => Reach(memos, d) \subseteq Reach(memos', d)
  BY <1>2, <1>4, ReachReplaced
<1>8. SettledStays
  <2> SUFFICES ASSUME NEW d \in Keys, RG!Settled(d)
               PROVE  /\ RG!Settled(d)' /\ RG!ChangedAt(d)' = RG!ChangedAt(d)
                      /\ \A w : News(memos, inputChanged, d, w) => News(memos', inputChanged', d, w)
    BY DEF SettledStays
  <2>1. k \notin Reach(memos, d)
    BY <1>1, SettledApart
  <2>2. \A w : News(memos, inputChanged, d, w) => News(memos', inputChanged', d, w)
    BY <1>1, <1>7, <2>1 DEF News
  <2>3. CASE d \in Inputs
    BY <1>1, <2>2, <2>3 DEF RG!Settled, RG!ChangedAt
  <2>4. CASE d \notin Inputs
    <3>1. d \in DOMAIN memos /\ memos[d].verifiedAt = revision /\ d # k
      BY <1>1, <2>4 DEF RG!Settled, RG!Fresh
    <3>2. memos'[d] = memos[d] /\ d \in DOMAIN memos'
      BY <1>2, <3>1
    <3> QED BY <1>1, <2>2, <2>4, <3>1, <3>2 DEF RG!Settled, RG!Fresh, RG!ChangedAt
  <2> QED BY <2>3, <2>4
<1>9. ASSUME k \in DOMAIN memos
      PROVE  News(memos', inputChanged', k, memos[k].verifiedAt)
  <2>1. PICK j \in 1..Len(memos[k].deps) : OutAt(k, j)
    BY <1>9 DEF OutOfDate
  <2>2. PICK n \in 1..Len(f) : f[n] = memos[k].deps[j]
    BY <1>1, <1>9, <2>1, ReRead
  <2>3. PICK e \in Keys : e = f[n]
    BY <1>3
  <2>4. RG!Settled(e) /\ News(memos, inputChanged, e, memos[k].verifiedAt)
    BY <2>1, <2>2, <2>3 DEF OutAt
  <2>5. News(memos', inputChanged', e, memos[k].verifiedAt)
    BY <1>8, <2>4 DEF SettledStays
  <2>6. e \in Range(memos'[k].deps) /\ k \in DOMAIN memos'
    BY <1>2, <1>3, <2>3
  <2>7. Reach(memos', e) \subseteq Reach(memos', k)
    BY <1>5, <1>6, <2>6, ReachRead
  <2> QED BY <2>5, <2>7 DEF News
<1>10. ASSUME NEW d, NEW a \in Int, NEW b \in Int, a <= b, News(memos', inputChanged', d, b)
       PROVE  News(memos', inputChanged', d, a)
  <2>1. PICK e \in Inputs : e \in Reach(memos', d) /\ inputChanged'[e] > b
    BY <1>10 DEF News
  <2>2. inputChanged'[e] > a
    BY <1>1, <1>6, <1>10, <2>1
  <2> QED BY <2>1, <2>2 DEF News
<1>11. Reasons'
  <2> SUFFICES ASSUME NEW r \in DOMAIN memos', NEW d \in Range(memos'[r].deps), d \in Derived
               PROVE  Told(memos', inputChanged', r, d)
    BY DEF Reasons
  <2>1. CASE r = k
    <3>1. PICK n \in 1..Len(f) : d = f[n]
      BY <1>2, <1>3, <2>1
    <3>2. d \notin Inputs /\ RG!Settled(d)
      BY <1>1, <3>1, EngineAssumption
    <3>3. d \in DOMAIN memos /\ d # k
      BY <1>1, <3>2 DEF RG!Settled, RG!Fresh
    <3>4. memos'[d].changedAt <= revision /\ memos'[d].changedAt \in Int
      BY <1>2, <1>4, <3>3
    <3> QED BY <1>2, <1>6, <2>1, <3>4 DEF Told
  <2>2. CASE r # k
    <3>1. r \in DOMAIN memos /\ memos'[r] = memos[r] /\ d \in Range(memos[r].deps)
      BY <1>2, <2>2
    <3>2. d \in DOMAIN memos /\ memos[d].verifiedAt >= memos[r].verifiedAt /\ d \in Keys
      BY <1>4, <3>1 DEF RG!IInv, RG!DepsVerifiedWithReader
    <3>3. PICK a \in Int : a = memos[r].verifiedAt
      BY <1>4, <3>1
    <3>4. ASSUME k \in Reach(memos, d)
          PROVE  News(memos', inputChanged', d, a)
      <4>1. k \in DOMAIN memos /\ memos[d].verifiedAt <= memos[k].verifiedAt
        BY <3>2, <3>4, ReachVerified
      <4>2. memos[k].verifiedAt \in Int /\ a <= memos[k].verifiedAt
        BY <1>4, <3>2, <3>3, <4>1
      <4>3. News(memos', inputChanged', k, a)
        BY <1>9, <1>10, <4>1, <4>2
      <4>4. k \in Reach(memos', d)
        BY <1>7, <3>2, <3>4
      <4>5. Reach(memos', d) \subseteq Keys /\ ClosedIn(memos', Reach(memos', d))
        BY <1>5, ReachCloses
      <4>6. Reach(memos', k) \subseteq Reach(memos', d)
        BY <4>4, <4>5, ReachLeast
      <4> QED BY <4>3, <4>6 DEF News
    <3>5. CASE k \in Reach(memos, d)
      BY <3>1, <3>3, <3>4, <3>5 DEF Told
    <3>6. CASE k \notin Reach(memos, d)
      <4>1. d # k
        BY <1>6, <3>6, ReachHas
      <4>2. memos'[d] = memos[d]
        BY <1>2, <3>2, <4>1
      <4>3. Told(memos, inputChanged, r, d)
        BY <3>1 DEF Reasons
      <4>4. Reach(memos, d) \subseteq Reach(memos', d)
        BY <1>7, <3>2, <3>6
      <4>5. News(memos, inputChanged, d, a) => News(memos', inputChanged', d, a)
        BY <1>1, <4>4 DEF News
      <4> QED BY <3>1, <3>3, <4>2, <4>3, <4>5 DEF Told
    <3> QED BY <3>5, <3>6
  <2> QED BY <2>1, <2>2
<1> QED BY <1>2, <1>8, <1>11

-----------------------------------------------------------------------------
(* Which steps make a query run, and why.                                  *)
LEMMA Longer ==
  ASSUME NEW S, NEW s \in Seq(S), NEW e \in S, NEW x \in Range(Append(s, e))
  PROVE  x \in Range(s) \/ x = e
<1>1. PICK n \in Nat : n = Len(s)
  BY SeqFacts
<1>2. Append(s, e) \in Seq(S) /\ Len(Append(s, e)) = n + 1
  BY <1>1
<1>3. PICK j \in 1..(n + 1) : x = Append(s, e)[j]
  BY <1>2, SeqFacts DEF Range
<1>4. j \in 1..n => Append(s, e)[j] = s[j]
  BY <1>1
<1>5. j = n + 1 => Append(s, e)[j] = e
  BY <1>1
<1>6. \A i \in 1..n : s[i] \in Range(s)
  BY <1>1, SeqFacts DEF Range
<1>7. j \in 1..n \/ j = n + 1
  OBVIOUS
<1>8. CASE j \in 1..n
  BY ONLY <1>3, <1>4, <1>6, <1>8
<1>9. CASE j = n + 1
  BY ONLY <1>3, <1>5, <1>9
<1> QED BY <1>7, <1>8, <1>9

LEMMA Shorter ==
  ASSUME NEW S, NEW s \in Seq(S), s # <<>>
  PROVE  Range(Pop(s)) \subseteq Range(s)
<1>1. DOMAIN s = 1..Len(s) /\ Len(s) \in Nat
  BY SeqFacts
<1>2. DOMAIN Pop(s) = 1..(Len(s) - 1) /\ \A i \in 1..(Len(s) - 1) : Pop(s)[i] = s[i]
  BY PopOps
<1>3. \A i \in 1..(Len(s) - 1) : i \in 1..Len(s)
  BY <1>1
<1> QED BY <1>1, <1>2, <1>3 DEF Range

(* The innermost activation is the last for its key.                       *)
LEMMA TopIsAlone ==
  ASSUME EInv, calls # <<>>,
         NEW x \in Range(IF Computing(Top(calls)) THEN Pop(active) ELSE active)
  PROVE  x # Top(calls).key
<1> DEFINE cs == Pop(calls)
           act == IF Computing(Top(calls)) THEN Pop(active) ELSE active
           k == Top(calls).key
<1>1. RG!IInv /\ Fits(calls, frames, active)
  BY DEF EInv
<1>2. Fits(cs, Pop(frames), act) /\ \A i \in 1..Len(cs) : Rank[k] < Rank[cs[i].key]
  BY <1>1, PopFits
<1>3. k \in Derived
  BY <1>1, TopFacts
<1> HIDE DEF cs, act, k
<1>4. Aligned(cs, Len(cs), act, Len(act)) /\ act \in Seq(Derived)
  BY <1>2 DEF Fits, Stacks
<1>5. x \in Range(act)
  BY DEF act
<1>6. PICK j \in 1..Len(act) : act[j] = x
  BY <1>4, <1>5, SeqFacts DEF Range
<1>7. PICK i \in 1..Len(cs) : act[j] = cs[i].key
  BY <1>4, <1>6 DEF Aligned
<1>8. Rank[k] < Rank[x] /\ Rank[k] \in Int
  BY <1>1, <1>2, <1>3, <1>6, <1>7, MemoFacts, Ranked
<1>9. x # k
  BY <1>8
<1> QED BY <1>9 DEF k

LEMMA FetchStarts ==
  ASSUME EInv, NEW k \in Derived, Fetch(k), NEW x \in Range(active')
  PROVE  x \in Range(active) \/ x \notin DOMAIN memos
<1>1. active' = active \/ (~Memoized(k) /\ active' = Append(active, k))
  BY DEF Fetch, StartCompute
<1>2. active \in Seq(Derived)
  BY DEF EInv, Fits, Stacks
<1>3. CASE active' = active
  BY <1>3
<1>4. CASE ~Memoized(k) /\ active' = Append(active, k)
  <2>1. x \in Range(active) \/ x = k
    BY <1>2, <1>4, Longer
  <2> QED BY <1>4, <2>1 DEF Memoized
<1> QED BY <1>1, <1>3, <1>4

(* A check that finds a dependency changed has found news.                 *)
LEMMA JudgeStarts ==
  ASSUME EInv, Reasons, Running("validate"), DepsLeft,
         RG!Settled(Dep), NEW c, c = RG!ChangedAt(Dep), JudgeDep(c), NEW x \in Range(active')
  PROVE  x \in Range(active) \/ OutOfDate(x)
<1> DEFINE a == Top(calls)
           k == a.key
           j == a.next
<1>1. /\ k \in Derived /\ k \in DOMAIN memos /\ a.memo = memos[k]
      /\ j \in Nat \ {0} /\ a.memo.deps \in ReadSeqs
      /\ \A n \in 1..(j - 1) : /\ RG!Settled(a.memo.deps[n])
                               /\ RG!ChangedAt(a.memo.deps[n]) <= a.memo.verifiedAt
  BY CheckFacts
<1>2. RG!IInv /\ active \in Seq(Derived)
  BY DEF EInv, Fits, Stacks
<1>3. /\ Dep = a.memo.deps[j] /\ j <= Len(a.memo.deps) /\ Dep \in Keys
      /\ DepChanged(c) <=> c > a.memo.verifiedAt
      /\ JudgeDep(c) => IF DepChanged(c) THEN active' = Append(active, k) ELSE active' = active
  BY DepFacts DEF Dep, DepsLeft, DepChanged, JudgeDep, StartCompute
<1> HIDE DEF a
<1>4. CASE ~DepChanged(c)
  BY <1>3, <1>4
<1>5. CASE DepChanged(c)
  <2>1. Len(memos[k].deps) \in Nat /\ DOMAIN memos[k].deps = 1..Len(memos[k].deps)
    BY <1>1, ReadFacts, SeqFacts
  <2>2. j \in 1..Len(memos[k].deps) /\ Dep \in Range(memos[k].deps)
    BY <1>1, <1>3, <2>1 DEF Range
  <2>3. RG!ChangedAt(Dep) > memos[k].verifiedAt
    BY <1>1, <1>3, <1>5
  <2>4. News(memos, inputChanged, Dep, memos[k].verifiedAt)
    <3>1. CASE Dep \in Inputs
      BY <1>3, <2>3, <3>1, ReachHas DEF RG!ChangedAt, News
    <3>2. CASE Dep \notin Inputs
      <4>1. Told(memos, inputChanged, k, Dep)
        BY <1>1, <1>3, <2>2, <3>2 DEF Reasons, Keys
      <4> QED BY <2>3, <3>2, <4>1 DEF Told, RG!ChangedAt
    <3> QED BY <3>1, <3>2
  <2>5. OutAt(k, j)
    BY <1>1, <1>3, <2>4 DEF OutAt
  <2>6. OutOfDate(k)
    BY <2>2, <2>5 DEF OutOfDate
  <2>7. x \in Range(active) \/ x = k
    <3> HIDE DEF k
    <3> QED BY <1>1, <1>2, <1>3, <1>5, Longer
  <2> QED BY <2>6, <2>7
<1> QED BY <1>4, <1>5

(* Each step leaves the runs that there are, or starts one for a reason.   *)
LEMMA RunsStart ==
  ASSUME EInv, Reasons, [Next]_vars, NEW x \in Range(active')
  PROVE  x \in Range(active) \/ x \notin DOMAIN memos \/ OutOfDate(x)
<1>1. CASE active' = active
  BY <1>1
<1>2. ASSUME NEW k \in Derived, Fetch(k) PROVE x \in Range(active) \/ x \notin DOMAIN memos
  BY <1>2, FetchStarts
<1>3. CASE active' = Pop(active) /\ Running("compute")
  <2>1. calls # <<>> /\ Top(calls).op = "compute" /\ active \in Seq(Derived)
    BY <1>3 DEF Running, EInv, Fits, Stacks
  <2>2. PICK at \in [1..Len(active) -> 1..Len(calls)] :
          \A i \in 1..Len(calls) : Computing(calls[i]) => \E j \in 1..Len(active) : at[j] = i
    BY DEF EInv, Fits, Stacks, Aligned
  <2>3. Len(calls) \in 1..Len(calls) /\ Computing(calls[Len(calls)])
    BY <2>1, SeqFacts DEF EInv, Fits, Stacks, Top, Computing
  <2>4. active # <<>>
    BY <2>1, <2>2, <2>3, SeqFacts
  <2> QED BY <1>3, <2>1, <2>4, Shorter
<1>4. CASE CheckInput
  <2>1. /\ Running("validate") /\ DepsLeft /\ Dep \notin DOMAIN memos
        /\ JudgeDep(IF Dep \in Inputs THEN inputChanged[Dep] ELSE 0)
    BY <1>4 DEF CheckInput, Memoized
  <2>2. Dep \in Inputs
    BY <2>1, DepFacts DEF Keys
  <2>3. RG!Settled(Dep) /\ inputChanged[Dep] = RG!ChangedAt(Dep)
    BY <2>2 DEF RG!Settled, RG!ChangedAt
  <2>4. JudgeDep(inputChanged[Dep])
    BY <2>1, <2>2
  <2> QED BY <2>1, <2>3, <2>4, JudgeStarts
<1>5. CASE CheckReturns
  <2>1. /\ Running("validate") /\ ret.tag = "ok" /\ JudgeDep(ret.changedAt) /\ calls # <<>>
        /\ Top(calls).op = "validate" /\ RG!IInv
    BY <1>5 DEF CheckReturns, EInv, Running
  <2>2. /\ Waits(Top(calls), Top(frames), ret.key) /\ RG!Fresh(ret.key)
        /\ ret.changedAt = memos[ret.key].changedAt
    BY <2>1 DEF EInv, ResultOK, Truthful
  <2>3. DepsLeft /\ Dep = ret.key
    BY <2>1, <2>2 DEF Waits, DepsLeft, Dep
  <2>4. RG!Settled(Dep) /\ ret.changedAt = RG!ChangedAt(Dep)
    <3>1. Dep \in DOMAIN memos /\ Dep \notin Inputs
      BY <2>1, <2>2, <2>3, MemoFacts DEF RG!Fresh
    <3> QED BY <2>2, <2>3, <3>1 DEF RG!Settled, RG!ChangedAt
  <2> QED BY <2>1, <2>3, <2>4, JudgeStarts
<1>6. CASE UNCHANGED vars
  BY <1>1, <1>6 DEF vars
<1>7. ASSUME NEW k \in Derived, Query(k) PROVE x \in Range(active) \/ x \notin DOMAIN memos
  BY <1>2, <1>7 DEF Query
<1>8. ASSUME NEW i \in Inputs, NEW v \in Values, BumpInput(i, v) PROVE x \in Range(active)
  BY <1>1, <1>8 DEF BumpInput
<1>9. CASE RequestCancellation \/ ClearCancellation
  BY <1>1, <1>9 DEF RequestCancellation, ClearCancellation
<1>10. CASE HostReadsQuery
  <2>1. HostMove.key \in Derived /\ Fetch(HostMove.key)
    BY <1>10 DEF HostReadsQuery, HostAsksFor
  <2> QED BY <1>2, <2>1
<1>11. CASE HostReadsInput \/ HostReceives
  BY <1>1, <1>11 DEF HostReadsInput, HostReceives
<1>12. CASE HostFails \/ HostPropagates \/ HostReturns
  BY <1>3, <1>12 DEF HostFails, HostPropagates, HostReturns, AbandonCompute
<1>13. CASE CheckQuery \/ CheckFails \/ ConfirmMemo
  BY <1>1, <1>13 DEF CheckQuery, CheckFails, ConfirmMemo
<1>14. CASE EngineStep
  BY <1>4, <1>5, <1>10, <1>11, <1>12, <1>13, <1>14 DEF EngineStep
<1> QED BY <1>6, <1>7, <1>8, <1>9, <1>14 DEF Next

(* What the runs of the new state are out of, given that the step kept     *)
(* what is settled and the memos of the runs that go on.                   *)
LEMMA RunsGoOn ==
  ASSUME EInv, WInv, [Next]_vars, SettledStays,
         \A x \in Range(active') \cap DOMAIN memos' : x \in DOMAIN memos /\ memos'[x] = memos[x]
  PROVE  RunsForAReason'
<1> SUFFICES ASSUME NEW x \in Range(active'), x \in DOMAIN memos'
             PROVE  OutOfDate(x)'
  BY DEF RunsForAReason
<1>1. x \in DOMAIN memos /\ memos'[x] = memos[x]
  OBVIOUS
<1>2. OutOfDate(x)
  BY <1>1, RunsStart DEF WInv, RunsForAReason
<1> QED BY <1>1, <1>2, StaysOut DEF EInv

LEMMA QuietTells ==
  ASSUME EInv, WInv, [Next]_vars, Quiet
  PROVE  WInv'
<1>1. SettledStays
  BY DEF SettledStays, Quiet, RG!Settled, RG!Fresh, RG!ChangedAt
<1>2. RunsForAReason'
  BY <1>1, RunsGoOn DEF Quiet
<1>3. Reasons'
  BY DEF WInv, Reasons, Quiet
<1> QED BY <1>2, <1>3 DEF WInv

LEMMA StepTells ==
  ASSUME EInv, WInv, [Next]_vars
  PROVE  WInv'
<1>1. CASE UNCHANGED vars
  BY <1>1, QuietTells DEF vars, Quiet
<1>2. ASSUME NEW k \in Derived, Query(k) PROVE WInv'
  BY <1>2, QuietTells DEF Query, Fetch, Quiet
<1>3. ASSUME NEW i \in Inputs, NEW v \in Values, BumpInput(i, v) PROVE WInv'
  <2>1. RG!BumpInput(i, v)
    BY <1>3, BumpKeeps
  <2>2. Reasons'
    BY <2>1, BumpTells DEF EInv, WInv
  <2>3. active' = <<>>
    BY <1>3, EmptyFits DEF BumpInput, Idle, EInv
  <2> QED BY <2>2, <2>3 DEF WInv, RunsForAReason, Range
<1>4. CASE HostReturns
  <2>1. /\ Top(calls).key \in Derived /\ Top(frames) \in ReadSeqs /\ HostMove.value \in Values
        /\ RG!Install(Top(calls).key, Top(frames), HostMove.value)
    BY <1>4, HostReturnsKeeps
  <2>2. calls # <<>> /\ Computing(Top(calls)) /\ active' = Pop(active)
    BY <1>4 DEF HostReturns, Running, Computing
  <2>3. PICK k \in Derived : k = Top(calls).key
    BY <2>1
  <2>4. k \in DOMAIN memos => OutOfDate(k)
    <3>1. calls \in Seq(Activation) /\ Aligned(calls, Len(calls), active, Len(active)) /\ active \in Seq(Derived)
      BY DEF EInv, Fits, Stacks
    <3>2. Len(calls) \in 1..Len(calls) /\ calls[Len(calls)] = Top(calls)
      BY <2>2, <3>1, SeqFacts DEF Top
    <3>3. PICK j \in 1..Len(active) : active[j] = Top(calls).key
      BY <2>2, <3>1, <3>2 DEF Aligned
    <3>4. k \in Range(active)
      BY <2>3, <3>1, <3>3, SeqFacts DEF Range
    <3> QED BY <3>4 DEF WInv, RunsForAReason
  <2>5. PICK f \in ReadSeqs, v \in Values : RG!Install(k, f, v)
    BY <2>1, <2>3
  <2>6. /\ Reasons' /\ SettledStays
        /\ \A r \in DOMAIN memos : r # k => memos'[r] = memos[r]
        /\ DOMAIN memos' = DOMAIN memos \cup {k}
    BY <2>4, <2>5, InstallTells DEF EInv, WInv
  <2>7. \A x \in Range(active') : x # k
    BY <2>2, <2>3, TopIsAlone
  <2>8. RunsForAReason'
    BY <2>6, <2>7, RunsGoOn
  <2> QED BY <2>6, <2>8 DEF WInv
<1>5. CASE ConfirmMemo
  <2>1. Top(calls).key \in Derived /\ RG!Confirm(Top(calls).key)
    BY <1>5, ConfirmKeeps
  <2>2. calls # <<>> /\ ~Computing(Top(calls)) /\ active' = active
    BY <1>5 DEF ConfirmMemo, Running, Computing
  <2>3. PICK k \in Derived : k = Top(calls).key
    BY <2>1
  <2>4. /\ Reasons' /\ SettledStays
        /\ \A r \in DOMAIN memos : r # k => memos'[r] = memos[r]
        /\ DOMAIN memos' = DOMAIN memos
    BY <2>1, <2>3, ConfirmTells DEF EInv, WInv
  <2>5. \A x \in Range(active') : x # k
    BY <2>2, <2>3, TopIsAlone
  <2>6. RunsForAReason'
    BY <2>4, <2>5, RunsGoOn
  <2> QED BY <2>4, <2>6 DEF WInv
<1>6. CASE \/ RequestCancellation \/ ClearCancellation \/ HostReadsQuery \/ HostReadsInput
           \/ HostReceives \/ HostFails \/ HostPropagates
           \/ CheckInput \/ CheckQuery \/ CheckReturns \/ CheckFails
  <2>1. Quiet
    BY <1>6 DEF Quiet, RequestCancellation, ClearCancellation, HostReadsQuery, Fetch, HostReadsInput,
                HostReceives, HostFails, HostPropagates, AbandonCompute,
                CheckInput, CheckQuery, CheckReturns, CheckFails
  <2> QED BY <2>1, QuietTells
<1> QED BY <1>1, <1>2, <1>3, <1>4, <1>5, <1>6 DEF Next, EngineStep

(* An edit reruns only what rests on it: a query with a memo is run again  *)
(* only if an input below it, through what the memos read, changed after   *)
(* it was last verified.                                                   *)
THEOREM WorkHasAReason == Spec => UnrelatedEditsRerunNothing
<1> DEFINE Reasoned(k) == \E i \in RestsOn(k) : inputChanged[i] > memos[k].verifiedAt
<1>1. Init => WInv
  BY DEF Init, WInv, Reasons, RunsForAReason, Range
<1>2. EInv /\ WInv /\ [Next]_vars => WInv'
  BY StepTells
<1>3. ASSUME EInv, NEW k \in DOMAIN memos, OutOfDate(k) PROVE Reasoned(k)
  <2>1. PICK j \in 1..Len(memos[k].deps) :
          News(memos, inputChanged, memos[k].deps[j], memos[k].verifiedAt)
    BY <1>3 DEF OutOfDate, OutAt
  <2>2. IsTable(memos) /\ k \in Keys /\ memos[k].deps[j] \in Range(memos[k].deps)
    BY <1>3, MemoTable, MemoFacts, ReadFacts, SeqFacts DEF EInv, Range
  <2>3. Reach(memos, memos[k].deps[j]) \subseteq Reach(memos, k)
    BY <2>2, ReachRead
  <2>4. PICK i \in Inputs : i \in Reach(memos, k) /\ inputChanged[i] > memos[k].verifiedAt
    BY <2>1, <2>3 DEF News
  <2>5. i \in RestsOn(k)
    BY <2>4 DEF RestsOn, Reach, ClosedIn, ReadsWithin
  <2> QED BY <2>4, <2>5
<1>4. ASSUME EInv, WInv, [Next]_vars, NEW k \in DOMAIN memos, k \notin Range(active), k \in Range(active')
      PROVE  Reasoned(k)
  BY <1>3, <1>4, RunsStart DEF WInv
<1>5. EInv /\ WInv /\ [Next]_vars =>
        [\A k \in DOMAIN memos :
           (k \notin Range(active) /\ k \in Range(active')) =>
             \E i \in RestsOn(k) : inputChanged[i] > memos[k].verifiedAt]_vars
  BY <1>4
<1> QED BY <1>1, <1>2, <1>5, Invariance, PTL DEF Spec, UnrelatedEditsRerunNothing
===============================================================================
