---------------------------- MODULE QueryEngineSpec ----------------------------
(***************************************************************************)
(* What the query engine owes its host, stated against a meaning of the    *)
(* host's queries: QueryEngine implements RedGreen, and every result it    *)
(* hands out agrees with a computation from scratch.                       *)
(***************************************************************************)
EXTENDS QueryEngine, FiniteSets

CONSTANTS
  ReadSeqs,  \* the sequences of keys one run of a query may read
  Truth,     \* Truth[w][k]: what key k is worth, from scratch, in world w
  NoValue    \* the Truth of a query that fails

ASSUME EngineAssumption ==
  /\ Inputs \cap Derived = {}
  /\ InitialWorld \in Worlds
  /\ MaxRevision \in Nat
  /\ NoValue \notin Values

(* ReadSeqs has every sequence of keys that a run can have read so far.    *)
ASSUME ReadSeqsAssumption ==
  /\ ReadSeqs \subseteq Seq(Keys) /\ <<>> \in ReadSeqs
  /\ \A reads \in ReadSeqs : \A n \in 0..Len(reads) : SubSeq(reads, 1, n) \in ReadSeqs

ClosedStep(k, seen) == Step(k, seen, InitialWorld)

(* Purity rule 2 of tuo-db: what a query does next depends on its key and  *)
(* on what it read through the engine, and on nothing else.                *)
ASSUME HostIsClosed ==
  \A k \in Derived, w \in Worlds, reads \in ReadSeqs :
    \A seen \in [1..Len(reads) -> Values] : Step(k, seen, w) = ClosedStep(k, seen)

(* Purity rule 6: a query is total, it reads a key, returns or fails.      *)
ASSUME HostIsTotal ==
  \A k \in Derived, reads \in ReadSeqs :
    \A seen \in [1..Len(reads) -> Values] :
      \/ \E d \in Keys : ClosedStep(k, seen) = Reads(d) /\ Append(reads, d) \in ReadSeqs
      \/ \E v \in Values : ClosedStep(k, seen) = Returns(v)
      \/ ClosedStep(k, seen) = Fails

Abstract == INSTANCE RedGreen WITH Step <- ClosedStep

(* Query k, run where every key d is worth vals[d], reads `reads` to begin *)
(* with, in that order.                                                    *)
RunReads(k, reads, vals) ==
  /\ \A n \in 1..Len(reads) : vals[reads[n]] # NoValue
  /\ \A n \in 1..Len(reads) : ClosedStep(k, Abstract!Seen(reads, vals, n - 1)) = Reads(reads[n])

(* What it does then.                                                      *)
RunMove(k, reads, vals) == ClosedStep(k, Abstract!Seen(reads, vals, Len(reads)))

(* It fails: by itself, or because the key it reads next does.             *)
RunFails(k, reads, vals) ==
  /\ RunReads(k, reads, vals)
  /\ \/ RunMove(k, reads, vals) = Fails
     \/ \E d \in Keys : RunMove(k, reads, vals) = Reads(d) /\ vals[d] = NoValue

(* Truth is what the host's program means: an input is worth what the      *)
(* world holds, a query what its run over true values returns, and NoValue *)
(* when that run fails.                                                    *)
ASSUME TruthIsMeaning ==
  /\ Truth \in [Worlds -> [Keys -> Values \cup {NoValue}]]
  /\ \A w \in Worlds :
       /\ \A i \in Inputs : Truth[w][i] = w[i]
       /\ \A k \in Derived, reads \in ReadSeqs :
            /\ \A v \in Values : Abstract!RunReturns(k, reads, Truth[w], v) => Truth[w][k] = v
            /\ RunFails(k, reads, Truth[w]) => Truth[w][k] = NoValue

(* Whatever the inputs hold, the queries do not read each other in a       *)
(* circle: which ones they read may depend on the inputs.                  *)
RankedBy(rank, w) ==
  \A k \in Derived, reads \in ReadSeqs, d \in Derived :
    RunReads(k, reads, Truth[w]) /\ RunMove(k, reads, Truth[w]) = Reads(d) => rank[d] < rank[k]

ASSUME HostIsAcyclic ==
  \A w \in Worlds : \E rank \in [Derived -> 0..Cardinality(Derived)] : RankedBy(rank, w)

(***************************************************************************)
(* The engine implements RedGreen: whatever order its activations nest in, *)
(* wherever cancellation or an error cuts them short, each step confirms   *)
(* one memo whose dependencies all stand, installs one whose run is over,  *)
(* or changes nothing.                                                     *)
(***************************************************************************)
ImplementsRedGreen == Abstract!Spec

(***************************************************************************)
(* fetch detects a cycle where there is one: over a host without cycles it *)
(* never panics, whatever earlier query was cut short by an error or by    *)
(* cancellation, and though a stale memo may record a read that the query  *)
(* would not do now.                                                       *)
(***************************************************************************)
NoFalseCycle == ret.tag # "panic"

(***************************************************************************)
(* Every result, of the query asked for and of each one below it, is the   *)
(* one a computation from scratch over the current inputs gives: the same  *)
(* value, a failure only of a query that does fail, and never a cycle that *)
(* is none.                                                                *)
(***************************************************************************)
AnswersAreTrue ==
  /\ ret.tag = "ok" => ret.value = Truth[world][ret.key]
  /\ ret.tag = "error" /\ ret.why = "Failed" => Truth[world][ret.key] = NoValue
  /\ NoFalseCycle

(* A set of keys that has, with a memo, all that the memo read.            *)
ReadsWithin(T) == \A k \in T \cap DOMAIN memos : Range(memos[k].deps) \subseteq T

(* The inputs a memo rests on, through the memos it read.                  *)
RestsOn(k) ==
  {i \in Inputs : \A T \in SUBSET Keys : k \in T /\ ReadsWithin(T) => i \in T}

(***************************************************************************)
(* An edit reruns only what rests on it: a memoized query is recomputed    *)
(* only if an input below it changed after it was last verified.           *)
(***************************************************************************)
UnrelatedEditsRerunNothing ==
  [][\A k \in DOMAIN memos :
       (k \notin Range(active) /\ k \in Range(active')) =>
         \E i \in RestsOn(k) : inputChanged[i] > memos[k].verifiedAt]_vars
===============================================================================
