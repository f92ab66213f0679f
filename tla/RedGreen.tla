------------------------------- MODULE RedGreen -------------------------------
(***************************************************************************)
(* What the incremental engine of tuo-db (src/crates/tuo-db/src/engine.rs) *)
(* promises, without how it gets there: a table of memos, a revision that  *)
(* every input change advances, and two ways a memo becomes fresh.         *)
(*                                                                         *)
(*   Confirm  the dependencies it recorded are fresh and none of them      *)
(*            changed since the memo was last verified (the green path);   *)
(*   Install  the host ran to its end over fresh dependencies (the red     *)
(*            path), with early cutoff on an equal value.                  *)
(*                                                                         *)
(* The control of the engine (its recursion, its stacks, cancellation and  *)
(* errors) is module QueryEngine, which implements this one.               *)
(***************************************************************************)
EXTENDS Naturals, Sequences

CONSTANTS
  Inputs,        \* the host's input keys
  Derived,       \* the host's derived query keys
  Values,        \* what an input holds and what a query returns
  InitialWorld,  \* the inputs before the host has set any of them
  ReadSeqs,      \* the sequences of keys one run of a query may read
  Step(_, _),    \* the host: Step(k, seen) is the next move of query k once
                 \* its reads so far have returned the sequence seen
  Truth,         \* Truth[w][k]: what key k is worth, from scratch, in world w
  NoValue,       \* the Truth of a query that fails
  MaxRevision    \* bound on the revision counter

Keys   == Inputs \cup Derived
Worlds == [Inputs -> Values]

(* The moves of a host: read a key, return a value, or fail. *)
Reads(d)   == [op |-> "read", key |-> d]
Returns(v) == [op |-> "done", value |-> v]
Fails      == [op |-> "fail"]

(* What the first n of the reads return when every key d is worth vals[d]. *)
Seen(reads, vals, n) == [i \in 1..n |-> vals[reads[i]]]

(***************************************************************************)
(* Query k, run where every key d is worth vals[d], reads exactly `reads`, *)
(* in that order, and returns v; a failing read would have ended it.  A    *)
(* run depends on vals only at the keys it reads: the host is closed over  *)
(* the database (purity rule 2).                                           *)
(***************************************************************************)
RunReturns(k, reads, vals, v) ==
  /\ \A n \in 1..Len(reads) : vals[reads[n]] # NoValue
  /\ \A n \in 1..Len(reads) : Step(k, Seen(reads, vals, n - 1)) = Reads(reads[n])
  /\ Step(k, Seen(reads, vals, Len(reads))) = Returns(v)

ASSUME ConstantsAssumption ==
  /\ Inputs \cap Derived = {}
  /\ InitialWorld \in Worlds
  /\ ReadSeqs \subseteq Seq(Keys)
  /\ MaxRevision \in Nat

(* Truth is a meaning of the host's program: an input is worth what the    *)
(* world holds, and a query is worth what its run over true values returns. *)
ASSUME TruthAssumption ==
  /\ Truth \in [Worlds -> [Keys -> Values \cup {NoValue}]]
  /\ \A w \in Worlds :
       /\ \A i \in Inputs : Truth[w][i] = w[i]
       /\ \A k \in Derived, reads \in ReadSeqs, v \in Values :
            RunReturns(k, reads, Truth[w], v) => Truth[w][k] = v

-----------------------------------------------------------------------------
VARIABLES
  revision,      \* bumped once per input change
  inputChanged,  \* the revision at which each input last changed, 0 if never
  world,         \* the inputs' values, which the host owns
  memos          \* the memoized results: a function on some derived keys

vars == <<revision, inputChanged, world, memos>>

Revisions == 0..MaxRevision

Memo == [value : Values, changedAt : Revisions, verifiedAt : Revisions, deps : ReadSeqs]

Fresh(k) == k \in DOMAIN memos /\ memos[k].verifiedAt = revision

(* A key that can be read as it stands: an input, or a fresh memo. *)
Settled(d) == d \in Inputs \/ Fresh(d)

ChangedAt(d) == IF d \in Inputs THEN inputChanged[d] ELSE memos[d].changedAt

(* What reading each key returns now. *)
Current == [d \in Keys |-> IF d \in Inputs THEN world[d]
                           ELSE IF d \in DOMAIN memos THEN memos[d].value
                           ELSE NoValue]

DepsOf(m) == {m.deps[n] : n \in DOMAIN m.deps}

Remember(k, m) == [d \in DOMAIN memos \cup {k} |-> IF d = k THEN m ELSE memos[d]]

Init ==
  /\ revision = 0
  /\ inputChanged = [i \in Inputs |-> 0]
  /\ world = InitialWorld
  /\ memos = [k \in {} |-> NoValue]

(* The host stores an input's new value, which may equal the old one, and  *)
(* tells the engine.                                                       *)
BumpInput(i, v) ==
  /\ revision < MaxRevision
  /\ world' = [world EXCEPT ![i] = v]
  /\ revision' = revision + 1
  /\ inputChanged' = [inputChanged EXCEPT ![i] = revision + 1]
  /\ UNCHANGED memos

Confirm(k) ==
  /\ k \in DOMAIN memos
  /\ \A d \in DepsOf(memos[k]) : Settled(d) /\ ChangedAt(d) <= memos[k].verifiedAt
  /\ memos' = [memos EXCEPT ![k].verifiedAt = revision]
  /\ UNCHANGED <<revision, inputChanged, world>>

(* A bug: every recomputation keeps the old changed_at. *)
CutoffAlways(k, v) == IF k \in DOMAIN memos THEN memos[k].changedAt ELSE revision

(* Early cutoff: an equal value keeps its old changed_at. *)
CutoffChangedAt(k, v) ==
  IF k \in DOMAIN memos /\ memos[k].value = v THEN memos[k].changedAt ELSE revision

Install(k, reads, v) ==
  /\ ~Fresh(k)
  /\ RunReturns(k, reads, Current, v)
  /\ \A n \in 1..Len(reads) : Settled(reads[n])
  /\ memos' = Remember(k, [value |-> v, changedAt |-> CutoffChangedAt(k, v),
                           verifiedAt |-> revision, deps |-> reads])
  /\ UNCHANGED <<revision, inputChanged, world>>

Next ==
  \/ \E i \in Inputs, v \in Values : BumpInput(i, v)
  \/ \E k \in Derived : Confirm(k)
  \/ \E k \in Derived, reads \in ReadSeqs, v \in Values : Install(k, reads, v)

Spec == Init /\ [][Next]_vars

-----------------------------------------------------------------------------
TypeOK ==
  /\ revision \in Revisions
  /\ inputChanged \in [Inputs -> Revisions]
  /\ world \in Worlds
  /\ DOMAIN memos \subseteq Derived
  /\ memos \in [DOMAIN memos -> Memo]

(***************************************************************************)
(* The engine's promise: a memo that counts as verified at the current     *)
(* revision, whatever edits, revalidations and cutoffs led to it, holds    *)
(* what computing the query from scratch over the current inputs returns.  *)
(* Everything fetch and revalidate_memoized hand out is such a memo.       *)
(***************************************************************************)
FreshMemosAreTrue ==
  \A k \in DOMAIN memos : Fresh(k) => memos[k].value = Truth[world][k]

(* Stamps never run ahead: changed_at <= verified_at <= revision. *)
StampsOrdered ==
  /\ \A i \in Inputs : inputChanged[i] <= revision
  /\ \A k \in DOMAIN memos : /\ memos[k].changedAt <= memos[k].verifiedAt
                             /\ memos[k].verifiedAt <= revision

(* A memo's derived dependencies are memos themselves, verified no earlier *)
(* than it was: deps_unchanged_since never takes one for an input.         *)
DepsVerifiedWithReader ==
  \A k \in DOMAIN memos : \A d \in DepsOf(memos[k]) \cap Derived :
    /\ d \in DOMAIN memos
    /\ memos[d].verifiedAt >= memos[k].verifiedAt

(* Every memo can still be justified: there are values for its dependencies *)
(* from which the host computes it, and a dependency whose changed_at did   *)
(* not pass the memo's verified_at still has that value.                    *)
MemosReplay ==
  \A k \in DOMAIN memos :
    \E vals \in [Keys -> Values \cup {NoValue}] :
      /\ RunReturns(k, memos[k].deps, vals, memos[k].value)
      /\ \A d \in DepsOf(memos[k]) :
           ChangedAt(d) <= memos[k].verifiedAt => Current[d] = vals[d]

(* The inductive invariant: FreshMemosAreTrue is not inductive alone, for a *)
(* stale memo can be confirmed in a later revision.                         *)
IInv ==
  /\ TypeOK
  /\ StampsOrdered
  /\ DepsVerifiedWithReader
  /\ MemosReplay
  /\ FreshMemosAreTrue

(***************************************************************************)
(* What lets a reader trust a stamp: a step that changes a memo's value    *)
(* gives it a changed_at later than every verified_at in the table, so no  *)
(* reader of the old value can be confirmed against it; and no step drops  *)
(* a memo or takes a stamp back.                                           *)
(***************************************************************************)
ChangesAreAnnounced ==
  [][\A k \in DOMAIN memos :
       /\ k \in DOMAIN memos'
       /\ memos'[k].verifiedAt >= memos[k].verifiedAt
       /\ memos'[k].changedAt >= memos[k].changedAt
       /\ memos'[k].value # memos[k].value =>
            \A r \in DOMAIN memos : k \in DepsOf(memos[r]) =>
              memos'[k].changedAt > memos[r].verifiedAt]_vars
===============================================================================
