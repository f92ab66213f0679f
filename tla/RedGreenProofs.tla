---------------------------- MODULE RedGreenProofs ----------------------------
(***************************************************************************)
(* The engine's promise, for every host, every key set and every bound:    *)
(* RedGreen never calls a memo fresh that a computation from scratch would *)
(* contradict.  The argument is the invariant IInv of RedGreen: every memo *)
(* carries values of its dependencies that justify it (MemosReplay), and a *)
(* dependency that did not pass the memo's stamp still has that value; so  *)
(* a confirmed memo is justified by the values of now.                     *)
(***************************************************************************)
EXTENDS RedGreen, TLAPS

(* The host is closed over the database: a run goes the same way wherever  *)
(* the keys it reads are worth the same.                                   *)
LEMMA RunDependsOnReads ==
  ASSUME NEW k, NEW reads \in ReadSeqs, NEW v,
         NEW u, NEW w,
         \A n \in 1..Len(reads) : u[reads[n]] = w[reads[n]],
         RunReturns(k, reads, u, v)
  PROVE  RunReturns(k, reads, w, v)
<1>1. Len(reads) \in Nat
  BY ConstantsAssumption
<1>2. \A n \in 0..Len(reads) : Seen(reads, u, n) = Seen(reads, w, n)
  BY <1>1 DEF Seen
<1>3. \A n \in 1..Len(reads) : n - 1 \in 0..Len(reads) /\ Len(reads) \in 0..Len(reads)
  BY <1>1
<1>4. \A n \in 1..Len(reads) : Step(k, Seen(reads, w, n - 1)) = Reads(reads[n])
  BY <1>2, <1>3 DEF RunReturns
<1>5. Step(k, Seen(reads, w, Len(reads))) = Returns(v)
  BY <1>1, <1>2 DEF RunReturns
<1>6. QED
  BY <1>4, <1>5 DEF RunReturns

(* The keys in a read sequence are keys, and DepsOf lists them.            *)
LEMMA ReadsAreKeys ==
  ASSUME NEW reads \in ReadSeqs
  PROVE  /\ Len(reads) \in Nat
         /\ DOMAIN reads = 1..Len(reads)
         /\ \A n \in 1..Len(reads) : reads[n] \in Keys
  BY ConstantsAssumption

LEMMA DepsAreKeys ==
  ASSUME NEW m \in Memo
  PROVE  DepsOf(m) \subseteq Keys
  BY ReadsAreKeys DEF DepsOf, Memo

LEMMA InitInvariant == Init => IInv
<1> SUFFICES ASSUME Init PROVE IInv
  OBVIOUS
<1>1. DOMAIN memos = {}
  BY DEF Init
<1>2. TypeOK
  BY <1>1, ConstantsAssumption DEF Init, TypeOK, Revisions
<1>3. StampsOrdered /\ DepsVerifiedWithReader /\ MemosReplay /\ FreshMemosAreTrue
  BY <1>1, ConstantsAssumption DEF Init, StampsOrdered, DepsVerifiedWithReader, MemosReplay, FreshMemosAreTrue
<1>4. QED
  BY <1>2, <1>3 DEF IInv

(***************************************************************************)
(* A memo whose dependencies are all settled, at the values that justify   *)
(* it, is true: its run goes the same way over the true values.            *)
(***************************************************************************)
LEMMA SettledRunIsTrue ==
  ASSUME TypeOK, FreshMemosAreTrue,
         NEW k \in Derived, NEW reads \in ReadSeqs, NEW v \in Values,
         RunReturns(k, reads, Current, v),
         \A n \in 1..Len(reads) : Settled(reads[n])
  PROVE  Truth[world][k] = v
<1>1. ASSUME NEW n \in 1..Len(reads)
      PROVE  Current[reads[n]] = Truth[world][reads[n]]
  <2>1. reads[n] \in Keys /\ Settled(reads[n])
    BY ReadsAreKeys
  <2>2. CASE reads[n] \in Inputs
    BY <2>1, <2>2, TruthAssumption DEF Current, TypeOK
  <2>3. CASE reads[n] \notin Inputs
    BY <2>1, <2>3 DEF Settled, Fresh, Current, FreshMemosAreTrue
  <2>4. QED
    BY <2>2, <2>3
<1>2. RunReturns(k, reads, Truth[world], v)
  BY <1>1, RunDependsOnReads
<1>3. QED
  BY <1>2, TruthAssumption DEF TypeOK

LEMMA BumpPreserves ==
  ASSUME IInv, NEW i \in Inputs, NEW v \in Values, BumpInput(i, v)
  PROVE  IInv'
<1> USE DEF IInv, BumpInput
<1>1. revision + 1 \in Revisions /\ revision \in Nat
  BY ConstantsAssumption DEF TypeOK, Revisions
<1>2. TypeOK'
  BY <1>1 DEF TypeOK, Worlds
<1>3. \A k \in DOMAIN memos : memos[k] \in Memo /\ k \in Derived /\ k \notin Inputs
  BY ConstantsAssumption DEF TypeOK
<1>4. StampsOrdered'
  BY <1>1, <1>3 DEF StampsOrdered, TypeOK, Memo, Revisions
<1>5. DepsVerifiedWithReader'
  BY DEF DepsVerifiedWithReader, DepsOf
<1>6. MemosReplay'
  <2> SUFFICES ASSUME NEW k \in DOMAIN memos
               PROVE  \E vals \in [Keys -> Values \cup {NoValue}] :
                        /\ RunReturns(k, memos[k].deps, vals, memos[k].value)
                        /\ \A d \in DepsOf(memos[k]) :
                             ChangedAt(d)' <= memos[k].verifiedAt => Current'[d] = vals[d]
    BY DEF MemosReplay, DepsOf
  <2>1. PICK vals \in [Keys -> Values \cup {NoValue}] :
          /\ RunReturns(k, memos[k].deps, vals, memos[k].value)
          /\ \A d \in DepsOf(memos[k]) :
               ChangedAt(d) <= memos[k].verifiedAt => Current[d] = vals[d]
    BY DEF MemosReplay
  <2>2. ASSUME NEW d \in DepsOf(memos[k]), ChangedAt(d)' <= memos[k].verifiedAt
        PROVE  Current'[d] = vals[d]
    <3>1. d \in Keys
      BY <1>3, DepsAreKeys
    <3>2. d # i
      <4> SUFFICES ASSUME d = i PROVE FALSE
        OBVIOUS
      <4>1. ChangedAt(d)' = revision + 1
        BY DEF ChangedAt, TypeOK
      <4>2. memos[k].verifiedAt \in Nat /\ memos[k].verifiedAt <= revision
        BY <1>3 DEF StampsOrdered, Memo, Revisions
      <4>3. QED
        BY <1>1, <2>2, <4>1, <4>2
    <3>3. ChangedAt(d)' = ChangedAt(d) /\ Current'[d] = Current[d]
      BY <3>1, <3>2 DEF ChangedAt, Current, TypeOK
    <3>4. QED
      BY <2>1, <2>2, <3>3
  <2>3. QED
    BY <2>1, <2>2
<1>7. FreshMemosAreTrue'
  <2> SUFFICES ASSUME NEW k \in DOMAIN memos PROVE ~Fresh(k)'
    BY DEF FreshMemosAreTrue
  <2>1. memos[k].verifiedAt \in Nat /\ memos[k].verifiedAt <= revision
    BY <1>3 DEF StampsOrdered, Memo, Revisions
  <2>2. QED
    BY <1>1, <2>1 DEF Fresh
<1>8. QED
  BY <1>2, <1>4, <1>5, <1>6, <1>7

LEMMA ConfirmPreserves ==
  ASSUME IInv, NEW k \in Derived, Confirm(k)
  PROVE  IInv'
<1> USE DEF IInv
<1>1. \A r \in DOMAIN memos : memos[r] \in Memo /\ r \in Derived /\ r \notin Inputs
  BY ConstantsAssumption DEF TypeOK
<1>2. revision \in Revisions /\ revision \in Nat
  BY ConstantsAssumption DEF TypeOK, Revisions
<1>3. /\ DOMAIN memos' = DOMAIN memos
      /\ k \in DOMAIN memos
      /\ memos'[k] = [value |-> memos[k].value, changedAt |-> memos[k].changedAt,
                      verifiedAt |-> revision, deps |-> memos[k].deps]
      /\ \A r \in DOMAIN memos \ {k} : memos'[r] = memos[r]
      /\ memos' = [r \in DOMAIN memos |-> memos'[r]]
      /\ UNCHANGED <<revision, inputChanged, world>>
      /\ \A d \in DepsOf(memos[k]) : Settled(d) /\ ChangedAt(d) <= memos[k].verifiedAt
  BY <1>1 DEF Confirm, Memo
<1>4. \A r \in DOMAIN memos : /\ memos'[r].value = memos[r].value
                              /\ memos'[r].deps = memos[r].deps
                              /\ memos'[r].changedAt = memos[r].changedAt
                              /\ memos'[r].verifiedAt >= memos[r].verifiedAt
                              /\ memos'[r].verifiedAt \in Revisions
                              /\ memos'[r].verifiedAt <= revision
  BY <1>1, <1>2, <1>3 DEF Memo, StampsOrdered, Revisions
<1>5. \A d : ChangedAt(d)' = ChangedAt(d) \/ d \notin Inputs \cup DOMAIN memos
  BY <1>3, <1>4 DEF ChangedAt
<1>6. Current' = Current
  BY <1>3, <1>4 DEF Current
<1>7. TypeOK'
  <2>1. \A r \in DOMAIN memos : memos'[r] \in Memo
    BY <1>1, <1>2, <1>3 DEF Memo
  <2>2. QED
    BY <1>3, <2>1 DEF TypeOK
<1>8. StampsOrdered'
  BY <1>1, <1>2, <1>3, <1>4 DEF StampsOrdered, TypeOK, Memo, Revisions
<1>9. DepsVerifiedWithReader'
  <2> SUFFICES ASSUME NEW r \in DOMAIN memos, NEW d \in DepsOf(memos[r]) \cap Derived
               PROVE  d \in DOMAIN memos /\ memos'[d].verifiedAt >= memos'[r].verifiedAt
    BY <1>3, <1>4 DEF DepsVerifiedWithReader, DepsOf
  <2>1. d \in DOMAIN memos /\ memos[d].verifiedAt >= memos[r].verifiedAt
    BY DEF DepsVerifiedWithReader
  <2>2. CASE r = k
    BY <1>2, <1>3, <1>4, <2>1, <2>2, ConstantsAssumption DEF Settled, Fresh, Revisions
  <2>3. CASE r # k
    BY <1>1, <1>3, <1>4, <2>1, <2>3 DEF Memo, Revisions
  <2>4. QED
    BY <2>2, <2>3
<1>10. MemosReplay'
  <2> SUFFICES ASSUME NEW r \in DOMAIN memos
               PROVE  \E vals \in [Keys -> Values \cup {NoValue}] :
                        /\ RunReturns(r, memos[r].deps, vals, memos[r].value)
                        /\ \A d \in DepsOf(memos[r]) :
                             ChangedAt(d)' <= memos'[r].verifiedAt => Current[d] = vals[d]
    BY <1>3, <1>4, <1>6 DEF MemosReplay, DepsOf
  <2>1. PICK vals \in [Keys -> Values \cup {NoValue}] :
          /\ RunReturns(r, memos[r].deps, vals, memos[r].value)
          /\ \A d \in DepsOf(memos[r]) :
               ChangedAt(d) <= memos[r].verifiedAt => Current[d] = vals[d]
    BY DEF MemosReplay
  <2>2. ASSUME NEW d \in DepsOf(memos[r]), ChangedAt(d)' <= memos'[r].verifiedAt
        PROVE  Current[d] = vals[d]
    <3>1. d \in Keys
      BY <1>1, DepsAreKeys
    <3>2. d \in Inputs \cup DOMAIN memos
      BY <3>1 DEF Keys, DepsVerifiedWithReader
    <3>3. CASE r = k
      BY <1>3, <2>1, <3>3
    <3>4. CASE r # k
      BY <1>3, <1>5, <2>1, <2>2, <3>2, <3>4
    <3>5. QED
      BY <3>3, <3>4
  <2>3. QED
    BY <2>1, <2>2
<1>11. FreshMemosAreTrue'
  <2> SUFFICES ASSUME NEW r \in DOMAIN memos, Fresh(r)'
               PROVE  memos[r].value = Truth[world][r]
    BY <1>3, <1>4 DEF FreshMemosAreTrue
  <2>1. CASE r = k
    <3>1. PICK vals \in [Keys -> Values \cup {NoValue}] :
            /\ RunReturns(k, memos[k].deps, vals, memos[k].value)
            /\ \A d \in DepsOf(memos[k]) :
                 ChangedAt(d) <= memos[k].verifiedAt => Current[d] = vals[d]
      BY <1>3 DEF MemosReplay
    <3>2. memos[k].deps \in ReadSeqs /\ memos[k].value \in Values
      BY <1>1, <1>3 DEF Memo
    <3>3. \A n \in 1..Len(memos[k].deps) : memos[k].deps[n] \in DepsOf(memos[k])
      BY <3>2, ReadsAreKeys DEF DepsOf
    <3>4. \A n \in 1..Len(memos[k].deps) : /\ Settled(memos[k].deps[n])
                                           /\ vals[memos[k].deps[n]] = Current[memos[k].deps[n]]
      BY <1>3, <3>1, <3>3
    <3>5. RunReturns(k, memos[k].deps, Current, memos[k].value)
      BY <3>1, <3>2, <3>4, RunDependsOnReads
    <3>6. QED
      BY <2>1, <3>2, <3>4, <3>5, SettledRunIsTrue
  <2>2. CASE r # k
    BY <1>3, <2>2 DEF Fresh, FreshMemosAreTrue
  <2>3. QED
    BY <2>1, <2>2
<1>12. QED
  BY <1>7, <1>8, <1>9, <1>10, <1>11

LEMMA InstallPreserves ==
  ASSUME IInv, NEW k \in Derived, NEW reads \in ReadSeqs, NEW v \in Values,
         Install(k, reads, v)
  PROVE  IInv'
<1> USE DEF IInv
<1> DEFINE m == [value |-> v, changedAt |-> CutoffChangedAt(k, v),
                 verifiedAt |-> revision, deps |-> reads]
<1>1. \A r \in DOMAIN memos : memos[r] \in Memo /\ r \in Derived /\ r \notin Inputs
  BY ConstantsAssumption DEF TypeOK
<1>2. revision \in Revisions /\ revision \in Nat
  BY ConstantsAssumption DEF TypeOK, Revisions
<1>3. /\ ~Fresh(k)
      /\ RunReturns(k, reads, Current, v)
      /\ \A n \in 1..Len(reads) : Settled(reads[n])
      /\ memos' = Remember(k, m)
      /\ UNCHANGED <<revision, inputChanged, world>>
  BY DEF Install
<1>4. /\ DOMAIN memos' = DOMAIN memos \cup {k}
      /\ memos'[k] = m
      /\ \A r \in DOMAIN memos \ {k} : memos'[r] = memos[r]
      /\ memos' = [r \in DOMAIN memos \cup {k} |-> memos'[r]]
  BY <1>3 DEF Remember
<1>5. /\ CutoffChangedAt(k, v) \in Revisions
      /\ CutoffChangedAt(k, v) <= revision
  BY <1>1, <1>2 DEF CutoffChangedAt, Memo, StampsOrdered, Revisions
<1>6. m \in Memo
  BY <1>2, <1>5 DEF Memo
<1>7. DepsOf(m) \subseteq Keys /\ \A d \in DepsOf(m) : Settled(d)
  BY <1>3, <1>6, DepsAreKeys, ReadsAreKeys DEF DepsOf
<1>8. k \in DOMAIN memos => memos[k].verifiedAt < revision
  BY <1>1, <1>2, <1>3 DEF Fresh, StampsOrdered, Memo, Revisions
<1>9. k \notin DepsOf(m)
  BY <1>3, <1>7, ConstantsAssumption DEF Settled
<1>10. TypeOK'
  <2>1. \A r \in DOMAIN memos' : memos'[r] \in Memo
    BY <1>1, <1>4, <1>6
  <2>2. QED
    BY <1>3, <1>4, <2>1 DEF TypeOK
<1>11. StampsOrdered'
  BY <1>2, <1>3, <1>4, <1>5 DEF StampsOrdered
<1>12. DepsVerifiedWithReader'
  <2> SUFFICES ASSUME NEW r \in DOMAIN memos', NEW d \in DepsOf(memos'[r]) \cap Derived
               PROVE  d \in DOMAIN memos' /\ memos'[d].verifiedAt >= memos'[r].verifiedAt
    BY DEF DepsVerifiedWithReader, DepsOf
  <2>1. CASE r = k
    BY <1>2, <1>4, <1>7, <1>9, <2>1, ConstantsAssumption DEF Settled, Fresh
  <2>2. CASE r # k
    <3>1. /\ r \in DOMAIN memos /\ memos'[r] = memos[r] /\ d \in DOMAIN memos
          /\ memos[d].verifiedAt >= memos[r].verifiedAt
      BY <1>4, <2>2 DEF DepsVerifiedWithReader
    <3>2. memos'[d].verifiedAt >= memos[d].verifiedAt
      BY <1>1, <1>2, <1>4, <3>1 DEF StampsOrdered, Memo, Revisions
    <3>3. memos'[d] \in Memo
      BY <1>1, <1>4, <1>6, <3>1
    <3>4. QED
      BY <1>1, <1>4, <3>1, <3>2, <3>3 DEF Memo, Revisions
  <2>3. QED
    BY <2>1, <2>2
<1>13. \A d \in Keys \ {k} : /\ Current'[d] = Current[d]
                             /\ d \in Inputs \cup DOMAIN memos => ChangedAt(d)' = ChangedAt(d)
  BY <1>3, <1>4 DEF ChangedAt, Current
<1>14. MemosReplay'
  <2> SUFFICES ASSUME NEW r \in DOMAIN memos'
               PROVE  \E vals \in [Keys -> Values \cup {NoValue}] :
                        /\ RunReturns(r, memos'[r].deps, vals, memos'[r].value)
                        /\ \A d \in DepsOf(memos'[r]) :
                             ChangedAt(d)' <= memos'[r].verifiedAt => Current'[d] = vals[d]
    BY DEF MemosReplay, DepsOf
  <2>1. CASE r = k
    <3>1. Current \in [Keys -> Values \cup {NoValue}]
      BY <1>1 DEF Current, Memo, TypeOK, Worlds, Keys
    <3>2. \A d \in DepsOf(m) : Current'[d] = Current[d]
      BY <1>7, <1>9, <1>13
    <3>3. QED
      BY <1>3, <1>4, <2>1, <3>1, <3>2
  <2>2. CASE r # k
    <3>1. r \in DOMAIN memos /\ memos'[r] = memos[r]
      BY <1>4, <2>2
    <3>2. PICK vals \in [Keys -> Values \cup {NoValue}] :
            /\ RunReturns(r, memos[r].deps, vals, memos[r].value)
            /\ \A d \in DepsOf(memos[r]) :
                 ChangedAt(d) <= memos[r].verifiedAt => Current[d] = vals[d]
      BY <3>1 DEF MemosReplay
    <3>3. ASSUME NEW d \in DepsOf(memos[r]), ChangedAt(d)' <= memos[r].verifiedAt
          PROVE  Current'[d] = vals[d]
      <4>1. d \in Keys
        BY <1>1, <3>1, DepsAreKeys
      <4>2. CASE d # k
        <5>1. d \in Inputs \cup DOMAIN memos
          BY <3>1, <4>1 DEF Keys, DepsVerifiedWithReader
        <5>2. QED
          BY <1>13, <3>2, <3>3, <4>1, <4>2, <5>1
      <4>3. CASE d = k
        <5>1. /\ k \in DOMAIN memos
              /\ memos[r].verifiedAt <= memos[k].verifiedAt
          BY <3>1, <4>3 DEF DepsVerifiedWithReader
        <5>2. memos[r].verifiedAt \in Nat /\ memos[k].verifiedAt \in Nat
          BY <1>1, <3>1, <5>1 DEF Memo, Revisions
        <5>3. ChangedAt(k)' = CutoffChangedAt(k, v)
          BY <1>1, <1>4, <5>1 DEF ChangedAt
        <5>4. CutoffChangedAt(k, v) # revision
          BY <1>2, <1>8, <3>3, <4>3, <5>1, <5>2, <5>3
        <5>5. memos[k].value = v /\ ChangedAt(k) = CutoffChangedAt(k, v)
          BY <1>1, <5>1, <5>4 DEF CutoffChangedAt, ChangedAt
        <5>6. Current'[k] = Current[k]
          BY <1>1, <1>4, <5>1, <5>5, <4>1, <4>3 DEF Current
        <5>7. QED
          BY <3>2, <3>3, <4>3, <5>3, <5>5, <5>6
      <4>4. QED
        BY <4>2, <4>3
    <3>4. QED
      BY <3>1, <3>2, <3>3
  <2>3. QED
    BY <2>1, <2>2
<1>15. FreshMemosAreTrue'
  <2> SUFFICES ASSUME NEW r \in DOMAIN memos', Fresh(r)'
               PROVE  memos'[r].value = Truth[world][r]
    BY <1>3 DEF FreshMemosAreTrue
  <2>1. CASE r = k
    BY <1>3, <1>4, <2>1, SettledRunIsTrue
  <2>2. CASE r # k
    BY <1>3, <1>4, <2>2 DEF Fresh, FreshMemosAreTrue
  <2>3. QED
    BY <2>1, <2>2
<1>16. QED
  BY <1>10, <1>11, <1>12, <1>14, <1>15

LEMMA StutterPreserves ==
  ASSUME IInv, UNCHANGED vars
  PROVE  IInv'
<1>1. Current' = Current /\ \A d : ChangedAt(d)' = ChangedAt(d)
  BY DEF vars, Current, ChangedAt
<1>2. MemosReplay'
  BY <1>1 DEF IInv, MemosReplay, vars, DepsOf
<1>3. QED
  BY <1>2 DEF IInv, vars, TypeOK, StampsOrdered, DepsVerifiedWithReader, FreshMemosAreTrue,
              Fresh, DepsOf

(* The invariant holds of every behaviour of the abstract engine.          *)
THEOREM Invariance == Spec => []IInv
<1>1. IInv /\ [Next]_vars => IInv'
  BY BumpPreserves, ConfirmPreserves, InstallPreserves, StutterPreserves DEF Next
<1>2. QED
  BY <1>1, InitInvariant, PTL DEF Spec

(* Every variable keeps to its type: stamps are revisions, memos belong to *)
(* derived keys and carry a value and the sequence of keys it read.        *)
THEOREM TypeCorrect == Spec => []TypeOK
<1>1. IInv => TypeOK
  BY DEF IInv
<1>2. QED
  BY <1>1, Invariance, PTL

(* No stale answer: a memo verified at the current revision is what a      *)
(* computation from scratch returns, for every host that obeys the purity  *)
(* rules, through every sequence of edits, revalidations and cutoffs.      *)
THEOREM MemoSoundness == Spec => []FreshMemosAreTrue
<1>1. IInv => FreshMemosAreTrue
  BY DEF IInv
<1>2. QED
  BY <1>1, Invariance, PTL

(* The step form of ChangesAreAnnounced.                                   *)
LEMMA StepAnnouncesChanges ==
  ASSUME IInv, [Next]_vars, NEW k \in DOMAIN memos
  PROVE  /\ k \in DOMAIN memos'
         /\ memos'[k].verifiedAt >= memos[k].verifiedAt
         /\ memos'[k].changedAt >= memos[k].changedAt
         /\ memos'[k].value # memos[k].value =>
              \A r \in DOMAIN memos : k \in DepsOf(memos[r]) =>
                memos'[k].changedAt > memos[r].verifiedAt
<1>1. /\ \A r \in DOMAIN memos : memos[r] \in Memo /\ r \in Derived
      /\ revision \in Nat
      /\ memos[k].changedAt \in Nat /\ memos[k].verifiedAt \in Nat
      /\ memos[k].changedAt <= memos[k].verifiedAt /\ memos[k].verifiedAt <= revision
  BY ConstantsAssumption DEF IInv, TypeOK, Memo, StampsOrdered, Revisions
<1>2. CASE memos' = memos
  BY <1>1, <1>2
<1>3. ASSUME NEW c \in Derived, Confirm(c)
      PROVE  /\ k \in DOMAIN memos'
             /\ memos'[k].value = memos[k].value
             /\ memos'[k].changedAt = memos[k].changedAt
             /\ memos'[k].verifiedAt >= memos[k].verifiedAt
  BY <1>1, <1>3 DEF Confirm, Memo
<1>4. ASSUME NEW c \in Derived, NEW reads \in ReadSeqs, NEW v \in Values, Install(c, reads, v)
      PROVE  /\ k \in DOMAIN memos'
             /\ memos'[k].verifiedAt >= memos[k].verifiedAt
             /\ memos'[k].changedAt >= memos[k].changedAt
             /\ memos'[k].value # memos[k].value =>
                  /\ memos'[k].changedAt = revision
                  /\ memos[k].verifiedAt < revision
  <2>1. /\ k \in DOMAIN memos'
        /\ k # c => memos'[k] = memos[k]
        /\ k = c => memos'[k] = [value |-> v, changedAt |-> CutoffChangedAt(k, v),
                                 verifiedAt |-> revision, deps |-> reads]
    BY <1>4 DEF Install, Remember
  <2>2. CASE k # c
    BY <1>1, <2>1, <2>2
  <2>3. CASE k = c
    <3>1. memos[k].verifiedAt < revision
      BY <1>1, <1>4, <2>3 DEF Install, Fresh
    <3>2. QED
      BY <1>1, <2>1, <2>3, <3>1 DEF CutoffChangedAt
  <2>4. QED
    BY <2>2, <2>3
<1>5. ASSUME NEW r \in DOMAIN memos, k \in DepsOf(memos[r]), memos[k].verifiedAt < revision
      PROVE  revision > memos[r].verifiedAt
  <2>1. memos[k].verifiedAt >= memos[r].verifiedAt
    BY <1>1, <1>5 DEF IInv, DepsVerifiedWithReader
  <2>2. memos[r].verifiedAt \in Nat
    BY <1>1 DEF Memo, Revisions
  <2>3. QED
    BY <1>1, <1>5, <2>1, <2>2
<1>6. CASE Next
  <2>1. CASE \E i \in Inputs, v \in Values : BumpInput(i, v)
    BY <1>2, <2>1 DEF BumpInput
  <2>2. CASE \E c \in Derived : Confirm(c)
    BY <1>1, <1>3, <2>2
  <2>3. CASE \E c \in Derived, reads \in ReadSeqs, v \in Values : Install(c, reads, v)
    BY <1>4, <1>5, <2>3
  <2>4. QED
    BY <1>6, <2>1, <2>2, <2>3 DEF Next
<1>7. QED
  BY <1>2, <1>6 DEF vars

(* Stamps can be trusted: no step changes a memo's value under a reader    *)
(* that could still be confirmed, drops a memo, or takes a stamp back.     *)
THEOREM ChangesAnnounced == Spec => ChangesAreAnnounced
<1>1. IInv /\ [Next]_vars =>
        [\A k \in DOMAIN memos :
           /\ k \in DOMAIN memos'
           /\ memos'[k].verifiedAt >= memos[k].verifiedAt
           /\ memos'[k].changedAt >= memos[k].changedAt
           /\ memos'[k].value # memos[k].value =>
                \A r \in DOMAIN memos : k \in DepsOf(memos[r]) =>
                  memos'[k].changedAt > memos[r].verifiedAt]_vars
  BY StepAnnouncesChanges
<1>2. QED
  BY <1>1, Invariance, PTL DEF Spec, ChangesAreAnnounced
===============================================================================
