------------------------------ MODULE QueryEngine ------------------------------
(***************************************************************************)
(* The red-green query engine of tuo-db (src/crates/tuo-db/src/engine.rs), *)
(* one action per step of its control: fetch, recompute,                   *)
(* deps_unchanged_since and revalidate_memoized call each other and the    *)
(* host recursively, so a state holds the stack of their activations.      *)
(*                                                                         *)
(*   validate  deps_unchanged_since over the memo of key, about to look at *)
(*             dependency number next (its caller, fetch or                *)
(*             revalidate_memoized, continues the same way)                *)
(*   compute   recompute of key: host.compute is running and its reads so  *)
(*             far returned the sequence seen                              *)
(*                                                                         *)
(* The engine is single-threaded (it is built of Cells), so only the host  *)
(* acts between two of its steps: between queries, where it may change     *)
(* inputs, and inside host.compute, where it holds a shared borrow and may *)
(* only request or clear cancellation.                                     *)
(***************************************************************************)
EXTENDS Naturals, Sequences, Functions

CONSTANTS
  Inputs,         \* the host's input keys
  Derived,        \* the host's derived query keys
  Values,         \* what an input holds and what a query returns
  InitialWorld,   \* the inputs before the host has set any of them
  Step(_, _, _),  \* the host: Step(k, seen, world) is the next move of query
                  \* k once its reads so far have returned the sequence seen
  MaxRevision     \* bound on the revision counter

Keys   == Inputs \cup Derived
Worlds == [Inputs -> Values]

VARIABLES
  revision,      \* bumped once per input change
  inputChanged,  \* the revision at which each input last changed, 0 if never
  world,         \* the inputs' values, which the host owns
  memos,         \* the memoized results: a function on some derived keys
  active,        \* the derived queries executing, for cycle detection
  frames,        \* the dependency-recording frames
  cancelled,     \* the cooperative cancellation flag
  calls,         \* the activations, innermost last
  ret            \* what the last activation to end returned, until it is used

inputVars == <<revision, inputChanged, world>>
vars == <<revision, inputChanged, world, memos, active, frames, cancelled, calls, ret>>

Revisions == 0..MaxRevision
Memo == [value : Values, changedAt : Revisions, verifiedAt : Revisions, deps : Seq(Keys)]

(* The prior memo a recomputation is compared with, as a sequence that is  *)
(* empty when there is none.                                               *)
Option(S) == {s \in Seq(S) : Len(s) <= 1}

Activation ==
  [op : {"validate"}, key : Derived, memo : Memo, next : Nat \ {0}]
    \cup [op : {"compute"}, key : Derived, existing : Option(Memo), seen : Seq(Values)]

Validate(k)          == [op |-> "validate", key |-> k, memo |-> memos[k], next |-> 1]
Compute(k, existing) == [op |-> "compute", key |-> k, existing |-> existing, seen |-> <<>>]

(* Results carry the key they answer; the code's do not, the caller knows. *)
Nothing         == [tag |-> "nothing"]
Answer(k, v, c) == [tag |-> "ok", key |-> k, value |-> v, changedAt |-> c]
Error(k, why)   == [tag |-> "error", key |-> k, why |-> why]
Panic(k)        == [tag |-> "panic", key |-> k]

Results ==
  {Nothing}
    \cup [tag : {"ok"}, key : Derived, value : Values, changedAt : Revisions]
    \cup [tag : {"error"}, key : Keys, why : {"Cancelled", "Failed"}]
    \cup [tag : {"panic"}, key : Derived]

(* The host's moves. *)
Reads(d)   == [op |-> "read", key |-> d]
Returns(v) == [op |-> "done", value |-> v]
Fails      == [op |-> "fail"]

Pop(s)         == SubSeq(s, 1, Len(s) - 1)
Top(s)         == s[Len(s)]
ReplaceTop(s, e) == [s EXCEPT ![Len(s)] = e]

(* A bug: the edge goes to the outermost frame. *)
RecordEdgeOutermost(k) ==
  IF frames = <<>> THEN frames ELSE [frames EXCEPT ![1] = Append(@, k)]

(* An edge is recorded on the innermost frame, if there is one. *)
RecordEdge(k) ==
  IF frames = <<>> THEN frames ELSE ReplaceTop(frames, Append(Top(frames), k))

Memoized(k)   == k \in DOMAIN memos
Verified(k)   == Memoized(k) /\ memos[k].verifiedAt = revision

(* A bug: a memo confirmed, but not changed, in this revision is not reused. *)
ReusableIfChanged(k) == Memoized(k) /\ memos[k].changedAt = revision

(* The shortcut of fetch and revalidate_memoized: nothing left to check. *)
Reusable(k) == Verified(k)

AnswerOf(k)   == Answer(k, memos[k].value, memos[k].changedAt)

Running(op)   == calls # <<>> /\ Top(calls).op = op
Idle          == calls = <<>> /\ ret.tag # "panic"

(* Host code is running: between queries, or in host.compute while no read *)
(* is outstanding.                                                         *)
HostRuns == Idle \/ (Running("compute") /\ ret = Nothing)

Init ==
  /\ revision = 0
  /\ inputChanged = [i \in Inputs |-> 0]
  /\ world = InitialWorld
  /\ memos = [k \in {} |-> Nothing]
  /\ active = <<>>
  /\ frames = <<>>
  /\ cancelled = FALSE
  /\ calls = <<>>
  /\ ret = Nothing

-----------------------------------------------------------------------------
(* The host, between queries and inside them.                              *)

BumpInput(i, v) ==
  /\ Idle
  /\ revision < MaxRevision
  /\ world' = [world EXCEPT ![i] = v]
  /\ revision' = revision + 1
  /\ inputChanged' = [inputChanged EXCEPT ![i] = revision + 1]
  /\ ret' = Nothing
  /\ UNCHANGED <<memos, active, frames, cancelled, calls>>

RequestCancellation ==
  /\ HostRuns
  /\ cancelled' = TRUE
  /\ UNCHANGED <<revision, inputChanged, world, memos, active, frames, calls, ret>>

ClearCancellation ==
  /\ HostRuns
  /\ cancelled' = FALSE
  /\ UNCHANGED <<revision, inputChanged, world, memos, active, frames, calls, ret>>

-----------------------------------------------------------------------------
(* fetch and recompute.                                                    *)

(* recompute(k): its activation runs on the stack cs, over the frames fs.  *)
StartCompute(k, existing, cs, fs) ==
  /\ calls' = Append(cs, Compute(k, existing))
  /\ active' = Append(active, k)
  /\ frames' = Append(fs, <<>>)
  /\ ret' = Nothing

(* fetch(k) on behalf of the host, whose frame (if any) gets the edge.     *)
Fetch(k) ==
  /\ UNCHANGED <<revision, inputChanged, world, memos, cancelled>>
  /\ \/ /\ cancelled
        /\ ret' = Error(k, "Cancelled")
        /\ UNCHANGED <<active, frames, calls>>
     \/ /\ ~cancelled
        /\ k \in Range(active)
        /\ ret' = Panic(k)
        /\ frames' = RecordEdge(k)
        /\ UNCHANGED <<active, calls>>
     \/ /\ ~cancelled
        /\ k \notin Range(active)
        /\ Reusable(k)
        /\ ret' = AnswerOf(k)
        /\ frames' = RecordEdge(k)
        /\ UNCHANGED <<active, calls>>
     \/ /\ ~cancelled
        /\ k \notin Range(active)
        /\ Memoized(k) /\ ~Reusable(k)
        /\ calls' = Append(calls, Validate(k))
        /\ frames' = Append(RecordEdge(k), <<>>)
        /\ ret' = Nothing
        /\ UNCHANGED active
     \/ /\ ~cancelled
        /\ k \notin Range(active)
        /\ ~Memoized(k)
        /\ StartCompute(k, <<>>, calls, RecordEdge(k))

(* The entry point: the host asks for k while nothing is executing.        *)
Query(k) == Idle /\ Fetch(k)

(* The next move of the running host.compute.                              *)
HostMove == Step(Top(calls).key, Top(calls).seen, world)

SeeValue(v) ==
  /\ calls' = ReplaceTop(calls, [Top(calls) EXCEPT !.seen = Append(@, v)])
  /\ ret' = Nothing

HostAsksFor(keys) ==
  /\ Running("compute") /\ ret = Nothing
  /\ HostMove.op = "read" /\ HostMove.key \in keys

(* host.compute queries a derived dependency.                              *)
HostReadsQuery ==
  /\ HostAsksFor(Derived)
  /\ Fetch(HostMove.key)

(* host.compute depends on an input, then reads the value it holds itself. *)
HostReadsInput ==
  /\ HostAsksFor(Inputs)
  /\ LET i == HostMove.key
     IN IF cancelled
          THEN /\ ret' = Error(i, "Cancelled")
               /\ UNCHANGED <<frames, calls>>
          ELSE /\ frames' = RecordEdge(i)
               /\ SeeValue(world[i])
  /\ UNCHANGED <<revision, inputChanged, world, memos, active, cancelled>>

(* A query the host asked for returned.                                    *)
HostReceives ==
  /\ Running("compute") /\ ret.tag = "ok"
  /\ SeeValue(ret.value)
  /\ UNCHANGED <<revision, inputChanged, world, memos, active, frames, cancelled>>

(* A bug: the error leaves recompute before the active stack is popped. *)
AbandonComputeEarly(why) ==
  /\ calls' = Pop(calls)
  /\ frames' = Pop(frames)
  /\ ret' = Error(Top(calls).key, why)
  /\ UNCHANGED <<revision, inputChanged, world, memos, active, cancelled>>

(* recompute ends with an error, the host's own or one it propagated: the  *)
(* two stacks are popped and the old memo, if any, stays as it was.        *)
AbandonCompute(why) ==
  /\ calls' = Pop(calls)
  /\ active' = Pop(active)
  /\ frames' = Pop(frames)
  /\ ret' = Error(Top(calls).key, why)
  /\ UNCHANGED <<revision, inputChanged, world, memos, cancelled>>

HostFails ==
  /\ Running("compute") /\ ret = Nothing
  /\ HostMove = Fails
  /\ AbandonCompute("Failed")

HostPropagates ==
  /\ Running("compute") /\ ret.tag = "error"
  /\ AbandonCompute(ret.why)

(* A bug: every recomputation keeps the prior changed_at. *)
CutoffAlways(existing, v) ==
  IF existing # <<>> THEN existing[1].changedAt ELSE revision

(* A bug: a changed value is announced one revision late. *)
CutoffLate(existing, v) ==
  IF existing # <<>> /\ existing[1].value = v THEN existing[1].changedAt ELSE revision + 1

(* Early cutoff: a value equal to the prior memo's keeps its changed_at.   *)
CutoffChangedAt(existing, v) ==
  IF existing # <<>> /\ existing[1].value = v THEN existing[1].changedAt ELSE revision

(* recompute ends with a value: its memo is installed.                     *)
HostReturns ==
  /\ Running("compute") /\ ret = Nothing
  /\ HostMove.op = "done"
  /\ LET k == Top(calls).key
         v == HostMove.value
         c == CutoffChangedAt(Top(calls).existing, v)
         m == [value |-> v, changedAt |-> c, verifiedAt |-> revision, deps |-> Top(frames)]
     IN /\ memos' = [d \in DOMAIN memos \cup {k} |-> IF d = k THEN m ELSE memos[d]]
        /\ ret' = Answer(k, v, c)
  /\ calls' = Pop(calls)
  /\ active' = Pop(active)
  /\ frames' = Pop(frames)
  /\ UNCHANGED <<revision, inputChanged, world, cancelled>>

-----------------------------------------------------------------------------
(* deps_unchanged_since and revalidate_memoized.                           *)

Dep == Top(calls).memo.deps[Top(calls).next]

DepsLeft == Top(calls).next <= Len(Top(calls).memo.deps)

(* A bug: compared with when the memo changed, not when it was verified. *)
DepChangedSinceValue(c) == c > Top(calls).memo.changedAt

(* The dependency in hand, last changed at c, changed since the memo was   *)
(* verified.                                                               *)
DepChanged(c) == c > Top(calls).memo.verifiedAt

(* A bug: the loop over the dependencies never advances. *)
SameDep == Top(calls)

NextDep == [Top(calls) EXCEPT !.next = @ + 1]

(* Go on with the next dependency, or stop at the first that changed and   *)
(* recompute.                                                              *)
JudgeDep(c) ==
  IF DepChanged(c)
    THEN StartCompute(Top(calls).key, <<Top(calls).memo>>, Pop(calls), Pop(frames))
    ELSE /\ calls' = ReplaceTop(calls, NextDep)
         /\ ret' = Nothing
         /\ UNCHANGED <<active, frames>>

(* A dependency without a memo is taken for an input.                      *)
CheckInput ==
  /\ Running("validate") /\ ret = Nothing /\ DepsLeft
  /\ ~Memoized(Dep)
  /\ JudgeDep(IF Dep \in Inputs THEN inputChanged[Dep] ELSE 0)
  /\ UNCHANGED <<revision, inputChanged, world, memos, cancelled>>

(* revalidate_memoized of a derived dependency.  Unlike fetch it records   *)
(* no edge and does not look at the active stack.                          *)
CheckQuery ==
  /\ Running("validate") /\ ret = Nothing /\ DepsLeft
  /\ Memoized(Dep)
  /\ UNCHANGED <<revision, inputChanged, world, memos, active, cancelled>>
  /\ \/ /\ cancelled
        /\ ret' = Error(Dep, "Cancelled")
        /\ UNCHANGED <<frames, calls>>
     \/ /\ ~cancelled /\ Reusable(Dep)
        /\ ret' = AnswerOf(Dep)
        /\ UNCHANGED <<frames, calls>>
     \/ /\ ~cancelled /\ ~Reusable(Dep)
        /\ calls' = Append(calls, Validate(Dep))
        /\ frames' = Append(frames, <<>>)
        /\ ret' = Nothing

(* The revalidated dependency returned its changed_at.                     *)
CheckReturns ==
  /\ Running("validate") /\ ret.tag = "ok"
  /\ JudgeDep(ret.changedAt)
  /\ UNCHANGED <<revision, inputChanged, world, memos, cancelled>>

(* Revalidating a dependency failed: so does validating its reader.        *)
CheckFails ==
  /\ Running("validate") /\ ret.tag = "error"
  /\ calls' = Pop(calls)
  /\ frames' = Pop(frames)
  /\ ret' = Error(Top(calls).key, ret.why)
  /\ UNCHANGED <<revision, inputChanged, world, memos, active, cancelled>>

(* No dependency changed: the memo is verified at the current revision.    *)
ConfirmMemo ==
  /\ Running("validate") /\ ret = Nothing /\ ~DepsLeft
  /\ LET k == Top(calls).key
     IN /\ memos' = [memos EXCEPT ![k].verifiedAt = revision]
        /\ ret' = AnswerOf(k)
  /\ calls' = Pop(calls)
  /\ frames' = Pop(frames)
  /\ UNCHANGED <<revision, inputChanged, world, active, cancelled>>

-----------------------------------------------------------------------------
(* One step of the engine, or of the host code it called back into.        *)
EngineStep ==
  \/ HostReadsQuery
  \/ HostReadsInput
  \/ HostReceives
  \/ HostFails
  \/ HostPropagates
  \/ HostReturns
  \/ CheckInput
  \/ CheckQuery
  \/ CheckReturns
  \/ CheckFails
  \/ ConfirmMemo

Next ==
  \/ \E k \in Derived : Query(k)
  \/ \E i \in Inputs, v \in Values : BumpInput(i, v)
  \/ RequestCancellation
  \/ ClearCancellation
  \/ EngineStep

Spec == Init /\ [][Next]_vars

(* A query that was entered is run to its end by the thread that asked.    *)
FairSpec == Spec /\ WF_vars(EngineStep)

-----------------------------------------------------------------------------
TypeOK ==
  /\ revision \in Revisions
  /\ inputChanged \in [Inputs -> Revisions]
  /\ world \in Worlds
  /\ DOMAIN memos \subseteq Derived
  /\ memos \in [DOMAIN memos -> Memo]
  /\ active \in Seq(Derived)
  /\ frames \in Seq(Seq(Keys))
  /\ cancelled \in BOOLEAN
  /\ calls \in Seq(Activation)
  /\ ret \in Results

Computing(c) == c.op = "compute"

(***************************************************************************)
(* The pushes and pops of active and frames match on every path out of an  *)
(* activation, errors and cancellation included: each activation owns one  *)
(* frame, the frame of a validation stays empty, the active stack is the   *)
(* keys being computed, in their order (its entry number j is the key of   *)
(* activation number at[j]), and a finished query leaves nothing behind.   *)
(***************************************************************************)
AlignedBy(at) ==
  /\ \A i, j \in DOMAIN active : i < j => at[i] < at[j]
  /\ \A j \in DOMAIN active : Computing(calls[at[j]]) /\ active[j] = calls[at[j]].key
  /\ \A i \in DOMAIN calls : Computing(calls[i]) => \E j \in DOMAIN active : at[j] = i

StacksAligned ==
  /\ Len(frames) = Len(calls)
  /\ \E at \in [DOMAIN active -> DOMAIN calls] : AlignedBy(at)
  /\ \A i \in DOMAIN calls :
       IF Computing(calls[i]) THEN Len(frames[i]) - Len(calls[i].seen) \in 0..1
                              ELSE frames[i] = <<>>

(***************************************************************************)
(* No key has two activations at once, and none that is being validated or *)
(* computed is already verified: within a revision a query is computed to  *)
(* its end at most once, however many readers share it.                    *)
(***************************************************************************)
WorkIsNotRepeated ==
  \A i \in DOMAIN calls :
    /\ ~Verified(calls[i].key)
    /\ \A j \in DOMAIN calls : i # j => calls[i].key # calls[j].key

(* A query that was asked for is answered, or fails: no path of the engine *)
(* waits for anything.                                                     *)
QueriesEnd == (calls # <<>>) ~> (calls = <<>>)
===============================================================================
