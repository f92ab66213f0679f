# TLA+ verification of tuonelang

Specifications of the stateful core of the tuonelang compiler and of the runtime
its programs are linked with: what they promise, how the code does it, TLC runs
over small instances, and TLAPS proofs for every instance.

Paths are relative to the repository; `ENG` is `src/crates/tuo-db/src/engine.rs`,
`INC` is `src/crates/tuo-compiler/src/incremental.rs`, `EFF` is
`src/crates/tuo-runtime/src/effect.rs`, `MAP` is `src/crates/tuo-runtime/src/map.rs`, `OWN` is
`src/crates/tuo-ownership/src/check.rs`, `LOW` is `src/crates/tuo-mir/src/lower.rs`,
`VER` is `src/crates/tuo-mir/src/verify.rs`, `RSV` is
`src/crates/tuo-package/src/resolve.rs`, `PKG` is `src/crates/tuo-cli/src/package.rs`. `PROJECT.json` maps each definition to
the lines it stands for.

    tlc -workers 2 -config MCRedGreen.cfg MCRedGreen     # likewise for each cfg
    tlapm RedGreenProofs.tla                             # likewise for each *Proofs module

## 1. The system

tuonelang is an ahead-of-time compiler in Rust. Text goes through lexer, parser,
name resolution, type and ownership checking to MIR, which an interpreter runs
(for colocated `spec` blocks) and two backends translate. Most of these passes are
pure functions of a program. State that lives from one request to the next is in
memory in three places (the package commands also keep a manifest and a lockfile
on disk):

1. the **query engine** (`tuo-db`), which memoizes query results across edits;
2. the **incremental session** (`tuo-compiler`), the engine's host, through which
   the CLI, the language server and the agent server compile;
3. the **runtime** of compiled programs (`tuo-runtime`): threads, channels,
   mutexes, sockets, the hash map. It is C source generated by Rust.

The compiler is single-threaded (the engine is made of `Cell`s), so what is hard
there is not preemption but *staleness over long histories* and *recursion through
callbacks*: the engine calls the host, which calls the engine, which may be
cancelled or fail at any depth. Real concurrency is in the runtime alone.

What the compiler *does* is in its middle: the ownership checker decides which
programs are memory safe, lowering turns that decision into drops at every scope
end and early exit, the verifier audits the result, the optimiser rewrites it, and
a backend emits code that trusts all of them and checks nothing. Each stage keeps an
account of its own of what is moved and what is live, and memory safety is that these
accounts agree on every path of every program.

### Components

**Query engine** (`ENG`). State: a revision; the revision each input last changed
at; memos `{value, changed_at, verified_at, deps}`; the active-query stack; the
stack of dependency frames; a cancellation flag. Operations: `bump_input`,
`query`/`fetch`, `depend_on_input`, `recompute`, `deps_unchanged_since`,
`revalidate_memoized`, `request_cancellation`, `clear_cancellation`. It calls
`QueryHost::compute`, which re-enters it. Hard: early cutoff keeps old stamps, so
a wrong one does harm many edits later; old edges are walked after an edit made
them meaningless; errors unwind two stacks. Correct when: a verified memo is what
a computation from scratch gives; nothing unrelated to an edit is rerun; every
path leaves the stacks as it found them; every query ends.

**Incremental session** (`INC`). State: the texts, an engine, a whole-program
snapshot (a cache of a function of the texts). Operations: `set_file`, ten queries
(`parse`, `interface_of`, `type_of`, `mir_of`, `spec_dependencies`, ...),
`affected_specs`, cancellation. Hard: a query *slices* its value out of the
snapshot, so it may use more of the program than it reads through the engine;
symbol ids are positions and shift with edits; `affected_specs` is one query per
spec. Correct when: what each query returns is what it would return with no memo;
a selection of affected specs contains all that may behave differently.

**Name resolution** (`tuo-resolve`), **type checker** (`tuo-types`): pure; the
session sees symbol ids in declaration order, the scope that files of one module
share, spec dependencies, and acceptance.

**Ownership checker** (`OWN`, `place.rs`, `env.rs`). State, during the walk over a
body: the abnormal places and what is wrong with them, the scopes, the open loops
with the states they are left and continued in, live views of strings, whether the
path diverged. Operations: one per form of expression. Hard: what two paths disagree
about when they join; the second iteration of a loop; several arguments of one call.
Correct when: what it accepts can be compiled, and nothing is used after it is gone.

**MIR, optimiser, verifier** (`tuo-mir`). Lowering (`LOW`): blocks under construction,
the scopes and their locals, which locals are uninitialised and which places moved,
the loops. The verifier (`VER`): sets of initialised locals per program point, solved
to a fixed point. The optimiser (`opt/`): four passes, repeated until nothing
changes. Hard: drops on every path, temporaries of operands already evaluated when a
later one leaves; passes that invalidate each other's facts. Correct when: what the
checker accepts is lowered and verified, nothing is leaked or freed twice, and no
pass changes what the program does or makes a program the verifier refuses.

**MIR interpreter** (`tuo-mir-interp`). Frames of slots, a fuel counter, write-back of
lent places. Correct when: it never meets a state the verifier rules out.

**Code generators** (`tuo-codegen-cranelift`, `tuo-codegen-llvm`). Stack slots,
addresses, drop glue; nothing is checked at run time but arithmetic. Correct when: the
process ends as the interpreter does, and frees each buffer once.

**Concurrency runtime** (`EFF`, 392-500 and 960-1150). State: per `par_map` call
a worker count, a job array, thread handles, a result array; process-wide
registries of channels (linked list, lock, condition variable, `closed`) and
error-checking mutexes. Operations: `tuo_rt_par_map`, `chan_new`, `send`, `recv`,
`close`, `mutex_new`, `lock`, `unlock`. Hard: everything. Correct when: channels
are FIFO queues that lose and repeat nothing, no wakeup is lost, mutexes exclude
even when programs misuse them, and `par_map` returns with every task done once.

**I/O runtime** (`EFF`, the rest). TCP and UDP sockets, files, clock, processes;
bounded waits and the sixteen UDP staging slots carry the state. Operations:
`udp_bind`, `udp_recv`, `udp_byte_at`, `udp_peer_port`, `listen`, `accept_timeout`,
`connect_timeout`, `read_byte_timeout`, `close`, and others without state. Hard:
signals in a wait, a descriptor number that is given out again, two threads and a
table without a lock, what poll announced and another took. Correct when: a bounded
wait is bounded, a datagram is given to the socket it came for, nothing is leaked.

**Hash map runtime** (`MAP`). State of a map: a header (pointer, live count, capacity) and
one block with the entries in the order they came, a byte per entry that says whether it
is live, and an index of slots with open addressing. Operations: `insert`, `get` (and
`contains_key`), `remove`, `keys`, `drop`, for keys of two kinds. Hard: tombstones, which
probes pass and only a rehome reclaims; when to compact and when to double; the order of
the entries, which programs see. Correct when: it is the association list of the
interpreter, and every probe ends.

**Allocator seam** (`alloc.rs`, `abi.rs`). A decision table.

**Database facade** (`tuo-db/src/db.rs`). A second, smaller host of the engine.

**Package manager** (`tuo-package`, `PKG`). State, all of it on disk: each directory's
manifest and modules, the root's lockfile. Operations: `add`, `remove`, the compile commands
(resolve, hold to the lockfile, write it anew, compile), `package symbols`. Hard: a graph
walked while its files are edited, cycles and two sources of one name, a command that stops
between two writes or within one. Correct when: resolution finds exactly what is in reach,
and bytes that the lockfile pins are not replaced in silence.

**Language server, agent protocol, CLI** (`tuo-lsp`, `tuo-agent`, `tuo-cli`).
Request loops over the session.

**Pure or passive**: source map, lexer, syntax, parser, AST, HIR, spec runner,
formatter, diagnostics, standard library, corpus, fuzzing, benchmarks, tools,
training. See `PROJECT.json` for each one's status and the reason.

### Hazards

`PROJECT.json` lists forty, each at its line. The properties below were chosen
from that list; one entry has none, with the reason.

## 2. The modules

    RedGreen  <---implements---  QueryEngine  <---instance---  IncrementalSession
        ^                          ^                               ^
        |                  QueryEngineSpec                         |
    RedGreenProofs <--+            ^                    MCSession, SessionProofs
    MCRedGreen        |    MCQueryEngine
        ^             |            ^
        +--- SmallHost ------------+
                      +-- QueryEngineProofs (extends QueryEngineSpec)

    Fifo      <---implements---  RtPool  <---  MCRtPool        RtNet  <---  MCRtNet
                                   ^                             ^
                              RtPoolProofs                  RtNetProofs

    OrderedMap  <---implements---  RtMap  <---  MCRtMap
                                     ^
                                RtMapProofs

    PackageResolve  <---  MCPackageResolve, PackageResolveProofs

    Places  <---  Syntax  <---  OwnershipCheck  ----+
      ^  ^          ^                               |
      |  |          +--- MirLower ------------------+--->  Compiler  <---  MCCompiler
      |  +--- Mir <-----+                           |
      |        ^-- MirVerify, MirOpt, MirInterp, ---+
      |                ^      NativeCode
      |                |
      |             MirFlow
      +-- CompilerProofs --^

### RedGreen: what the engine promises

The abstract engine: revision, input stamps, the inputs' values, memos. Three
actions: `BumpInput`; `Confirm` (the green path of `fetch` and
`revalidate_memoized`, `ENG` 376-391 and 495-502); `Install` (the end of
`recompute`, with early cutoff, `ENG` 397-441). It has no stacks and no recursion:
*any* memo may be confirmed or installed whenever its dependencies stand. That is
enough for soundness, and it is what `RedGreenProofs` proves about.

A host is an operator `Step(k, seen)`: the next move of query `k` after its reads
returned `seen` - read another key, return a value, or fail. This is purity rule 2
of `tuo-db/src/lib.rs` ("every read is tracked"). `Truth[w][k]` is any meaning
of the queries that agrees with their runs.

### QueryEngine: how the code does it

One action per step of the code's control; `calls` is the stack of activations of
the mutually recursive functions, `ret` what the last one returned.

| code | actions |
|---|---|
| `bump_input`, `request_cancellation`, `clear_cancellation` | `BumpInput`, `RequestCancellation`, `ClearCancellation` |
| `query`, `fetch` | `Query`, `Fetch` (five cases: cancelled, cycle panic, reusable, validate, compute) |
| `recompute`, `host.compute` | `StartCompute`, `HostReadsQuery`, `HostReadsInput`, `HostReceives`, `HostFails`, `HostPropagates`, `HostReturns` |
| `deps_unchanged_since` | `CheckInput`, `CheckQuery`, `CheckReturns`, `CheckFails` |
| the end of `fetch` / `revalidate_memoized` | `ConfirmMemo`, or `JudgeDep` that starts a recomputation |

Cancellation may be switched by any host code, so between queries and inside
`compute`. Inputs can change only between queries: `bump_input` takes `&mut self`.

A panic leaves the state as it is: `ret` keeps it and nothing is enabled but the
client's own code, which does not run. A host whose queries do not read each other in a
circle never gets there, which is part of `AnswersAreTrue`.

`QueryEngineSpec` adds the abstract instance, the properties that need `Truth`, and what
a host owes the engine: `HostIsClosed` (purity rule 2: the next move depends on what was
read), `HostIsTotal` (rule 6), `TruthIsMeaning`, and `HostIsAcyclic`: over any *one* state
of the inputs the queries can be ranked (`ENG` 369-372 asserts it). The ranking may differ
from one state to the next, so a query may read another today that read it yesterday.

### IncrementalSession: the real host

`QueryEngine` with the host of `INC` in place of its parameters (`INSTANCE ... WITH`): ten
key kinds, `ReadsOf` (what each `compute` arm reads, in order), `Slice` (what it cuts out of
the snapshot), and a client that edits, asks, calls `affected_specs` and switches
cancellation. `Step` gets the world as third argument because a slice may look at the whole
program.

Programs are abstracted to what slices tell apart: a text is a sequence of items
(functions and specs with the names they mention), a flag "has an error", and the
target its import binds the type name `T` to. All files are in one module; the
structs `P` and `Q` that an import may name live elsewhere. Parameters and locals
get symbol ids after the items' and are not followed. The passes over the items are stated by
what they leave, as sets (`Sites`, `Declared`) that `InOrder` numbers: the ids are the places
of the declared items in file and line order. Digests and fingerprints are
taken as injective.

### Fifo and RtPool

`Fifo`: numbered queues, closed flags, and per value how often it was accepted and
received. `RtPool`: the C code of `EFF`. A program is `main`'s calls, then a
`par_map` over tasks that are straight-line call sequences (`drain` receives until
it fails, the loop of the repository's worker examples).

| code | actions |
|---|---|
| `tuo_rt_chan_new` / `send` / `recv` / `close` | `ChanNew`, `ChanSend`, `ChanRecv`, `ChanClose`, `SpuriousWakeup` |
| `tuo_rt_mutex_new` / `lock` / `unlock` | `MutexNew`, `MutexLock`, `MutexUnlock` |
| `tuo_rt_par_run` | `TaskReturns` (next task of the partition, or thread exit) |
| `tuo_rt_par_map` | `EnterParMap`, `StartWorker` (thread or inline), `RunOwnPartition`, `JoinWorker`, `LeaveParMap` |

A call is one step. The code looks a handle up under the registry's lock, then
works under the channel's lock; a registered handle is never released, so nothing
can come between the two that a call could notice, and a node is allocated before
and freed after the critical section, when only one thread knows it. The wait in
`recv` splits the call: sleeping and looking again are separate steps, and
`SpuriousWakeup` is always possible. Channels really are lists of heap nodes, so
that a bad `tail` shows. `Fifo` sees them through `Queues`, the values of the list that
starts at a channel's head (`NodesFrom`), and counts `Sent` and `Received` over the calls that
returned (`ReturnedCalls`), so that what a caller was told is part of the refinement.

### RtNet: sockets with bounded waits

Threads run straight-line calls; `main`'s first, then one task on each thread. The
slot table has no lock in the code, so what a call does to it is split at every read
and write; a wait in `poll`, and the blocking call after it, are steps of their own.

| code (`EFF`) | actions |
|---|---|
| `udp_bind`, `listen`, `close` | `BindOrListen`, `Close` |
| `tuo_rt_poll_until` | `Wait`/`Remaining`/`ToInt`, then `PollReady`, `PollTimesOut`, `PollInterrupted` |
| `connect_timeout`, `accept_timeout`, `read_byte_timeout` | `StartConnect`, `FinishConnect`; `StartWait`, `Accept`, `Read` |
| `udp_recv`, `tuo_rt_udp_slot_for` | `StartWait`, `FindSlot`, `FindFreeSlot`, `ClaimSlot`, `ReceiveFrom`, `StoreLength` |
| `udp_byte_at`, `udp_peer_port` | `ReadStaged` |

The environment (external): `Tick` advances the clock in steps and passes no instant at
which a poll ends; `Arrive` delivers datagrams, peers and bytes in any order or never;
`Discard` throws away a datagram that poll announced (as a kernel does on a bad
checksum); `Resolve` settles a connect. `ToInt` cuts to `int` as the cast at 756 does.
`ProgramsAssumption` says what a program of the model is: its waits have times, a call is on a
variable that `main` or an earlier call of its own task opened a socket for (the language has no
variable without a value), and each call that opens a socket has a variable of its own, so the
program itself loses no descriptor.
`StoreLength` reports the true length of a datagram that does not fit or the length copied:
`EFF` 841-843 expects the first of `recvfrom`, which a kernel only owes with `MSG_TRUNC`.

### OrderedMap and RtMap: the hash map

`OrderedMap` is what the interpreter does (`tuo-mir-interp/src/interp.rs` 495-540 and
1418-1456): a list of entries, one step per call. `RtMap` is the C code that compiled
programs call. A map has one owner, so calls do not overlap; but a probe or a rehome is a
loop, and each turn of it is a step, so that what holds between the turns can be stated.

| code (`MAP`) | actions |
|---|---|
| `tuo_map_find_*`, at the start of each call | `Get`, `Insert`, `Remove` (all `Begin`), then `Probe`, `FindEnds` |
| `tuo_rt_map_*_get`, `_remove`, `_insert` of a key it has | `GetEnds`, `RemoveEnds`, `Overwrite` |
| `tuo_map_append` | `StartAppend` (grow, compact or neither), `PlaceProbe`, `AppendEnds` |
| `tuo_map_rehome` | `SkipHole`, `Pack`, `PlaceProbe`, `PackEnds`, `RehomeEnds` |
| `tuo_rt_map_*_keys`, the header's length, `drop` and a new map | `KeysOf`, `LenOf`, `MapEmpty` |

A block is the record `table`: `index` (0, a tombstone, or the number of an entry),
`entries`, `live`, `cap`; `fresh` is the block a rehome builds. `list` of `OrderedMap` is
`Packed(table)`, the live entries in their order: a rehome does not change it, and each call
changes it in one step. Hashes are any function of the key, the two kinds of keys are one,
`& mask` is the remainder. Not modelled: bytes and strides, the allocator, `u64` sizes.

### PackageResolve: commands over files

| code | action |
|---|---|
| `add`, `remove` (`PKG` 107, 145): load and edit the manifest | `Begin`, `EditManifest` (`MayEdit`, `Edited`) |
| `write_manifest` | `WriteManifest`, or `CutManifest` |
| `resolve` (`RSV` 230) reads the root's manifest | `ReadRoot` |
| one turn of `walk`'s loop: a dependency's manifest, the two checks, the call | `ReadDependency` |
| the end of `walk`: `load_modules`, the entry in `packages` | `LoadModules` |
| `resolve_and_lock`: read the lockfile, `verify_against_lock` | `VerifyLock` |
| its `fs::write` | `WriteLock`, or `CutLock` |
| `symbols` | `Answer` |

`path` is the recursion of `walk`, one record per activation. `Developer` edits a manifest
or modules, or deletes the lockfile, between any two steps. `Kill` ends a command at any
step; `CutManifest` and `CutLock` are a write that was killed or failed, after `fs::write`
truncated the file: nothing that parses is left, or the entries before the cut, since all
the rest is optional to the reader. A manifest is its name and dependency table; versions
and editions decide nothing. The modules of a package are read in one step. A checksum is
the pair it is computed from, the package's name and its bytes. `check`, `run`, `verify`
and `test` differ from `build` after the lockfile is written and are `build` here.

### The compiler's middle

Data. `Places` has places (`<<root, field, ...>>`), the state map of the ownership
checker, `Governing` and `Merge`. `Syntax` is the input: expressions as tagged records.
`Mir` is the intermediate representation.

| module | code | how |
|---|---|---|
| `OwnershipCheck` | `OWN` | the walk's mutable fields are one record `c`; each method is an operator from `c` to the next; `CheckFn(f)` is the set of errors |
| `MirLower` | `LOW` | the same with the record `m`; `m.skip` keeps why the code gave up (`Err(Skip)`) |
| `MirVerify` | `VER` | structural checks, `ApplyStatement`, `AuditOk`; the sweeps that solve the data flow are actions of `Compiler` |
| `MirOpt` | `opt/*.rs` | the four passes as functions; `optimize`'s rounds are actions of `Compiler` |
| `MirInterp` | `tuo-mir-interp/src/interp.rs` | a machine, one action per kind of statement and terminator |
| `NativeCode` | `tuo-codegen-cranelift/src/lower.rs` | the process that runs the emitted code: bytes in slots, a heap, nothing checked |
| `Compiler` | `tuo-cli/src/codegen.rs` | the stages in order: `Check`, `LowerIt`, `Sweep`, `Audit`, `Optimise`, `Load`/`Run`, `Swap`/`Reload`/`Run`, `Link`/`Execute`, `Finish` |

A program that is refused ends in the phase that says by whom: `rejected` (errors for
the user), `skipped` (lowering gave up), `refused` (the verifier), `corrupt` (the
verifier, after a pass). Only the first is meant to happen.

Values are abstracted to what ownership tells apart: a string has an identity and no
text, integers are small and trap past `MaxInt`, a view names its string. In the
interpreter `freed[id]` counts the drops of a string; in `NativeCode` `heap[id]` counts
the frees of a buffer, a moved header stays where it was, and a slot nobody wrote holds
`Junk`.

`MirFlow` is the abstract machine the verifier's data flow is an account of: control and
the set of locals that hold a value, with every branch free. `CompilerProofs` proves the
account sound; `Compiler!SolutionFound` checks that what the sweeps compute is the
solution that theorem assumes.

## 3. Runs

"distinct" is TLC's count of distinct states.

| run | what it asks | bounds | distinct |
|---|---|---|---|
| `red_green` | `IInv` (inductive invariant), `ChangesAreAnnounced` | 3 edits | 5,899 |
| `query_engine` | type and stacks, truth of every result, no repeated work, refinement of `RedGreen`, minimal reruns, termination | 3 edits | 150,617 |
| `session` | whole-program digests current, no dangling symbol, selection is of this program | 2 files, 4 symbols, `MaxRevision` 6 | 190,564 |
| `net` | exact timeouts, no unannounced blocking, the slot table, no leaked sockets, waits end | 7 programs, 3 descriptors, 2 slots, `IntMax` 3, 1 signal | 261,521 |
| `compiler` | accepted programs build; nothing leaked, freed twice or read when gone; three executions agree; the optimiser settles | 2,585 programs, 3 inputs, fuel 100 | 272,046 |
| `rt_pool` | FIFO refinement, no lost wakeup, exclusion, tasks once, fork-join, termination | 4 threads, 5 tasks, 1 channel, 1 mutex | 29,615 |
| `rt_map` | refinement of `OrderedMap`, a sound index, right finds, probes end | 3 keys (two with one hash, wrapping round), 2 values, capacity 2 to begin with | 693,217 |
| `package` | resolution finds exactly what is there, pins do not move | 3 directories, 2 edits, any number of commands | 1,671,578 |
| `session_types`, `session_mir`, `session_callees`, `rt_pool_fallback` | one documented claim each, which the code does not meet (section 4) | | |

**What the properties say.**
`ChangesAreAnnounced`: a step that changes a memo's value stamps it later than the
`verified_at` of every recorded reader. `StacksAligned`: one frame per activation,
the active stack is exactly the keys being computed, in their order, whatever ended with
an error. `AnswersAreTrue`: every result equals a computation from scratch, `Failed` is
only reported of a query that does fail, and no cycle is reported of a host without one. `WorkIsNotRepeated`: no key has two
activations, none that is active is already verified. `UnrelatedEditsRerunNothing`:
a recomputation starts only if an input below the memo changed since it was
verified. `DigestsAreCurrent`: verified memos of the queries whose reads cover
what they slice are slices of the current program. `ComputedSymbolsExist`: no
query runs for an id past the symbol table. `SelectionIsOfThisProgram`: a
selection assembled over many queries is that of one program. `NoLostWakeup`: a
receiver sleeps only if the channel is open and every value in it is owed to a
woken thread. `LocksExclude`: a thread whose own calls tell it that it holds the
mutex does. `EachTaskOnce`, `NothingOutlivesTheCall`: the partition covers every
task, once, and the join covers every thread.

`TimeoutsAreExact`: a wait of `ms` ends after `ms`, neither earlier with a timeout nor
later, however often it was interrupted. `OnlySharersOverstay`: the blocking call after
a poll has something to take, unless the kernel threw it away, another task uses the
descriptor, or another task opened a socket under its number after it was closed (`Contested`;
program `Stale` reaches that case). `SlotsBelong`, `StagedIsOurs`: a staged datagram is, as a whole, the last one
received on the socket asked about. `NoSocketLeaks`: every open descriptor is known to
somebody. `WaitsEnd`: every wait of a time that fits an `int` ends.

`AcceptedBuilds`: what the checker accepts, lowering and verifier accept, after each pass
as well. `NothingIsMissing`: the interpreter never meets what the verifier excludes, and what
a drop drops is all there. `FreedOnce`, `ViewsLive`: on every path of what was lowered, each
string is freed once, a view is read while its string lives. `AnalysisIsSound`: what the data flow
says is initialised, is, at every step of `main`. `SolutionFound`: the
sweeps end with a solution. `OptimisedAgrees`, `OptimiserSettles`: passes keep the
program's outcome and stop by themselves. `NativeAgrees`, `HeapIsBalanced`: machine code, which keeps no record
of moves, ends like the interpreter and frees each buffer once.

`TableWellFormed`: the index refers to each live entry once, from a slot a probe for its key
reaches, to no removed one; no more slots are taken than entries were handed out, so half of
them are empty; the header's length, on which growth rests, is the live count.
`FindsAreRight`: a find that ends is right. `ImplementsOrderedMap`: answers, keys and their
order are the interpreter's. `CallsReturn`: probes and rehomes end.

`ResolvesExactly`: of files nobody edits meanwhile, the walk succeeds exactly if everything
in reach is there, names are unique and nothing depends on itself, finds each package once,
and leaves a lockfile that pins these and nothing else - whatever keys the manifests use, against
a rule the code states and does not check (section 4). `PinsNeverMove`: an entry of the
lockfile keeps its bytes until it leaves the lockfile.

**Why the bounds are enough to be interesting.** `SmallHost` has each shape the
engine treats differently: a query with equal results for different inputs (early
cutoff), reads that depend on reads, a diamond, a failing query and a query above
it. Three edits allow the sequence a stale memo needs: change, cutoff, change
back or an unrelated change, confirm. In `session`, opening a file bumps the
revision twice and editing it once, so `MaxRevision` 6 is two files and two edits:
they change what a spec refers to, shift ids, remove symbols and break the program.
`MaxRevision` is the only bound on counters in these modules. In `rt_pool` four
threads are two receivers that may sleep on one channel and two senders, one of
which closes it; a fifth task runs after the first on its thread, and misuses
every handle; the registries are full after one entry. The heap has no bound of its own:
`FreeNode` is a node not in use, and this program never has more than four in use.
`Workers` 9 exercises the clamp.

In `net` two slots and three descriptors let the table fill and a descriptor be reused;
`IntMax` 3 puts the cut to `int` in reach of waits of 5 and 9; one signal interrupts any
wait at any instant. `MaxTime` bounds the clock only while all waits left are endless.
In `compiler` a program is a prologue, one compound statement of simple ones (in part of
them with a second compound inside) and a simple one after it: every pair of simple
statements that move, remake, lend, drop or leave, in both branches of an `if`, in both
kinds of loops, under `&&`, in operand lists. Inputs 0, 1 and 2 take the loops no, one
and two times. `Fuel` and `Budget` 100 cut only programs that loop for ever, which the
agreement properties exempt (`Undecided`). `MaxRounds` 8 is the code's.

In `rt_map` capacities are 2 and 4, so indexes have 4 and 8 slots; the hashes 7, 7 and 6
collide and wrap round in both. Every history of calls is in the state space: nothing is
bounded but keys, values and, by the growth rule itself, the capacity.

In `package` the manifests of the three directories make a diamond, a cycle through the
root and one beside it, a package that takes another's name, and one that is not there; `add`
reaches one more cycle and the refusals. Two edits fall between any two steps: drift while a
command runs, or before it; commands and interruptions are not bounded.

**Deadlock** is checked in `package`, `compiler`, `red_green`, `query_engine`, `rt_map`, `session` and the session's
other runs. It is off for `rt_pool` and `rt_pool_fallback`, whose programs end
(that they do is `ParMapReturns`), and for `net`, where a blocking read of a discarded datagram may rightly wait for
ever.

**Fairness.** `RtNet!Spec` assumes that the clock ticks and that threads which can move
do; arrivals, signals and answers of peers are not assumed. `RtMap!Spec` assumes that a call that was
begun is executed (weak fairness of `Steps`); calls are not assumed. `Compiler` and
`PackageResolve` need none: they have no liveness property, and deadlock is checked. `QueryEngine!FairSpec` assumes weak fairness of `EngineStep`: a query
is run by the thread that asked, synchronously, until it returns; edits and
cancellation are *not* assumed. `RtPool!Spec` assumes weak fairness of the caller
and of each thread: the operating system schedules threads that can move. Neither
spurious wakeups nor successful thread creation are assumed, and a mutex waiter
is not promised the mutex under contention.

**Mutants.** For every property of a passing run `PROJECT.json` names one plausible
bug ("A bug: ..." in the modules) under which TLC finds that property violated.

## 4. Where code and documentation disagree

Each is a run that TLC ends with a counterexample; `PROJECT.json` has the quotes.

* `session_types` - `type_of` of a function stays the old one after a sibling file
  of the module binds the imported type name to another struct: neither the
  interfaces nor the resolution digest see the target of an import.
* `session_mir` - `mir_of` depends on the acceptance of the whole program but
  reads only its own signature and its own file; an edit elsewhere that breaks or
  repairs the program leaves the old memo.
* `session_callees` - `affected_specs` is documented as conservative, but the
  closure does not follow calls between functions, whose dependencies the resolver
  does not record.
* `rt_pool_fallback` - running a partition inline when no thread can be created is
  "identical, only less parallel" (`EFF` 468-470) only for tasks that do not
  communicate: a consumer run inline waits for a producer not yet started.

Seen while modelling, without a run: `affected_specs` promises "every spec defined in a
changed file itself" (`INC` 416-417), but a free-standing spec is left out, for its symbol
has no declaration span (`SymbolsInFile`). And `revalidate_memoized` recomputes keys "permitted,
since this key is not on the active stack" (`ENG` 503-505) without looking; a host whose
queries become cyclic by an edit is re-entered for a key that is being computed. The package
commands hold "a build never silently compiles drifted dependency bytes" (`PKG` 22-23) to the
entries of the lockfile: one that was lost when a write was cut off (`CutLock`), or whose
package was renamed, pins nothing, and a torn lockfile stops every command until it is deleted.
A command that fails after `add` wrote the manifest leaves it changed.

**Dependency keys are not held to package names.** The resolver says "The declared dependency
key must match the dependency's own package name, so imports and the lockfile agree"
(`RSV` 340-341), and `manifest.rs` (128-129) that the key "is also the name the package is
imported under". No code compares the two. `walk` takes the entries of the table for their
paths only (335-354), `add_path_dependency` refuses a key that is the root's own name or is
taken for another path, but does not open the dependency (`MayEdit`), and the parser sees one
manifest at a time. A package under another key resolves; its modules are prefixed with its own
name (411-419) and the lockfile lists it by that name, so the key decides only the order
of the walk and what `remove` takes. The run has such workspaces: `core` named 2 and entered by
`add` under the key 3. `Resolvable` is what the code looks at, without this rule; `ResolvesExactly` and the theorem `ResolutionIsExact` therefore
promise that these workspaces resolve. Neither is evidence for the rule: stated as an invariant
(`manifest[manifest[d].deps[k]].name = k` for each key of each directory in reach, once a
resolution succeeded) it is false of the model, as it is of the code, with that `add` alone.

### Accepted programs that the later stages do not keep

Modelling the compiler's middle met programs that the ownership checker accepts and a
later stage mishandles. They are in the run (`GapPrograms` and others), each exempted from
exactly one promise by a predicate on the *source text*, so that a new shape would be a
counterexample.

* `c && consume(s)`: the checker walks the right operand as if it always ran (`OWN`
  792-799), lowering restores the state before it (`LOW` 1661-1718), and the verifier
  refuses. `MovesInRhs`.
* `consume(s); while c { s = make(); }`: accepted, but lowering gives up at the back edge,
  though `LOW` 442-443 says the checker guarantees agreement. In `AcceptedBuilds`: an edge
  `back` where nothing is lost.
* paths that disagree how a value was lost (moved on one, never made on the other) or
  about a field of it: accepted when the whole is assigned afterwards, given up by lowering.
* `f(in p.left, take p.right)`: disjoint for the checker, one root for the verifier (`VER`
  1492-1513). `LendsAndMoves`.
* `g(take s, { s = make(); make() })`: the operand was moved, the assignment refills its
  place, and the call then moves what is there now; one string is lost or freed twice.
  `RefillsMoved`.
* `g(take s, { return 1; make() })`: what the first operand moved into the argument list is
  leaked, for an early exit drops scopes only. `LeavesMidway`.
* `let w = v` or `w = as_str(s)`: a view that is not bound by `let w = as_str(s)` itself is
  not followed and may outlive its string (`OWN` 1936). `UntrackedView`.
* a sum of nine constants takes as many rounds of the optimiser as there are, though
  `opt/mod.rs` 139-147 says a correct pipeline never reaches the limit. In
  `OptimiserSettles`.
* in the runtime, a wait of 2^31 ms or more becomes negative and endless, against `EFF`
  735-738. In `TimeoutsAreExact`: `Fits`.

## 5. Proofs

`RedGreenProofs` (463 obligations) proves, for every host, key set, value set and
bound:

* `Invariance`: `Spec => []IInv`;
* `TypeCorrect`: `Spec => []TypeOK`;
* `MemoSoundness`: `Spec => []FreshMemosAreTrue` - a verified memo is true;
* `ChangesAnnounced`: `Spec => ChangesAreAnnounced`.

Assumptions: `ConstantsAssumption` (inputs and queries are different keys, the
bound is a number) and `TruthAssumption` (`Truth` agrees with the host's runs);
TLC evaluates both on the small host.

**The argument.** `FreshMemosAreTrue` is not inductive: a stale memo says nothing
about the present, yet `Confirm` may make it fresh. `IInv` adds what a stale memo
still guarantees:

* `MemosReplay`: there are values of its dependencies for which the host, run
  again, would read the same keys and return the memo's value; and each dependency
  whose `changed_at` did not pass the memo's `verified_at` still has that value;
* `DepsVerifiedWithReader`: a derived dependency has a memo, verified no earlier
  than its reader - so a dependency without memo is really an input;
* `StampsOrdered`: `changed_at <= verified_at <= revision`.

`BumpInput` moves the changed input's stamp past every `verified_at`, so what it
breaks it also excuses. `Install` with a different value moves `changed_at` to the
current revision, later than the `verified_at` of each reader (none is fresh, by
`DepsVerifiedWithReader`); with an equal value nothing a reader relies on changes.
`Confirm` finds all dependencies settled and unchanged, so by `MemosReplay` the
memo's run replays over current values, which are true; `RunDependsOnReads` and
`TruthAssumption` then make the memo true. Each action is a lemma
(`BumpPreserves`, `ConfirmPreserves`, `InstallPreserves`, `StutterPreserves`).

`QueryEngineProofs` (3399 obligations) proves the same of the code's control, for every
host, any nesting of activations, and errors and cancellation at any point of it:

* `Invariance`: `Spec => []EInv`;
* `EngineImplementsRedGreen`: `Spec => ImplementsRedGreen`, step by step - with it every
  theorem above holds of the memos of the recursive engine;
* `AnswersTrue`: `Spec => []AnswersAreTrue`; `CyclesAreReal`: `Spec => []NoFalseCycle`;
* `NoRepeatedWork`: `Spec => []WorkIsNotRepeated`;
* `WorkHasAReason`: `Spec => UnrelatedEditsRerunNothing` - an edit reruns only what rests on it;
* `StacksAlign`: `Spec => []StacksAligned`; `TypeCorrect`: `Spec => []TypeOK`.

Assumptions: the six on constants and host in `QueryEngineSpec`; TLC evaluates them on the small
host, where it also finds the theorems' properties to hold.

**The argument.** `RedGreen` confirms a memo in one step, when all dependencies stand; the
engine looks at one at a time, and what it saw must still be so when it is through. `EInv`
says what each activation knows (`ActivationOK`): of a run, that the keys in its frame are
those the host reads, with the values it was given, all true and settled; of a check,
that the memo is the one it began with and the dependencies before `next` are settled and
unchanged since it was verified. `ResultOK` says that a result on its way down is true, and
of the key that the activation below waits for. Nothing an activation above does can spoil
that: it touches only memos of keys that rank below all that wait (`Chain`), and never one
that is settled. That the ranks fall is clear for a run, which reads now. A *check* follows
a read of an earlier revision: but by `MemosReplay`, with the earlier dependencies settled
and unchanged, the run over the inputs of now reads just these keys and then this one. So
also a stale edge is a real one, no key is waited for by itself, and the cycle assertion
does not fire; `NoRepeatedWork` follows from the same chain. `Aligned` ties the active keys
to the runs among the activations by an increasing map; a push and a pop change its ends.

That a rerun has a reason is about what lies under a stamp. `RunsStart` finds the three places
where a run begins; only a check that finds a dependency changed begins one over a memo, and
what it saw is a stamp, `changed_at`, later than the reader's `verified_at`. `Reasons` says
that such a stamp is not made up: an input below the dependency changed after the reader was
verified. It would not survive the rerun of that dependency, whose new reads may rest on
other inputs than the old ones did, without `RunsForAReason`: a query with a memo is run only
while that memo is `OutOfDate`, that is, some read of it has news and all reads before that
one stand. So the new run, which goes the same way up to there (`SameReads`, from
`MemosReplay`), reads that key again (`ReRead`), and the installed memo still has the news that
its readers are told (`InstallTells`). A memo rests on what is in every set of keys that has it
and is closed under reading, so replacing one memo in the middle of a table is an argument
about one set (`ReachReplaced`); what is settled does not rest on the memo replaced
(`SettledApart`), because stamps rise along the reads (`ReachVerified`).

`RtPoolProofs` (4464 obligations) proves of the fork-join, the mutexes and the channels, for
every program, any number of tasks and workers, and whichever workers get no thread:

* `PoolInvariance`: `Spec => []IInv`;
* `TasksRunOnce`: `Spec => []EachTaskOnce` - a task somebody works on is not done and
  nobody else works on it;
* `ForkJoinIsStructured`: `Spec => []NothingOutlivesTheCall` - when `par_map` returns no
  thread is left and every task has its result;
* `MutexesExclude`: `Spec => []LocksExclude` - who holds a mutex by what its own calls
  returned is who holds it;
* `ChannelsInvariance`: `Spec => [](IInv /\ SyncInv)`;
* `NoWakeupIsLost`: `Spec => []NoLostWakeup` - nobody sleeps on a closed channel, or on a
  value that no woken thread is on its way to;
* `PoolImplementsFifo`: `Spec => ImplementsFifo`, step by step.

Assumptions: `PoolAssumption`, and `ProgramAssumption` (a task is a sequence of calls); TLC
evaluates both in both pool runs.

**The argument.** Of the three properties none is inductive: a task begins when a
counter passes it, and it is the thread's position that says which counter. `IInv`
adds where everybody is: `PhasesOK` (the caller's phase bounds which workers were handed
out), `MainOK`, `RunnersOK` (a running thread's task is of its own partition, or of a
partition that got no thread while the caller runs it), `CallerOK`, and `ProgressOK`: the
tasks of partition `p` with results are those before the one its runner is at, none before
it is handed out, all after its runner is off. Partitions are the residue classes modulo
`W`, so what `Following` steps over is `Partitions`: the same class, and nothing of it
between. `LocksOK` says that the holder of a mutex is the thread whose log says it locked
and did not unlock; a call changes at most one thread's log and one mutex, which is
`CallShape`.

The channels need `SyncInv` beside it. `ChannelsOK`: every channel has a chain of allocated
nodes from its head to its tail by the links, and no node is in two chains or twice in one.
`SendAppends` and `ReceiveTakesHead` say what linking and unlinking a node does to the chains,
and so to `Queues`; that a chain is the only list from its head (`OneList`) needs no induction
over lists: there would be a first place where two differ. `WaitersOK`: only receivers wait, for a channel there
is. `NoLostWakeup` itself is inductive with these: a send that finds waiters pays for its value
with a signal, a woken thread that stops being on its way takes a value with it or finds the
queue empty, and a close wakes all. `LogsOK`: the logs are finite, and a call that
counts was about a channel there is, so a new channel starts with no calls. `CallLogged` and
`CountedOnce` say that a call that returns raises one count by one or none, whichever thread
it is of; `LogStays` that starting, ending and joining threads moves logs without changing
them. `NextChannels` has one step per call: each is a step of `Fifo` or leaves what it sees.

`RtMapProofs` (1878 obligations) proves of the hash map, for every set of keys and values,
every hash function and every capacity to begin with:

* `MapInvariant`: `Spec => []IInv`;
* `MapIsWellFormed`: `Spec => []TableWellFormed`;
* `MapFindsAreRight`: `Spec => []FindsAreRight`;
* `MapImplementsList`: `Spec => ImplementsOrderedMap`, step by step.

Assumption: `MapAssumption` (hashes are numbers, the first capacity is not zero).

**The argument.** `TableWellFormed` is not inductive: that an insert may append rests on
what its probe saw, and that a rehome ends in a sound table on the half-built block. `IInv`
adds `ProbeOK` (no slot passed so far is empty or holds the key), `PlaceOK` (there is room),
and `RehomeOK` (the new block is sound, has exactly the live entries before `next`, and room
for the rest and one more). `Advance` is the step of a probe: it comes round to its home only
if every slot is taken, which `Spare` rules out by counting - at most `used <= cap` of
`2 * cap` slots are taken, tombstones included. `NotFound` turns "no empty slot before it and
the key not seen" into absence. `PlacedIsGood`, `OverwrittenIsGood` and `RemovedIsGood` say
that the three ways to change a block keep it sound; a tombstone keeps every `Reaches`.
For the refinement the list is the live entries, each at its `Rank`, the number of live
entries up to it. `RankOnto` says that ranks are a numbering, which needs no recursion but
that an injection between finite sets of one size is onto; `RankAdded` and `RankRemoved` say
how it moves, from which `PackedPlaced`, `PackedOverwritten` and `PackedRemoved` follow: what
a call does to the block is `Append`, an update in place or `RemoveAt` of the list. `RehomeOK`
has each entry of the new block at the rank of the old one, so `RehomeUnseen`.

`RtNetProofs` (3329 obligations) proves of the sockets, for every program, any number of
tasks, descriptors, slots and signals:

* `NetInvariance`: `Spec => []IInv`;
* `WaitsAreExact`: `Spec => []TimeoutsAreExact`;
* `ReadyCallsReturn`: `Spec => []OnlySharersOverstay`;
* `StagedReadsAreOurs`: `Spec => []StagedIsOurs`;
* `SlotsAreOwned`: `Spec => []SlotsBelong`;
* `SocketsAreKept`: `Spec => []NoSocketLeaks`.

Assumptions: `NetAssumption` and `ProgramsAssumption`; TLC evaluates both.

**The argument.** A wait is a sequence of rounds. `RoundOK` says that each of them ends when
the call's own time is over, however many signals were before it: `until = start + ms`,
which holds because the remaining time is derived from the start anew, and only if an `int`
holds it (`Fits`); the clock passes no such instant. `SlotsOK` says of a thread between the
two searches of the slot table that its descriptor has no slot and the one it picked is
still free, of one past them that its slot has its descriptor - unless two threads searched
at once (`raced`), which the code does not exclude. `FilesOK` says that an open descriptor
is the result of a call that the program knows or of a connect that has not returned. That
no other call overwrites it rests on each opening call having a variable of its own and
each position of the code being passed once (`Given`). Its last part, `Named`, says that a call
under way works on the descriptor that its variable holds.

`OnlySharersOverstay` and `StagedIsOurs` need more than `IInv`: `SInv` adds three parts.
`TableOK`: the open socket of a descriptor is the latest that has its number; sockets that are
closed stay in the list, which is how the model speaks of a number that is given out again.
`WaitsFed`: a thread that was told its socket is ready still finds it ready, or another task is
one that may take from it. The second case has to last until the descriptor is closed, so it
is not about who uses the descriptor now but about who may (`Held`): a task whose connect has not
returned will have it in a variable (`Grows`). `StagedOK`: unless threads searched the table at
once, for each descriptor on which at most one task works (`Quiet`), either no socket of that
number has received (`Untouched`), or the slot shows the last datagram that one of them received,
as a whole or about to be (`Shows`); and each read that returned was of such a slot
(`LastStaged`), which later receives do not make false (`History`). Once `main` is done, a descriptor
stops being quiet but never becomes so: who works on it is known by the variables, which only grow.

The attempt to prove `OnlySharersOverstay` in an earlier form, which excused a call only if another
task *uses* its descriptor, failed: `poll` reports a descriptor that `main` closed as ready at once,
and before the task that still has it makes its blocking call, another task may open a socket
under that number, on which there is nothing to take. `Stale` was added to the
programs; with it TLC refutes the earlier form, and the property now says so.

`PackageResolveProofs` (1539 obligations) proves, for every set of directories, names,
manifests and commands and any number of edits:

* `ResolutionIsExact`: `Spec => []ResolvesExactly`;
* `PinsAreKept`: `Spec => PinsNeverMove`;
* `GraphsAreClosed`: `Spec => []GraphIsClosed` - a package that is handed on with a dependency
  is handed on with that dependency, though files changed during the walk.

**The argument.** For the pins, `LockInv`: a lockfile that parses has an entry for every pin
relied on, and a command that is about to write found the same bytes (`WritesTheSame`), from
`VerifyLock` on, whatever happens in between; a prefix of such a lockfile still agrees. For
the graph, `WalkInv`: an activation has listed only packages that are done and the one that
the activation above it is at, and a claimed name is done or on the path - so a dependency
that is skipped as seen, and not a cycle, is done.

That the walk is exact rests on `WalkedOK`, of files that nobody edits meanwhile, in five
parts. Each activation is of a package in reach and read it as it is (`FramesOK`); each one on
the path is in reach of a dependency of those under it (`ChainOK`); what an activation has
listed is done or is the next activation (`ListedOK`); a name is claimed by the package in
reach that has it (`ClaimsOK`); and a package that is done is as its files say, with all it
depends on done and itself not in reach of them (`PackagesOK`). A failure then names its
reason: a package in reach without a manifest or modules, two with one name, or, when a name
is met again on the path, a package in reach of its own dependencies. When the root is done,
the directories that are done are closed under dependency and hold the root, so they are the
workspace. No induction over paths is needed, because reach (`From`) is stated by closed sets:
what is in every set that has the start and, with a directory, what it depends on.

`SessionProofs` (3206 obligations) proves of the session, for all texts, any number of files
and symbols, and any history of edits, questions and cancellations:

* `Invariance`: `SessionSpec => []IInv`;
* `VerifiedDigestsAreCurrent`: `SessionSpec => []DigestsAreCurrent`;
* `NoSymbolIsMissed`: `SessionSpec => []ComputedSymbolsExist`;
* `SelectionsAreCurrent`: `SessionSpec => []SelectionIsOfThisProgram`.

Assumptions: `SessionAssumption` (texts are finite, no function is named like a free-standing
spec) and `BoundAssumption` (no program has more than `NumSymbols` symbols, which is what
bounds the keys). TLC evaluates both in all four session runs; it also found `IInv` to hold in
every state of the run `session`, with the values that explain each memo computed from it,
before it was proved.

**The argument.** `QueryEngineProofs` does not apply: this host breaks the purity rule its
theorems assume (`HostIsClosed`), since a slice looks at all of the program. `session_types` and
`session_mir` (section 4) are what comes of that, and so the question is for which queries it
does no harm. `IInv` has five parts. `WorldOK`: the files are those that were set. `MemosOK`: of each memo, its
dependencies rank below it, have a value, and are settled if it is; and it is `Explained`:
there are values of its dependencies which account for its own (`Explains`, kind by kind), and
those that did not change since it was verified still have them. An edit moves the stamp of
what it changes past every `verified_at`, so that it excuses what it breaks. A verified memo's
dependencies have the values that explain it, and rank by rank up from the sources these are
the values of now: `DigestCurrent`. `Chain`: each activation knows what it has read or checked so
far, waits for the one above it, and is for a file or a symbol that exists (`Lives`). That last
part is what could go wrong: a check follows edges of earlier revisions, and ids shift. It does
not, because the first edge of a query is to the digest that would have changed
(`NextDepLives`): a check of `SPEC_DEPS` that comes past the spec graph has the closure of
now, and its later edges are to the types of that closure. `RetOK`: a result on its way
is that of a verified memo, and of the key waited for. `JobOK`: the specs a selection wants are
chosen or still to be asked about, and the query in progress is the next one's; what a query
returns is the references of its spec (`ClosureIs`: nothing refers to a spec), so `AffectedIs`.
That ids are places in an order, numbered without gaps, is `OrderOnto`: an injection between
finite sets of one size is onto.

`CompilerProofs` (245 obligations) proves two things of the compiler's middle.

`MergeIsExact` is of the checker's state maps: after the join of two paths a place is abnormal if and only if it is on one of them, and surely
lost if and only if it is on both. The argument: the rank of the governing entry decides
both questions (`Governing` picks a worst one), `MergePair` computes with ranks, and an
entry that only one path has is judged against the other path's governing one. It holds for
all maps over places of any length; the model checker sees those of small programs.

`VerifiedReadsAreLive`: if the verifier's sets are a solution over the blocks it looked at (`IsSolution`) and its audit found nothing
(`AuditOk`), then no path of `MirFlow` reads a local without a value. The inductive
invariant is `InStep`: control is in the solved blocks and the set at its point is contained
in what is live; `ApplyIsMonotone` carries it over statements, the subset along edges over
jumps. The hypothesis is checked of the sweeps by `SolutionFound`, and the conclusion is
what `NothingIsMissing` checks of the interpreter.

**Only model-checked**: the compiler but for the two theorems above, and liveness.
The compiler's ten properties (`AcceptedBuilds`, `NothingIsMissing`, `FreedOnce`, `ViewsLive`,
`AnalysisIsSound`, `SolutionFound`, `OptimisedAgrees`, `OptimiserSettles`, `NativeAgrees`,
`HeapIsBalanced`) are about walks that are recursive over syntax, lowering's fresh blocks, and
sweeps to a fixed point: what they compute for every program is induction over data, which
the installed provers cannot do, and they are written as `RECURSIVE` operators and folds.
Liveness under fairness (`QueriesEnd`, `ParMapReturns`, `WaitsEnd`, `CallsReturn`) and
`ENABLED` are out of the prover's reach too.

## 6. Not modelled

* The engine's execution log: written by `recompute`, never read by the engine.
* `tuo_rt_par_map` with `n <= 0` (returns at once; `N > 0` is assumed) and a
  `par_map` inside a task; tasks with branches of their own.
* `with_semantics`, encodings of digests, several modules and visibility in the
  session.
* Packages: `new`, the TOML reader, versions, two commands at once.
* Allocation failure (the runtime traps); layout and release of the hash map's blocks.
* Sockets: the steps inside `BindOrListen` (socket, bind, listen, the close after a failure; the
  descriptor is local to the thread until it returns); time below a millisecond, by which
  `Remaining`, cut from nanoseconds at each look at the clock (`EFF` 748-756), may be
  off; `udp_send`, a `udp_recv` of a stream, `bound_port`, `peer_family`.
* Files, clock, random, arguments, processes: a system call or two each, without state of the runtime's own.
* The language outside `Syntax`: match and patterns, `for`, `?`, arrays, casts, loop
  labels and break values, indirect calls, effects, generics. Enumerated programs are
  well typed by construction; the type checker is not modelled.
* The interpreter's memory budget and depth limit. (`write_place` charges a new value
  without releasing the old one, so a long loop may end with a budget error it does not
  owe; seen while reading.)
* The LLVM backend: the same translation through another library.
* Linking, object files, the process around `main`.
* Everything `PROJECT.json` lists as `not_modelled`, with the reason.

## 7. Plan

Done: the engine and its abstract specification; the session, `RtPool`, `RtNet`, `RtMap` and
`PackageResolve`; each with proofs of all the safety properties its run checks; the compiler's
middle from `Places` to `Compiler`; `MirFlow`; two proofs about the compiler.

Next: the **database facade** as a second host of `QueryEngine`.
