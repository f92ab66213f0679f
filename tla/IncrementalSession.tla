--------------------------- MODULE IncrementalSession ---------------------------
(***************************************************************************)
(* The incremental session of tuo-compiler                                 *)
(* (src/crates/tuo-compiler/src/incremental.rs): the host of the query     *)
(* engine that the LSP, the agent and the CLI compile through.             *)
(*                                                                         *)
(* Its ten queries slice their values out of one whole-program snapshot,   *)
(* which set_file throws away and which is otherwise rebuilt when the      *)
(* revision moved: a function of the current files, so no variable here.   *)
(* A slice can look at all of the program whatever it read through the     *)
(* engine; Step therefore takes the world as well as the values seen.      *)
(*                                                                         *)
(* A text is abstracted to what the queries tell apart: its items in       *)
(* order, whether the front end finds an error in one of its bodies, and   *)
(* which struct its imports bind the type name T to.  All files are in one *)
(* module, whose scope (so whose imports) they share, as in tuo-resolve.   *)
(***************************************************************************)
EXTENDS Naturals, Sequences, FiniteSets, SequencesExt

CONSTANTS
  MaxRevision, \* bound on the revision counter
  NumFiles,    \* the files the client may open: 1 .. NumFiles
  NumSymbols,  \* bound on the symbols of a program
  Texts,       \* Texts[f]: the texts the client may give file f
  ClientKinds  \* the kinds of query the client asks one by one

(* An item is [kind, name, sig, body, refs]: a function, the name of its   *)
(* signature type, its body and the function names it mentions; or a spec  *)
(* block, named for the function it targets or free-standing.              *)
FreeStanding == "free-standing"

Item(kind, name, sig, body, refs) ==
  [kind |-> kind, name |-> name, sig |-> sig, body |-> body, refs |-> refs]

Text(items, broken, import) == [items |-> items, broken |-> broken, import |-> import]

Unwritten == Text(<<>>, FALSE, "none")

(* No function is named like a free-standing spec, whose name is a string. *)
ASSUME SessionAssumption ==
  /\ NumFiles \in Nat /\ NumSymbols \in Nat /\ MaxRevision \in Nat
  /\ DOMAIN Texts = 1..NumFiles
  /\ \A f \in 1..NumFiles : \A text \in Texts[f] :
       /\ Len(text.items) \in Nat
       /\ \A i \in 1..Len(text.items) :
            text.items[i].kind = "fn" => text.items[i].name # FreeStanding
  /\ ClientKinds \subseteq {"PARSE", "RESOLUTION", "TYPE_OF", "MIR_OF", "SPEC_DEPS"}

VARIABLES
  revision, inputChanged, world, memos, active, frames, cancelled, calls,
  ret,       \* the variables of QueryEngine
  job,       \* the affected_specs call in progress
  selection  \* what the last affected_specs returned, until the next edit

engineVars  == <<revision, inputChanged, world, memos, active, frames, cancelled, calls, ret>>
sessionVars == <<job, selection>>
allVars     == <<engineVars, sessionVars>>

Key(kind, arg) == [kind |-> kind, arg |-> arg]
FileSet        == Key("FILE_SET", 0)
Source(f)      == Key("SOURCE", f)
Parse(f)       == Key("PARSE", f)
Interface(f)   == Key("INTERFACE", f)
ResolutionKey  == Key("RESOLUTION", 0)
SpecGraph      == Key("SPEC_GRAPH", 0)
TypeOf(s)      == Key("TYPE_OF", s)
FnBody(s)      == Key("FN_BODY", s)
MirOf(s)       == Key("MIR_OF", s)
SpecDeps(s)    == Key("SPEC_DEPS", s)

SessionInputs == {FileSet} \cup {Source(f) : f \in 1..NumFiles}
SessionDerived ==
  {ResolutionKey, SpecGraph}
    \cup {Key(kind, f) : kind \in {"PARSE", "INTERFACE"}, f \in 1..NumFiles}
    \cup {Key(kind, s) : kind \in {"TYPE_OF", "FN_BODY", "MIR_OF", "SPEC_DEPS"}, s \in 1..NumSymbols}

EmptySession == [i \in SessionInputs |-> IF i = FileSet THEN 0 ELSE Unwritten]

-----------------------------------------------------------------------------
(* The whole-program passes, as far as the slices see them.                *)

(* A program is the texts of its files.                                    *)
Programs ==
  UNION {{p \in [1..n -> UNION {Texts[f] : f \in 1..NumFiles}] : \A f \in 1..n : p[f] \in Texts[f]} :
           n \in 0..NumFiles}

Program(w) == [f \in 1..w[FileSet] |-> w[Source(f)]]

(* Where the items are, and the item there.                                *)
Sites(p)        == UNION {{f} \X (1..Len(p[f].items)) : f \in DOMAIN p}
ItemAt(p, site) == p[site[1]].items[site[2]]

(* The front end goes through the files one by one, from top to bottom.    *)
Before(s, t) == s[1] < t[1] \/ (s[1] = t[1] /\ s[2] < t[2])

(* A function declared a second time keeps its first declaration and gets  *)
(* no other symbol.                                                        *)
Declared(p) ==
  {d \in Sites(p) :
     ItemAt(p, d).kind = "fn" =>
       ~\E e \in Sites(p) : /\ Before(e, d) /\ ItemAt(p, e).kind = "fn"
                            /\ ItemAt(p, e).name = ItemAt(p, d).name}

(* The members of S, of which below[d] come before d, in their order.      *)
InOrder(S, below) ==
  [n \in 1..Cardinality(S) |-> CHOOSE d \in S : Cardinality(below[d]) = n - 1]

Earlier(sites) == [d \in sites |-> {e \in sites : Before(e, d)}]

SymbolOf(p, site)   == [file |-> site[1], item |-> ItemAt(p, site)]
SymbolsAt(p, sites) == [s \in DOMAIN sites |-> SymbolOf(p, sites[s])]

(* The declared symbols of every program, in id order.  Only items are     *)
(* followed; parameters and locals get their ids after them.               *)
Symbols ==
  [p \in Programs |-> SymbolsAt(p, InOrder(Declared(p), Earlier(Declared(p))))]

(* NumSymbols bounds the symbols of a program.                             *)
Declarations == UNION {{SymbolOf(p, d) : d \in Declared(p)} : p \in Programs}

ASSUME BoundAssumption == Symbols \in [Programs -> SeqOf(Declarations, NumSymbols)]

(* Ids, from the least.                                                    *)
InIdOrder(S) == InOrder(S, [d \in S |-> {e \in S : e < d}])

IsKind(p, s, kind) == s \in DOMAIN Symbols[p] /\ Symbols[p][s].item.kind = kind
IsFunction(p, s)   == IsKind(p, s, "fn")
IsSpec(p, s)       == IsKind(p, s, "spec")
SpecsIn(p)         == {s \in DOMAIN Symbols[p] : IsSpec(p, s)}

(* What a function name resolves to: at most one symbol.                   *)
Named(p, name) == {s \in DOMAIN Symbols[p] : IsFunction(p, s) /\ Symbols[p][s].item.name = name}

(* The names an item's text mentions, the target of a spec included.       *)
Mentioned(item) ==
  item.refs \cup (IF item.kind = "spec" /\ item.name # FreeStanding THEN {item.name} ELSE {})

References(p, s) == UNION {Named(p, name) : name \in Mentioned(Symbols[p][s].item)}

(* The module scope's imports of T: more than one target is an error at    *)
(* every use, none is an undefined name.                                   *)
ImportsOfT(p) == {p[f].import : f \in DOMAIN p} \ {"none"}

(* The type a signature checks to: T goes through the module's imports.    *)
Checked(p, sig) ==
  IF sig # "T" THEN sig
  ELSE IF \E t \in ImportsOfT(p) : ImportsOfT(p) = {t} THEN CHOOSE t \in ImportsOfT(p) : TRUE
  ELSE "error"

SignatureOf(p, s) == IF IsFunction(p, s) THEN Checked(p, Symbols[p][s].item.sig) ELSE "none"

(* No stage reported an error: every text parses and checks, no function   *)
(* is declared twice, every name resolves, every signature has a type.     *)
Accepted(p) ==
  /\ \A f \in DOMAIN p : ~p[f].broken
  /\ Declared(p) = Sites(p)
  /\ \A s \in DOMAIN Symbols[p] :
       /\ \A name \in Mentioned(Symbols[p][s].item) : Named(p, name) # {}
       /\ SignatureOf(p, s) # "error"

(* dependencies_of: the resolver records them for spec blocks only, so a   *)
(* function has none.                                                      *)
DependenciesOf(p, s) == IF IsSpec(p, s) THEN References(p, s) ELSE {}

(* spec_closure: the spec's dependencies and theirs; nothing refers to a   *)
(* spec, so they go no deeper.                                             *)
SpecClosure(p, s) ==
  LET seed == DependenciesOf(p, s)
  IN seed \cup UNION {DependenciesOf(p, d) : d \in seed}

(* symbols_in_file: those whose declaration has a span in the file, which  *)
(* a free-standing spec's symbol lacks.                                    *)
SymbolsInFile(p, f) ==
  {s \in DOMAIN Symbols[p] : Symbols[p][s].file = f /\ Symbols[p][s].item.name # FreeStanding}

-----------------------------------------------------------------------------
(* The value each query slices out of the snapshot.                        *)

ResolutionDigest(p) ==
  [s \in DOMAIN Symbols[p] |-> <<Symbols[p][s].item.name, Symbols[p][s].item.kind>>]

SpecGraphDigest(p) == {<<s, DependenciesOf(p, s)>> : s \in SpecsIn(p)}

InterfaceOf(p, f) ==
  {<<s, Symbols[p][s].item.name, SignatureOf(p, s)>> :
     s \in {t \in SymbolsInFile(p, f) : IsFunction(p, t)}}

(* MIR and body fingerprints exist only for an accepted program; a         *)
(* function's MIR spells out the types of the calls it makes.              *)
NotLowered == <<>>

BodyFingerprint(p, s) ==
  IF Accepted(p) /\ IsFunction(p, s) THEN <<Symbols[p][s].item>> ELSE NotLowered

Mir(p, s) ==
  IF Accepted(p) /\ IsFunction(p, s)
    THEN <<Symbols[p][s].item, SignatureOf(p, s),
           {<<Symbols[p][c].item.name, SignatureOf(p, c)>> : c \in References(p, s)}>>
    ELSE NotLowered

Slice(k, p) ==
  CASE k.kind = "PARSE"      -> p[k.arg]
    [] k.kind = "INTERFACE"  -> InterfaceOf(p, k.arg)
    [] k.kind = "RESOLUTION" -> ResolutionDigest(p)
    [] k.kind = "SPEC_GRAPH" -> SpecGraphDigest(p)
    [] k.kind = "TYPE_OF"    -> SignatureOf(p, k.arg)
    [] k.kind = "FN_BODY"    -> BodyFingerprint(p, k.arg)
    [] k.kind = "MIR_OF"     -> Mir(p, k.arg)
    [] k.kind = "SPEC_DEPS"  -> SpecClosure(p, k.arg)

FunctionsIn(p, s) == InIdOrder({d \in SpecClosure(p, s) : IsFunction(p, d)})

TypesOf(symbols) == [i \in DOMAIN symbols |-> TypeOf(symbols[i])]

(* A bug: the types of the old closure are asked for before the graph.     *)
SpecDepsReadsGraphLast(p, s) ==
  TypesOf(FunctionsIn(p, s)) \o <<SpecGraph>>

(* spec_deps reads the spec graph, then the type of each function in the   *)
(* closure.                                                                *)
SpecDepsReads(p, s) ==
  <<SpecGraph>> \o TypesOf(FunctionsIn(p, s))

(* A bug: the whole-program digests forget the set of files.               *)
ParsesOnly(p) == [f \in DOMAIN p |-> Parse(f)]

(* What the whole-program digests read: the file set, then every parse.    *)
EveryFile(p) == <<FileSet>> \o [f \in DOMAIN p |-> Parse(f)]

(* The keys a query reads through the engine before it slices, some of     *)
(* which the host itself takes from the snapshot.                          *)
ReadsOf(k, p) ==
  CASE k.kind = "PARSE"      -> <<Source(k.arg)>>
    [] k.kind = "INTERFACE"  -> <<Parse(k.arg), ResolutionKey>>
    [] k.kind = "RESOLUTION" -> EveryFile(p)
    [] k.kind = "SPEC_GRAPH" -> EveryFile(p)
    [] k.kind = "TYPE_OF"    -> <<ResolutionKey>> \o [f \in DOMAIN p |-> Interface(f)]
    [] k.kind = "FN_BODY"    -> <<Parse(Symbols[p][k.arg].file)>>
    [] k.kind = "MIR_OF"     -> <<TypeOf(k.arg), FnBody(k.arg)>>
    [] k.kind = "SPEC_DEPS"  -> SpecDepsReads(p, k.arg)

MoveAfter(seen, reads, value) ==
  IF Len(seen) < Len(reads) THEN [op |-> "read", key |-> reads[Len(seen) + 1]]
                            ELSE [op |-> "done", value |-> value]

(* QueryHost::compute: read the dependencies in order, then slice.         *)
SessionStep(k, seen, w) == MoveAfter(seen, ReadsOf(k, Program(w)), Slice(k, Program(w)))

-----------------------------------------------------------------------------
(* The engine, whose host this is.  It lists values only to set an input,  *)
(* which here is SetFile's part.                                           *)

INSTANCE QueryEngine WITH
  Inputs <- SessionInputs, Derived <- SessionDerived, Values <- {},
  InitialWorld <- EmptySession, Step <- SessionStep

-----------------------------------------------------------------------------
(* The client: the CLI, the language server or the agent, one thread that  *)
(* edits files and asks questions in turn.                                 *)

(* The program as it stands. *)
Now   == Program(world)
Files == DOMAIN Now

NoJob == [asking |-> FALSE]
NoSelection == [made |-> FALSE]

SessionInit ==
  /\ Init
  /\ job = NoJob
  /\ selection = NoSelection

ClientRuns == Idle /\ ~job.asking

(* set_file: a new file changes the file set, then any file its source.    *)
SetFile(f, text) ==
  /\ ClientRuns
  /\ f <= world[FileSet] + 1
  /\ LET isNew == f \notin Files
         sourceAt == IF isNew THEN revision + 2 ELSE revision + 1
     IN /\ sourceAt <= MaxRevision
        /\ revision' = sourceAt
        /\ inputChanged' = [inputChanged EXCEPT ![FileSet] = IF isNew THEN revision + 1 ELSE @,
                                                ![Source(f)] = sourceAt]
        /\ world' = [world EXCEPT ![FileSet] = IF isNew THEN @ + 1 ELSE @,
                                  ![Source(f)] = text]
  /\ ret' = Nothing
  /\ selection' = NoSelection
  /\ UNCHANGED <<memos, active, frames, cancelled, calls, job>>

(* One of the session's queries, about a file or a symbol that exists.     *)
ClientKey(k) ==
  /\ k.kind \in ClientKinds
  /\ k.kind = "PARSE" => k.arg \in Files
  /\ k.kind \in {"TYPE_OF", "MIR_OF"} => IsFunction(Now, k.arg)
  /\ k.kind = "SPEC_DEPS" => IsSpec(Now, k.arg)

Ask(k) ==
  /\ ClientRuns
  /\ ClientKey(k)
  /\ Query(k)
  /\ UNCHANGED sessionVars

(* affected_specs([f]): one spec_dependencies query per spec, in order.    *)
AskAffected(f) ==
  /\ ClientRuns
  /\ f \in Files
  /\ job' = [asking |-> TRUE, changed |-> f, todo |-> InIdOrder(SpecsIn(Now)), affected |-> {}]
  /\ ret' = Nothing
  /\ selection' = NoSelection
  /\ UNCHANGED <<revision, inputChanged, world, memos, active, frames, cancelled, calls>>

AskNextSpec ==
  /\ Idle /\ job.asking /\ ret = Nothing
  /\ job.todo # <<>>
  /\ Query(SpecDeps(Head(job.todo)))
  /\ UNCHANGED sessionVars

(* A bug: the specs written in the changed file itself are forgotten.      *)
AffectedByDependency(s, deps, f) == deps \cap SymbolsInFile(Now, f) # {}

Affected(s, deps, f) ==
  \/ s \in SymbolsInFile(Now, f)
  \/ deps \cap SymbolsInFile(Now, f) # {}

JudgeSpec ==
  /\ Idle /\ job.asking /\ ret.tag = "ok"
  /\ LET s == Head(job.todo)
     IN job' = [job EXCEPT !.todo = Tail(@),
                           !.affected = IF Affected(s, ret.value, job.changed) THEN @ \cup {s} ELSE @]
  /\ ret' = Nothing
  /\ UNCHANGED <<revision, inputChanged, world, memos, active, frames, cancelled, calls, selection>>

(* A query failed: affected_specs returns the error and no selection.      *)
GiveUp ==
  /\ Idle /\ job.asking /\ ret.tag = "error"
  /\ job' = NoJob
  /\ UNCHANGED <<engineVars, selection>>

Select ==
  /\ Idle /\ job.asking /\ ret = Nothing
  /\ job.todo = <<>>
  /\ selection' = [made |-> TRUE, changed |-> job.changed, specs |-> job.affected]
  /\ job' = NoJob
  /\ UNCHANGED engineVars

AffectedStep == AskNextSpec \/ JudgeSpec \/ GiveUp \/ Select

(* The flag is not shared with another thread: it is set between queries.  *)
SwitchCancellation ==
  /\ ClientRuns
  /\ IF cancelled THEN ClearCancellation ELSE RequestCancellation
  /\ UNCHANGED sessionVars

SessionEngineStep == EngineStep /\ UNCHANGED sessionVars

SessionNext ==
  \/ \E f \in 1..NumFiles : \E text \in Texts[f] : SetFile(f, text)
  \/ \E k \in SessionDerived : Ask(k)
  \/ \E f \in 1..NumFiles : AskAffected(f)
  \/ AffectedStep
  \/ SwitchCancellation
  \/ SessionEngineStep

SessionSpec == SessionInit /\ [][SessionNext]_allVars

-----------------------------------------------------------------------------
Digested == {"PARSE", "RESOLUTION", "SPEC_GRAPH", "SPEC_DEPS"}

(***************************************************************************)
(* The queries whose reads cover what they slice: whatever edits and       *)
(* questions came before, a memo of theirs that the engine takes for       *)
(* verified equals a slice of the current program.                         *)
(***************************************************************************)
DigestsAreCurrent ==
  \A k \in DOMAIN memos :
    k.kind \in Digested /\ Verified(k) => memos[k].value = Slice(k, Now)

(***************************************************************************)
(* No query is run for a symbol the current program does not have, though  *)
(* old memos still name such symbols: Resolution::symbol would index past  *)
(* its table.                                                              *)
(***************************************************************************)
ComputedSymbolsExist ==
  \A i \in DOMAIN calls :
    calls[i].op = "compute" /\ calls[i].key.kind \in {"TYPE_OF", "FN_BODY", "MIR_OF", "SPEC_DEPS"}
      => calls[i].key.arg \in DOMAIN Symbols[Now]

(***************************************************************************)
(* A selection, made of as many queries as there are specs, is that of the *)
(* current program: the specs that name a symbol of the changed file, and  *)
(* those that target one written in it.                                    *)
(***************************************************************************)
SelectionIsOfThisProgram ==
  selection.made =>
    selection.specs =
      {s \in SpecsIn(Now) :
         \/ s \in SymbolsInFile(Now, selection.changed)
         \/ \E d \in References(Now, s) : Symbols[Now][d].file = selection.changed}

(* type_of is "the signature type of function `symbol`"                    *)
(* (incremental.rs:297): a verified memo is the current one.               *)
TypesAreCurrent ==
  \A k \in DOMAIN memos :
    k.kind = "TYPE_OF" /\ Verified(k) => memos[k].value = SignatureOf(Now, k.arg)

(***************************************************************************)
(* mir_of is "empty if the program did not lower it" (incremental.rs:311)  *)
(* and otherwise the function's MIR: a verified memo is current.           *)
(***************************************************************************)
MirIsCurrent ==
  \A k \in DOMAIN memos : k.kind = "MIR_OF" /\ Verified(k) => memos[k].value = Mir(Now, k.arg)

(* The functions a spec runs: those it names and those they call, in turn. *)
RunBy(p, s) ==
  LET grow[n \in 0..NumSymbols] ==
        IF n = 0 THEN References(p, s)
                 ELSE grow[n - 1] \cup UNION {References(p, d) : d \in grow[n - 1]}
  IN grow[NumSymbols]

(* A selection is conservative: "a spec is included whenever its           *)
(* dependencies may have changed" (incremental.rs:417), the dependencies   *)
(* of its dependencies among them, for "a function may call another"       *)
(* (incremental.rs:856).                                                   *)
SelectionIsConservative ==
  selection.made =>
    \A s \in SpecsIn(Now) :
      (\E d \in RunBy(Now, s) : Symbols[Now][d].file = selection.changed) => s \in selection.specs
===============================================================================
