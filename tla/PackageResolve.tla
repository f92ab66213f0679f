----------------------------- MODULE PackageResolve -----------------------------
(***************************************************************************)
(* The package commands of tuo: resolve.rs of tuo-package, which walks the *)
(* path dependencies of a package, and package.rs of tuo-cli, which edits  *)
(* its manifest, holds what was found to the lockfile and writes it anew.  *)
(*                                                                         *)
(* A command reads and writes files one at a time.  Between two of its     *)
(* steps the developer may edit them.  A command may be killed, and a      *)
(* write may fail: the file is then cut off anywhere, since write          *)
(* truncates it first.  What a file says is kept as far as the commands    *)
(* tell it apart; the modules of a package are read as one.                *)
(***************************************************************************)
EXTENDS Naturals, Sequences, FiniteSets, FiniteSetsExt, Functions, SequencesExt

CONSTANTS
  Dirs,       \* the directories of the workspace
  Root,       \* the one the commands are run in
  Names,      \* package names, in their order
  Bytes,      \* what the modules of a package may say
  Manifests,  \* Manifests[d]: the manifests the developer may give directory d
  Commands,   \* what may be run
  MaxEdits    \* bound on what the developer does

(* A file that is missing or cut off does not parse; a module root may be  *)
(* missing as well.                                                        *)
Unreadable == [name |-> 0, deps |-> <<>>]
NoModules  == 0

(* A manifest gives the package a name, and a directory to each key of its *)
(* dependency table.                                                       *)
ManifestsOf(names) == [name : Names, deps : [names -> Dirs]]

ASSUME PackageAssumption ==
  /\ Root \in Dirs
  /\ Names \subseteq Nat \ {0} /\ Bytes \subseteq Nat \ {0}
  /\ \A d \in Dirs : \A m \in Manifests[d] \ {Unreadable} :
       \E names \in SUBSET Names : m \in ManifestsOf(names)
  /\ \A c \in Commands : /\ c.op \in {"build", "symbols", "add", "remove"}
                         /\ c.op \in {"add", "remove"} => c.key \in Names
                         /\ c.op = "add" => c.dir \in Dirs
  /\ MaxEdits \in Nat

VARIABLES
  manifest,  \* tdg.toml of each directory: its package's name and, for each
             \* key of its dependency table, a directory
  bytes,     \* the modules of each directory
  lock,      \* tdg.lock of the root
  cmd,       \* the command that runs, or that ran last
  pc,        \* what it does next
  text,      \* the manifest it is about to write
  path,      \* the activations of walk
  claimed,   \* the directory that each name was found in
  packages,  \* the packages that are done, by name
  outcome,   \* how the last command ended
  edits,     \* history: how often the developer did something
  still,     \* history: no file was edited since the resolution began
  trusted    \* history: the bytes that dependencies were locked to

found == <<path, claimed, packages>>
vars  == <<manifest, bytes, lock, cmd, pc, text, found, outcome, edits, still, trusted>>

NoLock         == [k |-> "none", pinned |-> <<>>]
TornLock       == [k |-> "torn", pinned |-> <<>>]
LockOf(pinned) == [k |-> "lock", pinned |-> pinned]

(* checksum_of covers the names of the modules, which begin with that of   *)
(* their package.                                                          *)
Checksum(name, b) == <<name, b>>

Pins(pkgs) == [n \in DOMAIN pkgs |-> pkgs[n].sum]

Dependencies(pkgs) == {n \in DOMAIN pkgs : ~pkgs[n].root}

Init ==
  /\ manifest \in {m \in [Dirs -> UNION Range(Manifests)] : \A d \in Dirs : m[d] \in Manifests[d]}
  /\ \E b \in Bytes : bytes = [d \in Dirs |-> b]
  /\ lock = NoLock
  /\ cmd = [op |-> "none"] /\ pc = "idle" /\ text = Unreadable
  /\ path = <<>> /\ claimed = <<>> /\ packages = <<>>
  /\ outcome = "none"
  /\ edits = 0 /\ still = FALSE /\ trusted = <<>>

-----------------------------------------------------------------------------
(* A command begins, and ends.                                             *)

Begin(c) ==
  /\ pc = "idle"
  /\ cmd' = c
  /\ pc' = IF c.op \in {"add", "remove"} THEN "edit" ELSE "resolve"
  /\ outcome' = "none"
  /\ still' = FALSE
  /\ UNCHANGED <<manifest, bytes, lock, text, found, edits, trusted>>

End(how) ==
  /\ pc' = "idle"
  /\ outcome' = how
  /\ text' = Unreadable
  /\ path' = <<>> /\ claimed' = <<>> /\ packages' = <<>>
  /\ UNCHANGED <<cmd, edits>>

(* add_path_dependency and remove_dependency, which may refuse.            *)
MayEdit(m, c) ==
  /\ m # Unreadable
  /\ c.op = "add"    => c.key # m.name /\ (c.key \in DOMAIN m.deps => m.deps[c.key] = c.dir)
  /\ c.op = "remove" => c.key \in DOMAIN m.deps

Edited(m, c) ==
  [m EXCEPT !.deps = IF c.op = "add"
                       THEN [k \in DOMAIN @ \cup {c.key} |-> IF k = c.key THEN c.dir ELSE @[k]]
                       ELSE Restrict(@, DOMAIN @ \ {c.key})]

EditManifest ==
  /\ pc = "edit"
  /\ IF MayEdit(manifest[Root], cmd)
       THEN /\ text' = Edited(manifest[Root], cmd)
            /\ pc' = "manifest"
            /\ UNCHANGED <<cmd, found, outcome, edits>>
       ELSE End("refused")
  /\ UNCHANGED <<manifest, bytes, lock, still, trusted>>

WriteManifest ==
  /\ pc = "manifest"
  /\ manifest' = [manifest EXCEPT ![Root] = text]
  /\ text' = Unreadable
  /\ pc' = "resolve"
  /\ UNCHANGED <<bytes, lock, cmd, found, outcome, edits, still, trusted>>

-----------------------------------------------------------------------------
(* resolve and walk: depth first, a package's dependencies before it.      *)

Frame(d, m) ==
  [dir |-> d, name |-> m.name, table |-> m.deps, left |-> DOMAIN m.deps, deps |-> {}]

Top == Last(path)

(* The table is gone through by its keys, in their order.                  *)
Key     == Min(Top.left)
NextDir == Top.table[Key]

OnPath(name) == \E i \in DOMAIN path : path[i].name = name

Unresolved == End("unresolved") /\ UNCHANGED still

ReadRoot ==
  /\ pc = "resolve"
  /\ LET m == manifest[Root]
     IN IF m = Unreadable
          THEN End("unresolved")
          ELSE /\ path' = <<Frame(Root, m)>>
               /\ claimed' = [n \in {m.name} |-> Root]
               /\ packages' = <<>>
               /\ pc' = "walk"
               /\ UNCHANGED <<cmd, text, outcome, edits>>
  /\ still' = TRUE
  /\ UNCHANGED <<manifest, bytes, lock, trusted>>

(* A bug: the first directory to claim a name stands for all of them.      *)
NeverClashes(n, d) == FALSE

Clashes(n, d) == n \in DOMAIN claimed /\ claimed[n] # d

(* The next dependency of the package on top: its manifest is read, and it *)
(* is entered unless it was seen before.                                   *)
ReadDependency ==
  /\ pc = "walk" /\ Top.left # {}
  /\ LET d == NextDir
         m == manifest[d]
         here == [Top EXCEPT !.left = @ \ {Key}, !.deps = @ \cup {m.name}]
     IN IF m = Unreadable \/ OnPath(m.name) \/ Clashes(m.name, d)
          THEN Unresolved
          ELSE /\ path' = IF m.name \in DOMAIN claimed THEN Append(Front(path), here)
                          ELSE Front(path) \o <<here, Frame(d, m)>>
               /\ claimed' = [n \in DOMAIN claimed \cup {m.name} |-> IF n = m.name THEN d ELSE claimed[n]]
               /\ UNCHANGED <<cmd, pc, text, packages, outcome, edits, still>>
  /\ UNCHANGED <<manifest, bytes, lock, trusted>>

PackageOf(frame, root, b) ==
  [dir |-> frame.dir, root |-> root, sum |-> Checksum(frame.name, b), deps |-> frame.deps]

(* All its dependencies are done: a package's modules are loaded.          *)
LoadModules ==
  /\ pc = "walk" /\ Top.left = {}
  /\ IF bytes[Top.dir] = NoModules
       THEN Unresolved
       ELSE /\ packages' = [n \in DOMAIN packages \cup {Top.name} |->
                              IF n = Top.name THEN PackageOf(Top, Len(path) = 1, bytes[Top.dir])
                                              ELSE packages[n]]
            /\ path' = Front(path)
            /\ pc' = IF Len(path) = 1 THEN "resolved" ELSE "walk"
            /\ UNCHANGED <<cmd, text, claimed, outcome, edits, still>>
  /\ UNCHANGED <<manifest, bytes, lock, trusted>>

-----------------------------------------------------------------------------
(* resolve_and_lock: the graph is held to the lockfile, then replaces it.  *)

(* package symbols only reads.                                             *)
Answer ==
  /\ pc = "resolved" /\ cmd.op = "symbols"
  /\ End("ok")
  /\ UNCHANGED <<manifest, bytes, lock, still, trusted>>

(* A bug: the lockfile is read back after it was written.                  *)
DriftsFromItsOwn(pkgs, pinned) == \E n \in Dependencies(pkgs) : Pins(pkgs)[n] # pkgs[n].sum

(* A dependency whose bytes are not the pinned ones; the root may change.  *)
Drifts(pkgs, pinned) ==
  \E n \in Dependencies(pkgs) : n \in DOMAIN pinned /\ pinned[n] # pkgs[n].sum

VerifyLock ==
  /\ pc = "resolved" /\ cmd.op # "symbols"
  /\ IF lock.k = "torn" \/ (lock.k = "lock" /\ Drifts(packages, lock.pinned))
       THEN End("refused")
       ELSE pc' = "lockfile" /\ UNCHANGED <<cmd, text, found, outcome, edits>>
  /\ UNCHANGED <<manifest, bytes, lock, still, trusted>>

(* The modules that are compiled after that are those of the packages.     *)
WriteLock ==
  /\ pc = "lockfile"
  /\ lock' = LockOf(Pins(packages))
  /\ trusted' = [n \in Dependencies(packages) |-> packages[n].sum]
  /\ End("ok")
  /\ UNCHANGED <<manifest, bytes, still>>

-----------------------------------------------------------------------------
(* The command is killed, or its write fails.  Cut between two entries, a  *)
(* file parses with those before, for the rest of it is optional.          *)
CutOff(f) == {Restrict(f, {k \in DOMAIN f : k <= n}) : n \in DOMAIN f \cup {0}}

CutManifest ==
  /\ pc = "manifest"
  /\ \E m \in {Unreadable} \cup {[text EXCEPT !.deps = deps] : deps \in CutOff(text.deps)} :
       manifest' = [manifest EXCEPT ![Root] = m]
  /\ End("cut")
  /\ UNCHANGED <<bytes, lock, still, trusted>>

(* Dependencies whose entries were cut off are no longer pinned.           *)
CutLock ==
  /\ pc = "lockfile"
  /\ \/ lock' = TornLock /\ UNCHANGED trusted
     \/ \E pinned \in CutOff(Pins(packages)) :
          /\ lock' = LockOf(pinned)
          /\ trusted' = Restrict(pinned, Dependencies(packages) \cap DOMAIN pinned)
  /\ End("cut")
  /\ UNCHANGED <<manifest, bytes, still>>

Kill ==
  /\ pc # "idle"
  /\ End("cut")
  /\ UNCHANGED <<manifest, bytes, lock, still, trusted>>

(* The developer edits a file, at any time.                                *)
Developer ==
  /\ edits < MaxEdits
  /\ edits' = edits + 1
  /\ still' = FALSE
  /\ \/ \E d \in Dirs : \E m \in Manifests[d] :
          manifest' = [manifest EXCEPT ![d] = m] /\ UNCHANGED <<bytes, lock, trusted>>
     \/ \E d \in Dirs : \E b \in Bytes \cup {NoModules} :
          bytes' = [bytes EXCEPT ![d] = b] /\ UNCHANGED <<manifest, lock, trusted>>
     \/ lock' = NoLock /\ trusted' = <<>> /\ UNCHANGED <<manifest, bytes>>
  /\ UNCHANGED <<cmd, pc, text, found, outcome>>

Next ==
  \/ \E c \in Commands : Begin(c)
  \/ EditManifest \/ WriteManifest
  \/ ReadRoot \/ ReadDependency \/ LoadModules
  \/ Answer \/ VerifyLock \/ WriteLock
  \/ CutManifest \/ CutLock \/ Kill
  \/ Developer

Spec == Init /\ [][Next]_vars

-----------------------------------------------------------------------------
(* What the workspace is, from the files as they stand.                    *)

DependsOn(S) == UNION {Range(manifest[d].deps) : d \in S}

(* The directories in reach of S: those in every set that has S and, with  *)
(* a directory, what it depends on.                                        *)
From(S) ==
  {d \in Dirs : \A T \in SUBSET Dirs : S \subseteq T /\ DependsOn(T) \subseteq T => d \in T}

Workspace == From({Root})

(* When the commands ought to succeed, by what walk looks at.  Not among   *)
(* it: "the declared dependency key must match the dependency's own        *)
(* package name" (resolve.rs:340, and manifest.rs:128).  Nothing compares  *)
(* the two, neither walk nor add nor the parser, so a workspace that       *)
(* breaks this rule resolves, and its packages go by their own names.      *)
Resolvable ==
  /\ \A d \in Workspace : manifest[d] # Unreadable /\ bytes[d] # NoModules
  /\ \A c, d \in Workspace : manifest[c].name = manifest[d].name => c = d
  /\ \A d \in Workspace : d \notin From(DependsOn({d}))

Graph ==
  LET in == [n \in {manifest[d].name : d \in Workspace} |->
               CHOOSE d \in Workspace : manifest[d].name = n]
  IN [n \in DOMAIN in |->
        [dir  |-> in[n],
         root |-> in[n] = Root,
         sum  |-> Checksum(n, bytes[in[n]]),
         deps |-> {manifest[d].name : d \in DependsOn({in[n]})}]]

(***************************************************************************)
(* The walk, with its path, its claims and its order, finds what there is: *)
(* of files that nobody edits meanwhile it succeeds when every package in  *)
(* reach is there, no two share a name and none depends on itself, and     *)
(* then finds each of them once, as it is; a command that ends well leaves *)
(* a lockfile that pins these and nothing else.  The keys of a dependency  *)
(* table decide no more than an order: this says nothing for the rule that *)
(* they be the names of the packages, which the code states and does not   *)
(* enforce (see Resolvable).                                               *)
(***************************************************************************)
ResolvesExactly ==
  still =>
    /\ outcome = "unresolved" => ~Resolvable
    /\ pc \in {"resolved", "lockfile"} => Resolvable /\ packages = Graph
    /\ outcome = "ok" /\ cmd.op # "symbols" => Resolvable /\ lock = LockOf(Pins(Graph))

(***************************************************************************)
(* "A build never silently compiles drifted dependency bytes"              *)
(* (package.rs:22): whatever is edited, added, removed, killed or cut off  *)
(* and in whatever order, the bytes a dependency was locked to do not      *)
(* change while the lockfile has an entry for it.                          *)
(***************************************************************************)
PinsNeverMove ==
  [][\A n \in DOMAIN trusted \cap DOMAIN trusted' : trusted'[n] = trusted[n]]_vars
=================================================================================
