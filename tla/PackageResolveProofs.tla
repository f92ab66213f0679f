------------------------- MODULE PackageResolveProofs -------------------------
(***************************************************************************)
(* The lockfile keeps its pins, for every workspace, every order of edits  *)
(* and commands, and every point at which a command stops.                 *)
(***************************************************************************)
EXTENDS PackageResolve, WellFoundedInduction, TLAPS

(* The lockfile has an entry for every pin that is relied on ...           *)
LockKeepsPins ==
  /\ lock.k \in {"none", "torn", "lock"}
  /\ lock.k = "none" => DOMAIN trusted = {}
  /\ lock.k = "lock" =>
       \A n \in DOMAIN trusted : n \in DOMAIN lock.pinned /\ lock.pinned[n] = trusted[n]

(* ... and a command that is about to replace it found the same bytes.     *)
WritesTheSame ==
  pc = "lockfile" =>
    \A n \in Dependencies(packages) : n \in DOMAIN trusted => packages[n].sum = trusted[n]

LockInv == LockKeepsPins /\ WritesTheSame

(* No action of the command but the two that write the lockfile, and none  *)
(* of the developer's but the deletion of it, touches a pin.               *)
LEMMA InitLock == Init => LockInv
  BY DEF Init, LockInv, LockKeepsPins, WritesTheSame, NoLock

(* A command ends by forgetting what it found.                             *)
LEMMA EndKeeps ==
  ASSUME LockInv, pc' = "idle", UNCHANGED <<lock, trusted>>
  PROVE  LockInv'
  BY DEF LockInv, LockKeepsPins, WritesTheSame

(* What a lockfile pins of the packages found, whole or cut off, agrees    *)
(* with what was pinned before.                                            *)
LEMMA WriteLockKeeps ==
  ASSUME LockInv, WriteLock
  PROVE  /\ LockInv'
         /\ \A n \in DOMAIN trusted \cap DOMAIN trusted' : trusted'[n] = trusted[n]
<1>1. /\ pc' = "idle" /\ lock' = LockOf(Pins(packages))
      /\ trusted' = [n \in Dependencies(packages) |-> packages[n].sum]
  BY DEF WriteLock, End
<1>2. Dependencies(packages) \subseteq DOMAIN packages
  BY DEF Dependencies
<1>3. LockKeepsPins'
  BY <1>1, <1>2 DEF LockKeepsPins, LockOf, Pins
<1>4. WritesTheSame'
  BY <1>1 DEF WritesTheSame
<1>5. \A n \in DOMAIN trusted \cap DOMAIN trusted' : trusted'[n] = trusted[n]
  BY <1>1 DEF LockInv, WritesTheSame, WriteLock
<1> QED BY <1>3, <1>4, <1>5 DEF LockInv

LEMMA CutLockKeeps ==
  ASSUME LockInv, CutLock
  PROVE  /\ LockInv'
         /\ \A n \in DOMAIN trusted \cap DOMAIN trusted' : trusted'[n] = trusted[n]
<1>1. pc = "lockfile" /\ pc' = "idle"
  BY DEF CutLock, End
<1>2. CASE lock' = TornLock /\ UNCHANGED trusted
  BY <1>1, <1>2 DEF LockInv, LockKeepsPins, WritesTheSame, TornLock
<1>3. CASE \E pinned \in CutOff(Pins(packages)) :
             /\ lock' = LockOf(pinned)
             /\ trusted' = Restrict(pinned, Dependencies(packages) \cap DOMAIN pinned)
  <2>1. PICK pinned \in CutOff(Pins(packages)) :
           /\ lock' = LockOf(pinned)
           /\ trusted' = Restrict(pinned, Dependencies(packages) \cap DOMAIN pinned)
    BY <1>3
  <2>2. \A n \in DOMAIN pinned : pinned[n] = packages[n].sum
    BY <2>1 DEF CutOff, Pins, Restrict
  <2>3. /\ DOMAIN trusted' = Dependencies(packages) \cap DOMAIN pinned
        /\ \A n \in DOMAIN trusted' : trusted'[n] = pinned[n]
    BY <2>1 DEF Restrict
  <2>4. LockInv'
    BY <1>1, <2>1, <2>3 DEF LockInv, LockKeepsPins, WritesTheSame, LockOf
  <2>5. \A n \in DOMAIN trusted \cap DOMAIN trusted' : trusted'[n] = trusted[n]
    BY <1>1, <2>2, <2>3 DEF LockInv, WritesTheSame
  <2> QED BY <2>4, <2>5
<1> QED BY <1>2, <1>3 DEF CutLock

(* A command goes on to write only if no pinned dependency drifted.        *)
LEMMA VerifyLockKeeps ==
  ASSUME LockInv, VerifyLock
  PROVE  LockInv' /\ UNCHANGED trusted
<1>1. UNCHANGED <<lock, trusted>>
  BY DEF VerifyLock
<1>2. CASE lock.k = "torn" \/ (lock.k = "lock" /\ Drifts(packages, lock.pinned))
  BY <1>1, <1>2, EndKeeps DEF VerifyLock, End
<1>3. CASE ~(lock.k = "torn" \/ (lock.k = "lock" /\ Drifts(packages, lock.pinned)))
  <2>1. UNCHANGED packages
    BY <1>3 DEF VerifyLock, found
  <2>2. \A n \in Dependencies(packages) : n \in DOMAIN trusted => packages[n].sum = trusted[n]
    BY <1>3 DEF LockInv, LockKeepsPins, Drifts
  <2> QED BY <1>1, <2>1, <2>2 DEF LockInv, LockKeepsPins, WritesTheSame
<1> QED BY <1>1, <1>2, <1>3

LEMMA DeveloperKeeps ==
  ASSUME LockInv, Developer
  PROVE  /\ LockInv'
         /\ \A n \in DOMAIN trusted \cap DOMAIN trusted' : trusted'[n] = trusted[n]
<1>1. UNCHANGED <<pc, packages>>
  BY DEF Developer, found
<1>2. CASE UNCHANGED <<lock, trusted>>
  BY <1>1, <1>2 DEF LockInv, LockKeepsPins, WritesTheSame
<1>3. CASE lock' = NoLock /\ trusted' = <<>>
  BY <1>1, <1>3 DEF LockInv, LockKeepsPins, WritesTheSame, NoLock
<1> QED BY <1>2, <1>3 DEF Developer

(* Every other step leaves the lockfile alone and does not come to write.  *)
LEMMA OtherStepsKeep ==
  ASSUME LockInv,
         \/ \E c \in Commands : Begin(c)
         \/ EditManifest \/ WriteManifest \/ ReadRoot \/ ReadDependency \/ LoadModules
         \/ Answer \/ CutManifest \/ Kill
  PROVE  LockInv' /\ UNCHANGED trusted
<1>1. UNCHANGED <<lock, trusted>>
  BY DEF Begin, EditManifest, WriteManifest, ReadRoot, ReadDependency, LoadModules, Answer, CutManifest, Kill
<1>2. pc' # "lockfile"
  <2>1. CASE \E c \in Commands : Begin(c)
    BY <2>1 DEF Begin
  <2>2. CASE EditManifest \/ WriteManifest \/ ReadRoot
    BY <2>2 DEF EditManifest, WriteManifest, ReadRoot, End
  <2>3. CASE ReadDependency
    BY <2>3 DEF ReadDependency, Unresolved, End
  <2>4. CASE LoadModules
    BY <2>4 DEF LoadModules, Unresolved, End
  <2>5. CASE Answer \/ CutManifest \/ Kill
    BY <2>5 DEF Answer, CutManifest, Kill, End
  <2> QED BY <2>1, <2>2, <2>3, <2>4, <2>5
<1> QED BY <1>1, <1>2 DEF LockInv, LockKeepsPins, WritesTheSame

LEMMA LockStep ==
  ASSUME LockInv, [Next]_vars
  PROVE  /\ LockInv'
         /\ \A n \in DOMAIN trusted \cap DOMAIN trusted' : trusted'[n] = trusted[n]
<1>1. CASE WriteLock
  BY <1>1, WriteLockKeeps
<1>2. CASE CutLock
  BY <1>2, CutLockKeeps
<1>3. CASE VerifyLock
  BY <1>3, VerifyLockKeeps
<1>4. CASE Developer
  BY <1>4, DeveloperKeeps
<1>5. CASE \/ \E c \in Commands : Begin(c)
           \/ EditManifest \/ WriteManifest \/ ReadRoot \/ ReadDependency \/ LoadModules
           \/ Answer \/ CutManifest \/ Kill
  BY <1>5, OtherStepsKeep
<1>6. CASE UNCHANGED vars
  BY <1>6 DEF vars, found, LockInv, LockKeepsPins, WritesTheSame
<1> QED BY <1>1, <1>2, <1>3, <1>4, <1>5, <1>6 DEF Next

(* The lockfile and the packages found agree with every pin there is.      *)
THEOREM LockIsKept == Spec => []LockInv
<1>1. LockInv /\ [Next]_vars => LockInv'
  BY LockStep
<1> QED BY InitLock, <1>1, PTL DEF Spec

(* A dependency's pinned bytes change only by leaving the lockfile first   *)
(* (verify_against_lock, resolve.rs:275): of every number of packages, of  *)
(* commands and of edits, with a command stopped at any step.              *)
THEOREM PinsAreKept == Spec => PinsNeverMove
<1>1. LockInv /\ [Next]_vars =>
        [\A n \in DOMAIN trusted \cap DOMAIN trusted' : trusted'[n] = trusted[n]]_vars
  BY LockStep
<1> QED BY LockIsKept, <1>1, PTL DEF Spec, PinsNeverMove

-----------------------------------------------------------------------------
(* A graph lists no dependency that it does not hold.                      *)
Closed(pkgs) == \A n \in DOMAIN pkgs : pkgs[n].deps \subseteq DOMAIN pkgs

(***************************************************************************)
(* What walk hands on is closed (resolve.rs:335), the files being edited   *)
(* under it or not: of a package that lists a dependency, the dependency's *)
(* modules are compiled and locked as well.                                *)
(***************************************************************************)
GraphIsClosed == pc \in {"resolved", "lockfile"} => Closed(packages)

(* An activation of walk has listed packages that are done, and the one    *)
(* that the activation above it is at.                                     *)
Listed(p, pkgs) ==
  \A i \in 1..Len(p) :
    p[i].deps \subseteq DOMAIN pkgs \cup (IF i < Len(p) THEN {p[i + 1].name} ELSE {})

(* A name that was claimed is done or on the path.                         *)
ClaimsAreMet(p, pkgs) ==
  \A n \in DOMAIN claimed : n \in DOMAIN pkgs \/ \E i \in 1..Len(p) : p[i].name = n

IsPath(p) == \E S : p \in Seq(S)

Walking ==
  pc = "walk" => IsPath(path) /\ Len(path) > 0 /\ Listed(path, packages) /\ ClaimsAreMet(path, packages)

WalkInv == (pc \in {"walk", "resolved", "lockfile"} => Closed(packages)) /\ Walking

LEMMA FrontOps ==
  ASSUME NEW S, NEW p \in Seq(S), Len(p) > 0
  PROVE  /\ Front(p) \in Seq(S) /\ Len(Front(p)) = Len(p) - 1
         /\ \A i \in 1..(Len(p) - 1) : Front(p)[i] = p[i]
<1> DEFINE n == Len(p) - 1
<1>1. n \in Nat /\ n = Len(p) - 1 /\ Front(p) = SubSeq(p, 1, n)
  BY DEF Front
<1> HIDE DEF n
<1>2. SubSeq(p, 1, n) \in Seq(S)
  BY <1>1
<1>3. Len(SubSeq(p, 1, n)) = n
  BY <1>1
<1>4. \A i \in 1..n : SubSeq(p, 1, n)[i] = p[i]
  BY <1>1
<1> QED BY <1>1, <1>2, <1>3, <1>4

LEMMA PathOps ==
  ASSUME NEW p, IsPath(p), Len(p) > 0, NEW e
  PROVE  /\ Last(p) = p[Len(p)]
         /\ IsPath(Front(p)) /\ Len(Front(p)) = Len(p) - 1
         /\ \A i \in 1..(Len(p) - 1) : Front(p)[i] = p[i]
         /\ IsPath(Append(Front(p), e)) /\ Len(Append(Front(p), e)) = Len(p)
         /\ \A i \in 1..(Len(p) - 1) : Append(Front(p), e)[i] = p[i]
         /\ Append(Front(p), e)[Len(p)] = e
<1>1. PICK S : p \in Seq(S)
  BY DEF IsPath
<1>2. /\ Front(p) \in Seq(S) /\ Len(Front(p)) = Len(p) - 1
      /\ \A i \in 1..(Len(p) - 1) : Front(p)[i] = p[i]
  BY <1>1, FrontOps
<1>3. Front(p) \in Seq(S \cup {e}) /\ e \in S \cup {e}
  BY <1>2
<1>4. /\ Append(Front(p), e) \in Seq(S \cup {e}) /\ Len(Append(Front(p), e)) = Len(p)
      /\ \A i \in 1..(Len(p) - 1) : Append(Front(p), e)[i] = p[i]
      /\ Append(Front(p), e)[Len(p)] = e
  BY <1>1, <1>2, <1>3
<1> QED BY <1>2, <1>4 DEF IsPath, Last

Push(p, e, f) == Front(p) \o <<e, f>>

LEMMA PushOps ==
  ASSUME NEW p, IsPath(p), Len(p) > 0, NEW e, NEW f
  PROVE  /\ IsPath(Push(p, e, f)) /\ Len(Push(p, e, f)) = Len(p) + 1
         /\ \A i \in 1..(Len(p) - 1) : Push(p, e, f)[i] = p[i]
         /\ Push(p, e, f)[Len(p)] = e /\ Push(p, e, f)[Len(p) + 1] = f
<1>1. PICK S : p \in Seq(S)
  BY DEF IsPath
<1> DEFINE T == S \cup {e, f}
           q == Front(p) \o <<e, f>>
<1>2. Len(p) \in Nat /\ Front(p) \in Seq(T) /\ Len(Front(p)) = Len(p) - 1 /\ <<e, f>> \in Seq(T)
  BY <1>1, FrontOps
<1>3. \A i \in 1..(Len(p) - 1) : Front(p)[i] = p[i]
  BY <1>1, FrontOps
<1>4. q \in Seq(T) /\ Len(q) = Len(p) + 1
  BY <1>2
<1>5. /\ \A i \in 1..(Len(p) - 1) : q[i] = Front(p)[i]
      /\ q[Len(p)] = e /\ q[Len(p) + 1] = f
  BY <1>2
<1>6. Push(p, e, f) = q
  BY DEF Push
<1> HIDE DEF q
<1> QED BY <1>3, <1>4, <1>5, <1>6 DEF IsPath

LEMMA TopIs ==
  ASSUME IsPath(path), Len(path) > 0
  PROVE  Len(path) \in Nat /\ Top = path[Len(path)]
<1>1. PICK S : path \in Seq(S)
  BY DEF IsPath
<1> QED BY <1>1 DEF Top, Last

(* The root is entered with nothing listed or done.                        *)
LEMMA ReadRootWalks ==
  ASSUME WalkInv, ReadRoot
  PROVE  WalkInv'
<1>1. CASE manifest[Root] = Unreadable
  BY <1>1 DEF ReadRoot, End, WalkInv, Walking
<1>2. CASE manifest[Root] # Unreadable
  <2> DEFINE f == Frame(Root, manifest[Root])
  <2>1. /\ path' = <<f>> /\ packages' = <<>> /\ pc' = "walk"
        /\ claimed' = [n \in {manifest[Root].name} |-> Root]
    BY <1>2 DEF ReadRoot
  <2>2. f.deps = {} /\ f.name = manifest[Root].name
    BY DEF Frame
  <2> HIDE DEF f
  <2>3. IsPath(<<f>>) /\ Len(<<f>>) = 1 /\ <<f>>[1] = f
    <3>1. <<f>> \in Seq({f})
      OBVIOUS
    <3> QED BY <3>1 DEF IsPath
  <2>4. Listed(path', packages') /\ Closed(packages')
    BY <2>1, <2>2, <2>3 DEF Listed, Closed
  <2>5. ClaimsAreMet(path, packages)'
    BY <2>1, <2>2, <2>3 DEF ClaimsAreMet
  <2> QED BY <2>1, <2>3, <2>4, <2>5 DEF WalkInv, Walking
<1> QED BY <1>1, <1>2

LEMMA ReadDependencyWalks ==
  ASSUME WalkInv, ReadDependency
  PROVE  WalkInv'
<1> DEFINE d == NextDir
           m == manifest[d]
           here == [Top EXCEPT !.left = @ \ {Key}, !.deps = @ \cup {m.name}]
<1>1. CASE m = Unreadable \/ OnPath(m.name) \/ Clashes(m.name, d)
  BY <1>1 DEF ReadDependency, Unresolved, End, WalkInv, Walking
<1>2. CASE ~(m = Unreadable \/ OnPath(m.name) \/ Clashes(m.name, d))
  <2>1. /\ pc = "walk" /\ pc' = "walk" /\ packages' = packages
        /\ path' = IF m.name \in DOMAIN claimed THEN Append(Front(path), here)
                   ELSE Front(path) \o <<here, Frame(d, m)>>
        /\ DOMAIN claimed' = DOMAIN claimed \cup {m.name}
    BY <1>2 DEF ReadDependency
  <2>2. /\ IsPath(path) /\ Len(path) > 0 /\ Len(path) \in Nat /\ Top = path[Len(path)]
        /\ Listed(path, packages) /\ ClaimsAreMet(path, packages) /\ Closed(packages)
    BY <2>1, TopIs DEF WalkInv, Walking
  <2>3. here.name = path[Len(path)].name /\ here.deps = path[Len(path)].deps \cup {m.name}
    BY <2>2
  <2>4. /\ \A i \in 1..(Len(path) - 1) : path[i].deps \subseteq DOMAIN packages \cup {path[i + 1].name}
        /\ path[Len(path)].deps \subseteq DOMAIN packages
    BY <2>2 DEF Listed
  <2>5. Frame(d, m).deps = {} /\ Frame(d, m).name = m.name
    BY DEF Frame
  <2>6. m.name \in DOMAIN claimed => m.name \in DOMAIN packages
    BY <1>2, <2>2 DEF ClaimsAreMet, OnPath, IsPath
  <2> HIDE DEF m, d, here
  <2>7. CASE m.name \in DOMAIN claimed
    <3>1. /\ IsPath(path') /\ Len(path') = Len(path) /\ path'[Len(path)] = here
          /\ \A i \in 1..(Len(path) - 1) : path'[i] = path[i]
      BY <2>1, <2>2, <2>7, PathOps
    <3>2. \A i \in 1..Len(path) : path'[i].name = path[i].name
      BY <2>2, <2>3, <3>1
    <3>3. Listed(path', packages')
      BY <2>1, <2>2, <2>3, <2>4, <2>6, <2>7, <3>1, <3>2 DEF Listed
    <3>4. ClaimsAreMet(path, packages)'
      BY <2>1, <2>2, <2>6, <2>7, <3>1, <3>2 DEF ClaimsAreMet
    <3> QED BY <2>1, <2>2, <3>1, <3>3, <3>4 DEF WalkInv, Walking
  <2>8. CASE m.name \notin DOMAIN claimed
    <3> DEFINE f == Frame(d, m)
    <3> HIDE DEF f
    <3>1. /\ IsPath(path') /\ Len(path') = Len(path) + 1
          /\ path'[Len(path)] = here /\ path'[Len(path) + 1] = f
          /\ \A i \in 1..(Len(path) - 1) : path'[i] = path[i]
      <4>1. path' = Push(path, here, f)
        BY <2>1, <2>8 DEF f, Push
      <4> QED BY <2>2, <4>1, PushOps
    <3>2. \A i \in 1..Len(path) : path'[i].name = path[i].name
      BY <2>2, <2>3, <3>1
    <3>3. f.deps = {} /\ f.name = m.name
      BY <2>5 DEF f
    <3>4. Listed(path', packages')
      <4> SUFFICES ASSUME NEW i \in 1..(Len(path) + 1)
                   PROVE  path'[i].deps \subseteq
                            DOMAIN packages \cup (IF i < Len(path) + 1 THEN {path'[i + 1].name} ELSE {})
        BY <2>1, <2>2, <3>1 DEF Listed
      <4>1. CASE i < Len(path)
        BY <2>2, <2>4, <3>1, <3>2, <4>1
      <4>2. CASE i = Len(path)
        <5>1. Len(path) \in Nat /\ path'[i].deps = path[Len(path)].deps \cup {m.name}
          BY <2>2, <2>3, <3>1, <4>2 DEF IsPath
        <5>2. path'[i + 1].name = m.name
          BY <3>1, <3>3, <4>2
        <5> QED BY <2>4, <4>2, <5>1, <5>2
      <4>3. CASE i = Len(path) + 1
        BY <3>1, <3>3, <4>3
      <4> QED BY <2>2, <4>1, <4>2, <4>3
    <3>5. ClaimsAreMet(path, packages)'
      <4>1. Len(path) + 1 \in 1..Len(path') /\ \A i \in 1..Len(path) : i \in 1..Len(path')
        BY <2>2, <3>1
      <4> SUFFICES ASSUME NEW n \in DOMAIN claimed'
                   PROVE  n \in DOMAIN packages \/ \E i \in 1..Len(path') : path'[i].name = n
        BY <2>1 DEF ClaimsAreMet
      <4>2. CASE n \in DOMAIN claimed
        BY <2>2, <3>2, <4>1, <4>2 DEF ClaimsAreMet
      <4>3. CASE n = m.name
        BY <3>1, <3>3, <4>1, <4>3
      <4> QED BY <2>1, <4>2, <4>3
    <3> QED BY <2>1, <2>2, <3>1, <3>4, <3>5 DEF WalkInv, Walking
  <2> QED BY <2>7, <2>8
<1> QED BY <1>1, <1>2

LEMMA LoadModulesWalks ==
  ASSUME WalkInv, LoadModules
  PROVE  WalkInv'
<1>1. CASE bytes[Top.dir] = NoModules
  BY <1>1 DEF LoadModules, Unresolved, End, WalkInv, Walking
<1>2. CASE bytes[Top.dir] # NoModules
  <2> DEFINE new == PackageOf(Top, Len(path) = 1, bytes[Top.dir])
  <2>1. /\ pc = "walk" /\ path' = Front(path) /\ claimed' = claimed
        /\ packages' = [n \in DOMAIN packages \cup {Top.name} |->
                          IF n = Top.name THEN new ELSE packages[n]]
        /\ pc' = IF Len(path) = 1 THEN "resolved" ELSE "walk"
    BY <1>2 DEF LoadModules
  <2>2. /\ IsPath(path) /\ Len(path) > 0 /\ Len(path) \in Nat /\ Top = path[Len(path)]
        /\ Listed(path, packages) /\ ClaimsAreMet(path, packages) /\ Closed(packages)
    BY <2>1, TopIs DEF WalkInv, Walking
  <2>3. new.deps = Top.deps
    BY DEF PackageOf
  <2>4. Top.deps \subseteq DOMAIN packages
    BY <2>2 DEF Listed
  <2> HIDE DEF new
  <2>5. DOMAIN packages' = DOMAIN packages \cup {Top.name}
    BY <2>1
  <2>6. Closed(packages')
    BY <2>1, <2>2, <2>3, <2>4, <2>5 DEF Closed
  <2>7. /\ IsPath(path') /\ Len(path') = Len(path) - 1
        /\ \A i \in 1..(Len(path) - 1) : path'[i] = path[i]
    BY <2>1, <2>2, PathOps
  <2>8. Listed(path', packages')
    BY <2>2, <2>5, <2>7 DEF Listed
  <2>9. ClaimsAreMet(path, packages)'
    BY <2>1, <2>2, <2>5, <2>7 DEF ClaimsAreMet
  <2>10. pc' = "walk" => Len(path') > 0
    BY <2>1, <2>2, <2>7
  <2> QED BY <2>1, <2>6, <2>7, <2>8, <2>9, <2>10 DEF WalkInv, Walking
<1> QED BY <1>1, <1>2

(* The other steps end the walk, or do not touch it.                       *)
LEMMA OthersWalk ==
  ASSUME WalkInv,
         \/ \E c \in Commands : Begin(c)
         \/ EditManifest \/ WriteManifest \/ Answer \/ VerifyLock \/ WriteLock
         \/ CutManifest \/ CutLock \/ Kill \/ Developer
  PROVE  WalkInv'
<1>1. CASE (\E c \in Commands : Begin(c)) \/ WriteManifest
  BY <1>1 DEF Begin, WriteManifest, WalkInv, Walking
<1>2. CASE EditManifest
  BY <1>2 DEF EditManifest, End, WalkInv, Walking
<1>3. CASE VerifyLock
  BY <1>3 DEF VerifyLock, End, found, WalkInv, Walking
<1>4. CASE Answer \/ WriteLock \/ CutManifest \/ CutLock \/ Kill
  BY <1>4 DEF Answer, WriteLock, CutManifest, CutLock, Kill, End, WalkInv, Walking
<1>5. CASE Developer
  BY <1>5 DEF Developer, found, WalkInv, Walking, ClaimsAreMet
<1> QED BY <1>1, <1>2, <1>3, <1>4, <1>5

LEMMA WalkStep ==
  ASSUME WalkInv, [Next]_vars
  PROVE  WalkInv'
<1>1. CASE Next
  BY <1>1, ReadRootWalks, ReadDependencyWalks, LoadModulesWalks, OthersWalk DEF Next
<1>2. CASE UNCHANGED vars
  BY <1>2 DEF vars, found, WalkInv, Walking, ClaimsAreMet
<1> QED BY <1>1, <1>2

(* The graph that a resolution hands on is closed, in every workspace and  *)
(* whatever is edited while it is walked.                                  *)
THEOREM GraphsAreClosed == Spec => []GraphIsClosed
<1>1. Init => WalkInv
  BY DEF Init, WalkInv, Walking
<1>2. WalkInv /\ [Next]_vars => WalkInv'
  BY WalkStep
<1>3. WalkInv => GraphIsClosed
  BY DEF WalkInv, GraphIsClosed
<1> QED BY <1>1, <1>2, <1>3, PTL DEF Spec

-----------------------------------------------------------------------------
(* What a directory's manifest lets it depend on, and what is in reach.    *)

IsManifest(m) == m = Unreadable \/ \E names \in SUBSET Names : m \in ManifestsOf(names)

ManifestsOK == manifest = [d \in Dirs |-> manifest[d]] /\ \A d \in Dirs : IsManifest(manifest[d])

NameOf(d) == manifest[d].name

LEMMA ManifestFacts ==
  ASSUME NEW m, IsManifest(m)
  PROVE  /\ DOMAIN m.deps \subseteq Names
         /\ \A k \in DOMAIN m.deps : m.deps[k] \in Dirs
         /\ m # Unreadable => m.name \in Names
<1>1. CASE m = Unreadable
  BY <1>1 DEF Unreadable
<1>2. CASE \E names \in SUBSET Names : m \in ManifestsOf(names)
  BY <1>2 DEF ManifestsOf
<1> QED BY <1>1, <1>2 DEF IsManifest

LEMMA DependsIff ==
  ASSUME NEW S, NEW e
  PROVE  e \in DependsOn(S) <=> \E d \in S : \E k \in DOMAIN manifest[d].deps : e = manifest[d].deps[k]
BY DEF DependsOn, Range

LEMMA DependsOnDirs ==
  ASSUME ManifestsOK, NEW S, S \subseteq Dirs
  PROVE  DependsOn(S) \subseteq Dirs
<1> SUFFICES ASSUME NEW e \in DependsOn(S) PROVE e \in Dirs
  OBVIOUS
<1>1. PICK d \in S : \E k \in DOMAIN manifest[d].deps : e = manifest[d].deps[k]
  BY DependsIff
<1>2. IsManifest(manifest[d])
  BY DEF ManifestsOK
<1> QED BY <1>1, <1>2, ManifestFacts

LEMMA DependsMore ==
  ASSUME NEW S, NEW T, S \subseteq T
  PROVE  DependsOn(S) \subseteq DependsOn(T)
BY DEF DependsOn

(* From(S) has S and is closed, and every such set has all of it.          *)
LEMMA FromHas ==
  ASSUME NEW S, S \subseteq Dirs
  PROVE  S \subseteq From(S)
BY DEF From

LEMMA FromLeast ==
  ASSUME NEW S, NEW T, T \subseteq Dirs, S \subseteq T, DependsOn(T) \subseteq T
  PROVE  From(S) \subseteq T
BY DEF From

LEMMA FromCloses ==
  ASSUME ManifestsOK, NEW S, S \subseteq Dirs
  PROVE  From(S) \subseteq Dirs /\ DependsOn(From(S)) \subseteq From(S)
<1>1. From(S) \subseteq Dirs
  BY DEF From
<1>2. ASSUME NEW e \in DependsOn(From(S)) PROVE e \in From(S)
  <2>1. e \in Dirs
    BY <1>1, DependsOnDirs
  <2>2. ASSUME NEW T \in SUBSET Dirs, S \subseteq T, DependsOn(T) \subseteq T
        PROVE  e \in T
    <3>1. From(S) \subseteq T
      BY <2>2, FromLeast
    <3>2. DependsOn(From(S)) \subseteq DependsOn(T)
      BY <3>1, DependsMore
    <3> QED BY <2>2, <3>2
  <2> QED BY <2>1, <2>2 DEF From
<1> QED BY <1>1, <1>2

(* A step further is in reach as well.                                     *)
LEMMA FromStep ==
  ASSUME ManifestsOK, NEW S, S \subseteq Dirs, NEW d \in From(S), NEW e \in DependsOn({d})
  PROVE  e \in From(S)
<1>1. DependsOn({d}) \subseteq DependsOn(From(S))
  BY DependsMore
<1> QED BY <1>1, FromCloses

LEMMA FilesSame ==
  ASSUME UNCHANGED <<manifest, bytes>>
  PROVE  /\ \A S : From(S)' = From(S) /\ DependsOn(S)' = DependsOn(S)
         /\ Workspace' = Workspace /\ Graph' = Graph /\ (Resolvable' <=> Resolvable)
         /\ ManifestsOK' <=> ManifestsOK
<1>1. \A S : DependsOn(S)' = DependsOn(S)
  BY DEF DependsOn
<1>2. \A S : From(S)' = From(S)
  BY <1>1 DEF From
<1>3. Workspace' = Workspace
  BY <1>2 DEF Workspace
<1>4. Graph' = Graph
  <2> DEFINE in == [n \in {manifest[d].name : d \in Workspace} |->
                     CHOOSE d \in Workspace : manifest[d].name = n]
             pkg(n) == [dir |-> in[n], root |-> in[n] = Root, sum |-> Checksum(n, bytes[in[n]]),
                        deps |-> {manifest[d].name : d \in DependsOn({in[n]})}]
  <2>1. in' = in
    BY <1>3
  <2>2. \A S : {manifest[d].name : d \in DependsOn(S)}' = {manifest[d].name : d \in DependsOn(S)}
    BY <1>1
  <2>3. \A n : pkg(n)' = pkg(n)
    <3> SUFFICES ASSUME NEW n PROVE pkg(n)' = pkg(n)
      OBVIOUS
    <3> HIDE DEF in
    <3>1. {manifest[d].name : d \in DependsOn({in[n]})}' = {manifest[d].name : d \in DependsOn({in'[n]})}
      BY <2>2
    <3> QED BY <2>1, <3>1 DEF Checksum
  <2>4. Graph = [n \in DOMAIN in |-> pkg(n)]
    BY DEF Graph
  <2>5. Graph' = [n \in DOMAIN in' |-> pkg(n)']
    BY DEF Graph
  <2> HIDE DEF in, pkg
  <2> QED BY <2>1, <2>3, <2>4, <2>5
<1>5. Resolvable' <=> Resolvable
  BY <1>1, <1>2, <1>3 DEF Resolvable
<1>6. ManifestsOK' <=> ManifestsOK
  BY DEF ManifestsOK
<1> QED BY <1>1, <1>2, <1>3, <1>4, <1>5, <1>6
(* The table is gone through by its least key.                             *)
LEMMA LeastKey ==
  ASSUME NEW S, S \subseteq Nat, S # {}
  PROVE  Min(S) \in S
<1>1. PICK x \in S : \A y \in S : ~(<<y, x>> \in OpToRel(<, Nat))
  BY NatLessThanWellFounded, WFMin
<1>2. \A y \in S : x <= y
  <2> SUFFICES ASSUME NEW y \in S PROVE x <= y
    OBVIOUS
  <2>1. <<y, x>> \notin OpToRel(<, Nat)
    BY <1>1
  <2>2. <<y, x>> \in Nat \X Nat /\ <<y, x>>[1] = y /\ <<y, x>>[2] = x
    OBVIOUS
  <2>3. ~(y < x)
    BY <2>1, <2>2 DEF OpToRel
  <2> QED BY <2>3
<1> QED BY <1>2 DEF Min

-----------------------------------------------------------------------------
(* Of files that nobody edits, what the walk has found so far.             *)

NamesOf(S) == {NameOf(d) : d \in S}

(* What an activation has listed, and what is done.                        *)
Looked(f)    == {f.table[k] : k \in DOMAIN f.table \ f.left}
Done(cl, pk) == {cl[n] : n \in DOMAIN pk}

(* An activation is of a package in reach, and read it as it is.           *)
FrameOK(f) ==
  /\ DOMAIN f = {"dir", "name", "table", "left", "deps"}
  /\ f.dir \in Workspace /\ manifest[f.dir] # Unreadable
  /\ f.name = NameOf(f.dir) /\ f.table = manifest[f.dir].deps
  /\ f.left \subseteq DOMAIN f.table
  /\ f.deps = NamesOf(Looked(f))

IsOpen(f, cl, pk) == f.name \in DOMAIN cl /\ f.name \notin DOMAIN pk /\ cl[f.name] = f.dir

FramesOK(p, cl, pk) == \A i \in 1..Len(p) : FrameOK(p[i]) /\ IsOpen(p[i], cl, pk)

(* The path goes down from the root, a dependency at a time.               *)
Below(f, g) == g.dir \in From(DependsOn({f.dir})) /\ f.name # g.name

ChainOK(p) == p[1].dir = Root /\ \A i, j \in 1..Len(p) : i < j => Below(p[i], p[j])

ListedOK(p, D) ==
  \A i \in 1..Len(p) : Looked(p[i]) \subseteq D \cup (IF i < Len(p) THEN {p[i + 1].dir} ELSE {})

(* A name is claimed by the package in reach that has it.                  *)
ClaimOK(n, d) == d \in Workspace /\ manifest[d] # Unreadable /\ NameOf(d) = n

ClaimsOK(cl) == \A n \in DOMAIN cl : ClaimOK(n, cl[n])

(* A package that is done is as its files say, and all it needs is done.   *)
PackageAs(n, d) ==
  [dir |-> d, root |-> d = Root, sum |-> Checksum(n, bytes[d]), deps |-> NamesOf(DependsOn({d}))]

DoneOK(d, D) ==
  bytes[d] # NoModules /\ DependsOn({d}) \subseteq D /\ d \notin From(DependsOn({d}))

PackagesOK(cl, pk) ==
  /\ DOMAIN pk \subseteq DOMAIN cl
  /\ pk = [n \in DOMAIN pk |-> PackageAs(n, cl[n])]
  /\ \A n \in DOMAIN pk : DoneOK(cl[n], Done(cl, pk))

WalkedOK(p, cl, pk) ==
  /\ FramesOK(p, cl, pk) /\ ChainOK(p) /\ ListedOK(p, Done(cl, pk))
  /\ ClaimsOK(cl) /\ PackagesOK(cl, pk)

(* The workspace, its root in it.                                          *)
LEMMA RootIn ==
  Root \in Workspace
BY PackageAssumption, FromHas DEF Workspace

LEMMA WorkspaceStep ==
  ASSUME ManifestsOK, NEW d \in Workspace, NEW e \in DependsOn({d})
  PROVE  e \in Workspace
BY PackageAssumption, FromStep DEF Workspace

LEMMA WorkspaceDirs ==
  Workspace \subseteq Dirs
BY DEF Workspace, From

(* What makes a workspace unresolvable.                                    *)
LEMMA LacksManifest ==
  ASSUME NEW d \in Workspace, manifest[d] = Unreadable \/ bytes[d] = NoModules
  PROVE  ~Resolvable
BY DEF Resolvable

LEMMA SharesName ==
  ASSUME NEW c \in Workspace, NEW d \in Workspace, NameOf(c) = NameOf(d), c # d
  PROVE  ~Resolvable
BY DEF Resolvable, NameOf

LEMMA OnItself ==
  ASSUME NEW d \in Workspace, d \in From(DependsOn({d}))
  PROVE  ~Resolvable
BY DEF Resolvable

(* A walk that ended has found the graph.                                  *)
LEMMA FoundGraph ==
  ASSUME ManifestsOK, NEW cl, NEW pk, ClaimsOK(cl), PackagesOK(cl, pk), Root \in Done(cl, pk)
  PROVE  Resolvable /\ pk = Graph
<1>1. \A n \in DOMAIN pk : ClaimOK(n, cl[n])
  BY DEF ClaimsOK, PackagesOK
<1>2. Done(cl, pk) \subseteq Workspace
  BY <1>1 DEF Done, ClaimOK
<1>3. DependsOn(Done(cl, pk)) \subseteq Done(cl, pk)
  <2> SUFFICES ASSUME NEW e \in DependsOn(Done(cl, pk)) PROVE e \in Done(cl, pk)
    OBVIOUS
  <2>1. PICK d \in Done(cl, pk) : \E k \in DOMAIN manifest[d].deps : e = manifest[d].deps[k]
    BY DependsIff
  <2>2. e \in DependsOn({d})
    BY <2>1, DependsIff
  <2>3. DoneOK(d, Done(cl, pk))
    BY DEF Done, PackagesOK
  <2> QED BY <2>2, <2>3 DEF DoneOK
<1>4. Workspace = Done(cl, pk)
  <2>1. Done(cl, pk) \subseteq Dirs
    BY <1>2, WorkspaceDirs
  <2>2. Workspace \subseteq Done(cl, pk)
    BY <1>3, <2>1, FromLeast DEF Workspace
  <2> QED BY <1>2, <2>2
<1>5. \A d \in Workspace : \E n \in DOMAIN pk : d = cl[n] /\ ClaimOK(n, d) /\ DoneOK(d, Done(cl, pk))
  BY <1>1, <1>4 DEF Done, PackagesOK
<1>6. \A d \in Workspace : /\ manifest[d] # Unreadable /\ bytes[d] # NoModules
                           /\ d \notin From(DependsOn({d}))
                           /\ NameOf(d) \in DOMAIN pk /\ d = cl[NameOf(d)]
  BY <1>5 DEF ClaimOK, DoneOK
<1>7. \A c, d \in Workspace : NameOf(c) = NameOf(d) => c = d
  BY <1>6
<1>8. Resolvable
  BY <1>6, <1>7 DEF Resolvable, NameOf
<1>9. \A n \in DOMAIN pk : cl[n] \in Workspace /\ NameOf(cl[n]) = n
  BY <1>1 DEF ClaimOK
<1>10. {manifest[d].name : d \in Workspace} = DOMAIN pk
  <2>1. \A d \in Workspace : manifest[d].name \in DOMAIN pk
    BY <1>6 DEF NameOf
  <2>2. \A n \in DOMAIN pk : cl[n] \in Workspace /\ n = manifest[cl[n]].name
    BY <1>9 DEF NameOf
  <2> QED BY ONLY <2>1, <2>2
<1> DEFINE in == [n \in {manifest[d].name : d \in Workspace} |->
                    CHOOSE d \in Workspace : manifest[d].name = n]
           pkg(n) == [dir  |-> in[n], root |-> in[n] = Root, sum |-> Checksum(n, bytes[in[n]]),
                      deps |-> {manifest[d].name : d \in DependsOn({in[n]})}]
<1>11. \A n \in DOMAIN pk : in[n] = cl[n]
  <2> SUFFICES ASSUME NEW n \in DOMAIN pk PROVE in[n] = cl[n]
    OBVIOUS
  <2>1. in[n] = CHOOSE d \in Workspace : manifest[d].name = n
    BY <1>10
  <2>2. cl[n] \in Workspace /\ manifest[cl[n]].name = n
    BY <1>9 DEF NameOf
  <2>3. \A d \in Workspace : manifest[d].name = n => d = cl[n]
    BY <1>7, <2>2 DEF NameOf
  <2> HIDE DEF in
  <2> QED BY <2>1, <2>2, <2>3
<1>12. DOMAIN in = DOMAIN pk
  BY <1>10
<1>13. Graph = [n \in DOMAIN in |-> pkg(n)]
  BY DEF Graph
<1> HIDE DEF in
<1>14. \A n \in DOMAIN pk : pkg(n) = PackageAs(n, cl[n])
  BY <1>11 DEF PackageAs, NamesOf, NameOf
<1> HIDE DEF pkg
<1>15. pk = [n \in DOMAIN pk |-> PackageAs(n, cl[n])]
  BY DEF PackagesOK
<1>16. pk = Graph
  BY <1>12, <1>13, <1>14, <1>15
<1> QED BY <1>8, <1>16
(* The root is entered.                                                    *)
LEMMA FrameAt ==
  ASSUME NEW d \in Workspace, manifest[d] # Unreadable
  PROVE  /\ FrameOK(Frame(d, manifest[d]))
         /\ Frame(d, manifest[d]).dir = d /\ Frame(d, manifest[d]).name = NameOf(d)
         /\ Looked(Frame(d, manifest[d])) = {}
<1> DEFINE f == Frame(d, manifest[d])
<1>1. /\ DOMAIN f = {"dir", "name", "table", "left", "deps"}
      /\ f.dir = d /\ f.name = NameOf(d) /\ f.table = manifest[d].deps
      /\ f.left = DOMAIN manifest[d].deps /\ f.deps = {}
  BY DEF Frame, NameOf
<1> HIDE DEF f
<1>2. Looked(f) = {}
  BY <1>1 DEF Looked
<1>3. FrameOK(f)
  BY <1>1, <1>2 DEF FrameOK, NamesOf
<1> QED BY <1>1, <1>2, <1>3 DEF f

LEMMA ReadRootFinds ==
  ASSUME ManifestsOK, ReadRoot
  PROVE  \/ /\ manifest[Root] # Unreadable /\ pc' = "walk" /\ outcome' = outcome
            /\ WalkedOK(path', claimed', packages')
         \/ pc' = "idle" /\ outcome' = "unresolved" /\ ~Resolvable
<1>1. CASE manifest[Root] = Unreadable
  BY <1>1, RootIn, LacksManifest DEF ReadRoot, End
<1>2. CASE manifest[Root] # Unreadable
  <2> DEFINE f == Frame(Root, manifest[Root])
  <2>1. /\ path' = <<f>> /\ packages' = <<>> /\ pc' = "walk" /\ outcome' = outcome
        /\ claimed' = [n \in {manifest[Root].name} |-> Root]
    BY <1>2 DEF ReadRoot
  <2>2. FrameOK(f) /\ f.dir = Root /\ f.name = NameOf(Root) /\ Looked(f) = {}
    BY <1>2, RootIn, FrameAt
  <2> HIDE DEF f
  <2>3. Len(<<f>>) = 1 /\ <<f>>[1] = f
    OBVIOUS
  <2>4. DOMAIN claimed' = {NameOf(Root)} /\ claimed'[NameOf(Root)] = Root /\ DOMAIN packages' = {}
    BY <2>1 DEF NameOf
  <2>5. \A i \in 1..Len(<<f>>) : i = 1
    BY <2>3
  <2>6. FramesOK(<<f>>, claimed', packages')
    BY <2>2, <2>3, <2>4, <2>5 DEF FramesOK, IsOpen
  <2>7. ChainOK(<<f>>)
    BY <2>2, <2>3 DEF ChainOK
  <2>8. ListedOK(<<f>>, Done(claimed', packages'))
    BY <2>2, <2>3, <2>5 DEF ListedOK
  <2>9. ClaimsOK(claimed')
    BY <1>2, <2>4, RootIn DEF ClaimsOK, ClaimOK
  <2>10. PackagesOK(claimed', packages')
    BY <2>1, <2>4 DEF PackagesOK
  <2> QED BY <1>2, <2>1, <2>6, <2>7, <2>8, <2>9, <2>10 DEF WalkedOK
<1> QED BY <1>1, <1>2

(* A package that its own dependency, or one further down, depends on.     *)
LEMMA MetAgain ==
  ASSUME ManifestsOK, WalkedOK(path, claimed, packages), Len(path) \in Nat, Len(path) > 0,
         NEW i \in 1..Len(path), NEW d \in DependsOn({path[Len(path)].dir})
  PROVE  d \in From(DependsOn({path[i].dir}))
<1>1. \A j \in 1..Len(path) : DependsOn({path[j].dir}) \subseteq Dirs
  <2>1. \A j \in 1..Len(path) : path[j].dir \in Dirs
    BY WorkspaceDirs DEF WalkedOK, FramesOK, FrameOK
  <2> QED BY <2>1, DependsOnDirs
<1>2. Len(path) \in 1..Len(path)
  OBVIOUS
<1>3. CASE i = Len(path)
  BY <1>1, <1>2, <1>3, FromHas
<1>4. CASE i < Len(path)
  <2>1. path[Len(path)].dir \in From(DependsOn({path[i].dir}))
    BY <1>2, <1>4 DEF WalkedOK, ChainOK, Below
  <2> QED BY <1>1, <2>1, FromStep
<1> QED BY <1>3, <1>4

(* The dependency that is read is in reach.                                *)
LEMMA NextDirIn ==
  ASSUME ManifestsOK, FrameOK(Top), Top.left # {}
  PROVE  /\ Key \in Top.left
         /\ NextDir \in DependsOn({Top.dir}) /\ NextDir \in Workspace
<1>1. Top.left \subseteq DOMAIN manifest[Top.dir].deps /\ Top.dir \in Workspace
      /\ Top.table = manifest[Top.dir].deps
  BY DEF FrameOK
<1>2. IsManifest(manifest[Top.dir])
  BY <1>1, WorkspaceDirs DEF ManifestsOK
<1>3. Top.left \subseteq Nat
  BY <1>1, <1>2, ManifestFacts, PackageAssumption
<1>4. Key \in Top.left
  BY <1>3, LeastKey DEF Key
<1>5. NextDir \in DependsOn({Top.dir})
  BY <1>1, <1>4, DependsIff DEF NextDir
<1> QED BY <1>1, <1>4, <1>5, WorkspaceStep
(* One more dependency has been listed, of the package on top.             *)
Noted(f, k, n) == [f EXCEPT !.left = @ \ {k}, !.deps = @ \cup {n}]

LEMMA OneMore ==
  ASSUME NEW f, FrameOK(f), NEW k \in f.left
  PROVE  LET g == Noted(f, k, NameOf(f.table[k]))
         IN FrameOK(g) /\ g.dir = f.dir /\ g.name = f.name /\ Looked(g) = Looked(f) \cup {f.table[k]}
<1> DEFINE n == NameOf(f.table[k])
           g == Noted(f, k, n)
<1> HIDE DEF n
<1>1. /\ DOMAIN g = DOMAIN f /\ g.dir = f.dir /\ g.name = f.name /\ g.table = f.table
      /\ g.left = f.left \ {k} /\ g.deps = f.deps \cup {n}
  BY DEF FrameOK, Noted
<1> HIDE DEF g
<1>2. DOMAIN f.table \ (f.left \ {k}) = (DOMAIN f.table \ f.left) \cup {k}
  BY DEF FrameOK
<1>3. Looked(g) = Looked(f) \cup {f.table[k]}
  BY <1>1, <1>2 DEF Looked
<1>4. NamesOf(Looked(g)) = NamesOf(Looked(f)) \cup {n}
  BY <1>3 DEF NamesOf, n
<1>5. FrameOK(g)
  BY <1>1, <1>4 DEF FrameOK
<1> QED BY <1>1, <1>3, <1>5 DEF g, n

(* A claim more leaves those before it, and what is done, as they were.    *)
Claim(cl, n, d) == [o \in DOMAIN cl \cup {n} |-> IF o = n THEN d ELSE cl[o]]

Claimed(cm, cl, pk, n, d) ==
  /\ ClaimsOK(cm) /\ PackagesOK(cm, pk) /\ Done(cm, pk) = Done(cl, pk)
  /\ DOMAIN cm = DOMAIN cl \cup {n} /\ cm[n] = d
  /\ \A o \in DOMAIN cl : cm[o] = cl[o]

LEMMA ClaimMore ==
  ASSUME NEW cl, NEW pk, NEW n, NEW d, ClaimsOK(cl), PackagesOK(cl, pk), ClaimOK(n, d),
         n \in DOMAIN cl => cl[n] = d
  PROVE  Claimed(Claim(cl, n, d), cl, pk, n, d)
<1> DEFINE cm == Claim(cl, n, d)
<1>1. /\ DOMAIN cm = DOMAIN cl \cup {n} /\ cm[n] = d
      /\ \A o \in DOMAIN cl : cm[o] = cl[o]
  BY DEF Claim
<1> HIDE DEF cm
<1>2. ClaimsOK(cm)
  BY <1>1 DEF ClaimsOK
<1>3. \A o \in DOMAIN pk : o \in DOMAIN cl /\ cm[o] = cl[o]
  BY <1>1 DEF PackagesOK
<1>4. Done(cm, pk) = Done(cl, pk)
  BY <1>3 DEF Done
<1>5. [o \in DOMAIN pk |-> PackageAs(o, cm[o])] = [o \in DOMAIN pk |-> PackageAs(o, cl[o])]
  BY <1>3
<1>6. PackagesOK(cm, pk)
  BY <1>1, <1>3, <1>4, <1>5 DEF PackagesOK
<1>7. Claimed(cm, cl, pk, n, d)
  BY <1>1, <1>2, <1>4, <1>6 DEF Claimed
<1> QED BY <1>7 DEF cm

LEMMA ReadDependencyFinds ==
  ASSUME ManifestsOK, WalkInv, ReadDependency, WalkedOK(path, claimed, packages)
  PROVE  \/ /\ pc' = "walk" /\ outcome' = outcome
            /\ WalkedOK(path', claimed', packages')
         \/ pc' = "idle" /\ outcome' = "unresolved" /\ ~Resolvable
<1> DEFINE n == Len(path)
           d == NextDir
           m == manifest[d]
           here == [Top EXCEPT !.left = @ \ {Key}, !.deps = @ \cup {m.name}]
<1>1. /\ pc = "walk" /\ Top.left # {} /\ IsPath(path) /\ n \in Nat /\ n > 0 /\ Top = path[n]
      /\ ClaimsAreMet(path, packages)
  BY TopIs DEF ReadDependency, WalkInv, Walking
<1>2. n \in 1..n
  BY <1>1
<1>3. /\ FramesOK(path, claimed, packages) /\ ChainOK(path)
      /\ ListedOK(path, Done(claimed, packages))
      /\ ClaimsOK(claimed) /\ PackagesOK(claimed, packages)
  BY DEF WalkedOK
<1>4. FrameOK(Top)
  BY <1>1, <1>2, <1>3 DEF FramesOK
<1>5. Key \in Top.left /\ d \in DependsOn({Top.dir}) /\ d \in Workspace
  BY <1>1, <1>4, NextDirIn
<1>6. m.name = NameOf(d) /\ d = Top.table[Key]
  BY DEF NameOf, NextDir
<1>7. \A i \in 1..n : d \in From(DependsOn({path[i].dir}))
  BY <1>1, <1>5, MetAgain
<1> HIDE DEF n
<1>8. ASSUME m = Unreadable PROVE ~Resolvable
  BY <1>5, <1>8, LacksManifest
<1>9. ASSUME OnPath(m.name) PROVE ~Resolvable
  <2>1. PICK i \in DOMAIN path : path[i].name = m.name
    BY <1>9 DEF OnPath
  <2>2. i \in 1..n
    BY <1>1 DEF n, IsPath
  <2>3. path[i].dir \in Workspace /\ NameOf(path[i].dir) = NameOf(d)
    BY <1>3, <1>6, <2>1, <2>2 DEF FramesOK, FrameOK, n
  <2>4. CASE path[i].dir = d
    BY <1>5, <1>7, <2>2, <2>4, OnItself
  <2>5. CASE path[i].dir # d
    BY <1>5, <2>3, <2>5, SharesName
  <2> QED BY <2>4, <2>5
<1>10. ASSUME Clashes(m.name, d) PROVE ~Resolvable
  <2>1. ClaimOK(m.name, claimed[m.name]) /\ claimed[m.name] # d
    BY <1>3, <1>10 DEF Clashes, ClaimsOK
  <2> QED BY <1>5, <1>6, <2>1, SharesName DEF ClaimOK
<1>11. CASE m = Unreadable \/ OnPath(m.name) \/ Clashes(m.name, d)
  <2>1. pc' = "idle" /\ outcome' = "unresolved"
    BY <1>11 DEF ReadDependency, Unresolved, End
  <2> QED BY <1>8, <1>9, <1>10, <1>11, <2>1
<1>12. CASE ~(m = Unreadable \/ OnPath(m.name) \/ Clashes(m.name, d))
  <2>1. /\ pc' = "walk" /\ packages' = packages /\ outcome' = outcome
        /\ path' = IF m.name \in DOMAIN claimed THEN Append(Front(path), here)
                   ELSE Front(path) \o <<here, Frame(d, m)>>
        /\ claimed' = Claim(claimed, m.name, d) /\ here = Noted(Top, Key, m.name)
    BY <1>1, <1>12 DEF ReadDependency, Claim, Noted
  <2>2. ClaimOK(m.name, d)
    BY <1>5, <1>6, <1>12 DEF ClaimOK
  <2>3. m.name \in DOMAIN claimed => claimed[m.name] = d
    BY <1>12 DEF Clashes
  <2>4. /\ ClaimsOK(claimed') /\ PackagesOK(claimed', packages')
        /\ Done(claimed', packages') = Done(claimed, packages)
        /\ DOMAIN claimed' = DOMAIN claimed \cup {m.name} /\ claimed'[m.name] = d
        /\ \A o \in DOMAIN claimed : claimed'[o] = claimed[o]
    <3> DEFINE cm == Claim(claimed, m.name, d)
    <3>1. packages' = packages /\ claimed' = cm
      BY <2>1
    <3> HIDE DEF m, d, here
    <3>2. Claimed(cm, claimed, packages, m.name, d)
      BY ONLY <1>3, <2>2, <2>3, ClaimMore
    <3> HIDE DEF cm
    <3> QED BY ONLY <3>1, <3>2 DEF Claimed
  <2>5. /\ FrameOK(here) /\ here.dir = Top.dir /\ here.name = Top.name
        /\ Looked(here) = Looked(Top) \cup {d}
    <3> HIDE DEF m, d, here
    <3> QED BY ONLY <1>4, <1>5, <1>6, <2>1, OneMore
  <2>6. /\ FrameOK(Frame(d, m)) /\ Frame(d, m).dir = d /\ Frame(d, m).name = m.name
        /\ Looked(Frame(d, m)) = {}
    BY <1>5, <1>6, <1>12, FrameAt
  <2>7. \A i \in 1..n : path[i].name # m.name
    BY <1>1, <1>12 DEF OnPath, n, IsPath
  <2> HIDE DEF here, m, d
  <2>8. \A i \in 1..n : /\ FrameOK(path[i]) /\ path[i].name \in DOMAIN claimed
                        /\ path[i].name \notin DOMAIN packages
                        /\ claimed[path[i].name] = path[i].dir
    BY <1>3 DEF FramesOK, IsOpen, n
  <2>9. /\ path[1].dir = Root
        /\ \A i, j \in 1..n : i < j => /\ path[j].dir \in From(DependsOn({path[i].dir}))
                                      /\ path[i].name # path[j].name
    BY <1>3 DEF ChainOK, Below, n
  <2>10. /\ \A i \in 1..(n - 1) : Looked(path[i]) \subseteq Done(claimed, packages) \cup {path[i + 1].dir}
         /\ Looked(path[n]) \subseteq Done(claimed, packages)
    <3>1. \A i \in 1..(n - 1) : i \in 1..n /\ i < n
      BY <1>1
    <3> QED BY <1>1, <1>2, <1>3, <3>1 DEF ListedOK, n
  <2>11. CASE m.name \in DOMAIN claimed
    <3>1. /\ IsPath(path') /\ Len(path') = n /\ path'[n] = here
          /\ \A i \in 1..(n - 1) : path'[i] = path[i]
      <4>1. path' = Append(Front(path), here)
        BY <2>1, <2>11
      <4> QED BY ONLY <1>1, <4>1, PathOps DEF n
    <3>2. \A i \in 1..n : /\ path'[i].dir = path[i].dir /\ path'[i].name = path[i].name
                          /\ FrameOK(path'[i])
      BY <1>1, <2>5, <2>8, <3>1
    <3>3. m.name \in DOMAIN packages
      BY <1>1, <2>7, <2>11 DEF ClaimsAreMet, n
    <3>4. d \in Done(claimed, packages)
      BY <2>3, <2>11, <3>3 DEF Done
    <3>5. FramesOK(path', claimed', packages')
      <4>1. ASSUME NEW i \in 1..n PROVE IsOpen(path'[i], claimed', packages')
        <5>1. /\ path[i].name \in DOMAIN claimed /\ path[i].name \notin DOMAIN packages
              /\ claimed[path[i].name] = path[i].dir
          BY <2>8
        <5>2. path'[i].dir = path[i].dir /\ path'[i].name = path[i].name
          BY <3>2
        <5>3. /\ path[i].name \in DOMAIN claimed' /\ path[i].name \notin DOMAIN packages'
              /\ claimed'[path[i].name] = path[i].dir
          BY <2>1, <2>4, <5>1
        <5> QED BY ONLY <5>2, <5>3 DEF IsOpen
      <4> QED BY <3>1, <3>2, <4>1 DEF FramesOK
    <3>6. ChainOK(path')
      BY <1>2, <1>1, <2>9, <3>1, <3>2 DEF ChainOK, Below
    <3>7. ListedOK(path', Done(claimed', packages'))
      <4> SUFFICES ASSUME NEW i \in 1..n
                   PROVE  Looked(path'[i]) \subseteq
                            Done(claimed, packages) \cup (IF i < n THEN {path'[i + 1].dir} ELSE {})
        BY <2>4, <3>1 DEF ListedOK
      <4>1. CASE i < n
        <5>1. i \in 1..(n - 1) /\ i + 1 \in 1..n
          BY <1>1, <4>1
        <5> QED BY <2>10, <3>1, <3>2, <4>1, <5>1
      <4>2. CASE i = n
        BY <1>1, <2>5, <2>10, <3>1, <3>4, <4>2
      <4> QED BY <1>1, <4>1, <4>2
    <3> QED BY <2>1, <2>4, <3>5, <3>6, <3>7 DEF WalkedOK
  <2>12. CASE m.name \notin DOMAIN claimed
    <3> DEFINE f == Frame(d, m)
    <3> HIDE DEF f
    <3>1. /\ IsPath(path') /\ Len(path') = n + 1
          /\ path'[n] = here /\ path'[n + 1] = f
          /\ \A i \in 1..(n - 1) : path'[i] = path[i]
      <4>1. path' = Front(path) \o <<here, f>>
        BY <2>1, <2>12 DEF f
      <4>2. path' = Push(path, here, f)
        BY <4>1 DEF Push
      <4> QED BY ONLY <1>1, <4>2, PushOps DEF n
    <3>2. \A i \in 1..n : /\ path'[i].dir = path[i].dir /\ path'[i].name = path[i].name
                          /\ FrameOK(path'[i])
      BY <1>1, <2>5, <2>8, <3>1
    <3>3. FrameOK(f) /\ f.dir = d /\ f.name = m.name /\ Looked(f) = {}
      BY <2>6 DEF f
    <3>4. m.name \notin DOMAIN packages
      BY <1>3, <2>12 DEF PackagesOK
    <3>5. \A i \in 1..(n + 1) : i \in 1..n \/ i = n + 1
      BY <1>1
    <3>6. FramesOK(path', claimed', packages')
      <4>1. ASSUME NEW i \in 1..n PROVE IsOpen(path'[i], claimed', packages')
        <5>1. /\ path[i].name \in DOMAIN claimed /\ path[i].name \notin DOMAIN packages
              /\ claimed[path[i].name] = path[i].dir
          BY <2>8
        <5>2. path'[i].dir = path[i].dir /\ path'[i].name = path[i].name
          BY <3>2
        <5>3. /\ path[i].name \in DOMAIN claimed' /\ path[i].name \notin DOMAIN packages'
              /\ claimed'[path[i].name] = path[i].dir
          BY <2>1, <2>4, <5>1
        <5> QED BY ONLY <5>2, <5>3 DEF IsOpen
      <4>2. IsOpen(f, claimed', packages')
        BY <2>1, <2>4, <3>3, <3>4 DEF IsOpen
      <4>3. \A i \in 1..(n + 1) : FrameOK(path'[i]) /\ IsOpen(path'[i], claimed', packages')
        BY <3>1, <3>2, <3>3, <3>5, <4>1, <4>2
      <4> QED BY <3>1, <4>3 DEF FramesOK
    <3>7. ChainOK(path')
      <4> SUFFICES ASSUME NEW i \in 1..(n + 1), NEW j \in 1..(n + 1), i < j
                   PROVE  Below(path'[i], path'[j])
        BY <1>1, <1>2, <2>9, <3>1, <3>2 DEF ChainOK
      <4>1. i \in 1..n
        BY <1>1
      <4>2. CASE j \in 1..n
        BY <2>9, <3>2, <4>1, <4>2 DEF Below
      <4>3. CASE j = n + 1
        BY <1>7, <2>7, <3>1, <3>2, <3>3, <4>1, <4>3 DEF Below
      <4> QED BY <3>5, <4>2, <4>3
    <3>8. ListedOK(path', Done(claimed', packages'))
      <4> SUFFICES ASSUME NEW i \in 1..(n + 1)
                   PROVE  Looked(path'[i]) \subseteq
                            Done(claimed, packages) \cup (IF i < n + 1 THEN {path'[i + 1].dir} ELSE {})
        BY <2>4, <3>1 DEF ListedOK
      <4>1. CASE i < n
        <5>1. i \in 1..(n - 1) /\ i + 1 \in 1..n /\ i < n + 1
          BY <1>1, <4>1
        <5> QED BY <2>10, <3>1, <3>2, <5>1
      <4>2. CASE i = n
        <5>1. i < n + 1 /\ path'[i + 1].dir = d
          BY <1>1, <3>1, <3>3, <4>2
        <5> QED BY <1>1, <2>5, <2>10, <3>1, <4>2, <5>1
      <4>3. CASE i = n + 1
        BY <3>1, <3>3, <4>3
      <4> QED BY <1>1, <4>1, <4>2, <4>3
    <3> QED BY <2>1, <2>4, <3>6, <3>7, <3>8 DEF WalkedOK
  <2> QED BY <2>11, <2>12
<1> QED BY <1>11, <1>12
(* A package more is done: those before it stay as they were.              *)
Loaded(pk, n, pkg) == [o \in DOMAIN pk \cup {n} |-> IF o = n THEN pkg ELSE pk[o]]

LEMMA DoneMore ==
  ASSUME NEW cl, NEW pk, NEW n, ClaimsOK(cl), PackagesOK(cl, pk),
         n \in DOMAIN cl, n \notin DOMAIN pk, DoneOK(cl[n], Done(cl, pk))
  PROVE  /\ PackagesOK(cl, Loaded(pk, n, PackageAs(n, cl[n])))
         /\ Done(cl, Loaded(pk, n, PackageAs(n, cl[n]))) = Done(cl, pk) \cup {cl[n]}
         /\ DOMAIN Loaded(pk, n, PackageAs(n, cl[n])) = DOMAIN pk \cup {n}
<1> DEFINE pm == Loaded(pk, n, PackageAs(n, cl[n]))
<1>1. DOMAIN pm = DOMAIN pk \cup {n}
  BY DEF Loaded
<1>2. pm = [o \in DOMAIN pm |-> PackageAs(o, cl[o])]
  <2>1. pm = [o \in DOMAIN pk \cup {n} |-> IF o = n THEN PackageAs(n, cl[n]) ELSE pk[o]]
    BY DEF Loaded
  <2>2. \A o \in DOMAIN pk : pk[o] = PackageAs(o, cl[o])
    BY DEF PackagesOK
  <2> HIDE DEF pm
  <2> QED BY <1>1, <2>1, <2>2
<1> HIDE DEF pm
<1>3. Done(cl, pm) = Done(cl, pk) \cup {cl[n]}
  BY <1>1 DEF Done
<1>4. \A o \in DOMAIN pm : DoneOK(cl[o], Done(cl, pk))
  BY <1>1 DEF PackagesOK
<1>5. \A o \in DOMAIN pm : DoneOK(cl[o], Done(cl, pm))
  BY <1>3, <1>4 DEF DoneOK
<1>6. PackagesOK(cl, pm)
  BY <1>1, <1>2, <1>5 DEF PackagesOK
<1> QED BY <1>1, <1>3, <1>6 DEF pm

(* Everything that a package on the path needs is done, but not itself.    *)
LEMMA NotBelowItself ==
  ASSUME ManifestsOK, NEW cl, NEW pk, ClaimsOK(cl), PackagesOK(cl, pk),
         NEW d \in Workspace, NameOf(d) \notin DOMAIN pk, DependsOn({d}) \subseteq Done(cl, pk)
  PROVE  d \notin From(DependsOn({d}))
<1>1. \A n \in DOMAIN pk : ClaimOK(n, cl[n])
  BY DEF ClaimsOK, PackagesOK
<1>2. Done(cl, pk) \subseteq Dirs
  BY <1>1, WorkspaceDirs DEF Done, ClaimOK
<1>3. DependsOn(Done(cl, pk)) \subseteq Done(cl, pk)
  <2> SUFFICES ASSUME NEW e \in DependsOn(Done(cl, pk)) PROVE e \in Done(cl, pk)
    OBVIOUS
  <2>1. PICK c \in Done(cl, pk) : \E k \in DOMAIN manifest[c].deps : e = manifest[c].deps[k]
    BY DependsIff
  <2>2. e \in DependsOn({c})
    BY <2>1, DependsIff
  <2>3. DoneOK(c, Done(cl, pk))
    BY DEF Done, PackagesOK
  <2> QED BY <2>2, <2>3 DEF DoneOK
<1>4. From(DependsOn({d})) \subseteq Done(cl, pk)
  BY <1>2, <1>3, FromLeast
<1>5. \A c \in Done(cl, pk) : NameOf(c) \in DOMAIN pk
  BY <1>1 DEF Done, ClaimOK
<1> QED BY <1>4, <1>5

LEMMA LoadModulesFinds ==
  ASSUME ManifestsOK, WalkInv, LoadModules, WalkedOK(path, claimed, packages)
  PROVE  \/ /\ pc' = "walk" /\ outcome' = outcome
            /\ WalkedOK(path', claimed', packages')
         \/ /\ pc' = "resolved" /\ outcome' = outcome
            /\ Resolvable /\ packages' = Graph
         \/ pc' = "idle" /\ outcome' = "unresolved" /\ ~Resolvable
<1> DEFINE n == Len(path)
           d == Top.dir
<1>1. /\ pc = "walk" /\ Top.left = {} /\ IsPath(path) /\ n \in Nat /\ n > 0 /\ Top = path[n]
  BY TopIs DEF LoadModules, WalkInv, Walking
<1>2. n \in 1..n /\ 1 \in 1..n
  BY <1>1
<1>3. /\ FramesOK(path, claimed, packages) /\ ChainOK(path)
      /\ ListedOK(path, Done(claimed, packages))
      /\ ClaimsOK(claimed) /\ PackagesOK(claimed, packages)
  BY DEF WalkedOK
<1> HIDE DEF n
<1>4. FrameOK(Top) /\ IsOpen(Top, claimed, packages)
  BY <1>1, <1>2, <1>3 DEF FramesOK, n
<1>5. d \in Workspace /\ Top.name = NameOf(d)
  BY <1>4 DEF FrameOK
<1>6. CASE bytes[d] = NoModules
  <2>1. pc' = "idle" /\ outcome' = "unresolved"
    BY <1>6 DEF LoadModules, Unresolved, End
  <2> QED BY <1>5, <1>6, <2>1, LacksManifest
<1>7. CASE bytes[d] # NoModules
  <2> DEFINE new == PackageOf(Top, Len(path) = 1, bytes[d])
  <2>1. /\ path' = Front(path) /\ claimed' = claimed /\ outcome' = outcome
        /\ packages' = Loaded(packages, Top.name, new)
        /\ pc' = IF n = 1 THEN "resolved" ELSE "walk"
    BY <1>7 DEF LoadModules, Loaded, n
  <2>2. Looked(Top) = DependsOn({d})
    <3>1. Looked(Top) = {manifest[d].deps[k] : k \in DOMAIN manifest[d].deps}
      BY <1>1, <1>4 DEF Looked, FrameOK
    <3>2. \A e : e \in DependsOn({d}) <=> \E k \in DOMAIN manifest[d].deps : e = manifest[d].deps[k]
      BY DependsIff
    <3> HIDE DEF d
    <3> QED BY ONLY <3>1, <3>2
  <2>3. DependsOn({d}) \subseteq Done(claimed, packages)
    BY <1>1, <1>2, <1>3, <2>2 DEF ListedOK, n
  <2>4. Top.name \in DOMAIN claimed /\ Top.name \notin DOMAIN packages /\ claimed[Top.name] = d
    BY <1>4 DEF IsOpen
  <2>5. DoneOK(d, Done(claimed, packages))
    BY <1>3, <1>5, <1>7, <2>3, <2>4, NotBelowItself DEF DoneOK
  <2>6. (n = 1) <=> (d = Root)
    <3>1. path[1].dir = Root /\ (n > 1 => path[1].name # path[n].name)
      BY <1>1, <1>2, <1>3 DEF ChainOK, Below, n
    <3>2. FrameOK(path[1])
      BY <1>2, <1>3 DEF FramesOK, n
    <3>3. path[1].name = NameOf(Root)
      BY <3>1, <3>2 DEF FrameOK
    <3> QED BY <1>1, <1>5, <3>1, <3>3
  <2>7. new = PackageAs(Top.name, d)
    <3>1. Top.deps = NamesOf(DependsOn({d})) /\ Top.dir = d
      BY <1>4, <2>2 DEF FrameOK
    <3> HIDE DEF d
    <3> QED BY <2>6, <3>1 DEF PackageOf, PackageAs, n
  <2>8. /\ PackagesOK(claimed', packages')
        /\ Done(claimed', packages') = Done(claimed, packages) \cup {d}
        /\ DOMAIN packages' = DOMAIN packages \cup {Top.name}
    <3>1. packages' = Loaded(packages, Top.name, PackageAs(Top.name, claimed[Top.name]))
      BY <2>1, <2>4, <2>7
    <3>2. DoneOK(claimed[Top.name], Done(claimed, packages))
      BY <2>4, <2>5
    <3> HIDE DEF d, new
    <3> QED BY ONLY <1>3, <2>1, <2>4, <3>1, <3>2, DoneMore
  <2> HIDE DEF new, d
  <2>9. CASE n = 1
    <3>1. Root \in Done(claimed', packages')
      BY <2>6, <2>8, <2>9
    <3>2. ClaimsOK(claimed')
      BY <1>3, <2>1
    <3>3. Resolvable /\ packages' = Graph
      BY <2>8, <3>1, <3>2, FoundGraph
    <3> QED BY <2>1, <2>9, <3>3
  <2>10. CASE n # 1
    <3>1. /\ Len(path') = n - 1 /\ \A i \in 1..(n - 1) : path'[i] = path[i]
      BY <1>1, <2>1, PathOps DEF n
    <3>2. /\ n - 1 \in Nat /\ n - 1 > 0 /\ 1 \in 1..(n - 1)
          /\ \A i \in 1..(n - 1) : i \in 1..n /\ i < n
      BY <1>1, <2>10
    <3>3. \A i \in 1..(n - 1) : path[i].name # Top.name
      BY <1>1, <1>2, <1>3, <3>2 DEF ChainOK, Below, n
    <3>4. FramesOK(path', claimed', packages')
      <4> SUFFICES ASSUME NEW i \in 1..(n - 1)
                   PROVE  FrameOK(path'[i]) /\ IsOpen(path'[i], claimed', packages')
        BY <3>1 DEF FramesOK
      <4>1. FrameOK(path[i]) /\ IsOpen(path[i], claimed, packages)
        BY <1>3, <3>2 DEF FramesOK, n
      <4>2. IsOpen(path[i], claimed', packages')
        BY <2>1, <2>8, <3>3, <4>1 DEF IsOpen
      <4>3. path'[i] = path[i]
        BY <3>1
      <4> QED BY ONLY <4>1, <4>2, <4>3
    <3>5. ChainOK(path')
      BY <1>3, <3>1, <3>2 DEF ChainOK, n
    <3>6. ListedOK(path', Done(claimed', packages'))
      <4> SUFFICES ASSUME NEW i \in 1..(n - 1)
                   PROVE  Looked(path'[i]) \subseteq
                            Done(claimed', packages') \cup (IF i < n - 1 THEN {path'[i + 1].dir} ELSE {})
        BY <3>1 DEF ListedOK
      <4>1. Looked(path[i]) \subseteq Done(claimed, packages) \cup {path[i + 1].dir}
        BY <1>3, <3>2 DEF ListedOK, n
      <4>2. CASE i < n - 1
        <5>1. i + 1 \in 1..(n - 1)
          BY <3>2, <4>2
        <5> QED BY <2>8, <3>1, <4>1, <4>2, <5>1
      <4>3. CASE i = n - 1
        <5>1. i + 1 = n
          BY <1>1, <4>3
        <5> QED BY <1>1, <2>8, <3>1, <4>1, <5>1 DEF d
      <4> QED BY <3>2, <4>2, <4>3
    <3> QED BY <1>3, <2>1, <2>8, <2>10, <3>4, <3>5, <3>6 DEF WalkedOK
  <2> QED BY <2>9, <2>10
<1> QED BY <1>6, <1>7
-----------------------------------------------------------------------------
(* What a manifest says is well-formed, edited and cut off as well.        *)
IsReadable(m) == \E names \in SUBSET Names : m \in ManifestsOf(names)

FilesInv ==
  /\ ManifestsOK
  /\ pc = "edit" => cmd \in Commands /\ cmd.op \in {"add", "remove"}
  /\ pc = "manifest" => IsReadable(text)

LEMMA WithDeps ==
  ASSUME NEW m, IsReadable(m), NEW names, names \in SUBSET Names, NEW deps, deps \in [names -> Dirs]
  PROVE  IsReadable([m EXCEPT !.deps = deps])
BY DEF IsReadable, ManifestsOf

LEMMA DepsOf ==
  ASSUME NEW m, IsReadable(m)
  PROVE  DOMAIN m.deps \in SUBSET Names /\ m.deps \in [DOMAIN m.deps -> Dirs]
BY DEF IsReadable, ManifestsOf

LEMMA RestrictDeps ==
  ASSUME NEW m, IsReadable(m), NEW S, S \subseteq DOMAIN m.deps
  PROVE  IsReadable([m EXCEPT !.deps = Restrict(m.deps, S)])
<1>1. DOMAIN m.deps \in SUBSET Names /\ m.deps \in [DOMAIN m.deps -> Dirs]
  BY DepsOf
<1>2. Restrict(m.deps, S) \in [S -> Dirs] /\ S \in SUBSET Names
  BY <1>1 DEF Restrict
<1> QED BY <1>2, WithDeps

LEMMA EditedOK ==
  ASSUME NEW m, IsReadable(m), NEW c \in Commands, c.op \in {"add", "remove"}
  PROVE  IsReadable(Edited(m, c))
<1>1. DOMAIN m.deps \in SUBSET Names /\ m.deps \in [DOMAIN m.deps -> Dirs]
  BY DepsOf
<1>2. CASE c.op = "add"
  <2> DEFINE deps == [k \in DOMAIN m.deps \cup {c.key} |-> IF k = c.key THEN c.dir ELSE m.deps[k]]
  <2>1. c.key \in Names /\ c.dir \in Dirs
    BY <1>2, PackageAssumption
  <2>2. deps \in [DOMAIN m.deps \cup {c.key} -> Dirs] /\ DOMAIN m.deps \cup {c.key} \in SUBSET Names
    BY <1>1, <2>1
  <2>3. Edited(m, c) = [m EXCEPT !.deps = deps]
    BY <1>2 DEF Edited
  <2> HIDE DEF deps
  <2> QED BY <2>2, <2>3, WithDeps
<1>3. CASE c.op # "add"
  <2>1. Edited(m, c) = [m EXCEPT !.deps = Restrict(m.deps, DOMAIN m.deps \ {c.key})]
    BY <1>3 DEF Edited
  <2> QED BY <2>1, RestrictDeps
<1> QED BY <1>2, <1>3

LEMMA ReadableIs ==
  ASSUME NEW m, IsReadable(m) \/ m = Unreadable
  PROVE  IsManifest(m)
BY DEF IsReadable, IsManifest

LEMMA OneFile ==
  ASSUME ManifestsOK, NEW d \in Dirs, NEW m, IsManifest(m), manifest' = [manifest EXCEPT ![d] = m]
  PROVE  ManifestsOK'
<1>1. /\ manifest' = [c \in Dirs |-> manifest'[c]]
      /\ \A c \in Dirs : manifest'[c] = IF c = d THEN m ELSE manifest[c]
  BY DEF ManifestsOK
<1>2. \A c \in Dirs : IsManifest(manifest'[c])
  BY <1>1 DEF ManifestsOK
<1> QED BY <1>1, <1>2 DEF ManifestsOK

LEMMA GivenIs ==
  ASSUME NEW d \in Dirs, NEW m \in Manifests[d]
  PROVE  IsManifest(m)
BY PackageAssumption DEF IsManifest

LEMMA InitFiles == Init => FilesInv
<1> SUFFICES ASSUME Init PROVE FilesInv
  OBVIOUS
<1>1. /\ manifest \in [Dirs -> UNION Range(Manifests)]
      /\ \A d \in Dirs : manifest[d] \in Manifests[d]
  BY DEF Init
<1>2. \A d \in Dirs : IsManifest(manifest[d])
  BY <1>1, GivenIs
<1>3. pc = "idle"
  BY DEF Init
<1> QED BY <1>1, <1>2, <1>3 DEF FilesInv, ManifestsOK

LEMMA CutManifestFiles ==
  ASSUME FilesInv, CutManifest
  PROVE  FilesInv'
<1>1. IsReadable(text) /\ pc' = "idle" /\ ManifestsOK
  BY DEF FilesInv, CutManifest, End
<1>2. PICK m \in {Unreadable} \cup {[text EXCEPT !.deps = deps] : deps \in CutOff(text.deps)} :
         manifest' = [manifest EXCEPT ![Root] = m]
  BY DEF CutManifest
<1>3. IsManifest(m)
  <2>1. CASE m = Unreadable
    BY <2>1 DEF IsManifest
  <2>2. CASE m \in {[text EXCEPT !.deps = deps] : deps \in CutOff(text.deps)}
    <3>1. PICK deps \in CutOff(text.deps) : m = [text EXCEPT !.deps = deps]
      BY <2>2
    <3>2. PICK n \in DOMAIN text.deps \cup {0} : deps = Restrict(text.deps, {k \in DOMAIN text.deps : k <= n})
      BY <3>1 DEF CutOff
    <3>3. {k \in DOMAIN text.deps : k <= n} \subseteq DOMAIN text.deps
      OBVIOUS
    <3>4. IsReadable([text EXCEPT !.deps = deps])
      BY ONLY <1>1, <3>2, <3>3, RestrictDeps
    <3>5. IsReadable(m)
      BY ONLY <3>1, <3>4
    <3> QED BY <3>5 DEF IsReadable, IsManifest
  <2> QED BY <1>2, <2>1, <2>2
<1> QED BY <1>1, <1>2, <1>3, OneFile, PackageAssumption DEF FilesInv

LEMMA FilesStep ==
  ASSUME FilesInv, [Next]_vars
  PROVE  FilesInv'
<1>1. CASE \E c \in Commands : Begin(c)
  BY <1>1 DEF Begin, FilesInv, ManifestsOK
<1>2. CASE EditManifest
  <2>1. UNCHANGED manifest /\ pc = "edit" /\ (ManifestsOK' <=> ManifestsOK)
    BY <1>2 DEF EditManifest, ManifestsOK
  <2>2. CASE MayEdit(manifest[Root], cmd)
    <3>1. pc' = "manifest" /\ text' = Edited(manifest[Root], cmd)
      BY <1>2, <2>2 DEF EditManifest
    <3>2. IsReadable(manifest[Root]) /\ cmd \in Commands /\ cmd.op \in {"add", "remove"}
      BY <2>1, <2>2, PackageAssumption DEF MayEdit, FilesInv, ManifestsOK, IsManifest, IsReadable
    <3>3. IsReadable(text')
      BY <3>1, <3>2, EditedOK
    <3> QED BY <2>1, <3>1, <3>3 DEF FilesInv, IsReadable
  <2>3. CASE ~MayEdit(manifest[Root], cmd)
    BY <1>2, <2>1, <2>3 DEF EditManifest, End, FilesInv
  <2> QED BY <2>2, <2>3
<1>3. CASE WriteManifest
  <2>1. manifest' = [manifest EXCEPT ![Root] = text] /\ pc' = "resolve" /\ IsManifest(text)
    BY <1>3, ReadableIs DEF WriteManifest, FilesInv
  <2> QED BY <2>1, OneFile, PackageAssumption DEF FilesInv
<1>4. CASE CutManifest
  BY <1>4, CutManifestFiles
<1>5. CASE Developer
  <2>1. pc' = pc /\ cmd' = cmd /\ text' = text
    BY <1>5 DEF Developer
  <2>2. ManifestsOK'
    <3>1. CASE \E d \in Dirs : \E m \in Manifests[d] : manifest' = [manifest EXCEPT ![d] = m]
      BY <3>1, GivenIs, OneFile DEF FilesInv
    <3>2. CASE UNCHANGED manifest
      BY <3>2 DEF FilesInv, ManifestsOK
    <3> QED BY <1>5, <3>1, <3>2 DEF Developer
  <2> QED BY <2>1, <2>2 DEF FilesInv, IsReadable
<1>6. CASE ReadRoot \/ ReadDependency \/ LoadModules
  <2>1. UNCHANGED manifest /\ pc' \in {"walk", "resolved", "idle"}
    BY <1>6 DEF ReadRoot, ReadDependency, LoadModules, Unresolved, End
  <2> QED BY <2>1 DEF FilesInv, ManifestsOK
<1>7. CASE Answer \/ VerifyLock \/ WriteLock \/ CutLock \/ Kill
  <2>1. UNCHANGED manifest /\ pc' \in {"lockfile", "idle"}
    BY <1>7 DEF Answer, VerifyLock, WriteLock, CutLock, Kill, End
  <2> QED BY <2>1 DEF FilesInv, ManifestsOK
<1>8. CASE UNCHANGED vars
  BY <1>8 DEF vars, FilesInv, ManifestsOK, IsReadable
<1> QED BY <1>1, <1>2, <1>3, <1>4, <1>5, <1>6, <1>7, <1>8 DEF Next

-----------------------------------------------------------------------------
(* A command that runs has not ended yet, and one that resolves files that *)
(* nobody edits has found what is there.                                   *)
NothingYet == pc # "idle" => outcome = "none"

Ended ==
  /\ outcome = "unresolved" => ~Resolvable
  /\ outcome = "ok" /\ cmd.op # "symbols" => Resolvable /\ lock = LockOf(Pins(Graph))

Finds ==
  still => /\ pc \in {"walk", "resolved", "lockfile", "idle"}
           /\ pc = "walk" => WalkedOK(path, claimed, packages)
           /\ pc \in {"resolved", "lockfile"} => Resolvable /\ packages = Graph
           /\ pc = "idle" => Ended

FindInv == NothingYet /\ Finds

(* Of files as they were, what holds of the walk held before the step.     *)
LEMMA WalkedSame ==
  ASSUME UNCHANGED <<manifest, bytes>>
  PROVE  WalkedOK(path, claimed, packages)' <=> WalkedOK(path', claimed', packages')
<1>1. \A S : From(S)' = From(S) /\ DependsOn(S)' = DependsOn(S)
  BY FilesSame
<1>2. Workspace' = Workspace
  BY FilesSame
<1>3. \A S : NamesOf(S)' = NamesOf(S)
  BY DEF NamesOf, NameOf
<1>4. \A f : FrameOK(f)' <=> FrameOK(f)
  BY <1>2, <1>3 DEF FrameOK, NameOf, Looked
<1>5. \A f, g : Below(f, g)' <=> Below(f, g)
  BY <1>1 DEF Below
<1>6. \A n, d : ClaimOK(n, d)' <=> ClaimOK(n, d)
  BY <1>2 DEF ClaimOK, NameOf
<1>7. \A n, d : PackageAs(n, d)' = PackageAs(n, d)
  <2> SUFFICES ASSUME NEW n, NEW d PROVE PackageAs(n, d)' = PackageAs(n, d)
    OBVIOUS
  <2>1. NamesOf(DependsOn({d}))' = NamesOf(DependsOn({d}))
    BY <1>1, <1>3
  <2> QED BY <2>1 DEF PackageAs, Checksum
<1>8. \A d, D : DoneOK(d, D)' <=> DoneOK(d, D)
  BY <1>1 DEF DoneOK
<1>9. FramesOK(path, claimed, packages)' <=> FramesOK(path', claimed', packages')
  BY <1>4 DEF FramesOK, IsOpen
<1>10. ChainOK(path)' <=> ChainOK(path')
  BY <1>5 DEF ChainOK
<1>11. ListedOK(path, Done(claimed, packages))' <=> ListedOK(path', Done(claimed', packages'))
  BY DEF ListedOK, Looked, Done
<1>12. ClaimsOK(claimed)' <=> ClaimsOK(claimed')
  BY <1>6 DEF ClaimsOK
<1>13. PackagesOK(claimed, packages)' <=> PackagesOK(claimed', packages')
  BY <1>7, <1>8 DEF PackagesOK, Done
<1> QED BY <1>9, <1>10, <1>11, <1>12, <1>13 DEF WalkedOK
LEMMA EndedSame ==
  ASSUME UNCHANGED <<manifest, bytes, lock, cmd>>, outcome' = "unresolved" => ~Resolvable,
         outcome' # "ok" \/ cmd.op = "symbols"
  PROVE  Ended'
BY FilesSame DEF Ended

(* The three steps of the resolution.                                      *)
LEMMA ResolutionFinds ==
  ASSUME FilesInv, WalkInv, FindInv, ReadRoot \/ ReadDependency \/ LoadModules
  PROVE  FindInv'
<1>1. UNCHANGED <<manifest, bytes, lock, cmd>> /\ ManifestsOK
  BY DEF ReadRoot, ReadDependency, LoadModules, Unresolved, End, FilesInv
<1>2. still' => \/ pc' = "walk" /\ WalkedOK(path', claimed', packages')
                \/ pc' = "resolved" /\ Resolvable /\ packages' = Graph
                \/ pc' = "idle" /\ outcome' = "unresolved" /\ ~Resolvable
  <2>1. CASE ReadRoot
    BY <1>1, <2>1, ReadRootFinds
  <2>2. CASE ReadDependency
    <3>1. still' => WalkedOK(path, claimed, packages)
      BY <2>2 DEF ReadDependency, Unresolved, FindInv, Finds
    <3> QED BY <1>1, <2>2, <3>1, ReadDependencyFinds
  <2>3. CASE LoadModules
    <3>1. still' => WalkedOK(path, claimed, packages)
      BY <2>3 DEF LoadModules, Unresolved, FindInv, Finds
    <3> QED BY <1>1, <2>3, <3>1, LoadModulesFinds
  <2> QED BY <2>1, <2>2, <2>3
<1>3. NothingYet'
  <2>1. pc # "idle" /\ outcome = "none"
    BY DEF ReadRoot, ReadDependency, LoadModules, FindInv, NothingYet
  <2>2. pc' = "idle" \/ outcome' = outcome
    BY DEF ReadRoot, ReadDependency, LoadModules, Unresolved, End
  <2> QED BY <2>1, <2>2 DEF NothingYet
<1>4. Workspace' = Workspace /\ Graph' = Graph /\ (Resolvable' <=> Resolvable)
  BY <1>1, FilesSame
<1>5. still' /\ pc' = "walk" => WalkedOK(path, claimed, packages)'
  BY <1>1, <1>2, WalkedSame
<1>6. still' /\ pc' = "idle" => Ended'
  BY <1>1, <1>2, EndedSame
<1> QED BY <1>2, <1>3, <1>4, <1>5, <1>6 DEF FindInv, Finds

(* The steps after it, of a graph that is found.                           *)
LEMMA LockingFinds ==
  ASSUME FindInv, Answer \/ VerifyLock \/ WriteLock \/ CutLock \/ Kill
  PROVE  FindInv'
<1>1. UNCHANGED <<manifest, bytes, cmd, still>>
  BY DEF Answer, VerifyLock, WriteLock, CutLock, Kill, End
<1>2. Workspace' = Workspace /\ Graph' = Graph /\ (Resolvable' <=> Resolvable)
  BY <1>1, FilesSame
<1>3. CASE Answer \/ CutLock \/ Kill
  <2>1. pc' = "idle" /\ (outcome' = "cut" \/ (outcome' = "ok" /\ cmd.op = "symbols"))
    BY <1>3 DEF Answer, CutLock, Kill, End
  <2> QED BY <1>1, <2>1 DEF FindInv, NothingYet, Finds, Ended
<1>4. CASE VerifyLock
  <2>1. \/ pc' = "idle" /\ outcome' = "refused"
        \/ pc = "resolved" /\ pc' = "lockfile" /\ UNCHANGED <<packages, outcome>>
    BY <1>4 DEF VerifyLock, End, found
  <2> QED BY <1>1, <1>2, <2>1 DEF FindInv, NothingYet, Finds, Ended
<1>5. CASE WriteLock
  <2>1. pc' = "idle" /\ outcome' = "ok" /\ pc = "lockfile" /\ lock' = LockOf(Pins(packages))
    BY <1>5 DEF WriteLock, End
  <2>2. still' => Resolvable /\ packages = Graph
    BY <1>1, <2>1 DEF FindInv, Finds
  <2>3. Pins(Graph)' = Pins(Graph)
    BY <1>2 DEF Pins
  <2>4. LockOf(Pins(Graph))' = LockOf(Pins(Graph))
    BY <2>3 DEF LockOf
  <2>5. still' => Ended'
    BY <1>2, <2>1, <2>2, <2>4 DEF Ended
  <2> QED BY <2>1, <2>5 DEF FindInv, NothingYet, Finds
<1> QED BY <1>3, <1>4, <1>5

(* The other steps are not of a resolution of files as they are.           *)
LEMMA OthersFind ==
  ASSUME FindInv,
         \/ \E c \in Commands : Begin(c)
         \/ EditManifest \/ WriteManifest \/ CutManifest \/ Developer
  PROVE  FindInv'
<1>1. ~still'
  <2>1. CASE (\E c \in Commands : Begin(c)) \/ Developer
    BY <2>1 DEF Begin, Developer
  <2>2. CASE EditManifest \/ WriteManifest \/ CutManifest
    BY <2>2 DEF EditManifest, WriteManifest, CutManifest, FindInv, Finds
  <2> QED BY <2>1, <2>2
<1>2. NothingYet'
  <2>1. CASE \E c \in Commands : Begin(c)
    BY <2>1 DEF Begin, NothingYet
  <2>2. CASE EditManifest
    BY <2>2 DEF EditManifest, End, FindInv, NothingYet
  <2>3. CASE WriteManifest
    BY <2>3 DEF WriteManifest, FindInv, NothingYet
  <2>4. CASE CutManifest
    BY <2>4 DEF CutManifest, End, NothingYet
  <2>5. CASE Developer
    BY <2>5 DEF Developer, FindInv, NothingYet
  <2> QED BY <2>1, <2>2, <2>3, <2>4, <2>5
<1> QED BY <1>1, <1>2 DEF FindInv, Finds

LEMMA FindStep ==
  ASSUME FilesInv, WalkInv, FindInv, [Next]_vars
  PROVE  FindInv'
<1>1. CASE ReadRoot \/ ReadDependency \/ LoadModules
  BY <1>1, ResolutionFinds
<1>2. CASE Answer \/ VerifyLock \/ WriteLock \/ CutLock \/ Kill
  BY <1>2, LockingFinds
<1>3. CASE \/ \E c \in Commands : Begin(c)
           \/ EditManifest \/ WriteManifest \/ CutManifest \/ Developer
  BY <1>3, OthersFind
<1>4. CASE UNCHANGED vars
  <2>1. UNCHANGED <<manifest, bytes, lock, cmd, pc, outcome, still, path, claimed, packages>>
    BY <1>4 DEF vars, found
  <2>2. Workspace' = Workspace /\ Graph' = Graph /\ (Resolvable' <=> Resolvable)
    BY <2>1, FilesSame
  <2>3. WalkedOK(path, claimed, packages)' <=> WalkedOK(path, claimed, packages)
    BY <2>1, WalkedSame
  <2>4. LockOf(Pins(Graph))' = LockOf(Pins(Graph))
    BY <2>2 DEF LockOf, Pins
  <2> QED BY <2>1, <2>2, <2>3, <2>4 DEF FindInv, NothingYet, Finds, Ended
<1> QED BY <1>1, <1>2, <1>3, <1>4 DEF Next

(* The walk finds what there is, of every workspace, every graph of path   *)
(* dependencies, with cycles, shared packages and clashing names, and      *)
(* whatever commands ran, were stopped and were edited under before.       *)
THEOREM ResolutionIsExact == Spec => []ResolvesExactly
<1>1. Init => FilesInv /\ WalkInv /\ FindInv
  <2>1. Init => WalkInv
    BY DEF Init, WalkInv, Walking
  <2>2. Init => FindInv
    BY DEF Init, FindInv, NothingYet, Finds
  <2> QED BY <2>1, <2>2, InitFiles
<1>2. WalkInv /\ [Next]_vars => WalkInv'
  BY WalkStep
<1>3. FilesInv /\ WalkInv /\ FindInv /\ [Next]_vars => FilesInv' /\ WalkInv' /\ FindInv'
  BY <1>2, FilesStep, FindStep
<1>4. FindInv => ResolvesExactly
  BY DEF FindInv, NothingYet, Finds, Ended, ResolvesExactly
<1> QED BY <1>1, <1>3, <1>4, PTL DEF Spec
===============================================================================
