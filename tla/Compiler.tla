--------------------------------- MODULE Compiler ---------------------------------
(***************************************************************************)
(* The middle of the compiler, put together: a function is checked         *)
(* (OwnershipCheck), lowered (MirLower), verified (MirVerify), optimised   *)
(* (MirOpt), and then run with one input: by the interpreter (MirInterp)   *)
(* as it was lowered, by the interpreter as it was optimised, and as the   *)
(* machine code made of that (NativeCode).                                 *)
(*                                                                         *)
(* The stages are called in this order by tuo-cli and by the spec runner;  *)
(* each may end the way of a program.                                      *)
(***************************************************************************)
EXTENDS Syntax, MirVerify, MirOpt, MirInterp

CONSTANTS Programs,   \* the functions that are compiled as main
          Library,    \* the functions that they call
          Inputs,     \* the values of its parameter
          MaxRounds,  \* the rounds of the optimiser
          Budget      \* bound on the length of a run of the machine code

VARIABLES phase,      \* the stage the program is at, or how its way ended
          source,     \* main, in the syntax of the checker
          at,         \* the verifier's sets for main
          opt,        \* the program that is optimised, until it is run
          round, pass, changed,   \* where the optimiser is
          input, expected,        \* the input, and how the run as lowered ended
          stack, heap, budget, exit   \* the process that runs the machine code

Checker == INSTANCE OwnershipCheck
Lower   == INSTANCE MirLower
Native  == INSTANCE NativeCode

optimiser == <<opt, round, pass, changed>>
run       == <<input, expected>>
process   == <<stack, heap, budget, exit>>
vars == <<phase, source, at, optimiser, run, program, machine, process>>

Ended == {"rejected", "skipped", "refused", "corrupt", "done"}

-----------------------------------------------------------------------------
(* solve_init: the entry is seeded with the parameters, every other        *)
(* reachable block with all locals; a sweep recomputes each block from its *)
(* predecessors, and sweeps go on until one changes nothing.               *)
Walk(f, b, init) ==
  LET step(points, s) == Append(points, ApplyStatement(s, Last(points)))
  IN  FoldLeft(step, <<init>>, f.blocks[b].statements)

Seed(f) ==
  [b \in Reachable(f) |-> Walk(f, b, IF b = 1 THEN ParamsOf(f) ELSE LocalsOf(f))]

(* A bug: one predecessor is enough.                                       *)
IncomingAny(f, sets, b) ==
  LET preds == {c \in DOMAIN sets : b \in Targets(f, c)}
      base  == IF b = 1 THEN ParamsOf(f) ELSE LocalsOf(f)
  IN  {l \in base : preds = {} \/ \E c \in preds : l \in Last(sets[c])}

Incoming(f, sets, b) ==
  LET preds == {c \in DOMAIN sets : b \in Targets(f, c)}
      base  == IF b = 1 THEN ParamsOf(f) ELSE LocalsOf(f)
  IN  {l \in base : \A c \in preds : l \in Last(sets[c])}

SweepBlock(f, sets, b) == [sets EXCEPT ![b] = Walk(f, b, Incoming(f, sets, b))]
SweepAll(f, sets) ==
  FoldLeft(LAMBDA s, b : SweepBlock(f, s, b), sets, InOrder(DOMAIN sets, Len(f.blocks)))

(* The whole verification at once, as debug_assert_verified runs it.       *)
Solve(f) ==
  FoldLeft(LAMBDA sets, i : SweepAll(f, sets), Seed(f), [i \in DOMAIN f.blocks |-> i])
Clean(f, sets)  == \A b \in DOMAIN sets : AuditOk(f, b, sets[b])
Verifies(f)     == Structural(f) /\ Clean(f, Solve(f))

-----------------------------------------------------------------------------
Init ==
  /\ phase = "check"
  /\ source \in Programs
  /\ at = << >> /\ opt = << >> /\ round = 1 /\ pass = 1 /\ changed = FALSE
  /\ input = 0 /\ expected = <<>>
  /\ stack = <<>> /\ heap = <<>> /\ budget = 0 /\ exit = <<>>
  /\ program = << >> /\ frames = <<>> /\ freed = <<>> /\ fuel = 0 /\ outcome = <<>>

(* The expressions and statements in e.                                    *)
PartsOfExpr(e) ==
  CASE e.k = "move"    -> {e.of}
    [] e.k \in {"bin", "lt", "and"} -> {e.lhs, e.rhs}
    [] e.k = "pair"    -> ToSet(e.parts)
    [] e.k = "call"    -> ToSet(e.args)
    [] e.k = "assign"  -> {e.rhs}
    [] e.k = "if"      -> {e.cond, e.then, e.else}
    [] e.k = "while"   -> {e.cond, e.body}
    [] e.k = "loop"    -> {e.body}
    [] e.k = "return"  -> {e.value}
    [] e.k = "binding" -> {e.init}
    [] e.k = "block"   -> ToSet(e.stmts) \cup {e.tail}
    [] OTHER           -> {}

RECURSIVE Within(_)
Within(e) == {e} \cup UNION {Within(d) : d \in PartsOfExpr(e)}

(* retain_reachable: main and what it calls.                               *)
Calls(f)  == {e.fn : e \in {d \in Within(f.body) : d.k = "call"}} \cap DOMAIN Library
Functions == [name \in {"main"} \cup Calls(source) |-> IF name = "main" THEN source ELSE Library[name]]

Check ==
  /\ phase = "check"
  /\ phase' = IF \A name \in DOMAIN Functions : Checker!CheckFn(Functions[name]) = {}
              THEN "lower" ELSE "rejected"
  /\ UNCHANGED <<source, at, optimiser, run, program, machine, process>>

LowerIt ==
  LET lowered == [name \in DOMAIN Functions |-> Lower!LowerFn(Functions[name])]
      names   == DOMAIN Functions
      whole   == \A name \in names : program'[name].skip = <<>>
      sound   == \A name \in names : IF name = "main" THEN Structural(program'[name])
                                                     ELSE Verifies(program'[name])
  IN  /\ phase = "lower"
      /\ program' = lowered
      /\ phase' = CASE ~whole -> "skipped"
                    [] whole /\ ~sound -> "refused"
                    [] whole /\ sound -> "solve"
      /\ at' = IF phase' = "solve" THEN Seed(program'["main"]) ELSE << >>
      /\ UNCHANGED <<source, optimiser, run, machine, process>>

Sweep ==
  /\ phase = "solve"
  /\ at' = SweepAll(program["main"], at)
  /\ phase' = IF at' = at THEN "audit" ELSE "solve"
  /\ UNCHANGED <<source, optimiser, run, program, machine, process>>

Audit ==
  /\ phase = "audit"
  /\ phase' = IF Clean(program["main"], at) THEN "optimise" ELSE "refused"
  /\ opt' = program
  /\ UNCHANGED <<source, at, round, pass, changed, run, program, machine, process>>

(* optimize: one pass over the program, verified again; after a round without a change, or  *)
(* after MaxRounds, the program is ready.                                  *)
Optimise ==
  LET new     == [name \in DOMAIN opt |-> Pass(pass, opt[name])]
      any     == changed \/ new # opt
      again   == pass = 4 /\ any /\ round < MaxRounds
      corrupt == \E name \in DOMAIN opt : new[name] # opt[name] /\ ~Verifies(new[name])
  IN  /\ phase = "optimise"
      /\ opt' = new
      /\ pass' = (pass % 4) + 1
      /\ changed' = (any /\ ~again)
      /\ round' = IF again THEN round + 1 ELSE round
      /\ phase' = CASE corrupt -> "corrupt"
                    [] ~corrupt /\ pass = 4 /\ ~again -> "load"
                    [] OTHER -> "optimise"
      /\ UNCHANGED <<source, at, run, program, machine, process>>

(* Machine: the entry frame, with the input as its argument.               *)
Start(args) ==
  /\ frames' = <<NewFrame("main", args, <<>>, <<>>)>>
  /\ freed' = <<>> /\ fuel' = Fuel /\ outcome' = <<>>

Load ==
  /\ phase = "load"
  /\ input' \in Inputs
  /\ Start(<<Num(input')>>)
  /\ phase' = "run"
  /\ UNCHANGED <<source, at, optimiser, expected, program, process>>

Run ==
  /\ phase \in {"run", "rerun"}
  /\ Step
  /\ UNCHANGED <<phase, source, at, optimiser, run, process>>

Swap ==
  /\ phase = "run"
  /\ outcome # <<>>
  /\ expected' = outcome
  /\ program' = opt /\ opt' = << >>
  /\ phase' = "reload"
  /\ UNCHANGED <<source, at, round, pass, changed, input, machine, process>>

Reload ==
  /\ phase = "reload"
  /\ Start(<<Num(input)>>)
  /\ phase' = "rerun"
  /\ UNCHANGED <<source, at, optimiser, run, program, process>>

(* The optimised program is translated, linked and executed.               *)
Link ==
  /\ phase = "rerun"
  /\ outcome # <<>>
  /\ Native!Start(input)
  /\ phase' = "execute"
  /\ UNCHANGED <<source, at, optimiser, run, program, machine>>

Execute ==
  /\ phase = "execute"
  /\ Native!Step
  /\ UNCHANGED <<phase, source, at, optimiser, run, machine>>

Finish ==
  /\ phase = "execute"
  /\ exit # <<>>
  /\ phase' = "done"
  /\ UNCHANGED <<source, at, optimiser, run, program, machine, process>>

Rest == phase \in Ended /\ UNCHANGED vars

Next ==
  \/ Check \/ LowerIt \/ Sweep \/ Audit \/ Optimise
  \/ Load \/ Run \/ Swap \/ Reload \/ Link \/ Execute \/ Finish \/ Rest

Spec == Init /\ [][Next]_vars

-----------------------------------------------------------------------------
(* What the checker accepts although the stages after it cannot compile it.*)
(* Each is a shape of source text; the README tells their story.           *)
(* The right operand of && moves something.                                *)
MovesInRhs(f) ==
  \E e \in Within(f.body) : e.k = "and" /\ \E d \in Within(e.rhs) : d.k = "call"

(* A call lends one part of a variable and moves another.                  *)
LendsAndMoves(f) ==
  \E e \in Within(f.body) :
    /\ e.k = "call"
    /\ \E i, j \in DOMAIN e.args :
         /\ IsPlace(e.args[i]) /\ IsPlace(e.args[j])
         /\ Sigs[e.fn].modes[i] # "take" /\ Sigs[e.fn].modes[j] = "take"
         /\ e.args[i].place[1] = e.args[j].place[1]

(* A value is moved into a call or a struct, and a later operand of it     *)
(* assigns to its place.                                                   *)
Operands(e) == CASE e.k = "call" -> e.args [] e.k = "pair" -> e.parts [] OTHER -> <<>>
RefillsMoved(f) ==
  \E e \in Within(f.body) : \E i, j \in DOMAIN Operands(e) :
    /\ i < j
    /\ IsPlace(Operands(e)[i])
    /\ \E d \in Within(Operands(e)[j]) :
         d.k = "assign" /\ Overlaps(d.place, Operands(e)[i].place)

(* A value is moved into a call or a struct, and a later operand of it     *)
(* leaves the function or a loop.                                          *)
LeavesMidway(f) ==
  \E e \in Within(f.body) : \E i, j \in DOMAIN Operands(e) :
    /\ i < j
    /\ ~IsCopy(ExprTy(Operands(e)[i]))
    /\ \E d \in Within(Operands(e)[j]) : d.k \in {"return", "break", "continue"}

(* A view that is not bound by let w = as_str(s) is not followed.          *)
HoldsView(e) == ExprTy(e) = "view" /\ ~IsAsStr(e)
UntrackedView(f) ==
  \E e \in Within(f.body) :
    \/ e.k = "binding" /\ e.init.k # "none" /\ HoldsView(e.init)
    \/ e.k = "assign" /\ Types[e.place[1]] = "view"

-----------------------------------------------------------------------------
(* What the ownership checker accepts, lowering and the verifier accept,   *)
(* but for the known shapes: a value reborn in a loop, paths that disagree *)
(* about a field or about how a value was lost, and those above.  No pass  *)
(* turns a program that the verifier accepts into one that it refuses.     *)
AcceptedBuilds ==
  /\ phase # "corrupt"
  /\ phase = "refused" => MovesInRhs(source) \/ LendsAndMoves(source) \/ RefillsMoved(source)
  /\ phase = "skipped" =>
       LET why == program["main"].skip[1]
       IN  IF why.edge = "back" THEN why.lost = {}
           ELSE \A p \in why.lost \cup why.gained : ~IsRoot(p)

(* A string is freed at most once, and when main returns, exactly once:    *)
(* no path of a lowered or optimised program leaks or frees twice, but for *)
(* an operand that an early exit or an assignment between operands loses.  *)
MainReturned == outcome # <<>> /\ outcome[1] = "value"
FreedOnce ==
  /\ \A id \in DOMAIN freed : freed[id] <= 1
  /\ MainReturned /\ ~RefillsMoved(source) /\ ~LeavesMidway(source) =>
       \A id \in DOMAIN freed : freed[id] = 1

(* The machine never meets what "the verifier guarantees" away: a read of  *)
(* an uninitialised local or a write below one.  And what a drop drops is  *)
(* all there: the machine would not notice a field that is gone; compiled  *)
(* code would free it again.                                               *)
NothingIsMissing ==
  /\ outcome # <<>> => outcome[1] # "internal"
  /\ (AtStatement /\ Statement.k = "drop" /\ ~RefillsMoved(source)) =>
       LET v == ValueAt(Top.slots, Statement.place)
       IN  v.k = "own" \/ (v.k = "pair" /\ \A i \in DOMAIN v.parts : v.parts[i].k = "own")

(* A view is read only while its string is alive: compiled code reads the  *)
(* string's own buffer.                                                    *)
ViewsLive ==
  (AtStatement /\ Statement.k = "assign" /\ ~UntrackedView(source)) =>
    \A p \in PlacesIn(Statement.rvalue.ops) :
      LET v == ValueAt(Top.slots, p) IN v.k = "view" => freed[v.id] = 0

(* What the data flow says is initialised is initialised, whenever main is *)
(* about to execute a statement or a terminator.                           *)
AnalysisIsSound ==
  (phase = "run" /\ (AtStatement \/ AtTerminator) /\ Len(frames) = 1) =>
    \A l \in at[Top.block][Top.next] : Top.slots[l].k # "uninit"

(* What the sweeps end with is a solution of the data flow, the hypothesis *)
(* of the theorem VerifiedReadsAreLive (CompilerProofs).                   *)
SolutionFound == phase \in {"audit", "optimise"} => IsSolution(program["main"], DOMAIN at, at)

(* The optimised program ends the way the lowered one does.                *)
Undecided(end) == end[1] = "out of fuel"
OptimisedAgrees ==
  phase = "execute" => outcome = expected \/ Undecided(outcome) \/ Undecided(expected)

(* The machine code ends the way the interpreter does, whatever its slots  *)
(* hold where a value was moved, dropped, lent or never written.           *)
NativeAgrees ==
  phase = "done" /\ ~RefillsMoved(source) =>
    exit = outcome \/ Undecided(exit) \/ Undecided(outcome)

(* The machine code frees no buffer twice and no pointer nobody wrote, and *)
(* has freed every buffer when main returns.                               *)
HeapIsBalanced ==
  ~RefillsMoved(source) =>
    /\ \A id \in DOMAIN heap : heap[id] <= 1
    /\ exit # <<>> => exit[1] # "wild"
    /\ exit # <<>> /\ exit[1] = "value" /\ ~LeavesMidway(source) =>
         \A id \in DOMAIN heap : heap[id] = 1

(* The optimiser stops by itself, not at the limit on its rounds, unless   *)
(* a sum of more constants than that is folded.                            *)
RECURSIVE Depth(_)
Depth(e) == IF e.k = "bin" THEN 1 + Max({Depth(e.lhs), Depth(e.rhs)}) ELSE 0

OptimiserSettles ==
  (phase = "load" /\ changed) => \E e \in Within(source.body) : Depth(e) >= MaxRounds
===============================================================================
