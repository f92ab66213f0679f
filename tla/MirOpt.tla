---------------------------------- MODULE MirOpt ----------------------------------
(***************************************************************************)
(* The optimiser, src/crates/tuo-mir/src/opt: four rewrites of a function. *)
(* optimize runs them in this order, and again while one of them changes   *)
(* something, for at most MaxRounds rounds.                                *)
(***************************************************************************)
EXTENDS Mir, FiniteSetsExt, SequencesExt, TLC

MapStatements(f, G(_)) ==
  [f EXCEPT !.blocks = [b \in DOMAIN @ |->
     [@[b] EXCEPT !.statements = [i \in DOMAIN @ |-> G(@[i])]]]]

-----------------------------------------------------------------------------
(* const_fold: an operation on constants becomes a constant, unless it     *)
(* would trap.                                                             *)
Overflows(a, b) == a + b > MaxInt

IsConstPair(rv) ==
  rv.op \in {"add", "lt"} /\ \A i \in DOMAIN rv.ops : rv.ops[i].k = "const"

(* A bug: a constant is brought to the right, again and again.             *)
FoldSwapping(rv) ==
  IF rv.op = "add" /\ \E i \in 1..2 : rv.ops[i].k = "const"
  THEN [rv EXCEPT !.ops = Reverse(@)] ELSE rv

Fold(rv) ==
  LET a == rv.ops[1].value
      b == rv.ops[2].value
  IN  CASE IsConstPair(rv) /\ rv.op = "lt" -> Use(Const(IF a < b THEN 1 ELSE 0))
        [] IsConstPair(rv) /\ rv.op = "add" /\ ~Overflows(a, b) -> Use(Const(a + b))
        [] OTHER -> rv

ConstFold(f) ==
  MapStatements(f, LAMBDA s : IF s.k = "assign" THEN [s EXCEPT !.rvalue = Fold(@)] ELSE s)

-----------------------------------------------------------------------------
(* copy_prop: within a block, a local that is a copy of a constant or of   *)
(* another local is read through; known maps such locals to what they copy.*)
Forward(op, known) ==
  IF op.k # "const" /\ IsRoot(op.place) /\ op.place[1] \in DOMAIN known
  THEN known[op.place[1]] ELSE op
ForwardAll(ops, known) == [i \in DOMAIN ops |-> Forward(ops[i], known)]

(* rewrite_statement_reads: not in what is lent, nor in a drop.            *)
RewriteReads(s, known) ==
  CASE s.k = "assign" -> [s EXCEPT !.rvalue.ops = ForwardAll(@, known)]
    [] s.k = "call"   -> [s EXCEPT !.args = [i \in DOMAIN @ |->
         IF @[i].mode = "take" THEN [@[i] EXCEPT !.op = Forward(@, known)] ELSE @[i]]]
    [] s.k = "drop"   -> s

IsCopyOf(op, l) == op.k # "const" /\ op.place[1] = l

(* invalidate: facts about, or from, a local that is written, lent or      *)
(* dropped.                                                                *)
Touched(s) ==
  {s.place[1]} \cup (IF s.k = "call" THEN RootsOf(SeqSet(LentTo(s))) ELSE {})

(* A bug: facts from a local survive a write to it.                        *)
InvalidateTargetOnly(s, known) == [l \in DOMAIN known \ Touched(s) |-> known[l]]

Invalidate(s, known) ==
  [l \in {d \in DOMAIN known \ Touched(s) : \A t \in Touched(s) : ~IsCopyOf(known[d], t)}
     |-> known[l]]

UpdateKnown(s, known) ==
  LET op == s.rvalue.ops[1]
      records == /\ s.k = "assign" /\ IsRoot(s.place) /\ s.rvalue.op = "use"
                 /\ op.k = "const" \/ (op.k = "copy" /\ IsRoot(op.place))
                 /\ ~IsCopyOf(op, s.place[1])
  IN  IF records THEN (s.place[1] :> op) @@ Invalidate(s, known) ELSE Invalidate(s, known)

RewriteBlock(block) ==
  LET step(r, s) == LET t == RewriteReads(s, r.known)
                    IN  [statements |-> Append(r.statements, t), known |-> UpdateKnown(t, r.known)]
      done == FoldLeft(step, [statements |-> <<>>, known |-> << >>], block.statements)
      t    == block.terminator
  IN  [statements |-> done.statements,
       terminator |-> IF t.k \in {"branch", "return"}
                      THEN [t EXCEPT !.op = Forward(@, done.known)] ELSE t]

CopyProp(f) == [f EXCEPT !.blocks = [b \in DOMAIN @ |-> RewriteBlock(@[b])]]

-----------------------------------------------------------------------------
(* unreachable_blocks: the blocks no edge reaches go, the others are       *)
(* numbered anew in their order.                                           *)
Successors(f, S) == UNION {SeqSet(f.blocks[b].terminator.targets) : b \in S}

Reachable(f) ==
  FoldLeft(LAMBDA S, i : S \cup Successors(f, S), {1}, [i \in DOMAIN f.blocks |-> i])

(* The place of x among the survivors.                                     *)
NewIndex(survivors, x) == Cardinality({y \in survivors : y <= x})

UnreachableBlocks(f) ==
  LET kept == InOrder(Reachable(f), Len(f.blocks))
      target(b) == NewIndex(Reachable(f), b)
  IN  [f EXCEPT !.blocks = [i \in DOMAIN kept |->
        [f.blocks[kept[i]] EXCEPT !.terminator.targets =
           [j \in DOMAIN @ |-> target(@[j])]]]]

-----------------------------------------------------------------------------
(* dead_locals: assignments to locals nothing reads, then the locals that  *)
(* nothing names.                                                          *)
StatementsOf(f) == UNION {SeqSet(f.blocks[b].statements) : b \in DOMAIN f.blocks}

Projected(s) == IF IsRoot(s.place) THEN {} ELSE {s.place[1]}
ReadLocals(f) ==
  UNION {Reads(s) \cup Projected(s) : s \in StatementsOf(f)}
    \cup UNION {TermReads(f.blocks[b].terminator) : b \in DOMAIN f.blocks}

BorrowParams(f) == {i \in DOMAIN f.params : f.params[i] # "take"}

RvalueCanTrap(rv) == rv.op \in {"add", "string", "as_str", "len"}

IsDeadStore(f, s) ==
  /\ s.k = "assign"
  /\ IsRoot(s.place)
  /\ s.place[1] \notin ReadLocals(f) \cup BorrowParams(f)
  /\ ~RvalueCanTrap(s.rvalue)

RemoveDeadStores(f) ==
  [f EXCEPT !.blocks = [b \in DOMAIN @ |->
     [@[b] EXCEPT !.statements = SelectSeq(@, LAMBDA s : ~IsDeadStore(f, s))]]]

KeptTypes(f, kept) == [i \in DOMAIN kept |-> f.locals[kept[i]]]

RemoveUnreferencedLocals(f) ==
  LET named  == DOMAIN f.params \cup ReadLocals(f) \cup {s.place[1] : s \in StatementsOf(f)}
      kept   == InOrder(named, Len(f.locals))
      place(p) == <<NewIndex(named, p[1])>> \o Tail(p)
      operand(op) == IF op.k = "const" THEN op ELSE [op EXCEPT !.place = place(@)]
      operands(ops) == [i \in DOMAIN ops |-> operand(ops[i])]
      arg(a) == IF a.mode = "take" THEN [a EXCEPT !.op = operand(@)] ELSE [a EXCEPT !.place = place(@)]
      rename(s) ==
        CASE s.k = "assign" ->
               [s EXCEPT !.place = place(@), !.rvalue.ops = operands(@),
                         !.rvalue.lent = [i \in DOMAIN @ |-> place(@[i])]]
          [] s.k = "call" -> [s EXCEPT !.place = place(@), !.args = [i \in DOMAIN @ |-> arg(@[i])]]
          [] s.k = "drop" -> [s EXCEPT !.place = place(@)]
      term(t) == IF t.k \in {"branch", "return"} THEN [t EXCEPT !.op = operand(@)] ELSE t
      renamed == MapStatements(f, rename)
  IN  [renamed EXCEPT !.locals = KeptTypes(f, kept),
                      !.blocks = [b \in DOMAIN @ |-> [@[b] EXCEPT !.terminator = term(@)]]]

DeadLocals(f) == RemoveUnreferencedLocals(RemoveDeadStores(f))

-----------------------------------------------------------------------------
(* pipeline: the i-th pass.                                                *)
Pass(i, f) ==
  CASE i = 1 -> ConstFold(f)
    [] i = 2 -> CopyProp(f)
    [] i = 3 -> UnreachableBlocks(f)
    [] i = 4 -> DeadLocals(f)
===============================================================================
