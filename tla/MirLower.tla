-------------------------------- MODULE MirLower --------------------------------
(***************************************************************************)
(* Lowering to MIR, src/crates/tuo-mir/src/lower.rs: one walk over a       *)
(* function body that emits blocks of statements and, at every scope end   *)
(* and early exit, the drops of what the scope still owns.                 *)
(*                                                                         *)
(* FnLower is one record m.  m.val is the Value of the last expression: a  *)
(* place, an operand, or never if the path ended.  m.skip says where the   *)
(* code gives the function up (Err(Skip)) because two paths disagree; what *)
(* is emitted afterwards is not used.                                      *)
(*                                                                         *)
(* Not in the subset: match, for, ?, arrays, casts, labels, break values,  *)
(* patterns, indirect calls, effects.                                      *)
(***************************************************************************)
EXTENDS Syntax, Mir, FiniteSets, FiniteSetsExt, SequencesExt, TLC

-----------------------------------------------------------------------------
(* FnLower: blocks, locals, scopes, and what is known to be initialised.   *)
NewLower ==
  [locals |-> <<>>, blocks |-> <<EmptyBlock>>, current |-> 1, symLocals |-> << >>,
   scopes |-> <<<<>>>>, loops |-> <<>>, uninit |-> {}, moved |-> {}, borrowed |-> {},
   skip |-> <<>>, val |-> [k |-> "op", op |-> UnitConst]]

WithOp(m, op)   == [m EXCEPT !.val = [k |-> "op", op |-> op]]
WithPlace(m, p) == [m EXCEPT !.val = [k |-> "place", place |-> p]]
WithUnit(m)     == WithOp(m, UnitConst)
Diverge(m)      == [m EXCEPT !.val = [k |-> "never"]]
IsNever(m)      == m.val.k = "never"

Emit(m, s)        == [m EXCEPT !.blocks[m.current].statements = Append(@, s)]
Terminate(m, t)   == [m EXCEPT !.blocks[m.current].terminator = t]
AddBlocks(m, n)   == [m EXCEPT !.blocks = @ \o [i \in 1..n |-> EmptyBlock]]
SwitchTo(m, b)    == [m EXCEPT !.current = b]
PlaceTyOf(m, p)   == PlaceTy(m.locals[p[1]], p)

(* new_local and temp: a local of the innermost scope.                     *)
NewLocal(m, ty) ==
  LET id == Len(m.locals) + 1
  IN  [m EXCEPT !.locals = Append(@, ty),
                !.scopes[Len(m.scopes)] = Append(@, id),
                !.uninit = IF IsCopy(ty) THEN @ ELSE @ \cup {id}]
Newest(m) == <<Len(m.locals)>>

LocalFor(m, x) ==
  IF x \in DOMAIN m.symLocals THEN m
  ELSE [NewLocal(m, Types[x]) EXCEPT !.symLocals = (x :> Len(m.locals) + 1) @@ @]

Snapshot(m)       == [uninit |-> m.uninit, moved |-> m.moved]
Restore(m, state) == [m EXCEPT !.uninit = state.uninit, !.moved = state.moved]

LocalsBelow(m, depth) == UNION {ToSet(m.scopes[i]) : i \in 1..Min({depth, Len(m.scopes)})}
StateBelow(m, state, depth) ==
  [uninit |-> state.uninit \cap LocalsBelow(m, depth),
   moved  |-> {p \in state.moved : p[1] \in LocalsBelow(m, depth)}]
(* expect_state_below and expect_state: give up where the state of a path  *)
(* is not the one that is expected there.  The first time counts.          *)
Gone(state) == {<<l>> : l \in state.uninit} \cup state.moved
Reason(edge, expected, found) ==
  [edge |-> edge, lost   |-> Gone(found) \ Gone(expected),
                  gained |-> Gone(expected) \ Gone(found)]

Expect(m, edge, expected, depth) ==
  IF m.skip # <<>> \/ StateBelow(m, Snapshot(m), depth) = StateBelow(m, expected, depth) THEN m
  ELSE [m EXCEPT !.skip = <<Reason(edge, StateBelow(m, expected, depth),
                                   StateBelow(m, Snapshot(m), depth))>>]

(* A bug: only whole locals are remembered.                                *)
MarkMovedWhole(m, p) ==
  IF IsCopy(m.locals[p[1]]) \/ ~IsRoot(p) THEN m ELSE [m EXCEPT !.moved = @ \cup {p}]

MarkMoved(m, p) == IF IsCopy(m.locals[p[1]]) THEN m ELSE [m EXCEPT !.moved = @ \cup {p}]
IsGone(m, p)    == p[1] \in m.uninit \/ \E q \in m.moved : IsPrefixOf(q, p)

-----------------------------------------------------------------------------
(* use_value: move the place out unless its value is Copy.                 *)
UseValue(m) ==
  CASE m.val.k # "place" -> m
    [] m.val.k = "place" /\ IsCopy(PlaceTyOf(m, m.val.place)) -> WithOp(m, CopyOf(m.val.place))
    [] OTHER -> WithOp(MarkMoved(m, m.val.place), MoveOf(m.val.place))

ReadValue(m) == IF m.val.k = "place" THEN WithOp(m, CopyOf(m.val.place)) ELSE m

(* drop_residue: drop what is left of a place: all of it, or the fields    *)
(* that a partial move left there.                                         *)
RECURSIVE DropResidue(_, _)
DropResidue(m, p) ==
  CASE IsCopy(PlaceTyOf(m, p)) \/ IsGone(m, p) -> m
    [] ~IsCopy(PlaceTyOf(m, p)) /\ ~IsGone(m, p) /\ ~(\E q \in m.moved : IsPrefixOf(p, q)) ->
         MarkMoved(Emit(m, Drop(p)), p)
    [] OTHER ->
         FoldLeft(LAMBDA d, field : DropResidue(d, Append(p, field)),
                  m, FieldsOf(PlaceTyOf(m, p)))

(* store: drop what the place held, and make it live again.                *)
Relive(m, p) ==
  [m EXCEPT !.moved = {q \in @ : ~IsPrefixOf(p, q)},
            !.uninit = IF IsRoot(p) THEN @ \ {p[1]} ELSE @]

(* A bug: what the place held is overwritten without a drop.               *)
StoreOver(m, p, rv) ==
  Emit(IF IsCopy(PlaceTyOf(m, p)) THEN m ELSE Relive(m, p), Assigned(p, rv))

Store(m, p, rv) ==
  Emit(IF IsCopy(PlaceTyOf(m, p)) THEN m ELSE Relive(DropResidue(m, p), p), Assigned(p, rv))

(* assign_temp and place_of.                                               *)
AssignTemp(m, rv, ty) ==
  LET d == NewLocal(m, ty) IN WithPlace(Store(d, Newest(d), rv), Newest(d))
PlaceOf(m, ty) == IF m.val.k = "op" THEN AssignTemp(m, Use(m.val.op), ty) ELSE m

(* Drop locals in the given order, but not what is only borrowed.          *)
DropLocals(m, ids) ==
  FoldLeft(LAMBDA d, id : IF id \in d.borrowed THEN d ELSE DropResidue(d, <<id>>), m, ids)

(* drops_from: an early exit drops every scope from the depth on; the      *)
(* drops belong to the exiting path only.                                  *)
DropsFrom(m, depth) ==
  LET ids == UNION {ToSet(m.scopes[i]) : i \in (depth + 1)..Len(m.scopes)}
  IN  Restore(DropLocals(m, Reverse(InOrder(ids, Len(m.locals)))), Snapshot(m))

Forget(m, ids) ==
  [m EXCEPT !.uninit = @ \ ids, !.moved = {p \in @ : p[1] \notin ids}]

PushScope(m)    == [m EXCEPT !.scopes = Append(@, <<>>)]
PopScope(m)     == [m EXCEPT !.scopes = Front(@)]
DiscardScope(m) == Forget(PopScope(m), ToSet(Last(m.scopes)))
EndScope(m) ==
  Forget(DropLocals(PopScope(m), Reverse(Last(m.scopes))), ToSet(Last(m.scopes)))

(* emit_return.  The subset has no Copy part of a value that is dropped,   *)
(* so there is nothing to freeze here or in escape_operand.                *)
EmitReturn(m) == Diverge(Terminate(DropsFrom(m, 0), Returns(m.val.op)))

(* can_write: can evaluating e change memory?                              *)
RECURSIVE CanWrite(_)
CanWrite(e) ==
  CASE e.k \in {"assign", "call"} -> TRUE
    [] e.k \in {"lit", "path", "none", "continue", "break"} -> FALSE
    [] e.k = "move"          -> CanWrite(e.of)
    [] e.k \in {"bin", "lt", "and"} -> CanWrite(e.lhs) \/ CanWrite(e.rhs)
    [] e.k = "pair"          -> \E i \in DOMAIN e.parts : CanWrite(e.parts[i])
    [] e.k = "if"            -> CanWrite(e.cond) \/ CanWrite(e.then) \/ CanWrite(e.else)
    [] e.k = "while"         -> CanWrite(e.cond) \/ CanWrite(e.body)
    [] e.k = "loop"          -> CanWrite(e.body)
    [] e.k = "return"        -> CanWrite(e.value)
    [] e.k = "binding"       -> CanWrite(e.init)
    [] e.k = "block"         -> CanWrite(e.tail) \/ \E i \in DOMAIN e.stmts : CanWrite(e.stmts[i])

(* freeze_before: a Copy operand is read before a later sibling writes.    *)
FreezeBefore(m, later) ==
  IF m.val.op.k = "copy" /\ \E i \in DOMAIN later : CanWrite(later[i])
  THEN ReadValue(AssignTemp(m, Use(m.val.op), PlaceTyOf(m, m.val.op.place)))
  ELSE m

(* LoopCtx.  exit is the state at the first exit seen, as a sequence.      *)
PushLoop(m, break, head, state, exit) ==
  [m EXCEPT !.loops = Append(@, [break |-> break, head |-> head, depth |-> Len(m.scopes),
                                 state |-> state, exit |-> exit])]
PopLoop(m) == [m EXCEPT !.loops = Front(@)]

(* break_expr: every break must agree with the first exit.                 *)
AgreeOnExit(m, ctx) ==
  IF ctx.exit = <<>> THEN [m EXCEPT !.loops[Len(m.loops)].exit = <<Snapshot(m)>>]
  ELSE Expect(m, "break", ctx.exit[1], ctx.depth)
BreakFrom(m, ctx) ==
  Diverge(Terminate(AgreeOnExit(DropsFrom(m, ctx.depth), ctx), Goto(ctx.break)))

(* continue_expr.                                                          *)
ContinueFrom(m, ctx) ==
  Diverge(Terminate(Expect(DropsFrom(m, ctx.depth), "back", ctx.state, ctx.depth), Goto(ctx.head)))

-----------------------------------------------------------------------------
(* What each kind of expression does once its parts are lowered.           *)

(* A block that branches on a value to the first two of n new blocks.      *)
Fork(m, n) ==
  Terminate(AddBlocks(m, n), Branch(ReadValue(m).val.op, Len(m.blocks) + 1, Len(m.blocks) + 2))

(* scoped_value and block: the end of a scope and of its value.            *)
CloseScope(m) == IF IsNever(m) THEN DiscardScope(m) ELSE EndScope(UseValue(m))

BinaryEnd(m, left, e) ==
  IF IsNever(m) THEN m
  ELSE AssignTemp(m, Rvalue(IF e.k = "lt" THEN "lt" ELSE "add", <<left, ReadValue(m).val.op>>),
                  ExprTy(e))

(* close_branch: the join block is made by the first branch that is live.  *)
StoreResult(m, result) == IF result = <<>> THEN m ELSE Store(m, result, Use(m.val.op))
JumpTo(m, join) ==
  IF join = 0 THEN Terminate(AddBlocks(m, 1), Goto(Len(m.blocks) + 1)) ELSE Terminate(m, Goto(join))
CloseBranch(m, result, join) ==
  IF IsNever(m) THEN m ELSE JumpTo(StoreResult(UseValue(m), result), join)

(* short_circuit: the path that does not evaluate the right operand; and   *)
(* its state is the state after.                                           *)
ShortFalse(m, result) ==
  Terminate(Store(SwitchTo(m, Len(m.blocks) - 1), result, Use(Const(0))), Goto(Len(m.blocks)))
ShortEnd(m, result, short) ==
  WithPlace(SwitchTo(Restore(CloseBranch(m, result, Len(short.blocks)), Snapshot(short)),
                     Len(short.blocks)), result)

(* if_expr: the branches that are live must agree.                         *)
JoinAt(m, state, join, result) ==
  LET d == SwitchTo(Restore(m, state), join)
  IN  IF result = <<>> THEN WithUnit(d) ELSE WithPlace(d, result)
IfJoin(then, else, result) ==
  CASE IsNever(then) /\ IsNever(else) -> else
    [] IsNever(then) /\ ~IsNever(else) -> JoinAt(else, Snapshot(else), Len(else.blocks), result)
    [] ~IsNever(then) /\ IsNever(else) -> JoinAt(else, Snapshot(then), Len(then.blocks), result)
    [] OTHER -> JoinAt(Expect(else, "join", Snapshot(then), Len(else.scopes)),
                       Snapshot(then), Len(then.blocks), result)

(* A loop starts in a block of its own; start is the state there.  A body  *)
(* that ends goes back to it and must find that state.                     *)
StartLoop(m, n) ==
  LET head == Len(m.blocks) + 1 IN SwitchTo(Terminate(AddBlocks(m, n), Goto(head)), head)
BackEdge(m, start) ==
  IF IsNever(m) THEN m
  ELSE Terminate(Expect(m, "back", Snapshot(start), Len(m.scopes)), Goto(start.current))
WhileEnd(m, start, exit) ==
  WithUnit(SwitchTo(Restore(PopLoop(BackEdge(m, start)), Snapshot(start)), exit))
LoopEnd(m, exits, exit) ==
  IF exits = <<>> THEN Diverge(PopLoop(m))
  ELSE WithUnit(SwitchTo(Restore(PopLoop(m), exits[1]), exit))

(* emit_call; the builtins new, as_str and len are rvalues, not calls.     *)
EmitCall(m, fn, args) ==
  LET d == NewLocal(m, Sigs[fn].ret)
  IN  CASE fn = "new"    -> AssignTemp(m, Rvalue("string", <<>>), "own")
        [] fn = "as_str" -> AssignTemp(m, ViewOf(args[1].place), "view")
        [] fn = "len"    -> AssignTemp(m, Rvalue("len", <<args[1].op>>), "int")
        [] OTHER -> WithPlace([Emit(d, Called(Newest(d), fn, args))
                                EXCEPT !.uninit = @ \ {Len(d.locals)}], Newest(d))
CallEnd(m, fn) == IF IsNever(m) THEN m ELSE EmitCall(m, fn, m.val.args)

PairEnd(m) ==
  IF IsNever(m) THEN m
  ELSE AssignTemp(m, Rvalue("aggregate", <<m.val.args[1].op, m.val.args[2].op>>), "pair")

AssignEnd(m, p) == IF IsNever(m) THEN m ELSE WithUnit(Store(m, p, Use(m.val.op)))
BindEnd(m, x)   == AssignEnd(m, <<m.symLocals[x]>>)
BindTo(m, x)    == IF IsNever(m) THEN m ELSE BindEnd(LocalFor(m, x), x)
ReturnEnd(m)    == IF IsNever(m) THEN m ELSE EmitReturn(m)

(* stmt: a value that is not used is a temporary.                          *)
Unused(m, ty) ==
  IF m.val.k = "op" /\ ~IsCopy(ty) THEN AssignTemp(m, Use(m.val.op), ty) ELSE m

(* The operands of a call or a literal, in order: those taken by value are *)
(* used, the others are lent in their places.                              *)
Operand(m, e, mode, later) ==
  IF mode = "take" THEN FreezeBefore(UseValue(m), later) ELSE PlaceOf(m, ExprTy(e))
Argument(m, mode) ==
  IF mode = "take" THEN [mode |-> mode, op |-> m.val.op] ELSE [mode |-> mode, place |-> m.val.place]

-----------------------------------------------------------------------------
RECURSIVE LowerExpr(_, _), Operands(_, _, _, _)

LowerPlace(m, p) == LET d == LocalFor(m, p[1])
                    IN  WithPlace(d, <<d.symLocals[p[1]]>> \o Tail(p))

(* binding_stmt, stmt and block.                                           *)
LowerBinding(m, s) ==
  IF s.init.k = "none" THEN LocalFor(m, s.name)
  ELSE BindTo(UseValue(LowerExpr(m, s.init)), s.name)
LowerStmt(m, s) ==
  CASE IsNever(m) -> m
    [] ~IsNever(m) /\ s.k = "binding" -> LowerBinding(m, s)
    [] OTHER -> Unused(LowerExpr(m, s), ExprTy(s))
LowerTail(m, e) == IF IsNever(m) THEN m ELSE LowerExpr(m, e)
LowerBlock(m, b) ==
  CloseScope(LowerTail(FoldLeft(LowerStmt, WithUnit(PushScope(m)), b.stmts), b.tail))
ScopedValue(m, e) == CloseScope(LowerExpr(PushScope(m), e))

BinaryRhs(m, e) == BinaryEnd(LowerExpr(m, e.rhs), m.val.op, e)
BinaryLhs(m, e) == IF IsNever(m) THEN m ELSE BinaryRhs(FreezeBefore(ReadValue(m), <<e.rhs>>), e)

ShortRhs(m, e, result) ==
  ShortEnd(ScopedValue(SwitchTo(m, Len(m.blocks) - 2), e), result, m)
ShortLhs(m, e, result) ==
  IF IsNever(m) THEN m ELSE ShortRhs(ShortFalse(Fork(m, 3), result), e, result)

IfElse(then, e, result, split) ==
  LET other == SwitchTo(Restore(then, Snapshot(split)), Len(split.blocks))
  IN  IfJoin(then,
             CloseBranch(IF e.else.k = "none" THEN WithUnit(other) ELSE ScopedValue(other, e.else),
                         result, IF IsNever(then) THEN 0 ELSE Len(then.blocks)),
             result)
IfThen(m, e, result) ==
  IfElse(CloseBranch(LowerBlock(SwitchTo(m, Len(m.blocks) - 1), e.then), result, 0), e, result, m)
IfCond(m, e, result) == IF IsNever(m) THEN m ELSE IfThen(Fork(m, 2), e, result)
IfExpr(m, e) ==
  IF ExprTy(e) = "unit" THEN IfCond(LowerExpr(m, e.cond), e, <<>>)
  ELSE IfCond(LowerExpr(NewLocal(m, ExprTy(e)), e.cond), e, <<Len(m.locals) + 1>>)

(* A while loop may end before its first iteration, so its exit state is   *)
(* the state at its head; a loop is left with the state of its first break.*)
WhileBody(m, body, start) ==
  LET exit == Len(m.blocks)
  IN  WhileEnd(LowerBlock(PushLoop(SwitchTo(m, exit - 1), exit, start.current, Snapshot(start),
                                   <<Snapshot(start)>>), body), start, exit)
WhileCond(m, body, start) ==
  IF IsNever(m) THEN DiscardScope(m)
  ELSE WhileBody(Fork(Expect(EndScope(m), "back", Snapshot(start), Len(start.scopes)), 2), body, start)
WhileFrom(start, e) == WhileCond(LowerExpr(PushScope(start), e.cond), e.body, start)

LoopLeft(m, exit) == LoopEnd(m, Last(m.loops).exit, exit)
LoopFrom(start, body) ==
  LoopLeft(BackEdge(LowerBlock(PushLoop(start, start.current + 1, start.current, Snapshot(start),
                                        <<>>), body), start), start.current + 1)

LowerOperand(m, e, mode) == IF mode = "mut" THEN LowerPlace(m, e.place) ELSE LowerExpr(m, e)
Collect(m, es, modes, done) ==
  Operands(m, es, modes, Append(done, Argument(m, modes[Len(done) + 1])))
Lowered(m, es, modes, done) ==
  IF IsNever(m) THEN m
  ELSE LET i == Len(done) + 1
       IN  Collect(Operand(m, es[i], modes[i], SubSeq(es, i + 1, Len(es))), es, modes, done)
Operands(m, es, modes, done) ==
  IF Len(done) = Len(es) THEN [m EXCEPT !.val = [k |-> "args", args |-> done]]
  ELSE Lowered(LowerOperand(m, es[Len(done) + 1], modes[Len(done) + 1]), es, modes, done)

LowerMove(m) == WithOp(MarkMoved(m, m.val.place), MoveOf(m.val.place))
LowerAssign(m, e) == AssignEnd(UseValue(LowerExpr(m, e.rhs)), m.val.place)

LowerExpr(m, e) ==
  CASE e.k = "lit"   -> WithOp(m, Const(e.value))
    [] e.k = "none"  -> WithUnit(m)
    [] IsPlace(e)    -> LowerPlace(m, e.place)
    [] e.k = "move"  -> LowerMove(LowerPlace(m, e.of.place))
    [] e.k \in {"bin", "lt"} -> BinaryLhs(LowerExpr(m, e.lhs), e)
    [] e.k = "and"   ->
         ShortLhs(LowerExpr(NewLocal(m, "bool"), e.lhs), e.rhs, <<Len(m.locals) + 1>>)
    [] e.k = "pair"  -> PairEnd(Operands(m, e.parts, <<"take", "take">>, <<>>))
    [] e.k = "call"  -> CallEnd(Operands(m, e.args, Sigs[e.fn].modes, <<>>), e.fn)
    [] e.k = "assign" -> LowerAssign(LowerPlace(m, e.place), e)
    [] e.k = "if"    -> IfExpr(m, e)
    [] e.k = "while" -> WhileFrom(StartLoop(m, 1), e)
    [] e.k = "loop"  -> LoopFrom(StartLoop(m, 2), e.body)
    [] e.k = "block" -> LowerBlock(m, e)
    [] e.k = "break" -> BreakFrom(m, Last(m.loops))
    [] e.k = "continue" -> ContinueFrom(m, Last(m.loops))
    [] e.k = "return"   -> ReturnEnd(UseValue(LowerExpr(m, e.value)))

(* run: lower one function.                                                *)
LowerParam(m, p) ==
  LET d  == LocalFor(m, p.name)
      id == d.symLocals[p.name]
  IN  [d EXCEPT !.uninit = @ \ {id},
                !.borrowed = IF p.mode = "take" THEN @ ELSE @ \cup {id}]
Finish(m, params) ==
  [skip |-> m.skip, locals |-> m.locals, blocks |-> m.blocks,
   params |-> [i \in DOMAIN params |-> params[i].mode]]
LowerFn(f) ==
  Finish(ReturnEnd(UseValue(LowerBlock(FoldLeft(LowerParam, NewLower, f.params), f.body))), f.params)
===============================================================================
