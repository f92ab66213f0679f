---------------------------- MODULE OwnershipCheck ----------------------------
(***************************************************************************)
(* The ownership checker, src/crates/tuo-ownership/src/check.rs: one walk  *)
(* over a function body that follows what is moved, what is initialised    *)
(* and which strings have live views, and reports the O-errors.            *)
(*                                                                         *)
(* The walk's mutable fields are one record c, and each method of Body is  *)
(* an operator from such a record to the next.                             *)
(***************************************************************************)
EXTENDS Syntax, FiniteSets, FiniteSetsExt, SequencesExt, TLC

(* Body::new.  An error is its code and the place it is about.             *)
NewBody ==
  [roots |-> << >>, state |-> << >>, scopes |-> <<>>, loops |-> <<>>,
   views |-> << >>, healed |-> {}, borrowMoves |-> {}, diverged |-> FALSE, errors |-> {}]

Report(c, code, p) == [c EXCEPT !.errors = @ \cup {<<code, p>>}]

OriginOf(c, p)  == c.roots[p[1]]
IsCopyAt(c, p)  == IsCopy(PlaceTy(Types[p[1]], p))
IsMutable(origin) == origin \in {"var", "mut", "take"}
IsBorrow(mode)    == mode \in {"in", "mut"}

(* register: a root of the innermost scope.                                *)
Register(c, x, origin, initialized) ==
  [c EXCEPT !.roots = (x :> origin) @@ @,
            !.scopes[Len(c.scopes)] = Append(@, x),
            !.state = IF initialized THEN @ ELSE (<<x>> :> "Uninit") @@ @]

(* heal: after an error a place counts as initialised, for good.           *)
Heal(c, ps) ==
  [c EXCEPT !.state = Without(@, {q \in DOMAIN @ : \E p \in ps : Overlaps(p, q)}),
            !.healed = @ \cup ps]
ScrubHealed(c) == Heal(c, c.healed)

-----------------------------------------------------------------------------
(* check_usable: can p be read, lent or taken here?                        *)
IsUsable(c, p) == Governing(c.state, p) = "ok" /\ Below(c.state, p) = {}

ReportUnusable(c, p, kind, key) ==
  CASE kind = "Moved" -> Heal(Report(c, "O0001", key), {key})
    [] kind \notin {"Moved", "ok"} -> Heal(Report(c, "O0002", key), {key})
    [] OTHER -> Heal(Report(c, "O0009", p), Below(c.state, p))

CheckUsable(c, p) ==
  IF IsUsable(c, p) THEN c
  ELSE ReportUnusable(c, p, Governing(c.state, p), GoverningPlace(c.state, p))

(* A bug: nothing is a conflict.                                           *)
NoViewConflict(c, x) == c

(* check_view_conflict: a string must stay while a view of it is live.     *)
CheckViewConflict(c, x) == IF x \in DOMAIN c.views THEN Report(c, "O0011", <<x>>) ELSE c

(* expire_views_of: the views that x holds end.                            *)
ExpireViewsOf(c, x) ==
  LET kept == [s \in DOMAIN c.views |-> c.views[s] \ {x}]
  IN  [c EXCEPT !.views = [s \in {t \in DOMAIN kept : kept[t] # {}} |-> kept[s]]]

(* check_escaping_view: a view must not leave the frame of its string.     *)
CheckEscapingView(c, e) ==
  IF IsAsStr(e) THEN Report(c, "O0011", e.args[1].place) ELSE c

ReportBorrowMove(c, p) ==
  IF p \in c.borrowMoves THEN c
  ELSE [Report(c, "O0003", p) EXCEPT !.borrowMoves = @ \cup {p}]

(* use_value: copied if Copy, moved otherwise.                             *)
MoveOut(c, p) ==
  IF IsBorrow(OriginOf(c, p)) THEN ReportBorrowMove(c, p)
  ELSE [c EXCEPT !.state = (p :> "Moved") @@ @]

UseValue(c, p) ==
  CASE ~IsUsable(c, p) -> CheckUsable(c, p)
    [] IsCopyAt(c, p)  -> c
    [] OTHER           -> MoveOut(CheckViewConflict(c, p[1]), p)

ReadPlace(c, p) == CheckUsable(c, p)

UsePlace(c, p, use) == IF use = "value" THEN UseValue(c, p) ELSE ReadPlace(c, p)

-----------------------------------------------------------------------------
(* drop_sanity_root: where a root is dropped it is known, statically, what *)
(* of it there is to drop.                                                 *)
Unknown(c, x) ==
  {p \in DOMAIN c.state :
     /\ p[1] = x
     /\ c.state[p] = "MaybeMoved" \/ (c.state[p] = "MaybeInit" /\ ~IsCopyAt(c, p))}

ReportConditionalMoves(c, ps) ==
  Heal([c EXCEPT !.errors = @ \cup {<<"O0008", p>> : p \in ps}], ps)

DropSanityRoots(c, xs) == ReportConditionalMoves(c, UNION {Unknown(c, x) : x \in xs})

(* drop_sanity_from: an early exit drops every scope from the depth on.    *)
DropSanityFrom(c, depth) ==
  DropSanityRoots(c, UNION {ToSet(c.scopes[i]) : i \in (depth + 1)..Len(c.scopes)})

(* Everything known about the root x is forgotten.                         *)
Forget(c, x) ==
  [c EXCEPT !.state = Without(@, {p \in DOMAIN @ : p[1] = x}),
            !.views = [s \in DOMAIN @ \ {x} |-> @[s]]]

PopScope(c) == [c EXCEPT !.scopes = Front(@)]

(* scope_end: the roots of a scope go in reverse order of declaration.     *)
EndRoot(c, x) ==
  Forget(DropSanityRoots(CheckViewConflict(ExpireViewsOf(c, x), x), {x}), x)
ScopeEnd(c) == FoldRight(LAMBDA x, d : EndRoot(d, x), Last(c.scopes), PopScope(c))

(* discard_scope: after a divergence nothing is left to check.             *)
DiscardScope(c) ==
  FoldLeft(LAMBDA d, x : Forget(ExpireViewsOf(d, x), x), PopScope(c), Last(c.scopes))

-----------------------------------------------------------------------------
(* Loops: the states in which they are left and continued.                 *)
PushLoop(c) ==
  [c EXCEPT !.loops = Append(@, [depth |-> Len(c.scopes), breaks |-> <<>>, continues |-> <<>>])]

MergeAll(first, maps) == FoldLeft(LAMBDA a, b : Merge(a, b), first, maps)

(* A bug: only moves inside the body are looked for, not first writes.     *)
BackEdgeCheckMovesOnly(c, head, backs) ==
  LET back == MergeAll(Head(backs), Tail(backs))
      gone == {p \in DOMAIN head \cup DOMAIN back :
                 Governing(head, p) = "ok" /\ Governing(back, p) = "Moved"}
  IN  IF backs = <<>> THEN c
      ELSE Heal([c EXCEPT !.errors = @ \cup {<<"O0002", p>> : p \in gone}], gone)

(* back_edge_check: the next iteration must find what the first one found. *)
NotAsFound(c, head, back) ==
  LET keys  == DOMAIN head \cup DOMAIN back
      moved == {p \in keys : /\ Governing(head, p) = "ok"
                             /\ Governing(back, p) \in {"Moved", "MaybeMoved"}}
      again == {p \in keys : /\ Governing(head, p) = "Uninit"
                             /\ Governing(back, p) # "Uninit"
                             /\ OriginOf(c, p) = "deferred"}
  IN  Heal([c EXCEPT !.errors = @ \cup {<<"O0002", p>> : p \in moved}
                                  \cup {<<"O0004", p>> : p \in again}],
           moved \cup again)

BackEdgeCheck(c, head, backs) ==
  IF backs = <<>> THEN c ELSE NotAsFound(c, head, MergeAll(Head(backs), Tail(backs)))

(* What the body of a loop leaves: its states at the back edge.            *)
BackStates(c) ==
  Last(c.loops).continues \o (IF c.diverged THEN <<>> ELSE <<c.state>>)

PopLoop(c) == [c EXCEPT !.loops = Front(@)]

(* The walk goes on with a merged state.                                   *)
Resume(c, state) == ScrubHealed([c EXCEPT !.state = state, !.diverged = FALSE])

LeaveWith(c, exits) ==
  [c EXCEPT !.loops[Len(c.loops)] = [@ EXCEPT ![exits] = Append(@, c.state)],
            !.diverged = TRUE]
Leave(c, exits) == LeaveWith(DropSanityFrom(c, Last(c.loops).depth), exits)

-----------------------------------------------------------------------------
(* assign, after the right-hand side: an assignment to a whole string ends *)
(* its views, the way to the place must be usable, and the value that is   *)
(* overwritten must be known to be there or not to be there.               *)
OverwriteViews(c, p) ==
  IF IsRoot(p) THEN ExpireViewsOf(CheckViewConflict(c, p[1]), p[1]) ELSE c

AssignPrefixes(c, p) ==
  IF ~IsRoot(p) /\ Root(p) \in DOMAIN c.state THEN CheckUsable(c, Root(p)) ELSE c

AssignMutable(c, p) ==
  LET known == ReportConditionalMoves(c, Unknown(c, p[1]) \cap {p})
  IN  [known EXCEPT !.state = Without(@, {q \in DOMAIN @ : IsPrefixOf(p, q)})]

AssignDeferred(c, p) ==
  IF p \in DOMAIN c.state /\ c.state[p] = "Uninit"
  THEN [c EXCEPT !.state = Without(@, {p})]
  ELSE Report(c, "O0004", p)

AssignTo(c, p, origin) ==
  CASE IsMutable(origin) -> AssignMutable(c, p)
    [] origin = "deferred" /\ IsRoot(p) -> AssignDeferred(c, p)
    [] OTHER -> Report(c, "O0004", p)
AssignPlace(c, p) == AssignTo(AssignPrefixes(OverwriteViews(c, p), p), p, OriginOf(c, p))

-----------------------------------------------------------------------------
(* call, after the arguments that are not places: recs are the others.     *)
CallBorrows(c, recs) ==
  FoldLeft(LAMBDA d, r : IF IsBorrow(r.mode) THEN CheckUsable(d, r.place) ELSE d, c, recs)

NeedMutable(c, p) == IF IsMutable(OriginOf(c, p)) THEN c ELSE Report(c, "O0004", p)
CallMuts(c, recs) ==
  FoldLeft(LAMBDA d, r : IF r.mode # "mut" THEN d
                         ELSE NeedMutable(CheckViewConflict(d, r.place[1]), r.place),
           c, recs)

(* Two arguments conflict when they overlap and one of them is exclusive;  *)
(* only the first such pair is reported.                                   *)
Conflict(a, b) ==
  /\ Overlaps(a.place, b.place)
  /\ \/ IsBorrow(a.mode) /\ IsBorrow(b.mode) /\ "mut" \in {a.mode, b.mode}
     \/ IsBorrow(a.mode) # IsBorrow(b.mode)

Conflicts(recs) ==
  {ij \in (DOMAIN recs) \X (DOMAIN recs) : ij[1] < ij[2] /\ Conflict(recs[ij[1]], recs[ij[2]])}

FirstConflict(recs) ==
  CHOOSE ij \in Conflicts(recs) : \A kl \in Conflicts(recs) :
    ij[1] < kl[1] \/ (ij[1] = kl[1] /\ ij[2] <= kl[2])

CallTakes(c, recs, suppressed) ==
  FoldLeft(LAMBDA d, i : IF recs[i].mode = "take" /\ i \notin suppressed
                         THEN UseValue(d, recs[i].place) ELSE d,
           c, [i \in DOMAIN recs |-> i])

(* A borrow that conflicts is reported at the second argument, a move at   *)
(* its own, and then nothing is moved.                                     *)
ReportConflict(c, recs, ij) ==
  LET takes == {i \in {ij[1], ij[2]} : recs[i].mode = "take"}
  IN  IF takes = {} THEN CallTakes(Report(c, "O0005", recs[ij[2]].place), recs, {})
      ELSE CallTakes(Report(c, "O0006", recs[Min(takes)].place), recs, takes)

CallResolved(c, recs) ==
  IF Conflicts(recs) = {} THEN CallTakes(c, recs, {})
  ELSE ReportConflict(c, recs, FirstConflict(recs))
CallPlaces(c, recs) == CallResolved(CallMuts(CallBorrows(c, recs), recs), recs)

-----------------------------------------------------------------------------
(* if_expr: base is the state the branches start from; the state after is  *)
(* that of the branches that did not diverge.                              *)
StartElse(then, base) == [then EXCEPT !.state = base, !.diverged = FALSE]

IfJoin(then, else) ==
  CASE then.diverged /\ else.diverged -> else
    [] then.diverged /\ ~else.diverged -> ScrubHealed(else)
    [] ~then.diverged /\ else.diverged -> Resume(else, then.state)
    [] OTHER -> Resume(else, Merge(then.state, else.state))

(* while_expr and loop_expr, after the body: head is the state before it.  *)
WhileEnd(body, head) ==
  Resume(BackEdgeCheck(PopLoop(body), head, BackStates(body)),
         MergeAll(head, Last(body.loops).breaks))

LoopLeft(c, head, exits) ==
  IF exits = <<>> THEN [c EXCEPT !.state = head, !.diverged = TRUE]
  ELSE Resume(c, MergeAll(Head(exits), Tail(exits)))
LoopEnd(body, head) ==
  LoopLeft(BackEdgeCheck(PopLoop(body), head, BackStates(body)), head, Last(body.loops).breaks)

(* binding_stmt, after the initialiser: a binding to exactly as_str(s)     *)
(* holds a view.                                                           *)
HoldView(c, x, string) ==
  LET held == IF string \in DOMAIN c.views THEN c.views[string] ELSE {}
  IN  [c EXCEPT !.views = (string :> held \cup {x}) @@ @]

BindName(c, s, deferred) ==
  Register(c, s.name,
           CASE s.mutable -> "var" [] deferred /\ ~s.mutable -> "deferred" [] OTHER -> "let",
           ~deferred)

Bound(c, s) ==
  IF IsAsStr(s.init) THEN HoldView(BindName(c, s, FALSE), s.name, s.init.args[1].place[1])
  ELSE BindName(c, s, s.init.k = "none")

(* eval_block, after its statements.                                       *)
CloseBlock(c) == IF c.diverged THEN DiscardScope(c) ELSE ScopeEnd(c)

-----------------------------------------------------------------------------
RECURSIVE Expr(_, _, _)

(* binding_stmt, expr_stmt and eval_block: a scope of its own.             *)
Stmt(c, s) == CASE c.diverged -> c
                [] ~c.diverged /\ s.k = "binding" -> Bound(Expr(c, s.init, "value"), s)
                [] OTHER -> Expr(c, s, "value")

EvalBlock(c, b, use) ==
  CloseBlock(Expr(FoldLeft(Stmt, [c EXCEPT !.scopes = Append(@, <<>>)], b.stmts), b.tail, use))

(* if_expr and while_expr, after the condition.                            *)
IfElse(then, e, base, use) ==
  IfJoin(then, IF e.else.k = "none" THEN StartElse(then, base)
               ELSE EvalBlock(StartElse(then, base), e.else, use))
IfThen(c, e, use) ==
  IF c.diverged THEN c ELSE IfElse(EvalBlock(c, e.then, use), e, c.state, use)

WhileBody(c, body) ==
  IF c.diverged THEN c ELSE WhileEnd(EvalBlock(PushLoop(c), body, "value"), c.state)

(* call: the arguments that are not places are evaluated on the way.       *)
CallArg(c, arg, mode) ==
  CASE IsPlace(arg) -> c
    [] mode = "mut" -> Expr(Report(c, "O0004", <<>>), arg, "read")
    [] OTHER        -> Expr(c, arg, IF mode = "take" THEN "value" ELSE "read")

PlaceArgs(e) ==
  LET modes == Sigs[e.fn].modes
      at    == SelectSeq([i \in DOMAIN e.args |-> i], LAMBDA i : IsPlace(e.args[i]))
  IN  [n \in DOMAIN at |-> [place |-> e.args[at[n]].place, mode |-> modes[at[n]]]]

CallExpr(c, e) ==
  CallPlaces(FoldLeft(LAMBDA d, i : CallArg(d, e.args[i], Sigs[e.fn].modes[i]),
                      c, [i \in DOMAIN e.args |-> i]),
             PlaceArgs(e))

(* expr: evaluate e in state c, for its value or to read it.               *)
Expr(c, e, use) ==
  CASE c.diverged          -> c
    [] e.k \in {"none", "lit"} -> c
    [] IsPlace(e)          -> UsePlace(c, e.place, use)
    [] e.k = "pair"        -> Expr(Expr(c, e.parts[1], "value"), e.parts[2], "value")
    [] e.k \in {"bin", "lt", "and"} -> Expr(Expr(c, e.lhs, "read"), e.rhs, "read")
    [] e.k = "move"        ->
         IF ~IsPlace(e.of) THEN Expr(Report(c, "O0007", <<>>), e.of, "value")
         ELSE IF IsCopyAt(c, e.of.place)
              THEN ReadPlace(Report(c, "O0007", e.of.place), e.of.place)
              ELSE UseValue(c, e.of.place)
    [] e.k = "assign"      ->
         AssignPlace(Expr(c, e.rhs, "value"), e.place)
    [] e.k = "call"        -> CallExpr(c, e)
    [] e.k = "block"       -> EvalBlock(c, e, use)
    [] e.k = "return"      ->
         [DropSanityFrom(Expr(CheckEscapingView(c, e.value), e.value, "value"), 0)
            EXCEPT !.diverged = TRUE]
    [] e.k = "break"       -> Leave(c, "breaks")
    [] e.k = "continue"    -> Leave(c, "continues")
    [] e.k = "if"          -> IfThen(Expr(c, e.cond, "read"), e, use)
    [] e.k = "while"       -> WhileBody(Expr(c, e.cond, "read"), e.body)
    [] e.k = "loop"        -> LoopEnd(EvalBlock(PushLoop(c), e.body, "value"), c.state)

(* check_fn: the errors of a function.                                     *)
Opened(f) ==
  FoldLeft(LAMBDA c, p : Register(c, p.name, p.mode, TRUE), [NewBody EXCEPT !.scopes = <<<<>>>>],
           f.params)

Closed(c) == IF c.diverged THEN c ELSE ScopeEnd(c)
CheckFn(f) ==
  Closed(EvalBlock(CheckEscapingView(Opened(f), f.body.tail), f.body, "value")).errors
===============================================================================
