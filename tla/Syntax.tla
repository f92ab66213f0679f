-------------------------------- MODULE Syntax --------------------------------
(***************************************************************************)
(* The part of the language the compiler modules work on: expressions as   *)
(* tagged records, the types of their places, and the signatures of the    *)
(* functions they call (types: see Places).  Names are unique, as          *)
(* resolution leaves them.                                                 *)
(***************************************************************************)
EXTENDS Integers, Sequences, Places

CONSTANTS Types,   \* Types[x]: the checked type of the variable x
          Sigs     \* Sigs[f]: the parameter modes and the result type of f

Lit(n)       == [k |-> "lit", value |-> n]
Path(p)      == [k |-> "path", place |-> p]
Var(x)       == Path(<<x>>)
Move(e)      == [k |-> "move", of |-> e]
Bin(a, b)    == [k |-> "bin", lhs |-> a, rhs |-> b]
Lt(a, b)     == [k |-> "lt", lhs |-> a, rhs |-> b]
And(a, b)    == [k |-> "and", lhs |-> a, rhs |-> b]
MkPair(a, b) == [k |-> "pair", parts |-> <<a, b>>]
Call(f, as)  == [k |-> "call", fn |-> f, args |-> as]
Assign(p, e) == [k |-> "assign", place |-> p, rhs |-> e]
If(c, a, b)  == [k |-> "if", cond |-> c, then |-> a, else |-> b]
While(c, b)  == [k |-> "while", cond |-> c, body |-> b]
Loop(b)      == [k |-> "loop", body |-> b]
Break        == [k |-> "break"]
Continue     == [k |-> "continue"]
Return(e)    == [k |-> "return", value |-> e]
None         == [k |-> "none"]

(* A statement is a binding (var if mutable, deferred if it has no init)   *)
(* or an expression.                                                       *)
Bind(x, mutable, init) == [k |-> "binding", name |-> x, mutable |-> mutable, init |-> init]
Let(x, init)    == Bind(x, FALSE, init)
Mut(x, init)    == Bind(x, TRUE, init)
Block(stmts)      == [k |-> "block", stmts |-> stmts, tail |-> None]
BlockOf(stmts, e) == [k |-> "block", stmts |-> stmts, tail |-> e]

Param(x, mode)        == [name |-> x, mode |-> mode]
Fn(params, ret, body) == [params |-> params, ret |-> ret, body |-> body]

(* place_of: an expression that denotes a place.                           *)
IsPlace(e) == e.k = "path"

(* The type of an expression.                                              *)
RECURSIVE ExprTy(_)
ExprTy(e) ==
  CASE e.k = "path"  -> PlaceTy(Types[e.place[1]], e.place)
    [] e.k = "move"  -> ExprTy(e.of)
    [] e.k \in {"lit", "bin"} -> "int"
    [] e.k \in {"lt", "and"} -> "bool"
    [] e.k = "pair"  -> "pair"
    [] e.k = "call"  -> Sigs[e.fn].ret
    [] e.k = "block" -> ExprTy(e.tail)
    [] e.k = "if" /\ e.else.k # "none" -> ExprTy(e.then)
    [] OTHER         -> "unit"

(* as_str_source: the String an expression is exactly a view of.           *)
IsAsStr(e) == e.k = "call" /\ e.fn = "as_str" /\ IsPlace(e.args[1])
===============================================================================
