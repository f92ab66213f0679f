----------------------------------- MODULE Mir -----------------------------------
(***************************************************************************)
(* The intermediate representation, src/crates/tuo-mir/src/mir.rs: a       *)
(* function is the types of its locals, the modes of its parameters (the   *)
(* first locals) and its blocks; a block is a sequence of statements and a *)
(* terminator.  Block 1 is the entry.  A place is <<local, field, ...>>.   *)
(***************************************************************************)
EXTENDS Integers, Sequences, Places

CONSTANT MaxInt   \* the largest value of the only integer type

(* Operands: a constant, or a place that is copied or moved.               *)
Const(n)   == [k |-> "const", value |-> n]
CopyOf(p)  == [k |-> "copy", place |-> p]
MoveOf(p)  == [k |-> "move", place |-> p]
UnitConst  == Const(0)

(* Rvalues: an operation on operands, or the view (HeapOp::StringAsStr) of *)
(* the string in a place that is only lent to it.  Booleans are 0 and 1.   *)
Rvalue(op, ops) == [op |-> op, ops |-> ops, lent |-> <<>>]
Use(operand)    == Rvalue("use", <<operand>>)
ViewOf(p)       == [op |-> "as_str", ops |-> <<>>, lent |-> <<p>>]

Assigned(p, rv)        == [k |-> "assign", place |-> p, rvalue |-> rv]
Drop(p)                == [k |-> "drop", place |-> p]
Called(dest, fn, args) == [k |-> "call", place |-> dest, fn |-> fn, args |-> args]

Goto(b)           == [k |-> "goto", targets |-> <<b>>]
Branch(op, a, b)  == [k |-> "branch", op |-> op, targets |-> <<a, b>>]
Returns(op)       == [k |-> "return", op |-> op, targets |-> <<>>]
Unreachable       == [k |-> "trap", targets |-> <<>>]

EmptyBlock == [statements |-> <<>>, terminator |-> Unreachable]

(* What a statement takes by value (a drop consumes its place), and the    *)
(* places that are lent to it.                                             *)
ByValue(args) == SelectSeq(args, LAMBDA a : a.mode = "take")
Lent(args)    == SelectSeq(args, LAMBDA a : a.mode # "take")

OperandsOf(s) ==
  CASE s.k = "assign" -> s.rvalue.ops
    [] s.k = "call"   -> [i \in DOMAIN ByValue(s.args) |-> ByValue(s.args)[i].op]
    [] s.k = "drop"   -> <<MoveOf(s.place)>>

LentTo(s) ==
  CASE s.k = "assign" -> s.rvalue.lent
    [] s.k = "call"   -> [i \in DOMAIN Lent(s.args) |-> Lent(s.args)[i].place]
    [] s.k = "drop"   -> <<>>

TermOperands(t) == IF t.k \in {"branch", "return"} THEN <<t.op>> ELSE <<>>

PlacesIn(ops) == {ops[i].place : i \in {j \in DOMAIN ops : ops[j].k # "const"}}
RootsOf(ps)   == {p[1] : p \in ps}
SeqSet(s)     == {s[i] : i \in DOMAIN s}

(* The numbers of S up to n, in order.                                     *)
InOrder(S, n) == SelectSeq([i \in 1..n |-> i], LAMBDA i : i \in S)

(* The roots a statement, and a terminator, read.                          *)
Reads(s)     == RootsOf(PlacesIn(OperandsOf(s)) \cup SeqSet(LentTo(s)))
TermReads(t) == RootsOf(PlacesIn(TermOperands(t)))
===============================================================================
