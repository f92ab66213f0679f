-------------------------------- MODULE MirVerify --------------------------------
(***************************************************************************)
(* The MIR verifier, src/crates/tuo-mir/src/verify.rs: the gate between    *)
(* lowering and everything that runs or translates MIR.  Its core is the   *)
(* data flow over the locals that are initialised on every path.           *)
(***************************************************************************)
EXTENDS Mir, FiniteSets

BlocksOf(f) == DOMAIN f.blocks
LocalsOf(f) == DOMAIN f.locals
ParamsOf(f) == DOMAIN f.params
Targets(f, b) == SeqSet(f.blocks[b].terminator.targets)
Statements(f) == UNION {SeqSet(f.blocks[b].statements) : b \in BlocksOf(f)}

(* check_targets, check_place, check_operand: what is named exists, and a  *)
(* Copy value is not moved.                                                *)
IsPlaceOf(f, p) ==
  /\ p[1] \in LocalsOf(f)
  /\ Len(p) > 1 => p[2] \in SeqSet(FieldsOf(f.locals[p[1]]))

OperandOk(f, op) ==
  op.k # "const" =>
    /\ IsPlaceOf(f, op.place)
    /\ op.k = "move" => ~IsCopy(PlaceTy(f.locals[op.place[1]], op.place))

StatementOk(f, s) ==
  /\ IsPlaceOf(f, s.place)
  /\ \A p \in SeqSet(LentTo(s)) : IsPlaceOf(f, p)
  /\ s.k # "drop" => \A op \in SeqSet(OperandsOf(s)) : OperandOk(f, op)

Structural(f) ==
  /\ \A b \in BlocksOf(f) : /\ Targets(f, b) \subseteq BlocksOf(f)
                            /\ \A op \in SeqSet(TermOperands(f.blocks[b].terminator)) :
                                 OperandOk(f, op)
  /\ \A s \in Statements(f) : StatementOk(f, s)

-----------------------------------------------------------------------------
(* apply_statement: what it consumes, then what it defines.  Only whole    *)
(* locals count: a local that lost a field is still initialised.           *)
Whole(ps) == RootsOf({p \in ps : IsRoot(p)})

Consumes(s) ==
  LET ops == OperandsOf(s)
  IN  Whole({ops[i].place : i \in {j \in DOMAIN ops : ops[j].k = "move"}})

MutablyLent(s) ==
  IF s.k = "call" THEN {s.args[i].place : i \in {j \in DOMAIN s.args : s.args[j].mode = "mut"}}
  ELSE {}

Defines(s) == IF s.k = "drop" THEN {} ELSE Whole({s.place} \cup MutablyLent(s))

(* A bug: a drop leaves its local initialised.                             *)
ApplyStatementKeeping(s, init) ==
  (init \ (IF s.k = "drop" THEN {} ELSE Consumes(s))) \cup Defines(s)

ApplyStatement(s, init) == (init \ Consumes(s)) \cup Defines(s)

(* check_call_ownership: no local is both lent and moved in one call.      *)
CallOwnershipOk(s) ==
  s.k = "call" =>
    RootsOf(SeqSet(LentTo(s)))
      \cap RootsOf({op.place : op \in {o \in SeqSet(OperandsOf(s)) : o.k = "move"}}) = {}

(* The analysis assigns to every block b and to every point of it the set  *)
(* at[b][i] of the locals initialised before its i-th statement, the last  *)
(* one before the terminator.                                              *)
Points(f, b) == 1..(Len(f.blocks[b].statements) + 1)

(* check_dataflow: nothing is read that is not initialised there.          *)
AuditOk(f, b, at) ==
  /\ \A i \in DOMAIN f.blocks[b].statements :
       LET s == f.blocks[b].statements[i] IN Reads(s) \subseteq at[i] /\ CallOwnershipOk(s)
  /\ TermReads(f.blocks[b].terminator) \subseteq at[Len(f.blocks[b].statements) + 1]

(* at is a solution over the blocks R: it holds the parameters at the      *)
(* entry, follows the statements, and loses nothing along an edge.         *)
IsSolution(f, R, at) ==
  /\ 1 \in R
  /\ R \subseteq BlocksOf(f)
  /\ at[1][1] \subseteq ParamsOf(f)
  /\ \A b \in R : \A i \in DOMAIN f.blocks[b].statements :
       at[b][i + 1] = ApplyStatement(f.blocks[b].statements[i], at[b][i])
  /\ \A b \in R : \A c \in Targets(f, b) :
       c \in R /\ at[c][1] \subseteq at[b][Len(f.blocks[b].statements) + 1]
===============================================================================
