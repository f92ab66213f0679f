--------------------------------- MODULE MirFlow ---------------------------------
(***************************************************************************)
(* Every path through a function of the MIR, whatever its branches decide: *)
(* where control is, and which locals hold a value there.  It is what the  *)
(* data flow of the verifier (MirVerify) is an account of, and leaves out  *)
(* of the interpreter what the account does not depend on: the values.     *)
(*                                                                         *)
(* F is a function, R some of its blocks and At a solution over them.      *)
(***************************************************************************)
EXTENDS MirVerify

CONSTANTS F, R, At

VARIABLES block, next,   \* the block, and the point in it, that control is at
          live           \* the locals that hold a value

vars == <<block, next, live>>

Length(b) == Len(F.blocks[b].statements)

Init == block = 1 /\ next = 1 /\ live = ParamsOf(F)

(* A statement takes what it consumes and fills what it defines.           *)
Exec ==
  /\ next \in DOMAIN F.blocks[block].statements
  /\ live' = ApplyStatement(F.blocks[block].statements[next], live)
  /\ next' = next + 1
  /\ UNCHANGED block

(* A terminator goes to one of its targets; at a return there is none.     *)
Jump ==
  /\ next = Length(block) + 1
  /\ block' \in Targets(F, block)
  /\ next' = 1
  /\ UNCHANGED live

Next == Exec \/ Jump
Spec == Init /\ [][Next]_vars

-----------------------------------------------------------------------------
(* The blocks are sequences of statements, and the audit found nothing.    *)
IsCode  == \A b \in R : F.blocks[b].statements \in Seq(Statements(F))
Audited == IsSolution(F, R, At) /\ \A b \in R : AuditOk(F, b, At[b])

(* Nothing is read that does not hold a value, on any path.                *)
NoDeadRead ==
  /\ next \in DOMAIN F.blocks[block].statements =>
       Reads(F.blocks[block].statements[next]) \subseteq live
  /\ next = Length(block) + 1 => TermReads(F.blocks[block].terminator) \subseteq live

(* Control is in R, and what the account says holds a value there, does.   *)
InStep == block \in R /\ next \in Points(F, block) /\ At[block][next] \subseteq live
===============================================================================
