------------------------------- MODULE SmallHost -------------------------------
(***************************************************************************)
(* The host the engine is checked with: two inputs and three queries that  *)
(* together have every shape the engine treats differently.                *)
(*                                                                         *)
(*   level  reads a               1 and 2 give the same value: early cutoff *)
(*   pick   reads level, then b   only if level is 1: the reads depend on   *)
(*                                what was read; fails while b is unset     *)
(*   sum    reads pick, level     a diamond, and a failing dependency       *)
(***************************************************************************)
EXTENDS Naturals, Sequences, SequencesExt

HostInputs  == {"a", "b"}
HostDerived == {"level", "pick", "sum"}
HostKeys    == HostInputs \cup HostDerived
HostValues  == 0..2
HostUnset   == [i \in HostInputs |-> 0]
HostWorlds  == [HostInputs -> HostValues]
HostReadSeqs == SeqOf(HostKeys, 2)

CONSTANT Failed   \* the Truth of a query that fails

Read(d)   == [op |-> "read", key |-> d]
Return(v) == [op |-> "done", value |-> v]
Fail      == [op |-> "fail"]

LevelStep(seen) ==
  IF Len(seen) = 0 THEN Read("a") ELSE Return(IF seen[1] = 0 THEN 0 ELSE 1)

PickStep(seen) ==
  CASE Len(seen) = 0 -> Read("level")
    [] Len(seen) = 1 -> IF seen[1] = 0 THEN Return(0) ELSE Read("b")
    [] Len(seen) = 2 -> IF seen[2] = 0 THEN Fail ELSE Return(seen[2])

SumStep(seen) ==
  CASE Len(seen) = 0 -> Read("pick")
    [] Len(seen) = 1 -> Read("level")
    [] Len(seen) = 2 -> Return((seen[1] + seen[2]) % 3)

HostStep(k, seen) ==
  CASE k = "level" -> LevelStep(seen)
    [] k = "pick"  -> PickStep(seen)
    [] k = "sum"   -> SumStep(seen)

(* The same three queries computed from scratch, with no engine. *)
LevelOf(w) == IF w["a"] = 0 THEN 0 ELSE 1
PickOf(w)  == CASE LevelOf(w) = 0 -> 0
                [] LevelOf(w) = 1 /\ w["b"] = 0 -> Failed
                [] OTHER -> w["b"]
SumOf(w)   == IF PickOf(w) = Failed THEN Failed ELSE (PickOf(w) + LevelOf(w)) % 3

HostTruth ==
  [w \in HostWorlds |->
    [k \in HostKeys |-> CASE k \in HostInputs -> w[k]
                          [] k = "level" -> LevelOf(w)
                          [] k = "pick"  -> PickOf(w)
                          [] k = "sum"   -> SumOf(w)]]
===============================================================================
