------------------------------ MODULE OrderedMap ------------------------------
(***************************************************************************)
(* What a Map is to a program: the reference semantics of ADR-0011, which  *)
(* the interpreter (src/crates/tuo-mir-interp/src/interp.rs) executes on   *)
(* an association list in insertion order.  RtMap, the hash table compiled *)
(* programs are linked with, implements it.                                *)
(***************************************************************************)
EXTENDS Naturals, Sequences, SequencesExt

CONSTANTS Keys, Values

VARIABLES
  list,  \* the entries, in the order their keys came
  reply  \* the call made last and its answer

vars == <<list, reply>>

(* Some(value) and None.                                                   *)
Some(v) == [some |-> TRUE, value |-> v]
None    == [some |-> FALSE]

(* The answer of a call.                                                   *)
Answer(op, k, r) == [op |-> op, key |-> k, result |-> r]
Nothing == [op |-> "none"]

(* The positions of a key, and the first of them.                          *)
Positions(k) == {i \in DOMAIN list : list[i].key = k}
First(k)     == CHOOSE i \in Positions(k) : \A j \in Positions(k) : i <= j
Lookup(k)    == IF Positions(k) = {} THEN None ELSE Some(list[First(k)].value)

Init == list = <<>> /\ reply = Nothing

MapEmpty == list' = <<>> /\ reply' = Nothing

MapInsert(k, v) ==
  /\ list' = IF Positions(k) = {}
             THEN Append(list, [key |-> k, value |-> v])
             ELSE [list EXCEPT ![First(k)].value = v]
  /\ reply' = Answer("insert", k, Lookup(k))

MapRemove(k) ==
  /\ list' = IF Positions(k) = {} THEN list ELSE RemoveAt(list, First(k))
  /\ reply' = Answer("remove", k, Lookup(k))

MapGet(k) ==
  /\ reply' = Answer("get", k, Lookup(k))
  /\ UNCHANGED list

MapLen ==
  /\ reply' = [op |-> "len", result |-> Len(list)]
  /\ UNCHANGED list

MapKeys ==
  /\ reply' = [op |-> "keys", result |-> [i \in DOMAIN list |-> list[i].key]]
  /\ UNCHANGED list

(* The answer is used before the next call is made.                        *)
UseAnswer == reply' = Nothing /\ UNCHANGED list

Next ==
  \/ UseAnswer \/ MapEmpty \/ MapLen \/ MapKeys
  \/ \E k \in Keys :
       \/ MapRemove(k) \/ MapGet(k)
       \/ \E v \in Values : MapInsert(k, v)

Spec == Init /\ [][Next]_vars
===============================================================================
