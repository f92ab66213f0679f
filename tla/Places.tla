-------------------------------- MODULE Places --------------------------------
(***************************************************************************)
(* Places and their abnormal states, the data of the ownership checker:    *)
(* src/crates/tuo-ownership/src/place.rs and the state map of check.rs.    *)
(*                                                                         *)
(* A place is a root and the path of fields below it, as one sequence      *)
(* <<root, field, ...>>.  A state map is a function from the places that   *)
(* are not fully initialized to what is wrong with them; a place that is   *)
(* not in its domain is as good as the nearest place above it.             *)
(***************************************************************************)
EXTENDS Integers, Sequences

(* PlaceState.  The spans it carries say where, for a diagnostic, and are  *)
(* left out.                                                               *)
Kinds == {"Uninit", "MaybeInit", "Moved", "MaybeMoved"}

(* A place is its root and at least no fields.                             *)
Root(p)  == <<p[1]>>
IsRoot(p) == Len(p) = 1

(* Types: int, bool, unit and view (Str, a view of a String) are Copy: a   *)
(* use duplicates the value.  own is a String; pair is a struct of two     *)
(* fields of that type.                                                    *)
IsCopy(ty)     == ty \in {"int", "bool", "unit", "view"}
FieldsOf(ty)   == IF ty = "pair" THEN <<1, 2>> ELSE <<>>
PlaceTy(ty, p) == IF IsRoot(p) THEN ty ELSE "own"

(* q is p or a place that p is a part of.                                  *)
IsPrefixOf(q, p) == Len(q) <= Len(p) /\ \A i \in 1..Len(q) : q[i] = p[i]

Overlaps(p, q) == IsPrefixOf(p, q) \/ IsPrefixOf(q, p)

(* A state map over roots and fields with these names.                     *)
IsMap(m, Names) == DOMAIN m \subseteq Seq(Names) /\ \A p \in DOMAIN m : m[p] \in Kinds

(* state_rank: what holds on every path outranks what holds on some.       *)
Rank(kind) == IF kind \in {"Uninit", "Moved"} THEN 2 ELSE 1

(* The entries that govern p, and among them the first of the worst: the   *)
(* map is ordered, a place before its parts.                               *)
Entries(m, p) == {q \in DOMAIN m : IsPrefixOf(q, p)}

Worst(m, p) == {q \in Entries(m, p) : \A r \in Entries(m, p) : Rank(m[r]) <= Rank(m[q])}

GoverningPlace(m, p) == CHOOSE q \in Worst(m, p) : \A r \in Worst(m, p) : Len(q) <= Len(r)

(* governing: the kind of that entry, "ok" if there is none.               *)
Governing(m, p) == IF Entries(m, p) = {} THEN "ok" ELSE m[GoverningPlace(m, p)]

(* moved_descendants: the entries strictly below p.                        *)
Below(m, p) == {q \in DOMAIN m : IsPrefixOf(p, q) /\ Len(q) > Len(p)}

(* The map without the entries of the places in S.                         *)
Without(m, S) == [p \in DOMAIN m \ S |-> m[p]]

(* A bug: a value that is gone on one path only is forgotten.              *)
MergePairForgets(a, b) ==
  CASE "ok" \in {a, b} -> "ok"
    [] a = b -> a
    [] {a, b} = {"Moved", "Uninit"} -> "Moved"
    [] {"Moved", "MaybeMoved"} \cap {a, b} # {} -> "MaybeMoved"
    [] OTHER -> "MaybeInit"

(* merge_pair: two paths join with a and b as the state of one place.      *)
MergePair(a, b) ==
  CASE a = b -> a
    [] {a, b} = {"Moved", "Uninit"} -> "Moved"
    [] {"Moved", "MaybeMoved"} \cap {a, b} # {} -> "MaybeMoved"
    [] OTHER -> "MaybeInit"

(* merge: every place that either path has an entry for is judged anew.    *)
Merge(a, b) ==
  [p \in {q \in DOMAIN a \cup DOMAIN b :
            MergePair(Governing(a, q), Governing(b, q)) # "ok"}
     |-> MergePair(Governing(a, p), Governing(b, p))]

-----------------------------------------------------------------------------
(* p cannot be used: an entry governs it; and it is so on every path.      *)
Abnormal(m, p) == \E q \in Entries(m, p) : TRUE
Definite(m, p) == \E q \in Entries(m, p) : Rank(m[q]) = 2
===============================================================================
