--------------------------------- MODULE RtMap ---------------------------------
(***************************************************************************)
(* The hash map of compiled programs: the C source that                    *)
(* src/crates/tuo-runtime/src/map.rs generates.  A table has its entries   *)
(* in the order they came, holes where entries were removed, and an index  *)
(* of slots found by open addressing with linear probing.                  *)
(*                                                                         *)
(* A call runs alone, for a map has one owner; its loops are steps of      *)
(* their own, so that what a probe or a rehome relies on half way can be   *)
(* stated.  The capacities are powers of two in the code, whose `& mask`   *)
(* is the remainder here.  Keys of both kinds behave alike; a hash is any  *)
(* function of the key.                                                    *)
(***************************************************************************)
EXTENDS Integers, Sequences, FiniteSets

CONSTANTS
  Keys, Values,
  Hash,            \* tuo_map_hash_int, tuo_map_hash_str
  InitialCapacity  \* INITIAL_CAPACITY: 8 in the code

ASSUME MapAssumption ==
  /\ InitialCapacity \in Nat \ {0}
  /\ Hash \in [Keys -> Nat]

VARIABLES
  table, \* the map's block
  len,   \* the length in the header: how many entries are live
  call,  \* the call that runs
  pc,    \* what it does
  slot,  \* its register: the index slot it looks at
  fresh, \* the block a rehome builds
  next,  \* the entry of the old block a rehome looks at
  reply  \* the call made last and its answer

vars == <<table, len, call, pc, slot, fresh, next, reply>>

(* What an index slot holds: nothing, TUO_MAP_TOMB, or the number of an    *)
(* entry.                                                                  *)
Empty == 0
Tomb  == -1

(* A block without entries.                                                *)
Block(cap) ==
  [cap     |-> cap,
   index   |-> [s \in 0..(2 * cap - 1) |-> Empty],
   entries |-> <<>>,
   live    |-> <<>>]

Used(t)     == Len(t.entries)
IndexCap(t) == 2 * t.cap
Home(t, k)  == Hash[k] % IndexCap(t)
After(t, s) == (s + 1) % IndexCap(t)

(* The entry an index slot refers to, and whether it is the one of key k.  *)
EntryAt(t, s)    == t.entries[t.index[s]]
RefersTo(t, s, k) ==
  /\ t.index[s] # Empty /\ t.index[s] # Tomb
  /\ EntryAt(t, s).key = k

(* The live entries, and the place of one among those of L.                *)
LiveSet(t) == {i \in 1..Used(t) : t.live[i]}
Rank(L, i) == Cardinality({j \in L : j <= i})

(* The live entries, packed in their order.                                *)
Packed(t) ==
  [n \in 1..Cardinality(LiveSet(t)) |->
     t.entries[CHOOSE i \in LiveSet(t) : Rank(LiveSet(t), i) = n]]

Some(v) == [some |-> TRUE, value |-> v]
None    == [some |-> FALSE]
Answer(op, k, r) == [op |-> op, key |-> k, result |-> r]
Nothing == [op |-> "none"]

Init ==
  /\ table = Block(0) /\ len = 0
  /\ call = Nothing /\ pc = "idle" /\ slot = 0
  /\ fresh = Block(0) /\ next = 1
  /\ reply = Nothing

-----------------------------------------------------------------------------
(* The end of a call.                                                      *)
Return(r) ==
  /\ reply' = r
  /\ call' = Nothing /\ pc' = "idle" /\ slot' = 0
  /\ fresh' = Block(0) /\ next' = 1

(* tuo_rt_map_*_get, _insert and _remove begin with tuo_map_find_*, which  *)
(* has nothing to do in a map that was never inserted into.  contains_key  *)
(* is a get whose value is ignored.                                        *)
Begin(c) ==
  /\ pc = "idle"
  /\ call' = c
  /\ IF table.cap = 0
     THEN pc' = "absent" /\ UNCHANGED slot
     ELSE pc' = "find" /\ slot' = Home(table, c.key)
  /\ reply' = Nothing
  /\ UNCHANGED <<table, len, fresh, next>>

Get(k)       == Begin([op |-> "get", key |-> k])
Insert(k, v) == Begin([op |-> "insert", key |-> k, value |-> v])
Remove(k)    == Begin([op |-> "remove", key |-> k])

Probe ==
  /\ pc = "find"
  /\ table.index[slot] # Empty /\ ~RefersTo(table, slot, call.key)
  /\ slot' = After(table, slot)
  /\ UNCHANGED <<table, len, call, pc, fresh, next, reply>>

(* A bug: a tombstone ends a probe as an empty slot does.                  *)
FindEndsAtTomb ==
  /\ pc = "find"
  /\ \/ table.index[slot] \in {Empty, Tomb} /\ pc' = "absent"
     \/ RefersTo(table, slot, call.key) /\ pc' = "present"
  /\ UNCHANGED <<table, len, call, slot, fresh, next, reply>>

FindEnds ==
  /\ pc = "find"
  /\ \/ table.index[slot] = Empty /\ pc' = "absent"
     \/ RefersTo(table, slot, call.key) /\ pc' = "present"
  /\ UNCHANGED <<table, len, call, slot, fresh, next, reply>>

GetEnds ==
  /\ call.op = "get"
  /\ \/ pc = "absent" /\ Return(Answer("get", call.key, None))
     \/ pc = "present" /\ Return(Answer("get", call.key, Some(EntryAt(table, slot).value)))
  /\ UNCHANGED <<table, len>>

(* An insert of a key the map has puts the value in the old one's place.   *)
Overwritten(t, i, v) ==
  [cap     |-> t.cap,
   index   |-> t.index,
   entries |-> [t.entries EXCEPT ![i] = [key |-> t.entries[i].key, value |-> v]],
   live    |-> t.live]

(* A bug: the previous value is read when it was overwritten already.      *)
OverwriteFirst ==
  /\ call.op = "insert" /\ pc = "present"
  /\ table' = Overwritten(table, table.index[slot], call.value)
  /\ Return(Answer("insert", call.key, Some(EntryAt(table', slot).value)))
  /\ UNCHANGED len

Overwrite ==
  /\ call.op = "insert" /\ pc = "present"
  /\ table' = Overwritten(table, table.index[slot], call.value)
  /\ Return(Answer("insert", call.key, Some(EntryAt(table, slot).value)))
  /\ UNCHANGED len

(* A bug: the slot is emptied, though probes for other keys pass it.       *)
RemovedEmptying(t, s) ==
  [cap     |-> t.cap,
   index   |-> [t.index EXCEPT ![s] = Empty],
   entries |-> t.entries,
   live    |-> [t.live EXCEPT ![t.index[s]] = FALSE]]

(* tuo_map_remove_at: a hole and a tombstone; nothing moves.               *)
Removed(t, s) ==
  [cap     |-> t.cap,
   index   |-> [t.index EXCEPT ![s] = Tomb],
   entries |-> t.entries,
   live    |-> [t.live EXCEPT ![t.index[s]] = FALSE]]

RemoveEnds ==
  /\ call.op = "remove"
  /\ \/ pc = "absent"
        /\ Return(Answer("remove", call.key, None))
        /\ UNCHANGED <<table, len>>
     \/ pc = "present"
        /\ table' = Removed(table, slot)
        /\ len' = len - 1
        /\ Return(Answer("remove", call.key, Some(EntryAt(table, slot).value)))

-----------------------------------------------------------------------------
(* tuo_map_append: a new entry comes after all others.  When every dense   *)
(* slot was handed out the live entries move to a new block first, of      *)
(* twice the capacity if more than half are live.                          *)
(* A bug: it never grows.                                                  *)
NewCapNeverMore == IF table.cap = 0 THEN InitialCapacity ELSE table.cap

NewCap ==
  IF table.cap = 0 THEN InitialCapacity
  ELSE IF 2 * len > table.cap THEN 2 * table.cap ELSE table.cap

StartAppend ==
  /\ call.op = "insert" /\ pc = "absent"
  /\ IF Used(table) = table.cap
     THEN pc' = "rehome" /\ fresh' = Block(NewCap) /\ next' = 1 /\ UNCHANGED slot
     ELSE pc' = "place" /\ slot' = Home(table, call.key) /\ UNCHANGED <<fresh, next>>
  /\ UNCHANGED <<table, len, call, reply>>

(* tuo_map_index_place: the first empty slot from the key's home on.       *)
PlaceProbe ==
  /\ \/ pc = "place" /\ table.index[slot] # Empty /\ slot' = After(table, slot)
     \/ pc = "pack" /\ fresh.index[slot] # Empty /\ slot' = After(fresh, slot)
  /\ UNCHANGED <<table, len, call, pc, fresh, next, reply>>

Placed(t, s, e) ==
  [cap     |-> t.cap,
   index   |-> [t.index EXCEPT ![s] = Used(t) + 1],
   entries |-> Append(t.entries, e),
   live    |-> Append(t.live, TRUE)]

AppendEnds ==
  /\ pc = "place" /\ table.index[slot] = Empty
  /\ table' = Placed(table, slot, [key |-> call.key, value |-> call.value])
  /\ len' = len + 1
  /\ Return(Answer("insert", call.key, None))

(* tuo_map_rehome, once for each entry of the old block.                   *)
SkipHole ==
  /\ pc = "rehome" /\ next <= Used(table) /\ ~table.live[next]
  /\ next' = next + 1
  /\ UNCHANGED <<table, len, call, pc, slot, fresh, reply>>

Pack ==
  /\ pc = "rehome" /\ next <= Used(table) /\ table.live[next]
  /\ pc' = "pack" /\ slot' = Home(fresh, table.entries[next].key)
  /\ UNCHANGED <<table, len, call, fresh, next, reply>>

PackEnds ==
  /\ pc = "pack" /\ fresh.index[slot] = Empty
  /\ fresh' = Placed(fresh, slot, table.entries[next])
  /\ next' = next + 1 /\ pc' = "rehome"
  /\ UNCHANGED <<table, len, call, slot, reply>>

RehomeEnds ==
  /\ pc = "rehome" /\ next > Used(table)
  /\ table' = fresh
  /\ pc' = "place" /\ slot' = Home(fresh, call.key)
  /\ UNCHANGED <<len, call, fresh, next, reply>>

-----------------------------------------------------------------------------
(* tuo_rt_map_*_keys, and the length, which is read from the header.       *)
KeysOf ==
  /\ pc = "idle"
  /\ Return([op |-> "keys", result |-> [i \in DOMAIN Packed(table) |-> Packed(table)[i].key]])
  /\ UNCHANGED <<table, len>>

LenOf ==
  /\ pc = "idle"
  /\ Return([op |-> "len", result |-> len])
  /\ UNCHANGED <<table, len>>

(* tuo_rt_map_drop of the old value, and the sentinel header of a new one. *)
MapEmpty ==
  /\ pc = "idle"
  /\ table' = Block(0) /\ len' = 0
  /\ Return(Nothing)

Calls ==
  \/ KeysOf \/ LenOf \/ MapEmpty
  \/ \E k \in Keys :
       \/ Get(k) \/ Remove(k)
       \/ \E v \in Values : Insert(k, v)

Steps ==
  \/ Probe \/ FindEnds \/ GetEnds \/ Overwrite \/ RemoveEnds
  \/ StartAppend \/ PlaceProbe \/ AppendEnds
  \/ SkipHole \/ Pack \/ PackEnds \/ RehomeEnds

Next == Calls \/ Steps

Spec == Init /\ [][Next]_vars /\ WF_vars(Steps)

-----------------------------------------------------------------------------
(* How far slot s is from slot h when one walks as a probe does.           *)
Distance(t, h, s) == IF s >= h THEN s - h ELSE s - h + IndexCap(t)

(* No slot that a probe for k passes before s is empty.                    *)
Reaches(t, k, s) ==
  \A x \in DOMAIN t.index :
    Distance(t, Home(t, k), x) < Distance(t, Home(t, k), s) => t.index[x] # Empty

Shaped(t) ==
  /\ t.cap \in Nat /\ Used(t) <= t.cap
  /\ DOMAIN t.index = 0..(IndexCap(t) - 1)
  /\ DOMAIN t.live = 1..Used(t)

(* The index refers to live entries, each once, from where a probe comes.  *)
Refers(t) ==
  /\ \A s \in DOMAIN t.index :
       /\ t.index[s] \in {Empty, Tomb} \cup 1..Used(t)
       /\ t.index[s] > 0 => t.live[t.index[s]] /\ Reaches(t, EntryAt(t, s).key, s)
  /\ \A i \in 1..Used(t) : t.live[i] => \E s \in DOMAIN t.index : t.index[s] = i
  /\ \A s, x \in DOMAIN t.index : t.index[s] > 0 /\ t.index[s] = t.index[x] => s = x

KeysDiffer(t) ==
  \A i, j \in 1..Used(t) :
    t.live[i] /\ t.live[j] /\ t.entries[i].key = t.entries[j].key => i = j

Taken(t) == {s \in DOMAIN t.index : t.index[s] # Empty}
Roomy(t) == Cardinality(Taken(t)) <= Used(t)

WellFormed(t) == Shaped(t) /\ Refers(t) /\ KeysDiffer(t) /\ Roomy(t)

(***************************************************************************)
(* What makes the table work: the index refers to each live entry once,    *)
(* from a slot that a probe for its key reaches, and to no hole; no two    *)
(* live entries have one key; no more slots are taken than entries were    *)
(* handed out, which is why "every probe reaches an empty slot"; and the   *)
(* length in the header, on which growth and keys rely, is how many live.  *)
(***************************************************************************)
TableWellFormed == WellFormed(table) /\ len = Cardinality(LiveSet(table))

(***************************************************************************)
(* A find is right: it ends at the live entry of the key, or there is none.*)
(***************************************************************************)
FindsAreRight ==
  /\ pc = "present" => RefersTo(table, slot, call.key) /\ table.live[table.index[slot]]
  /\ pc = "absent" =>
       \A i \in 1..Used(table) : table.live[i] => table.entries[i].key # call.key

(* The table behaves as the association list of the interpreter.           *)
Map == INSTANCE OrderedMap WITH list <- Packed(table)

ImplementsOrderedMap == Map!Spec

(* Every call returns: probes and rehomes end.                             *)
CallsReturn == (pc # "idle") ~> (pc = "idle")
===============================================================================
