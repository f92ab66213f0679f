-------------------------------- MODULE NativeCode --------------------------------
(***************************************************************************)
(* The machine code that src/crates/tuo-codegen-cranelift/src/lower.rs     *)
(* makes of a function of the MIR: what its instructions do to stack slots *)
(* and to the heap, one statement or terminator at a time.                 *)
(*                                                                         *)
(* Nothing is checked when it runs.  A move is a memcpy that leaves its    *)
(* source as it was, a drop frees a buffer and leaves the header that      *)
(* points to it, a lent place is an address, and a slot holds whatever was *)
(* last stored there.                                                      *)
(*                                                                         *)
(* The stack is a sequence of frames, the entry first; an address is       *)
(* <<frame, local>> or <<frame, local, field>>.  Strings have a text, so   *)
(* their capacity is not 0.                                                *)
(***************************************************************************)
EXTENDS Mir, FiniteSets, FiniteSetsExt, SequencesExt

CONSTANT Budget     \* bound: the statements and terminators executed

VARIABLES program,  \* the functions by name, among them main
          stack,    \* the frames, the entry first
          heap,     \* heap[id]: how often the buffer id has been freed
          budget,   \* what is left of Budget
          exit      \* <<>>, or how the process ended

process == <<stack, heap, budget, exit>>

-----------------------------------------------------------------------------
(* What a slot holds: a number, the header of a string or of a view, which *)
(* points to a buffer, a pair of headers, or bytes nobody wrote.           *)
Num(n)      == [k |-> "int", n |-> n]
Header(id)  == [k |-> "own", id |-> id]
Fat(id)     == [k |-> "view", id |-> id]
Pair(parts) == [k |-> "pair", parts |-> parts]
Unit        == [k |-> "unit"]
Junk        == [k |-> "junk"]

FnOf(name) == program[name]

(* run: a scalar is a variable seeded with zero, or a slot of its own if   *)
(* its address is taken; every other local is a slot; unit is nothing.     *)
BorrowedRoots(f) ==
  UNION {RootsOf(SeqSet(LentTo(s))) :
           s \in {t \in UNION {SeqSet(f.blocks[b].statements) : b \in DOMAIN f.blocks} :
                    t.k = "call"}}

Seeded(f, l) ==
  CASE f.locals[l] = "unit" -> Unit
    [] f.locals[l] \in {"int", "bool"} /\ l \notin BorrowedRoots(f) -> Num(0)
    [] f.locals[l] = "pair" -> Pair(<<Junk, Junk>>)
    [] OTHER -> Junk

(* The prologue: a parameter that is taken is copied into a slot of the    *)
(* callee, one that is lent stays the address it came as.                  *)
Activation(name, args, dest) ==
  LET f == FnOf(name)
  IN  [fn |-> name, block |-> 1, next |-> 1, dest |-> dest,
       refs  |-> [l \in {i \in DOMAIN f.params : f.params[i] # "take"} |-> args[l]],
       slots |-> [l \in DOMAIN f.locals |->
                    IF l \in DOMAIN f.params /\ f.params[l] = "take" /\ f.locals[l] # "unit"
                    THEN args[l] ELSE Seeded(f, l)]]

Depth      == Len(stack)
Top        == stack[Depth]
Here       == FnOf(Top.fn).blocks[Top.block]
Live       == exit = <<>> /\ stack # <<>>
AtStatement  == Live /\ Top.next \in DOMAIN Here.statements
AtTerminator == Live /\ Top.next = Len(Here.statements) + 1
Statement  == Here.statements[Top.next]
Terminator == Here.terminator
TypeAt(p)  == PlaceTy(FnOf(Top.fn).locals[p[1]], p)

-----------------------------------------------------------------------------
(* place_address: from the slot of a local, or from the address that a     *)
(* lent parameter holds.                                                   *)
PlaceAddress(p) ==
  (IF p[1] \in DOMAIN Top.refs THEN Top.refs[p[1]] ELSE <<Depth, p[1]>>) \o Tail(p)

(* read_place, write_place, emit_memcpy.  Nothing is stored in unit.       *)
At(mem, a) ==
  IF Len(a) = 2 THEN mem[a[1]].slots[a[2]] ELSE mem[a[1]].slots[a[2]].parts[a[3]]

Stored(mem, a, v) ==
  CASE mem[a[1]].slots[a[2]] = Unit -> mem
    [] Len(a) = 2 -> [mem EXCEPT ![a[1]].slots[a[2]] = v]
    [] OTHER      -> [mem EXCEPT ![a[1]].slots[a[2]].parts[a[3]] = v]

(* lower_operand, operand_aggregate_address: copied or moved, the bytes    *)
(* are read and stay.                                                      *)
Loaded(mem, op) == IF op.k = "const" THEN Num(op.value) ELSE At(mem, PlaceAddress(op.place))

(* lower_aggregate: the fields are stored into the destination one by one. *)
StoreFields(mem, a, ops) ==
  FoldLeft(LAMBDA s, i : Stored(s, Append(a, i), Loaded(s, ops[i])), mem, [i \in DOMAIN ops |-> i])

(* The stack after the statement, control behind it.                       *)
Advance(mem)  == [mem EXCEPT ![Depth].next = @ + 1]
Put(a, v)     == stack' = Advance(Stored(stack, a, v))
ExitWith(end) == exit' = end /\ stack' = <<>>
Spend         == budget > 0 /\ budget' = budget - 1

-----------------------------------------------------------------------------
(* A bug: the result wraps around.                                         *)
TrapsNever(a, b) == FALSE

(* checked_arith: its guard.                                               *)
TrapsOnAdd(a, b) == a + b > MaxInt

(* lower_assign.  A view is the pointer of the string's header; its length *)
(* is in it.                                                               *)
ExecAssign ==
  /\ AtStatement /\ Statement.k = "assign"
  /\ Spend
  /\ LET rv   == Statement.rvalue
         dest == PlaceAddress(Statement.place)
         val(i) == Loaded(stack, rv.ops[i])
         lent == At(stack, PlaceAddress(rv.lent[1]))
     IN  \/ /\ rv.op = "use"
            /\ Put(dest, val(1))
            /\ UNCHANGED <<heap, exit>>
         \/ /\ rv.op = "add" /\ ~TrapsOnAdd(val(1).n, val(2).n)
            /\ Put(dest, Num((val(1).n + val(2).n) % (MaxInt + 1)))
            /\ UNCHANGED <<heap, exit>>
         \/ /\ rv.op = "add" /\ TrapsOnAdd(val(1).n, val(2).n)
            /\ ExitWith(<<"overflow">>)
            /\ UNCHANGED heap
         \/ /\ rv.op = "lt"
            /\ Put(dest, Num(IF val(1).n < val(2).n THEN 1 ELSE 0))
            /\ UNCHANGED <<heap, exit>>
         \/ /\ rv.op = "aggregate"
            /\ stack' = Advance(StoreFields(stack, dest, rv.ops))
            /\ UNCHANGED <<heap, exit>>
         \/ /\ rv.op = "string"
            /\ Put(dest, Header(Len(heap) + 1))
            /\ heap' = Append(heap, 0)
            /\ UNCHANGED exit
         \/ /\ rv.op = "as_str"
            /\ Put(dest, IF lent = Junk THEN Junk ELSE Fat(lent.id))
            /\ UNCHANGED <<heap, exit>>
         \/ /\ rv.op = "len"
            /\ Put(dest, Num(1))
            /\ UNCHANGED <<heap, exit>>
  /\ UNCHANGED program

(* A bug: the glue of a struct visits its first field only.                *)
FirstHeapPart(ty, a) == IF ty = "pair" THEN <<Append(a, 1)>> ELSE <<a>>

(* heap_struct_fields: where the headers are in a value of that type.      *)
HeapParts(ty, a) ==
  IF ty = "pair" THEN [i \in DOMAIN FieldsOf(ty) |-> Append(a, i)] ELSE <<a>>

(* lower_drop, emit_heap_glue, emit_buffer_free: every header in the value *)
(* has its buffer freed, and stays.                                        *)
ExecDrop ==
  /\ AtStatement /\ Statement.k = "drop"
  /\ Spend
  /\ LET parts == HeapParts(TypeAt(Statement.place), PlaceAddress(Statement.place))
         headers == [i \in DOMAIN parts |-> At(stack, parts[i])]
     IN  \/ /\ Junk \notin SeqSet(headers)
            /\ heap' = [id \in DOMAIN heap |->
                          heap[id] + Cardinality({i \in DOMAIN headers : headers[i].id = id})]
            /\ stack' = Advance(stack)
            /\ UNCHANGED exit
         \/ /\ Junk \in SeqSet(headers)
            /\ ExitWith(<<"wild">>)
            /\ UNCHANGED heap
  /\ UNCHANGED program

(* borrow_address: a lent place is passed as its address.                  *)
BorrowAddress(p) == PlaceAddress(p)

(* lower_call: a value that is taken is read before the call.              *)
Passed(a) == IF a.mode = "take" THEN Loaded(stack, a.op) ELSE BorrowAddress(a.place)

ExecCall ==
  /\ AtStatement /\ Statement.k = "call"
  /\ Spend
  /\ LET args == [i \in DOMAIN Statement.args |-> Passed(Statement.args[i])]
     IN  stack' = Append(Advance(stack),
                         Activation(Statement.fn, args, PlaceAddress(Statement.place)))
  /\ UNCHANGED <<program, heap, exit>>

JumpTo(i) == stack' = [stack EXCEPT ![Depth].block = Terminator.targets[i], ![Depth].next = 1]

ExecJump ==
  /\ AtTerminator
  /\ Spend
  /\ \/ Terminator.k = "goto" /\ JumpTo(1)
     \/ Terminator.k = "branch" /\ JumpTo(IF Loaded(stack, Terminator.op).n # 0 THEN 1 ELSE 2)
  /\ UNCHANGED <<program, heap, exit>>

(* The result goes to where the caller wants it; that of main is the exit  *)
(* status.                                                                 *)
ExecReturn ==
  /\ AtTerminator /\ Terminator.k = "return"
  /\ Spend
  /\ LET v == Loaded(stack, Terminator.op)
     IN  \/ Depth > 1 /\ stack' = Stored(Front(stack), Top.dest, v) /\ UNCHANGED exit
         \/ Depth = 1 /\ ExitWith(<<"value", v>>)
  /\ UNCHANGED <<program, heap>>

ExecTrap ==
  /\ AtTerminator /\ Terminator.k = "trap"
  /\ Spend
  /\ ExitWith(<<"unreachable">>)
  /\ UNCHANGED <<program, heap>>

OutOfBudget ==
  /\ Live
  /\ budget = 0
  /\ ExitWith(<<"out of fuel">>)
  /\ UNCHANGED <<program, heap, budget>>

Step == ExecAssign \/ ExecDrop \/ ExecCall \/ ExecJump \/ ExecReturn \/ ExecTrap \/ OutOfBudget

(* emit_main_shim: the entry is called, with the input as its argument.    *)
Start(input) ==
  /\ stack' = <<Activation("main", <<Num(input)>>, <<>>)>>
  /\ heap' = <<>> /\ budget' = Budget /\ exit' = <<>>
===============================================================================
