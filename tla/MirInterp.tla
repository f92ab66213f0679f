-------------------------------- MODULE MirInterp --------------------------------
(***************************************************************************)
(* The MIR interpreter, src/crates/tuo-mir-interp/src/interp.rs: the       *)
(* reference semantics of a verified program, one statement or terminator  *)
(* at a time.                                                              *)
(*                                                                         *)
(* Values carry what the ownership rules are about: every string made has  *)
(* an identity, a view names the string it shows, and freed counts the     *)
(* drops of each string.  (The interpreter copies bytes, compiled code     *)
(* frees and borrows the buffer: freed is where the two would differ.)     *)
(* The live-value budget and the depth limit are left out.                 *)
(***************************************************************************)
EXTENDS Mir, FiniteSetsExt, SequencesExt, TLC

CONSTANT Fuel       \* the statements and terminators a run may execute

VARIABLES program,  \* the functions by name, among them main
          frames,   \* the call stack, innermost first
          freed,    \* freed[id]: how often the string id has been dropped
          fuel,     \* what is left of Fuel
          outcome   \* << >>, or how the run ended: <<"value", v>> or <<trap>>

machine == <<frames, freed, fuel, outcome>>

-----------------------------------------------------------------------------
(* Values, and slots without one.                                          *)
Num(n)      == [k |-> "int", n |-> n]
Unit        == [k |-> "unit"]
Str(id)     == [k |-> "own", id |-> id]
View(id)    == [k |-> "view", id |-> id]
Pair(parts) == [k |-> "pair", parts |-> parts]
Uninit      == [k |-> "uninit"]

(* The strings that a value owns.                                          *)
Owned(v) ==
  CASE v.k = "own"  -> {v.id}
    [] v.k = "pair" -> {v.parts[i].id : i \in {j \in DOMAIN v.parts : v.parts[j].k = "own"}}
    [] OTHER        -> {}

FnOf(name) == program[name]

(* Locals and Machine::call: parameters first, the rest uninitialised.     *)
NewFrame(name, args, dest, back) ==
  [fn |-> name, block |-> 1, next |-> 1, dest |-> dest, back |-> back,
   slots |-> [l \in DOMAIN FnOf(name).locals |-> IF l \in DOMAIN args THEN args[l] ELSE Uninit]]

Top      == Head(frames)
Here     == FnOf(Top.fn).blocks[Top.block]
AtStatement == outcome = <<>> /\ frames # <<>> /\ Top.next \in DOMAIN Here.statements
AtTerminator == outcome = <<>> /\ frames # <<>> /\ Top.next = Len(Here.statements) + 1
Statement  == Here.statements[Top.next]
Terminator == Here.terminator

-----------------------------------------------------------------------------
(* read_place_copying and project; a husk left by a move has no fields.    *)
Readable(slots, p) ==
  /\ slots[p[1]].k # "uninit"
  /\ IsRoot(p) \/ slots[p[1]].k = "pair"
ValueAt(slots, p) == IF IsRoot(p) THEN slots[p[1]] ELSE slots[p[1]].parts[p[2]]

(* write_place: into a slot, or into a field of what the slot holds.       *)
Writable(slots, p) == IsRoot(p) \/ slots[p[1]].k = "pair"
Write(slots, p, v) ==
  IF IsRoot(p) THEN [slots EXCEPT ![p[1]] = v] ELSE [slots EXCEPT ![p[1]].parts[p[2]] = v]

(* read_place_moving: a moved local is uninitialised, a moved field a husk.*)
Take(slots, p) ==
  IF IsRoot(p) THEN [slots EXCEPT ![p[1]] = Uninit] ELSE Write(slots, p, Unit)

(* eval_operand, for operands from left to right.                          *)
EvalOperand(r, op) ==
  CASE op.k = "const" -> [r EXCEPT !.values = Append(@, Num(op.value))]
    [] op.k # "const" /\ ~Readable(r.slots, op.place) -> [r EXCEPT !.ok = FALSE]
    [] OTHER -> [r EXCEPT !.values = Append(@, ValueAt(r.slots, op.place)),
                          !.slots = IF op.k = "move" THEN Take(@, op.place) ELSE @]

Eval(slots, ops) ==
  FoldLeft(LAMBDA r, op : IF r.ok THEN EvalOperand(r, op) ELSE r,
           [slots |-> slots, values |-> <<>>, ok |-> TRUE], ops)

-----------------------------------------------------------------------------
(* A step costs one unit of fuel.  A run that is stopped unwinds: its      *)
(* frames are gone.                                                        *)
Spend == fuel > 0 /\ fuel' = fuel - 1
StopWith(end) == outcome' = end /\ frames' = <<>>
SetTop(frame) == frames' = <<frame>> \o Tail(frames) /\ UNCHANGED outcome
Internal == StopWith(<<"internal">>) /\ UNCHANGED freed

OutOfFuel ==
  /\ AtStatement \/ AtTerminator
  /\ fuel = 0
  /\ StopWith(<<"out of fuel">>)
  /\ UNCHANGED <<program, freed, fuel>>

(* eval_rvalue: the value made of the operands.                            *)
Result(rv, values, slots) ==
  CASE rv.op = "use"       -> values[1]
    [] rv.op = "add"       -> Num(values[1].n + values[2].n)
    [] rv.op = "lt"        -> Num(IF values[1].n < values[2].n THEN 1 ELSE 0)
    [] rv.op = "aggregate" -> Pair(values)
    [] rv.op = "string"    -> Str(Len(freed) + 1)
    [] rv.op = "as_str"    -> View(ValueAt(slots, rv.lent[1]).id)
    [] rv.op = "len"       -> Num(1)

ExecAssign ==
  /\ AtStatement /\ Statement.k = "assign"
  /\ Spend
  /\ LET rv == Statement.rvalue
         r  == Eval(Top.slots, rv.ops)
         lent == \A i \in DOMAIN rv.lent : Readable(Top.slots, rv.lent[i])
     IN  \/ /\ r.ok /\ lent /\ Writable(r.slots, Statement.place)
            /\ \/ /\ rv.op = "add" /\ r.values[1].n + r.values[2].n > MaxInt
                  /\ StopWith(<<"overflow">>)
                  /\ UNCHANGED freed
               \/ /\ rv.op = "add" => r.values[1].n + r.values[2].n <= MaxInt
                  /\ SetTop([Top EXCEPT !.next = @ + 1,
                       !.slots = Write(r.slots, Statement.place, Result(rv, r.values, r.slots))])
                  /\ freed' = IF rv.op = "string" THEN Append(freed, 0) ELSE freed
         \/ /\ ~(r.ok /\ lent /\ Writable(r.slots, Statement.place))
            /\ Internal
  /\ UNCHANGED program

(* Drop: the place is read out, and what it owned is freed.                *)
ExecDrop ==
  /\ AtStatement /\ Statement.k = "drop"
  /\ Spend
  /\ \/ /\ Readable(Top.slots, Statement.place)
        /\ SetTop([Top EXCEPT !.next = @ + 1, !.slots = Take(@, Statement.place)])
        /\ freed' = [id \in DOMAIN freed |->
             IF id \in Owned(ValueAt(Top.slots, Statement.place)) THEN freed[id] + 1 ELSE freed[id]]
     \/ /\ ~Readable(Top.slots, Statement.place)
        /\ Internal
  /\ UNCHANGED program

(* exec_call: arguments are passed as values, a lent place as a copy of    *)
(* what it holds; where an argument is mut its place is kept for the way   *)
(* back.  An argument evaluates as an operand: a lent place is copied.     *)
AsOperand(a) == IF a.mode = "take" THEN a.op ELSE CopyOf(a.place)

ExecCall ==
  /\ AtStatement /\ Statement.k = "call"
  /\ Spend
  /\ LET args == Statement.args
         r    == Eval(Top.slots, [i \in DOMAIN args |-> AsOperand(args[i])])
         back == [i \in DOMAIN args |-> IF args[i].mode = "mut" THEN <<args[i].place>> ELSE <<>>]
     IN  \/ /\ r.ok
            /\ frames' = <<NewFrame(Statement.fn, r.values, Statement.place, back),
                           [Top EXCEPT !.next = @ + 1, !.slots = r.slots]>> \o Tail(frames)
            /\ UNCHANGED <<freed, outcome>>
         \/ ~r.ok /\ Internal
  /\ UNCHANGED program

ExecGoto ==
  /\ AtTerminator /\ Terminator.k = "goto"
  /\ Spend
  /\ SetTop([Top EXCEPT !.block = Terminator.targets[1], !.next = 1])
  /\ UNCHANGED <<program, freed>>

ExecBranch ==
  /\ AtTerminator /\ Terminator.k = "branch"
  /\ Spend
  /\ LET r == Eval(Top.slots, <<Terminator.op>>)
     IN  \/ /\ r.ok
            /\ SetTop([Top EXCEPT !.next = 1,
                 !.block = Terminator.targets[IF r.values[1].n = 1 THEN 1 ELSE 2]])
            /\ UNCHANGED freed
         \/ ~r.ok /\ Internal
  /\ UNCHANGED program

(* The parameters of a callee that go back to their places: its final      *)
(* slots, or unit where it moved the value away.                           *)
Final(slots, i) == IF slots[i].k = "uninit" THEN Unit ELSE slots[i]

WriteBack(slots, callee, i) ==
  IF callee.back[i] = <<>> THEN slots ELSE Write(slots, callee.back[i][1], Final(callee.slots, i))

Returned(caller, callee, value) ==
  LET written == FoldLeft(LAMBDA s, i : WriteBack(s, callee, i),
                          caller.slots, [i \in DOMAIN callee.back |-> i])
  IN  [caller EXCEPT !.slots = Write(written, callee.dest, value)]

ExecReturn ==
  /\ AtTerminator /\ Terminator.k = "return"
  /\ Spend
  /\ LET r == Eval(Top.slots, <<Terminator.op>>)
     IN  \/ /\ r.ok /\ Len(frames) > 1
            /\ frames' = <<Returned(frames[2], [Top EXCEPT !.slots = r.slots], r.values[1])>> \o Tail(Tail(frames))
            /\ UNCHANGED <<freed, outcome>>
         \/ r.ok /\ Len(frames) = 1 /\ StopWith(<<"value", r.values[1]>>) /\ UNCHANGED freed
         \/ ~r.ok /\ Internal
  /\ UNCHANGED program

ExecTrap ==
  /\ AtTerminator /\ Terminator.k = "trap"
  /\ Spend
  /\ StopWith(<<"unreachable">>)
  /\ UNCHANGED <<program, freed>>

Step ==
  \/ ExecAssign \/ ExecDrop \/ ExecCall \/ ExecGoto \/ ExecBranch \/ ExecReturn
  \/ ExecTrap \/ OutOfFuel
===============================================================================
