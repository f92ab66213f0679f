------------------------------- MODULE MCCompiler -------------------------------
(* The compiler on small programs: each is a prologue that declares some   *)
(* variables, one compound statement made of simple ones, and one simple   *)
(* statement after it.                                                     *)
EXTENDS Compiler

MCTypes ==
  [x \in {"s", "t", "x", "y", "k1", "k2", "k3", "k4", "k5", "k6", "k7"} |-> "own"]
    @@ [x \in {"p", "q"} |-> "pair"] @@ [x \in {"n", "i", "m", "k8", "k9"} |-> "int"]
    @@ [x \in {"v", "w"} |-> "view"]

Sig(modes, ret) == [modes |-> modes, ret |-> ret]
MCSigs ==
  [new |-> Sig(<<>>, "own"), as_str |-> Sig(<<"in">>, "view"), len |-> Sig(<<"take">>, "int"),
   consume |-> Sig(<<"take">>, "unit"), keep |-> Sig(<<"take">>, "own"),
   peek |-> Sig(<<"in">>, "int"), swap |-> Sig(<<"mut">>, "unit"),
   mixed |-> Sig(<<"in", "take">>, "unit"), eat |-> Sig(<<"take">>, "bool"),
   bump |-> Sig(<<"mut">>, "int"), reset |-> Sig(<<"mut">>, "unit")]

New         == Call("new", <<>>)
Consume(e)  == Call("consume", <<e>>)
SwapIn(p)   == Call("swap", <<Path(p)>>)
View1(x)    == Call("as_str", <<Var(x)>>)
LenOf(x)    == Call("len", <<Var(x)>>)
Left        == <<"p", 1>>
Right       == <<"p", 2>>

MCLibrary ==
  [consume |-> Fn(<<Param("k1", "take")>>, "unit", Block(<<>>)),
   keep    |-> Fn(<<Param("k2", "take")>>, "own", BlockOf(<<>>, Var("k2"))),
   peek    |-> Fn(<<Param("k3", "in")>>, "int",
                  BlockOf(<<>>, Call("len", <<View1("k3")>>))),
   swap    |-> Fn(<<Param("k4", "mut")>>, "unit", Block(<<Assign(<<"k4">>, New)>>)),
   mixed   |-> Fn(<<Param("k5", "in"), Param("k6", "take")>>, "unit", Block(<<>>)),
   eat     |-> Fn(<<Param("k7", "take")>>, "bool", BlockOf(<<>>, Lit(1))),
   bump    |-> Fn(<<Param("k8", "mut")>>, "int",
                  BlockOf(<<Assign(<<"k8">>, Bin(Var("k8"), Lit(1)))>>, Var("k8"))),
   reset   |-> Fn(<<Param("k9", "mut")>>, "unit", Block(<<Assign(<<"k9">>, Lit(0))>>))]

-----------------------------------------------------------------------------
Main(stmts, tail) == Fn(<<Param("i", "take")>>, "int", BlockOf(stmts, tail))
Zero    == Lt(Var("i"), Lit(1))
Count   == Assign(<<"n">>, Bin(Var("n"), Lit(1)))
Again   == Lt(Var("n"), Var("i"))
Last2   == Lt(Lit(1), Var("n"))

(* The compound statements over simple ones.                               *)
Ifs(A)    == {If(Zero, Block(<<a>>), Block(<<b>>)) : a, b \in A}
              \cup {If(Zero, Block(<<a>>), None) : a \in A}
Whiles(A) == {While(Again, Block(<<Count, a, b>>)) : a, b \in A}
Loops(A)  == {Loop(Block(<<Count, If(Last2, Block(<<a, Break>>), None), b>>)) : a, b \in A}
Shapes(A, InLoops) == Ifs(A) \cup Whiles(InLoops) \cup Loops(InLoops)

Family(prologue, compounds, afters) ==
  {Main(prologue \o <<c, a>>, Var("n")) : c \in compounds, a \in afters}

Counter == Mut("n", Lit(0))
Strings == <<Counter, Mut("s", New), Let("t", None)>>
Owning  == {Consume(Var("s")), Assign(<<"s">>, New), Assign(<<"t">>, New), SwapIn(<<"s">>)}
Leaving == {Return(Lit(1)), Consume(Var("t")),
            Block(<<Assign(<<"t">>, New), Consume(Var("t"))>>)}
Exits   == {Return(Lit(1)), Break, Continue}

(* A string that is moved, made again, and left early.                     *)
OwnedPrograms == Family(Strings, Shapes(Owning \cup Leaving, Owning \cup Exits), Owning)

(* A string that is gone when the compound statement is reached.           *)
RebornPrograms ==
  Family(Append(Strings, Consume(Var("s"))), Shapes(Owning, Owning \cup Exits), Owning)

(* A pair whose parts are moved and made one by one.                       *)
Pairs   == <<Counter, Mut("p", MkPair(New, New)), Mut("s", New)>>
Parts   == {Consume(Path(Left)), Assign(Left, New), Assign(<<"p">>, MkPair(New, New)),
            Assign(<<"s">>, Path(Left)), Call("keep", <<Path(Right)>>)}
PairPrograms ==
  Family(Pairs, Shapes(Parts \cup {Return(Lit(1))}, Parts \cup Exits),
         {Consume(Path(Right)), Assign(<<"p">>, MkPair(Path(Right), New)), Assign(Left, New)})

(* A branch, or another loop, in a loop.                                   *)
Inner(A) == {If(Last2, Block(<<a>>), Block(<<b>>)) : a, b \in A}
            \cup {Loop(Block(<<a, If(Zero, Block(<<Break>>), None), b>>)) : a, b \in A}
DeepPrograms ==
  Family(Strings,
         {While(Again, Block(<<Count, c, a>>)) :
            c \in Inner(Owning \cup Exits), a \in {Assign(<<"s">>, New), Consume(Var("s"))}}
           \cup {Loop(Block(<<Count, c, Break>>)) : c \in Inner(Owning \cup Exits)},
         {Consume(Var("s")), Assign(<<"s">>, New)})

(* A view of a string, in a scope of its own.                              *)
Views      == Append(Strings, Let("v", View1("s")))
Disturbing == Owning \cup {LenOf("v"), Call("peek", <<Var("s")>>)}
Scoped(a)  == Block(<<Let("w", View1("s")), a, LenOf("w")>>)
ViewPrograms ==
  Family(Views, Shapes(Disturbing, Disturbing), {LenOf("v")})
    \cup Family(Strings, {Scoped(a) : a \in Disturbing \ {LenOf("v")}} \cup Shapes({Scoped(Count)}, Owning), Owning)

(* Values chosen by a branch, tested by && and left for in the middle of   *)
(* an operand list.                                                        *)
Chosen(x) == {New, Var("s"), Call("keep", <<Var("s")>>), BlockOf(<<Return(Lit(1))>>, New),
              BlockOf(<<Let(x, Var("s"))>>, Move(Var(x)))}
Choice(a, b) == If(Zero, BlockOf(<<>>, a), BlockOf(<<>>, b))
ValuePrograms ==
  {Main(Strings \o <<Assign(<<z>>, Choice(a, b)), e>>, Var("n")) :
     z \in {"s", "t"}, a \in Chosen("x"), b \in Chosen("y"), e \in {Consume(Var("t")), Consume(Var("s"))}}
    \cup {Main(Pairs \o <<Let("q", MkPair(a, b))>>, Var("n")) : a \in Chosen("x"), b \in Chosen("y")}
    \cup {Main(Strings \o <<If(And(Zero, Again), Block(<<a>>), Block(<<b>>)), Consume(Var("s"))>>, Var("n")) :
             a, b \in Owning}

(* Constants: a sum that is too long for the optimiser, one that is too    *)
(* large for the type, one that nobody reads; and a copy of a variable     *)
(* that changes.                                                           *)
RECURSIVE Sum(_, _)
Sum(n, k) == IF k = 1 THEN Lit(n) ELSE Bin(Sum(n, k - 1), Lit(n))
Copied(first, second) == Block(<<Let("m", Var("n")), first, Assign(<<"n">>, Bin(Var("m"), second))>>)
SumPrograms ==
  {Main(<<Mut("n", Sum(k[1], k[2]))>>, Var("n")) : k \in {<<0, 9>>, <<0, 10>>, <<1, 10>>, <<3, 3>>}}
    \cup {Main(<<Mut("n", Lit(1)), Let("m", Sum(3, 4))>>, Var("n"))}
    \cup {Main(<<Counter, c, Count>>, Var("n")) :
             c \in UNION {{Copied(Count, e), While(Again, Copied(Count, e))} :
                            e \in {Lit(1), Var("n"), Var("i")}}}

(* A number that is lent to be written, read before and after.             *)
Bump    == Call("bump", <<Var("n")>>)
Reset   == Call("reset", <<Var("n")>>)
Terms   == {Var("n"), Var("i"), Lit(1), Bump, BlockOf(<<Reset>>, Var("n"))}
LentPrograms ==
  {Main(<<Mut("n", Lit(2)), a, Assign(<<"n">>, Bin(x, y))>>, Var("n")) :
     a \in {Reset, Let("m", Bump), While(Lt(Bump, Lit(5)), Block(<<>>)),
            If(Zero, Block(<<Reset>>), Block(<<Bump>>))}, x, y \in Terms}

(* The shapes the checker accepts and the later stages do not (see         *)
(* AcceptedBuilds and UntrackedView).                                      *)
Refill(p) == BlockOf(<<Assign(p, New)>>, New)
GapPrograms ==
  {Main(Strings \o <<If(And(Zero, Call("eat", <<Var("s")>>)), Block(<<Count>>), None)>>, Var("n")),
   Main(Pairs \o <<Call("mixed", <<Path(Right), Path(Left)>>)>>, Var("n")),
   Main(Pairs \o <<Let("q", MkPair(Path(Left), Refill(Left)))>>, Var("n")),
   Main(Pairs \o <<Let("q", MkPair(Var("s"), Refill(<<"s">>)))>>, Var("n")),
   Main(Strings \o <<Mut("w", View1("s")), If(Zero, Block(<<Assign(<<"w">>, View1("s"))>>), None),
                     Assign(<<"s">>, New), LenOf("w")>>, Var("n"))}

MCPrograms == OwnedPrograms \cup RebornPrograms \cup PairPrograms \cup DeepPrograms \cup ViewPrograms
                \cup ValuePrograms \cup LentPrograms \cup SumPrograms \cup GapPrograms
=============================================================================
