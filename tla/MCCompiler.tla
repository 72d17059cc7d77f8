---------------------------- MODULE MCCompiler -----------------------------
(* Small programs for TLC: every way to nest the operators and statements  *)
(* to a bounded depth, within a few fixed frames.                          *)
EXTENDS Compiler

Int_(v) == [op |-> "LIT_INTEGER", value |-> v]
True == [op |-> "LIT_BOOL", value |-> 1]
False == [op |-> "LIT_BOOL", value |-> 0]
Text_(n) == [op |-> "LIT_STR", value |-> n]
Var(x) == [op |-> "IDENT", name |-> x, bool |-> FALSE]
BoolVar(x) == [op |-> "IDENT", name |-> x, bool |-> TRUE]
Bin(op, l, sign, r) == [op |-> op, left |-> l, sign |-> sign, right |-> r]
Arith(l, sign, r) == Bin("arith", l, sign, r)
Rel(l, sign, r) == Bin("beq", l, sign, r)
Or(l, r) == [op |-> "bor", left |-> l, right |-> r]
And(l, r) == [op |-> "ban", left |-> l, right |-> r]
Not(e) == [op |-> "bno", right |-> e]
Paren(e) == [op |-> "fac", right |-> e]
Func(f, args) == [op |-> "func", name |-> f, args |-> args]

Float_(v) == [op |-> "LIT_FLOAT", value |-> v]
Array_(items) == [op |-> "array", items |-> items]
Ints(values) == Array_([n \in DOMAIN values |-> Int_(values[n])])
Item(x, i) == [op |-> "array_index", name |-> x, index |-> i]

LetAs(type, x, e) == [op |-> "assign_stm", name |-> x, type |-> type, value |-> e]
Let(x, e) == LetAs("I64", x, e)
LetFloat(x, e) == LetAs("F64", x, e)
LetArray(x, e) == LetAs("array", x, e)
Declared(type, x) == [op |-> "assign_stm", name |-> x, type |-> type]
SetTo(target, sign, e) == [op |-> "update_stm", target |-> target, sign |-> sign, value |-> e]
Set(x, sign, e) == SetTo(Var(x), sign, e)
Do(e) == [op |-> "bor", value |-> e]
Show(e) == Do(Func("println", <<Text_(0), e>>))
Give(e) == [op |-> "ret_stmt", value |-> e]
If(c, ss) == [op |-> "single_if", cond |-> c, body |-> ss]
IfElse_(c, ss, e) == [op |-> "if_type_stm", cond |-> c, body |-> ss, else |-> e]
Else_(ss) == [op |-> "else", body |-> ss]
While_(c, ss) == [op |-> "while_stm", cond |-> c, body |-> ss]
For_(x, low, high, inclusive, ss) ==
    [op |-> "for_stm", name |-> x, low |-> low, high |-> high,
     inclusive |-> inclusive, body |-> ss]
Fn(params, ss) == [params |-> params, body |-> ss]

-----------------------------------------------------------------------------
(* Conditions over b and y; 1 / y > 0 traps where y is 0.                  *)
Traps == Rel(Arith(Int_(1), "/", Var("y")), ">", Int_(0))
Atoms == <<BoolVar("b"), Rel(Var("y"), "<", Int_(1)), Traps, True>>
Simple == Atoms \o [n \in DOMAIN Atoms |-> Not(Paren(Atoms[n]))]

Condition(form, m, n) ==
    CASE form = "simple" -> Simple[m]
      [] form = "or" -> Or(Simple[m], Simple[n])
      [] form = "and" -> And(Simple[m], Simple[n])
      [] form = "and or" -> Or(And(BoolVar("b"), Atoms[m]), Traps)
      [] form = "(or) and" -> And(Paren(Or(Atoms[m], BoolVar("b"))), Traps)
      [] form = "not (and (or))" -> Not(Paren(And(Atoms[m], Paren(Or(Atoms[n], Traps)))))
      [] form = "not not (or)" -> Not(Not(Paren(Or(Atoms[m], BoolVar("b")))))

ConditionIds ==
    ({"simple"} \X (1 .. 8) \X {1})
    \cup ({"or", "and"} \X (1 .. 7) \X (1 .. 7))
    \cup ({"and or", "(or) and", "not not (or)"} \X (1 .. 4) \X {1})
    \cup ({"not (and (or))"} \X (1 .. 4) \X (1 .. 4))

(* Statements that one condition c decides.                                *)
Add(n) == Set("x", "+", Int_(n))
Decided(c) ==
    <<<<IfElse_(c, <<Add(1)>>, Else_(<<Add(2)>>))>>,
     <<If(c, <<Add(1), If(BoolVar("b"), <<>>), Add(4)>>)>>,
     <<IfElse_(c, <<[op |-> ";"]>>, IfElse_(BoolVar("b"), <<Add(1)>>, Else_(<<Add(2)>>)))>>,
     <<IfElse_(BoolVar("b"), <<If(c, <<Add(1)>>)>>, If(c, <<Add(2)>>)), Add(4)>>,
     <<While_(And(Paren(c), Rel(Var("x"), "<", Int_(2))),
              <<Add(1), If(Rel(Var("x"), "==", Int_(2)), <<Show(Var("y"))>>)>>)>>>>

(* Loops and calls: no condition over b.                                   *)
X == Var("x")
Highs == <<Int_(0), Int_(2), Arith(Var("y"), "+", Int_(1)), Var("y")>>
Bodies ==
    <<<<>>,
      <<Set("x", "+", Var("i")), Show(Var("i"))>>,
      <<For_("j", Var("i"), Int_(2), TRUE, <<Show(Var("j"))>>)>>,
      <<If(Rel(Var("i"), "==", Int_(1)), <<Give(Int_(0))>>), Show(Var("i"))>>,
      <<While_(Rel(X, "<", Var("i")), <<Add(1)>>)>>>>

(* Of bounds that are variables, x and y: what they hold is read again on  *)
(* every turn, so that no body changes one (see Miscompiled).              *)
BoundBodies ==
    <<<<>>,
      <<Show(Var("i"))>>,
      <<For_("j", Var("i"), Var("y"), TRUE, <<Show(Var("j"))>>)>>,
      <<Let("m", Arith(Var("y"), "-", Var("i"))), Show(Var("m"))>>,
      <<If(Rel(Var("i"), "==", Var("y")), <<Give(Int_(0))>>), Show(Var("i"))>>>>
Calls ==
    <<Func("sub", <<X, Var("y")>>),
      Arith(Func("sub", <<Var("y"), X>>), "*", Func("sum", <<X>>)),
      Func("sub", <<Func("sum", <<Int_(2)>>), Func("zero", <<>>)>>),
      Func("sub", <<Func("sub", <<Int_(5), X>>), Func("sub", <<X, Int_(3)>>)>>),
      Func("mid", <<Func("sum", <<Int_(2)>>), Int_(4), X>>),
      Func("mid", <<Int_(1), Arith(X, "-", Int_(3)), Arith(X, "-", Int_(2))>>)>>

Helpers ==
    [sub |-> Fn(<<"p", "q">>, <<Let("d", Arith(Var("p"), "-", Var("q"))), Give(Var("d"))>>),
     mid |-> Fn(<<"p", "q", "r">>,
                <<Show(Var("p")), Show(Var("r")),
                  IfElse_(Rel(Var("p"), "<=", Var("q")), <<Give(Var("q"))>>,
                          If(Rel(Var("r"), ">", Var("q")), <<Give(Var("r"))>>)),
                  Give(Var("k"))>>),
     sum |-> Fn(<<"n">>,
                <<If(Rel(Var("n"), "<", Int_(1)), <<Give(Int_(0))>>),
                  Let("m", Arith(Var("n"), "-", Int_(1))),
                  Let("s", Func("sum", <<Var("m")>>)),
                  Give(Arith(Var("n"), "+", Var("s")))>>),
     zero |-> Fn(<<>>, <<Show(Int_(9)), Give(Int_(0))>>),
     far |-> Fn(<<>>, <<Give(Int_(IntLimit - 1))>>)]

Frame(helpers, x, y, b, ss) ==
    [globals |-> <<[name |-> "h", type |-> "F64", value |-> 5],
                   [name |-> "k", type |-> "I64", value |-> 7]>>,
     functions |-> helpers @@
        ("main" :> Fn(<<>>, <<Let("x", Int_(x)), Let("y", Int_(y)), Let("b", b)>>
                              \o ss \o <<Show(Var("x")), Show(Var("k"))>>))]

(* Floats f and g and the global h: a float that is assigned in a loop is  *)
(* not copied there (see Miscompiled).                                     *)
F == Var("f")
G == Var("g")
H == Var("h")
Copies == <<Set("f", "=", G), Set("g", "=", F), Set("g", "=", H)>>
Sums ==
    <<Set("f", "+", G), Set("g", "-", Float_(1)), Set("g", "=", Arith(Paren(Arith(F, "+", G)), "*", H)),
      Set("f", "=", Arith(F, "-", Arith(G, "*", Float_(2))))>>
FloatSteps == Copies \o Sums
Floats(ss) ==
    <<LetFloat("f", Float_(2)), Declared("F64", "g"), Set("g", "=", Float_(3))>> \o ss
      \o <<Show(F), Show(G), Show(H)>>

(* An array a and a float array w, by literal and by variable index; an    *)
(* element that is itself computed from elements, in and out of loops.     *)
A(n) == Item("a", Int_(n))
AtI == Item("a", Var("i"))
ArraySteps ==
    <<SetTo(A(1), "=", Arith(A(0), "+", A(2))),
      SetTo(A(2), "-", Arith(Var("y"), "*", A(1))),
      Set("x", "=", A(2)),
      SetTo(Item("a", Var("y")), "+", Arith(A(0), "-", Item("a", Var("y")))),
      SetTo(Item("w", Var("y")), "=", Arith(Item("w", Int_(1)), "+", Item("w", Var("y")))),
      SetTo(A(0), "=", Func("sub", <<A(2), Item("a", Var("y"))>>))>>
ArrayBodies ==
    <<<<Set("x", "+", AtI)>>,
      <<SetTo(AtI, "+", Var("x")), Set("x", "=", AtI)>>,
      <<Let("m", AtI), SetTo(AtI, "=", A(2)), SetTo(A(2), "=", Var("m"))>>,
      <<LetArray("u", Array_(<<Var("i"), Arith(Var("i"), "*", Var("i"))>>)),
        Set("x", "+", Item("u", Int_(1))), SetTo(AtI, "=", Item("u", Var("y")))>>,
      <<If(Rel(AtI, ">", A(0)), <<SetTo(A(0), "=", AtI), Show(AtI)>>)>>>>
Arrays(ss) ==
    <<LetArray("a", Array_(<<Int_(4), Arith(X, "+", Int_(1)), Func("sum", <<Int_(3)>>)>>)),
      LetArray("w", Array_(<<Float_(2), Arith(H, "+", Float_(1))>>))>> \o ss
      \o <<Show(A(0)), Show(A(1)), Show(A(2)), Show(Item("w", Int_(0))), Show(Item("w", Var("y")))>>

(* The programs by the parameters they are made of: x, y and then          *)
Ids ==
    ({"decided"} \X {0} \X {0, 1} \X {0, 1} \X (1 .. 5) \X ConditionIds)
    \cup ({"loop"} \X {0, 1} \X {0, 1} \X BOOLEAN \X (1 .. 4) \X (1 .. 5))
    \cup ({"variable bounds"} \X {0, 1} \X {1, 2} \X BOOLEAN \X (1 .. 5))
    \cup ({"call"} \X {0, 1} \X {0, 1} \X {"=", "+", "-"} \X (1 .. 6))
    \cup ({"float"} \X (1 .. 7) \X (1 .. 7) \X {1, 6})
    \cup ({"float loop"} \X (4 .. 7) \X (4 .. 7) \X (1 .. 7))
    \cup ({"array"} \X {0, 1} \X (1 .. 6) \X (1 .. 6) \X {4})
    \cup ({"array loop"} \X {0, 1} \X (1 .. 6) \X (1 .. 5))
    \cup {<<"print">>}

MCPrograms ==
    [id \in Ids |->
        CASE id[1] = "decided" ->
               Frame(<<>>, id[2], id[3], IF id[4] = 0 THEN False ELSE True,
                     Decided(Condition(id[6][1], id[6][2], id[6][3]))[id[5]])
          [] id[1] = "loop" ->
               Frame(<<>>, id[2], id[3], True,
                     <<For_("i", Int_(0), Highs[id[5]], id[4], Bodies[id[6]])>>)
          [] id[1] = "variable bounds" ->
               Frame(<<>>, id[2], id[3], True,
                     <<For_("i", X, Var("y"), id[4], BoundBodies[id[5]])>>)
          [] id[1] = "call" ->
               Frame(Helpers, id[2], id[3], True, <<Set("x", id[4], Calls[id[5]])>>)
          [] id[1] = "float" ->
               Frame(<<>>, 0, 0, True,
                     Floats(<<FloatSteps[id[2]], FloatSteps[id[3]], FloatSteps[id[4]]>>))
          [] id[1] = "float loop" ->
               Frame(<<>>, 0, 0, True,
                     Floats(<<For_("i", Int_(0), Int_(2), FALSE,
                                   <<FloatSteps[id[2]], FloatSteps[id[3]]>>),
                              FloatSteps[id[4]]>>))
          [] id[1] = "array" ->
               Frame(Helpers, 0, id[2], True,
                     Arrays(<<ArraySteps[id[3]], ArraySteps[id[4]], ArraySteps[id[5]]>>))
          [] id[1] = "array loop" ->
               Frame(Helpers, 0, id[2], True,
                     Arrays(<<ArraySteps[id[3]],
                              For_("i", Int_(0), Int_(2), TRUE, ArrayBodies[id[4]])>>))
          [] id[1] = "print" ->
               Frame(Helpers, 0, 0, True,
                     <<Show(Func("sum", <<Int_(3)>>)), [op |-> ";"], Show(Func("far", <<>>))>>)]

-----------------------------------------------------------------------------
(* The programs on which the compiler fails.  gcc rejects an empty         *)
(* function, an empty else, the items of a global array and a sum of       *)
(* floats that is printed.                                                 *)
Main(helpers, ss) == Frame(helpers, 0, 0, True, ss)

Rejected ==
    <<Main([idle |-> Fn(<<>>, <<>>)], <<Do(Func("idle", <<>>))>>),
      Main(<<>>, <<IfElse_(BoolVar("b"), <<Add(1)>>, Else_(<<>>))>>),
      [Main(<<>>, <<>>)
         EXCEPT !.globals = Append(@, [name |-> "s", type |-> "I64[]", values |-> <<1, 2>>])],
      Main(<<>>, <<Show(Arith(H, "+", Float_(1)))>>)>>

(* Run otherwise than written: an else whose `if` has a true condition and *)
(* an empty body, a call in a third argument, an array that is assigned, a *)
(* float that was copied in a loop, a loop that changes its own bound.     *)
Miscompiled ==
    <<Main(<<>>, <<IfElse_(BoolVar("b"), <<>>, Else_(<<Show(Int_(3))>>))>>),
      Main(Helpers,
           <<Set("x", "=", Func("mid", <<Int_(1), Int_(2), Func("sum", <<Int_(3)>>)>>))>>),
      Main(<<>>, <<LetArray("a", Ints(<<1, 2>>)), SetTo(Var("a"), "=", Ints(<<3, 4>>)), Show(A(0))>>),
      Main(<<>>, <<LetFloat("f", Float_(0)), LetFloat("g", Float_(0)),
                   For_("i", Int_(1), Int_(2), TRUE,
                        <<Set("g", "=", F), Set("f", "+", Float_(1))>>),
                   Show(G)>>),
      Main(<<>>, <<Set("y", "=", Int_(2)),
                   For_("i", Int_(0), Var("y"), FALSE,
                        <<Set("y", "-", Int_(1)), Show(Var("i"))>>)>>)>>

(* The counter is assigned before its first value is computed.             *)
ComputedStart ==
    <<Main(<<>>, <<For_("i", Arith(Var("y"), "+", Int_(1)), Int_(3), TRUE, <<Add(1)>>)>>)>>
=============================================================================
