----------------------------- MODULE InterCode -----------------------------
(***************************************************************************)
(* intercode.c and tac.c: intermediate_code(), from the typed syntax tree  *)
(* of a program over integers, booleans, floats and arrays to three-address *)
(* code.                                                                   *)
(*                                                                         *)
(* A tree is a record whose op names the grammar rule; the node at child k *)
(* of the node at path p is at path p \o <<k>>, k counted as in            *)
(* feGrammar.y.  genlabel() makes a label that no other call makes: here   *)
(* the label of a node is the node's path with the attribute that holds    *)
(* it.  genlocal() hands out the next slot of eight bytes of the function. *)
(* assign_first, assign_follow and assign_icode are one recursion: the     *)
(* labels a node inherits are parameters, its code and address results.    *)
(* A function declares each name once, so that a name is its symbol.  The  *)
(* offset of a string or float in its region stands for its contents.      *)
(***************************************************************************)
EXTENDS Tac, TLC

First(p) == Label("first", p)

IsFloat(a) == a.type \in {"F64", "F64_LIT_NP"}
ArrayOf == [I64 |-> "I64[]", F64 |-> "F64[]"]
ElementType(type) == IF type = "I64[]" THEN "I64" ELSE "F64"

Opcode == [o \in {"+", "-", "*", "/", "%", "<", "<=", ">", ">=", "==", "!="} |->
    CASE o = "+" -> "O_ADD" [] o = "-" -> "O_SUB" [] o = "*" -> "O_MUL"
      [] o = "/" -> "O_DIV" [] o = "%" -> "O_MOD"
      [] o = "<" -> "O_BLT" [] o = "<=" -> "O_BLE" [] o = ">" -> "O_BGT"
      [] o = ">=" -> "O_BGE" [] o = "==" -> "O_BEQ" [] o = "!=" -> "O_BNE"]
FloatOpcode == [o \in {"+", "-", "*"} |->  \* no division: a float is a small integer
    CASE o = "+" -> "O_FADD" [] o = "-" -> "O_FSUB" [] o = "*" -> "O_FMUL"]

-----------------------------------------------------------------------------
(* st: stacksize of the function, s->addr and s->arrbase of every symbol   *)
(* so far.                                                                 *)
NextLocal(st, type) == Address("local", st.stacksize, type)
AllocUncounted(st, n) == st  \* mutant: stacksize stays
Alloc(st, n) == [st EXCEPT !.stacksize = @ + n]
AllocVar(st, x, type) == [Alloc(st, 1) EXCEPT !.addr = (x :> NextLocal(st, type)) @@ @]

Result(code, addr, st) == [code |-> code, addr |-> addr, st |-> st]

(* The two jumps of a boolean that decides a branch.                       *)
Branch(a, t, f) == IF t = NoLabel THEN <<>> ELSE <<BranchIf(a, t), Goto(f)>>

(* The labels `!` gives its operand, true first.                           *)
SwappedNot(t, f) == <<t, f>>  \* mutant: `!` forgotten
Swapped(t, f) == <<f, t>>

(* The false label that || gives its left operand, and the true label that *)
(* && gives it: the right operand decides, and its code follows.           *)
RightFirstOwn(p) == First(p)  \* mutant: the label of the node itself
RightFirst(p) == First(p \o <<2>>)

(* iter_args: each argument's code and address; the first two are computed *)
(* before either is passed, every later one is computed and passed.  (A    *)
(* single argument is a literal or a variable: check_params of typecheck.c *)
(* takes the operands of any other for two arguments.)                     *)
PassArguments(args) ==
    LET passed[n \in 0 .. Len(args)] ==
            IF n = 0 THEN <<>>
            ELSE IF n = 2 THEN args[1].code \o args[2].code
                               \o <<Parm(args[1].addr), Parm(args[2].addr)>>
            ELSE passed[n - 1] \o args[n].code \o <<Parm(args[n].addr)>>
    IN  passed[Len(args)]

(* The code of exp, ter and beq, from the results of both operands.        *)
Operator(sign, left) == IF IsFloat(left) THEN FloatOpcode[sign] ELSE Opcode[sign]
OperationType(left) == IF IsFloat(left) THEN "F64_LIT_NP" ELSE "I64"
Computation(e, kids, t, f) ==
    LET left == kids[1].addr
        a == NextLocal(kids[2].st, OperationType(left))
    IN  Result(kids[1].code \o kids[2].code
                 \o <<Instr(Operator(e.sign, left), a, left, kids[2].addr)>>
                 \o (IF e.op = "beq" THEN Branch(a, t, f) ELSE <<>>),
               a, Alloc(kids[2].st, 1))

Junction(p, kids) ==
    Result(kids[1].code \o <<Place(RightFirst(p))>> \o kids[2].code, NoAddress, kids[2].st)

StateBehind(args, st) == IF args = <<>> THEN st ELSE args[Len(args)].st
Function(name, args, st) ==
    LET a == NextLocal(StateBehind(args, st), "I64")
    IN  Result(PassArguments(args) \o <<Call(name, a)>>, a, Alloc(StateBehind(args, st), 1))

Literal(region, e, type, st) ==
    Result(<<Point(NextLocal(st, type), Address(region, e.value, type))>>,
           NextLocal(st, type), Alloc(st, 1))

(* array: behind the items' own slots come those of the array, to which    *)
(* iter_items assigns them.  ("F64_LIT_NP" is no type of typecheck.c's.)   *)
(* There are two items or more: a single one is appended to itself.        *)
ItemType(a) == IF IsFloat(a) THEN "F64" ELSE a.type
ArrayLiteral(items, st) ==
    LET start == StateBehind(items, st).stacksize
        type == ItemType(items[1].addr)
        assigned[n \in 0 .. Len(items)] ==
            IF n = 0 THEN <<>>
            ELSE assigned[n - 1] \o items[n].code
                   \o <<Move(Address("local", start + n - 1, type), items[n].addr)>>
    IN  Result(assigned[Len(items)], Address("local", start, ArrayOf[type]),
               Alloc(StateBehind(items, st), Len(items)))

(* array_index: an index that is a literal is immediate, any other is a    *)
(* variable, which atos_index reads where the element is used.             *)
ArrayIndex(e, st) ==
    LET base == st.arrbase[e.name]
        at(offset) == Address(st.addr[e.name].region, offset, ElementType(base.type))
        i == e.index
    IN  IF i.op = "LIT_INTEGER" THEN Result(<<>>, at(base.offset + i.value), st)
        ELSE Result(<<Instr("DEREF", base, st.addr[i.name], NoAddress)>>,
                    [at(base.offset) EXCEPT !.index = <<st.addr[i.name]>>], st)

RECURSIVE Expr(_, _, _, _, _), Behind(_, _, _, _, _), Arguments(_, _, _), Argument(_, _, _, _)

(* The results of a left operand, l, and then of the right one.            *)
Behind(l, e, p, t, f) == <<l, Expr(e.right, p \o <<2>>, t, f, l.st)>>
Both(e, p, lt, lf, t, f, st) == Behind(Expr(e.left, p \o <<0>>, lt, lf, st), e, p, t, f)

(* The arguments from left to right.                                       *)
Argument(before, e, p, st) ==
    Append(before, Expr(e, p, NoLabel, NoLabel, StateBehind(before, st)))
Arguments(es, p, st) ==
    IF es = <<>> THEN <<>>
    ELSE Argument(Arguments(SubSeq(es, 1, Len(es) - 1), p, st),
                  es[Len(es)], p \o <<Len(es)>>, st)

(* An expression: t and f are its ontrue and onfalse.                      *)
Expr(e, p, t, f, st) ==
    CASE e.op = "LIT_INTEGER" -> Result(<<>>, Constant(e.value), st)
      [] e.op = "LIT_BOOL" ->
           Result(Branch(Constant(e.value), t, f), Constant(e.value), st)
      [] e.op = "LIT_STR" -> Literal("string", e, "I64", st)
      [] e.op = "LIT_FLOAT" -> Literal("float", e, "F64", st)
      [] e.op = "array" -> ArrayLiteral(Arguments(e.items, p, st), st)
      [] e.op = "array_index" -> ArrayIndex(e, st)
      [] e.op = "IDENT" ->
           Result(IF e.bool THEN Branch(st.addr[e.name], t, f) ELSE <<>>, st.addr[e.name], st)
      [] e.op \in {"arith", "beq"} ->
           Computation(e, Both(e, p, NoLabel, NoLabel, NoLabel, NoLabel, st), t, f)
      [] e.op = "bor" -> Junction(p, Both(e, p, t, RightFirst(p), t, f, st))
      [] e.op = "ban" -> Junction(p, Both(e, p, RightFirst(p), f, t, f, st))
      [] e.op = "bno" ->
           [Expr(e.right, p \o <<1>>, Swapped(t, f)[1], Swapped(t, f)[2], st)
              EXCEPT !.addr = NoAddress]
      [] e.op = "fac" ->
           Expr(e.right, p \o <<1>>, t, IF t = NoLabel THEN NoLabel ELSE f, st)
      [] e.op = "func" -> Function(e.name, Arguments(e.args, p, st), st)

Value(e, p, st) == Expr(e, p, NoLabel, NoLabel, st)

-----------------------------------------------------------------------------
(* Statements; v is the result of the value in one.  A statement's own     *)
(* addr is of no use.                                                      *)
Declare(x, type, st) == Result(<<>>, NoAddress, AllocVar(st, x, type))
Assign(x, type, v) ==
    LET st2 == AllocVar(v.st, x, type)
    IN  Result(v.code \o <<Move(st2.addr[x], v.addr)>>, NoAddress, st2)
AssignArray(x, v) ==
    LET st2 == AllocVar(v.st, x, v.addr.type)
    IN  Result(v.code \o <<Point(st2.addr[x], v.addr)>>, NoAddress,
               [st2 EXCEPT !.arrbase = (x :> v.addr) @@ @])

(* The s that is tested for an array is never the one that was looked up   *)
(* (intercode.c 519, 523): an array is assigned like any other variable,   *)
(* its elements and arrbase stay.  x is the result of the left side.       *)
Update(sign, x, v) ==
    LET tmp == NextLocal(v.st, OperationType(x.addr))
        code == x.code \o v.code
    IN  IF sign = "=" THEN Result(code \o <<Move(x.addr, v.addr)>>, NoAddress, v.st)
        ELSE Result(code \o <<Instr(Operator(sign, x.addr), tmp, x.addr, v.addr),
                              Move(x.addr, tmp)>>,
                    NoAddress, Alloc(v.st, 1))

Return_(v) == Result(v.code \o <<Ret(v.addr)>>, NoAddress, v.st)

(* A turn, if the counter is in the range.                                 *)
TurnTested(loop) == BranchIf(loop.flag, loop.upper)  \* mutant: another label
Turn(loop) == BranchIf(loop.flag, loop.body)

(* The end of a turn.                                                      *)
Increment(loop) ==
    <<Instr("O_ADD", loop.step, loop.counter, Constant(1)),
      Move(loop.counter, loop.step), Goto(loop.test)>>

(* What the counting loop is made of, and how for_stm lays it out: loop is *)
(* the symbols and addresses, range and body the code of the parts.        *)
ForLoop(loop, low, high, body) ==
    <<Move(loop.counter, low.addr), Place(loop.start)>>
      \o low.code \o high.code
      \o <<Place(loop.test),
           Instr("O_BGE", loop.flag, loop.counter, low.addr),
           BranchIf(loop.flag, loop.upper), Goto(loop.exit),
           Place(loop.upper),
           Instr(loop.below, loop.flag, loop.counter, high.addr),
           Turn(loop), Goto(loop.exit),
           Place(loop.body)>>
      \o body
      \o Increment(loop)

(* The label an else carries; its parent has taken First(p) already.       *)
ElseLabel(e, p, follow) ==
    IF e.op = "else" /\ e.body = <<>> THEN follow ELSE First(p)

WhileLoop(p, cond, body) ==
    <<Place(First(p))>> \o cond \o <<Place(Label("ontrue", p))>> \o body
      \o <<Goto(First(p))>>

SingleIfCode(cond, body, onfalse) ==
    Result(cond.code \o body.code \o (IF onfalse = NoLabel THEN <<>> ELSE <<Goto(onfalse)>>),
           NoAddress, body.st)

RECURSIVE Stm(_, _, _, _), StatementList(_, _, _)

(* The statements of a block; an empty block is a NULL node.  s is the     *)
(* result of the first.                                                    *)
Follow(ss, p) == IF Len(ss) = 1 THEN Label("follow", p \o <<0>>) ELSE First(p \o <<1>>)
Chained(s, ss, p, rest) ==
    Result(<<Place(First(p))>> \o s.code
             \o (IF Len(ss) = 1 THEN <<Place(Follow(ss, p))>> ELSE rest.code),
           NoAddress, rest.st)
StatementList(ss, p, st) ==
    IF ss = <<>> THEN Result(<<>>, NoAddress, st)
    ELSE LET chain(s) == Chained(s, ss, p, StatementList(Tail(ss), p \o <<1>>, s.st))
         IN  chain(Stm(Head(ss), p \o <<0>>, Follow(ss, p), st))

(* single_if: onfalse is where the end of the body jumps, over the else.   *)
SingleIf(s, p, follow, onfalse, st) ==
    LET ifTrue == IF s.body = <<>> THEN follow ELSE First(p \o <<3>>)
        with(c) == SingleIfCode(c, StatementList(s.body, p \o <<3>>, c.st), onfalse)
    IN  with(Expr(s.cond, p \o <<1>>, ifTrue, follow, st))

Else(e, p, follow, st) ==
    LET block == IF e.op = "else" THEN StatementList(e.body, p \o <<2>>, st)
                 ELSE Stm(e, p \o <<1>>, follow, st)
    IN  [block EXCEPT !.code = <<Place(ElseLabel(e, p, follow))>> \o @]

IfElse(s, p, follow, st) ==
    LET with(i) == [Else(s.else, p \o <<1>>, follow, i.st) EXCEPT !.code = i.code \o @]
    IN  with(SingleIf(s, p \o <<0>>, First(p \o <<1>>), follow, st))

While(s, p, follow, st) ==
    LET q == p \o <<1>>
        with(c) == [StatementList(s.body, p \o <<3>>, c.st)
                      EXCEPT !.code = WhileLoop(q, c.code, @)]
    IN  with(Expr(s.cond, q, Label("ontrue", q), follow, st))

(* for_stm: the counter has its address before the body; the results of    *)
(* the two bounds and of the body.                                         *)
ForCode(s, p, follow, counter, low, high, body) ==
    LET q == p \o <<3>>
        st2 == Alloc(body.st, 1)
        loop == [counter |-> counter, flag |-> NextLocal(body.st, "I64"),
                 step |-> NextLocal(st2, "I64"), start |-> First(q),
                 test |-> Label("gt", q), upper |-> Label("lt", q),
                 body |-> Label("ontrue", q), exit |-> follow,
                 below |-> IF s.inclusive THEN "O_BLE" ELSE "O_BLT"]
    IN  Result(ForLoop(loop, low, high, body.code), NoAddress, Alloc(st2, 1))

For(s, p, follow, st) ==
    LET q == p \o <<3>>
        with(low, high) == ForCode(s, p, follow, NextLocal(st, "I64"), low, high,
                                   StatementList(s.body, p \o <<5>>, high.st))
        upTo(low) == with(low, Value(s.high, q \o <<3>>, low.st))
    IN  upTo(Value(s.low, q \o <<0>>, AllocVar(st, s.name, "I64")))

HasValue(s) == "value" \in DOMAIN s
(* A statement: p is its path, follow the label of what comes behind it.   *)
Stm(s, p, follow, st) ==
    CASE s.op = "assign_stm" /\ ~ HasValue(s) -> Declare(s.name, s.type, st)
      [] s.op = "assign_stm" /\ HasValue(s) /\ s.value.op = "array" ->
           AssignArray(s.name, Value(s.value, p, st))
      [] s.op = "assign_stm" /\ HasValue(s) /\ s.value.op # "array" ->
           Assign(s.name, s.type, Value(s.value, p, st))
      [] s.op = "update_stm" ->
           Update(s.sign, Value(s.target, p \o <<0>>, st), Value(s.value, p, st))
      [] s.op = "bor" -> Value(s.value, p, st)
      [] s.op = ";" -> Result(<<>>, NoAddress, st)
      [] s.op = "ret_stmt" -> Return_(Value(s.value, p, st))  \* `return;` returns 0
      [] s.op = "single_if" -> SingleIf(s, p, follow, NoLabel, st)
      [] s.op = "if_type_stm" -> IfElse(s, p, follow, st)
      [] s.op = "while_stm" -> While(s, p, follow, st)
      [] s.op = "for_stm" -> For(s, p, follow, st)

-----------------------------------------------------------------------------
(* fn_param: the parameters take the first slots, in order.                *)
Parameters(st, params) ==
    LET bound[n \in 0 .. Len(params)] ==
            IF n = 0 THEN st ELSE AllocVar(bound[n - 1], params[n], "I64")
    IN  bound[Len(params)]

(* make_globals: the addresses of the globals, and the code of             *)
(* __fec_init_glb__.  An array, of integers, has its elements in front of  *)
(* its pointer; when iter_items_glob() assigns them, the items have no     *)
(* address yet.                                                            *)
Start(globals, n) == GlobalSize(SubSeq(globals, 1, n - 1))
PlaceOf(globals, n) ==
    Address("global", Start(globals, n) + Size(globals[n]) - 1, globals[n].type)

InitCode(globals, n) ==
    LET g == globals[n]
        a == PlaceOf(globals, n)
        at(k) == Address("global", Start(globals, n) + k - 1, ElementType(g.type))
    IN  IF IsArray(g)
        THEN [k \in DOMAIN g.values |-> Move(at(k), NoAddress)] \o <<Point(a, at(1))>>
        ELSE IF g.type = "F64" THEN <<Point(a, Address("float", g.value, "F64"))>>
        ELSE <<Move(a, Constant(g.value))>>
GlobalCode(globals) ==
    <<Instr("D_GLOB", NoAddress, NoAddress, NoAddress)>>
      \o FlattenSeq([n \in DOMAIN globals |-> InitCode(globals, n)])
      \o <<Instr("D_END", NoAddress, NoAddress, NoAddress)>>

Named(globals, x) == CHOOSE n \in DOMAIN globals : globals[n].name = x
GlobalSymbols(globals) ==
    LET names == {globals[n].name : n \in DOMAIN globals}
        arrays == {x \in names : IsArray(globals[Named(globals, x)])}
        at(x) == Address("global", Start(globals, Named(globals, x)),
                         globals[Named(globals, x)].type)
    IN  [stacksize |-> 0,
         addr |-> [x \in names |-> PlaceOf(globals, Named(globals, x))],
         arrbase |-> [x \in arrays |-> at(x)]]

(* function_def: src1 of D_PROC is the stack size.  The code of an empty   *)
(* body was made by assign_follow.                                         *)
Procedure(fn, body) ==
    LET proc == Instr("D_PROC", NoAddress, Constant(body.st.stacksize), NoAddress)
        end == Instr("D_END", NoAddress, NoAddress, NoAddress)
    IN  IF fn.body = <<>>
        THEN <<Place(First(<<>>)), Place(Label("follow", <<>>)),
               Instr("NOP", NoAddress, NoAddress, NoAddress), proc, end>>
        ELSE <<proc>> \o body.code \o <<Place(Label("follow", <<6>>)), Ret(Constant(0)), end>>

FunctionDef(fn, globals) ==
    Procedure(fn, StatementList(fn.body, <<6>>,
        Parameters(GlobalSymbols(globals), fn.params)))

(* intermediate_code: the code of every procedure of a program.            *)
IntermediateCode(program) ==
    (InitGlobals :> GlobalCode(program.globals)) @@
    [f \in DOMAIN program.functions |-> FunctionDef(program.functions[f], program.globals)]
=============================================================================
