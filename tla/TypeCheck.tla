----------------------------- MODULE TypeCheck -----------------------------
(***************************************************************************)
(* typecheck.c: one post-order walk over the syntax tree.  The order in    *)
(* which the walk leaves the nodes is the order of a bottom-up derivation: *)
(* `trees` holds the trees that are done, and an action is the branch of   *)
(* typecheck() for one rule, run on the trees at the top.  A run chooses   *)
(* one of the given grammars and builds every tree over its leaves and     *)
(* productions, up to its number of nodes, as far as the checker lets it.  *)
(*                                                                         *)
(* What a recursive function of typecheck.c finds below a node is kept at  *)
(* the node when it is made, from what its kids have.                      *)
(*                                                                         *)
(* Dereferencing NULL is the exit "crash".  Statements that check nothing  *)
(* (`let x: i64;`, `;`, break) are left out.                               *)
(***************************************************************************)
EXTENDS TypeRules, SequencesExt

\* By name: the literals and identifiers of a program, the productions in use
\* (see Uses) and a bound on the nodes of a program.
CONSTANT Grammars

VARIABLES grammar, trees, visited, exit
vars == <<grammar, trees, visited, exit>>

Leaves == Grammars[grammar].leaves
Productions == Grammars[grammar].productions
MaxNodes == Grammars[grammar].nodes

(***************************************************************************)
(* Outcomes: "ok", or how the compiler ends.                               *)
(***************************************************************************)
Outcomes == {"ok", "exit_3", "crash"}
Then(first, second) == IF first = "ok" THEN second ELSE first
Failing(outcomes) == {i \in DOMAIN outcomes : outcomes[i] # "ok"}
FirstOf(outcomes) ==
    IF Failing(outcomes) = {} THEN "ok"
    ELSE outcomes[CHOOSE i \in Failing(outcomes) : \A j \in Failing(outcomes) : i <= j]

(***************************************************************************)
(* The helpers on types.                                                   *)
(***************************************************************************)
Unresolved(t) == t    \* mutant
Resolved(t) == IF t.base = "FUNC" THEN t.of[1] ELSE t      \* type_to_get

CheckType(t, category) == t.base = "WILDCARD" \/ Resolved(t).base = category

CompareArrays(l, r) ==
    IF l.base # r.base \/ l.size # r.size THEN "no"
    ELSE IF l.of = <<>> THEN "crash"
    ELSE IF l.of[1].base = "WILDCARD" THEN "yes"
    ELSE IF r.of = <<>> THEN "crash"
    ELSE IF r.of[1].base \in {"WILDCARD", l.of[1].base} THEN "yes" ELSE "no"

CompareTypes(l, r) ==
    IF Dangling \in {l, r} THEN "crash"
    ELSE IF Nil \in {l, r} THEN "no"
    ELSE IF "WILDCARD" \in {l.base, r.base} THEN "yes"
    ELSE IF Resolved(l).base = "ARRAY" THEN CompareArrays(Resolved(l), Resolved(r))
    ELSE IF Resolved(l).base = Resolved(r).base THEN "yes" ELSE "no"

(***************************************************************************)
(* Nodes: rule, kids and type of the C struct; what invalid_type_error()   *)
(* does when it is called on the node, which looks for a leaf to blame,    *)
(* reads its type, and returns if it finds none; the values of the returns *)
(* that check_returns() visits below it, in order; and what TypeRules      *)
(* needs.                                                                  *)
(***************************************************************************)
Blame(rule, kids, type) ==
    IF kids = <<>> \/ rule = "array"
    THEN IF type \in {Nil, Dangling} THEN "crash" ELSE "exit_3"
    ELSE FirstOf([i \in DOMAIN kids |->
            CASE CompareTypes(type, kids[i].type) = "yes" -> kids[i].blame
              [] CompareTypes(type, kids[i].type) = "no" -> "ok"
              [] OTHER -> "crash"])

Plain(rule, type, means, quirks) ==
    [rule |-> rule, kids |-> <<>>, type |-> type,
     blame |-> Blame(rule, <<>>, type), returns |-> <<>>,
     means |-> means, own |-> {}, quirks |-> quirks]
Token(text) == Plain(text, Nil, Nil, {})
NoNode == Plain("none", Dangling, Nil, {})

Returns(rule, kids) ==
    IF rule = "ret_stmt" THEN <<IF Len(kids) > 2 THEN kids[2] ELSE NoNode>>
    ELSE FlattenSeq([i \in DOMAIN kids |-> kids[i].returns])

Node(rule, kids, type) ==
    LET node == [rule |-> rule, kids |-> kids, type |-> type,
                 blame |-> Blame(rule, kids, type), returns |-> Returns(rule, kids)]
    IN  [rule |-> rule, kids |-> kids, type |-> type,
         blame |-> node.blame, returns |-> node.returns,
         means |-> Meaning(rule, kids), own |-> Own(rule, kids), quirks |-> Quirks(node)]

\* The number of a type's token plus 999720.  That of BOOL is ARRAY_TYPE,
\* with a size of 0 and no element type.
FromToken(b) == IF b = "BOOL" THEN Base("ARRAY") ELSE Base(b)

\* A leaf says what it means in the source, which the checker may misread.
Leaf(rule, type, means) ==
    Plain(rule, type, means, IF means = type THEN {} ELSE {"mistake"})
Literal(b) == Leaf("literal", Base(b), Base(b))
Variable(b) == Leaf("variable", Base(b), Base(b))
Parameter(b) == Leaf("parameter", FromToken(b), Base(b))
ArrayVariable(n, b) == Leaf("variable", ArrayOf(n, FromToken(b)), ArrayOf(n, Base(b)))
Callable(rule, params, ret) ==
    Leaf(rule,
         FunctionOf([i \in DOMAIN params |-> FromToken(params[i])], FromToken(ret)),
         FunctionOf([i \in DOMAIN params |-> Base(params[i])], Base(ret)))
Function(params, ret) == Callable("function", params, ret)
Println == Callable("built_in", <<"STRING", "WILDCARD">>, "NULL")
ReadLine == Callable("built_in", <<"STRING">>, "I64")

\* The leaves a program can have, of the types that have a token.
Tokens == {"I32", "I64", "F32", "F64", "STR", "STRING", "BOOL"}
IsCallable(leaf) ==
    /\ leaf.rule \in Functions
    /\ \E n \in {Len(leaf.means.of) - 1} \cap Nat, ret \in Tokens \union {"NULL"} :
          LET params == [i \in 1 .. n |-> leaf.means.of[i + 1].base]
          IN  /\ \A i \in 1 .. n : params[i] \in Tokens \union {"WILDCARD"}
              /\ leaf = Callable(leaf.rule, params, ret)
IsLeaf(leaf) ==
    \/ \E b \in Tokens : leaf \in {Literal(b), Variable(b), Parameter(b),
                                    ArrayVariable(leaf.type.size, b)}
    \/ IsCallable(leaf)

ASSUME GrammarsAssumption ==
    \A g \in DOMAIN Grammars :
       /\ Grammars[g].nodes \in Nat
       /\ \A leaf \in Grammars[g].leaves : IsLeaf(leaf)

Level(rule) ==
    CASE rule = "bor" -> 1 [] rule = "ban" -> 2 [] rule = "beq" -> 3 [] rule = "bno" -> 4
      [] rule = "exp" -> 5 [] rule = "ter" -> 6 [] OTHER -> 7
Uses(production) == production \in Productions
IsExpr(node, level) ==
    /\ node.rule \in Expressions
    /\ Level(node.rule) >= level
    /\ node.rule \in Functions => Uses("function_value")
IsStatement(node) ==
    \/ IsExpr(node, 1)
    \/ node.rule \in {"assign_stm", "update_stm", "while_stm", "single_if",
                      "for_stm", "ret_stmt", "function_def"}

(***************************************************************************)
(* The checks.                                                             *)
(***************************************************************************)
ExpectIfTyped(node, category) ==    \* mutant: NULL has any type
    IF node.type \in {Nil, Dangling} \/ CheckType(node.type, category) THEN "ok"
    ELSE node.blame
Expect(node, category) ==
    IF node.type \in {Nil, Dangling} THEN "crash"
    ELSE IF CheckType(node.type, category) THEN "ok" ELSE node.blame

Match(t, node) ==
    CASE CompareTypes(t, node.type) = "yes" -> "ok"
      [] CompareTypes(t, node.type) = "no" -> node.blame
      [] OTHER -> "crash"

\* Reading u.func of a type that is not a function finds no parameters.
Params(t) == IF t.base = "FUNC" THEN Tail(t.of) ELSE <<>>

\* check_params: is the list one argument, a longer list and its last one, or
\* two arguments?  Only the shape of the node is looked at.
Single(list) == Len(list.kids) <= 1 \/ list.rule = "array_index"
Pair(list) == ~ Single(list) /\ list.rule # "inputs"
Arguments(list) ==
    CASE list.rule = "none" -> <<>>
      [] list.rule # "none" /\ Single(list) -> <<list>>
      [] ~ Single(list) /\ list.rule = "inputs" -> list.kids
      [] Pair(list) -> IF Len(list.kids) > 2 THEN <<list.kids[1], list.kids[3]>> ELSE <<>>
Count(list) ==
    IF Pair(list) /\ Len(list.kids) <= 2 THEN -1 ELSE Len(Arguments(list))

\* The message for the first of several arguments names the type of the second.
Blamed(args, n) == args[IF n = 1 /\ Len(args) > 1 THEN 2 ELSE n]
Argument(args, n, params) ==
    IF n > Len(params) THEN "exit_3"
    ELSE CASE CompareTypes(args[n].type, params[n]) = "yes" -> "ok"
           [] CompareTypes(args[n].type, params[n]) = "no" /\ Blamed(args, n).type \notin {Nil, Dangling}
                 -> "exit_3"
           [] OTHER -> "crash"

ArgumentsFit(list, params) ==
    FirstOf([n \in DOMAIN Arguments(list) |-> Argument(Arguments(list), n, params)])
CheckParamsUncounted(list, params) == ArgumentsFit(list, params)    \* mutant
CheckParams(list, params) ==
    Then(ArgumentsFit(list, params), IF Count(list) < Len(params) THEN "exit_3" ELSE "ok")

\* type_array: the items are told apart in the same way.
ItemsBehindFirst(list) ==    \* mutant: the first item is not counted
    IF list.kids = <<>> THEN 0 ELSE IF list.rule = "items" THEN Len(list.kids) - 1 ELSE 1
ItemCount(list) ==
    IF list.kids = <<>> THEN 1 ELSE IF list.rule = "items" THEN Len(list.kids) ELSE 2
Element(list) == Resolved(IF list.kids = <<>> THEN list.type ELSE list.kids[1].type)
Items(list) ==
    IF list.rule = "none" \/ Element(list) = Nil THEN "crash"
    ELSE IF list.kids = <<>> THEN "ok"
    ELSE IF list.rule = "items"
         THEN FirstOf([i \in 2 .. Len(list.kids) |-> Match(Element(list), list.kids[i])])
         ELSE Match(Element(list), list.kids[3])

\* check_returns, for every value in order; NoNode is that of `return ;`.
CheckReturnValue(t, value) == Match(t, value)    \* mutant: of `return ;` too
CheckReturn(t, value) ==
    IF value.rule # NoValue THEN Match(t, value)
    ELSE IF t.base # "NULL" THEN "exit_3" ELSE "ok"

CheckReturns(t, body) ==
    Then(FirstOf([i \in DOMAIN body.returns |-> CheckReturn(t, body.returns[i])]),
         IF body.returns = <<>> /\ t.base # "NULL" THEN "exit_3" ELSE "ok")

(***************************************************************************)
(* The walk.                                                               *)
(***************************************************************************)
Init == /\ grammar \in DOMAIN Grammars
        /\ trees = <<>> /\ visited = 0 /\ exit = "no"

Running == exit = "no" /\ visited < MaxNodes
Has(n) == Running /\ Len(trees) >= n
Top(n, i) == trees[Len(trees) - n + i]     \* the i-th of the n trees on top
Above(n) == SubSeq(trees, n, Len(trees))

\* The n trees on top become the kids of a node; a node that ends the
\* compiler stays, without a type.
Visit(n, rule, kids, outcome, type) ==
    /\ trees' = Append(SubSeq(trees, 1, Len(trees) - n),
                       Node(rule, kids, IF outcome = "ok" THEN type ELSE Nil))
    /\ visited' = visited + 1
    /\ exit' = IF outcome = "ok" THEN "no" ELSE outcome
    /\ UNCHANGED grammar

\* Literals got their type from the lexer, identifiers get their symbol's.
Terminal ==
    /\ Running
    /\ \E leaf \in Leaves : trees' = Append(trees, leaf)
    /\ visited' = visited + 1
    /\ UNCHANGED <<exit, grammar>>

\* items: items , bor  and  inputs: inputs , bor
List(rule) ==
    /\ Has(2) /\ Uses(rule)
    /\ Top(2, 1).rule = rule \/ IsExpr(Top(2, 1), 1)
    /\ IsExpr(Top(2, 2), 1)
    /\ Visit(2, rule, Append(Members(Top(2, 1), rule), Top(2, 2)), "ok", Nil)

\* A list of one is the expression itself.
OneOf(node, rule) ==
    \/ node.rule = rule
    \/ /\ IsExpr(node, 1)
       /\ \/ node.kids = <<>>
          \/ node.rule = "array_index" /\ rule = "inputs"
          \/ Uses("single_compound")

\* `x!` has two kids, and what is read from a third or fourth is whatever the
\* memory of the node held.
Anything == Outcomes

Array ==
    /\ Has(1) /\ Uses("array")
    /\ OneOf(Top(1, 1), "items")
    /\ \E outcome \in IF IsBare(Top(1, 1)) THEN Anything ELSE {Items(Top(1, 1))} :
          Visit(1, "array", <<Token("lbracket"), Top(1, 1), Token("rbracket")>>, outcome,
                ArrayOf(ItemCount(Top(1, 1)), Element(Top(1, 1))))

EmptyArray ==
    /\ Running /\ Uses("empty_array")
    /\ Visit(0, "array", <<Token("lbracket"), NoNode, Token("rbracket")>>, Items(NoNode), Nil)

IndexOutcome(array, index) ==
    IF ~ CheckType(array.type, "ARRAY") THEN "exit_3"
    ELSE IF index.type = Nil THEN "crash"
    ELSE IF ~ CheckType(index.type, "I64") THEN "exit_3"
    ELSE IF array.type.of = <<>> THEN "crash" ELSE "ok"

ArrayIndex ==
    /\ Has(2) /\ Uses("array_index")
    /\ Top(2, 1).rule \in Idents /\ IsExpr(Top(2, 2), 1)
    /\ Visit(2, "array_index", <<Top(2, 1), Token("lbracket"), Top(2, 2), Token("rbracket")>>,
             IndexOutcome(Top(2, 1), Top(2, 2)), Resolved(Top(2, 1).type.of[1]))

\* A name is called: a function's, or any other.
Callee(node) == node.rule \in (IF Uses("variable_call") THEN Idents ELSE Functions)
CallOutcome(callee, list) == CheckParams(list, Params(callee.type))

Func ==
    /\ Has(2) /\ Uses("func")
    /\ Callee(Top(2, 1)) /\ OneOf(Top(2, 2), "inputs")
    /\ Visit(2, "func", <<Top(2, 1), Token("lpar"), Top(2, 2), Token("rpar")>>,
             CallOutcome(Top(2, 1), Top(2, 2)), Resolved(Top(2, 1).type))

EmptyFunc ==
    /\ Has(1) /\ Uses("empty_func")
    /\ Callee(Top(1, 1))
    /\ Visit(1, "func", <<Top(1, 1), Token("lpar"), NoNode, Token("rpar")>>,
             CallOutcome(Top(1, 1), NoNode), Resolved(Top(1, 1).type))

Macro ==
    /\ Has(2) /\ Uses("macro")
    /\ Callee(Top(2, 1)) /\ OneOf(Top(2, 2), "inputs")
    /\ Visit(2, "macro", <<Top(2, 1), Token("bang"), Token("lpar"), Top(2, 2), Token("rpar")>>,
             CallOutcome(Top(2, 1), Top(2, 2)), Resolved(Top(2, 1).type))

BareMacro ==
    /\ Has(1) /\ Uses("bare_macro")
    /\ Callee(Top(1, 1))
    /\ \E outcome \in Anything :
          Visit(1, "macro", <<Top(1, 1), Token("bang")>>, outcome, Resolved(Top(1, 1).type))

Operands(rule) ==
    /\ Has(2)
    /\ IsExpr(Top(2, 1), Level(rule)) /\ IsExpr(Top(2, 2), Level(rule) + 1)
Binary(rule, op, outcome, type) ==
    Visit(2, rule, <<Top(2, 1), Token(op), Top(2, 2)>>, outcome, type)

\* bor || ban, ban && beq
Logical ==
    \E rule \in {"bor", "ban"} :
       /\ Uses(rule) /\ Operands(rule)
       /\ Binary(rule, "and", Then(Expect(Top(2, 1), "BOOL"), Expect(Top(2, 2), "BOOL")),
                 Base("BOOL"))

Comparison ==
    /\ Uses("beq") /\ Operands("beq")
    /\ Binary("beq", "less", Match(Top(2, 1).type, Top(2, 2)), Base("BOOL"))

Not ==
    /\ Has(1) /\ Uses("bno")
    /\ IsExpr(Top(1, 1), 4)
    /\ Visit(1, "bno", <<Token("bang"), Top(1, 1)>>, Expect(Top(1, 1), "BOOL"), Base("BOOL"))

\* exp + ter, ter * fac: the left operand decides; of neither type, it is
\* reported, and the node has no type if that returns.
Numeric(node) == {b \in {"I64", "F64"} : CheckType(node.type, b)}
Arithmetic ==
    \E rule \in {"exp", "ter"} :
       /\ Uses(rule) /\ Operands(rule)
       /\ IF Top(2, 1).type = Nil THEN Binary(rule, "plus", "crash", Nil)
          ELSE IF Numeric(Top(2, 1)) = {} THEN Binary(rule, "plus", Top(2, 1).blame, Nil)
          ELSE \E b \in Numeric(Top(2, 1)) :
                  Binary(rule, "plus", Expect(Top(2, 2), b), Base(b))

Modulo ==
    /\ Uses("percent") /\ Operands("ter")
    /\ Binary("ter", "percent", Then(Expect(Top(2, 1), "I64"), Expect(Top(2, 2), "I64")), Nil)

Parentheses ==
    /\ Has(1) /\ Uses("parentheses")
    /\ IsExpr(Top(1, 1), 1)
    /\ Visit(1, "fac", <<Token("lpar"), Top(1, 1), Token("rpar")>>,
             IF Top(1, 1).type = Nil THEN "crash" ELSE "ok", Resolved(Top(1, 1).type))

Negation ==
    /\ Has(1) /\ Uses("minus")
    /\ IsExpr(Top(1, 1), 7)
    /\ Visit(1, "fac", <<Token("minus"), Top(1, 1)>>,
             IF Top(1, 1).type = Nil THEN "crash"
             ELSE IF Numeric(Top(1, 1)) # {} THEN "ok" ELSE Top(1, 1).blame, Nil)

\* let, static and const: the value against the declaration.  The grammar
\* wants an array literal behind the type of an array, and a literal in a
\* static.
AssignStm ==
    /\ Has(2) /\ Uses("assign_stm")
    /\ Top(2, 1).rule = "variable"
    /\ IF Top(2, 1).means.base = "ARRAY" THEN Top(2, 2).rule = "array"
       ELSE IsExpr(Top(2, 2), 1)
    /\ Visit(2, "assign_stm", <<Top(2, 1), Token("eq"), Top(2, 2)>>,
             Match(Top(2, 1).type, Top(2, 2)), Nil)

\* An array is updated without a check.
UpdateStm ==
    /\ Has(2) /\ Uses("update_stm")
    /\ Top(2, 1).rule \in {"variable", "array_index"} /\ IsExpr(Top(2, 2), 1)
    /\ CheckType(Top(2, 1).type, "ARRAY") => Uses("array_update")
    /\ Visit(2, "update_stm", <<Top(2, 1), Token("eq"), Top(2, 2)>>,
             IF CheckType(Top(2, 1).type, "ARRAY") THEN "ok"
             ELSE Match(Top(2, 1).type, Top(2, 2)), Nil)

RetStmt ==
    /\ Has(1) /\ Uses("ret_stmt")
    /\ IsExpr(Top(1, 1), 1)
    /\ Visit(1, "ret_stmt", <<Token("return"), Top(1, 1), Token("semicolon")>>, "ok", Nil)
EmptyRetStmt ==
    /\ Running /\ Uses("empty_ret_stmt")
    /\ Visit(0, "ret_stmt", <<Token("return"), Token("semicolon")>>, "ok", Nil)

\* The statements on top of the n-th tree are the body of what begins there.
Body(n) == Node("StatementList", Above(n + 1), Nil)
Heads == {n \in 1 .. Len(trees) : \A m \in n + 1 .. Len(trees) : IsStatement(trees[m])}
Block(n, rule, outcome) == Visit(Len(trees) - n + 1, rule, <<trees[n], Body(n)>>, outcome, Nil)

WhileStm ==
    /\ Running /\ Uses("while_stm")
    /\ \E n \in Heads :
          /\ IsExpr(trees[n], 1)
          /\ Block(n, "while_stm", Expect(trees[n], "BOOL"))

\* Line 134 asks for a rule `if_stm`, which no node has.
SingleIf ==
    /\ Running /\ Uses("single_if")
    /\ \E n \in Heads : IsExpr(trees[n], 1) /\ Block(n, "single_if", "ok")

\* bor .. bor, bor .. = bor
ForExpr ==
    /\ Has(2) /\ Uses("for_stm")
    /\ IsExpr(Top(2, 1), 1) /\ IsExpr(Top(2, 2), 1)
    /\ Binary("for_expr", "dots", Then(Expect(Top(2, 1), "I64"), Expect(Top(2, 2), "I64")), Nil)

ForStm ==
    /\ Running
    /\ \E n \in Heads : trees[n].rule = "for_expr" /\ Block(n, "for_stm", "ok")

FunctionDef ==
    /\ Running /\ Uses("function_def")
    /\ \E n \in Heads :
          /\ trees[n].rule = "function"
          /\ (\E m \in n + 1 .. Len(trees) : trees[m].rule = "function_def")
                => Uses("nested_function")
          /\ Block(n, "function_def",
                   CheckReturns(Resolved(trees[n].type), Body(n)))

Next ==
    \/ Terminal \/ \E rule \in {"items", "inputs"} : List(rule)
    \/ Array \/ EmptyArray \/ ArrayIndex
    \/ Func \/ EmptyFunc \/ Macro \/ BareMacro
    \/ Logical \/ Comparison \/ Not \/ Arithmetic \/ Modulo \/ Parentheses \/ Negation
    \/ AssignStm \/ UpdateStm \/ RetStmt \/ EmptyRetStmt
    \/ WhileStm \/ SingleIf \/ ForExpr \/ ForStm \/ FunctionDef

Spec == Init /\ [][Next]_vars

(***************************************************************************)
(* Properties.                                                             *)
(***************************************************************************)
\* The tree the walk left last; each tree was that once.
Accepted == IF exit = "no" /\ trees # <<>> THEN {Last(trees)} ELSE {}

(* Types: the tree of typecheck.c never holds a function's type except at  *)
(* the function's name; every use of a call, an element or a parenthesis   *)
(* has been resolved (typecheck.c 57, 68, 207-225, 265-268).               *)
TypeOK ==
    /\ visited \in 0 .. MaxNodes
    /\ exit \in {"no", "exit_3", "crash"}
    /\ Len(trees) <= visited
    /\ \A n \in DOMAIN trees :
          trees[n].type.base = "FUNC" => trees[n].rule \in Functions

(* What the checker accepts is well typed, but for what Overlooked and     *)
(* Mistaken name: no other branch of typecheck() and no other call of      *)
(* invalid_type_error() lets an ill typed tree pass.                       *)
Sound == \A node \in Accepted : node.quirks = {} => node.means # Ill

(* A program the checker rejects, or crashes on, is ill typed, unless it   *)
(* has one of the constructs of Mistaken.                                  *)
Complete == exit # "no" /\ "mistake" \notin Last(trees).quirks => Last(trees).means = Ill

(* What the comments promise of an `if` (typecheck.c 133), of % (182), of  *)
(* the search for a line to report (232), of a single argument (322) and   *)
(* of the types of parameters (symtab.c 427): a program made of one of     *)
(* these is accepted if it is well typed, and only then.                   *)
AcceptsWellTyped == trees # <<>> => (exit = "no" <=> Last(trees).means # Ill)

(* The type an accepted expression carries to intercode.c is the one the   *)
(* declarations give it.                                                   *)
Agrees ==
    \A node \in Accepted :
       node.rule \in Expressions /\ node.quirks = {} => node.type = node.means

(* intercode.c reads the type of the first operand of an arithmetic node,  *)
(* of the target of an update and the element type of an indexed array     *)
(* (intercode.c 345, 435, 445, 546) without a test for NULL: in an         *)
(* accepted tree they are there.                                           *)
TypedWhereRead ==
    \A node \in Accepted :
       /\ node.rule \in {"exp", "ter", "update_stm", "array_index"} => node.kids[1].type # Nil
       /\ node.rule = "array_index" => node.kids[1].type.of # <<>>
=============================================================================
