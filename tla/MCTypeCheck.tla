---------------------------- MODULE MCTypeCheck ----------------------------
(***************************************************************************)
(* Leaves and productions for TLC.                                         *)
(***************************************************************************)
EXTENDS TypeCheck

AllLeaves ==
    {Literal("I64"), Literal("BOOL"), Literal("STRING"), Variable("F64"), Parameter("BOOL"),
     ArrayVariable(1, "F64"), Function(<<"I64">>, "BOOL"), ReadLine}
AllProductions ==
    {"items", "inputs", "single_compound", "array", "empty_array", "array_index",
     "func", "empty_func", "macro", "bare_macro", "function_value", "variable_call",
     "bor", "ban", "beq", "bno", "exp", "ter", "percent", "parentheses", "minus",
     "assign_stm", "update_stm", "array_update", "ret_stmt", "empty_ret_stmt",
     "while_stm", "single_if", "for_stm", "function_def", "nested_function"}

\* What the checker decides as the rules do.
CoreLeaves ==
    {Literal("I64"), Literal("BOOL"), Variable("F64"), ArrayVariable(1, "I64"),
     Function(<<"I64">>, "F64")}
CoreProductions ==
    {"array", "array_index", "func", "empty_func", "macro",
     "bor", "bno", "exp", "ter", "parentheses",
     "assign_stm", "update_stm", "while_stm", "for_stm"}

ListLeaves == {Literal("I64"), Literal("F64"), ArrayVariable(3, "F64"),
               Function(<<"I64", "F64">>, "I64"), Function(<<"F64", "I64", "I64">>, "F64")}
ListProductions == {"items", "inputs", "array", "func", "exp", "assign_stm"}

FunctionLeaves == {Literal("I64"), Literal("F64"), Function(<<>>, "NULL"), Function(<<>>, "I64")}
FunctionProductions == {"ret_stmt", "empty_ret_stmt", "function_def", "while_stm", "exp"}

\* What else the checker does not reject without a reason.
CompleteLeaves == CoreLeaves \union {Println, Literal("STRING")}
CompleteProductions ==
    (CoreProductions \ {"bor", "while_stm", "for_stm"}) \union
    {"ban", "beq", "inputs", "function_value", "variable_call", "array_update", "single_if"}

Grammar(leaves, productions, nodes) ==
    [leaves |-> leaves, productions |-> productions, nodes |-> nodes]
MCGrammars ==
    [all |-> Grammar(AllLeaves, AllProductions, 5),
     core |-> Grammar(CoreLeaves, CoreProductions, 6),
     complete |-> Grammar(CompleteLeaves, CompleteProductions, 5),
     lists |-> Grammar(ListLeaves, ListProductions, 7),
     functions |-> Grammar(FunctionLeaves, FunctionProductions, 7)]

\* One construct each that the checker decides otherwise than it says:
\* f(1 + 1), if 1 {}, 1 % 1 + 1, let x: f64 = 1 < 1, and a bool parameter.
PromisedGrammars ==
    [argument |-> Grammar({Literal("I64"), Function(<<"I64">>, "I64")},
                          {"exp", "func", "single_compound"}, 5),
     condition |-> Grammar({Literal("I64"), Literal("BOOL")}, {"single_if"}, 3),
     modulo |-> Grammar({Literal("I64")}, {"exp", "percent"}, 5),
     blame |-> Grammar({Literal("I64"), Variable("F64")}, {"beq", "assign_stm"}, 5),
     parameter |-> Grammar({Parameter("BOOL")}, {"bno"}, 2)]
=============================================================================
