----------------------------- MODULE TypeRules -----------------------------
(***************************************************************************)
(* What it means for a program to be well typed, from the source's own     *)
(* declarations and for each construct on its own: the reference           *)
(* typecheck.c is measured against; and the constructs on which the two    *)
(* are known to differ.                                                    *)
(***************************************************************************)
EXTENDS Integers, Sequences

(***************************************************************************)
(* Types.  `of` is what a type is made of: an array's element type, a      *)
(* function's return type followed by its parameters' types.               *)
(***************************************************************************)
Type(base, size, of) == [base |-> base, size |-> size, of |-> of]
Base(b) == Type(b, 0, <<>>)
ArrayOf(n, elem) == Type("ARRAY", n, <<elem>>)
FunctionOf(params, ret) == Type("FUNC", 0, <<ret>> \o params)

Nil == Base("nil")             \* a NULL type
Dangling == Base("dangling")   \* the type of a NULL node: reading it crashes
Ill == Base("ill_typed")
Stm == Base("statement")

(***************************************************************************)
(* Nodes.  A left-recursive list is one node with its members as kids;     *)
(* elsewhere punctuation keeps its place among the kids.  `means` is the   *)
(* type a tree has by the rules below, `own` that of the returns in it     *)
(* that are not those of a nested function.                                *)
(***************************************************************************)
Functions == {"function", "built_in"}
Idents == {"variable", "parameter"} \union Functions
Expressions == {"bor", "ban", "beq", "bno", "exp", "ter", "fac", "func", "macro",
                "array", "array_index", "literal"} \union Idents

\* A list of one is the expression itself, an empty one is no node.
Members(list, rule) ==
    IF list.rule = "none" THEN <<>> ELSE IF list.rule = rule THEN list.kids ELSE <<list>>

\* The parts of a node whose types it depends on; the macro `x!` has no list.
Parts(rule, kids) ==
    CASE rule = "array" -> Members(kids[2], "items")
      [] rule = "func" -> <<kids[1]>> \o Members(kids[3], "inputs")
      [] rule = "macro" ->
            <<kids[1]>> \o (IF Len(kids) = 2 THEN <<>> ELSE Members(kids[4], "inputs"))
      [] rule \in {"bno", "fac"} -> <<kids[2]>>
      [] rule = "ret_stmt" -> IF Len(kids) > 2 THEN <<kids[2]>> ELSE <<>>
      [] rule \in {"bor", "ban", "beq", "exp", "ter", "array_index", "assign_stm",
                   "update_stm", "for_expr"} -> <<kids[1], kids[3]>>
      [] OTHER -> kids

Same(ts) == \A i \in DOMAIN ts : ts[i] = ts[1]
AllOf(ts, bases) == Same(ts) /\ ts[1] \in {Base(b) : b \in bases}
Accepts(param, t) == param = t \/ param = Base("WILDCARD")
CallFits(callee, args) ==
    /\ callee.base = "FUNC"
    /\ Len(args) + 1 = Len(callee.of)
    /\ \A i \in DOMAIN args : Accepts(callee.of[i + 1], args[i])
ReturnsFit(callee, returned) ==
    /\ returned \subseteq {callee.of[1]}
    /\ returned = {} => callee.of[1] = Base("NULL")

\* The type of a node from the types ts of its parts.  A return statement
\* has that of its value.
Judged(rule, kids, ts) ==
    LET Is(fits, t) == IF fits THEN t ELSE Ill
    IN  CASE rule \in {"bor", "ban", "bno"} -> Is(AllOf(ts, {"BOOL"}), Base("BOOL"))
          [] rule = "beq" -> Is(Same(ts), Base("BOOL"))
          [] rule \in {"exp", "ter"} ->
                Is(AllOf(ts, IF kids[2].rule = "percent" THEN {"I64"} ELSE {"I64", "F64"}), ts[1])
          [] rule = "fac" ->
                Is(kids[1].rule = "minus" => AllOf(ts, {"I64", "F64"}), ts[1])
          [] rule = "array" ->
                IF ts = <<>> THEN ArrayOf(0, Base("WILDCARD"))
                ELSE Is(Same(ts), ArrayOf(Len(ts), ts[1]))
          [] rule = "array_index" ->
                Is(ts[1].base = "ARRAY" /\ ts[2] = Base("I64"), ts[1].of[1])
          [] rule \in {"func", "macro"} -> Is(CallFits(ts[1], Tail(ts)), ts[1].of[1])
          [] rule \in {"assign_stm", "update_stm"} -> Is(Same(ts), Stm)
          [] rule \in {"while_stm", "single_if"} -> Is(ts[1] = Base("BOOL"), Stm)
          [] rule = "for_expr" -> Is(AllOf(ts, {"I64"}), Stm)
          [] rule = "ret_stmt" -> IF ts = <<>> THEN Base("NULL") ELSE ts[1]
          [] rule = "function_def" -> Is(ReturnsFit(ts[1], kids[2].own), Stm)
          [] OTHER -> Stm

Meaning(rule, kids) ==
    LET ts == [i \in DOMAIN Parts(rule, kids) |-> Parts(rule, kids)[i].means]
    IN  IF \E i \in DOMAIN ts : ts[i] = Ill THEN Ill ELSE Judged(rule, kids, ts)

Own(rule, kids) ==
    CASE rule = "ret_stmt" -> {Meaning(rule, kids)}
      [] rule = "function_def" -> {}
      [] OTHER -> UNION {kids[i].own : i \in DOMAIN kids}

(***************************************************************************)
(* The constructs that the checker gets wrong (a mistake), and those it    *)
(* only lets pass (a gap).  Lines are of typecheck.c.                      *)
(***************************************************************************)
\* f(a + b) stands for f(a, b), and [a + b] for [a, b]: 323, 387.
Compound(list, rule) ==
    list.rule \notin {rule, "array_index"} /\ Len(list.kids) > 1
CompoundArgument(n) ==
    \/ n.rule = "func" /\ Compound(n.kids[3], "inputs")
    \/ n.rule = "macro" /\ Len(n.kids) > 2 /\ Compound(n.kids[4], "inputs")
CompoundItem(n) ==
    n.rule = "array" /\ n.kids[2].rule # "items" /\ n.kids[2].kids # <<>>
\* An empty array crashes the checker: 387.
EmptyItems(n) == n.rule = "array" /\ n.kids[2].rule = "none"
\* `x!` is typed from memory nobody wrote: 97.
IsBare(n) == n.rule = "macro" /\ Len(n.kids) = 2
\* `%` and unary minus leave no type: 187, 217.
Untyped(n) ==
    \/ n.rule = "ter" /\ n.kids[2].rule = "percent"
    \/ n.rule = "fac" /\ n.kids[1].rule = "minus"
\* The condition of an `if` and the update of an array are not checked: 134, 128.
Unchecked(n) ==
    \/ n.rule = "single_if" /\ n.kids[1].type # Base("BOOL")
    \/ n.rule = "update_stm" /\ n.kids[1].type.base = "ARRAY"
                             /\ n.kids[1].type # n.kids[3].type
\* A function may stand for its result, a variable may be called: 63, 265.
Calls(n) == n.rule \in {"func", "macro"}
FunctionUse(n) ==
    \/ Calls(n) /\ n.kids[1].rule \notin Functions
    \/ \E i \in DOMAIN n.kids :
          n.kids[i].rule \in Functions /\ ~ (i = 1 /\ (Calls(n) \/ n.rule = "function_def"))
\* The returns of a nested function count as well: 85.
NoValue == "none"
Returned(v) == IF v.rule = NoValue THEN Base("NULL") ELSE v.means
Nested(n) ==
    /\ n.rule = "function_def"
    /\ \E i \in DOMAIN n.kids[2].returns : Returned(n.kids[2].returns[i]) \notin n.kids[2].own

\* Of a wrong type, it has no leaf to blame: 254.
Blameless(n) == n.rule \in Expressions /\ n.blame = "ok"
\* Of the elements of two arrays only the outermost type is compared: 290.
NestedArrays(n) == n.type.base = "ARRAY" /\ n.type.of # <<>> /\ n.type.of[1].base = "ARRAY"

Mistaken(n) == \/ CompoundArgument(n) \/ CompoundItem(n) \/ EmptyItems(n) \/ IsBare(n)
               \/ Untyped(n) \/ Unchecked(n) \/ FunctionUse(n) \/ Nested(n)
Overlooked(n) == Blameless(n) \/ NestedArrays(n)

\* What of this a tree contains.
Quirks(n) ==
    (IF Mistaken(n) THEN {"mistake"} ELSE {})
      \union (IF Overlooked(n) THEN {"gap"} ELSE {})
      \union UNION {n.kids[i].quirks : i \in DOMAIN n.kids}
=============================================================================
