------------------------------- MODULE SymTab -------------------------------
(***************************************************************************)
(* symtab.c: scope() and populate(), the pass that builds the tree of      *)
(* symbol tables, checks declarations and references, and leaves in every  *)
(* node the scope that typecheck() and intermediate_code() look names up   *)
(* from.                                                                   *)
(*                                                                         *)
(* The recursion of populate() is the stack todo.  The syntax tree is      *)
(* unfolded while it is visited: an action that visits a statement list    *)
(* chooses the next statement, any that feGrammar.y derives, so that the   *)
(* behaviours are the visits of every tree of at most MaxNodes statements, *)
(* functions and parameters.  Expressions matter only for the identifiers  *)
(* in them: each is empty or a single identifier.                          *)
(***************************************************************************)
EXTENDS Integers, Sequences, FiniteSets

CONSTANTS
    Names,     \* identifiers
    Builtins,  \* the functions make_built_ins binds, in order: name and nparams
    NoName,
    MaxNodes

ASSUME SymTabAssumption == /\ Builtins \in Seq([name : Names, nparams : Nat])
                           /\ NoName \notin Names
                           /\ MaxNodes \in Nat

VARIABLES
    scopes,      \* every SymbolTable created; scopes[1] is sym_root
    symbols,     \* every struct sym created
    symtab_top,  \* index of the scope on top; 0 is NULL
    curr_func,   \* index of the function params are counted for; 0 is NULL
    todo,        \* the nodes still to be visited, next one first
    exit,        \* "no" while the pass runs or has returned, else how it died
    nodes,       \* statements, functions and parameters visited
    refs         \* the identifiers visited, each with the symbol found

tables == <<scopes, symbols, symtab_top, curr_func>>
vars == <<tables, todo, exit, nodes, refs>>

-----------------------------------------------------------------------------
Kinds == {"builtin", "static", "fn", "param", "let", "for"}
Rules == {"crate", "function_def", "single_if", "else", "else_if", "while_stm", "for_stm"}
Symbol(n, kind, mut) ==
    [name |-> n, kind |-> kind, mut |-> mut, nparams |-> 0, table |-> symtab_top]

(* rule: the node the scope is entered for; owner: the function whose body *)
(* it is, 0 for a block.                                                   *)
NewScope(parent, rule, owner) ==
    [parent |-> parent, rule |-> rule, owner |-> owner, tbl |-> [n \in Names |-> 0]]

(* scope_lookup: the symbol that n means in scope s, 0 if it means none.   *)
Lookup(n, s) ==
    LET find[t \in 0 .. Len(scopes)] ==
            IF t = 0 THEN 0
            ELSE IF scopes[t].tbl[n] # 0 THEN scopes[t].tbl[n]
            ELSE find[scopes[t].parent]
    IN  find[s]

(* Mutant of symtab.c 319-332: only the current scope is looked at.        *)
RedefinedHere(n) == scopes[symtab_top].tbl[n] # 0

(* The three checks of make_entry_assign: current, enclosing, global scope.*)
Redefined(n) == \/ scopes[symtab_top].tbl[n] # 0
                \/ Lookup(n, symtab_top) # 0
                \/ scopes[1].tbl[n] # 0

(* A node of the tree: what it is, its identifier, and for the end of a    *)
(* call of populate() the scope that was on top when the call began, and   *)
(* how many there were.                                                    *)
Node(op, n) == [op |-> op, name |-> n, top |-> 0, made |-> 0]
Item(op) == Node(op, NoName)
Return == [op |-> "return", name |-> NoName, top |-> symtab_top, made |-> Len(scopes)]

Visit(op) == todo # <<>> /\ Head(todo).op = op
Before(items) == todo' = items \o Tail(todo)

(* The next tree of a list: it is visited, then the rest of the list.      *)
VisitNext(list) == /\ Visit(list)
                   /\ nodes < MaxNodes
                   /\ nodes' = nodes + 1

Die(how) == /\ exit' = how
            /\ todo' = <<>>
            /\ UNCHANGED <<tables, refs>>

(* scope_bind into table t of the tables ts.                               *)
Bind(ts, t, n, sym) == [ts EXCEPT ![t].tbl[n] = sym]

(* scope_enter: a new table below the one on top becomes the top.          *)
Enter(ts, rule, owner) == Append(ts, NewScope(symtab_top, rule, owner))

-----------------------------------------------------------------------------
(* scope(): the global scope with the built-ins, then populate(root).      *)
BuiltinNamed(n) == {b \in DOMAIN Builtins : Builtins[b].name = n}

Init ==
    /\ scopes = <<[parent |-> 0, rule |-> "crate", owner |-> 0,
                   tbl |-> [n \in Names |-> IF BuiltinNamed(n) = {} THEN 0
                                            ELSE CHOOSE b \in BuiltinNamed(n) : TRUE]]>>
    /\ symbols = [b \in DOMAIN Builtins |->
                     [name |-> Builtins[b].name, kind |-> "builtin", mut |-> FALSE,
                      nparams |-> Builtins[b].nparams, table |-> 1]]
    /\ symtab_top = 1
    /\ curr_func = 0
    /\ todo = <<Item("crate"), Item("rbrace")>>
    /\ exit = "no"
    /\ nodes = 0
    /\ refs = {}

-----------------------------------------------------------------------------
(* make_entry_assign, on a let, a static or a const.                       *)
Assign(list, n, kind, mut) ==
    /\ VisitNext(list)
    /\ \/ /\ Redefined(n)
          /\ Die("exit_3")
       \/ /\ ~ Redefined(n)
          /\ symbols' = Append(symbols, Symbol(n, kind, mut))
          /\ scopes' = Bind(scopes, symtab_top, n, Len(symbols'))
          /\ todo' = <<Node("ident", n), Item("expr")>> \o todo
          /\ UNCHANGED <<symtab_top, curr_func, exit, refs>>

Let(n, mut) == Assign("stmts", n, "let", mut)
Static(list, n) == Assign(list, n, "static", FALSE)

(* Mutant of symtab.c 92: the outermost function stays the current one.    *)
CurrentFunctionOutermost(f) == IF curr_func = 0 THEN f ELSE curr_func

(* The function whose parameters are counted once f's header is entered.   *)
CurrentFunction(f) == f

(* function_def: the name goes to the scope on top, the body to a new one. *)
(* The last tree of a crate is a function.                                 *)
FunctionDef(list, n, last) ==
    /\ IF last THEN list = "crate" /\ Visit(list) /\ nodes' = nodes + 1
               ELSE VisitNext(list)
    /\ \/ /\ Redefined(n)
          /\ Die("exit_3")
       \/ /\ ~ Redefined(n)
          /\ symbols' = Append(symbols, Symbol(n, "fn", FALSE))
          /\ scopes' = Enter(Bind(scopes, symtab_top, n, Len(symbols')),
                             "function_def", Len(symbols'))
          /\ symtab_top' = Len(scopes')
          /\ curr_func' = CurrentFunction(Len(symbols'))
          /\ todo' = <<Node("fn_name", n), Item("params"), Item("stmts"), Item("rbrace"),
                       Return>> \o (IF last THEN Tail(todo) ELSE todo)
          /\ UNCHANGED <<exit, refs>>

(* make_entry_param: bound without any check, counted for curr_func.       *)
FnParam(n) ==
    /\ VisitNext("params")
    /\ symbols' = Append([symbols EXCEPT ![curr_func].nparams = @ + 1],
                         Symbol(n, "param", FALSE))
    /\ scopes' = Bind(scopes, symtab_top, n, Len(symbols'))
    /\ todo' = <<Node("param_name", n)>> \o todo
    /\ UNCHANGED <<symtab_top, curr_func, exit, refs>>

(* Mutant of symtab.c 531: the new table is not pushed.                    *)
OpenBlockUnpushed(rule, parts, after) ==
    /\ scopes' = Enter(scopes, rule, 0)
    /\ todo' = parts \o <<Return>> \o after
    /\ UNCHANGED <<symbols, symtab_top, curr_func, exit, refs>>

(* A construct with a block: its scope is entered before its parts are     *)
(* visited, and left where the '}' of the block is.                        *)
OpenBlock(rule, parts, after) ==
    /\ scopes' = Enter(scopes, rule, 0)
    /\ symtab_top' = Len(scopes')
    /\ todo' = parts \o <<Return>> \o after
    /\ UNCHANGED <<symbols, curr_func, exit, refs>>

SingleIf ==
    \/ /\ VisitNext("stmts")
       /\ OpenBlock("single_if", <<Item("expr"), Item("stmts"), Item("rbrace")>>,
                    <<Item("else")>> \o todo)
    \/ /\ Visit("single_if")
       /\ OpenBlock("single_if", <<Item("expr"), Item("stmts"), Item("rbrace")>>,
                    <<Item("else")>> \o Tail(todo))
       /\ UNCHANGED nodes

Else ==
    /\ Visit("else")
    /\ OpenBlock("else", <<Item("stmts"), Item("rbrace")>>, Tail(todo))
    /\ UNCHANGED nodes

(* ELSE if_type_stm: the scope is entered, and the only '}' closes the if. *)
ElseIfType ==
    /\ VisitNext("else")
    /\ OpenBlock("else_if", <<Item("single_if")>>, Tail(todo))

WhileStm(empty) ==
    /\ VisitNext("stmts")
    /\ IF empty THEN Die("exit_3")
       ELSE OpenBlock("while_stm", <<Item("expr"), Item("stmts"), Item("rbrace")>>, todo)

(* for_stm: the counter is bound in the new scope, mutable, unchecked.     *)
ForStm(n) ==
    /\ VisitNext("stmts")
    /\ symbols' = Append(symbols,
                         [Symbol(n, "for", TRUE) EXCEPT !.table = Len(scopes) + 1])
    /\ scopes' = Bind(Enter(scopes, "for_stm", 0), Len(scopes) + 1, n, Len(symbols'))
    /\ symtab_top' = Len(scopes')
    /\ todo' = <<Node("ident", n), Item("expr"), Item("expr"), Item("stmts"), Item("rbrace"),
                 Return>> \o todo
    /\ UNCHANGED <<curr_func, exit, refs>>

-----------------------------------------------------------------------------
Found(n, how) == refs' = refs \cup {[name |-> n, scope |-> symtab_top, how |-> how,
                                     symbol |-> Lookup(n, symtab_top)]}

(* Mutant of symtab.c 209: any symbol may be updated.                      *)
KnownSymbol(f) == f # 0

Updatable(f) == f # 0 /\ symbols[f].mut

(* update_stm.  For a rejected array target the message reads the text of  *)
(* kids[0]->leaf, which is NULL: kids[0] is the array_index node.          *)
UpdateStm(n, array) ==
    LET accepted == Updatable(Lookup(n, symtab_top))
    IN  /\ VisitNext("stmts")
        /\ \/ /\ ~ accepted
              /\ Die(IF array THEN "null_dereference" ELSE "exit_3")
           \/ /\ accepted
              /\ Found(n, "update")
              /\ todo' = <<Node("ident", n), Item("expr"), Item("expr")>> \o todo
              /\ UNCHANGED <<tables, exit>>

(* An IDENT leaf.                                                          *)
Ident ==
    /\ \E op \in {"ident", "fn_name", "param_name"} : Visit(op)
    /\ UNCHANGED nodes
    /\ LET n == Head(todo).name
       IN  \/ /\ Lookup(n, symtab_top) = 0
              /\ Die("exit_3")
           \/ /\ Lookup(n, symtab_top) # 0
              /\ Found(n, Head(todo).op)
              /\ Before(<<>>)
              /\ UNCHANGED <<tables, exit>>

ExprStm ==
    /\ VisitNext("stmts")
    /\ todo' = <<Item("expr")>> \o todo
    /\ UNCHANGED <<tables, exit, refs>>

Expr ==
    /\ Visit("expr")
    /\ \/ Before(<<>>)
       \/ \E n \in Names : Before(<<Node("ident", n)>>)
    /\ UNCHANGED <<tables, exit, nodes, refs>>

(* Mutant of symtab.c 548: the table is destroyed when its scope is left.  *)
CloseBraceDestroying ==
    /\ Visit("rbrace")
    /\ symtab_top' = scopes[symtab_top].parent
    /\ scopes' = [scopes EXCEPT ![symtab_top].tbl = [n \in Names |-> 0]]
    /\ Before(<<>>)
    /\ UNCHANGED <<symbols, curr_func, exit, nodes, refs>>

(* A '}' leaf: scope_exit.                                                 *)
CloseBrace ==
    /\ Visit("rbrace")
    /\ symtab_top' = scopes[symtab_top].parent
    /\ Before(<<>>)
    /\ UNCHANGED <<scopes, symbols, curr_func, exit, nodes, refs>>

(* populate() returns; or a list, an else is absent: a NULL node.          *)
Skip ==
    /\ \E op \in {"return", "stmts", "params", "else"} : Visit(op)
    /\ Before(<<>>)
    /\ UNCHANGED <<tables, exit, nodes, refs>>

Terminated == todo = <<>> /\ UNCHANGED vars

Next ==
    \/ \E n \in Names :
          \/ \E mut \in BOOLEAN : Let(n, mut)
          \/ \E list \in {"crate", "stmts"} :
                Static(list, n) \/ \E last \in BOOLEAN : FunctionDef(list, n, last)
          \/ FnParam(n)
          \/ ForStm(n)
          \/ \E array \in BOOLEAN : UpdateStm(n, array)
    \/ SingleIf
    \/ Else
    \/ ElseIfType
    \/ \E empty \in BOOLEAN : WhileStm(empty)
    \/ Ident
    \/ ExprStm
    \/ Expr
    \/ CloseBrace
    \/ Skip
    \/ Terminated

Spec == Init /\ [][Next]_vars

-----------------------------------------------------------------------------
(* Types; and while nodes are left there is a scope on top: no '}' pops    *)
(* the global scope before the tree is done.                               *)
TypeOK ==
    /\ scopes \in Seq([parent : 0 .. Len(scopes), rule : Rules, owner : 0 .. Len(symbols),
                       tbl : [Names -> 0 .. Len(symbols)]])
    /\ \A s \in DOMAIN scopes : scopes[s].parent < s
    /\ symbols \in Seq([name : Names, kind : Kinds, mut : BOOLEAN, nparams : Nat,
                        table : DOMAIN scopes])
    /\ symtab_top \in 0 .. Len(scopes)
    /\ todo # <<>> => symtab_top # 0
    /\ curr_func \in 0 .. Len(symbols)
    /\ exit \in {"no", "exit_3", "null_dereference"}
    /\ nodes \in 0 .. MaxNodes + 1
    /\ refs \in SUBSET [name : Names, scope : DOMAIN scopes, symbol : DOMAIN symbols,
                        how : {"ident", "fn_name", "param_name", "update"}]

(* typecheck() and intermediate_code() look every identifier up again,     *)
(* from node->scope, once all tables are complete: they find the symbol    *)
(* populate() found when only part of the program had been declared.       *)
(* The names in a function's header are another matter: see the README.    *)
StableReferences ==
    \A r \in refs : r.how \in {"ident", "update"} => Lookup(r.name, r.scope) = r.symbol

(* "all idents should have a reference in the symbol table" (typecheck.c   *)
(* 24), those of headers too, whatever was declared since.                 *)
ReferencesResolve == \A r \in refs : Lookup(r.name, r.scope) # 0

(* The variable that the later passes assign to is a mutable one.          *)
UpdatesAreMutable ==
    \A r \in refs : r.how = "update" =>
        LET s == Lookup(r.name, r.scope) IN s # 0 /\ symbols[s].mut

(* check_params of typecheck.c relies on it: nparams of a function is the  *)
(* number of parameters in its own header, also when functions nest and    *)
(* curr_func is not restored behind the inner one.                         *)
OwnParams(f) == {p \in DOMAIN symbols : /\ symbols[p].kind = "param"
                                        /\ scopes[symbols[p].table].owner = f}
ParamsCounted ==
    \A f \in DOMAIN symbols : symbols[f].kind = "fn" =>
        symbols[f].nparams = Cardinality(OwnParams(f))

(* "rules which create a new scope, recurse, and exit scope after recurse  *)
(* returns" (symtab.c 75): when populate() returns from such a node, the   *)
(* scope on top is the one that was on top when it was called.             *)
ScopesBalanced == Visit("return") => symtab_top = Head(todo).top

(* The else of an `else if` is the only node that leaves a scope entered:  *)
(* when populate() returns, the scope on top lies deeper by as many levels *)
(* as there were such elses in the call, and no more.                      *)
Depth(s) ==
    LET level[t \in 0 .. Len(scopes)] == IF t = 0 THEN 0 ELSE 1 + level[scopes[t].parent]
    IN  level[s]
ElseIfsSince(made) == {s \in made + 1 .. Len(scopes) : scopes[s].rule = "else_if"}
OnlyElseIfLeaks ==
    Visit("return") => Depth(symtab_top) = Depth(Head(todo).top)
                                             + Cardinality(ElseIfsSince(Head(todo).made))
=============================================================================
