# fec: a verification development

`fec` (src/Code) compiles a subset of Rust ("Irony") to C and calls gcc on the
result. It is a C program of about 5,200 lines: six passes over one syntax tree,
sharing the tree, the symbol tables and a few globals, and a driver that forks
gcc. This directory holds TLA+ models of its passes and of the driver, TLC runs
over small instances and TLAPS proofs.

## The system

| component | state it keeps | operations | depends on |
|---|---|---|---|
| `main.c` | flags, the files named after the source | parse the flags, run the passes, `fork`/`exec` gcc, `wait`, remove the C file | everything |
| `rustlex.l` | line, input, token list | one token per call of `yylex`; `checkRange`, `deescape` | the regions of `tac.c` |
| `feGrammar.y` | `root` | builds the tree; `yyerror` exits with 2 | lexer |
| `hash/ht.c` | `entries`, `capacity`, `length` | create, destroy, get, set (with growth), iterate | malloc |
| `symtab.c` | `symtab_top`, `curr_func`, `sym_root`, the tree of tables | `scope()` = built-ins + `populate(root)`: declare, resolve, check mutability | ht.c, the tree |
| `typecheck.c`, `type.c` | `type` of every node | `typecheck()`: bottom-up types, parameter and return checks | symbol tables |
| `intercode.c`, `tac.c` | `first`, `follow`, `ontrue`, `onfalse`, `addr`, `icode` of every node; the string, float, global and per-function regions | `assign_first`, `assign_follow`, `assign_icode`, `make_globals` | symbol tables, types |
| `finalcode.c` | the output file, the flags of the pending parameters | one C statement per TAC instruction; the regions as initialisers | the TAC list, symbol tables |
| `dot.c` | none | prints the tree | |

The passes run one after the other. A pass never sees the state of a later
one, but each relies on what an earlier one left: `typecheck` and
`intermediate_code` look every identifier up again from `node->scope`, after
all tables are complete; `check_params` trusts `nparams`; code generation
trusts types and that every label it jumps to is attached to a node whose code
is emitted; a literal's address is fixed by the lexer, long before its region
is printed. Every error ends the program: 1 lexical, 2 syntax, 3 semantic, 4
out of memory.

## What is hard here

* **a pass reads what an earlier one left, later.** `populate()` resolves a
  name while half of the program is declared, `typecheck()` and
  `intermediate_code()` resolve it again when all of it is. `symtab_top` and
  `curr_func` are globals that every return path has to leave right.
* **labels travel down the tree before the code exists.** `assign_follow` hands
  `first`, `follow`, `ontrue` and `onfalse` from node to node; a node that
  changes its own label after its parent has passed it on breaks a jump far away.
* **calls share one parameter array.** `paroff` is a counter in the *generated*
  program; which parameters it counts depends on the order in which nested calls
  are laid out.
* **a float is a pointer** in the generated program, into the float region or
  at the slot of the expression that computed it, and that slot is written again
  on the next turn of a loop.
* **a type may be missing.** Several branches of `typecheck()` leave NULL, and
  later branches and passes dereference it.
* **a table that grows in the middle of an insertion, and may fail to.**
* **three processes and one file.** The parent removes the C file that gcc, its
  child, reads. A child whose `execv` fails goes on as a second compiler and
  removes it too; with `-s` nobody waits for gcc, and the next invocation writes
  a file of the same name; `wait` throws the status away.

What makes each component correct:

| component | correct means |
|---|---|
| `ht.c` | it is a map; a failed call changes nothing; a key is found again wherever probing put it and whatever growth did to it; every loop ends |
| `symtab.c` | every scope that is entered is left; a name means the same to all passes; only mutable variables are updated; a function has the parameters of its own header |
| `typecheck.c` | exactly the well typed programs are accepted, and an accepted one has a type at every node that later passes read |
| `intercode.c`, `tac.c`, `finalcode.c` | the generated C program is one gcc accepts, reads nothing unassigned, prints what the source says and ends when the source does |
| `rustlex.l`, the regions | the running program finds at a literal's address what the literal says; `deescape` never leaves its buffers |
| `main.c` | every invocation returns; gcc finds the C file complete; the file made is the one of this source; nothing is left behind |

## The modules

| module | what it is | source |
|---|---|---|
| `KVMap` | abstract: a map with atomic get, set and iteration; set may fail | the promise of `ht.h` |
| `HashTable` | one step per turn of a probing, rehashing or iterating loop; refines `KVMap` | `hash/ht.c` 10-197 |
| `HashTableProofs` | the inductive invariant, the safety theorems, the refinement theorem | |
| `SymTab` | `scope()` and `populate()` on every small tree | `symtab.c`, the rules of `feGrammar.y` |
| `SymTabStack`, `SymTabProofs` | facts about lookups and depths in a tree of tables; what a step does to the stack; the inductive invariant and the theorems | |
| `TypeRules` | what the type of a tree is by the rules of the language, and where the checker is known to differ | the reference, not a model of code |
| `TypeCheck` | `typecheck()` on every small tree, built bottom-up; the properties that compare it with the rules | `typecheck.c`, `type.c` |
| `TypeProofs` | the inductive invariant and the theorems of `TypeCheck` | |
| `Tac` | addresses, instructions, the size of the global region | `tac.c` |
| `InterCode` | pure operators: a tree to three-address code | `intercode.c`, `tac.c` |
| `Machine` | a state machine that runs any three-address code as the printed C would; what it needs of the code | `finalcode.c` |
| `MachineProofs` | the inductive invariant and the theorems of `Machine` | |
| `Source` | what a source program means | the reference, not a model of code |
| `Compiler` | composes `InterCode`, `Machine` and `Source`; the back end's properties | |
| `Literals` | a literal from its text to the C program's regions | `rustlex.l`, `tac.c` 283-305, `finalcode.c` 72-146 |
| `LiteralRules` | what a text means, how gcc reads an initialiser, and the properties | the reference |
| `LiteralsProofs` | what the printing of a region and gcc's reading of it compute, for regions of every size; the inductive invariants and the theorems of `Literals` | |
| `LeastNumber` | the least number principle: induction for recursive functions, in the form the provers can use | |
| `Build` | abstract: a sequence of builds, nothing left behind | the promise of `fec file.rs` |
| `Driver` | parent, child and gcc of a series of invocations; refines `Build` | `main.c` 42-128 |
| `DriverProofs` | the inductive invariant, the safety theorems, the refinement theorem | |
| `MCHashTable`, `MCSymTab`, `MCTypeCheck`, `MCCompiler`, `MCLiterals` | instances for TLC | |

### HashTable

`entries`, `capacity`, `length` are the fields of `struct ht`; `fresh` and `i`
the locals of `ht_expand`; `probe` key, value and index of the loop that runs
(`ht_get`, or `ht_set_entry` on either array); `hti` the iterator. `pc` says
which loop a call is in. Each call of `ht.h` is an action (`GetCall`,
`SetCall`, ...), each loop turn another (`Advance`, `RehashMove`, ...), each
failing allocation a third (`ExpandFails`, `InsertFails`). Strings are members
of `Keys`; `hash_key` is the constant function `Hash`, about which nothing is
assumed. `capacity * 2` wraps at `SizeMax + 1`, and the code's test for that is
`ExpandFails`.

### SymTab

The recursion of `populate()` is the stack `todo`, and the tree is not given
beforehand: an action that visits a statement list chooses the next statement
among those the grammar derives, so that a run visits every tree of at most
`MaxNodes` statements, functions and parameters. `scopes` holds the tables in
the order of their creation, `symbols` the bound symbols, `refs` every
resolution of a name: what the later passes look up again. `exit` is how the
compiler ended.

`OnlyElseIfLeaks` says what the code does about scopes: when `populate()`
returns, the top lies deeper by exactly the number of `else if`s in the call.
`ScopesBalanced` is the comment's claim, which they break.

`StableReferences` leaves out the names in a function's *header*. Their nodes
carry the function's own scope, so that `typecheck.c` 26 finds a parameter, or
a local declared later, of the function's own name before the function.
`ReferencesResolve` does cover them: whatever they find, they find something.

### TypeCheck and TypeRules

The order in which a post-order walk leaves nodes is the order of a bottom-up
derivation. So `trees` holds the trees the walk has left, an action is the branch
of `typecheck()` for one rule applied to the trees on top, and `exit` is "no",
"exit_3", or "crash" where NULL is dereferenced. A run picks one of `Grammars`
(leaves, productions, a bound on the nodes) and builds every tree over it; where
the grammar would not derive a tree the action is disabled (`IsExpr` and the
precedence levels). `GrammarsAssumption` says that the leaves are ones a program can
have: literals, names and built-ins of types that have a token, with the types the
checker reads for them (`FromToken`).

What a recursive function of `typecheck.c` finds below a node is an attribute the
node gets when it is made, from those of its kids: `blame` is what
`invalid_type_error()` does when it is called on the node (exit, crash on a leaf or a
parenthesis that has no type, or return because no leaf is to blame), `returns` the values that `check_returns()` visits below
it, in order. A left-recursive list of the grammar is one node with its members as
kids, so that the recursion of `check_params()` and `type_array()` along it is one
function on that sequence (`CheckParams`, `Items`); everywhere else the kids keep the
places the C code indexes.

`TypeRules` adds three more attributes, which the checker's part only hands on:
`means`, the type of a tree by the rules of the language, `own`, those of its own
returns, and `quirks`. Checker and rules
disagree on a number of constructs; these are named one by one, with their lines,
in `Mistaken` and `Overlooked`, `quirks` says whether a tree contains any, and the
passing properties say that there are no others:
`Sound` (an accepted tree without them is well typed), `Complete` (a rejected one
is not, unless it contains a mistake), `Agrees` (with the same type), `TypedWhereRead`
(no NULL where `intercode.c` reads a type). None of them says anything about a tree
with a quirk. Where a comment of the code promises the rule and the checker breaks it,
`AcceptsWellTyped` states it without the exception, and a violation run shows the
tree.

### InterCode

A tree is a record, `op` its rule. `assign_first`, `assign_follow` and
`assign_icode` are three traversals of the code and one recursion here: what a
node inherits (its path, which names its labels, `ontrue`, `onfalse`, `follow`)
are parameters; what it synthesises (`code`, `addr`) and the state that is
threaded through (`stacksize`, the symbols' `addr` and `arrbase`) are the result.
`genlabel()` counts; here a label is the path of its node and the attribute that
holds it. `append` on linked lists is concatenation. An offset is counted in
slots of eight bytes. An address carries the type that decides how `atos()` prints
it, and the address of its index. The operators are `RECURSIVE`, so this module is
for TLC only; a result that is used twice is passed to an operator instead of
being named in a LET, which keeps the expression tree that TLC's coverage
statistics walk small.

### Machine

A frame is a C function's `local`, `locparams` and `paroff`; `par` is the
caller's `locparams`, passed by value, since a callee reads it only in its first
statement. One action per kind of instruction that `codegen_recur` prints. `Read`
is what the operand `atos()` prints evaluates to, `Pointer` what `atos_addr()`
prints; a pointer is the address it points to, so that two floats alias exactly
when the C program's pointers do. An element nobody assigned is `Junk`; reading
it, an index outside its array, or writing a parameter behind `locparams`, is
undefined behaviour in C, so the machine stops there and `Defined` says that it never
comes to that. `IntLimit`
stands for 2^31: a function returns a C `int`. A float is a small integer: what is
checked is which float is read, not how it rounds.

The machine does not know `InterCode`: `code` is any function from names to
instruction sequences, and `Compiler` is the one that sets it to
`IntermediateCode(...)`. What the machine needs of the code are two statements about
text: `GccAccepts` (labels, jumps, where a function begins and ends) and `LaidOut`
(`AddressesFit`: every offset lies in the array the function declares;
`ParametersFit`: the parameters pending at an `O_PARM`, counted along the text, are
fewer than the slots of `locparams`, calls come from procedures only, and as many are
pending at a label as at every jump to it). `CodeFits` is `LaidOut` of the code that
is loaded.

### Source

A big-step evaluator, bounded by `Fuel` calls and loop turns: operands left to
right, short-circuit `&&` and `||`, bounds of a `for` computed once, an assignment
a copy, a division by zero the end of the run. It shares nothing with `InterCode`
but the shape of trees.

### Literals and LiteralRules

A run is a program's literals, one after the other. `LexString` and `LexChar` are
the lexer's rules on the text between the quotes (first match wins, bad escapes
are rejected), `Copy` and `Deescape` the turns of `deescape()`'s loop,
`AllocString` its end and `alloc_string`, `LexFloat` `alloc_float`, `LexInteger`
`checkRange`. `Codegen` prints the two regions as C initialisers, character by
character where an escape sequence is at stake. `GccString` and `GccFloat` read them
back, `Meant` says what a text stands for.

### Driver and Build

A shell invokes the compiler `N` times on one source file, which is edited in
between: a file's content is the number of the invocation it was made from.
`pc` and `child` are the program counters of the parent and of its child, `cfile`
what the C file holds (`Partial` between `fopen` and `fclose`), `input` what each
gcc has read, `product` whose work the executable and the object file are, `ic` how
often the intermediate code was written: the child of a failed `execv` has a copy
of the parent's buffer. Each system call is an action, so that the parent, the
child and a gcc that was left behind by `-s` interleave freely. gcc is external:
it reads its input at one moment, and then delivers, or fails and may remove what was
there.

`Build` is what a user expects of `fec file.rs` without `-s`. `ImplementsBuild`
says that as long as no invocation so far had `-s`, every step is one of
`Build`'s or changes nothing it shows.

## The runs

| run | checks | instance |
|---|---|---|
| `hash_table` | `TypeOK`, `KeysReachable`, `RoomToProbe`, `ImplementsMap`, `CallsReturn` | four keys of which three collide and wrap around, two values, capacities 2, 4, 8; the next doubling overflows (`SizeMax` 15) and must fail |
| `symtab` | `TypeOK`, `StableReferences`, `ReferencesResolve`, `UpdatesAreMutable`, `ParamsCounted`, `OnlyElseIfLeaks` | every tree of at most 4 nodes over two names and a built-in |
| `types` | `TypeOK`, `Sound`, `Complete`, `Agrees`, `TypedWhereRead` | every tree over five grammars, of 5 to 7 nodes |
| `compiler` | `TypeOK`, `RunsAsWritten`, `GccAccepts`, `CodeFits`, `ParametersCounted`, `Defined`, `Terminates` | 3295 programs, about 149,000 states |
| `literals` | `TypeOK`, `EscapesKnown`, `RegionsDisjoint`, `PlainLiteralsIntact` | two literals of any kind; strings of up to five characters |
| `driver` | `TypeOK`, `GccKeepsItsInput`, `BuiltOnReturn`, `CFileOnReturn`, `CompilerReturns`, `ImplementsBuild` | two invocations, every flag, every failure |

**Why the bounds are enough.** *Hash table*: growth happens twice, once with a run
that wraps around the array's end, and once it is refused; three keys on one
home and one in the middle of their run are what a displaced chain needs. *Symbol
tables*: four nodes hold a declaration, a block that shadows it, a use behind the
block and an update, and two nested functions with a parameter. *Types*: a branch
looks at a node, its children and, in lists, its grandchildren; five nodes put every
rule below and above every other, seven give lists of three items or arguments to
calls of three parameters, and functions with several returns at different depths.
*Back end*: every condition is one to four operators over a variable, a comparison, a
constant and an expression that *traps if it is evaluated* (the repository's `if.rs`
tests short-circuiting the same way), so skipping and not skipping an operand differ;
every condition appears in an `if` with and without else, an `else if` chain, an
`if` inside an `if` and a `while`, with each value of the variables; loops run
zero to three times, inclusive or not, with inner loops and inner returns, from and to
a constant, a computed value (above only) or a variable, which the code reads again on
every turn; calls are nested in arguments, recursive, and mixed with printing; float steps
(copies, sums, products, `+=`, a global) follow one another in threes and in loops;
array steps (element from elements, literal and variable index on either side, a
call as the value) follow one another in threes and in loops that also make a new
array on every turn. *Literals*: two places are what "behind" needs, and no escape
sequence is longer than two characters. *Driver*: an invocation shares files with
the one before it only, and a third adds no new pair.

**What the programs of `compiler` leave out**, because the compiler is known to
fail on it: the programs of its three violation runs below, a variable bound that the
body of the loop changes among them, and the constructs listed after them; `%`, unary minus and a single compound argument (the type checker does
not survive them); a boolean *value* built with `||`, `&&` or `!` (`let b: bool = x
|| y`: no address holds it); a call as the whole condition (no jump is emitted); a
float copied in a loop. Programs whose values leave `int` and names declared twice
in one function are left out too.

**Fairness.** `HashTable` assumes weak fairness of `Step`, the turns of the loop
a call is in, and none of `Call`: nobody has to call. `Machine` assumes weak
fairness of `Work`, the next instruction. Both say only that a processor that
runs a sequential program keeps running it. `Driver` assumes weak fairness of each
parent and of each child, so that the system schedules every process and gcc ends;
none of the shell, which need not invoke the compiler again. `SymTab`, `TypeCheck`
and `Literals` state no liveness: they are walks over a finite input.

**Deadlock** is checked in every run but those of `TypeCheck`, where a run ends
when the tree is as large as allowed or the checker has exited. The other modules
have a final step that stutters once the pass, or the program, has ended.

### Where code and comments disagree

Each of these runs checks one property, and TLC finds it violated.

| run | property | what happens |
|---|---|---|
| `else_if_leaks_scope` | `ScopesBalanced` | `else if` enters two scopes and leaves one (`symtab.c` 140) |
| `rejected` | `GccAccepts` | gcc rejects `fn f() {}`: labels in front of the function (`intercode.c` 78); `else {}`: a label is placed twice, another never (165); a global array of integers: its items are assigned before they have addresses (948); `println!("{}", f + g)` on floats (`finalcode.c` 435) |
| `miscompiled` | `RunsAsWritten` | `if true {} else { ... }` runs the else (`intercode.c` 154); `f(1, 2, g(3))`: `g` resets the offset of `f`'s parameters (`finalcode.c` 464); an array that is assigned keeps its items (`intercode.c` 523); a float copied in a loop changes with the original (`finalcode.c` 621); `for i in 0..y` ends early when its body lowers `y` (`intercode.c` 604, 620) |
| `computed_range_start` | `Defined` | `for i in y + 1 ..`: the counter is assigned before the bound is computed (`intercode.c` 585) |
| `not_as_promised` | `AcceptsWellTyped` | rejected: `f(1 + 1)`, whose operands count as two arguments (`typecheck.c` 323), `1 % 1 + 1`, as `%` leaves no type (187), `!b` for a parameter `b: bool`, whose type number is that of an array (`symtab.c` 428); accepted: `if 1 {}` (134) and `let x: f64 = 1 < 1`, of which no leaf is to blame (254) |
| `octal_digit` | `LiteralsIntact` | the `\0` that ends a string swallows the digits the next one begins with (`finalcode.c` 92) |

The configurations `MCRejected` and `MCMiscompiled` hold one program per item of
their list, and `MCPromised` one grammar; each was seen to violate the property on its
own.

Deviations met while modelling that no run shows, or that a property leaves out by
name:

* `symtab.c`: `curr_func` is not restored behind a nested function (93), so that it
  is not the innermost one (`ParamsCounted` holds all the same); the error branch for
  an update of an element of an immutable array dereferences NULL (211, 216).
* `typecheck.c`, all in `Mistaken` or `Overlooked` of `TypeRules`: compound arguments
  and items (323, 349, 387); an empty array crashes (387); a macro without
  parentheses (97); the type number of `bool` is that of an array (`symtab.c` 388,
  428); `%` and unary minus leave no type (187, 217); a wrong comparison or index
  without a leaf to blame is accepted (254); nested arrays (290); the condition of an
  `if` (134); the update of an array (128); functions as values (63, 265); the
  returns of nested functions (85).
* Literals, in `Fragile`: a byte of a float that is a quote, backslash or newline
  (`finalcode.c` 132); a newline behind a bad escape (`rustlex.l` 48); `'\'` (56).
  `checkRange` rejects the limits themselves (322).
* `main.c`: `execv` fails and the invocation returns 0 (107, 116); with `-s` nobody
  waits (115); when `fork` fails the C file stays (99, 110). No
  comment or test says what the return code stands for; `BuiltOnReturn` therefore speaks
  only of invocations whose gcc was content, and `GccKeepsItsInput` only of the latest
  invocation's gcc: one left behind by `-s` may read a C file that the next one has
  truncated (`finalcode.c` 49).
* Back end: a single-item array literal is appended to its own list, and the
  compiler never returns (`intercode.c` 814, with gcc's order of evaluation); nested
  functions are looked up among the globals and crash the compiler (`finalcode.c` 533);
  so do an index that is an expression (`intercode.c` 350), an index into an array
  parameter or an array declared without a value (342), and unary minus (472); float
  and array parameters are copied through a pointer nobody set (`finalcode.c` 544);
  floats are compared by their addresses (`finalcode.c` 398-427); the buffer of `read`
  holds eight bytes.

## What is proved

**Hash table**, for every set of keys, every hash function, every initial capacity
and every width of `size_t` (`ConstantsAssumption` is all that is assumed):

| theorem | says |
|---|---|
| `TypeCorrect` | `Spec => []TypeOK` |
| `KeysAlwaysReachable` | `Spec => []KeysReachable` |
| `AlwaysRoomToProbe` | `Spec => []RoomToProbe` |
| `TableImplementsMap` | `Spec => ImplementsMap` |

`KeysReachable` and `RoomToProbe` are not inductive. While a key is being
inserted one has to know that the slots the probe has passed are taken by other
keys (`OnPath`): only then is the free slot it ends on reachable from the key's
home. While the array grows, that the new array holds exactly the keys of the
slots walked so far, so that the key being moved is in it nowhere yet
(`Rehashed`). And that an empty slot exists needs the load: at most half of the
slots are used before an insertion (`HalfFull`). The invariant is their
conjunction with `TypeOK`; the proof has one step per action. The refinement
maps every loop turn to a stutter of `KVMap` and the turn that completes a call
to the atomic operation; growth leaves `MapOf(entries, capacity)` alone because
by `Rehashed` both arrays stand for the same map. Facts about cardinalities are
cited from `FiniteSetTheorems`.

**Driver**, for any number of invocations and any set of flags and failures
(`DriverAssumption`):

| theorem | says |
|---|---|
| `TypeCorrect` | `Spec => []TypeOK` |
| `GccFindsItsInput` | `Spec => []GccKeepsItsInput` |
| `ReturnCleansUp` | `Spec => []CFileOnReturn` |
| `ReturnMeansBuilt` | `Spec => []BuiltOnReturn` |
| `DriverImplementsBuild` | `Spec => ImplementsBuild` |

The invariant `Alive` relates the two processes of an invocation: one that has not
begun has no child, a child exists only behind the fork, and a parent that waited
has an ended child (`Together`); only the last invocation's parent is alive
(`InTurn`); and the intermediate code is counted along both processes
(`IcodeCounted`), without which not even `ic`'s bound of two is inductive. On top of
it, `OwnCFile` follows the C file through the parent's program counter, and `OwnProduct`
says that without `-s` every earlier child has ended, so that nobody else can write
the product. The refinement theorem uses both.

**Symbol tables**, for every set of names, every list of built-ins and every
`MaxNodes` (`SymTabAssumption`), hence for programs of any size, nesting and shape
that the grammar derives:

| theorem | says |
|---|---|
| `TypeCorrect` | `Spec => []TypeOK` |
| `Stable` | `Spec => []StableReferences` |
| `Resolve` | `Spec => []ReferencesResolve` |
| `Mutable` | `Spec => []UpdatesAreMutable` |
| `CountedParams` | `Spec => []ParamsCounted` |
| `Leaks` | `Spec => []OnlyElseIfLeaks` |

None of these is inductive by itself. The invariant `IInv` of `SymTabProofs` adds
three facts that the code never states:

* **`Balanced`**: there is a depth for every node on the stack, the level that
  the table on top will have when the node is visited if no `else if` comes first;
  it goes down by one behind each `}`, is never below 1, and at the end of a call is
  the level of the call's own table plus the `else if`s since. A construct with a
  block raises the level and lowers it again at its `}`; an `else if` raises it for
  everything below it on the stack, forever. That is why `symtab_top` is not NULL when
  a name is bound or looked up, half of `TypeOK`, and all of `OnlyElseIfLeaks`.
* **`Headers`**: from the head of a function to its last parameter the table on top
  is the newest, it belongs to `curr_func`, and only names of the header have been
  looked up from it. `make_entry_param` binds without a check. That a parameter
  captures no name already resolved, and that it is counted for the function that
  owns its table though `curr_func` is never restored, both rest on this.
* **`MutableSymbols`**, `UpdatesAreMutable` of the symbol found at the time.

`StableReferences` is then preserved because a name is bound only in a table where
`Redefined` has found that it means nothing (an outer `let` cannot capture: the check
looks through all enclosing tables), in a fresh table (the counter of a `for`), or in
a function's own header (`Uncaptured`). `SymTabStack` shows that each of the fifteen
actions is one of six steps of the stack (`EveryStackStep`: it does nothing, dies,
pops a table, enters one that it leaves open, pushes the parts of a construct, or
enters a table and pushes the parts that leave it again), so that `Balanced` is proved
once for each of the six and not for each action.
`Lookup` and `Depth` are recursive functions. That they satisfy their equations,
and what a binding or a new table changes about them, is proved in `SymTabStack` from the
least element of a set of counterexamples, which takes no induction theorem with an
operator as its parameter. The parts of `IInv` that no run's property states were
checked by TLC as invariants on the instance of `symtab` (2.7 million states, with
the depth of the table on top less the `}` in between for `e`) before they were
proved.

**Literals**, for every set of texts, values and limits (`LiteralsAssumption`):

| theorem | says |
|---|---|
| `TypeCorrect` | `Spec => []TypeOK`: `deescape` stays within its buffers |
| `PlacesDisjoint` | `Spec => []RegionsDisjoint` |
| `EscapesAlwaysKnown` | `Spec => []EscapesKnown` |
| `PlainIntact` | `Spec => []PlainLiteralsIntact` |

`RegionsDisjoint` needs that every placed literal's entry exists (`PlacesExist`) and
the one being unescaped has none yet (`Unplaced`); `EscapesKnown` follows from the
shapes the lexer's rules let through (`Shapes`): the text at a backslash in the
middle of `deescape()` is one that no earlier rule matched.

`PlainIntact` is the end-to-end statement: an address given while lexing holds, in
the program that gcc makes, what the literal's text says. Its invariant `Faithful`
follows a literal all the way. While `deescape()` runs, what is in `buf2` and what
the rest of the text stands for are together what the whole text stands for
(`Unescaped`). Once it has ended, the literal's address is the offset of its entry
in the region as it will be laid out, and the entry is what the text stands for
(`Stored`), which no later literal changes (`StoredKept`: a region only grows at its
end). Every entry belongs to a literal (`Owned`), so that if no literal is fragile, no
entry is. TLC checked `Faithful` with two and with three literals (87,000 states) before
it was proved. The rest is a fact about two functions: what
`GccString` reads in `SetupString(region)` is the region, if no octal digit stands
behind a NUL (`GccReads`), and what `GccFloat` reads in `SetupFloat(region)` is the
region, if no byte needs an escape sequence that is not printed (`GccFloatReads`).
The readers are recursive functions from the end of the text to its front; that they
satisfy their equations (`ReaderExists`) and invert the printing (`ReadsBack`) is proved
from the least number principle. `LiteralsAssumption` says that the source has no NUL
byte; with one, a text would end there for `strlen` in `deescape()`.

**Type checker**, for every set of grammars, hence for programs of any size with any
names and any signatures, whose leaves are ones a program can have
(`GrammarsAssumption`):

| theorem | says |
|---|---|
| `TypesResolved` | `Spec => []TypeOK`: no tree but a function's name has a function's type |
| `AcceptedWellTyped` | `Spec => []Sound` |
| `RejectedIllTyped` | `Spec => []Complete` |
| `TypesAgree` | `Spec => []Agrees` |
| `TypesPresent` | `Spec => []TypedWhereRead` |

The properties speak of the tree the walk left last, and whether that one is
accepted depends on all that is below it. The invariant `IInv` of `TypeProofs` is
`TypeOK`, `Complete`, `TypedWhereRead` and `GoodTree` of every tree on the stack, which
says what a branch of `typecheck()` relies on and never tests:

* **`WellTyped`**: an expression without a mistake in it has the type it means, or means
  none. It is weaker than what holds of a tree without quirks, and it has to be:
  `Overlooked` trees are accepted though they are ill typed, and a tree above them may
  still be rejected, which `Complete` says is right. Such a type equals itself when
  `compare_types()` compares it with itself (`Proper`); without quirks it is also
  equal to no other (`Simple`), and `invalid_type_error()` will not return (`blame`).
* **`GoodPart`**: the quirks of a part are among those of the tree, and the name of a
  function is a part only of a tree that has a mistake.
* **`GoodReturns`**: the values `check_returns()` visits are parts of the tree, however
  deep they are, and stand for all of its own returns.
* **`GoodList`**, **`HasThird`**: the members of a list are expressions; and the third
  kid that `type_array()` reads of whatever it is given (387) is there, unless the
  first has no type, which crashes, or the node is a macro without parentheses.

One lemma per rule (`LogicalEnd`, `FuncEnd`, `FunctionDefEnd`, ...) shows for any kids of this
kind that the new node is of this kind if the checker goes on, and that it is ill typed
or has a mistake if it does not. One per action (`LogicalKeeps`, ...) applies it to the
trees on top. The lists and returns have any length; that `FirstOf` reports a member's
outcome, and that `FlattenSeq` yields exactly the members of its parts, rests on the least
number principle. TLC checked `IInv` on the instance of `types` (1.7 million states)
before it was proved. The proof also settles what the run's bound leaves to
argument, that a branch of the checker looks no further than three levels down.

**Machine**, for every set of programs (`MachineAssumption`: finitely many functions,
each with a number of parameters) and *every* code that satisfies `GccAccepts` and
`LaidOut`, whatever compiler made it:

| theorem | says |
|---|---|
| `TypeCorrect` | `MachineSpec => []TypeOK`: the C program stays in the arrays it declares |
| `CountedParameters` | `MachineSpec => []ParametersCounted` |

The hypotheses are about the text of the code, before anything runs; that `InterCode`
produces such code is what `compiler` checks (`GccAccepts`, `CodeFits`), so the
theorems cover what those two leave open: that no execution, however deep its calls
and whichever jumps it takes, leads outside the arrays. They do not cover *computed*
indices, whose values are in `Defined`.

`TypeOK` speaks of the innermost function only, and what it says of `paroff` is a
fact about the text that a jump or a call might break. The invariant `IInv` is `Frame`
of every active function: `paroff` is `Pending`, the number of `O_PARM`s since the last
call along the text; before its head a function has no arrays and the caller's block
covers its arity; behind it the arrays have the sizes the head declares. A jump keeps
`Pending` because label and jump agree on it, a call starts both sides at 0, and the
callee's arity is at most `max_argc()`, which is the size of the caller's block
(`MaxArgcBounds`: a finite set of numbers has a maximum, from the least number
principle). A return writes into the caller's frame, which is why all frames, not
just the top one, are in the invariant.

**Model-checked only**: liveness (`CallsReturn`, `Terminates`, `CompilerReturns`),
which is out of the prover's reach; and four properties of the back end (`Compiler`:
`RunsAsWritten`, `GccAccepts`, `CodeFits`, `Defined`), which speak of what the translation
and the reference make of a tree. Both recurse over trees (`RECURSIVE` operators in
`InterCode` and `Source`), which the prover does not take.

## What is not modelled

* The lexer's automaton and the parser's tables: flex and bison generate them. The
  trees they build are the inputs of the models. The rules that only reject a
  construct of Rust are left out, and the range check of floats, which is `strtod`'s.
* `format!` and `read!`, and a type checker's view of `format`, whose second parameter
  is never initialised.
* In the back end, what is listed above as failing: there is no behaviour to compare.
  Arrays of booleans and strings and globals declared behind a function.
* Failing allocations outside `ht.c`: `ckalloc` exits with 4; where `symtab.c` 515
  does not check, the next line dereferences NULL.
* `freeTokens` and the frees at the end; `dot.c` and the printers of `tac.c` and
  `symtab.c`: output without state.

## Plan

1. `HashTable` with `KVMap`, its runs, proofs and refinement. *Done.*
2. `SymTab` and its runs. *Done.*
3. `InterCode`, `Machine`, `Source`, `Compiler`. *Done*, floats and arrays included.
4. `TypeCheck`, `TypeRules`, with proofs of every property of the `types` run, for every
   grammar. *Done.*
5. `Driver`, `Build`, with proofs and refinement. *Done.*
6. `Literals`, `LiteralRules`, with proofs of every property of their run. *Done.*
7. Proofs about `SymTab`: every safety property of its run, for every set of names and
   every `MaxNodes`. *Done.*
8. Proofs about `Machine`: that `TypeOK` and `ParametersCounted` hold for any code that
   satisfies `GccAccepts` and `LaidOut`. *Done.* That the translation yields such code
   for every tree would take a translation without recursive operators. Open.
9. The tac lists as pointers: `append` shares nodes, and a list appended to itself
   is a ring. Open.
