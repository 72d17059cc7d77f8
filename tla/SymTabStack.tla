----------------------------- MODULE SymTabStack ----------------------------
(***************************************************************************)
(* What one step of SymTab does to the tree of tables and to the stack     *)
(* todo of the calls still to come, whichever statement it visits: the     *)
(* facts that SymTabProofs builds the inductive invariant on.              *)
(*                                                                         *)
(* First the tree: scope_lookup()'s walk from a table to its parents       *)
(* (Lookup) and the depth of a table (Depth) are recursive functions.  The *)
(* lemmas show that they satisfy their own equations, then what a new      *)
(* table or a new binding does to them.  Induction is the least number     *)
(* principle: a set of counterexamples that is not empty has a least       *)
(* element, whose parent is none.                                          *)
(*                                                                         *)
(* Then the stack: every action is a StackStep: it dies, or pushes parts   *)
(* on the stack and enters at most one scope (EveryStackStep).  From that  *)
(* alone follow that the tables stay a tree (StepKeeps), that the crate's  *)
(* list is the last but one (CrateStep), and that the depths promised to   *)
(* the nodes on the stack stay right (BalanceStep).                        *)
(***************************************************************************)
EXTENDS SymTab, LeastNumber, TLAPS, SequenceTheorems, FiniteSetTheorems

(* Lookup and Depth for any sequence ss of tables, not only for scopes.    *)
Find(ss, n) ==
    LET find[t \in 0 .. Len(ss)] ==
            IF t = 0 THEN 0
            ELSE IF ss[t].tbl[n] # 0 THEN ss[t].tbl[n]
            ELSE find[ss[t].parent]
    IN  find

Level(ss) ==
    LET level[t \in 0 .. Len(ss)] == IF t = 0 THEN 0 ELSE 1 + level[ss[t].parent]
    IN  level

(* A table's parent was created before it.                                 *)
Tree(ss) == /\ Len(ss) \in Nat
            /\ \A t \in 1 .. Len(ss) : ss[t].parent \in 0 .. t - 1

(* Lookup is the walk through the tables that exist.                       *)
LEMMA LookupIsFind == \A n, s : Lookup(n, s) = Find(scopes, n)[s]
BY Zenon DEF Lookup, Find

(* Depth is the level of a table among those that exist.                   *)
LEMMA DepthIsLevel == \A s : Depth(s) = Level(scopes)[s]
BY Zenon DEF Depth, Level

-----------------------------------------------------------------------------
(* The walk satisfies the equation it is defined by.                       *)
LEMMA FindExists ==
    ASSUME NEW ss, Tree(ss), NEW n
    PROVE  Find(ss, n) = [t \in 0 .. Len(ss) |-> IF t = 0 THEN 0
                        ELSE IF ss[t].tbl[n] # 0 THEN ss[t].tbl[n]
                        ELSE Find(ss, n)[ss[t].parent]]
<1> DEFINE Eq(m, f) == f = [t \in 0 .. m |-> IF t = 0 THEN 0
                        ELSE IF ss[t].tbl[n] # 0 THEN ss[t].tbl[n]
                        ELSE f[ss[t].parent]]
           None == {m \in 0 .. Len(ss) : ~ \E f : Eq(m, f)}
<1>1. ASSUME NEW m \in None, \A k \in 0 .. m - 1 : k \notin None
      PROVE  FALSE
  <2>1. CASE m = 0
    <3>1. Eq(0, [t \in 0 .. 0 |-> 0])
      OBVIOUS
    <3> QED
      BY <2>1, <3>1
  <2>2. CASE m # 0
    <3>1. m \in 1 .. Len(ss) /\ m - 1 \in 0 .. Len(ss)
      <4>1. m \in 0 .. Len(ss) /\ Len(ss) \in Nat
        BY DEF Tree
      <4> HIDE DEF None, Eq
      <4> QED
        BY <4>1, <2>2
    <3>2. PICK f : Eq(m - 1, f)
      <4>1. m - 1 \notin None
        <5> HIDE DEF None, Eq
        <5> QED
          BY <1>1, <3>1
      <4> HIDE DEF Eq
      <4> QED
        BY <3>1, <4>1
    <3>3. ASSUME NEW t \in 0 .. m - 1
          PROVE  f[t] = IF t = 0 THEN 0
                        ELSE IF ss[t].tbl[n] # 0 THEN ss[t].tbl[n]
                        ELSE f[ss[t].parent]
      <4> HIDE DEF None
      <4> QED
        BY <3>2
    <3> DEFINE g == [t \in 0 .. m |-> IF t = m THEN (IF ss[m].tbl[n] # 0 THEN ss[m].tbl[n]
                                                   ELSE f[ss[m].parent])
                                    ELSE f[t]]
    <3> HIDE DEF None, Eq
    <3>4. \A t \in 0 .. m - 1 : g[t] = f[t] /\ t # m
      BY <3>1
    <3>5. \A t \in 1 .. m : ss[t].parent \in 0 .. m - 1
      BY <3>1 DEF Tree
    <3>6. g[m] = (IF ss[m].tbl[n] # 0 THEN ss[m].tbl[n] ELSE f[ss[m].parent])
      BY <3>1
    <3>7. g = [t \in 0 .. m |-> g[t]]
      OBVIOUS
    <3> HIDE DEF g
    <3>8. ASSUME NEW t \in 0 .. m
          PROVE  g[t] = IF t = 0 THEN 0
                        ELSE IF ss[t].tbl[n] # 0 THEN ss[t].tbl[n]
                        ELSE g[ss[t].parent]
      <4>1. CASE t = m
        BY <3>1, <3>4, <3>5, <3>6, <4>1
      <4>2. CASE t # m
        <5>1. t \in 0 .. m - 1
          BY <3>1, <4>2
        <5>2. t # 0 => t \in 1 .. m
          BY <3>1
        <5>3. t # 0 => g[ss[t].parent] = f[ss[t].parent]
          BY <3>4, <3>5, <5>2
        <5> QED
          BY <3>3, <3>4, <5>1, <5>3, Zenon
      <4> QED
        BY <4>1, <4>2
    <3>9. Eq(m, g)
      BY <3>7, <3>8, Zenon DEF Eq
    <3>10. m \notin None
      BY <3>9 DEF None
    <3> QED
      BY <3>10
  <2> QED
    BY <2>1, <2>2
<1>2. None = {}
  <2>1. None \in SUBSET (0 .. Len(ss)) /\ Len(ss) \in Nat
    BY DEF Tree
  <2> HIDE DEF None
  <2> QED
    BY <1>1, <2>1, NoLeast
<1>3. \E f : Eq(Len(ss), f)
  BY <1>2 DEF Tree
<1>4. Find(ss, n) = CHOOSE f : Eq(Len(ss), f)
  BY Zenon DEF Find
<1> QED
  <2> HIDE DEF Eq
  <2>1. Eq(Len(ss), Find(ss, n))
    BY <1>3, <1>4, Zenon
  <2> QED
    BY <2>1 DEF Eq

(* The level satisfies the equation it is defined by.                      *)
LEMMA LevelExists ==
    ASSUME NEW ss, Tree(ss)
    PROVE  Level(ss) = [t \in 0 .. Len(ss) |-> IF t = 0 THEN 0 ELSE 1 + Level(ss)[ss[t].parent]]
<1> DEFINE Eq(m, f) == f = [t \in 0 .. m |-> IF t = 0 THEN 0 ELSE 1 + f[ss[t].parent]]
           None == {m \in 0 .. Len(ss) : ~ \E f : Eq(m, f)}
<1>1. ASSUME NEW m \in None, \A k \in 0 .. m - 1 : k \notin None
      PROVE  FALSE
  <2>1. CASE m = 0
    <3>1. Eq(0, [t \in 0 .. 0 |-> 0])
      OBVIOUS
    <3> QED
      BY <2>1, <3>1
  <2>2. CASE m # 0
    <3>1. m \in 1 .. Len(ss) /\ m - 1 \in 0 .. Len(ss)
      <4>1. m \in 0 .. Len(ss) /\ Len(ss) \in Nat
        BY DEF Tree
      <4> HIDE DEF None, Eq
      <4> QED
        BY <4>1, <2>2
    <3>2. PICK f : Eq(m - 1, f)
      <4>1. m - 1 \notin None
        <5> HIDE DEF None, Eq
        <5> QED
          BY <1>1, <3>1
      <4> HIDE DEF Eq
      <4> QED
        BY <3>1, <4>1
    <3>3. ASSUME NEW t \in 0 .. m - 1
          PROVE  f[t] = IF t = 0 THEN 0 ELSE 1 + f[ss[t].parent]
      <4> HIDE DEF None
      <4> QED
        BY <3>2
    <3> DEFINE g == [t \in 0 .. m |-> IF t = m THEN (1 + f[ss[m].parent]) ELSE f[t]]
    <3> HIDE DEF None, Eq
    <3>4. \A t \in 0 .. m - 1 : g[t] = f[t] /\ t # m
      BY <3>1
    <3>5. \A t \in 1 .. m : ss[t].parent \in 0 .. m - 1
      BY <3>1 DEF Tree
    <3>6. g[m] = (1 + f[ss[m].parent])
      BY <3>1
    <3>7. g = [t \in 0 .. m |-> g[t]]
      OBVIOUS
    <3> HIDE DEF g
    <3>8. ASSUME NEW t \in 0 .. m
          PROVE  g[t] = IF t = 0 THEN 0 ELSE 1 + g[ss[t].parent]
      <4>1. CASE t = m
        BY <3>1, <3>4, <3>5, <3>6, <4>1
      <4>2. CASE t # m
        <5>1. t \in 0 .. m - 1
          BY <3>1, <4>2
        <5>2. t # 0 => t \in 1 .. m
          BY <3>1
        <5>3. t # 0 => g[ss[t].parent] = f[ss[t].parent]
          BY <3>4, <3>5, <5>2
        <5> QED
          BY <3>3, <3>4, <5>1, <5>3, Zenon
      <4> QED
        BY <4>1, <4>2
    <3>9. Eq(m, g)
      BY <3>7, <3>8, Zenon DEF Eq
    <3>10. m \notin None
      BY <3>9 DEF None
    <3> QED
      BY <3>10
  <2> QED
    BY <2>1, <2>2
<1>2. None = {}
  <2>1. None \in SUBSET (0 .. Len(ss)) /\ Len(ss) \in Nat
    BY DEF Tree
  <2> HIDE DEF None
  <2> QED
    BY <1>1, <2>1, NoLeast
<1>3. \E f : Eq(Len(ss), f)
  BY <1>2 DEF Tree
<1>4. Level(ss) = CHOOSE f : Eq(Len(ss), f)
  BY Zenon DEF Level
<1> QED
  <2> HIDE DEF Eq
  <2>1. Eq(Len(ss), Level(ss))
    BY <1>3, <1>4, Zenon
  <2> QED
    BY <2>1 DEF Eq

-----------------------------------------------------------------------------
(* One step of the walk of scope_lookup.                                   *)
LEMMA FindStep ==
    ASSUME NEW ss, Tree(ss), NEW n
    PROVE  /\ Find(ss, n)[0] = 0
           /\ \A t \in 1 .. Len(ss) :
                 Find(ss, n)[t] = IF ss[t].tbl[n] # 0 THEN ss[t].tbl[n]
                                  ELSE Find(ss, n)[ss[t].parent]
<1>1. 0 \in 0 .. Len(ss) /\ \A t \in 1 .. Len(ss) : t \in 0 .. Len(ss) /\ t # 0
  BY DEF Tree
<1> DEFINE f == Find(ss, n)
<1>2. f = [t \in 0 .. Len(ss) |-> IF t = 0 THEN 0
                                 ELSE IF ss[t].tbl[n] # 0 THEN ss[t].tbl[n]
                                 ELSE f[ss[t].parent]]
  BY FindExists
<1> HIDE DEF f
<1>3. /\ f[0] = 0
      /\ \A t \in 1 .. Len(ss) : f[t] = IF ss[t].tbl[n] # 0 THEN ss[t].tbl[n]
                                        ELSE f[ss[t].parent]
  BY <1>1, <1>2
<1> QED
  BY <1>3 DEF f

(* One step of the count of levels.                                        *)
LEMMA LevelStep ==
    ASSUME NEW ss, Tree(ss)
    PROVE  /\ Level(ss)[0] = 0
           /\ \A t \in 1 .. Len(ss) : Level(ss)[t] = 1 + Level(ss)[ss[t].parent]
<1>1. 0 \in 0 .. Len(ss) /\ \A t \in 1 .. Len(ss) : t \in 0 .. Len(ss) /\ t # 0
  BY DEF Tree
<1> DEFINE f == Level(ss)
<1>2. f = [t \in 0 .. Len(ss) |-> IF t = 0 THEN 0 ELSE 1 + f[ss[t].parent]]
  BY LevelExists, Zenon
<1> HIDE DEF f
<1>3. f[0] = 0 /\ \A t \in 1 .. Len(ss) : f[t] = 1 + f[ss[t].parent]
  BY <1>1, <1>2
<1> QED
  BY <1>3 DEF f

(* The walk ends at a symbol that some table binds the name to.            *)
LEMMA FindType ==
    ASSUME NEW ss, Tree(ss), NEW n, NEW max \in Nat,
           \A t \in 1 .. Len(ss) : ss[t].tbl[n] \in 0 .. max
    PROVE  \A s \in 0 .. Len(ss) : Find(ss, n)[s] \in 0 .. max
<1> DEFINE f == Find(ss, n)
           Bad == {s \in 0 .. Len(ss) : f[s] \notin 0 .. max}
<1>1. /\ f[0] = 0
      /\ \A t \in 1 .. Len(ss) : f[t] = IF ss[t].tbl[n] # 0 THEN ss[t].tbl[n]
                                        ELSE f[ss[t].parent]
  BY FindStep
<1> HIDE DEF f
<1>2. ASSUME NEW m \in Bad, \A k \in 0 .. m - 1 : k \notin Bad
      PROVE  FALSE
  <2>1. m \in 1 .. Len(ss)
    BY <1>1
  <2>2. ss[m].parent \in 0 .. m - 1 /\ ss[m].parent \in 0 .. Len(ss)
    BY <2>1 DEF Tree
  <2> QED
    BY <1>1, <1>2, <2>1, <2>2
<1>3. Bad = {}
  <2>1. Bad \in SUBSET (0 .. Len(ss)) /\ Len(ss) \in Nat
    BY DEF Tree
  <2> HIDE DEF Bad
  <2> QED
    BY <1>2, <2>1, NoLeast
<1> QED
  BY <1>3 DEF f

(* A level is a natural number.                                            *)
LEMMA LevelType ==
    ASSUME NEW ss, Tree(ss)
    PROVE  \A s \in 0 .. Len(ss) : Level(ss)[s] \in Nat
<1> DEFINE f == Level(ss)
           Bad == {s \in 0 .. Len(ss) : f[s] \notin Nat}
<1>1. f[0] = 0 /\ \A t \in 1 .. Len(ss) : f[t] = 1 + f[ss[t].parent]
  BY LevelStep
<1> HIDE DEF f
<1>2. ASSUME NEW m \in Bad, \A k \in 0 .. m - 1 : k \notin Bad
      PROVE  FALSE
  <2>1. m \in 1 .. Len(ss)
    BY <1>1
  <2>2. ss[m].parent \in 0 .. m - 1 /\ ss[m].parent \in 0 .. Len(ss)
    BY <2>1 DEF Tree
  <2> QED
    BY <1>1, <1>2, <2>1, <2>2
<1>3. Bad = {}
  <2>1. Bad \in SUBSET (0 .. Len(ss)) /\ Len(ss) \in Nat
    BY DEF Tree
  <2> HIDE DEF Bad
  <2> QED
    BY <1>2, <2>1, NoLeast
<1> QED
  BY <1>3 DEF f

-----------------------------------------------------------------------------
(* What has been found is found again: a name that is bound only where it  *)
(* meant nothing, and tables made later, capture no reference from one of  *)
(* the first k tables.                                                     *)
LEMMA FindStable ==
    ASSUME NEW ss, Tree(ss), NEW tt, Tree(tt), NEW n,
           NEW k \in Nat, k <= Len(ss), k <= Len(tt),
           \A t \in 1 .. k : /\ tt[t].parent = ss[t].parent
                             /\ tt[t].tbl[n] = ss[t].tbl[n] \/ Find(ss, n)[t] = 0
    PROVE  \A s \in 0 .. k : Find(ss, n)[s] # 0 => Find(tt, n)[s] = Find(ss, n)[s]
<1> DEFINE f == Find(ss, n)
           g == Find(tt, n)
           Bad == {s \in 0 .. k : f[s] # 0 /\ g[s] # f[s]}
<1>1. \A t \in 1 .. k : t \in 1 .. Len(ss) /\ t \in 1 .. Len(tt)
  BY DEF Tree
<1>2. /\ f[0] = 0
      /\ \A t \in 1 .. k : f[t] = IF ss[t].tbl[n] # 0 THEN ss[t].tbl[n]
                                  ELSE f[ss[t].parent]
  BY <1>1, FindStep
<1>3. \A t \in 1 .. k : g[t] = IF tt[t].tbl[n] # 0 THEN tt[t].tbl[n]
                               ELSE g[tt[t].parent]
  BY <1>1, FindStep
<1>4. \A t \in 1 .. k : tt[t].tbl[n] = ss[t].tbl[n] \/ f[t] = 0
  OBVIOUS
<1> HIDE DEF f, g
<1>5. ASSUME NEW m \in Bad, \A j \in 0 .. m - 1 : j \notin Bad
      PROVE  FALSE
  <2>1. m \in 1 .. k
    BY <1>2
  <2>2. ss[m].parent \in 0 .. m - 1 /\ ss[m].parent \in 0 .. k
    BY <1>1, <2>1 DEF Tree
  <2>3. ss[m].parent \notin Bad
    BY <1>5, <2>2
  <2> QED
    BY <1>2, <1>3, <1>4, <2>1, <2>2, <2>3
<1>6. Bad = {}
  <2> HIDE DEF Bad
  <2> QED
    BY <1>5, NoLeast DEF Bad
<1> QED
  BY <1>6 DEF f, g

(* What resolves goes on resolving if no binding is removed.               *)
LEMMA FindResolves ==
    ASSUME NEW ss, Tree(ss), NEW tt, Tree(tt), NEW n,
           NEW k \in Nat, k <= Len(ss), k <= Len(tt),
           \A t \in 1 .. k : /\ tt[t].parent = ss[t].parent
                             /\ ss[t].tbl[n] # 0 => tt[t].tbl[n] # 0
    PROVE  \A s \in 0 .. k : Find(ss, n)[s] # 0 => Find(tt, n)[s] # 0
<1> DEFINE f == Find(ss, n)
           g == Find(tt, n)
           Bad == {s \in 0 .. k : f[s] # 0 /\ g[s] = 0}
<1>1. \A t \in 1 .. k : t \in 1 .. Len(ss) /\ t \in 1 .. Len(tt)
  BY DEF Tree
<1>2. /\ f[0] = 0
      /\ \A t \in 1 .. k : f[t] = IF ss[t].tbl[n] # 0 THEN ss[t].tbl[n]
                                  ELSE f[ss[t].parent]
  BY <1>1, FindStep
<1>3. \A t \in 1 .. k : g[t] = IF tt[t].tbl[n] # 0 THEN tt[t].tbl[n]
                               ELSE g[tt[t].parent]
  BY <1>1, FindStep
<1> HIDE DEF f, g
<1>4. ASSUME NEW m \in Bad, \A j \in 0 .. m - 1 : j \notin Bad
      PROVE  FALSE
  <2>1. m \in 1 .. k
    BY <1>2
  <2>2. ss[m].parent \in 0 .. m - 1 /\ ss[m].parent \in 0 .. k
    BY <1>1, <2>1 DEF Tree
  <2>3. ss[m].parent \notin Bad
    BY <1>4, <2>2
  <2> QED
    BY <1>2, <1>3, <2>1, <2>2, <2>3
<1>5. Bad = {}
  <2> HIDE DEF Bad
  <2> QED
    BY <1>4, NoLeast DEF Bad
<1> QED
  BY <1>5 DEF f, g

(* A table stays at its level when tables are added.                       *)
LEMMA LevelStable ==
    ASSUME NEW ss, Tree(ss), NEW tt, Tree(tt),
           NEW k \in Nat, k <= Len(ss), k <= Len(tt),
           \A t \in 1 .. k : tt[t].parent = ss[t].parent
    PROVE  \A s \in 0 .. k : Level(tt)[s] = Level(ss)[s]
<1> DEFINE f == Level(ss)
           g == Level(tt)
           Bad == {s \in 0 .. k : g[s] # f[s]}
<1>1. \A t \in 1 .. k : t \in 1 .. Len(ss) /\ t \in 1 .. Len(tt)
  BY DEF Tree
<1>2. f[0] = 0 /\ \A t \in 1 .. k : f[t] = 1 + f[ss[t].parent]
  BY <1>1, LevelStep
<1>3. g[0] = 0 /\ \A t \in 1 .. k : g[t] = 1 + g[tt[t].parent]
  BY <1>1, LevelStep
<1> HIDE DEF f, g
<1>4. ASSUME NEW m \in Bad, \A j \in 0 .. m - 1 : j \notin Bad
      PROVE  FALSE
  <2>1. m \in 1 .. k
    BY <1>2, <1>3
  <2>2. ss[m].parent \in 0 .. m - 1 /\ ss[m].parent \in 0 .. k
    BY <1>1, <2>1 DEF Tree
  <2>3. ss[m].parent \notin Bad
    BY <1>4, <2>2
  <2> QED
    BY <1>2, <1>3, <2>1, <2>2, <2>3
<1>5. Bad = {}
  <2> HIDE DEF Bad
  <2> QED
    BY <1>4, NoLeast DEF Bad
<1> QED
  BY <1>5 DEF f, g

-----------------------------------------------------------------------------
(* The stack.                                                              *)

(* What is on the stack todo.                                              *)
Plain == {"ident", "expr", "stmts", "else", "single_if"}
Header == {"fn_name", "param_name"}
Headed == Header \cup {"params"}
Identifiers == Header \cup {"ident"}
Ops == Plain \cup Header \cup {"crate", "params", "rbrace", "return"}

Scope == [parent : Nat, rule : Rules, owner : Nat, tbl : [Names -> Nat]]
Entry == [name : Names, kind : Kinds, mut : BOOLEAN, nparams : Nat, table : Nat]
Visited == [op : Ops, name : Names \cup {NoName}, top : Nat, made : Nat]

(* The tables and the symbols name only what exists, in either direction.  *)
Linked(ss, ys) ==
    /\ ss \in Seq(Scope) /\ ys \in Seq(Entry) /\ ss # <<>>
    /\ \A t \in 1 .. Len(ss) : /\ ss[t].parent < t
                               /\ ss[t].owner <= Len(ys)
                               /\ \A n \in Names : ss[t].tbl[n] <= Len(ys)
    /\ \A p \in 1 .. Len(ys) : ys[p].table \in 1 .. Len(ss)

(* A node still to be visited was pushed when its tables existed.          *)
Stacked ==
    /\ todo \in Seq(Visited)
    /\ \A i \in 1 .. Len(todo) : /\ todo[i].op \in Identifiers => todo[i].name \in Names
                                 /\ todo[i].top <= Len(scopes)
                                 /\ todo[i].made <= Len(scopes)

(* The crate's list is just above the last '}', and it is on the stack     *)
(* until its last function has been counted.                               *)
CrateLast ==
    \A i \in 1 .. Len(todo) :
        todo[i].op = "crate" => i = Len(todo) - 1 /\ nodes <= MaxNodes

Referred ==
    /\ refs \subseteq [name : Names, scope : Nat, symbol : Nat,
                       how : Identifiers \cup {"update"}]
    /\ \A r \in refs : r.scope \in 1 .. Len(scopes) /\ r.symbol \in 1 .. Len(symbols)

(* What is known of curr_func and of the table on top from the head of a   *)
(* function to its last parameter: the table is the newest, and nothing    *)
(* but the names of the header has been looked up from it.                 *)
InHeader ==
    /\ symtab_top = Len(scopes)
    /\ curr_func # 0
    /\ scopes[symtab_top].owner = curr_func
    /\ symbols[curr_func].kind = "fn"
    /\ \A r \in refs : r.scope = symtab_top => r.how \in Header

Headers ==
    \A i \in 1 .. Len(todo) :
        /\ todo[i].op = "params" =>
              InHeader /\ (i = 1 \/ (i = 2 /\ todo[1].op \in Header))
        /\ todo[i].op \in Header =>
              i = 1 /\ Len(todo) >= 2 /\ todo[2].op = "params"

(* e is, for each node on the stack, the depth of the scope on top when it *)
(* will be visited, if no `else if` comes before it.                       *)
ElseIfs(ss, made) == {s \in made + 1 .. Len(ss) : ss[s].rule = "else_if"}
Balanced(e, q, ss, top) ==
    /\ e \in [1 .. Len(q) -> Int]
    /\ q # <<>> => e[1] = Level(ss)[top]
    /\ \A i \in 1 .. Len(q) - 1 : e[i + 1] = IF q[i].op = "rbrace" THEN e[i] - 1 ELSE e[i]
    /\ \A i \in 1 .. Len(q) :
          /\ e[i] >= 1
          /\ q[i].op = "return" =>
                e[i] = Level(ss)[q[i].top] + Cardinality(ElseIfs(ss, q[i].made))

MutableSymbols == \A r \in refs : r.how = "update" => symbols[r.symbol].mut

Typed ==
    /\ Linked(scopes, symbols)
    /\ symtab_top \in 0 .. Len(scopes)
    /\ curr_func \in 0 .. Len(symbols)
    /\ exit \in {"no", "exit_3", "null_dereference"}
    /\ nodes \in 0 .. MaxNodes + 1
    /\ Stacked
    /\ Referred

-----------------------------------------------------------------------------
(* Tables and symbols are only added and bound.                            *)
LEMMA BindFacts ==
    ASSUME NEW ss \in Seq(Scope), NEW t \in 1 .. Len(ss), NEW n \in Names, NEW v \in Nat,
           NEW tt, tt = Bind(ss, t, n, v)
    PROVE  /\ tt \in Seq(Scope) /\ Len(tt) = Len(ss)
           /\ \A u \in 1 .. Len(ss) :
                 /\ tt[u].parent = ss[u].parent
                 /\ tt[u].rule = ss[u].rule
                 /\ tt[u].owner = ss[u].owner
                 /\ \A m \in Names :
                       tt[u].tbl[m] = IF u = t /\ m = n THEN v ELSE ss[u].tbl[m]
<1> DEFINE r == [ss[t] EXCEPT !.tbl = [ss[t].tbl EXCEPT ![n] = v]]
<1>1. ss[t] \in Scope
  OBVIOUS
<1>2. r \in Scope /\ r.parent = ss[t].parent /\ r.rule = ss[t].rule /\ r.owner = ss[t].owner
  BY <1>1 DEF Scope
<1>3. \A m \in Names : r.tbl[m] = IF m = n THEN v ELSE ss[t].tbl[m]
  BY <1>1 DEF Scope
<1>4. tt = [ss EXCEPT ![t] = r]
  BY DEF Bind
<1> HIDE DEF r
<1>5. [ss EXCEPT ![t] = r] \in Seq(Scope) /\ Len([ss EXCEPT ![t] = r]) = Len(ss)
  BY <1>2
<1>6. \A u \in 1 .. Len(ss) : [ss EXCEPT ![t] = r][u] = IF u = t THEN r ELSE ss[u]
  OBVIOUS
<1> QED
  BY <1>2, <1>3, <1>4, <1>5, <1>6

(* What scope_enter does to the sequence of tables.                        *)
LEMMA EnterFacts ==
    ASSUME NEW ss \in Seq(Scope), NEW p \in Nat, NEW rule \in Rules, NEW owner \in Nat,
           NEW tt, tt = Append(ss, NewScope(p, rule, owner))
    PROVE  /\ tt \in Seq(Scope) /\ Len(tt) = Len(ss) + 1
           /\ \A u \in 1 .. Len(ss) : tt[u] = ss[u]
           /\ tt[Len(ss) + 1].parent = p
           /\ tt[Len(ss) + 1].rule = rule
           /\ tt[Len(ss) + 1].owner = owner
           /\ \A m \in Names : tt[Len(ss) + 1].tbl[m] = 0
<1> DEFINE e == NewScope(p, rule, owner)
<1>1. /\ e \in Scope /\ e.parent = p /\ e.rule = rule /\ e.owner = owner
      /\ \A m \in Names : e.tbl[m] = 0
  BY DEF Scope, NewScope
<1> HIDE DEF e
<1>2. /\ Append(ss, e) \in Seq(Scope) /\ Len(Append(ss, e)) = Len(ss) + 1
      /\ \A u \in 1 .. Len(ss) : Append(ss, e)[u] = ss[u]
      /\ Append(ss, e)[Len(ss) + 1] = e
  BY <1>1
<1>3. tt = Append(ss, e)
  BY DEF e
<1> QED
  BY <1>1, <1>2, <1>3

(* What a new symbol does to the sequence of symbols.                      *)
LEMMA AppendFacts ==
    ASSUME NEW ys \in Seq(Entry), NEW y \in Entry, NEW zs, zs = Append(ys, y)
    PROVE  /\ zs \in Seq(Entry) /\ Len(zs) = Len(ys) + 1
           /\ zs[Len(ys) + 1] = y
           /\ \A p \in 1 .. Len(ys) : zs[p] = ys[p]
OBVIOUS

(* A symbol whose parameters are counted up keeps its other fields.        *)
LEMMA CountedEntry ==
    ASSUME NEW y \in Entry
    PROVE  LET r == [y EXCEPT !.nparams = @ + 1]
           IN  /\ r \in Entry /\ r.name = y.name /\ r.kind = y.kind /\ r.mut = y.mut
               /\ r.table = y.table /\ r.nparams = y.nparams + 1
BY DEF Entry

(* What make_entry_param does to the function it counts for.               *)
LEMMA CountFacts ==
    ASSUME NEW ys \in Seq(Entry), NEW f \in 1 .. Len(ys),
           NEW zs, zs = [ys EXCEPT ![f].nparams = @ + 1]
    PROVE  /\ zs \in Seq(Entry) /\ Len(zs) = Len(ys)
           /\ zs[f].nparams = ys[f].nparams + 1
           /\ \A p \in 1 .. Len(ys) : p # f => zs[p] = ys[p]
           /\ \A p \in 1 .. Len(ys) :
                 /\ zs[p].name = ys[p].name
                 /\ zs[p].kind = ys[p].kind
                 /\ zs[p].mut = ys[p].mut
                 /\ zs[p].table = ys[p].table
<1> DEFINE r == [ys[f] EXCEPT !.nparams = @ + 1]
<1>1. ys[f] \in Entry
  OBVIOUS
<1>2. /\ r \in Entry /\ r.name = ys[f].name /\ r.kind = ys[f].kind /\ r.mut = ys[f].mut
      /\ r.table = ys[f].table /\ r.nparams = ys[f].nparams + 1
  BY <1>1, CountedEntry, Zenon
<1>3. zs = [ys EXCEPT ![f] = r]
  OBVIOUS
<1> HIDE DEF r
<1>4. [ys EXCEPT ![f] = r] \in Seq(Entry) /\ Len([ys EXCEPT ![f] = r]) = Len(ys)
  BY <1>2
<1>5. \A p \in 1 .. Len(ys) : [ys EXCEPT ![f] = r][p] = IF p = f THEN r ELSE ys[p]
  OBVIOUS
<1> QED
  BY <1>2, <1>3, <1>4, <1>5

(* The stack after a step: the parts pushed, then what was there, without  *)
(* its head if d is 1.                                                     *)
Rest(q, d) == IF d = 1 THEN Tail(q) ELSE q

-----------------------------------------------------------------------------
(* What a step does to the stack.                                          *)

(* The tables stay what they are, but for their bindings.                  *)
SameTree ==
    /\ scopes' \in Seq(Scope)
    /\ Len(scopes') = Len(scopes)
    /\ \A t \in 1 .. Len(scopes) : /\ scopes'[t].parent = scopes[t].parent
                                   /\ scopes'[t].rule = scopes[t].rule
    /\ symtab_top' = symtab_top

(* There is one more, and it is on top.                                    *)
Entered(rule) ==
    /\ scopes' \in Seq(Scope)
    /\ Len(scopes') = Len(scopes) + 1
    /\ \A t \in 1 .. Len(scopes) : /\ scopes'[t].parent = scopes[t].parent
                                   /\ scopes'[t].rule = scopes[t].rule
    /\ scopes'[Len(scopes) + 1].parent = symtab_top
    /\ scopes'[Len(scopes) + 1].rule = rule
    /\ symtab_top' = Len(scopes) + 1

(* A node that a step may push.                                            *)
Part(x) ==
    /\ x \in Visited
    /\ x.op # "crate"
    /\ x.op \in Identifiers => x.name \in Names
    /\ x.top <= Len(scopes) /\ x.made <= Len(scopes)

(* What is visited is counted; the crate's list counts its last function.  *)
Counted(d) ==
    \/ nodes' = nodes
    \/ nodes' = nodes + 1 /\ nodes < MaxNodes
    \/ nodes' = nodes + 1 /\ todo[1].op = "crate" /\ d = 1

(* The parts replace the head of the stack (d is 1) or go above it.        *)
Pushed(parts, d) ==
    /\ todo # <<>> /\ parts \in Seq(Visited) /\ d \in {0, 1}
    /\ todo' = parts \o Rest(todo, d)
    /\ \A i \in 1 .. Len(parts) : Part(parts[i])
    /\ Counted(d)

(* H: the nodes of a header that may be among the parts.                   *)
Quiet(parts, d, H) ==
    /\ Pushed(parts, d)
    /\ \A i \in 1 .. Len(parts) : parts[i].op \in Plain \cup H
    /\ d = 1 => todo[1].op # "rbrace"
    /\ SameTree

(* k is the place of the '}' that leaves the scope entered.                *)
Opening(parts, d, k, r, H) ==
    /\ Pushed(parts, d)
    /\ \A i \in 1 .. Len(parts) : parts[i].op \in Plain \cup {"rbrace", "return"} \cup H
    /\ todo[1].op # "rbrace"
    /\ k \in 1 .. Len(parts) /\ r \in 1 .. Len(parts) /\ r = k + 1
    /\ \A i \in 1 .. Len(parts) : /\ parts[i].op = "rbrace" <=> i = k
                                  /\ parts[i].op = "return" <=> i = r
    /\ parts[r].top = symtab_top /\ parts[r].made = Len(scopes)
    /\ \E rule \in Rules \ {"else_if"} : Entered(rule)

Leaking ==
    /\ Pushed(<<Item("single_if"), Return>>, 1)
    /\ todo[1].op # "rbrace"
    /\ Entered("else_if")

Closing ==
    /\ Pushed(<<>>, 1)
    /\ todo[1].op = "rbrace"
    /\ scopes' = scopes
    /\ symtab_top' = scopes[symtab_top].parent

Stopping ==
    /\ todo # <<>> /\ todo' = <<>>
    /\ scopes' = scopes /\ symtab_top' = symtab_top
    /\ Counted(1)

StackStep(H) ==
    \/ UNCHANGED <<scopes, symtab_top, todo, nodes>>
    \/ Stopping
    \/ Closing
    \/ Leaking
    \/ \E parts \in Seq(Visited), d \in {0, 1} :
          Quiet(parts, d, H) \/ \E k, r \in 1 .. Len(parts) : Opening(parts, d, k, r, H)

(* The types, one variable at a time.                                      *)
LEMMA TypedFacts ==
    ASSUME Typed
    PROVE  /\ scopes \in Seq(Scope) /\ symbols \in Seq(Entry) /\ todo \in Seq(Visited)
           /\ Len(scopes) \in Nat \ {0} /\ Len(symbols) \in Nat /\ Len(todo) \in Nat
           /\ symtab_top \in 0 .. Len(scopes) /\ symtab_top \in Nat
           /\ curr_func \in 0 .. Len(symbols) /\ curr_func \in Nat
           /\ nodes \in 0 .. MaxNodes + 1 /\ nodes \in Nat /\ MaxNodes \in Nat
<1>1. scopes \in Seq(Scope) /\ symbols \in Seq(Entry) /\ scopes # <<>>
  BY DEF Typed, Linked
<1>2. todo \in Seq(Visited)
  BY DEF Typed, Stacked
<1>3. /\ symtab_top \in 0 .. Len(scopes) /\ curr_func \in 0 .. Len(symbols)
      /\ nodes \in 0 .. MaxNodes + 1
  BY DEF Typed
<1> QED
  BY <1>1, <1>2, <1>3, SymTabAssumption

(* The tables are a tree.                                                  *)
LEMMA TreeOfScopes ==
    ASSUME Typed
    PROVE  Tree(scopes)
<1>1. \A t \in 1 .. Len(scopes) : scopes[t].parent < t
  BY DEF Typed, Linked
<1>2. \A t \in 1 .. Len(scopes) : scopes[t].parent \in Nat
  <2>1. \A t \in 1 .. Len(scopes) : scopes[t] \in Scope
    BY TypedFacts
  <2> QED
    BY <2>1 DEF Scope
<1> QED
  BY <1>1, <1>2, TypedFacts DEF Tree

(* Nodes built by Item, Node and Return may be parts of a construct.       *)
LEMMA PartFacts ==
    ASSUME Typed
    PROVE  /\ \A op \in Ops \ (Identifiers \cup {"crate"}) : Part(Item(op)) /\ Item(op).op = op
           /\ \A op \in Identifiers, n \in Names :
                 /\ Part(Node(op, n))
                 /\ Node(op, n).op = op /\ Node(op, n).name = n
           /\ Part(Return)
           /\ Return.op = "return" /\ Return.top = symtab_top /\ Return.made = Len(scopes)
<1>1. ASSUME NEW op \in Ops, NEW n \in Names \cup {NoName}
      PROVE  /\ Node(op, n) \in Visited
             /\ Node(op, n).op = op /\ Node(op, n).name = n
             /\ Node(op, n).top = 0 /\ Node(op, n).made = 0
  BY DEF Node, Visited
<1>2. \A op : Item(op) = Node(op, NoName)
  BY DEF Item
<1>3. "return" \in Ops /\ Identifiers \subseteq Ops \ {"crate"} /\ "return" \notin Identifiers
  BY DEF Ops, Identifiers, Header, Plain
<1>4. /\ Return \in Visited
      /\ Return.op = "return" /\ Return.top = symtab_top /\ Return.made = Len(scopes)
  BY <1>3, TypedFacts DEF Return, Visited
<1>5. 0 <= Len(scopes) /\ symtab_top <= Len(scopes) /\ Len(scopes) <= Len(scopes)
  BY TypedFacts
<1>6. Part(Return)
  BY <1>3, <1>4, <1>5 DEF Part
<1>7. ASSUME NEW op \in Ops \ (Identifiers \cup {"crate"})
      PROVE  Part(Item(op)) /\ Item(op).op = op
  BY <1>1, <1>2, <1>5 DEF Part
<1>8. ASSUME NEW op \in Identifiers, NEW n \in Names
      PROVE  Part(Node(op, n)) /\ Node(op, n).op = op /\ Node(op, n).name = n
  BY <1>1, <1>3, <1>5 DEF Part
<1> QED
  BY <1>4, <1>6, <1>7, <1>8

(* The head and the rest of a stack that is not empty.                     *)
LEMMA TodoFacts ==
    ASSUME Typed, todo # <<>>
    PROVE  /\ Len(todo) \in Nat \ {0}
           /\ Head(todo) = todo[1]
           /\ todo[1] \in Visited
           /\ Rest(todo, 0) = todo /\ Rest(todo, 1) = Tail(todo)
<1>1. todo \in Seq(Visited)
  BY TypedFacts
<1> QED
  BY <1>1 DEF Rest

(* What a visit says of the stack.                                         *)
LEMMA VisitFacts ==
    ASSUME Typed, NEW op, Visit(op)
    PROVE  todo # <<>> /\ todo[1].op = op
BY TodoFacts DEF Visit

(* The parts of a construct, as a sequence of the stack.                   *)
LEMMA Parts1 ==
    ASSUME NEW a,
           Part(a), NEW parts, parts = <<a>>
    PROVE  /\ parts \in Seq(Visited) /\ Len(parts) = 1
           /\ parts[1] = a
           /\ \A i \in 1 .. Len(parts) : Part(parts[i])
           /\ \A i \in 1 .. Len(parts) : i = 1
<1>1. a \in Visited
  BY DEF Part
<1>2. \A i \in 1 .. 1 : i \in {1}
  OBVIOUS
<1> QED
  BY <1>1, <1>2

LEMMA Parts2 ==
    ASSUME NEW a, NEW b,
           Part(a), Part(b), NEW parts, parts = <<a, b>>
    PROVE  /\ parts \in Seq(Visited) /\ Len(parts) = 2
           /\ parts[1] = a /\ parts[2] = b
           /\ \A i \in 1 .. Len(parts) : Part(parts[i])
           /\ \A i \in 1 .. Len(parts) : i = 1 \/ i = 2
<1>1. a \in Visited /\ b \in Visited
  BY DEF Part
<1>2. \A i \in 1 .. 2 : i \in {1, 2}
  OBVIOUS
<1> QED
  BY <1>1, <1>2

LEMMA Parts3 ==
    ASSUME NEW a, NEW b, NEW c,
           Part(a), Part(b), Part(c), NEW parts, parts = <<a, b, c>>
    PROVE  /\ parts \in Seq(Visited) /\ Len(parts) = 3
           /\ parts[1] = a /\ parts[2] = b /\ parts[3] = c
           /\ \A i \in 1 .. Len(parts) : Part(parts[i])
           /\ \A i \in 1 .. Len(parts) : i = 1 \/ i = 2 \/ i = 3
<1>1. a \in Visited /\ b \in Visited /\ c \in Visited
  BY DEF Part
<1>2. \A i \in 1 .. 3 : i \in {1, 2, 3}
  OBVIOUS
<1> QED
  BY <1>1, <1>2

LEMMA Parts4 ==
    ASSUME NEW a, NEW b, NEW c, NEW d,
           Part(a), Part(b), Part(c), Part(d), NEW parts, parts = <<a, b, c, d>>
    PROVE  /\ parts \in Seq(Visited) /\ Len(parts) = 4
           /\ parts[1] = a /\ parts[2] = b /\ parts[3] = c /\ parts[4] = d
           /\ \A i \in 1 .. Len(parts) : Part(parts[i])
           /\ \A i \in 1 .. Len(parts) : i = 1 \/ i = 2 \/ i = 3 \/ i = 4
<1>1. a \in Visited /\ b \in Visited /\ c \in Visited /\ d \in Visited
  BY DEF Part
<1>2. \A i \in 1 .. 4 : i \in {1, 2, 3, 4}
  OBVIOUS
<1> QED
  BY <1>1, <1>2

(* How a step that enters and leaves no scope is shown to be one.          *)
LEMMA QuietStep ==
    ASSUME Typed, todo # <<>>,
           NEW parts \in Seq(Visited), NEW d \in {0, 1}, NEW H,
           \A i \in 1 .. Len(parts) : Part(parts[i]),
           \A i \in 1 .. Len(parts) : parts[i].op \in Plain \cup H,
           todo' = parts \o Rest(todo, d),
           Counted(d), SameTree,
           d = 1 => todo[1].op # "rbrace"
    PROVE  StackStep(H)
<1>1. Pushed(parts, d)
  BY DEF Pushed
<1>2. Quiet(parts, d, H)
  BY <1>1 DEF Quiet
<1> QED
  BY <1>2 DEF StackStep

(* The parts of a construct with its own scope.                            *)
Body(parts, k, r, H) ==
    /\ k \in 1 .. Len(parts) /\ r \in 1 .. Len(parts) /\ r = k + 1
    /\ \A i \in 1 .. Len(parts) :
          /\ Part(parts[i])
          /\ parts[i].op \in Plain \cup {"rbrace", "return"} \cup H
          /\ parts[i].op = "rbrace" <=> i = k
          /\ parts[i].op = "return" <=> i = r
    /\ parts[r] = Return

(* How a construct with a scope of its own is shown to be one.             *)
LEMMA OpeningStep ==
    ASSUME Typed, todo # <<>>,
           NEW H, NEW parts \in Seq(Visited), NEW d \in {0, 1},
           NEW k, NEW r, Body(parts, k, r, H),
           todo' = parts \o Rest(todo, d),
           Counted(d), todo[1].op # "rbrace",
           NEW rule \in Rules \ {"else_if"}, Entered(rule)
    PROVE  StackStep(H)
<1>1. /\ k \in 1 .. Len(parts) /\ r \in 1 .. Len(parts) /\ r = k + 1
      /\ \A i \in 1 .. Len(parts) :
            /\ Part(parts[i])
            /\ parts[i].op \in Plain \cup {"rbrace", "return"} \cup H
            /\ parts[i].op = "rbrace" <=> i = k
            /\ parts[i].op = "return" <=> i = r
      /\ parts[r] = Return
  BY DEF Body
<1>2. Pushed(parts, d)
  BY <1>1 DEF Pushed
<1>3. parts[r].top = symtab_top /\ parts[r].made = Len(scopes)
  BY <1>1, PartFacts
<1>4. Opening(parts, d, k, r, H)
  BY <1>1, <1>2, <1>3 DEF Opening
<1> QED
  BY <1>1, <1>4 DEF StackStep

(* A let or a static pushes the node of its name and an expression.        *)
LEMMA AssignStack ==
    ASSUME Typed, symtab_top # 0
    PROVE  \A list \in {"crate", "stmts"}, n \in Names, kind \in Kinds, mut \in BOOLEAN :
              Assign(list, n, kind, mut) => StackStep({})
<1> SUFFICES ASSUME NEW list \in {"crate", "stmts"}, NEW n \in Names,
                    NEW kind \in Kinds, NEW mut \in BOOLEAN
             PROVE  Assign(list, n, kind, mut) => StackStep({})
  OBVIOUS
<1>1. ASSUME Assign(list, n, kind, mut)
      PROVE  /\ todo # <<>> /\ todo[1].op = list /\ nodes < MaxNodes /\ nodes' = nodes + 1
             /\ \/ todo' = <<>> /\ UNCHANGED tables
                \/ /\ symbols' = Append(symbols, Symbol(n, kind, mut))
                   /\ scopes' = Bind(scopes, symtab_top, n, Len(symbols'))
                   /\ symtab_top' = symtab_top
                   /\ todo' = <<Node("ident", n), Item("expr")>> \o todo
  BY <1>1, VisitFacts DEF Assign, VisitNext, Die
<1>2. ASSUME todo # <<>>, nodes < MaxNodes, nodes' = nodes + 1,
             todo' = <<>>, UNCHANGED tables
      PROVE  StackStep({})
  BY <1>2 DEF tables, StackStep, Stopping, Counted
<1>3. ASSUME todo # <<>>, todo[1].op = list, nodes < MaxNodes, nodes' = nodes + 1,
             symbols' = Append(symbols, Symbol(n, kind, mut)),
             scopes' = Bind(scopes, symtab_top, n, Len(symbols')),
             symtab_top' = symtab_top,
             todo' = <<Node("ident", n), Item("expr")>> \o todo
      PROVE  StackStep({})
  <2>1. Symbol(n, kind, mut) \in Entry
    BY TypedFacts DEF Symbol, Entry
  <2>2. Len(symbols') = Len(symbols) + 1
    BY <1>3, <2>1, TypedFacts, AppendFacts
  <2>3. Len(symbols') \in Nat /\ symtab_top \in 1 .. Len(scopes)
    BY <2>2, TypedFacts
  <2>4. SameTree
    BY <1>3, <2>3, TypedFacts, BindFacts DEF SameTree
  <2> DEFINE a == Node("ident", n)
             b == Item("expr")
             parts == <<a, b>>
  <2>5. Part(a) /\ Part(b) /\ a.op \in Plain /\ b.op \in Plain
    BY PartFacts DEF Ops, Plain, Identifiers, Header
  <2>6. todo' = parts \o Rest(todo, 0)
    BY <1>3, TodoFacts
  <2> HIDE DEF a, b
  <2>7. /\ parts \in Seq(Visited) /\ Len(parts) = 2
        /\ parts[1] = a /\ parts[2] = b
        /\ \A i \in 1 .. Len(parts) : Part(parts[i])
        /\ \A i \in 1 .. Len(parts) : i = 1 \/ i = 2
    BY <2>5, Parts2, Zenon
  <2> HIDE DEF parts
  <2>8. \A i \in 1 .. Len(parts) : parts[i].op \in Plain \cup {}
    BY <2>5, <2>7
  <2>9. Counted(0)
    BY <1>3 DEF Counted
  <2> QED
    BY <1>3, <2>4, <2>6, <2>7, <2>8, <2>9, QuietStep
<1> QED
  BY <1>1, <1>2, <1>3

(* scope_enter puts a new table on top, below the old one.                 *)
LEMMA EnteredFacts ==
    ASSUME Typed,
           NEW ss \in Seq(Scope), Len(ss) = Len(scopes),
           \A t \in 1 .. Len(scopes) : /\ ss[t].parent = scopes[t].parent
                                       /\ ss[t].rule = scopes[t].rule,
           NEW rule \in Rules, NEW owner \in Nat,
           scopes' = Enter(ss, rule, owner), symtab_top' = Len(scopes')
    PROVE  Entered(rule)
<1>1. symtab_top \in Nat /\ Len(scopes) \in Nat
  BY TypedFacts
<1>2. scopes' = Append(ss, NewScope(symtab_top, rule, owner))
  BY DEF Enter
<1>3. /\ scopes' \in Seq(Scope) /\ Len(scopes') = Len(ss) + 1
      /\ \A u \in 1 .. Len(ss) : scopes'[u] = ss[u]
      /\ scopes'[Len(ss) + 1].parent = symtab_top
      /\ scopes'[Len(ss) + 1].rule = rule
  BY <1>1, <1>2, EnterFacts
<1> QED
  BY <1>1, <1>3 DEF Entered

(* The parts of a function leave its scope just before they end.           *)
LEMMA FunctionParts ==
    ASSUME Typed, todo # <<>>, NEW n \in Names, NEW d \in {0, 1},
           Entered("function_def"), Counted(d), todo[1].op # "rbrace",
           todo' = <<Node("fn_name", n), Item("params"), Item("stmts"), Item("rbrace"), Return>>
                      \o Rest(todo, d)
    PROVE  StackStep({"fn_name", "params"})
<1> DEFINE a == Node("fn_name", n)
           b == Item("params")
           c == Item("stmts")
           e == Item("rbrace")
           f == Return
           parts == <<a, b, c, e, f>>
<1>1. /\ Part(a) /\ Part(b) /\ Part(c) /\ Part(e) /\ Part(f) /\ f = Return
      /\ a.op = "fn_name" /\ b.op = "params" /\ c.op = "stmts" /\ e.op = "rbrace" /\ f.op = "return"
  BY PartFacts DEF Ops, Plain, Identifiers, Header
<1>2. todo' = parts \o Rest(todo, d)
  OBVIOUS
<1> HIDE DEF a, b, c, e, f
<1>3. /\ parts \in Seq(Visited) /\ Len(parts) = 5
      /\ parts[1] = a /\ parts[2] = b /\ parts[3] = c /\ parts[4] = e /\ parts[5] = f
      /\ \A i \in 1 .. Len(parts) : Part(parts[i])
      /\ \A i \in 1 .. Len(parts) : i = 1 \/ i = 2 \/ i = 3 \/ i = 4 \/ i = 5
  <2>1. a \in Visited /\ b \in Visited /\ c \in Visited /\ e \in Visited /\ f \in Visited
    BY <1>1 DEF Part
  <2>2. \A i \in 1 .. 5 : i = 1 \/ i = 2 \/ i = 3 \/ i = 4 \/ i = 5
    OBVIOUS
  <2>3. parts \in Seq(Visited) /\ Len(parts) = 5
    BY <2>1
  <2>4. parts[1] = a /\ parts[2] = b /\ parts[3] = c /\ parts[4] = e /\ parts[5] = f
    OBVIOUS
  <2> HIDE DEF parts
  <2>5. \A i \in 1 .. Len(parts) : i = 1 \/ i = 2 \/ i = 3 \/ i = 4 \/ i = 5
    BY <2>2, <2>3
  <2>6. \A i \in 1 .. Len(parts) : Part(parts[i])
    BY <1>1, <2>4, <2>5
  <2> QED
    BY <2>3, <2>4, <2>5, <2>6
<1> HIDE DEF parts
<1>4. ASSUME NEW i \in 1 .. Len(parts)
      PROVE  /\ parts[i].op = "rbrace" <=> i = 4
             /\ parts[i].op = "return" <=> i = 5
  BY <1>1, <1>3
<1>5. ASSUME NEW i \in 1 .. Len(parts)
      PROVE  parts[i].op \in Plain \cup {"rbrace", "return"} \cup {"fn_name", "params"}
  BY <1>1, <1>3 DEF Plain
<1>6. 4 \in 1 .. Len(parts) /\ 5 \in 1 .. Len(parts) /\ 5 = 4 + 1 /\ parts[5] = Return
  <2>1. 4 \in 1 .. 5 /\ 5 \in 1 .. 5 /\ 5 = 4 + 1
    OBVIOUS
  <2>2. Len(parts) = 5 /\ parts[5] = Return
    BY <1>1, <1>3
  <2> QED
    BY <2>1, <2>2, Zenon
<1>7. "function_def" \in Rules \ {"else_if"}
  BY DEF Rules
<1>8. Body(parts, 4, 5, {"fn_name", "params"})
  BY <1>3, <1>4, <1>6, <1>5 DEF Body
<1> QED
  BY <1>2, <1>3, <1>7, <1>8, OpeningStep

(* A function is a construct with a scope, and with a header.              *)
LEMMA FunctionDefStack ==
    ASSUME Typed, symtab_top # 0
    PROVE  \A list \in {"crate", "stmts"}, n \in Names, last \in BOOLEAN :
              FunctionDef(list, n, last) => StackStep({"fn_name", "params"})
<1> SUFFICES ASSUME NEW list \in {"crate", "stmts"}, NEW n \in Names, NEW last \in BOOLEAN
             PROVE  FunctionDef(list, n, last) => StackStep({"fn_name", "params"})
  OBVIOUS
<1> DEFINE d == IF last THEN 1 ELSE 0
           pushed == <<Node("fn_name", n), Item("params"), Item("stmts"), Item("rbrace"),
                       Return>> \o Rest(todo, d)
<1>1. ASSUME FunctionDef(list, n, last)
      PROVE  /\ todo # <<>> /\ todo[1].op = list /\ Counted(d)
             /\ \/ todo' = <<>> /\ UNCHANGED tables
                \/ /\ symbols' = Append(symbols, Symbol(n, "fn", FALSE))
                   /\ scopes' = Enter(Bind(scopes, symtab_top, n, Len(symbols')),
                                      "function_def", Len(symbols'))
                   /\ symtab_top' = Len(scopes')
                   /\ todo' = pushed
  <2>1. /\ todo # <<>> /\ todo[1].op = list
        /\ nodes' = nodes + 1 /\ (nodes < MaxNodes \/ (last /\ list = "crate"))
    BY <1>1, VisitFacts DEF FunctionDef, VisitNext
  <2>2. Counted(d)
    BY <2>1 DEF Counted
  <2>3. Rest(todo, d) = IF last THEN Tail(todo) ELSE todo
    BY DEF Rest
  <2> QED
    BY <1>1, <2>1, <2>2, <2>3 DEF FunctionDef, Die
<1>2. ASSUME todo # <<>>, Counted(d), todo' = <<>>, UNCHANGED tables
      PROVE  StackStep({"fn_name", "params"})
  BY <1>2 DEF tables, StackStep, Stopping, Counted
<1>3. ASSUME todo # <<>>, todo[1].op = list, Counted(d),
             symbols' = Append(symbols, Symbol(n, "fn", FALSE)),
             scopes' = Enter(Bind(scopes, symtab_top, n, Len(symbols')),
                             "function_def", Len(symbols')),
             symtab_top' = Len(scopes'),
             todo' = pushed
      PROVE  StackStep({"fn_name", "params"})
  <2>1. Symbol(n, "fn", FALSE) \in Entry
    BY TypedFacts DEF Symbol, Entry, Kinds
  <2>2. Len(symbols') = Len(symbols) + 1
    BY <1>3, <2>1, TypedFacts, AppendFacts
  <2>3. Len(symbols') \in Nat /\ symtab_top \in 1 .. Len(scopes)
    BY <2>2, TypedFacts
  <2> DEFINE ss == Bind(scopes, symtab_top, n, Len(symbols'))
  <2>4. /\ ss \in Seq(Scope) /\ Len(ss) = Len(scopes)
        /\ \A t \in 1 .. Len(scopes) : /\ ss[t].parent = scopes[t].parent
                                       /\ ss[t].rule = scopes[t].rule
    BY <2>3, TypedFacts, BindFacts
  <2>5. scopes' = Enter(ss, "function_def", Len(symbols'))
    BY <1>3
  <2>6. "function_def" \in Rules
    BY DEF Rules
  <2> HIDE DEF ss
  <2>7. Entered("function_def")
    BY <1>3, <2>3, <2>4, <2>5, <2>6, EnteredFacts
  <2>8. d \in {0, 1} /\ todo[1].op # "rbrace"
    BY <1>3
  <2> QED
    BY <1>3, <2>7, <2>8, FunctionParts
<1> QED
  BY <1>1, <1>2, <1>3

(* A parameter pushes the node of its name.                                *)
LEMMA FnParamStack ==
    ASSUME Typed, Headers
    PROVE  \A n \in Names : FnParam(n) => StackStep({"param_name"})
<1> SUFFICES ASSUME NEW n \in Names, FnParam(n)
             PROVE  StackStep({"param_name"})
  OBVIOUS
<1>1. todo # <<>> /\ todo[1].op = "params" /\ nodes < MaxNodes /\ nodes' = nodes + 1
  BY VisitFacts DEF FnParam, VisitNext
<1>2. InHeader
  <2>1. 1 \in 1 .. Len(todo)
    BY <1>1, TodoFacts
  <2> QED
    BY <1>1, <2>1 DEF Headers
<1>3. symtab_top \in 1 .. Len(scopes) /\ curr_func \in 1 .. Len(symbols)
  BY <1>2, TypedFacts DEF InHeader
<1> DEFINE ys == [symbols EXCEPT ![curr_func].nparams = @ + 1]
<1>4. ys \in Seq(Entry) /\ Len(ys) = Len(symbols)
  BY <1>3, TypedFacts, CountFacts
<1>5. Symbol(n, "param", FALSE) \in Entry
  BY TypedFacts DEF Symbol, Entry, Kinds
<1>6. symbols' = Append(ys, Symbol(n, "param", FALSE))
  BY DEF FnParam
<1> HIDE DEF ys
<1>7. Len(symbols') \in Nat
  BY <1>4, <1>5, <1>6, AppendFacts, TypedFacts
<1>8. SameTree
  <2>1. scopes' = Bind(scopes, symtab_top, n, Len(symbols')) /\ symtab_top' = symtab_top
    BY DEF FnParam
  <2>2. /\ scopes' \in Seq(Scope) /\ Len(scopes') = Len(scopes)
        /\ \A t \in 1 .. Len(scopes) : /\ scopes'[t].parent = scopes[t].parent
                                       /\ scopes'[t].rule = scopes[t].rule
    <3>1. scopes \in Seq(Scope) /\ symtab_top \in 1 .. Len(scopes) /\ Len(symbols') \in Nat
      BY <1>3, <1>7, TypedFacts
    <3> QED
      BY <2>1, <3>1, BindFacts
  <2> QED
    BY <2>1, <2>2 DEF SameTree
<1> DEFINE a == Node("param_name", n)
           parts == <<a>>
<1>9. todo' = parts \o Rest(todo, 0)
  BY <1>1, TodoFacts DEF FnParam
<1>10. Part(a) /\ a.op = "param_name"
  BY PartFacts DEF Identifiers, Header
<1> HIDE DEF a
<1>11. /\ parts \in Seq(Visited) /\ Len(parts) = 1 /\ parts[1] = a
       /\ \A i \in 1 .. Len(parts) : Part(parts[i])
       /\ \A i \in 1 .. Len(parts) : i = 1
  BY <1>10, Parts1, Zenon
<1> HIDE DEF parts
<1>12. \A i \in 1 .. Len(parts) : parts[i].op \in Plain \cup {"param_name"}
  BY <1>10, <1>11
<1>13. Counted(0)
  BY <1>1 DEF Counted
<1> QED
  BY <1>1, <1>8, <1>9, <1>11, <1>12, <1>13, QuietStep

(* A step that changes no table pushes parts of a construct, or nothing.   *)
LEMMA SameTables ==
    ASSUME Typed, UNCHANGED tables
    PROVE  SameTree
BY TypedFacts DEF tables, SameTree

(* Steps that change no table push at most an expression.                  *)
LEMMA ReadStack ==
    ASSUME Typed, UNCHANGED tables, todo # <<>>, NEW d \in {0, 1}, Counted(d),
           d = 1 => todo[1].op # "rbrace",
           \/ todo' = Rest(todo, d)
           \/ todo' = <<Item("expr")>> \o Rest(todo, d)
           \/ \E n \in Names : todo' = <<Node("ident", n)>> \o Rest(todo, d)
           \/ \E n \in Names : todo' = <<Node("ident", n), Item("expr"), Item("expr")>>
                                          \o Rest(todo, d)
    PROVE  StackStep({})
<1> DEFINE e == Item("expr")
<1>1. Part(e) /\ e.op = "expr"
  BY PartFacts DEF Ops, Plain, Identifiers, Header
<1>2. \A n \in Names : Part(Node("ident", n)) /\ Node("ident", n).op = "ident"
  BY PartFacts DEF Identifiers
<1>3. "expr" \in Plain \cup {} /\ "ident" \in Plain \cup {}
  BY DEF Plain
<1>4. SameTree
  BY SameTables
<1> HIDE DEF e
<1>5. CASE todo' = Rest(todo, d)
  <2>1. Rest(todo, d) \in Seq(Visited)
    BY TypedFacts DEF Rest
  <2>2. todo' = <<>> \o Rest(todo, d)
    BY <1>5, <2>1
  <2>3. /\ <<>> \in Seq(Visited)
        /\ \A i \in 1 .. Len(<<>>) : FALSE
    OBVIOUS
  <2> QED
    BY <1>4, <2>2, <2>3, QuietStep
<1>6. CASE todo' = <<Item("expr")>> \o Rest(todo, d)
  <2> DEFINE parts == <<e>>
  <2>1. todo' = parts \o Rest(todo, d)
    BY <1>6 DEF e
  <2>2. /\ parts \in Seq(Visited) /\ Len(parts) = 1 /\ parts[1] = e
        /\ \A i \in 1 .. Len(parts) : Part(parts[i])
        /\ \A i \in 1 .. Len(parts) : i = 1
    BY <1>1, Parts1, Zenon
  <2> HIDE DEF parts
  <2>3. \A i \in 1 .. Len(parts) : parts[i].op \in Plain \cup {}
    BY <1>1, <1>3, <2>2
  <2> QED
    BY <1>4, <2>1, <2>2, <2>3, QuietStep
<1>7. ASSUME NEW n \in Names, todo' = <<Node("ident", n)>> \o Rest(todo, d)
      PROVE  StackStep({})
  <2> DEFINE a == Node("ident", n)
             parts == <<a>>
  <2>1. todo' = parts \o Rest(todo, d)
    BY <1>7
  <2>2. Part(a) /\ a.op = "ident"
    BY <1>2
  <2> HIDE DEF a
  <2>3. /\ parts \in Seq(Visited) /\ Len(parts) = 1 /\ parts[1] = a
        /\ \A i \in 1 .. Len(parts) : Part(parts[i])
        /\ \A i \in 1 .. Len(parts) : i = 1
    BY <2>2, Parts1, Zenon
  <2> HIDE DEF parts
  <2>4. \A i \in 1 .. Len(parts) : parts[i].op \in Plain \cup {}
    BY <1>3, <2>2, <2>3
  <2> QED
    BY <1>4, <2>1, <2>3, <2>4, QuietStep
<1>8. ASSUME NEW n \in Names,
             todo' = <<Node("ident", n), Item("expr"), Item("expr")>> \o Rest(todo, d)
      PROVE  StackStep({})
  <2> DEFINE a == Node("ident", n)
             parts == <<a, e, e>>
  <2>1. todo' = parts \o Rest(todo, d)
    BY <1>8 DEF e
  <2>2. Part(a) /\ a.op = "ident"
    BY <1>2
  <2> HIDE DEF a
  <2>3. /\ parts \in Seq(Visited) /\ Len(parts) = 3
        /\ parts[1] = a /\ parts[2] = e /\ parts[3] = e
        /\ \A i \in 1 .. Len(parts) : Part(parts[i])
        /\ \A i \in 1 .. Len(parts) : i = 1 \/ i = 2 \/ i = 3
    BY <1>1, <2>2, Parts3, Zenon
  <2> HIDE DEF parts
  <2>4. \A i \in 1 .. Len(parts) : parts[i].op \in Plain \cup {}
    BY <1>1, <1>3, <2>2, <2>3
  <2> QED
    BY <1>4, <2>1, <2>3, <2>4, QuietStep
<1> QED
  BY <1>5, <1>6, <1>7, <1>8

(* The actions that change no table.                                       *)
LEMMA Reads ==
    ASSUME Typed
    PROVE  /\ \A n \in Names, array \in BOOLEAN : UpdateStm(n, array) => StackStep({})
           /\ Ident => StackStep({})
           /\ ExprStm => StackStep({})
           /\ Expr => StackStep({})
           /\ Skip => StackStep({})
<1>1. ASSUME NEW n \in Names, NEW array \in BOOLEAN, UpdateStm(n, array)
      PROVE  StackStep({})
  <2>1. todo # <<>> /\ todo[1].op = "stmts" /\ nodes < MaxNodes /\ nodes' = nodes + 1
    BY <1>1, VisitFacts DEF UpdateStm, VisitNext
  <2>2. Counted(0) /\ Rest(todo, 0) = todo
    BY <2>1 DEF Counted, Rest
  <2>3. \/ todo' = <<>> /\ UNCHANGED tables
        \/ /\ todo' = <<Node("ident", n), Item("expr"), Item("expr")>> \o todo
           /\ UNCHANGED tables
    BY <1>1 DEF UpdateStm, Die
  <2>4. CASE todo' = <<>> /\ UNCHANGED tables
    BY <2>1, <2>2, <2>4 DEF tables, StackStep, Stopping, Counted
  <2>5. CASE todo' = <<Node("ident", n), Item("expr"), Item("expr")>> \o todo /\ UNCHANGED tables
    BY <2>1, <2>2, <2>5, ReadStack
  <2> QED
    BY <2>3, <2>4, <2>5
<1>2. ASSUME Ident
      PROVE  StackStep({})
  <2>1. todo # <<>> /\ todo[1].op # "rbrace" /\ nodes' = nodes
    BY <1>2, VisitFacts DEF Ident
  <2>2. Counted(1) /\ Rest(todo, 1) = Tail(todo)
    BY <2>1 DEF Counted, Rest
  <2>3. UNCHANGED tables /\ (todo' = <<>> \/ todo' = <<>> \o Tail(todo))
    BY <1>2 DEF Ident, Die, Before
  <2>4. <<>> \o Tail(todo) = Tail(todo)
    BY <2>1, TypedFacts
  <2>5. CASE todo' = <<>>
    BY <2>1, <2>2, <2>3, <2>5 DEF tables, StackStep, Stopping, Counted
  <2>6. CASE todo' = Tail(todo)
    BY <2>1, <2>2, <2>3, <2>6, ReadStack
  <2> QED
    BY <2>3, <2>4, <2>5, <2>6
<1>3. ASSUME ExprStm
      PROVE  StackStep({})
  <2>1. todo # <<>> /\ nodes < MaxNodes /\ nodes' = nodes + 1
    BY <1>3, VisitFacts DEF ExprStm, VisitNext
  <2>2. Counted(0) /\ Rest(todo, 0) = todo
    BY <2>1 DEF Counted, Rest
  <2>3. UNCHANGED tables /\ todo' = <<Item("expr")>> \o todo
    BY <1>3 DEF ExprStm
  <2> QED
    BY <2>1, <2>2, <2>3, ReadStack
<1>4. ASSUME Expr
      PROVE  StackStep({})
  <2>1. todo # <<>> /\ todo[1].op # "rbrace" /\ nodes' = nodes
    BY <1>4, VisitFacts DEF Expr
  <2>2. Counted(1) /\ Rest(todo, 1) = Tail(todo)
    BY <2>1 DEF Counted, Rest
  <2>3. /\ UNCHANGED tables
        /\ \/ todo' = <<>> \o Tail(todo)
           \/ \E n \in Names : todo' = <<Node("ident", n)>> \o Tail(todo)
    BY <1>4 DEF Expr, Before
  <2>4. <<>> \o Tail(todo) = Tail(todo)
    BY <2>1, TypedFacts
  <2> QED
    BY <2>1, <2>2, <2>3, <2>4, ReadStack
<1>5. ASSUME Skip
      PROVE  StackStep({})
  <2>1. todo # <<>> /\ todo[1].op # "rbrace" /\ nodes' = nodes
    BY <1>5, VisitFacts DEF Skip
  <2>2. Counted(1) /\ Rest(todo, 1) = Tail(todo)
    BY <2>1 DEF Counted, Rest
  <2>3. UNCHANGED tables /\ todo' = <<>> \o Tail(todo)
    BY <1>5 DEF Skip, Before
  <2>4. <<>> \o Tail(todo) = Tail(todo)
    BY <2>1, TypedFacts
  <2> QED
    BY <2>1, <2>2, <2>3, <2>4, ReadStack
<1> QED
  BY <1>1, <1>2, <1>3, <1>4, <1>5

(* A '}' pops the table on top.                                            *)
LEMMA CloseStack ==
    ASSUME Typed
    PROVE  CloseBrace => StackStep({})
<1> SUFFICES ASSUME CloseBrace
             PROVE  StackStep({})
  OBVIOUS
<1>1. todo # <<>> /\ todo[1].op = "rbrace" /\ nodes' = nodes
  BY VisitFacts DEF CloseBrace
<1>2. scopes' = scopes /\ symtab_top' = scopes[symtab_top].parent
  BY DEF CloseBrace
<1>3. todo' = <<>> \o Rest(todo, 1)
  BY <1>1, TodoFacts DEF CloseBrace, Before
<1>4. <<>> \in Seq(Visited) /\ \A i \in 1 .. Len(<<>>) : FALSE
  OBVIOUS
<1>5. Pushed(<<>>, 1)
  BY <1>1, <1>3, <1>4 DEF Pushed, Counted
<1> QED
  BY <1>1, <1>2, <1>5 DEF StackStep, Closing

(* The end of the call goes behind the parts.                              *)
LEMMA Concat1 ==
    ASSUME NEW a \in Visited, NEW r \in Visited
    PROVE  <<a>> \o <<r>> = <<a, r>>
<1> DEFINE s == <<a>> \o <<r>>
           u == <<a, r>>
<1>1. s \in Seq(Visited) /\ u \in Seq(Visited) /\ Len(s) = 2 /\ Len(u) = 2
  OBVIOUS
<1>2. s[1] = u[1] /\ s[2] = u[2]
  OBVIOUS
<1>3. \A i \in 1 .. 2 : i = 1 \/ i = 2
  OBVIOUS
<1> HIDE DEF s, u
<1>4. \A i \in 1 .. Len(s) : s[i] = u[i]
  BY <1>1, <1>2, <1>3
<1>5. s = u
  BY <1>1, <1>4, SeqEqual
<1> QED
  BY <1>5 DEF s, u

(* The parts of a construct, with the end of its call.                     *)
LEMMA Concat2 ==
    ASSUME NEW a \in Visited, NEW b \in Visited, NEW r \in Visited
    PROVE  <<a, b>> \o <<r>> = <<a, b, r>>
<1> DEFINE s == <<a, b>> \o <<r>>
           u == <<a, b, r>>
<1>1. s \in Seq(Visited) /\ u \in Seq(Visited) /\ Len(s) = 3 /\ Len(u) = 3
  OBVIOUS
<1>2. s[1] = u[1] /\ s[2] = u[2] /\ s[3] = u[3]
  OBVIOUS
<1>3. \A i \in 1 .. 3 : i = 1 \/ i = 2 \/ i = 3
  OBVIOUS
<1> HIDE DEF s, u
<1>4. \A i \in 1 .. Len(s) : s[i] = u[i]
  BY <1>1, <1>2, <1>3
<1>5. s = u
  BY <1>1, <1>4, SeqEqual
<1> QED
  BY <1>5 DEF s, u

LEMMA Concat3 ==
    ASSUME NEW a \in Visited, NEW b \in Visited, NEW c \in Visited, NEW r \in Visited
    PROVE  <<a, b, c>> \o <<r>> = <<a, b, c, r>>
<1> DEFINE s == <<a, b, c>> \o <<r>>
           u == <<a, b, c, r>>
<1>1. s \in Seq(Visited) /\ u \in Seq(Visited) /\ Len(s) = 4 /\ Len(u) = 4
  OBVIOUS
<1>2. s[1] = u[1] /\ s[2] = u[2] /\ s[3] = u[3] /\ s[4] = u[4]
  OBVIOUS
<1>3. \A i \in 1 .. 4 : i = 1 \/ i = 2 \/ i = 3 \/ i = 4
  OBVIOUS
<1> HIDE DEF s, u
<1>4. \A i \in 1 .. Len(s) : s[i] = u[i]
  BY <1>1, <1>2, <1>3
<1>5. s = u
  BY <1>1, <1>4, SeqEqual
<1> QED
  BY <1>5 DEF s, u

LEMMA Concat4 ==
    ASSUME NEW a \in Visited, NEW b \in Visited, NEW c \in Visited, NEW d \in Visited, NEW r \in Visited
    PROVE  <<a, b, c, d>> \o <<r>> = <<a, b, c, d, r>>
<1> DEFINE s == <<a, b, c, d>> \o <<r>>
           u == <<a, b, c, d, r>>
<1>1. s \in Seq(Visited) /\ u \in Seq(Visited) /\ Len(s) = 5 /\ Len(u) = 5
  OBVIOUS
<1>2. s[1] = u[1] /\ s[2] = u[2] /\ s[3] = u[3] /\ s[4] = u[4] /\ s[5] = u[5]
  OBVIOUS
<1>3. \A i \in 1 .. 5 : i = 1 \/ i = 2 \/ i = 3 \/ i = 4 \/ i = 5
  OBVIOUS
<1> HIDE DEF s, u
<1>4. \A i \in 1 .. Len(s) : s[i] = u[i]
  BY <1>1, <1>2, <1>3
<1>5. s = u
  BY <1>1, <1>4, SeqEqual
<1> QED
  BY <1>5 DEF s, u

(* A block: its parts, its '}' and the end of its call.            *)
LEMMA BlockParts ==
    ASSUME Typed, todo # <<>>, NEW d \in {0, 1},
           NEW rule \in Rules \ {"else_if"}, Entered(rule), Counted(d),
           todo[1].op # "rbrace",
           \/ todo' = <<Item("stmts"), Item("rbrace"), Return>> \o Rest(todo, d)
           \/ todo' = <<Item("expr"), Item("stmts"), Item("rbrace"), Return>> \o Rest(todo, d)
    PROVE  StackStep({})
<1> DEFINE a == Item("expr")
           b == Item("stmts")
           c == Item("rbrace")
           e == Return
<1>1. /\ Part(a) /\ Part(b) /\ Part(c) /\ Part(e) /\ e = Return
      /\ a.op = "expr" /\ b.op = "stmts" /\ c.op = "rbrace" /\ e.op = "return"
  BY PartFacts DEF Ops, Plain, Identifiers, Header
<1>2. CASE todo' = <<Item("stmts"), Item("rbrace"), Return>> \o Rest(todo, d)
  <2> DEFINE parts == <<b, c, e>>
  <2>1. todo' = parts \o Rest(todo, d)
    BY <1>2
  <2> HIDE DEF b, c, e
  <2>2. /\ parts \in Seq(Visited) /\ Len(parts) = 3
        /\ parts[1] = b /\ parts[2] = c /\ parts[3] = e
        /\ \A i \in 1 .. Len(parts) : Part(parts[i])
        /\ \A i \in 1 .. Len(parts) : i = 1 \/ i = 2 \/ i = 3
    BY <1>1, Parts3
  <2> HIDE DEF parts
  <2>3. ASSUME NEW i \in 1 .. Len(parts)
        PROVE  /\ parts[i].op = "rbrace" <=> i = 2
               /\ parts[i].op = "return" <=> i = 3
    BY <1>1, <2>2
  <2>4. ASSUME NEW i \in 1 .. Len(parts)
        PROVE  parts[i].op \in Plain \cup {"rbrace", "return"} \cup {}
    BY <1>1, <2>2 DEF Plain
  <2>5. 2 \in 1 .. Len(parts) /\ 3 \in 1 .. Len(parts) /\ 3 = 2 + 1 /\ parts[3] = Return
    BY <1>1, <2>2
  <2>6. Body(parts, 2, 3, {})
    BY <2>2, <2>3, <2>5, <2>4 DEF Body
  <2> QED
    BY <2>1, <2>2, <2>6, OpeningStep
<1>3. CASE todo' = <<Item("expr"), Item("stmts"), Item("rbrace"), Return>> \o Rest(todo, d)
  <2> DEFINE parts == <<a, b, c, e>>
  <2>1. todo' = parts \o Rest(todo, d)
    BY <1>3
  <2> HIDE DEF a, b, c, e
  <2>2. /\ parts \in Seq(Visited) /\ Len(parts) = 4
        /\ parts[1] = a /\ parts[2] = b /\ parts[3] = c /\ parts[4] = e
        /\ \A i \in 1 .. Len(parts) : Part(parts[i])
        /\ \A i \in 1 .. Len(parts) : i = 1 \/ i = 2 \/ i = 3 \/ i = 4
    BY <1>1, Parts4
  <2> HIDE DEF parts
  <2>3. ASSUME NEW i \in 1 .. Len(parts)
        PROVE  /\ parts[i].op = "rbrace" <=> i = 3
               /\ parts[i].op = "return" <=> i = 4
    BY <1>1, <2>2
  <2>4. ASSUME NEW i \in 1 .. Len(parts)
        PROVE  parts[i].op \in Plain \cup {"rbrace", "return"} \cup {}
    BY <1>1, <2>2 DEF Plain
  <2>5. 3 \in 1 .. Len(parts) /\ 4 \in 1 .. Len(parts) /\ 4 = 3 + 1 /\ parts[4] = Return
    BY <1>1, <2>2
  <2>6. Body(parts, 3, 4, {})
    BY <2>2, <2>3, <2>5, <2>4 DEF Body
  <2> QED
    BY <2>1, <2>2, <2>6, OpeningStep
<1> QED
  BY <1>2, <1>3

(* An if: the else that may follow comes behind the end of the call.       *)
LEMMA IfParts ==
    ASSUME Typed, todo # <<>>, NEW d \in {0, 1},
           Entered("single_if"), Counted(d),
           todo[1].op # "rbrace",
           todo' = <<Item("expr"), Item("stmts"), Item("rbrace"), Return, Item("else")>>
                      \o Rest(todo, d)
    PROVE  StackStep({})
<1> DEFINE a == Item("expr")
           b == Item("stmts")
           c == Item("rbrace")
           e == Return
           f == Item("else")
           parts == <<a, b, c, e, f>>
<1>1. /\ Part(a) /\ Part(b) /\ Part(c) /\ Part(e) /\ Part(f) /\ e = Return
      /\ a.op = "expr" /\ b.op = "stmts" /\ c.op = "rbrace" /\ e.op = "return" /\ f.op = "else"
  BY PartFacts DEF Ops, Plain, Identifiers, Header
<1>2. todo' = parts \o Rest(todo, d)
  OBVIOUS
<1> HIDE DEF a, b, c, e, f
<1>3. /\ parts \in Seq(Visited) /\ Len(parts) = 5
      /\ parts[1] = a /\ parts[2] = b /\ parts[3] = c /\ parts[4] = e /\ parts[5] = f
      /\ \A i \in 1 .. Len(parts) : Part(parts[i])
      /\ \A i \in 1 .. Len(parts) : i = 1 \/ i = 2 \/ i = 3 \/ i = 4 \/ i = 5
  <2>1. a \in Visited /\ b \in Visited /\ c \in Visited /\ e \in Visited /\ f \in Visited
    BY <1>1 DEF Part
  <2>2. \A i \in 1 .. 5 : i = 1 \/ i = 2 \/ i = 3 \/ i = 4 \/ i = 5
    OBVIOUS
  <2>3. parts \in Seq(Visited) /\ Len(parts) = 5
    BY <2>1
  <2>4. parts[1] = a /\ parts[2] = b /\ parts[3] = c /\ parts[4] = e /\ parts[5] = f
    OBVIOUS
  <2> HIDE DEF parts
  <2>5. \A i \in 1 .. Len(parts) : i = 1 \/ i = 2 \/ i = 3 \/ i = 4 \/ i = 5
    BY <2>2, <2>3
  <2>6. \A i \in 1 .. Len(parts) : Part(parts[i])
    BY <1>1, <2>4, <2>5
  <2> QED
    BY <2>3, <2>4, <2>5, <2>6
<1> HIDE DEF parts
<1>4. ASSUME NEW i \in 1 .. Len(parts)
      PROVE  /\ parts[i].op = "rbrace" <=> i = 3
             /\ parts[i].op = "return" <=> i = 4
  BY <1>1, <1>3
<1>5. ASSUME NEW i \in 1 .. Len(parts)
      PROVE  parts[i].op \in Plain \cup {"rbrace", "return"} \cup {}
  BY <1>1, <1>3 DEF Plain
<1>6. 3 \in 1 .. Len(parts) /\ 4 \in 1 .. Len(parts) /\ 4 = 3 + 1 /\ parts[4] = Return
  <2>1. 3 \in 1 .. 5 /\ 4 \in 1 .. 5 /\ 4 = 3 + 1
    OBVIOUS
  <2>2. Len(parts) = 5 /\ parts[4] = Return
    BY <1>1, <1>3
  <2> QED
    BY <2>1, <2>2, Zenon
<1>7. "single_if" \in Rules \ {"else_if"}
  BY DEF Rules
<1>8. Body(parts, 3, 4, {})
  BY <1>3, <1>4, <1>6, <1>5 DEF Body
<1> QED
  BY <1>2, <1>3, <1>7, <1>8, OpeningStep

(* A for: its counter is looked up, then the bounds and the body.          *)
LEMMA ForParts ==
    ASSUME Typed, todo # <<>>, NEW n \in Names, NEW d \in {0, 1},
           Entered("for_stm"), Counted(d),
           todo[1].op # "rbrace",
           todo' = <<Node("ident", n), Item("expr"), Item("expr"), Item("stmts"), Item("rbrace"),
                     Return>>
                      \o Rest(todo, d)
    PROVE  StackStep({})
<1> DEFINE a == Node("ident", n)
           b == Item("expr")
           c == Item("stmts")
           e == Item("rbrace")
           f == Return
           parts == <<a, b, b, c, e, f>>
<1>1. /\ Part(a) /\ Part(b) /\ Part(c) /\ Part(e) /\ Part(f) /\ f = Return
      /\ a.op = "ident" /\ b.op = "expr" /\ c.op = "stmts" /\ e.op = "rbrace" /\ f.op = "return"
  BY PartFacts DEF Ops, Plain, Identifiers, Header
<1>2. todo' = parts \o Rest(todo, d)
  OBVIOUS
<1> HIDE DEF a, b, c, e, f
<1>3. /\ parts \in Seq(Visited) /\ Len(parts) = 6
      /\ parts[1] = a /\ parts[2] = b /\ parts[3] = b
      /\ parts[4] = c /\ parts[5] = e /\ parts[6] = f
      /\ \A i \in 1 .. Len(parts) : Part(parts[i])
      /\ \A i \in 1 .. Len(parts) : i = 1 \/ i = 2 \/ i = 3 \/ i = 4 \/ i = 5 \/ i = 6
  <2>1. a \in Visited /\ b \in Visited /\ c \in Visited /\ e \in Visited /\ f \in Visited
    BY <1>1 DEF Part
  <2>2. \A i \in 1 .. 6 : i = 1 \/ i = 2 \/ i = 3 \/ i = 4 \/ i = 5 \/ i = 6
    OBVIOUS
  <2>3. parts \in Seq(Visited) /\ Len(parts) = 6
    BY <2>1
  <2>4. parts[1] = a /\ parts[2] = b /\ parts[3] = b
      /\ parts[4] = c /\ parts[5] = e /\ parts[6] = f
    OBVIOUS
  <2> HIDE DEF parts
  <2>5. \A i \in 1 .. Len(parts) : i = 1 \/ i = 2 \/ i = 3 \/ i = 4 \/ i = 5 \/ i = 6
    BY <2>2, <2>3
  <2>6. \A i \in 1 .. Len(parts) : Part(parts[i])
    BY <1>1, <2>4, <2>5
  <2> QED
    BY <2>3, <2>4, <2>5, <2>6
<1> HIDE DEF parts
<1>4. ASSUME NEW i \in 1 .. Len(parts)
      PROVE  /\ parts[i].op = "rbrace" <=> i = 5
             /\ parts[i].op = "return" <=> i = 6
  BY <1>1, <1>3
<1>5. ASSUME NEW i \in 1 .. Len(parts)
      PROVE  parts[i].op \in Plain \cup {"rbrace", "return"} \cup {}
  BY <1>1, <1>3 DEF Plain
<1>6. 5 \in 1 .. Len(parts) /\ 6 \in 1 .. Len(parts) /\ 6 = 5 + 1 /\ parts[6] = Return
  <2>1. 5 \in 1 .. 6 /\ 6 \in 1 .. 6 /\ 6 = 5 + 1
    OBVIOUS
  <2>2. Len(parts) = 6 /\ parts[6] = Return
    BY <1>1, <1>3
  <2> QED
    BY <2>1, <2>2, Zenon
<1>7. "for_stm" \in Rules \ {"else_if"}
  BY DEF Rules
<1>8. Body(parts, 5, 6, {})
  BY <1>3, <1>4, <1>6, <1>5 DEF Body
<1> QED
  BY <1>2, <1>3, <1>7, <1>8, OpeningStep

(* A block enters a scope of its own.                                      *)
LEMMA BlockEntered ==
    ASSUME Typed, NEW rule \in Rules, NEW parts, NEW after, OpenBlock(rule, parts, after)
    PROVE  /\ Entered(rule)
           /\ todo' = parts \o <<Return>> \o after
<1>1. scopes' = Enter(scopes, rule, 0) /\ symtab_top' = Len(scopes')
  BY DEF OpenBlock
<1>2. todo' = parts \o <<Return>> \o after
  BY DEF OpenBlock
<1>3. Entered(rule)
  BY <1>1, TypedFacts, EnteredFacts
<1> QED
  BY <1>2, <1>3

(* if leaves its scope before its else is visited.                         *)
LEMMA SingleIfStack ==
    ASSUME Typed
    PROVE  SingleIf => StackStep({})
<1> DEFINE a == Item("expr")
           b == Item("stmts")
           c == Item("rbrace")
           f == Item("else")
<1>1. a \in Visited /\ b \in Visited /\ c \in Visited /\ Return \in Visited /\ f \in Visited
  BY PartFacts DEF Part, Ops, Plain, Identifiers, Header
<1>2. ASSUME NEW rest \in Seq(Visited)
      PROVE  <<a, b, c>> \o <<Return>> \o (<<f>> \o rest) = <<a, b, c, Return, f>> \o rest
  <2> HIDE DEF a, b, c, f
  <2>1. <<a, b, c>> \o <<Return>> = <<a, b, c, Return>>
    BY <1>1, Concat3
  <2>2. <<a, b, c, Return>> \o <<f>> = <<a, b, c, Return, f>>
    BY <1>1, Concat4
  <2>3. <<a, b, c, Return>> \in Seq(Visited) /\ <<f>> \in Seq(Visited)
    BY <1>1
  <2>4. <<a, b, c, Return>> \o (<<f>> \o rest) = (<<a, b, c, Return>> \o <<f>>) \o rest
    BY <1>2, <2>3, ConcatAssociative
  <2> QED
    BY <2>1, <2>2, <2>4
<1>3. ASSUME todo # <<>>, NEW d \in {0, 1}, Counted(d), todo[1].op # "rbrace",
             OpenBlock("single_if", <<a, b, c>>, <<f>> \o Rest(todo, d))
      PROVE  StackStep({})
  <2>1. Rest(todo, d) \in Seq(Visited)
    BY <1>3, TypedFacts DEF Rest
  <2>2. "single_if" \in Rules
    BY DEF Rules
  <2>3. /\ Entered("single_if")
        /\ todo' = <<a, b, c>> \o <<Return>> \o (<<f>> \o Rest(todo, d))
    BY <1>3, <2>2, BlockEntered
  <2>4. todo' = <<a, b, c, Return, f>> \o Rest(todo, d)
    BY <1>2, <2>1, <2>3
  <2> QED
    BY <1>3, <2>3, <2>4, IfParts
<1>4. ASSUME VisitNext("stmts"), OpenBlock("single_if", <<a, b, c>>, <<f>> \o todo)
      PROVE  StackStep({})
  <2>1. todo # <<>> /\ todo[1].op # "rbrace" /\ nodes < MaxNodes /\ nodes' = nodes + 1
    BY <1>4, VisitFacts DEF VisitNext
  <2>2. Counted(0) /\ Rest(todo, 0) = todo
    BY <2>1 DEF Counted, Rest
  <2> QED
    BY <1>3, <1>4, <2>1, <2>2
<1>5. ASSUME Visit("single_if"), UNCHANGED nodes,
             OpenBlock("single_if", <<a, b, c>>, <<f>> \o Tail(todo))
      PROVE  StackStep({})
  <2>1. todo # <<>> /\ todo[1].op # "rbrace" /\ nodes' = nodes
    BY <1>5, VisitFacts
  <2>2. Counted(1) /\ Rest(todo, 1) = Tail(todo)
    BY <2>1 DEF Counted, Rest
  <2> QED
    BY <1>3, <1>5, <2>1, <2>2
<1> QED
  BY <1>4, <1>5 DEF SingleIf

(* else with a block leaves the scope it enters.                           *)
LEMMA ElseStack ==
    ASSUME Typed
    PROVE  Else => StackStep({})
<1> DEFINE b == Item("stmts")
           c == Item("rbrace")
<1> SUFFICES ASSUME Else
             PROVE  StackStep({})
  OBVIOUS
<1>1. b \in Visited /\ c \in Visited /\ Return \in Visited
  BY PartFacts DEF Part, Ops, Plain, Identifiers, Header
<1>2. todo # <<>> /\ todo[1].op # "rbrace" /\ nodes' = nodes
  BY VisitFacts DEF Else
<1>3. Counted(1) /\ Rest(todo, 1) = Tail(todo)
  BY <1>2 DEF Counted, Rest
<1>4. "else" \in Rules /\ "else" \in Rules \ {"else_if"}
  BY DEF Rules
<1>5. OpenBlock("else", <<b, c>>, Tail(todo))
  BY DEF Else
<1>6. Entered("else") /\ todo' = <<b, c>> \o <<Return>> \o Tail(todo)
  BY <1>4, <1>5, BlockEntered
<1>7. <<b, c>> \o <<Return>> = <<b, c, Return>>
  <2> HIDE DEF b, c
  <2> QED
    BY <1>1, Concat2
<1>8. todo' = <<b, c, Return>> \o Rest(todo, 1)
  BY <1>3, <1>6, <1>7
<1> QED
  BY <1>2, <1>3, <1>4, <1>6, <1>8, BlockParts

(* while leaves the scope it enters, or dies.                              *)
LEMMA WhileStack ==
    ASSUME Typed
    PROVE  \A empty \in BOOLEAN : WhileStm(empty) => StackStep({})
<1> DEFINE a == Item("expr")
           b == Item("stmts")
           c == Item("rbrace")
<1> SUFFICES ASSUME NEW empty \in BOOLEAN, WhileStm(empty)
             PROVE  StackStep({})
  OBVIOUS
<1>1. a \in Visited /\ b \in Visited /\ c \in Visited /\ Return \in Visited
  BY PartFacts DEF Part, Ops, Plain, Identifiers, Header
<1>2. todo # <<>> /\ todo[1].op # "rbrace" /\ nodes < MaxNodes /\ nodes' = nodes + 1
  BY VisitFacts DEF WhileStm, VisitNext
<1>3. Counted(0) /\ Counted(1) /\ Rest(todo, 0) = todo
  BY <1>2 DEF Counted, Rest
<1>4. \/ todo' = <<>> /\ UNCHANGED tables
      \/ OpenBlock("while_stm", <<a, b, c>>, todo)
  BY DEF WhileStm, Die
<1>5. CASE todo' = <<>> /\ UNCHANGED tables
  BY <1>2, <1>3, <1>5 DEF tables, StackStep, Stopping
<1>6. CASE OpenBlock("while_stm", <<a, b, c>>, todo)
  <2>1. "while_stm" \in Rules /\ "while_stm" \in Rules \ {"else_if"}
    BY DEF Rules
  <2>2. Entered("while_stm") /\ todo' = <<a, b, c>> \o <<Return>> \o todo
    BY <1>6, <2>1, BlockEntered
  <2>3. <<a, b, c>> \o <<Return>> = <<a, b, c, Return>>
    <3> HIDE DEF a, b, c
    <3> QED
      BY <1>1, Concat3
  <2>4. todo' = <<a, b, c, Return>> \o Rest(todo, 0)
    BY <1>3, <2>2, <2>3
  <2> QED
    BY <1>2, <1>3, <2>1, <2>2, <2>4, BlockParts
<1> QED
  BY <1>4, <1>5, <1>6

(* else if is the construct that does not leave its scope.                 *)
LEMMA ElseIfStack ==
    ASSUME Typed
    PROVE  ElseIfType => StackStep({})
<1> DEFINE a == Item("single_if")
           parts == <<a, Return>>
<1> SUFFICES ASSUME ElseIfType
             PROVE  StackStep({})
  OBVIOUS
<1>1. Part(a) /\ Part(Return)
  BY PartFacts DEF Ops, Plain, Identifiers, Header
<1>2. a \in Visited /\ Return \in Visited
  BY <1>1 DEF Part
<1>3. todo # <<>> /\ todo[1].op # "rbrace" /\ nodes < MaxNodes /\ nodes' = nodes + 1
  BY VisitFacts DEF ElseIfType, VisitNext
<1>4. Counted(1) /\ Rest(todo, 1) = Tail(todo)
  BY <1>3 DEF Counted, Rest
<1>5. "else_if" \in Rules
  BY DEF Rules
<1>6. OpenBlock("else_if", <<a>>, Tail(todo))
  BY DEF ElseIfType
<1>7. Entered("else_if") /\ todo' = <<a>> \o <<Return>> \o Tail(todo)
  BY <1>5, <1>6, BlockEntered
<1> HIDE DEF a
<1>8. <<a>> \o <<Return>> = parts
  BY <1>2, Concat1
<1>9. /\ parts \in Seq(Visited)
      /\ \A i \in 1 .. Len(parts) : Part(parts[i])
  BY <1>1, Parts2, Zenon
<1>10. todo' = parts \o Rest(todo, 1)
  BY <1>4, <1>7, <1>8
<1> HIDE DEF parts
<1>11. Pushed(parts, 1)
  BY <1>3, <1>4, <1>9, <1>10 DEF Pushed
<1>12. Pushed(<<Item("single_if"), Return>>, 1)
  BY <1>11 DEF parts, a
<1> QED
  BY <1>3, <1>7, <1>12 DEF StackStep, Leaking

(* for leaves the scope it enters.                                         *)
LEMMA ForStack ==
    ASSUME Typed
    PROVE  \A n \in Names : ForStm(n) => StackStep({})
<1> SUFFICES ASSUME NEW n \in Names, ForStm(n)
             PROVE  StackStep({})
  OBVIOUS
<1>1. todo # <<>> /\ todo[1].op # "rbrace" /\ nodes < MaxNodes /\ nodes' = nodes + 1
  BY VisitFacts DEF ForStm, VisitNext
<1>2. Counted(0) /\ Rest(todo, 0) = todo
  BY <1>1 DEF Counted, Rest
<1> DEFINE y == [Symbol(n, "for", TRUE) EXCEPT !.table = Len(scopes) + 1]
           ss == Enter(scopes, "for_stm", 0)
<1>3. y \in Entry
  <2>1. Symbol(n, "for", TRUE) \in Entry
    BY TypedFacts DEF Symbol, Entry, Kinds
  <2>2. Len(scopes) + 1 \in Nat
    BY TypedFacts
  <2>3. ASSUME NEW z \in Entry, NEW k \in Nat
        PROVE  [z EXCEPT !.table = k] \in Entry
    BY DEF Entry
  <2> QED
    BY <2>1, <2>2, <2>3
<1>4. /\ symbols' = Append(symbols, y)
      /\ scopes' = Bind(ss, Len(scopes) + 1, n, Len(symbols'))
      /\ symtab_top' = Len(scopes')
  BY DEF ForStm
<1> HIDE DEF y
<1>5. Len(symbols') \in Nat
  BY <1>3, <1>4, TypedFacts, AppendFacts
<1>6. "for_stm" \in Rules
  BY DEF Rules
<1>7. ss = Append(scopes, NewScope(symtab_top, "for_stm", 0))
  BY DEF Enter
<1> HIDE DEF ss
<1>8. /\ ss \in Seq(Scope) /\ Len(ss) = Len(scopes) + 1
      /\ \A u \in 1 .. Len(scopes) : ss[u] = scopes[u]
      /\ ss[Len(scopes) + 1].parent = symtab_top
      /\ ss[Len(scopes) + 1].rule = "for_stm"
  BY <1>6, <1>7, TypedFacts, EnterFacts
<1>9. Len(scopes) + 1 \in 1 .. Len(ss)
  BY <1>8, TypedFacts
<1>10. /\ scopes' \in Seq(Scope) /\ Len(scopes') = Len(ss)
       /\ \A u \in 1 .. Len(ss) : /\ scopes'[u].parent = ss[u].parent
                                  /\ scopes'[u].rule = ss[u].rule
  BY <1>4, <1>5, <1>8, <1>9, BindFacts
<1>11. Entered("for_stm")
  <2>1. Len(scopes') = Len(scopes) + 1 /\ symtab_top' = Len(scopes) + 1
    BY <1>4, <1>8, <1>10
  <2>2. \A u \in 1 .. Len(scopes) : u \in 1 .. Len(ss)
    BY <1>8, TypedFacts
  <2>3. \A u \in 1 .. Len(scopes) : /\ scopes'[u].parent = scopes[u].parent
                                    /\ scopes'[u].rule = scopes[u].rule
    BY <1>8, <1>10, <2>2, Zenon
  <2>4. /\ scopes'[Len(scopes) + 1].parent = symtab_top
        /\ scopes'[Len(scopes) + 1].rule = "for_stm"
    BY <1>8, <1>9, <1>10
  <2> QED
    BY <1>10, <2>1, <2>3, <2>4 DEF Entered
<1>12. todo' = <<Node("ident", n), Item("expr"), Item("expr"), Item("stmts"), Item("rbrace"),
                 Return>> \o Rest(todo, 0)
  BY <1>2 DEF ForStm
<1> QED
  BY <1>1, <1>2, <1>11, <1>12, ForParts

(* A step with few nodes of headers is one with more.                      *)
LEMMA MoreHeaders ==
    ASSUME NEW H, NEW G, H \subseteq G, StackStep(H)
    PROVE  StackStep(G)
<1>1. \A parts, d : Quiet(parts, d, H) => Quiet(parts, d, G)
  BY DEF Quiet
<1>2. \A parts, d, k, r : Opening(parts, d, k, r, H) => Opening(parts, d, k, r, G)
  BY DEF Opening
<1> QED
  BY <1>1, <1>2 DEF StackStep

(* Every step of the pass is one of the six steps of the stack; the nodes  *)
(* of a header are pushed by make_entry_func and make_entry_param only.    *)
HeaderStep == \/ \E n \in Names, list \in {"crate", "stmts"}, last \in BOOLEAN :
                    FunctionDef(list, n, last)
              \/ \E n \in Names : FnParam(n)

LEMMA EveryStackStep ==
    ASSUME Typed, Headers, todo # <<>> => symtab_top # 0, [Next]_vars
    PROVE  \/ StackStep({})
           \/ StackStep(Headed) /\ HeaderStep
<1>1. CASE UNCHANGED vars
  BY <1>1 DEF vars, tables, StackStep
<1>2. CASE Terminated
  BY <1>2 DEF Terminated, vars, tables, StackStep
<1>3. ASSUME NEW n \in Names, NEW mut \in BOOLEAN, Let(n, mut)
      PROVE  StackStep({})
  <2>1. Assign("stmts", n, "let", mut) /\ "let" \in Kinds
    BY <1>3 DEF Let, Kinds
  <2>2. symtab_top # 0
    BY <2>1 DEF Assign, VisitNext, Visit
  <2> QED
    BY <2>1, <2>2, AssignStack
<1>4. ASSUME NEW n \in Names, NEW list \in {"crate", "stmts"}, Static(list, n)
      PROVE  StackStep({})
  <2>1. Assign(list, n, "static", FALSE) /\ "static" \in Kinds
    BY <1>4 DEF Static, Kinds
  <2>2. symtab_top # 0
    BY <2>1 DEF Assign, VisitNext, Visit
  <2> QED
    BY <2>1, <2>2, AssignStack
<1>5. ASSUME NEW n \in Names, NEW list \in {"crate", "stmts"}, NEW last \in BOOLEAN,
             FunctionDef(list, n, last)
      PROVE  StackStep(Headed) /\ HeaderStep
  <2>1. symtab_top # 0
    BY <1>5 DEF FunctionDef, VisitNext, Visit
  <2>2. StackStep({"fn_name", "params"})
    BY <1>5, <2>1, FunctionDefStack
  <2>3. {"fn_name", "params"} \subseteq Headed
    BY DEF Headed, Header
  <2> QED
    BY <1>5, <2>2, <2>3, MoreHeaders DEF HeaderStep
<1>6. ASSUME NEW n \in Names, FnParam(n)
      PROVE  StackStep(Headed) /\ HeaderStep
  <2>1. StackStep({"param_name"})
    BY <1>6, FnParamStack
  <2>2. {"param_name"} \subseteq Headed
    BY DEF Headed, Header
  <2> QED
    BY <1>6, <2>1, <2>2, MoreHeaders DEF HeaderStep
<1> QED
  BY <1>1, <1>2, <1>3, <1>4, <1>5, <1>6, ForStack, SingleIfStack, ElseStack,
     ElseIfStack, WhileStack, Reads, CloseStack DEF Next

-----------------------------------------------------------------------------
(* What every step of the stack has in common: the tables keep their place *)
(* in the tree, and nodes are pushed where the head was, or none is left.  *)
Kept ==
    /\ Tree(scopes')
    /\ Len(scopes) <= Len(scopes')
    /\ \A t \in 1 .. Len(scopes) : /\ scopes'[t].parent = scopes[t].parent
                                   /\ scopes'[t].rule = scopes[t].rule
    /\ symtab_top' \in 0 .. Len(scopes')

(* No step removes a table or changes the parent of one.                   *)
LEMMA StepKeeps ==
    ASSUME Typed, todo # <<>> => symtab_top # 0, StackStep(Headed)
    PROVE  Kept
<1>1. ASSUME scopes' = scopes, symtab_top' \in 0 .. Len(scopes)
      PROVE  Kept
  BY <1>1, TreeOfScopes, TypedFacts DEF Kept
<1>2. ASSUME SameTree
      PROVE  Kept
  <2>1. Tree(scopes')
    BY <1>2, TreeOfScopes DEF SameTree, Tree
  <2> QED
    BY <1>2, <2>1, TypedFacts DEF SameTree, Kept
<1>3. ASSUME NEW rule, Entered(rule)
      PROVE  Kept
  <2>1. \A t \in 1 .. Len(scopes) + 1 : t \in 1 .. Len(scopes) \/ t = Len(scopes) + 1
    BY TypedFacts
  <2>2. /\ Len(scopes) \in Nat \ {0} /\ symtab_top \in 0 .. Len(scopes)
        /\ \A t \in 1 .. Len(scopes) : scopes[t].parent \in 0 .. t - 1
    BY TreeOfScopes, TypedFacts DEF Tree
  <2>3. Tree(scopes')
    BY <1>3, <2>1, <2>2 DEF Entered, Tree
  <2> QED
    BY <1>3, <2>3, TypedFacts DEF Entered, Kept
<1>4. CASE Closing
  <2>1. scopes' = scopes /\ symtab_top' = scopes[symtab_top].parent
    BY <1>4 DEF Closing
  <2>2. symtab_top \in 1 .. Len(scopes)
    BY <1>4, TypedFacts DEF Closing, Pushed
  <2> QED
    BY <1>1, <2>1, <2>2, TreeOfScopes, TypedFacts DEF Tree
<1> QED
  BY <1>1, <1>2, <1>3, <1>4, TypedFacts
     DEF StackStep, Stopping, Leaking, Quiet, Opening

(* A step does nothing, stops, or pushes parts.                            *)
LEMMA StepShape ==
    ASSUME Typed, StackStep(Headed)
    PROVE  \/ UNCHANGED <<scopes, symtab_top, todo, nodes>>
           \/ todo # <<>> /\ todo' = <<>> /\ Counted(1)
           \/ \E parts \in Seq(Visited), d \in {0, 1} : Pushed(parts, d)
<1>1. <<>> \in Seq(Visited)
  OBVIOUS
<1>2. CASE Closing
  BY <1>1, <1>2 DEF Closing
<1>3. CASE Leaking
  <2>1. Pushed(<<Item("single_if"), Return>>, 1)
    BY <1>3 DEF Leaking
  <2>2. <<Item("single_if"), Return>> \in Seq(Visited)
    BY <2>1 DEF Pushed
  <2> QED
    BY <2>1, <2>2
<1> QED
  BY <1>2, <1>3 DEF StackStep, Stopping, Quiet, Opening

(* Where the nodes of a stack are after a push.                            *)
LEMMA PushFacts ==
    ASSUME todo \in Seq(Visited), todo # <<>>, NEW d \in {0, 1}, NEW parts \in Seq(Visited),
           todo' = parts \o Rest(todo, d)
    PROVE  /\ todo' \in Seq(Visited) /\ Len(todo') = Len(parts) + Len(todo) - d
           /\ \A i \in 1 .. Len(parts) : todo'[i] = parts[i]
           /\ \A i \in Len(parts) + 1 .. Len(todo') : todo'[i] = todo[i - Len(parts) + d]
<1>1. /\ Rest(todo, d) \in Seq(Visited) /\ Len(Rest(todo, d)) = Len(todo) - d
      /\ \A i \in 1 .. Len(todo) - d : Rest(todo, d)[i] = todo[i + d]
  BY DEF Rest
<1> DEFINE r == Rest(todo, d)
<1> HIDE DEF r
<1>2. r \in Seq(Visited) /\ Len(r) = Len(todo) - d /\ \A i \in 1 .. Len(todo) - d : r[i] = todo[i + d]
  BY <1>1 DEF r
<1>3. /\ parts \o r \in Seq(Visited) /\ Len(parts \o r) = Len(parts) + Len(r)
      /\ \A i \in 1 .. Len(parts) + Len(r) :
            (parts \o r)[i] = IF i <= Len(parts) THEN parts[i] ELSE r[i - Len(parts)]
  BY <1>2, ConcatProperties, Zenon
<1>4. todo' = parts \o r
  BY DEF r
<1>5. /\ todo' \in Seq(Visited) /\ Len(todo') = Len(parts) + Len(todo) - d
      /\ \A i \in 1 .. Len(parts) : todo'[i] = parts[i]
  BY <1>2, <1>3, <1>4
<1>6. ASSUME NEW i \in Len(parts) + 1 .. Len(parts) + Len(r)
      PROVE  todo'[i] = todo[i - Len(parts) + d]
  <2>1. i - Len(parts) \in 1 .. Len(todo) - d
    BY <1>2
  <2>2. todo'[i] = r[i - Len(parts)]
    BY <1>2, <1>3, <1>4
  <2> QED
    BY <1>2, <2>1, <2>2
<1>7. ASSUME NEW i \in 1 .. Len(todo) - d
      PROVE  todo'[Len(parts) + i] = todo[i + d]
  <2>1. /\ Len(parts) + i \in Len(parts) + 1 .. Len(parts) + Len(r)
        /\ (Len(parts) + i) - Len(parts) = i
    BY <1>2
  <2> QED
    BY <1>6, <2>1
<1> QED
  BY <1>2, <1>6, <1>7, <1>5

(* Where a node on the stack comes from.                                   *)
LEMMA PushedFacts ==
    ASSUME Typed, NEW parts \in Seq(Visited), NEW d \in {0, 1}, Pushed(parts, d)
    PROVE  /\ todo' \in Seq(Visited)
           /\ Len(parts) \in Nat /\ Len(todo) \in Nat \ {0}
           /\ Len(todo') = Len(parts) + Len(todo) - d
           /\ \A i \in 1 .. Len(todo') :
                 \/ /\ i \in 1 .. Len(parts)
                    /\ todo'[i] = parts[i] /\ Part(todo'[i])
                 \/ /\ i \in Len(parts) + 1 .. Len(todo')
                    /\ i - Len(parts) + d \in 1 + d .. Len(todo)
                    /\ todo'[i] = todo[i - Len(parts) + d]
<1>1. todo # <<>> /\ todo' = parts \o Rest(todo, d)
  BY DEF Pushed
<1>2. /\ todo' \in Seq(Visited) /\ Len(todo') = Len(parts) + Len(todo) - d
      /\ \A i \in 1 .. Len(parts) : todo'[i] = parts[i]
      /\ \A i \in Len(parts) + 1 .. Len(todo') : todo'[i] = todo[i - Len(parts) + d]
  <2>1. todo \in Seq(Visited)
    BY TypedFacts
  <2> QED
    BY <1>1, <2>1, PushFacts
<1>3. \A i \in 1 .. Len(parts) : Part(parts[i])
  BY DEF Pushed
<1>4. Len(parts) \in Nat /\ Len(todo) \in Nat \ {0}
  BY <1>1, TypedFacts
<1>5. ASSUME NEW i \in 1 .. Len(todo')
      PROVE  \/ i \in 1 .. Len(parts)
             \/ /\ i \in Len(parts) + 1 .. Len(todo')
                /\ i - Len(parts) + d \in 1 + d .. Len(todo)
  BY <1>2, <1>4
<1> QED
  BY <1>2, <1>3, <1>4, <1>5

(* The nodes on the stack stay well formed.                                *)
LEMMA StackedStep ==
    ASSUME Typed, StackStep(Headed), Kept
    PROVE  Stacked'
<1> DEFINE Sound(x) == /\ x.op \in Identifiers => x.name \in Names
                       /\ x.top <= Len(scopes) /\ x.made <= Len(scopes)
<1>1. \A i \in 1 .. Len(todo) : todo[i] \in Visited /\ Sound(todo[i])
  BY TypedFacts DEF Typed, Stacked
<1>2. /\ Len(scopes) \in Nat /\ Len(scopes') \in Nat
      /\ Len(scopes) <= Len(scopes')
  BY TypedFacts DEF Kept, Tree
<1>3. ASSUME todo' \in Seq(Visited), \A i \in 1 .. Len(todo') : Sound(todo'[i])
      PROVE  Stacked'
  <2>1. ASSUME NEW i \in 1 .. Len(todo')
        PROVE  /\ todo'[i].op \in Identifiers => todo'[i].name \in Names
               /\ todo'[i].top <= Len(scopes')
               /\ todo'[i].made <= Len(scopes')
    <3>1. todo'[i] \in Visited
      BY <1>3
    <3>2. todo'[i].top \in Nat /\ todo'[i].made \in Nat
      BY <3>1 DEF Visited
    <3> QED
      BY <1>2, <1>3, <3>2
  <2> QED
    BY <1>3, <2>1 DEF Stacked
<1>4. CASE UNCHANGED todo
  BY <1>1, <1>3, <1>4, TypedFacts
<1>5. CASE todo' = <<>>
  BY <1>3, <1>5
<1>6. ASSUME NEW parts \in Seq(Visited), NEW d \in {0, 1}, Pushed(parts, d)
      PROVE  Stacked'
  <2>1. ASSUME NEW i \in 1 .. Len(todo')
        PROVE  Sound(todo'[i])
    <3>1. Part(todo'[i]) \/ \E j \in 1 .. Len(todo) : todo'[i] = todo[j]
      BY <1>6, PushedFacts
    <3> QED
      BY <1>1, <3>1 DEF Part
  <2> HIDE DEF Sound
  <2> QED
    BY <1>3, <1>6, <2>1, PushedFacts
<1> QED
  BY <1>4, <1>5, <1>6, StepShape

(* The counter, and where the crate's list is.                             *)
LEMMA CrateStep ==
    ASSUME Typed, CrateLast, StackStep(Headed)
    PROVE  CrateLast' /\ nodes' \in 0 .. MaxNodes + 1
<1>1. nodes \in 0 .. MaxNodes + 1 /\ MaxNodes \in Nat
  BY TypedFacts
<1>2. CASE UNCHANGED <<todo, nodes>>
  BY <1>1, <1>2 DEF CrateLast
<1>3. ASSUME todo # <<>>, NEW d \in {0, 1}, Counted(d)
      PROVE  nodes' \in 0 .. MaxNodes + 1
  <2>1. todo[1].op = "crate" => nodes <= MaxNodes
    BY <1>3, TypedFacts DEF CrateLast
  <2> QED
    BY <1>1, <1>3, <2>1 DEF Counted
<1>4. CASE todo # <<>> /\ todo' = <<>> /\ Counted(1)
  BY <1>3, <1>4 DEF CrateLast
<1>5. ASSUME NEW parts \in Seq(Visited), NEW d \in {0, 1}, Pushed(parts, d)
      PROVE  CrateLast' /\ nodes' \in 0 .. MaxNodes + 1
  <2>1. todo # <<>> /\ Counted(d)
    BY <1>5 DEF Pushed
  <2>2. ASSUME NEW i \in 1 .. Len(todo'), todo'[i].op = "crate"
        PROVE  i = Len(todo') - 1 /\ nodes' <= MaxNodes
    <3> DEFINE j == i - Len(parts) + d
    <3>1. /\ i \in Len(parts) + 1 .. Len(todo')
          /\ j \in 1 + d .. Len(todo)
          /\ todo[j].op = "crate"
      BY <1>5, <2>2, PushedFacts DEF Part
    <3>2. /\ Len(parts) \in Nat /\ Len(todo) \in Nat
          /\ Len(todo') = Len(parts) + Len(todo) - d
      BY <1>5, PushedFacts
    <3>3. j \in 1 .. Len(todo)
      BY <3>1, <3>2
    <3>4. j = Len(todo) - 1 /\ nodes <= MaxNodes
      BY <3>1, <3>3 DEF CrateLast
    <3>5. i = Len(todo') - 1
      BY <3>1, <3>2, <3>4
    <3>6. ~ (todo[1].op = "crate" /\ d = 1)
      <4>1. 1 \in 1 .. Len(todo)
        BY <3>2, <3>3
      <4>2. todo[1].op = "crate" => 1 = Len(todo) - 1
        BY <4>1 DEF CrateLast
      <4>3. d = 1 => j # 1
        BY <3>1, <3>2
      <4> QED
        BY <3>4, <4>2, <4>3
    <3>7. nodes' <= MaxNodes
      BY <1>1, <2>1, <3>4, <3>6 DEF Counted
    <3> QED
      BY <3>5, <3>7
  <2>3. CrateLast'
    BY <2>2 DEF CrateLast
  <2> QED
    BY <1>3, <2>1, <2>3
<1> QED
  BY <1>2, <1>4, <1>5, StepShape

-----------------------------------------------------------------------------
(* The depths on the stack after a push: c gives those of the parts, base  *)
(* is the one behind them, x the levels that everything below has gained.  *)
Fits(c, parts, d, base, x, e) ==
    /\ c \in [1 .. Len(parts) -> Int] /\ base \in Int /\ x \in {0, 1}
    /\ parts # <<>> =>
          /\ c[1] = Level(scopes')[symtab_top']
          /\ base = IF parts[Len(parts)].op = "rbrace" THEN c[Len(parts)] - 1
                    ELSE c[Len(parts)]
    /\ parts = <<>> => base = Level(scopes')[symtab_top']
    /\ Len(todo) > d => base = e[1 + d] + x
    /\ \A i \in 1 .. Len(parts) - 1 :
          c[i + 1] = IF parts[i].op = "rbrace" THEN c[i] - 1 ELSE c[i]
    /\ \A i \in 1 .. Len(parts) :
          /\ c[i] >= 1
          /\ parts[i].op = "return" =>
                c[i] = Level(scopes')[parts[i].top]
                         + Cardinality(ElseIfs(scopes', parts[i].made))
    /\ \A i \in 1 .. Len(todo) : todo[i].op = "return" =>
          Level(scopes')[todo[i].top] + Cardinality(ElseIfs(scopes', todo[i].made)) = e[i] + x

(* Depths that fit the parts and the rest of the stack balance the two     *)
(* together.                                                               *)
LEMMA BalancedPush ==
    ASSUME Typed, NEW e, Balanced(e, todo, scopes, symtab_top),
           NEW parts \in Seq(Visited), NEW d \in {0, 1}, Pushed(parts, d),
           NEW c, NEW base, NEW x, Fits(c, parts, d, base, x, e)
    PROVE  \E f : Balanced(f, todo', scopes', symtab_top')
<1> DEFINE top == Level(scopes')[symtab_top']
<1>1. /\ c \in [1 .. Len(parts) -> Int] /\ base \in Int /\ x \in {0, 1}
      /\ parts # <<>> =>
            /\ c[1] = top
            /\ base = IF parts[Len(parts)].op = "rbrace" THEN c[Len(parts)] - 1
                      ELSE c[Len(parts)]
      /\ parts = <<>> => base = top
      /\ Len(todo) > d => base = e[1 + d] + x
  BY DEF Fits
<1>2. /\ \A i \in 1 .. Len(parts) - 1 :
            c[i + 1] = IF parts[i].op = "rbrace" THEN c[i] - 1 ELSE c[i]
      /\ \A i \in 1 .. Len(parts) :
            /\ c[i] >= 1
            /\ parts[i].op = "return" =>
                  c[i] = Level(scopes')[parts[i].top]
                           + Cardinality(ElseIfs(scopes', parts[i].made))
  BY DEF Fits
<1>3. \A i \in 1 .. Len(todo) : todo[i].op = "return" =>
         Level(scopes')[todo[i].top] + Cardinality(ElseIfs(scopes', todo[i].made)) = e[i] + x
  BY DEF Fits
<1> HIDE DEF top
<1> DEFINE n == Len(parts)
           m == Len(todo)
           f == [i \in 1 .. Len(todo') |-> IF i <= n THEN c[i] ELSE e[i - n + d] + x]
<1>4. /\ n \in Nat /\ m \in Nat \ {0} /\ Len(todo') = n + m - d
      /\ \A i \in 1 .. Len(todo') :
            \/ i \in 1 .. n /\ todo'[i] = parts[i]
            \/ /\ i \in n + 1 .. Len(todo') /\ i - n + d \in 1 + d .. m
               /\ todo'[i] = todo[i - n + d]
  BY PushedFacts
<1>5. /\ e \in [1 .. m -> Int]
      /\ \A i \in 1 .. m - 1 : e[i + 1] = IF todo[i].op = "rbrace" THEN e[i] - 1 ELSE e[i]
      /\ \A i \in 1 .. m : e[i] >= 1
  BY DEF Balanced
<1>6. /\ \A i \in 1 .. n : i \in 1 .. Len(todo') /\ f[i] = c[i] /\ todo'[i] = parts[i]
      /\ \A i \in n + 1 .. Len(todo') : /\ i - n + d \in 1 + d .. m
                                        /\ f[i] = e[i - n + d] + x
                                        /\ todo'[i] = todo[i - n + d]
  BY <1>4
<1>7. f \in [1 .. Len(todo') -> Int]
  BY <1>1, <1>4, <1>5
<1> HIDE DEF f
<1>8. todo' # <<>> => f[1] = top
  <2> SUFFICES ASSUME todo' # <<>>
               PROVE  f[1] = top
    OBVIOUS
  <2>1. Len(todo') # 0
    BY PushedFacts
  <2>2. CASE parts # <<>>
    <3>1. 1 \in 1 .. n
      BY <1>4, <2>2
    <3> QED
      BY <1>1, <1>6, <2>2, <3>1
  <2>3. CASE parts = <<>>
    <3>1. n = 0 /\ 1 \in n + 1 .. Len(todo') /\ 1 - n + d = 1 + d
      BY <1>4, <2>1, <2>3
    <3>2. f[1] = e[1 + d] + x /\ m > d
      BY <1>4, <1>6, <2>1, <3>1
    <3> QED
      BY <1>1, <2>3, <3>2
  <2> QED
    BY <2>2, <2>3
<1>9. ASSUME NEW i \in 1 .. Len(todo') - 1
      PROVE  f[i + 1] = IF todo'[i].op = "rbrace" THEN f[i] - 1 ELSE f[i]
  <2>1. CASE i < n
    <3>1. i \in 1 .. n - 1 /\ i \in 1 .. n /\ i + 1 \in 1 .. n
      BY <1>4, <2>1
    <3> QED
      BY <1>2, <1>6, <3>1
  <2>2. CASE i = n
    <3>1. /\ parts # <<>> /\ n \in 1 .. n /\ m > d
          /\ n + 1 \in n + 1 .. Len(todo') /\ n + 1 - n + d = 1 + d
      BY <1>4, <2>2
    <3>2. f[n + 1] = e[1 + d] + x /\ f[n] = c[n] /\ todo'[n] = parts[n]
      BY <1>6, <3>1
    <3> QED
      BY <1>1, <2>2, <3>1, <3>2
  <2>3. CASE i > n
    <3> DEFINE j == i - n + d
    <3>1. /\ i \in n + 1 .. Len(todo') /\ i + 1 \in n + 1 .. Len(todo')
          /\ j \in 1 .. m - 1 /\ j \in 1 .. m /\ j + 1 \in 1 .. m /\ i + 1 - n + d = j + 1
      BY <1>4, <2>3
    <3>2. f[i + 1] = e[j + 1] + x /\ f[i] = e[j] + x /\ todo'[i] = todo[j]
      BY <1>6, <3>1
    <3>3. e[j + 1] = IF todo[j].op = "rbrace" THEN e[j] - 1 ELSE e[j]
      BY <1>5, <3>1
    <3>4. e[j] \in Int /\ e[j + 1] \in Int
      BY <1>5, <3>1
    <3> HIDE DEF j
    <3> QED
      BY <1>1, <3>2, <3>3, <3>4
  <2> QED
    BY <1>4, <2>1, <2>2, <2>3
<1>10. ASSUME NEW i \in 1 .. Len(todo')
       PROVE  /\ f[i] >= 1
              /\ todo'[i].op = "return" =>
                    f[i] = Level(scopes')[todo'[i].top]
                             + Cardinality(ElseIfs(scopes', todo'[i].made))
  <2>1. CASE i \in 1 .. n
    BY <1>2, <1>6, <2>1
  <2>2. CASE i \in n + 1 .. Len(todo')
    <3> DEFINE j == i - n + d
    <3>1. j \in 1 .. m /\ f[i] = e[j] + x /\ todo'[i] = todo[j]
      BY <1>4, <1>6, <2>2
    <3>2. e[j] \in Int /\ e[j] >= 1
      BY <1>5, <3>1
    <3> HIDE DEF j
    <3> QED
      BY <1>1, <1>3, <3>1, <3>2
  <2> QED
    BY <1>4, <2>1, <2>2
<1>11. Balanced(f, todo', scopes', symtab_top')
  BY <1>7, <1>8, <1>9, <1>10 DEF Balanced, top
<1> QED
  BY <1>11

(* How many `else if` tables lie beyond a mark.                            *)
LEMMA ElseIfsType ==
    ASSUME NEW ss, Len(ss) \in Nat, NEW made \in Nat
    PROVE  /\ IsFiniteSet(ElseIfs(ss, made))
           /\ Cardinality(ElseIfs(ss, made)) \in Nat
<1>1. IsFiniteSet(made + 1 .. Len(ss))
  BY FS_Interval
<1>2. ElseIfs(ss, made) \in SUBSET (made + 1 .. Len(ss))
  BY DEF ElseIfs
<1>3. IsFiniteSet(ElseIfs(ss, made))
  BY <1>1, <1>2, FS_Subset
<1> QED
  BY <1>3, FS_CardinalityType

(* A step that enters no scope enters no else if.                          *)
LEMMA ElseIfsSame ==
    ASSUME NEW ss, NEW tt, Len(ss) \in Nat, Len(tt) = Len(ss), NEW made \in Nat,
           \A t \in 1 .. Len(ss) : tt[t].rule = ss[t].rule
    PROVE  ElseIfs(tt, made) = ElseIfs(ss, made)
BY DEF ElseIfs

(* A scope entered counts if it is that of an else if.                     *)
LEMMA ElseIfsEntered ==
    ASSUME NEW ss, NEW tt, Len(ss) \in Nat, Len(tt) = Len(ss) + 1,
           NEW made \in Nat, made <= Len(ss),
           \A t \in 1 .. Len(ss) : tt[t].rule = ss[t].rule
    PROVE  Cardinality(ElseIfs(tt, made)) =
              Cardinality(ElseIfs(ss, made)) + (IF tt[Len(tt)].rule = "else_if" THEN 1 ELSE 0)
<1>1. CASE tt[Len(tt)].rule # "else_if"
  <2>1. ElseIfs(tt, made) = ElseIfs(ss, made)
    BY <1>1 DEF ElseIfs
  <2> QED
    BY <1>1, <2>1, ElseIfsType
<1>2. CASE tt[Len(tt)].rule = "else_if"
  <2>1. ElseIfs(tt, made) = ElseIfs(ss, made) \cup {Len(tt)}
    BY <1>2 DEF ElseIfs
  <2>2. Len(tt) \notin ElseIfs(ss, made)
    BY DEF ElseIfs
  <2>3. IsFiniteSet(ElseIfs(ss, made))
    BY ElseIfsType
  <2>4. Cardinality(ElseIfs(tt, made)) = Cardinality(ElseIfs(ss, made)) + 1
    BY <2>1, <2>2, <2>3, FS_AddElement
  <2> QED
    BY <1>2, <2>4
<1> QED
  BY <1>1, <1>2

(* What the nodes on the stack require is known of the tables that exist.  *)
LEMMA BalanceFacts ==
    ASSUME Typed, NEW e, Balanced(e, todo, scopes, symtab_top)
    PROVE  /\ \A i \in 1 .. Len(todo) : /\ e[i] \in Int /\ e[i] >= 1
                                        /\ todo[i].top \in 0 .. Len(scopes)
                                        /\ todo[i].made \in 0 .. Len(scopes)
           /\ \A i \in 1 .. Len(todo) : todo[i].op = "return" =>
                 e[i] = Level(scopes)[todo[i].top] + Cardinality(ElseIfs(scopes, todo[i].made))
           /\ todo # <<>> => e[1] = Level(scopes)[symtab_top] /\ symtab_top # 0
           /\ \A t \in 0 .. Len(scopes) : Level(scopes)[t] \in Nat
           /\ Level(scopes)[0] = 0
           /\ \A t \in 1 .. Len(scopes) : Level(scopes)[t] = 1 + Level(scopes)[scopes[t].parent]
<1>1. Tree(scopes)
  BY TreeOfScopes
<1>2. /\ \A t \in 0 .. Len(scopes) : Level(scopes)[t] \in Nat
      /\ Level(scopes)[0] = 0
      /\ \A t \in 1 .. Len(scopes) : Level(scopes)[t] = 1 + Level(scopes)[scopes[t].parent]
  BY <1>1, LevelType, LevelStep
<1>3. ASSUME NEW i \in 1 .. Len(todo)
      PROVE  todo[i].top \in 0 .. Len(scopes) /\ todo[i].made \in 0 .. Len(scopes)
  <2>1. todo[i] \in Visited
    BY TypedFacts
  <2>2. todo[i].top \in Nat /\ todo[i].made \in Nat
    BY <2>1 DEF Visited
  <2>3. todo[i].top <= Len(scopes) /\ todo[i].made <= Len(scopes)
    BY DEF Typed, Stacked
  <2> QED
    BY <2>2, <2>3, TypedFacts
<1>4. /\ e \in [1 .. Len(todo) -> Int]
      /\ todo # <<>> => e[1] = Level(scopes)[symtab_top]
      /\ \A i \in 1 .. Len(todo) : e[i] >= 1
      /\ \A i \in 1 .. Len(todo) : todo[i].op = "return" =>
            e[i] = Level(scopes)[todo[i].top] + Cardinality(ElseIfs(scopes, todo[i].made))
  BY DEF Balanced
<1>5. todo # <<>> => symtab_top # 0
  <2>1. todo # <<>> => 1 \in 1 .. Len(todo)
    BY TypedFacts
  <2>2. ~ (0 >= 1)
    OBVIOUS
  <2> QED
    BY <1>2, <1>4, <2>1, <2>2
<1> QED
  BY <1>2, <1>3, <1>4, <1>5

(* Tables that exist stay at their level.                                  *)
LEMMA LevelKept ==
    ASSUME Typed, Kept
    PROVE  \A t \in 0 .. Len(scopes) : Level(scopes')[t] = Level(scopes)[t]
<1>1. Tree(scopes) /\ Tree(scopes') /\ Len(scopes) \in Nat /\ Len(scopes) <= Len(scopes')
  BY TreeOfScopes, TypedFacts DEF Kept
<1>2. \A t \in 1 .. Len(scopes) : scopes'[t].parent = scopes[t].parent
  BY DEF Kept
<1>3. Len(scopes) <= Len(scopes)
  BY <1>1
<1> QED
  BY <1>1, <1>2, <1>3, LevelStable

(* The depth of the node below the one visited.                            *)
LEMMA SecondDepth ==
    ASSUME Typed, NEW e, Balanced(e, todo, scopes, symtab_top), Len(todo) > 1
    PROVE  e[2] = IF todo[1].op = "rbrace" THEN e[1] - 1 ELSE e[1]
<1>1. 1 \in 1 .. Len(todo) - 1
  BY TypedFacts
<1> QED
  BY <1>1 DEF Balanced

(* Steps that enter and leave no scope keep the depths.                    *)
LEMMA QuietBalance ==
    ASSUME Typed, Kept, NEW e, Balanced(e, todo, scopes, symtab_top),
           NEW parts \in Seq(Visited), NEW d \in {0, 1}, Quiet(parts, d, Headed)
    PROVE  \E f : Balanced(f, todo', scopes', symtab_top')
<1>1. /\ todo # <<>> /\ Pushed(parts, d) /\ SameTree
      /\ d = 1 => todo[1].op # "rbrace"
      /\ \A i \in 1 .. Len(parts) : parts[i].op # "rbrace" /\ parts[i].op # "return"
  BY DEF Quiet, Pushed, Plain, Headed, Header
<1>2. 1 \in 1 .. Len(todo) /\ Len(parts) \in Nat
  BY <1>1, TypedFacts
<1>3. e[1] \in Int /\ e[1] >= 1
  BY <1>2, BalanceFacts
<1>4. \A t \in 0 .. Len(scopes) : Level(scopes')[t] = Level(scopes)[t]
  BY LevelKept
<1>5. \A made \in Nat : ElseIfs(scopes', made) = ElseIfs(scopes, made)
  BY <1>1, TypedFacts, ElseIfsSame DEF SameTree
<1> DEFINE c == [i \in 1 .. Len(parts) |-> e[1]]
           top == Level(scopes')[symtab_top']
<1>6. c \in [1 .. Len(parts) -> Int] /\ \A i \in 1 .. Len(parts) : c[i] = e[1]
  BY <1>3
<1>7. top = e[1]
  BY <1>1, <1>4, TypedFacts, BalanceFacts DEF SameTree
<1> HIDE DEF c, top
<1>8. parts # <<>> =>
         /\ c[1] = top
         /\ e[1] = IF parts[Len(parts)].op = "rbrace" THEN c[Len(parts)] - 1
                   ELSE c[Len(parts)]
  <2>1. parts # <<>> => 1 \in 1 .. Len(parts) /\ Len(parts) \in 1 .. Len(parts)
    BY <1>2
  <2> QED
    BY <1>1, <1>6, <1>7, <2>1
<1>9. Len(todo) > d => e[1] = e[1 + d] + 0
  <2>1. CASE d = 0
    BY <1>3, <2>1
  <2>2. CASE d = 1
    BY <1>1, <1>3, <2>2, SecondDepth
  <2> QED
    BY <2>1, <2>2
<1>10. \A i \in 1 .. Len(parts) - 1 :
          c[i + 1] = IF parts[i].op = "rbrace" THEN c[i] - 1 ELSE c[i]
  <2>1. \A i \in 1 .. Len(parts) - 1 : i \in 1 .. Len(parts) /\ i + 1 \in 1 .. Len(parts)
    BY <1>2
  <2> QED
    BY <1>1, <1>6, <2>1
<1>11. \A i \in 1 .. Len(parts) : c[i] >= 1 /\ parts[i].op # "return"
  BY <1>1, <1>3, <1>6
<1>12. ASSUME NEW i \in 1 .. Len(todo), todo[i].op = "return"
       PROVE  Level(scopes')[todo[i].top] + Cardinality(ElseIfs(scopes', todo[i].made))
                 = e[i] + 0
  <2>1. /\ e[i] \in Int
        /\ todo[i].top \in 0 .. Len(scopes) /\ todo[i].made \in Nat
        /\ e[i] = Level(scopes)[todo[i].top] + Cardinality(ElseIfs(scopes, todo[i].made))
    BY <1>12, BalanceFacts, TypedFacts
  <2> QED
    BY <1>4, <1>5, <2>1
<1>13. top = Level(scopes')[symtab_top']
  BY DEF top
<1>14. Fits(c, parts, d, e[1], 0, e)
  BY <1>3, <1>6, <1>7, <1>8, <1>9, <1>10, <1>11, <1>12, <1>13 DEF Fits
<1> QED
  BY <1>1, <1>14, BalancedPush

(* A scope entered and left again is balanced up to its '}' and behind     *)
(* it.                                                                     *)
LEMMA OpeningBalance ==
    ASSUME Typed, Kept, NEW e, Balanced(e, todo, scopes, symtab_top),
           NEW parts \in Seq(Visited), NEW d \in {0, 1},
           NEW k \in 1 .. Len(parts), NEW r \in 1 .. Len(parts), Opening(parts, d, k, r, Headed)
    PROVE  \E f : Balanced(f, todo', scopes', symtab_top')
<1>1. /\ todo # <<>> /\ Pushed(parts, d) /\ todo[1].op # "rbrace" /\ r = k + 1
      /\ \A i \in 1 .. Len(parts) : /\ parts[i].op = "rbrace" <=> i = k
                                    /\ parts[i].op = "return" <=> i = r
      /\ parts[r].top = symtab_top /\ parts[r].made = Len(scopes)
  BY DEF Opening, Pushed
<1>2. PICK rule \in Rules \ {"else_if"} : Entered(rule)
  BY DEF Opening
<1>3. 1 \in 1 .. Len(todo) /\ Len(parts) \in Nat
  BY <1>1, TypedFacts
<1>4. e[1] \in Int /\ e[1] >= 1 /\ e[1] = Level(scopes)[symtab_top]
  BY <1>1, <1>3, BalanceFacts
<1>5. \A t \in 0 .. Len(scopes) : Level(scopes')[t] = Level(scopes)[t]
  BY LevelKept
<1>6. /\ Len(scopes) \in Nat /\ Len(scopes') = Len(scopes) + 1
      /\ \A t \in 1 .. Len(scopes) : scopes'[t].rule = scopes[t].rule
      /\ scopes'[Len(scopes')].rule # "else_if"
      /\ scopes'[Len(scopes')].parent = symtab_top
      /\ symtab_top' = Len(scopes')
  BY <1>2, TypedFacts DEF Entered
<1>7. \A made \in 0 .. Len(scopes) : /\ Cardinality(ElseIfs(scopes, made)) \in Nat
                                     /\ Cardinality(ElseIfs(scopes', made)) =
                                           Cardinality(ElseIfs(scopes, made))
  <2>1. ASSUME NEW made \in 0 .. Len(scopes)
        PROVE  /\ Cardinality(ElseIfs(scopes, made)) \in Nat
               /\ Cardinality(ElseIfs(scopes', made)) = Cardinality(ElseIfs(scopes, made)) + 0
    <3>1. made \in Nat /\ made <= Len(scopes)
      BY <1>6
    <3>2. Cardinality(ElseIfs(scopes, made)) \in Nat
      BY <1>6, <3>1, ElseIfsType
    <3>3. Cardinality(ElseIfs(scopes', made)) = Cardinality(ElseIfs(scopes, made)) + 0
      BY <1>6, <3>1, ElseIfsEntered
    <3> QED
      BY <3>2, <3>3
  <2> QED
    BY <2>1
<1>8. Cardinality(ElseIfs(scopes', Len(scopes))) = 0
  <2>1. ElseIfs(scopes, Len(scopes)) = {}
    BY <1>6 DEF ElseIfs
  <2>2. Cardinality(ElseIfs(scopes, Len(scopes))) = 0
    BY <2>1, FS_EmptySet
  <2>3. Len(scopes) \in 0 .. Len(scopes)
    BY <1>6
  <2> QED
    BY <1>7, <2>2, <2>3
<1> DEFINE c == [i \in 1 .. Len(parts) |-> IF i <= k THEN e[1] + 1 ELSE e[1]]
           top == Level(scopes')[symtab_top']
<1>9. /\ c \in [1 .. Len(parts) -> Int]
      /\ \A i \in 1 .. Len(parts) : c[i] = IF i <= k THEN e[1] + 1 ELSE e[1]
  BY <1>4
<1>10. top = e[1] + 1
  <2>1. Len(scopes') \in 1 .. Len(scopes') /\ symtab_top \in 0 .. Len(scopes)
    BY <1>6, TypedFacts
  <2>2. Level(scopes')[Len(scopes')] = 1 + Level(scopes')[scopes'[Len(scopes')].parent]
    BY <2>1, LevelStep DEF Kept
  <2> QED
    BY <1>4, <1>5, <1>6, <2>1, <2>2
<1> HIDE DEF c, top
<1>11. parts # <<>> /\ 1 \in 1 .. Len(parts) /\ Len(parts) \in 1 .. Len(parts)
       /\ 1 <= k /\ ~ (Len(parts) <= k)
  BY <1>1, <1>3
<1>12. /\ c[1] = top
       /\ e[1] = IF parts[Len(parts)].op = "rbrace" THEN c[Len(parts)] - 1 ELSE c[Len(parts)]
  <2>1. parts[Len(parts)].op # "rbrace"
    BY <1>1, <1>11
  <2> QED
    BY <1>9, <1>10, <1>11, <2>1
<1>13. Len(todo) > d => e[1] = e[1 + d] + 0
  <2>1. CASE d = 0
    BY <1>4, <2>1
  <2>2. CASE d = 1
    BY <1>1, <1>4, <2>2, SecondDepth
  <2> QED
    BY <2>1, <2>2
<1>14. \A i \in 1 .. Len(parts) - 1 :
          c[i + 1] = IF parts[i].op = "rbrace" THEN c[i] - 1 ELSE c[i]
  <2>1. ASSUME NEW i \in 1 .. Len(parts) - 1
        PROVE  c[i + 1] = IF parts[i].op = "rbrace" THEN c[i] - 1 ELSE c[i]
    <3>1. i \in 1 .. Len(parts) /\ i + 1 \in 1 .. Len(parts)
      BY <1>3
    <3>2. parts[i].op = "rbrace" <=> i = k
      BY <1>1, <3>1
    <3>3. /\ c[i] = IF i <= k THEN e[1] + 1 ELSE e[1]
          /\ c[i + 1] = IF i + 1 <= k THEN e[1] + 1 ELSE e[1]
      BY <1>9, <3>1
    <3>4. CASE i = k
      BY <1>4, <3>2, <3>3, <3>4
    <3>5. CASE i # k
      BY <1>4, <3>1, <3>2, <3>3, <3>5
    <3> QED
      BY <3>4, <3>5
  <2> QED
    BY <2>1
<1>15. ASSUME NEW i \in 1 .. Len(parts)
       PROVE  /\ c[i] >= 1
              /\ parts[i].op = "return" =>
                    c[i] = Level(scopes')[parts[i].top]
                             + Cardinality(ElseIfs(scopes', parts[i].made))
  <2>1. c[i] >= 1
    BY <1>4, <1>9
  <2>2. ASSUME parts[i].op = "return"
        PROVE  c[i] = Level(scopes')[parts[i].top]
                        + Cardinality(ElseIfs(scopes', parts[i].made))
    <3>1. i = r /\ ~ (r <= k)
      BY <1>1, <2>2
    <3>2. c[i] = e[1]
      BY <1>9, <3>1
    <3>3. parts[i].top = symtab_top /\ parts[i].made = Len(scopes)
      BY <1>1, <3>1
    <3>4. Level(scopes')[symtab_top] = e[1]
      BY <1>4, <1>5, TypedFacts
    <3> QED
      BY <1>4, <1>8, <3>2, <3>3, <3>4
  <2> QED
    BY <2>1, <2>2
<1>16. ASSUME NEW i \in 1 .. Len(todo), todo[i].op = "return"
       PROVE  Level(scopes')[todo[i].top] + Cardinality(ElseIfs(scopes', todo[i].made))
                 = e[i] + 0
  <2>1. /\ e[i] \in Int
        /\ todo[i].top \in 0 .. Len(scopes) /\ todo[i].made \in 0 .. Len(scopes)
        /\ e[i] = Level(scopes)[todo[i].top] + Cardinality(ElseIfs(scopes, todo[i].made))
    BY <1>16, BalanceFacts
  <2> QED
    BY <1>5, <1>7, <2>1
<1>17. top = Level(scopes')[symtab_top']
  BY DEF top
<1>18. Fits(c, parts, d, e[1], 0, e)
  BY <1>4, <1>9, <1>11, <1>12, <1>13, <1>14, <1>15, <1>16, <1>17 DEF Fits
<1> QED
  BY <1>1, <1>18, BalancedPush

(* An else if puts all nodes below it one level deeper.                    *)
LEMMA LeakingBalance ==
    ASSUME Typed, Kept, NEW e, Balanced(e, todo, scopes, symtab_top), Leaking
    PROVE  \E f : Balanced(f, todo', scopes', symtab_top')
<1> DEFINE a == Item("single_if")
           parts == <<a, Return>>
<1>1. /\ todo # <<>> /\ Pushed(parts, 1) /\ todo[1].op # "rbrace" /\ Entered("else_if")
      /\ parts \in Seq(Visited)
  BY DEF Leaking, Pushed
<1>2. /\ Part(a) /\ Part(Return)
      /\ a.op = "single_if" /\ Return.op = "return"
      /\ Return.top = symtab_top /\ Return.made = Len(scopes)
  BY PartFacts DEF Ops, Plain, Identifiers, Header
<1> HIDE DEF a
<1>3. /\ Len(parts) = 2 /\ parts[1] = a /\ parts[2] = Return
      /\ \A i \in 1 .. Len(parts) : i = 1 \/ i = 2
  BY <1>2, Parts2, Zenon
<1>4. 1 \in 1 .. Len(todo)
  BY <1>1, TypedFacts
<1>5. e[1] \in Int /\ e[1] >= 1 /\ e[1] = Level(scopes)[symtab_top]
  BY <1>1, <1>4, BalanceFacts
<1>6. \A t \in 0 .. Len(scopes) : Level(scopes')[t] = Level(scopes)[t]
  BY LevelKept
<1>7. /\ Len(scopes) \in Nat /\ Len(scopes') = Len(scopes) + 1
      /\ \A t \in 1 .. Len(scopes) : scopes'[t].rule = scopes[t].rule
      /\ scopes'[Len(scopes')].rule = "else_if"
      /\ scopes'[Len(scopes')].parent = symtab_top
      /\ symtab_top' = Len(scopes')
  BY <1>1, TypedFacts DEF Entered
<1>8. ASSUME NEW made \in 0 .. Len(scopes)
      PROVE  /\ Cardinality(ElseIfs(scopes, made)) \in Nat
             /\ Cardinality(ElseIfs(scopes', made)) = Cardinality(ElseIfs(scopes, made)) + 1
  <2>1. made \in Nat /\ made <= Len(scopes)
    BY <1>7
  <2>2. Cardinality(ElseIfs(scopes, made)) \in Nat
    BY <1>7, <2>1, ElseIfsType
  <2>3. Cardinality(ElseIfs(scopes', made)) = Cardinality(ElseIfs(scopes, made)) + 1
    BY <1>7, <2>1, ElseIfsEntered
  <2> QED
    BY <2>2, <2>3
<1>9. Cardinality(ElseIfs(scopes', Len(scopes))) = 1
  <2>1. ElseIfs(scopes, Len(scopes)) = {}
    BY <1>7 DEF ElseIfs
  <2>2. Cardinality(ElseIfs(scopes, Len(scopes))) = 0
    BY <2>1, FS_EmptySet
  <2>3. Len(scopes) \in 0 .. Len(scopes)
    BY <1>7
  <2> QED
    BY <1>8, <2>2, <2>3
<1> DEFINE c == [i \in 1 .. Len(parts) |-> e[1] + 1]
           top == Level(scopes')[symtab_top']
<1>10. /\ c \in [1 .. Len(parts) -> Int]
       /\ \A i \in 1 .. Len(parts) : c[i] = e[1] + 1
  BY <1>5
<1>11. top = e[1] + 1
  <2>1. Len(scopes') \in 1 .. Len(scopes') /\ symtab_top \in 0 .. Len(scopes)
    BY <1>7, TypedFacts
  <2>2. Level(scopes')[Len(scopes')] = 1 + Level(scopes')[scopes'[Len(scopes')].parent]
    BY <2>1, LevelStep DEF Kept
  <2> QED
    BY <1>5, <1>6, <1>7, <2>1, <2>2
<1> HIDE DEF c, top, parts
<1>12. 1 \in 1 .. Len(parts) /\ 2 \in 1 .. Len(parts)
  BY <1>3
<1>13. parts # <<>> =>
          /\ c[1] = top
          /\ e[1] + 1 = IF parts[Len(parts)].op = "rbrace" THEN c[Len(parts)] - 1
                        ELSE c[Len(parts)]
  BY <1>2, <1>3, <1>10, <1>11, <1>12
<1>14. parts = <<>> => e[1] + 1 = top
  BY <1>11
<1>15. Len(todo) > 1 => e[1] + 1 = e[1 + 1] + 1
  BY <1>1, SecondDepth
<1>16. \A i \in 1 .. Len(parts) - 1 :
          c[i + 1] = IF parts[i].op = "rbrace" THEN c[i] - 1 ELSE c[i]
  <2>1. \A i \in 1 .. Len(parts) - 1 : i = 1 /\ i + 1 = 2
    BY <1>3
  <2> QED
    BY <1>2, <1>3, <1>10, <1>12, <2>1
<1>17. ASSUME NEW i \in 1 .. Len(parts)
       PROVE  /\ c[i] >= 1
              /\ parts[i].op = "return" =>
                    c[i] = Level(scopes')[parts[i].top]
                             + Cardinality(ElseIfs(scopes', parts[i].made))
  <2>1. c[i] >= 1 /\ c[i] = e[1] + 1
    BY <1>5, <1>10
  <2>2. ASSUME parts[i].op = "return"
        PROVE  c[i] = Level(scopes')[parts[i].top]
                        + Cardinality(ElseIfs(scopes', parts[i].made))
    <3>1. parts[i].top = symtab_top /\ parts[i].made = Len(scopes)
      BY <1>2, <1>3, <2>2
    <3>2. Level(scopes')[symtab_top] = e[1]
      BY <1>5, <1>6, TypedFacts
    <3> QED
      BY <1>9, <2>1, <3>1, <3>2
  <2> QED
    BY <2>1, <2>2
<1>18. ASSUME NEW i \in 1 .. Len(todo), todo[i].op = "return"
       PROVE  Level(scopes')[todo[i].top] + Cardinality(ElseIfs(scopes', todo[i].made))
                 = e[i] + 1
  <2>1. /\ e[i] \in Int
        /\ todo[i].top \in 0 .. Len(scopes) /\ todo[i].made \in 0 .. Len(scopes)
        /\ e[i] = Level(scopes)[todo[i].top] + Cardinality(ElseIfs(scopes, todo[i].made))
    BY <1>18, BalanceFacts
  <2>2. Level(scopes)[todo[i].top] \in Nat
    BY <2>1, BalanceFacts
  <2>3. /\ Cardinality(ElseIfs(scopes, todo[i].made)) \in Nat
        /\ Cardinality(ElseIfs(scopes', todo[i].made)) =
              Cardinality(ElseIfs(scopes, todo[i].made)) + 1
    BY <1>8, <2>1
  <2>4. Level(scopes')[todo[i].top] = Level(scopes)[todo[i].top]
    BY <1>6, <2>1
  <2>5. \A l, k \in Nat : l + (k + 1) = l + k + 1
    OBVIOUS
  <2> QED
    BY <2>1, <2>2, <2>3, <2>4, <2>5
<1>19. top = Level(scopes')[symtab_top']
  BY DEF top
<1>20. e[1] + 1 \in Int
  BY <1>5
<1>21. Fits(c, parts, 1, e[1] + 1, 1, e)
  BY <1>10, <1>13, <1>14, <1>15, <1>16, <1>17, <1>18, <1>19, <1>20 DEF Fits
<1> QED
  BY <1>1, <1>21, BalancedPush DEF parts

(* A '}' goes up to the level that the next node expects.                  *)
LEMMA ClosingBalance ==
    ASSUME Typed, Kept, NEW e, Balanced(e, todo, scopes, symtab_top), Closing
    PROVE  \E f : Balanced(f, todo', scopes', symtab_top')
<1> DEFINE parts == <<>>
           c == [i \in 1 .. Len(parts) |-> 0]
<1>1. /\ todo # <<>> /\ Pushed(parts, 1) /\ parts \in Seq(Visited) /\ todo[1].op = "rbrace"
      /\ scopes' = scopes /\ symtab_top' = scopes[symtab_top].parent
  BY DEF Closing, Pushed
<1>2. Len(parts) = 0 /\ c \in [1 .. Len(parts) -> Int] /\ \A i \in 1 .. Len(parts) : FALSE
  OBVIOUS
<1>3. 1 \in 1 .. Len(todo)
  BY <1>1, TypedFacts
<1>4. e[1] \in Int /\ e[1] = Level(scopes)[symtab_top] /\ symtab_top # 0
  BY <1>1, <1>3, BalanceFacts
<1>5. e[1] - 1 = Level(scopes')[symtab_top'] /\ e[1] - 1 \in Int
  <2>1. symtab_top \in 1 .. Len(scopes)
    BY <1>4, TypedFacts
  <2>2. Level(scopes)[symtab_top] = 1 + Level(scopes)[scopes[symtab_top].parent]
    BY <2>1, BalanceFacts
  <2>3. scopes[symtab_top].parent \in 0 .. Len(scopes)
    BY <2>1, TypedFacts, TreeOfScopes DEF Tree
  <2>4. Level(scopes)[scopes[symtab_top].parent] \in Nat
    BY <2>3, BalanceFacts
  <2> QED
    BY <1>1, <1>4, <2>2, <2>4
<1>6. Len(todo) > 1 => e[1] - 1 = e[1 + 1] + 0
  BY <1>1, <1>4, SecondDepth
<1>7. ASSUME NEW i \in 1 .. Len(todo), todo[i].op = "return"
      PROVE  Level(scopes')[todo[i].top] + Cardinality(ElseIfs(scopes', todo[i].made))
                 = e[i] + 0
  BY <1>1, <1>7, BalanceFacts
<1>8. \A i \in 1 .. Len(parts) - 1 : FALSE
  BY <1>2
<1>9. parts = <<>>
  OBVIOUS
<1> HIDE DEF c, parts
<1>10. Fits(c, parts, 1, e[1] - 1, 0, e)
  BY <1>2, <1>5, <1>6, <1>7, <1>8, <1>9 DEF Fits
<1> QED
  BY <1>1, <1>10, BalancedPush

(* The depths stay those of the tables on the way out, and the crate's     *)
(* table is on top as long as anything is to be visited.                   *)
LEMMA BalanceStep ==
    ASSUME Typed, StackStep(Headed), \E e : Balanced(e, todo, scopes, symtab_top)
    PROVE  \E f : Balanced(f, todo', scopes', symtab_top')
<1> PICK e : Balanced(e, todo, scopes, symtab_top)
  OBVIOUS
<1>1. Kept
  BY BalanceFacts, StepKeeps
<1>2. CASE UNCHANGED <<scopes, symtab_top, todo, nodes>>
  BY <1>2
<1>3. CASE todo' = <<>>
  <2> DEFINE f == [i \in 1 .. 0 |-> 0]
  <2>1. /\ f \in [1 .. Len(todo') -> Int] /\ \A i \in 1 .. Len(todo') : FALSE
        /\ \A i \in 1 .. Len(todo') - 1 : FALSE
    BY <1>3
  <2> HIDE DEF f
  <2>2. Balanced(f, todo', scopes', symtab_top')
    BY <1>3, <2>1 DEF Balanced
  <2> QED
    BY <2>2
<1> QED
  BY <1>1, <1>2, <1>3, QuietBalance, OpeningBalance, LeakingBalance, ClosingBalance
     DEF StackStep, Stopping
=============================================================================
