---------------------------- MODULE SymTabProofs ----------------------------
(***************************************************************************)
(* Proofs about SymTab: the inductive invariant IInv of the pass of        *)
(* symtab.c, for every set of names, list of built-ins and size of the     *)
(* tree, and the theorems that follow from it.                             *)
(***************************************************************************)
EXTENDS SymTabStack

-----------------------------------------------------------------------------
(* What a step does to the tables and the symbols: both only grow, a       *)
(* binding may be replaced but is never removed.                           *)
Grows(ss, ys, tt, zs) ==
    /\ Linked(ss, ys) /\ Linked(tt, zs)
    /\ Len(ss) <= Len(tt) /\ Len(ys) <= Len(zs)
    /\ \A t \in 1 .. Len(ss) :
          /\ tt[t].parent = ss[t].parent
          /\ tt[t].owner = ss[t].owner
          /\ \A m \in Names : ss[t].tbl[m] # 0 => tt[t].tbl[m] # 0
    /\ \A p \in 1 .. Len(ys) : /\ zs[p].name = ys[p].name
                               /\ zs[p].kind = ys[p].kind
                               /\ zs[p].mut = ys[p].mut
                               /\ zs[p].table = ys[p].table

(* What linked tables and symbols look like, one field at a time.          *)
LEMMA LinkedFacts ==
    ASSUME NEW ss, NEW ys, Linked(ss, ys)
    PROVE  /\ ss \in Seq(Scope) /\ ys \in Seq(Entry) /\ Len(ss) \in Nat \ {0} /\ Len(ys) \in Nat
           /\ \A t \in 1 .. Len(ss) :
                 /\ ss[t].parent \in Nat /\ ss[t].parent < t
                 /\ ss[t].rule \in Rules
                 /\ ss[t].owner \in Nat /\ ss[t].owner <= Len(ys)
                 /\ ss[t].tbl \in [Names -> Nat]
                 /\ \A m \in Names : ss[t].tbl[m] \in Nat /\ ss[t].tbl[m] <= Len(ys)
           /\ \A p \in 1 .. Len(ys) : /\ ys[p] \in Entry
                                      /\ ys[p].table \in 1 .. Len(ss)
<1>1. ss \in Seq(Scope) /\ ys \in Seq(Entry) /\ ss # <<>>
  BY DEF Linked
<1>2. /\ \A t \in 1 .. Len(ss) : ss[t] \in Scope
      /\ \A p \in 1 .. Len(ys) : ys[p] \in Entry
      /\ Len(ss) \in Nat \ {0} /\ Len(ys) \in Nat
  BY <1>1
<1>3. ASSUME NEW t \in 1 .. Len(ss)
      PROVE  /\ ss[t].parent \in Nat /\ ss[t].parent < t
             /\ ss[t].rule \in Rules
             /\ ss[t].owner \in Nat /\ ss[t].owner <= Len(ys)
             /\ ss[t].tbl \in [Names -> Nat]
  <2>1. ss[t].parent < t /\ ss[t].owner <= Len(ys)
    BY DEF Linked
  <2>2. ss[t] \in Scope
    BY <1>2
  <2> QED
    BY <2>1, <2>2 DEF Scope
<1>4. ASSUME NEW t \in 1 .. Len(ss), NEW m \in Names
      PROVE  ss[t].tbl[m] \in Nat /\ ss[t].tbl[m] <= Len(ys)
  <2>1. ss[t].tbl[m] <= Len(ys)
    BY DEF Linked
  <2> QED
    BY <1>3, <2>1
<1>5. \A p \in 1 .. Len(ys) : ys[p].table \in 1 .. Len(ss)
  BY DEF Linked
<1> QED
  BY <1>1, <1>2, <1>3, <1>4, <1>5

(* Nothing new is a growth.                                                *)
LEMMA GrowsSame ==
    ASSUME NEW ss, NEW ys, Linked(ss, ys)
    PROVE  Grows(ss, ys, ss, ys)
BY LinkedFacts DEF Grows

(* Two growths in a row are one.                                           *)
LEMMA GrowsTransitive ==
    ASSUME NEW ss, NEW ys, NEW tt, NEW zs, NEW uu, NEW xs,
           Grows(ss, ys, tt, zs), Grows(tt, zs, uu, xs)
    PROVE  Grows(ss, ys, uu, xs)
<1>1. /\ Linked(ss, ys) /\ Linked(uu, xs) /\ Linked(tt, zs)
      /\ Len(ss) <= Len(tt) /\ Len(ys) <= Len(zs)
      /\ Len(tt) <= Len(uu) /\ Len(zs) <= Len(xs)
  BY DEF Grows
<1>2. /\ Len(ss) \in Nat /\ Len(ys) \in Nat /\ Len(tt) \in Nat /\ Len(zs) \in Nat
      /\ Len(uu) \in Nat /\ Len(xs) \in Nat
  BY <1>1, LinkedFacts
<1>3. /\ Len(ss) <= Len(uu) /\ Len(ys) <= Len(xs)
      /\ \A t \in 1 .. Len(ss) : t \in 1 .. Len(tt)
      /\ \A p \in 1 .. Len(ys) : p \in 1 .. Len(zs)
  BY <1>1, <1>2
<1> QED
  BY <1>1, <1>3, Zenon DEF Grows

(* scope_bind of a new symbol y as n, in table t.                          *)
Binding(ss, ys, tt, zs, t, n, y) ==
    /\ Linked(ss, ys) /\ t \in 1 .. Len(ss) /\ n \in Names
    /\ y \in Entry /\ y.table \in 1 .. Len(ss)
    /\ zs = Append(ys, y)
    /\ tt = Bind(ss, t, n, Len(zs))

(* Binding a new symbol is a growth, and touches one entry of one table.   *)
LEMMA GrowsBind ==
    ASSUME NEW ss, NEW ys, NEW tt, NEW zs, NEW t, NEW n, NEW y,
           Binding(ss, ys, tt, zs, t, n, y)
    PROVE  /\ Grows(ss, ys, tt, zs)
           /\ Len(tt) = Len(ss) /\ Len(zs) = Len(ys) + 1 /\ zs[Len(zs)] = y
           /\ \A p \in 1 .. Len(ys) : zs[p] = ys[p]
           /\ \A u \in 1 .. Len(ss), m \in Names :
                 u # t \/ m # n => tt[u].tbl[m] = ss[u].tbl[m]
<1>1. /\ Linked(ss, ys) /\ t \in 1 .. Len(ss) /\ n \in Names
      /\ y \in Entry /\ y.table \in 1 .. Len(ss)
      /\ zs = Append(ys, y)
      /\ tt = Bind(ss, t, n, Len(zs))
  BY DEF Binding
<1>2. /\ ss \in Seq(Scope) /\ ys \in Seq(Entry) /\ Len(ss) \in Nat \ {0} /\ Len(ys) \in Nat
      /\ \A u \in 1 .. Len(ss) :
            /\ ss[u].parent \in Nat /\ ss[u].parent < u
            /\ ss[u].owner \in Nat /\ ss[u].owner <= Len(ys)
            /\ \A m \in Names : ss[u].tbl[m] \in Nat /\ ss[u].tbl[m] <= Len(ys)
      /\ \A p \in 1 .. Len(ys) : ys[p].table \in 1 .. Len(ss)
  BY <1>1, LinkedFacts
<1>3. /\ zs \in Seq(Entry) /\ Len(zs) = Len(ys) + 1 /\ zs[Len(ys) + 1] = y
      /\ \A p \in 1 .. Len(ys) : zs[p] = ys[p]
  BY <1>1, <1>2, AppendFacts
<1>4. Len(zs) \in Nat \ {0}
  BY <1>2, <1>3
<1>5. /\ tt \in Seq(Scope) /\ Len(tt) = Len(ss)
      /\ \A u \in 1 .. Len(ss) :
            /\ tt[u].parent = ss[u].parent
            /\ tt[u].rule = ss[u].rule
            /\ tt[u].owner = ss[u].owner
            /\ \A m \in Names :
                  tt[u].tbl[m] = IF u = t /\ m = n THEN Len(zs) ELSE ss[u].tbl[m]
  BY <1>1, <1>2, <1>4, BindFacts
<1>6. Linked(tt, zs)
  <2>1. tt # <<>>
    BY <1>2, <1>5
  <2>2. ASSUME NEW u \in 1 .. Len(tt)
        PROVE  /\ tt[u].parent < u
               /\ tt[u].owner <= Len(zs)
               /\ \A m \in Names : tt[u].tbl[m] <= Len(zs)
    <3>1. u \in 1 .. Len(ss)
      BY <1>5
    <3>2. tt[u].parent < u /\ tt[u].owner <= Len(zs)
      <4>1. tt[u].parent = ss[u].parent /\ tt[u].owner = ss[u].owner
        BY <1>5, <3>1
      <4>2. ss[u].parent < u /\ ss[u].owner \in Nat /\ ss[u].owner <= Len(ys)
        BY <1>2, <3>1
      <4>3. Len(ys) \in Nat /\ Len(zs) = Len(ys) + 1
        BY <1>2, <1>3
      <4> QED
        BY <4>1, <4>2, <4>3
    <3>3. ASSUME NEW m \in Names
          PROVE  tt[u].tbl[m] <= Len(zs)
      <4>1. ss[u].tbl[m] \in Nat /\ ss[u].tbl[m] <= Len(ys)
        BY <1>2, <3>1
      <4>2. tt[u].tbl[m] = Len(zs) \/ tt[u].tbl[m] = ss[u].tbl[m]
        BY <1>5, <3>1
      <4> QED
        BY <1>2, <1>3, <4>1, <4>2
    <3> QED
      BY <3>2, <3>3
  <2>3. ASSUME NEW p \in 1 .. Len(zs)
        PROVE  zs[p].table \in 1 .. Len(tt)
    BY <1>1, <1>2, <1>3, <1>5
  <2> QED
    BY <1>3, <1>5, <2>1, <2>2, <2>3 DEF Linked
<1>7. \A u \in 1 .. Len(ss), m \in Names : ss[u].tbl[m] # 0 => tt[u].tbl[m] # 0
  BY <1>4, <1>5
<1>8. Len(ss) <= Len(tt) /\ Len(ys) <= Len(zs)
  BY <1>2, <1>3, <1>5
<1>9. Grows(ss, ys, tt, zs)
  BY <1>1, <1>3, <1>5, <1>6, <1>7, <1>8 DEF Grows
<1>10. zs[Len(zs)] = y
  BY <1>3
<1> QED
  BY <1>3, <1>5, <1>9, <1>10

(* scope_enter: a new table below p.                                       *)
Entering(ss, ys, tt, p, rule, owner) ==
    /\ Linked(ss, ys) /\ p \in 0 .. Len(ss) /\ rule \in Rules /\ owner \in 0 .. Len(ys)
    /\ tt = Append(ss, NewScope(p, rule, owner))

(* Entering a scope is a growth, and touches no table.                     *)
LEMMA GrowsEnter ==
    ASSUME NEW ss, NEW ys, NEW tt, NEW p, NEW rule, NEW owner,
           Entering(ss, ys, tt, p, rule, owner)
    PROVE  /\ Grows(ss, ys, tt, ys)
           /\ Len(tt) = Len(ss) + 1
           /\ \A u \in 1 .. Len(ss) : tt[u] = ss[u]
           /\ tt[Len(ss) + 1].owner = owner
<1>1. /\ Linked(ss, ys) /\ p \in 0 .. Len(ss) /\ rule \in Rules /\ owner \in 0 .. Len(ys)
      /\ tt = Append(ss, NewScope(p, rule, owner))
  BY DEF Entering
<1>2. /\ ss \in Seq(Scope) /\ ys \in Seq(Entry) /\ Len(ss) \in Nat \ {0} /\ Len(ys) \in Nat
      /\ \A u \in 1 .. Len(ss) :
            /\ ss[u].parent \in Nat /\ ss[u].parent < u
            /\ ss[u].owner \in Nat /\ ss[u].owner <= Len(ys)
            /\ \A m \in Names : ss[u].tbl[m] \in Nat /\ ss[u].tbl[m] <= Len(ys)
      /\ \A q \in 1 .. Len(ys) : ys[q].table \in 1 .. Len(ss)
  BY <1>1, LinkedFacts
<1>3. p \in Nat /\ owner \in Nat
  BY <1>1, <1>2
<1>4. /\ tt \in Seq(Scope) /\ Len(tt) = Len(ss) + 1
      /\ \A u \in 1 .. Len(ss) : tt[u] = ss[u]
      /\ tt[Len(ss) + 1].parent = p
      /\ tt[Len(ss) + 1].owner = owner
      /\ \A m \in Names : tt[Len(ss) + 1].tbl[m] = 0
  BY <1>1, <1>2, <1>3, EnterFacts
<1>5. Linked(tt, ys)
  <2>1. tt # <<>>
    BY <1>2, <1>4
  <2>2. ASSUME NEW u \in 1 .. Len(tt)
        PROVE  /\ tt[u].parent < u
               /\ tt[u].owner <= Len(ys)
               /\ \A m \in Names : tt[u].tbl[m] <= Len(ys)
    <3>1. CASE u \in 1 .. Len(ss)
      BY <1>2, <1>4, <3>1
    <3>2. CASE u = Len(ss) + 1
      BY <1>1, <1>2, <1>4, <3>2
    <3> QED
      BY <1>2, <1>4, <3>1, <3>2
  <2>3. \A q \in 1 .. Len(ys) : ys[q].table \in 1 .. Len(tt)
    BY <1>2, <1>4
  <2> QED
    BY <1>2, <1>4, <2>1, <2>2, <2>3 DEF Linked
<1>6. Len(ss) <= Len(tt) /\ Len(ys) <= Len(ys)
  BY <1>2, <1>4
<1>7. Grows(ss, ys, tt, ys)
  BY <1>1, <1>4, <1>5, <1>6 DEF Grows
<1> QED
  BY <1>4, <1>7

(* A parameter is counted.                                                 *)
LEMMA GrowsCount ==
    ASSUME NEW ss, NEW ys, Linked(ss, ys), NEW f \in 1 .. Len(ys),
           NEW zs, zs = [ys EXCEPT ![f].nparams = @ + 1]
    PROVE  Grows(ss, ys, ss, zs) /\ Len(zs) = Len(ys)
<1>1. /\ ss \in Seq(Scope) /\ ys \in Seq(Entry) /\ Len(ss) \in Nat \ {0} /\ Len(ys) \in Nat
      /\ \A u \in 1 .. Len(ss) :
            /\ ss[u].parent < u
            /\ ss[u].owner <= Len(ys)
            /\ \A m \in Names : ss[u].tbl[m] <= Len(ys)
      /\ \A p \in 1 .. Len(ys) : ys[p].table \in 1 .. Len(ss)
  BY LinkedFacts
<1>2. /\ zs \in Seq(Entry) /\ Len(zs) = Len(ys)
      /\ \A p \in 1 .. Len(ys) : /\ zs[p].name = ys[p].name
                                 /\ zs[p].kind = ys[p].kind
                                 /\ zs[p].mut = ys[p].mut
                                 /\ zs[p].table = ys[p].table
  <2>1. ys \in Seq(Entry)
    BY <1>1
  <2> QED
    BY <2>1, CountFacts
<1>3. ss # <<>>
  BY <1>1
<1>4. Linked(ss, zs)
  BY <1>1, <1>2, <1>3 DEF Linked
<1>5. Len(ss) <= Len(ss) /\ Len(ys) <= Len(zs)
  BY <1>1, <1>2
<1>6. Grows(ss, ys, ss, zs)
  BY <1>2, <1>4, <1>5 DEF Grows
<1> QED
  BY <1>2, <1>6

-----------------------------------------------------------------------------
(* Parameters are counted where they belong.                               *)
LEMMA OwnParamsGrow ==
    ASSUME Typed, Grows(scopes, symbols, scopes', symbols'),
           \A p \in Len(symbols) + 1 .. Len(symbols') : symbols'[p].kind # "param"
    PROVE  /\ \A f : OwnParams(f)' = OwnParams(f)
           /\ \A f \in Nat : f > Len(symbols) => OwnParams(f) = {}
<1>1. /\ symbols \in Seq(Entry) /\ Len(symbols) \in Nat /\ Len(scopes) \in Nat
      /\ \A t \in 1 .. Len(scopes) : scopes[t].owner \in Nat /\ scopes[t].owner <= Len(symbols)
      /\ \A p \in 1 .. Len(symbols) : symbols[p].table \in 1 .. Len(scopes)
  BY LinkedFacts DEF Grows
<1>2. symbols' \in Seq(Entry) /\ Len(symbols') \in Nat /\ Len(symbols) <= Len(symbols')
  BY LinkedFacts DEF Grows
<1>3. DOMAIN symbols = 1 .. Len(symbols) /\ DOMAIN symbols' = 1 .. Len(symbols')
  BY <1>1, <1>2
<1>4. ASSUME NEW p \in 1 .. Len(symbols)
      PROVE  /\ symbols'[p].kind = symbols[p].kind
             /\ scopes'[symbols'[p].table].owner = scopes[symbols[p].table].owner
  BY <1>1 DEF Grows
<1>5. ASSUME NEW f
      PROVE  OwnParams(f)' = OwnParams(f)
  <2>1. \A p \in 1 .. Len(symbols') :
           symbols'[p].kind = "param" => p \in 1 .. Len(symbols)
    BY <1>1, <1>2
  <2>2. \A p \in 1 .. Len(symbols) : p \in 1 .. Len(symbols')
    BY <1>1, <1>2
  <2> QED
    BY <1>3, <1>4, <2>1, <2>2 DEF OwnParams
<1>6. ASSUME NEW f \in Nat, f > Len(symbols)
      PROVE  OwnParams(f) = {}
  <2>1. \A p \in 1 .. Len(symbols) : scopes[symbols[p].table].owner # f
    BY <1>1, <1>6
  <2> QED
    BY <1>3, <2>1 DEF OwnParams
<1> QED
  BY <1>5, <1>6

(* Steps that add no parameter keep the count of parameters.               *)
LEMMA ParamsGrow ==
    ASSUME Typed, ParamsCounted, Grows(scopes, symbols, scopes', symbols'),
           \A p \in 1 .. Len(symbols) : symbols'[p].nparams = symbols[p].nparams,
           \A p \in Len(symbols) + 1 .. Len(symbols') :
              symbols'[p].kind # "param" /\ symbols'[p].nparams = 0
    PROVE  ParamsCounted'
<1>1. /\ \A f : OwnParams(f)' = OwnParams(f)
      /\ \A f \in Nat : f > Len(symbols) => OwnParams(f) = {}
  BY OwnParamsGrow
<1>2. /\ symbols' \in Seq(Entry) /\ Len(symbols') \in Nat
      /\ symbols \in Seq(Entry) /\ Len(symbols) \in Nat
  BY LinkedFacts DEF Grows
<1>3. ASSUME NEW f \in DOMAIN symbols', symbols'[f].kind = "fn"
      PROVE  symbols'[f].nparams = Cardinality(OwnParams(f)')
  <2>1. CASE f \in 1 .. Len(symbols)
    <3>1. symbols[f].kind = "fn"
      BY <1>3, <2>1 DEF Grows
    <3>2. symbols[f].nparams = Cardinality(OwnParams(f))
      BY <1>2, <2>1, <3>1 DEF ParamsCounted
    <3> QED
      BY <1>1, <2>1, <3>2
  <2>2. CASE f \notin 1 .. Len(symbols)
    <3>1. f \in Len(symbols) + 1 .. Len(symbols')
      BY <1>2, <2>2
    <3>2. OwnParams(f)' = {}
      BY <1>1, <1>2, <3>1
    <3>3. symbols'[f].nparams = 0
      BY <3>1
    <3> QED
      BY <3>2, <3>3, FS_EmptySet
  <2> QED
    BY <2>1, <2>2
<1> QED
  BY <1>3 DEF ParamsCounted

(* The tables a name was found in before are not bound anew for that name. *)
Uncaptured ==
    \A r \in refs : r.how \notin Header =>
        \A u \in 1 .. r.scope : \/ scopes'[u].tbl[r.name] = scopes[u].tbl[r.name]
                                \/ Find(scopes, r.name)[u] = 0

TableStep ==
    /\ Grows(scopes, symbols, scopes', symbols')
    /\ curr_func' \in 0 .. Len(symbols')
    /\ Uncaptured
    /\ ParamsCounted => ParamsCounted'

(* What is recorded of the identifiers visited.                            *)
LEMMA RefFacts ==
    ASSUME Typed
    PROVE  \A r \in refs : /\ r.name \in Names /\ r.scope \in 1 .. Len(scopes)
                           /\ r.symbol \in 1 .. Len(symbols)
                           /\ r.how \in Identifiers \cup {"update"}
                           /\ \A u \in 1 .. r.scope : u \in 1 .. Len(scopes)
<1>1. /\ refs \subseteq [name : Names, scope : Nat, symbol : Nat, how : Identifiers \cup {"update"}]
      /\ \A r \in refs : r.scope \in 1 .. Len(scopes) /\ r.symbol \in 1 .. Len(symbols)
  BY DEF Typed, Referred
<1>2. Len(scopes) \in Nat
  BY TypedFacts
<1> QED
  BY <1>1, <1>2

(* Steps that change no table.                                             *)
LEMMA SameTableStep ==
    ASSUME Typed, UNCHANGED <<scopes, symbols, curr_func>>
    PROVE  TableStep
<1>1. Grows(scopes, symbols, scopes', symbols')
  BY GrowsSame DEF Typed
<1>2. curr_func' \in 0 .. Len(symbols')
  BY TypedFacts
<1>3. Uncaptured
  BY DEF Uncaptured
<1>4. ParamsCounted => ParamsCounted'
  BY DEF ParamsCounted, OwnParams
<1> QED
  BY <1>1, <1>2, <1>3, <1>4 DEF TableStep

(* scope_enter leaves every name of every table as it was.                 *)
LEMMA EnterTableStep ==
    ASSUME Typed, NEW rule \in Rules, scopes' = Enter(scopes, rule, 0),
           UNCHANGED <<symbols, curr_func>>
    PROVE  TableStep
<1>1. Linked(scopes, symbols) /\ 0 \in 0 .. Len(symbols)
  BY TypedFacts DEF Typed
<1>2. scopes' = Append(scopes, NewScope(symtab_top, rule, 0))
  BY DEF Enter
<1>3. /\ Grows(scopes, symbols, scopes', symbols)
      /\ \A u \in 1 .. Len(scopes) : scopes'[u] = scopes[u]
  <2>1. Entering(scopes, symbols, scopes', symtab_top, rule, 0)
    BY <1>1, <1>2, TypedFacts DEF Entering
  <2> QED
    BY <2>1, GrowsEnter
<1>4. Uncaptured
  BY <1>3, RefFacts DEF Uncaptured
<1>5. ParamsCounted => ParamsCounted'
  <2>1. \A p \in Len(symbols) + 1 .. Len(symbols') : FALSE
    BY TypedFacts
  <2> QED
    BY <1>3, <2>1, ParamsGrow
<1> QED
  BY <1>3, <1>4, <1>5, TypedFacts DEF TableStep

(* make_entry_assign and make_entry_func bind only a name that means       *)
(* nothing yet in the scope on top.                                        *)
LEMMA NotRedefined ==
    ASSUME NEW n \in Names, ~ Redefined(n)
    PROVE  Find(scopes, n)[symtab_top] = 0
BY LookupIsFind, Zenon DEF Redefined

(* A name is bound only where Redefined has not found it: it captures      *)
(* nothing.                                                                *)
LEMMA AssignTableStep ==
    ASSUME Typed, symtab_top # 0, NEW n \in Names,
           ~ Redefined(n),
           NEW y \in Entry, y.table = symtab_top, y.kind # "param", y.nparams = 0,
           symbols' = Append(symbols, y),
           scopes' = Bind(scopes, symtab_top, n, Len(symbols')),
           curr_func' = curr_func
    PROVE  TableStep
<1>1. Linked(scopes, symbols) /\ symtab_top \in 1 .. Len(scopes)
  BY TypedFacts DEF Typed
<1>2. /\ Grows(scopes, symbols, scopes', symbols')
      /\ Len(symbols') = Len(symbols) + 1 /\ symbols'[Len(symbols')] = y
      /\ \A p \in 1 .. Len(symbols) : symbols'[p] = symbols[p]
      /\ \A u \in 1 .. Len(scopes), m \in Names :
            u # symtab_top \/ m # n => scopes'[u].tbl[m] = scopes[u].tbl[m]
  <2>1. Binding(scopes, symbols, scopes', symbols', symtab_top, n, y)
    BY <1>1 DEF Binding
  <2> QED
    BY <2>1, GrowsBind
<1>3. Find(scopes, n)[symtab_top] = 0
  BY NotRedefined
<1>4. Uncaptured
  BY <1>2, <1>3, RefFacts DEF Uncaptured
<1>5. \A p \in Len(symbols) + 1 .. Len(symbols') : p = Len(symbols')
  BY <1>2, TypedFacts
<1>6. ParamsCounted => ParamsCounted'
  BY <1>2, <1>5, ParamsGrow
<1>7. curr_func' \in 0 .. Len(symbols')
  BY <1>2, TypedFacts
<1> QED
  BY <1>2, <1>4, <1>6, <1>7 DEF TableStep

DeclaresFunction(n) ==
    /\ symbols' = Append(symbols, Symbol(n, "fn", FALSE))
    /\ scopes' = Enter(Bind(scopes, symtab_top, n, Len(symbols')),
                       "function_def", Len(symbols'))
    /\ curr_func' = Len(symbols')

(* A function captures nothing, and starts without parameters.             *)
LEMMA FunctionTableStep ==
    ASSUME Typed, symtab_top # 0, NEW n \in Names,
           ~ Redefined(n), DeclaresFunction(n)
    PROVE  /\ TableStep
           /\ Len(scopes') = Len(scopes) + 1 /\ scopes'[Len(scopes')].owner = curr_func'
           /\ curr_func' # 0 /\ symbols'[curr_func'].kind = "fn"
<1> DEFINE y == Symbol(n, "fn", FALSE)
           ss == Bind(scopes, symtab_top, n, Len(symbols'))
<1>1. Linked(scopes, symbols) /\ symtab_top \in 1 .. Len(scopes)
  BY TypedFacts DEF Typed
<1>2. y \in Entry /\ y.table = symtab_top /\ y.kind = "fn" /\ y.nparams = 0
  BY TypedFacts DEF Symbol, Entry, Kinds
<1>3. symbols' = Append(symbols, y) /\ curr_func' = Len(symbols')
  BY DEF DeclaresFunction
<1>4. scopes' = Append(ss, NewScope(symtab_top, "function_def", Len(symbols')))
  BY DEF Enter, DeclaresFunction
<1>5. ss = Bind(scopes, symtab_top, n, Len(symbols'))
  OBVIOUS
<1> HIDE DEF y, ss
<1>6. /\ Grows(scopes, symbols, ss, symbols')
      /\ Len(ss) = Len(scopes) /\ Len(symbols') = Len(symbols) + 1
      /\ symbols'[Len(symbols')] = y
      /\ \A p \in 1 .. Len(symbols) : symbols'[p] = symbols[p]
      /\ \A u \in 1 .. Len(scopes), m \in Names :
            u # symtab_top \/ m # n => ss[u].tbl[m] = scopes[u].tbl[m]
  <2>1. Binding(scopes, symbols, ss, symbols', symtab_top, n, y)
    BY <1>1, <1>2, <1>3, <1>5 DEF Binding
  <2> QED
    BY <2>1, GrowsBind
<1>7. /\ Linked(ss, symbols') /\ symtab_top \in 0 .. Len(ss)
      /\ Len(symbols') \in 0 .. Len(symbols') /\ "function_def" \in Rules
  <2>1. Linked(ss, symbols') /\ "function_def" \in Rules
    BY <1>6 DEF Grows, Rules
  <2>2. Len(symbols') \in Nat
    BY <1>6, TypedFacts
  <2>3. symtab_top \in 0 .. Len(ss)
    BY <1>6, TypedFacts
  <2> QED
    BY <2>1, <2>2, <2>3
<1>8. /\ Grows(ss, symbols', scopes', symbols')
      /\ Len(scopes') = Len(ss) + 1
      /\ \A u \in 1 .. Len(ss) : scopes'[u] = ss[u]
      /\ scopes'[Len(ss) + 1].owner = Len(symbols')
  <2>1. Entering(ss, symbols', scopes', symtab_top, "function_def", Len(symbols'))
    BY <1>4, <1>7 DEF Entering
  <2> QED
    BY <2>1, GrowsEnter
<1>9. Grows(scopes, symbols, scopes', symbols')
  <2>1. Grows(scopes, symbols, ss, symbols') /\ Grows(ss, symbols', scopes', symbols')
    BY <1>6, <1>8
  <2> QED
    BY <2>1, GrowsTransitive
<1>10. Find(scopes, n)[symtab_top] = 0
  BY NotRedefined
<1>11. \A u \in 1 .. Len(scopes), m \in Names :
          u # symtab_top \/ m # n => scopes'[u].tbl[m] = scopes[u].tbl[m]
  BY <1>6, <1>8
<1>12. Uncaptured
  BY <1>10, <1>11, RefFacts DEF Uncaptured
<1>13. \A p \in Len(symbols) + 1 .. Len(symbols') : p = Len(symbols')
  BY <1>6, TypedFacts
<1>14. ParamsCounted => ParamsCounted'
  BY <1>2, <1>6, <1>9, <1>13, ParamsGrow
<1>15. curr_func' \in 0 .. Len(symbols') /\ curr_func' # 0
  BY <1>3, <1>6, TypedFacts
<1>16. Len(scopes') = Len(scopes) + 1 /\ scopes'[Len(scopes')].owner = curr_func'
  BY <1>3, <1>6, <1>8
<1>17. symbols'[curr_func'].kind = "fn"
  BY <1>3, <1>2, <1>6
<1> QED
  BY <1>9, <1>12, <1>14, <1>15, <1>16, <1>17 DEF TableStep

(* for_stm: the counter is bound in a table nothing was looked up from.    *)
LEMMA ForTableStep ==
    ASSUME Typed, NEW n \in Names, ForStm(n)
    PROVE  TableStep
<1> DEFINE y == [Symbol(n, "for", TRUE) EXCEPT !.table = Len(scopes) + 1]
           ss == Enter(scopes, "for_stm", 0)
<1>1. Linked(scopes, symbols) /\ symtab_top \in 0 .. Len(scopes) /\ 0 \in 0 .. Len(symbols)
  BY TypedFacts DEF Typed
<1>2. /\ y \in Entry /\ y.table = Len(scopes) + 1 /\ y.kind = "for" /\ y.nparams = 0
  <2>1. /\ Symbol(n, "for", TRUE) \in Entry /\ Symbol(n, "for", TRUE).kind = "for"
        /\ Symbol(n, "for", TRUE).nparams = 0
    BY TypedFacts DEF Symbol, Entry, Kinds
  <2>2. Len(scopes) + 1 \in Nat
    BY TypedFacts
  <2>3. ASSUME NEW z \in Entry, NEW k \in Nat
        PROVE  /\ [z EXCEPT !.table = k] \in Entry /\ [z EXCEPT !.table = k].table = k
               /\ [z EXCEPT !.table = k].kind = z.kind
               /\ [z EXCEPT !.table = k].nparams = z.nparams
    BY DEF Entry
  <2> QED
    BY <2>1, <2>2, <2>3
<1>3. /\ symbols' = Append(symbols, y)
      /\ scopes' = Bind(ss, Len(scopes) + 1, n, Len(symbols'))
      /\ curr_func' = curr_func
  BY DEF ForStm
<1>4. ss = Append(scopes, NewScope(symtab_top, "for_stm", 0)) /\ "for_stm" \in Rules
  BY DEF Enter, Rules
<1> HIDE DEF y, ss
<1>5. /\ Grows(scopes, symbols, ss, symbols) /\ Len(ss) = Len(scopes) + 1
      /\ \A u \in 1 .. Len(scopes) : ss[u] = scopes[u]
  <2>1. Entering(scopes, symbols, ss, symtab_top, "for_stm", 0)
    BY <1>1, <1>4 DEF Entering
  <2> QED
    BY <2>1, GrowsEnter
<1>6. Linked(ss, symbols) /\ Len(scopes) + 1 \in 1 .. Len(ss) /\ y.table \in 1 .. Len(ss)
  BY <1>2, <1>5, TypedFacts DEF Grows
<1>7. /\ Grows(ss, symbols, scopes', symbols')
      /\ Len(symbols') = Len(symbols) + 1 /\ symbols'[Len(symbols')] = y
      /\ \A p \in 1 .. Len(symbols) : symbols'[p] = symbols[p]
      /\ \A u \in 1 .. Len(ss), m \in Names :
            u # Len(scopes) + 1 \/ m # n => scopes'[u].tbl[m] = ss[u].tbl[m]
  <2>1. Binding(ss, symbols, scopes', symbols', Len(scopes) + 1, n, y)
    BY <1>2, <1>3, <1>6 DEF Binding
  <2> QED
    BY <2>1, GrowsBind
<1>8. Grows(scopes, symbols, scopes', symbols')
  BY <1>5, <1>7, GrowsTransitive
<1>9. \A u \in 1 .. Len(scopes), m \in Names : scopes'[u].tbl[m] = scopes[u].tbl[m]
  <2>1. \A u \in 1 .. Len(scopes) : u \in 1 .. Len(ss) /\ u # Len(scopes) + 1
    BY <1>5, TypedFacts
  <2> QED
    BY <1>5, <1>7, <2>1
<1>10. Uncaptured
  BY <1>9, RefFacts DEF Uncaptured
<1>11. \A p \in Len(symbols) + 1 .. Len(symbols') : p = Len(symbols')
  BY <1>7, TypedFacts
<1>12. ParamsCounted => ParamsCounted'
  BY <1>2, <1>7, <1>8, <1>11, ParamsGrow
<1>13. curr_func' \in 0 .. Len(symbols')
  BY <1>3, <1>7, TypedFacts
<1> QED
  BY <1>8, <1>10, <1>12, <1>13 DEF TableStep

(* make_entry_param: the table of the function whose header is visited is  *)
(* the newest one, and its parameters are counted for that function.       *)
ParamBound(n) ==
    /\ symbols' = Append([symbols EXCEPT ![curr_func].nparams = @ + 1],
                         Symbol(n, "param", FALSE))
    /\ scopes' = Bind(scopes, symtab_top, n, Len(symbols'))
    /\ curr_func' = curr_func

(* A parameter goes to the newest table, from which only the names of its  *)
(* header have been looked up; it is counted for the function that owns    *)
(* the table.                                                              *)
LEMMA ParamTableStep ==
    ASSUME Typed, InHeader, NEW n \in Names, ParamBound(n)
    PROVE  /\ TableStep
           /\ Len(scopes') = Len(scopes)
<1> DEFINE y == Symbol(n, "param", FALSE)
           ys == [symbols EXCEPT ![curr_func].nparams = @ + 1]
           N == Len(symbols)
<1>1. /\ Linked(scopes, symbols) /\ symtab_top \in 1 .. Len(scopes) /\ curr_func \in 1 .. N
      /\ symbols \in Seq(Entry) /\ N \in Nat
  BY TypedFacts DEF Typed, InHeader
<1>2. y \in Entry /\ y.table = symtab_top /\ y.kind = "param"
  BY TypedFacts DEF Symbol, Entry, Kinds
<1>3. symbols' = Append(ys, y) /\ curr_func' = curr_func
  BY DEF ParamBound
<1>4. Grows(scopes, symbols, scopes, ys) /\ Len(ys) = N
  BY <1>1, GrowsCount
<1>5. /\ ys[curr_func].nparams = symbols[curr_func].nparams + 1
      /\ \A p \in 1 .. N : p # curr_func => ys[p] = symbols[p]
  <2>1. symbols \in Seq(Entry) /\ curr_func \in 1 .. Len(symbols)
    BY <1>1
  <2> QED
    BY <2>1, CountFacts
<1>6. scopes' = Bind(scopes, symtab_top, n, Len(symbols'))
  BY DEF ParamBound
<1> HIDE DEF y, ys
<1>7. /\ Grows(scopes, ys, scopes', symbols')
      /\ Len(scopes') = Len(scopes) /\ Len(symbols') = Len(ys) + 1
      /\ symbols'[Len(symbols')] = y
      /\ \A p \in 1 .. Len(ys) : symbols'[p] = ys[p]
      /\ \A u \in 1 .. Len(scopes), m \in Names :
            u # symtab_top \/ m # n => scopes'[u].tbl[m] = scopes[u].tbl[m]
  <2>1. Linked(scopes, ys)
    BY <1>4 DEF Grows
  <2>2. Binding(scopes, ys, scopes', symbols', symtab_top, n, y)
    BY <1>1, <1>2, <1>3, <1>6, <2>1 DEF Binding
  <2> QED
    BY <2>2, GrowsBind
<1>8. Grows(scopes, symbols, scopes', symbols')
  <2>1. Grows(scopes, symbols, scopes, ys) /\ Grows(scopes, ys, scopes', symbols')
    BY <1>4, <1>7
  <2> QED
    BY <2>1, GrowsTransitive
<1>9. Uncaptured
  <2>1. ASSUME NEW r \in refs, r.how \notin Header, NEW u \in 1 .. r.scope
        PROVE  scopes'[u].tbl[r.name] = scopes[u].tbl[r.name]
    <3>1. r.name \in Names /\ r.scope \in 1 .. Len(scopes) /\ u \in 1 .. Len(scopes)
      BY RefFacts
    <3>2. r.scope # symtab_top /\ symtab_top = Len(scopes)
      BY <2>1 DEF InHeader
    <3>3. u # symtab_top
      BY <3>1, <3>2, TypedFacts
    <3> QED
      BY <1>7, <3>1, <3>3
  <2> QED
    BY <2>1 DEF Uncaptured
<1>10. ASSUME ParamsCounted
       PROVE  ParamsCounted'
  <2>1. symbols' \in Seq(Entry) /\ Len(symbols') = N + 1 /\ symbols'[N + 1] = y
    BY <1>4, <1>7, LinkedFacts DEF Grows
  <2>2. DOMAIN symbols = 1 .. N /\ DOMAIN symbols' = 1 .. N + 1
    BY <1>1, <2>1
  <2>3. ASSUME NEW p \in 1 .. N
        PROVE  /\ p \in 1 .. N + 1
               /\ symbols'[p].kind = symbols[p].kind
               /\ scopes'[symbols'[p].table].owner = scopes[symbols[p].table].owner
    <3>1. symbols[p].table \in 1 .. Len(scopes)
      BY <1>1, LinkedFacts
    <3> QED
      BY <1>1, <1>8, <3>1 DEF Grows
  <2>4. scopes'[y.table].owner = curr_func
    BY <1>1, <1>2, <1>8 DEF Grows, InHeader
  <2>5. ASSUME NEW f \in 1 .. N
        PROVE  OwnParams(f)' = IF f = curr_func THEN OwnParams(f) \cup {N + 1} ELSE OwnParams(f)
    <3>1. \A p \in 1 .. N + 1 : p \in 1 .. N \/ p = N + 1
      BY <1>1
    <3>2. N + 1 \in 1 .. N + 1
      BY <1>1
    <3> QED
      BY <1>2, <2>1, <2>2, <2>3, <2>4, <3>1, <3>2 DEF OwnParams
  <2>6. ASSUME NEW f \in DOMAIN symbols', symbols'[f].kind = "fn"
        PROVE  symbols'[f].nparams = Cardinality(OwnParams(f)')
    <3>1. f \in 1 .. N
      <4>1. f # N + 1
        BY <1>2, <2>1, <2>6
      <4> QED
        BY <1>1, <2>2, <4>1
    <3>2. symbols[f].kind = "fn" /\ symbols'[f] = ys[f]
      BY <1>4, <1>7, <2>3, <2>6, <3>1
    <3>3. symbols[f].nparams = Cardinality(OwnParams(f))
      BY <1>10, <2>2, <3>1, <3>2 DEF ParamsCounted
    <3>4. CASE f # curr_func
      BY <1>5, <2>5, <3>1, <3>2, <3>3, <3>4
    <3>5. CASE f = curr_func
      <4>1. symbols'[f].nparams = Cardinality(OwnParams(f)) + 1
        BY <1>5, <3>2, <3>3, <3>5
      <4>2. OwnParams(f) \in SUBSET (1 .. N)
        BY <2>2 DEF OwnParams
      <4>3. IsFiniteSet(1 .. N)
        BY <1>1, FS_Interval
      <4>4. IsFiniteSet(OwnParams(f)) /\ N + 1 \notin OwnParams(f)
        BY <1>1, <4>2, <4>3, FS_Subset
      <4>5. Cardinality(OwnParams(f) \cup {N + 1}) = Cardinality(OwnParams(f)) + 1
        BY <4>4, FS_AddElement
      <4>6. OwnParams(f)' = OwnParams(f) \cup {N + 1}
        BY <2>5, <3>1, <3>5
      <4> QED
        BY <4>1, <4>5, <4>6
    <3> QED
      BY <3>4, <3>5
  <2> QED
    BY <2>6 DEF ParamsCounted
<1>11. curr_func' \in 0 .. Len(symbols')
  BY <1>1, <1>3, <1>4, <1>7
<1> QED
  BY <1>7, <1>8, <1>9, <1>10, <1>11 DEF TableStep

(* A block binds nothing.                                                  *)
LEMMA BlockTableStep ==
    ASSUME Typed, NEW rule \in Rules, NEW parts, NEW after, OpenBlock(rule, parts, after)
    PROVE  TableStep
BY EnterTableStep DEF OpenBlock

(* Every step lets the tables grow and captures no reference.              *)
LEMMA EveryTableStep ==
    ASSUME Typed, Headers, todo # <<>> => symtab_top # 0, [Next]_vars
    PROVE  TableStep
<1>1. ASSUME NEW list, NEW n \in Names, NEW kind \in Kinds \ {"param"}, NEW mut \in BOOLEAN,
             Assign(list, n, kind, mut)
      PROVE  TableStep
  <2>1. CASE UNCHANGED tables
    BY <2>1, SameTableStep DEF tables
  <2>2. CASE ~ UNCHANGED tables
    <3>1. /\ ~ Redefined(n)
          /\ symbols' = Append(symbols, Symbol(n, kind, mut))
          /\ scopes' = Bind(scopes, symtab_top, n, Len(symbols'))
          /\ curr_func' = curr_func
      BY <1>1, <2>2 DEF Assign, Die
    <3>2. symtab_top # 0
      BY <1>1 DEF Assign, VisitNext, Visit
    <3>3. /\ Symbol(n, kind, mut) \in Entry /\ Symbol(n, kind, mut).table = symtab_top
          /\ Symbol(n, kind, mut).kind # "param" /\ Symbol(n, kind, mut).nparams = 0
      BY TypedFacts DEF Symbol, Entry
    <3> QED
      BY <3>1, <3>2, <3>3, AssignTableStep
  <2> QED
    BY <2>1, <2>2
<1>2. ASSUME NEW list, NEW n \in Names, NEW last, FunctionDef(list, n, last)
      PROVE  TableStep
  <2>1. CASE UNCHANGED tables
    BY <2>1, SameTableStep DEF tables
  <2>2. CASE ~ UNCHANGED tables
    <3>1. ~ Redefined(n) /\ DeclaresFunction(n)
      BY <1>2, <2>2 DEF FunctionDef, Die, DeclaresFunction, CurrentFunction
    <3>2. symtab_top # 0
      BY <1>2 DEF FunctionDef, VisitNext, Visit
    <3> QED
      BY <3>1, <3>2, FunctionTableStep
  <2> QED
    BY <2>1, <2>2
<1>3. ASSUME NEW n \in Names, FnParam(n)
      PROVE  TableStep
  <2>1. todo # <<>> /\ todo[1].op = "params"
    BY <1>3, VisitFacts DEF FnParam, VisitNext
  <2>2. 1 \in 1 .. Len(todo)
    BY <2>1, TypedFacts
  <2>3. InHeader
    BY <2>1, <2>2 DEF Headers
  <2>4. ParamBound(n)
    BY <1>3 DEF FnParam, ParamBound
  <2> QED
    BY <2>3, <2>4, ParamTableStep
<1>4. SingleIf \/ Else \/ ElseIfType => TableStep
  <2>1. {"single_if", "else", "else_if"} \subseteq Rules
    BY DEF Rules
  <2> QED
    BY <2>1, BlockTableStep DEF SingleIf, Else, ElseIfType
<1>5. ASSUME NEW empty, WhileStm(empty)
      PROVE  TableStep
  <2>1. "while_stm" \in Rules
    BY DEF Rules
  <2>2. UNCHANGED tables \/ \E parts, after : OpenBlock("while_stm", parts, after)
    BY <1>5 DEF WhileStm, Die
  <2> QED
    BY <2>1, <2>2, BlockTableStep, SameTableStep DEF tables
<1>6. ASSUME UNCHANGED <<scopes, symbols, curr_func>>
      PROVE  TableStep
  BY <1>6, SameTableStep
<1>7. ASSUME NEW n, NEW array, UpdateStm(n, array)
      PROVE  TableStep
  BY <1>6, <1>7 DEF UpdateStm, Die, tables
<1>8. Ident \/ ExprStm \/ Expr \/ CloseBrace \/ Skip \/ Terminated => TableStep
  BY <1>6 DEF Ident, ExprStm, Expr, CloseBrace, Skip, Terminated, Die, tables, vars
<1>9. UNCHANGED vars => TableStep
  BY <1>6 DEF vars, tables
<1>10. {"let", "static"} \subseteq Kinds \ {"param"} /\ FALSE \in BOOLEAN
  BY DEF Kinds
<1> QED
  BY <1>1, <1>2, <1>3, <1>4, <1>5, <1>7, <1>8, <1>9, <1>10, ForTableStep
     DEF Next, Let, Static

-----------------------------------------------------------------------------
(* What is looked up, and how the pass ends.                               *)
FoundHere(r) ==
    /\ r.name \in Names /\ r.scope = symtab_top /\ r.how \in Identifiers \cup {"update"}
    /\ r \in [name : Names, scope : Nat, symbol : Nat, how : Identifiers \cup {"update"}]
    /\ r.symbol # 0 /\ r.symbol = Find(scopes, r.name)[symtab_top]
    /\ r.how = "update" => symbols[r.symbol].mut

RefStep ==
    /\ exit' \in {"no", "exit_3", "null_dereference"}
    /\ \/ refs' = refs
       \/ /\ UNCHANGED tables /\ symtab_top # 0
          /\ \E r : FoundHere(r) /\ refs' = refs \cup {r}

(* A lookup finds an existing symbol, or none.                             *)
LEMMA TypedFind ==
    ASSUME Typed, NEW n \in Names, NEW s \in 0 .. Len(scopes)
    PROVE  Find(scopes, n)[s] \in 0 .. Len(symbols)
<1>1. Tree(scopes) /\ Len(symbols) \in Nat
  BY TreeOfScopes, TypedFacts
<1>2. \A t \in 1 .. Len(scopes) : scopes[t].tbl[n] \in 0 .. Len(symbols)
  <2>1. Linked(scopes, symbols)
    BY DEF Typed
  <2>2. \A t \in 1 .. Len(scopes) : scopes[t].tbl[n] \in Nat /\ scopes[t].tbl[n] <= Len(symbols)
    BY <2>1, LinkedFacts
  <2> QED
    BY <1>1, <2>2
<1> QED
  BY <1>1, <1>2, FindType

(* An identifier found adds one reference, to a symbol found from the      *)
(* top.                                                                    *)
LEMMA FoundStep ==
    ASSUME Typed, symtab_top # 0, NEW n \in Names, NEW how \in Identifiers \cup {"update"},
           Lookup(n, symtab_top) # 0, Found(n, how), UNCHANGED <<tables, exit>>,
           how = "update" => symbols[Lookup(n, symtab_top)].mut
    PROVE  RefStep
<1> DEFINE s == Lookup(n, symtab_top)
           r == [name |-> n, scope |-> symtab_top, how |-> how, symbol |-> s]
<1>1. s = Find(scopes, n)[symtab_top]
  BY LookupIsFind, Zenon
<1>2. s \in Nat
  BY <1>1, TypedFacts, TypedFind
<1>3. refs' = refs \cup {r}
  BY DEF Found
<1>4. exit' \in {"no", "exit_3", "null_dereference"}
  BY DEF Typed
<1>5. s # 0 /\ (how = "update" => symbols[s].mut)
  OBVIOUS
<1>6. symtab_top \in Nat
  BY TypedFacts
<1> HIDE DEF s
<1>7. FoundHere(r)
  BY <1>1, <1>2, <1>5, <1>6 DEF FoundHere
<1> HIDE DEF r
<1> QED
  BY <1>3, <1>4, <1>7 DEF RefStep

(* Every step adds at most one reference, and then changes no table.       *)
LEMMA EveryRefStep ==
    ASSUME Typed, todo # <<>> => symtab_top # 0, [Next]_vars
    PROVE  RefStep
<1>1. ASSUME refs' = refs, exit' \in {exit, "exit_3", "null_dereference"}
      PROVE  RefStep
  BY <1>1 DEF RefStep, Typed
<1>2. ASSUME NEW n \in Names, NEW array, UpdateStm(n, array)
      PROVE  RefStep
  <2>1. symtab_top # 0
    BY <1>2 DEF UpdateStm, VisitNext, Visit
  <2>2. "update" \in Identifiers \cup {"update"}
    OBVIOUS
  <2>3. CASE Updatable(Lookup(n, symtab_top))
    <3>1. Found(n, "update") /\ UNCHANGED <<tables, exit>>
      BY <1>2, <2>3 DEF UpdateStm
    <3>2. Lookup(n, symtab_top) # 0 /\ symbols[Lookup(n, symtab_top)].mut
      BY <2>3 DEF Updatable
    <3> QED
      BY <2>1, <2>2, <3>1, <3>2, FoundStep
  <2>4. CASE ~ Updatable(Lookup(n, symtab_top))
    <3>1. refs' = refs /\ exit' \in {"exit_3", "null_dereference"}
      BY <1>2, <2>4 DEF UpdateStm, Die
    <3> QED
      BY <1>1, <3>1
  <2> QED
    BY <2>3, <2>4
<1>3. ASSUME Ident
      PROVE  RefStep
  <2> DEFINE n == Head(todo).name
             how == Head(todo).op
  <2>1. todo # <<>> /\ how \in Identifiers
    BY <1>3 DEF Ident, Visit, Identifiers, Header
  <2>2. n \in Names
    <3>1. todo[1] = Head(todo) /\ 1 \in 1 .. Len(todo)
      BY <2>1, TypedFacts
    <3> QED
      BY <2>1, <3>1 DEF Typed, Stacked
  <2>3. how # "update" /\ how \in Identifiers \cup {"update"}
    BY <2>1 DEF Identifiers, Header
  <2>4. CASE Lookup(n, symtab_top) = 0
    <3>1. refs' = refs /\ exit' = "exit_3"
      BY <1>3, <2>4 DEF Ident, Die
    <3> QED
      BY <1>1, <3>1
  <2>5. CASE Lookup(n, symtab_top) # 0
    <3>1. Found(n, how) /\ UNCHANGED <<tables, exit>>
      BY <1>3, <2>5 DEF Ident
    <3> HIDE DEF n, how
    <3> QED
      BY <2>1, <2>2, <2>3, <2>5, <3>1, FoundStep
  <2> QED
    BY <2>4, <2>5
<1>4. ASSUME NEW list, NEW n, NEW kind, NEW mut, Assign(list, n, kind, mut)
      PROVE  RefStep
  BY <1>1, <1>4 DEF Assign, Die
<1>5. ASSUME NEW list, NEW n, NEW last, FunctionDef(list, n, last)
      PROVE  RefStep
  BY <1>1, <1>5 DEF FunctionDef, Die
<1>6. ASSUME NEW n, FnParam(n) \/ ForStm(n)
      PROVE  RefStep
  BY <1>1, <1>6 DEF FnParam, ForStm
<1>7. ASSUME NEW empty, WhileStm(empty)
      PROVE  RefStep
  BY <1>1, <1>7 DEF WhileStm, OpenBlock, Die
<1>8. SingleIf \/ Else \/ ElseIfType => RefStep
  BY <1>1 DEF SingleIf, Else, ElseIfType, OpenBlock
<1>9. ExprStm \/ Expr \/ CloseBrace \/ Skip \/ Terminated => RefStep
  BY <1>1 DEF ExprStm, Expr, CloseBrace, Skip, Terminated, vars
<1>10. UNCHANGED vars => RefStep
  BY <1>1 DEF vars
<1> QED
  BY <1>2, <1>3, <1>4, <1>5, <1>6, <1>7, <1>8, <1>9, <1>10 DEF Next, Let, Static

-----------------------------------------------------------------------------
(* The nodes of a header are at the head of the stack, or nowhere.         *)
LEMMA NoHeader ==
    ASSUME Typed, Headers, todo # <<>>, todo[1].op \notin Headed
    PROVE  \A i \in 1 .. Len(todo) : todo[i].op \notin Headed
BY DEF Headers, Headed

(* Outside a header, steps that push none of its nodes leave none.         *)
LEMMA NoHeadersLeft ==
    ASSUME Typed, Headers, todo # <<>>, todo[1].op \notin Headed, StackStep({})
    PROVE  Headers'
<1>1. \A i \in 1 .. Len(todo) : todo[i].op \notin Headed
  BY NoHeader
<1>2. Len(todo) \in Nat
  BY TypedFacts
<1>3. ASSUME \A i \in 1 .. Len(todo') : todo'[i].op \notin Headed
      PROVE  Headers'
  BY <1>3 DEF Headers, Headed
<1>4. ASSUME NEW parts \in Seq(Visited), NEW d \in {0, 1}, Pushed(parts, d),
             \A i \in 1 .. Len(parts) : parts[i].op \notin Headed
      PROVE  Headers'
  <2>1. ASSUME NEW i \in 1 .. Len(todo')
        PROVE  todo'[i].op \notin Headed
    <3>1. /\ Len(parts) \in Nat
          /\ \/ i \in 1 .. Len(parts) /\ todo'[i] = parts[i]
             \/ /\ i - Len(parts) + d \in 1 + d .. Len(todo)
                /\ todo'[i] = todo[i - Len(parts) + d]
      BY <1>4, PushedFacts
    <3>2. \A j \in 1 + d .. Len(todo) : j \in 1 .. Len(todo)
      BY <1>2
    <3> QED
      BY <1>1, <1>4, <3>1, <3>2
  <2> QED
    BY <1>3, <2>1
<1>5. ASSUME NEW parts \in Seq(Visited), NEW d \in {0, 1}, Quiet(parts, d, {})
      PROVE  Headers'
  BY <1>4, <1>5 DEF Quiet, Plain, Headed, Header
<1>6. ASSUME NEW parts \in Seq(Visited), NEW d \in {0, 1}, NEW k, NEW r,
             Opening(parts, d, k, r, {})
      PROVE  Headers'
  BY <1>4, <1>6 DEF Opening, Plain, Headed, Header
<1>7. CASE Leaking
  <2> DEFINE a == Item("single_if")
             parts == <<a, Return>>
  <2>1. Pushed(parts, 1) /\ parts \in Seq(Visited)
    BY <1>7 DEF Leaking, Pushed
  <2>2. Part(a) /\ Part(Return) /\ a.op \notin Headed /\ Return.op \notin Headed
    BY PartFacts DEF Ops, Plain, Identifiers, Header, Headed
  <2> HIDE DEF a
  <2>3. /\ parts[1] = a /\ parts[2] = Return
        /\ \A i \in 1 .. Len(parts) : i = 1 \/ i = 2
    BY <2>2, Parts2, Zenon
  <2> HIDE DEF parts
  <2>4. \A i \in 1 .. Len(parts) : parts[i].op \notin Headed
    BY <2>2, <2>3
  <2> QED
    BY <1>4, <2>1, <2>4
<1>8. CASE Closing
  <2>1. /\ <<>> \in Seq(Visited) /\ \A i \in 1 .. Len(<<>>) : FALSE
    OBVIOUS
  <2> QED
    BY <1>4, <1>8, <2>1 DEF Closing
<1>9. CASE todo' = <<>> \/ todo' = todo
  BY <1>1, <1>3, <1>9
<1> QED
  BY <1>5, <1>6, <1>7, <1>8, <1>9 DEF StackStep, Stopping

(* The head of the stack leaves it: the last node of a header gives way to *)
(* the list of parameters.                                                 *)
LEMMA HeadersTail ==
    ASSUME Typed, Headers, todo # <<>>, todo' = Tail(todo), UNCHANGED tables,
           \/ refs' = refs
           \/ todo[1].op \in Header /\ \E r : r.how \in Header /\ refs' = refs \cup {r}
           \/ todo[1].op \notin Headed
    PROVE  Headers'
<1>1. /\ Len(todo) \in Nat \ {0} /\ Len(todo') = Len(todo) - 1
      /\ \A i \in 1 .. Len(todo') : i + 1 \in 1 .. Len(todo) /\ todo'[i] = todo[i + 1]
  BY TypedFacts
<1>2. CASE todo[1].op \in Header
  <2>1. ASSUME InHeader
        PROVE  InHeader'
    <3>1. \A r \in refs' : r \in refs \/ r.how \in Header
      BY <1>2 DEF Headed
    <3> QED
      BY <2>1, <3>1 DEF InHeader, tables
  <2>2. ASSUME NEW i \in 1 .. Len(todo')
        PROVE  /\ todo'[i].op = "params" => i = 1 /\ InHeader'
               /\ todo'[i].op \notin Header
    <3>1. i + 1 \in 1 .. Len(todo) /\ todo'[i] = todo[i + 1] /\ i + 1 # 1
      BY <1>1
    <3>2. todo[i + 1].op \notin Header
      BY <3>1 DEF Headers
    <3>3. todo[i + 1].op = "params" => InHeader /\ i + 1 = 2
      BY <3>1 DEF Headers
    <3> QED
      BY <2>1, <3>1, <3>2, <3>3
  <2> QED
    BY <2>2 DEF Headers
<1>3. CASE todo[1].op \notin Header
  <2>1. ASSUME NEW i \in 1 .. Len(todo')
        PROVE  todo'[i].op \notin Header /\ todo'[i].op # "params"
    <3>1. i + 1 \in 1 .. Len(todo) /\ todo'[i] = todo[i + 1] /\ i + 1 # 1
      BY <1>1
    <3> QED
      BY <1>3, <3>1 DEF Headers
  <2> QED
    BY <2>1 DEF Headers
<1> QED
  BY <1>2, <1>3

(* function_def pushes a header; the table entered is the newest, and      *)
(* nothing has been looked up from it.                                     *)
LEMMA FunctionHeader ==
    ASSUME Typed, Headers, todo # <<>>, todo[1].op \notin Headed, symtab_top # 0,
           NEW n \in Names, NEW d \in {0, 1},
           ~ Redefined(n), DeclaresFunction(n), symtab_top' = Len(scopes'), refs' = refs,
           todo' = <<Node("fn_name", n), Item("params"), Item("stmts"), Item("rbrace"), Return>>
                      \o Rest(todo, d)
    PROVE  Headers'
<1>1. InHeader'
  <2>1. /\ Len(scopes') = Len(scopes) + 1 /\ scopes'[Len(scopes')].owner = curr_func'
        /\ curr_func' # 0 /\ symbols'[curr_func'].kind = "fn"
    BY FunctionTableStep
  <2>2. \A r \in refs : r.scope # Len(scopes')
    BY <2>1, RefFacts, TypedFacts
  <2> QED
    BY <2>1, <2>2 DEF InHeader
<1> DEFINE a == Node("fn_name", n)
           b == Item("params")
           c == Item("stmts")
           e == Item("rbrace")
           f == Return
           parts == <<a, b, c, e, f>>
<1>2. /\ a \in Visited /\ b \in Visited /\ c \in Visited /\ e \in Visited /\ f \in Visited
      /\ a.op = "fn_name" /\ b.op = "params" /\ c.op = "stmts" /\ e.op = "rbrace" /\ f.op = "return"
  BY PartFacts DEF Part, Ops, Plain, Identifiers, Header
<1>3. todo' = parts \o Rest(todo, d)
  OBVIOUS
<1> HIDE DEF a, b, c, e, f
<1>4. /\ parts \in Seq(Visited) /\ Len(parts) = 5
      /\ parts[1] = a /\ parts[2] = b /\ parts[3] = c /\ parts[4] = e /\ parts[5] = f
      /\ \A i \in 1 .. 5 : i = 1 \/ i = 2 \/ i = 3 \/ i = 4 \/ i = 5
  BY <1>2
<1> HIDE DEF parts
<1>5. todo \in Seq(Visited) /\ Len(todo) \in Nat \ {0}
  BY TypedFacts
<1>6. /\ Len(todo') = Len(parts) + Len(todo) - d
      /\ \A i \in 1 .. Len(parts) : todo'[i] = parts[i]
      /\ \A i \in Len(parts) + 1 .. Len(todo') : todo'[i] = todo[i - Len(parts) + d]
  BY <1>3, <1>4, <1>5, PushFacts
<1>7. \A i \in 1 .. Len(todo) : todo[i].op \notin Headed
  BY NoHeader
<1>8. ASSUME NEW i \in 1 .. Len(todo')
      PROVE  \/ i = 1 /\ todo'[i].op = "fn_name"
             \/ i = 2 /\ todo'[i].op = "params"
             \/ todo'[i].op \notin Headed
  <2>1. CASE i \in 1 .. 5
    <3>1. todo'[i] = parts[i]
      BY <1>4, <1>6, <2>1
    <3>2. i = 1 \/ i = 2 \/ i = 3 \/ i = 4 \/ i = 5
      BY <1>4, <2>1
    <3> QED
      BY <1>2, <1>4, <3>1, <3>2 DEF Headed, Header
  <2>2. CASE i \notin 1 .. 5
    <3>1. i - 5 + d \in 1 .. Len(todo) /\ i \in 6 .. Len(todo')
      BY <1>4, <1>5, <1>6, <2>2
    <3>2. todo'[i] = todo[i - 5 + d]
      BY <1>4, <1>6, <3>1
    <3> QED
      BY <1>7, <3>1, <3>2
  <2> QED
    BY <2>1, <2>2
<1>9. /\ Len(todo') >= 2 /\ todo'[1].op = "fn_name" /\ todo'[2].op = "params"
  <2>1. 1 \in 1 .. Len(parts) /\ 2 \in 1 .. Len(parts)
    BY <1>4
  <2> QED
    BY <1>2, <1>4, <1>5, <1>6, <2>1
<1>10. "fn_name" \in Header /\ "fn_name" # "params" /\ "params" \notin Header /\ Header \subseteq Headed
       /\ "params" \in Headed
  BY DEF Header, Headed
<1>11. ASSUME NEW i \in 1 .. Len(todo')
       PROVE  /\ todo'[i].op = "params" => InHeader' /\ (i = 1 \/ (i = 2 /\ todo'[1].op \in Header))
              /\ todo'[i].op \in Header => i = 1 /\ Len(todo') >= 2 /\ todo'[2].op = "params"
  BY <1>1, <1>8, <1>9, <1>10
<1> QED
  BY <1>11 DEF Headers

(* A parameter's name goes above the list it is from.                      *)
LEMMA ParamHeader ==
    ASSUME Typed, Headers, NEW n \in Names, FnParam(n)
    PROVE  Headers'
<1>1. todo # <<>> /\ todo[1].op = "params"
  BY VisitFacts DEF FnParam, VisitNext
<1>2. InHeader
  <2>1. 1 \in 1 .. Len(todo)
    BY <1>1, TypedFacts
  <2> QED
    BY <1>1, <2>1 DEF Headers
<1>3. InHeader'
  <2>1. ParamBound(n) /\ symtab_top' = symtab_top /\ refs' = refs
    BY DEF FnParam, ParamBound
  <2>2. TableStep /\ Len(scopes') = Len(scopes)
    BY <1>2, <2>1, ParamTableStep
  <2>3. Grows(scopes, symbols, scopes', symbols') /\ curr_func' = curr_func
    BY <2>1, <2>2 DEF TableStep, ParamBound
  <2>4. symtab_top \in 1 .. Len(scopes) /\ curr_func \in 1 .. Len(symbols)
    BY <1>2, TypedFacts DEF InHeader
  <2> QED
    BY <1>2, <2>1, <2>2, <2>3, <2>4 DEF InHeader, Grows
<1> DEFINE a == Node("param_name", n)
           parts == <<a>>
<1>4. a \in Visited /\ a.op = "param_name"
  BY PartFacts DEF Part, Identifiers, Header
<1>5. todo' = parts \o Rest(todo, 0)
  BY <1>1, TodoFacts DEF FnParam
<1> HIDE DEF a
<1>6. parts \in Seq(Visited) /\ Len(parts) = 1 /\ parts[1] = a
  BY <1>4
<1> HIDE DEF parts
<1>7. todo \in Seq(Visited) /\ Len(todo) \in Nat \ {0}
  BY <1>1, TypedFacts
<1>8. /\ Len(todo') = 1 + Len(todo)
      /\ todo'[1] = a
      /\ \A i \in 2 .. Len(todo') : i - 1 \in 1 .. Len(todo) /\ todo'[i] = todo[i - 1]
  <2>1. /\ Len(todo') = Len(parts) + Len(todo) - 0
        /\ \A i \in 1 .. Len(parts) : todo'[i] = parts[i]
        /\ \A i \in Len(parts) + 1 .. Len(todo') : todo'[i] = todo[i - Len(parts) + 0]
    BY <1>1, <1>5, <1>6, <1>7, PushFacts
  <2> QED
    BY <1>6, <1>7, <2>1
<1>9. Len(todo') >= 2 /\ todo'[2].op = "params"
  <2>1. 2 \in 2 .. Len(todo')
    BY <1>7, <1>8
  <2> QED
    BY <1>1, <1>7, <1>8, <2>1
<1>10. "param_name" \in Header /\ "params" \notin Header /\ "param_name" # "params"
  BY DEF Header
<1>11. ASSUME NEW i \in 1 .. Len(todo')
       PROVE  /\ todo'[i].op = "params" => InHeader' /\ (i = 1 \/ (i = 2 /\ todo'[1].op \in Header))
              /\ todo'[i].op \in Header => i = 1 /\ Len(todo') >= 2 /\ todo'[2].op = "params"
  <2>1. CASE i = 1
    BY <1>3, <1>4, <1>8, <1>9, <1>10, <2>1
  <2>2. CASE i # 1
    <3>1. i - 1 \in 1 .. Len(todo) /\ todo'[i] = todo[i - 1]
      BY <1>8, <2>2
    <3>2. todo[i - 1].op \notin Header
      BY <1>1, <1>10, <3>1 DEF Headers
    <3>3. todo[i - 1].op = "params" => i - 1 = 1
      BY <1>1, <1>10, <3>1 DEF Headers
    <3> QED
      BY <1>3, <1>4, <1>8, <1>10, <3>1, <3>2, <3>3
  <2> QED
    BY <2>1, <2>2
<1> QED
  BY <1>11 DEF Headers

(* Headers is inductive.                                                   *)
LEMMA EveryHeaderStep ==
    ASSUME Typed, Headers, todo # <<>> => symtab_top # 0, [Next]_vars
    PROVE  Headers'
<1>1. CASE UNCHANGED vars
  BY <1>1 DEF vars, tables, Headers, InHeader
<1>2. todo' = <<>> => Headers'
  BY DEF Headers
<1>3. {"crate", "stmts", "else", "single_if", "expr", "rbrace"} \cap Headed = {}
  BY DEF Headed, Header
<1>4. ASSUME NEW list \in {"crate", "stmts"}, NEW n \in Names, NEW kind \in Kinds,
             NEW mut \in BOOLEAN, Assign(list, n, kind, mut)
      PROVE  Headers'
  <2>1. todo # <<>> /\ todo[1].op = list
    BY <1>4, VisitFacts DEF Assign, VisitNext
  <2>2. StackStep({})
    BY <1>4, <2>1, AssignStack
  <2> QED
    BY <1>3, <2>1, <2>2, NoHeadersLeft
<1>5. ASSUME NEW list \in {"crate", "stmts"}, NEW n \in Names, NEW last \in BOOLEAN,
             FunctionDef(list, n, last)
      PROVE  Headers'
  <2> DEFINE d == IF last THEN 1 ELSE 0
  <2>1. todo # <<>> /\ todo[1].op = list
    BY <1>5, VisitFacts DEF FunctionDef, VisitNext
  <2>2. CASE Redefined(n)
    BY <1>2, <1>5, <2>2 DEF FunctionDef, Die
  <2>3. CASE ~ Redefined(n)
    <3>1. /\ ~ Redefined(n) /\ DeclaresFunction(n)
          /\ symtab_top' = Len(scopes') /\ refs' = refs
          /\ todo' = <<Node("fn_name", n), Item("params"), Item("stmts"), Item("rbrace"),
                       Return>> \o (IF last THEN Tail(todo) ELSE todo)
      BY <1>5, <2>3 DEF FunctionDef, Die, DeclaresFunction, CurrentFunction
    <3>2. d \in {0, 1} /\ Rest(todo, d) = IF last THEN Tail(todo) ELSE todo
      BY DEF Rest
    <3>3. todo[1].op \notin Headed /\ symtab_top # 0
      BY <1>3, <2>1
    <3> HIDE DEF d
    <3> QED
      BY <2>1, <3>1, <3>2, <3>3, FunctionHeader
  <2> QED
    BY <2>2, <2>3
<1>6. ASSUME NEW n \in Names, FnParam(n)
      PROVE  Headers'
  BY <1>6, ParamHeader
<1>7. ASSUME NEW n \in Names, ForStm(n)
      PROVE  Headers'
  <2>1. todo # <<>> /\ todo[1].op = "stmts"
    BY <1>7, VisitFacts DEF ForStm, VisitNext
  <2> QED
    BY <1>3, <1>7, <2>1, ForStack, NoHeadersLeft
<1>8. ASSUME NEW n \in Names, NEW array \in BOOLEAN, UpdateStm(n, array)
      PROVE  Headers'
  <2>1. todo # <<>> /\ todo[1].op = "stmts"
    BY <1>8, VisitFacts DEF UpdateStm, VisitNext
  <2> QED
    BY <1>3, <1>8, <2>1, Reads, NoHeadersLeft
<1>9. ASSUME SingleIf
      PROVE  Headers'
  <2>1. todo # <<>> /\ todo[1].op \in {"stmts", "single_if"}
    BY <1>9, VisitFacts DEF SingleIf, VisitNext
  <2> QED
    BY <1>3, <1>9, <2>1, SingleIfStack, NoHeadersLeft
<1>10. ASSUME Else \/ ElseIfType
       PROVE  Headers'
  <2>1. todo # <<>> /\ todo[1].op = "else"
    BY <1>10, VisitFacts DEF Else, ElseIfType, VisitNext
  <2> QED
    BY <1>3, <1>10, <2>1, ElseStack, ElseIfStack, NoHeadersLeft
<1>11. ASSUME NEW empty \in BOOLEAN, WhileStm(empty)
       PROVE  Headers'
  <2>1. todo # <<>> /\ todo[1].op = "stmts"
    BY <1>11, VisitFacts DEF WhileStm, VisitNext
  <2> QED
    BY <1>3, <1>11, <2>1, WhileStack, NoHeadersLeft
<1>12. ASSUME Ident
       PROVE  Headers'
  <2>1. todo # <<>> /\ todo[1] = Head(todo) /\ todo[1].op \in Identifiers
    BY <1>12, TodoFacts DEF Ident, Visit, Identifiers, Header
  <2>2. \/ todo' = <<>>
        \/ /\ todo' = <<>> \o Tail(todo) /\ UNCHANGED tables
           /\ \E r : r.how = todo[1].op /\ refs' = refs \cup {r}
    <3>1. ASSUME NEW m, Found(m, Head(todo).op)
          PROVE  \E r : r.how = todo[1].op /\ refs' = refs \cup {r}
      <4> DEFINE r == [name |-> m, scope |-> symtab_top, how |-> Head(todo).op,
                       symbol |-> Lookup(m, symtab_top)]
      <4>1. r.how = todo[1].op /\ refs' = refs \cup {r}
        BY <2>1, <3>1 DEF Found
      <4> QED
        BY <4>1
    <3> QED
      BY <1>12, <3>1 DEF Ident, Die, Before
  <2>3. <<>> \o Tail(todo) = Tail(todo)
    BY <2>1, TypedFacts
  <2>4. todo[1].op \in Header \/ todo[1].op \notin Headed
    BY <2>1 DEF Identifiers, Header, Headed
  <2> QED
    BY <1>2, <2>1, <2>2, <2>3, <2>4, HeadersTail
<1>13. ASSUME ExprStm
       PROVE  Headers'
  <2>1. todo # <<>> /\ todo[1].op = "stmts"
    BY <1>13, VisitFacts DEF ExprStm, VisitNext
  <2> QED
    BY <1>3, <1>13, <2>1, Reads, NoHeadersLeft
<1>14. ASSUME Expr
       PROVE  Headers'
  <2>1. todo # <<>> /\ todo[1].op = "expr"
    BY <1>14, VisitFacts DEF Expr
  <2> QED
    BY <1>3, <1>14, <2>1, Reads, NoHeadersLeft
<1>15. ASSUME CloseBrace
       PROVE  Headers'
  <2>1. todo # <<>> /\ todo[1].op = "rbrace"
    BY <1>15, VisitFacts DEF CloseBrace
  <2> QED
    BY <1>3, <1>15, <2>1, CloseStack, NoHeadersLeft
<1>16. ASSUME Skip
       PROVE  Headers'
  <2>1. todo # <<>> /\ refs' = refs /\ UNCHANGED tables /\ todo' = <<>> \o Tail(todo)
    BY <1>16 DEF Skip, Visit, Before
  <2>2. <<>> \o Tail(todo) = Tail(todo)
    BY <2>1, TypedFacts
  <2> QED
    BY <2>1, <2>2, HeadersTail
<1>17. {"let", "static"} \subseteq Kinds /\ FALSE \in BOOLEAN /\ "stmts" \in {"crate", "stmts"}
  BY DEF Kinds
<1> QED
  BY <1>1, <1>4, <1>5, <1>6, <1>7, <1>8, <1>9, <1>10, <1>11, <1>12, <1>13, <1>14, <1>15,
     <1>16, <1>17 DEF Next, Let, Static, Terminated

-----------------------------------------------------------------------------
(* The inductive invariant.  Typed and CrateLast are about single values;  *)
(* Headers is why a parameter captures no name already looked up and is    *)
(* counted for its own function; Balanced is why a table is on top when    *)
(* one is needed.                                                          *)
IInv ==
    /\ Typed
    /\ CrateLast
    /\ Headers
    /\ \E e : Balanced(e, todo, scopes, symtab_top)
    /\ MutableSymbols
    /\ StableReferences
    /\ ReferencesResolve
    /\ ParamsCounted

(* There is a table on top while nodes are left.                           *)
LEMMA OnTop ==
    ASSUME IInv
    PROVE  todo # <<>> => symtab_top # 0
BY BalanceFacts DEF IInv

(* From a state of the invariant every step is one of the stack.           *)
LEMMA NextStack ==
    ASSUME IInv, [Next]_vars
    PROVE  StackStep(Headed)
<1>1. StackStep({}) \/ StackStep(Headed)
  BY OnTop, EveryStackStep DEF IInv
<1>2. {} \subseteq Headed
  OBVIOUS
<1> QED
  BY <1>1, <1>2, MoreHeaders

(* Typed is inductive.                                                     *)
LEMMA NextTyped ==
    ASSUME IInv, [Next]_vars
    PROVE  Typed'
<1>1. Typed /\ Headers /\ CrateLast /\ (todo # <<>> => symtab_top # 0)
  BY OnTop DEF IInv
<1>2. StackStep(Headed)
  BY NextStack
<1>3. Kept
  BY <1>1, <1>2, StepKeeps
<1>4. TableStep
  BY <1>1, EveryTableStep
<1>5. RefStep
  BY <1>1, EveryRefStep
<1>6. Linked(scopes', symbols') /\ curr_func' \in 0 .. Len(symbols')
  BY <1>4 DEF TableStep, Grows
<1>7. symtab_top' \in 0 .. Len(scopes')
  BY <1>3 DEF Kept
<1>8. Stacked'
  BY <1>1, <1>2, <1>3, StackedStep
<1>9. nodes' \in 0 .. MaxNodes + 1
  BY <1>1, <1>2, CrateStep
<1>10. exit' \in {"no", "exit_3", "null_dereference"}
  BY <1>5 DEF RefStep
<1>11. Referred'
  <2>1. /\ refs \subseteq [name : Names, scope : Nat, symbol : Nat, how : Identifiers \cup {"update"}]
        /\ \A r \in refs : r.scope \in 1 .. Len(scopes) /\ r.symbol \in 1 .. Len(symbols)
    BY <1>1 DEF Typed, Referred
  <2>2. /\ Len(scopes) \in Nat /\ Len(symbols) \in Nat
        /\ Len(scopes') \in Nat /\ Len(symbols') \in Nat
        /\ Len(scopes) <= Len(scopes') /\ Len(symbols) <= Len(symbols')
    BY <1>1, <1>4, <1>6, LinkedFacts, TypedFacts DEF TableStep, Grows
  <2>3. ASSUME NEW r \in refs
        PROVE  r.scope \in 1 .. Len(scopes') /\ r.symbol \in 1 .. Len(symbols')
    BY <2>1, <2>2
  <2>4. CASE refs' = refs
    BY <2>1, <2>3, <2>4 DEF Referred
  <2>5. ASSUME symtab_top # 0, NEW r, FoundHere(r), refs' = refs \cup {r}
        PROVE  Referred'
    <3>1. /\ r.name \in Names /\ r.scope = symtab_top
          /\ r \in [name : Names, scope : Nat, symbol : Nat, how : Identifiers \cup {"update"}]
          /\ r.symbol # 0 /\ r.symbol = Find(scopes, r.name)[symtab_top]
      BY <2>5 DEF FoundHere
    <3>2. symtab_top \in 1 .. Len(scopes) /\ symtab_top \in 0 .. Len(scopes)
      BY <1>1, <2>5, TypedFacts
    <3>3. Find(scopes, r.name)[symtab_top] \in 0 .. Len(symbols)
      BY <1>1, <3>1, <3>2, TypedFind
    <3>4. r.scope \in 1 .. Len(scopes') /\ r.symbol \in 1 .. Len(symbols')
      BY <2>2, <3>1, <3>2, <3>3
    <3>5. \A q \in refs' : q.scope \in 1 .. Len(scopes') /\ q.symbol \in 1 .. Len(symbols')
      BY <2>3, <2>5, <3>4
    <3>6. refs' \subseteq [name : Names, scope : Nat, symbol : Nat, how : Identifiers \cup {"update"}]
      BY <2>1, <2>5, <3>1
    <3> QED
      BY <3>5, <3>6 DEF Referred
  <2> QED
    BY <1>5, <2>4, <2>5 DEF RefStep
<1> QED
  BY <1>6, <1>7, <1>8, <1>9, <1>10, <1>11 DEF Typed

(* What was found before is found again, and what resolved still does.     *)
LEMMA FoundAgain ==
    ASSUME Typed, Kept, TableStep, StableReferences, ReferencesResolve,
           NEW r \in refs
    PROVE  /\ r.how \in {"ident", "update"} => Find(scopes', r.name)[r.scope] = r.symbol
           /\ Find(scopes', r.name)[r.scope] # 0
<1>1. /\ r.name \in Names /\ r.scope \in 1 .. Len(scopes) /\ r.symbol \in 1 .. Len(symbols)
      /\ \A u \in 1 .. r.scope : u \in 1 .. Len(scopes)
  BY RefFacts
<1>2. Tree(scopes) /\ Tree(scopes') /\ Len(scopes) \in Nat /\ Len(scopes) <= Len(scopes')
  BY TreeOfScopes, TypedFacts DEF Kept
<1>3. /\ r.scope \in Nat /\ r.scope <= Len(scopes) /\ r.scope <= Len(scopes')
      /\ r.scope \in 0 .. r.scope
  BY <1>1, <1>2, TypedFacts DEF Kept, Tree
<1>4. \A u \in 1 .. r.scope : /\ scopes'[u].parent = scopes[u].parent
                              /\ scopes[u].tbl[r.name] # 0 => scopes'[u].tbl[r.name] # 0
  BY <1>1 DEF TableStep, Grows
<1>5. Find(scopes, r.name)[r.scope] # 0
  <2>1. Lookup(r.name, r.scope) # 0
    BY DEF ReferencesResolve
  <2> QED
    BY <2>1, LookupIsFind, Zenon
<1>6. Find(scopes', r.name)[r.scope] # 0
  BY <1>2, <1>3, <1>4, <1>5, FindResolves
<1>7. ASSUME r.how \in {"ident", "update"}
      PROVE  Find(scopes', r.name)[r.scope] = r.symbol
  <2>1. \A u \in 1 .. r.scope : /\ scopes'[u].parent = scopes[u].parent
                                /\ \/ scopes'[u].tbl[r.name] = scopes[u].tbl[r.name]
                                   \/ Find(scopes, r.name)[u] = 0
    BY <1>4, <1>7 DEF TableStep, Uncaptured, Header
  <2>2. Find(scopes', r.name)[r.scope] = Find(scopes, r.name)[r.scope]
    BY <1>2, <1>3, <1>5, <2>1, FindStable
  <2>3. Lookup(r.name, r.scope) = r.symbol
    BY <1>7 DEF StableReferences
  <2>4. Lookup(r.name, r.scope) = Find(scopes, r.name)[r.scope]
    BY LookupIsFind, Zenon
  <2> QED
    BY <2>2, <2>3, <2>4
<1> QED
  BY <1>6, <1>7

(* Lookup after a step.                                                    *)
LEMMA LookupIsFindNext == \A n, s : Lookup(n, s)' = Find(scopes', n)[s]
BY Zenon DEF Lookup, Find

-----------------------------------------------------------------------------
(* What a step leaves true of the references: those of before, and the one *)
(* it adds, which changes no table.                                        *)
LEMMA NextReferences ==
    ASSUME IInv, [Next]_vars
    PROVE  StableReferences' /\ ReferencesResolve' /\ MutableSymbols'
<1>1. /\ Typed /\ Headers /\ (todo # <<>> => symtab_top # 0)
      /\ StableReferences /\ ReferencesResolve /\ MutableSymbols
  BY OnTop DEF IInv
<1>2. Kept
  BY <1>1, NextStack, StepKeeps
<1>3. TableStep
  BY <1>1, EveryTableStep
<1>4. RefStep
  BY <1>1, EveryRefStep
<1>5. ASSUME NEW r \in refs
      PROVE  /\ r.how \in {"ident", "update"} => Lookup(r.name, r.scope)' = r.symbol
             /\ Lookup(r.name, r.scope)' # 0
             /\ r.how = "update" => symbols'[r.symbol].mut
  <2>1. /\ r.how \in {"ident", "update"} => Find(scopes', r.name)[r.scope] = r.symbol
        /\ Find(scopes', r.name)[r.scope] # 0
    BY <1>1, <1>2, <1>3, FoundAgain
  <2>2. Lookup(r.name, r.scope)' = Find(scopes', r.name)[r.scope]
    BY LookupIsFindNext, Zenon
  <2>3. r.symbol \in 1 .. Len(symbols)
    BY <1>1, RefFacts
  <2>4. symbols'[r.symbol].mut = symbols[r.symbol].mut
    BY <1>3, <2>3 DEF TableStep, Grows
  <2> QED
    BY <1>1, <2>1, <2>2, <2>4 DEF MutableSymbols
<1>6. ASSUME NEW r, FoundHere(r), UNCHANGED tables
      PROVE  /\ Lookup(r.name, r.scope)' = r.symbol
             /\ Lookup(r.name, r.scope)' # 0
             /\ r.how = "update" => symbols'[r.symbol].mut
  <2>1. Lookup(r.name, r.scope)' = Find(scopes', r.name)[r.scope]
    BY LookupIsFindNext, Zenon
  <2>2. scopes' = scopes /\ symbols' = symbols
    BY <1>6 DEF tables
  <2> QED
    BY <1>6, <2>1, <2>2 DEF FoundHere
<1>7. \A r \in refs' :
         /\ r.how \in {"ident", "update"} => Lookup(r.name, r.scope)' = r.symbol
         /\ Lookup(r.name, r.scope)' # 0
         /\ r.how = "update" => symbols'[r.symbol].mut
  BY <1>4, <1>5, <1>6, Zenon DEF RefStep
<1> QED
  BY <1>7, Zenon DEF StableReferences, ReferencesResolve, MutableSymbols

(* Every step preserves the invariant.                                     *)
LEMMA IInvNext ==
    ASSUME IInv, [Next]_vars
    PROVE  IInv'
<1>1. /\ Typed /\ Headers /\ CrateLast /\ (todo # <<>> => symtab_top # 0)
      /\ ParamsCounted /\ \E e : Balanced(e, todo, scopes, symtab_top)
  BY OnTop DEF IInv
<1>2. StackStep(Headed)
  BY NextStack
<1>3. Typed'
  BY NextTyped
<1>4. CrateLast'
  BY <1>1, <1>2, CrateStep
<1>5. Headers'
  BY <1>1, EveryHeaderStep
<1>6. \E e : Balanced(e, todo', scopes', symtab_top')
  BY <1>1, <1>2, BalanceStep
<1>7. ParamsCounted'
  <2>1. TableStep
    BY <1>1, EveryTableStep
  <2> QED
    BY <1>1, <2>1 DEF TableStep
<1>8. StableReferences' /\ ReferencesResolve' /\ MutableSymbols'
  BY NextReferences
<1> HIDE DEF Typed, CrateLast, Headers, Balanced
<1> QED
  BY <1>3, <1>4, <1>5, <1>6, <1>7, <1>8 DEF IInv

-----------------------------------------------------------------------------
(* The elements of a sequence, and a sequence of elements.                 *)
LEMMA Elements ==
    ASSUME NEW S, NEW q \in Seq(S)
    PROVE  \A i \in 1 .. Len(q) : q[i] \in S
OBVIOUS

LEMMA SequenceOf ==
    ASSUME NEW S, NEW T, NEW q \in Seq(T), \A i \in 1 .. Len(q) : q[i] \in S
    PROVE  q \in Seq(S)
OBVIOUS

(* The global scope with the built-ins is a linked table at level 1.       *)
LEMMA InitLinked ==
    ASSUME Init
    PROVE  /\ Linked(scopes, symbols)
           /\ Len(scopes) = 1 /\ scopes[1].parent = 0
           /\ Len(symbols) \in Nat
           /\ \A p \in 1 .. Len(symbols) : symbols[p].kind = "builtin"
<1> DEFINE tbl == [n \in Names |-> IF BuiltinNamed(n) = {} THEN 0
                                   ELSE CHOOSE b \in BuiltinNamed(n) : TRUE]
           root == [parent |-> 0, rule |-> "crate", owner |-> 0, tbl |-> tbl]
           sym(b) == [name |-> Builtins[b].name, kind |-> "builtin", mut |-> FALSE,
                      nparams |-> Builtins[b].nparams, table |-> 1]
<1>1. /\ Builtins \in Seq([name : Names, nparams : Nat])
      /\ DOMAIN Builtins = 1 .. Len(Builtins) /\ Len(Builtins) \in Nat
  BY SymTabAssumption
<1>2. ASSUME NEW n \in Names
      PROVE  tbl[n] \in 0 .. Len(Builtins)
  <2>1. BuiltinNamed(n) # {} => (CHOOSE b \in BuiltinNamed(n) : TRUE) \in BuiltinNamed(n)
    OBVIOUS
  <2>2. BuiltinNamed(n) \subseteq 1 .. Len(Builtins)
    BY <1>1 DEF BuiltinNamed
  <2>3. 0 \in 0 .. Len(Builtins) /\ 1 .. Len(Builtins) \subseteq 0 .. Len(Builtins)
    BY <1>1
  <2> HIDE DEF BuiltinNamed
  <2> QED
    BY <2>1, <2>2, <2>3
<1>3. tbl \in [Names -> Nat]
  <2> HIDE DEF tbl
  <2>1. tbl = [n \in Names |-> tbl[n]]
    BY DEF tbl
  <2>2. \A n \in Names : tbl[n] \in Nat
    BY <1>1, <1>2
  <2> QED
    BY <2>1, <2>2
<1>4. scopes = <<root>> /\ symbols = [b \in 1 .. Len(Builtins) |-> sym(b)]
  BY <1>1 DEF Init
<1>5. root \in Scope /\ root.parent = 0 /\ root.owner = 0 /\ root.tbl = tbl
  BY <1>3 DEF Scope, Rules
<1>6. \A b \in 1 .. Len(Builtins) : /\ sym(b) \in Entry
                                    /\ sym(b).table = 1 /\ sym(b).kind = "builtin"
  <2>1. \A b \in 1 .. Len(Builtins) : Builtins[b] \in [name : Names, nparams : Nat]
    BY <1>1, Elements, Zenon
  <2> QED
    BY <2>1 DEF Entry, Kinds
<1>7. /\ scopes \in Seq(Scope) /\ scopes # <<>> /\ Len(scopes) = 1 /\ scopes[1] = root
  BY <1>4, <1>5
<1> HIDE DEF tbl, root, sym
<1>8. /\ symbols \in Seq(Entry) /\ Len(symbols) = Len(Builtins)
      /\ \A p \in 1 .. Len(symbols) : symbols[p] = sym(p)
  BY <1>1, <1>4, <1>6
<1>9. Linked(scopes, symbols)
  <2>1. \A t \in 1 .. Len(scopes) : t = 1
    BY <1>7
  <2>2. \A n \in Names : tbl[n] <= Len(symbols)
    BY <1>1, <1>2, <1>8
  <2>3. root.parent < 1 /\ root.owner <= Len(symbols)
    BY <1>1, <1>5, <1>8
  <2>4. \A p \in 1 .. Len(symbols) : symbols[p].table \in 1 .. Len(scopes)
    BY <1>6, <1>7, <1>8
  <2> QED
    BY <1>5, <1>7, <1>8, <2>1, <2>2, <2>3, <2>4 DEF Linked
<1> QED
  BY <1>1, <1>5, <1>6, <1>7, <1>8, <1>9

(* The global scope satisfies the invariant.                               *)
LEMMA IInvInit == Init => IInv
<1> SUFFICES ASSUME Init
             PROVE  IInv
  OBVIOUS
<1>1. /\ Linked(scopes, symbols) /\ Len(scopes) = 1 /\ scopes[1].parent = 0
      /\ Len(symbols) \in Nat
      /\ \A p \in 1 .. Len(symbols) : symbols[p].kind = "builtin"
  BY InitLinked
<1>2. /\ symtab_top = 1 /\ curr_func = 0 /\ exit = "no" /\ nodes = 0 /\ refs = {}
      /\ todo = <<Item("crate"), Item("rbrace")>>
  BY DEF Init
<1>3. /\ Item("crate") \in Visited /\ Item("crate").op = "crate"
      /\ Item("crate").top = 0 /\ Item("crate").made = 0
      /\ Item("rbrace") \in Visited /\ Item("rbrace").op = "rbrace"
      /\ Item("rbrace").top = 0 /\ Item("rbrace").made = 0
  BY DEF Item, Node, Visited, Ops
<1>4. /\ todo \in Seq(Visited) /\ Len(todo) = 2
      /\ todo[1] = Item("crate") /\ todo[2] = Item("rbrace")
      /\ \A i \in 1 .. Len(todo) : i = 1 \/ i = 2
  <2> HIDE DEF Item
  <2> QED
    BY <1>2, <1>3
<1>5. \A i \in 1 .. Len(todo) : /\ todo[i].op \in {"crate", "rbrace"}
                                /\ todo[i].op = "crate" => i = 1
                                /\ todo[i].op = "rbrace" => i = 2
                                /\ todo[i].top = 0 /\ todo[i].made = 0
  BY <1>3, <1>4
<1>6. Typed
  <2>1. Stacked
    BY <1>1, <1>4, <1>5 DEF Stacked, Identifiers, Header
  <2>2. Referred
    BY <1>2 DEF Referred
  <2>3. nodes \in 0 .. MaxNodes + 1
    BY <1>2, SymTabAssumption
  <2> QED
    BY <1>1, <1>2, <2>1, <2>2, <2>3 DEF Typed
<1>7. CrateLast
  BY <1>2, <1>4, <1>5, SymTabAssumption DEF CrateLast
<1>8. Headers
  BY <1>5 DEF Headers, Header
<1>9. \E e : Balanced(e, todo, scopes, symtab_top)
  <2> DEFINE e == [i \in 1 .. Len(todo) |-> 1]
  <2>1. Level(scopes)[1] = 1
    <3>1. Tree(scopes) /\ 1 \in 1 .. Len(scopes)
      BY <1>1, <1>6, TreeOfScopes
    <3> QED
      BY <1>1, <3>1, LevelStep
  <2>2. Balanced(e, todo, scopes, symtab_top)
    <3>1. /\ e \in [1 .. Len(todo) -> Int]
          /\ \A i \in 1 .. Len(todo) : e[i] = 1
          /\ 1 \in 1 .. Len(todo) /\ 2 \in 1 .. Len(todo)
      BY <1>4
    <3>2. \A i \in 1 .. Len(todo) - 1 : i = 1 /\ todo[i].op # "rbrace"
      BY <1>4, <1>5
    <3>3. \A i \in 1 .. Len(todo) : todo[i].op # "return"
      BY <1>5
    <3> HIDE DEF e
    <3> QED
      BY <1>2, <2>1, <3>1, <3>2, <3>3 DEF Balanced
  <2> QED
    BY <2>2
<1>10. MutableSymbols /\ StableReferences /\ ReferencesResolve
  BY <1>2 DEF MutableSymbols, StableReferences, ReferencesResolve
<1>11. ParamsCounted
  <2>1. DOMAIN symbols = 1 .. Len(symbols)
    BY <1>1 DEF Linked
  <2> QED
    BY <1>1, <2>1 DEF ParamsCounted
<1> QED
  BY <1>6, <1>7, <1>8, <1>9, <1>10, <1>11 DEF IInv

-----------------------------------------------------------------------------
(* The theorems.                                                           *)
LEMMA TypesFollow == IInv => TypeOK
<1> SUFFICES ASSUME IInv
             PROVE  TypeOK
  OBVIOUS
<1>1. Typed /\ (todo # <<>> => symtab_top # 0)
  BY OnTop DEF IInv
<1>2. /\ scopes \in Seq(Scope) /\ symbols \in Seq(Entry)
      /\ Len(scopes) \in Nat /\ Len(symbols) \in Nat
      /\ \A t \in 1 .. Len(scopes) :
            /\ scopes[t].parent \in Nat /\ scopes[t].parent < t
            /\ scopes[t].rule \in Rules
            /\ scopes[t].owner \in Nat /\ scopes[t].owner <= Len(symbols)
            /\ scopes[t].tbl \in [Names -> Nat]
            /\ \A m \in Names : scopes[t].tbl[m] \in Nat /\ scopes[t].tbl[m] <= Len(symbols)
      /\ \A p \in 1 .. Len(symbols) : /\ symbols[p] \in Entry
                                      /\ symbols[p].table \in 1 .. Len(scopes)
  BY <1>1, LinkedFacts DEF Typed
<1>3. DOMAIN scopes = 1 .. Len(scopes) /\ DOMAIN symbols = 1 .. Len(symbols)
  BY <1>2
<1>4. \A s \in DOMAIN scopes : scopes[s].parent < s
  BY <1>2, <1>3
<1>5. scopes \in Seq([parent : 0 .. Len(scopes), rule : Rules, owner : 0 .. Len(symbols),
                      tbl : [Names -> 0 .. Len(symbols)]])
  <2> DEFINE S == [parent : 0 .. Len(scopes), rule : Rules, owner : 0 .. Len(symbols),
                   tbl : [Names -> 0 .. Len(symbols)]]
  <2>1. ASSUME NEW t \in 1 .. Len(scopes)
        PROVE  scopes[t] \in S
    <3>1. scopes[t] \in Scope
      BY <1>2, Elements, Zenon
    <3>2. /\ scopes[t].parent \in 0 .. Len(scopes) /\ scopes[t].owner \in 0 .. Len(symbols)
          /\ scopes[t].rule \in Rules
      BY <1>2
    <3>3. scopes[t].tbl \in [Names -> 0 .. Len(symbols)]
      <4>1. scopes[t].tbl \in [Names -> Nat]
            /\ \A m \in Names : scopes[t].tbl[m] \in 0 .. Len(symbols)
        BY <1>2
      <4> QED
        BY <4>1
    <3> QED
      BY <3>1, <3>2, <3>3 DEF Scope
  <2> HIDE DEF S
  <2>2. scopes \in Seq(S)
    BY <1>2, <2>1, SequenceOf
  <2> QED
    BY <2>2 DEF S
<1>6. symbols \in Seq([name : Names, kind : Kinds, mut : BOOLEAN, nparams : Nat,
                       table : DOMAIN scopes])
  <2> DEFINE S == [name : Names, kind : Kinds, mut : BOOLEAN, nparams : Nat,
                   table : DOMAIN scopes]
  <2>1. ASSUME NEW p \in 1 .. Len(symbols)
        PROVE  symbols[p] \in S
    BY <1>2, <1>3 DEF Entry
  <2> HIDE DEF S
  <2>2. symbols \in Seq(S)
    BY <1>2, <2>1, SequenceOf
  <2> QED
    BY <2>2 DEF S
<1>7. refs \in SUBSET [name : Names, scope : DOMAIN scopes, symbol : DOMAIN symbols,
                       how : {"ident", "fn_name", "param_name", "update"}]
  <2>1. /\ refs \subseteq [name : Names, scope : Nat, symbol : Nat,
                           how : Identifiers \cup {"update"}]
        /\ \A r \in refs : r.scope \in 1 .. Len(scopes) /\ r.symbol \in 1 .. Len(symbols)
    BY <1>1 DEF Typed, Referred
  <2> QED
    BY <1>3, <2>1 DEF Identifiers, Header
<1> QED
  BY <1>1, <1>3, <1>4, <1>5, <1>6, <1>7 DEF TypeOK, Typed

(* A reference that is stable and was mutable is mutable when looked up.   *)
LEMMA UpdatesFollow == IInv => UpdatesAreMutable
<1> SUFFICES ASSUME IInv, NEW r \in refs, r.how = "update"
             PROVE  LET s == Lookup(r.name, r.scope) IN s # 0 /\ symbols[s].mut
  BY DEF UpdatesAreMutable
<1>1. /\ Lookup(r.name, r.scope) = r.symbol
      /\ Lookup(r.name, r.scope) # 0
      /\ symbols[r.symbol].mut
  BY DEF IInv, StableReferences, ReferencesResolve, MutableSymbols
<1> QED
  BY <1>1

(* At the end of a call the depth promised is that of the table on top.    *)
LEMMA LeaksFollow == IInv => OnlyElseIfLeaks
<1> SUFFICES ASSUME IInv, Visit("return")
             PROVE  Depth(symtab_top) = Depth(Head(todo).top)
                                          + Cardinality(ElseIfsSince(Head(todo).made))
  BY DEF OnlyElseIfLeaks
<1>1. Typed /\ \E e : Balanced(e, todo, scopes, symtab_top)
  BY DEF IInv
<1>2. todo # <<>> /\ todo[1].op = "return" /\ Head(todo) = todo[1] /\ 1 \in 1 .. Len(todo)
  BY <1>1 DEF Visit, Typed, Stacked
<1>3. Level(scopes)[symtab_top] = Level(scopes)[todo[1].top]
                                    + Cardinality(ElseIfs(scopes, todo[1].made))
  BY <1>1, <1>2, BalanceFacts
<1>4. ElseIfsSince(Head(todo).made) = ElseIfs(scopes, todo[1].made)
  BY <1>2 DEF ElseIfsSince, ElseIfs
<1> QED
  BY <1>2, <1>3, <1>4, DepthIsLevel

(* Every state that scope() reaches satisfies the inductive invariant.     *)
THEOREM Invariant == Spec => []IInv
<1>1. Init => IInv
  BY IInvInit
<1>2. IInv /\ [Next]_vars => IInv'
  BY IInvNext
<1> QED
  BY <1>1, <1>2, PTL DEF Spec

(* The tables form a tree whose entries name existing symbols, for any     *)
(* program; and no '}' pops the global scope while nodes are left, so that *)
(* scope_bind and scope_lookup are never called with a NULL table.         *)
THEOREM TypeCorrect == Spec => []TypeOK
<1>1. IInv => TypeOK
  BY TypesFollow
<1> QED
  BY <1>1, Invariant, PTL

(* scope_lookup from node->scope in typecheck() and intermediate_code()    *)
(* gives, for every identifier of an expression or an update, the symbol   *)
(* that populate() found, whatever was declared or entered since.          *)
THEOREM Stable == Spec => []StableReferences
<1>1. IInv => StableReferences
  BY DEF IInv
<1> QED
  BY <1>1, Invariant, PTL

(* Every identifier populate() accepted goes on resolving: the assertion   *)
(* of typecheck.c holds of the identifiers of headers too.                 *)
THEOREM Resolve == Spec => []ReferencesResolve
<1>1. IInv => ReferencesResolve
  BY DEF IInv
<1> QED
  BY <1>1, Invariant, PTL

(* The variable an accepted update assigns to is found again, mutable, by  *)
(* the passes that compile the assignment.                                 *)
THEOREM Mutable == Spec => []UpdatesAreMutable
<1>1. IInv => UpdatesAreMutable
  BY UpdatesFollow
<1> QED
  BY <1>1, Invariant, PTL

(* nparams of a function counts the parameters of its own header, for any  *)
(* nesting of functions, though curr_func is never restored.               *)
THEOREM CountedParams == Spec => []ParamsCounted
<1>1. IInv => ParamsCounted
  BY DEF IInv
<1> QED
  BY <1>1, Invariant, PTL

(* When populate() returns from a node that entered a scope, the scope on  *)
(* top lies deeper by exactly the number of `else if` since.               *)
THEOREM Leaks == Spec => []OnlyElseIfLeaks
<1>1. IInv => OnlyElseIfLeaks
  BY LeaksFollow
<1> QED
  BY <1>1, Invariant, PTL
=============================================================================
