----------------------------- MODULE TypeProofs ----------------------------
(***************************************************************************)
(* Proofs about TypeCheck, for every choice of leaves and productions and  *)
(* programs of any size: what the checker accepts is well typed and what   *)
(* it rejects is not, but for the constructs TypeRules names.              *)
(***************************************************************************)
EXTENDS TypeCheck, LeastNumber, SequenceTheorems

IsSeq(s) == s \in Seq({s[i] : i \in DOMAIN s})

(* A type that compares equal to itself, and one that compares equal to no *)
(* other.                                                                  *)
NoBases == {"nil", "dangling", "ill_typed", "WILDCARD", "FUNC"}
Proper(t) == t.base \notin NoBases /\ (t.base = "ARRAY" => t.of # <<>>)
Simple(t) ==
    \/ t = Base(t.base) /\ t.base \notin NoBases \union {"ARRAY"}
    \/ t = ArrayOf(t.size, Base(t.of[1].base)) /\ t.of[1].base \notin NoBases \union {"ARRAY"}

(* An accepted expression: of the type it means, if it means one.          *)
WellTyped(e) ==
    /\ "mistake" \notin e.quirks => e.means = Ill \/ (e.means = e.type /\ Proper(e.type))
    /\ e.quirks = {} => e.means # Ill /\ Simple(e.type) /\ e.blame # "ok"
GoodExpression(e) ==
    /\ e.rule \in Expressions
    /\ e.blame \in Outcomes
    /\ e.type.base = "FUNC" => e.rule \in Functions
    /\ e.rule \in Idents => IsLeaf(e)
    /\ e.rule \notin Functions => WellTyped(e)

(* A part p of a tree t, whose quirks are among those of t.                *)
GoodPart(p, t) ==
    /\ GoodExpression(p)
    /\ p.quirks \subseteq t.quirks
    /\ p.rule \in Functions => "mistake" \in t.quirks

(* The returned values of a tree are parts of it, and stand for every      *)
(* return in it that is its own.                                           *)
GoodReturns(t) ==
    /\ IsSeq(t.returns)
    /\ \A i \in DOMAIN t.returns :
          t.returns[i] = NoNode \/ GoodPart(t.returns[i], t)
    /\ \A v \in t.own : \E i \in DOMAIN t.returns : v = Returned(t.returns[i])
Kid(t) == t.blame \in Outcomes /\ GoodReturns(t)

GoodList(t) ==
    /\ Len(t.kids) >= 2
    /\ \A i \in DOMAIN t.kids : GoodPart(t.kids[i], t) /\ Kid(t.kids[i])

(* type_array reads the third kid of what has a first one with a type.     *)
HasThird(rule, kids) ==
    \/ kids = <<>> \/ 3 \in DOMAIN kids
    \/ Resolved(kids[1].type) = Nil \/ (rule = "macro" /\ Len(kids) = 2)

(* A tree the walk has left without an error.                              *)
GoodTree(t) ==
    /\ Kid(t)
    /\ IsSeq(t.kids) /\ \A i \in DOMAIN t.kids : Kid(t.kids[i])
    /\ t.type.base = "FUNC" => t.rule \in Functions
    /\ t.rule \in Expressions => GoodExpression(t) /\ HasThird(t.rule, t.kids)
    /\ t.rule = "array_index" => t.type # Nil
    /\ t.rule \in {"items", "inputs"} => GoodList(t)
    /\ t.quirks = {} => t.means # Ill

IInv ==
    /\ TypeOK
    /\ grammar \in DOMAIN Grammars
    /\ IsSeq(trees)
    /\ exit = "no" => \A n \in DOMAIN trees : GoodTree(trees[n])
    /\ Complete
    /\ TypedWhereRead

-----------------------------------------------------------------------------
(* Outcomes.                                                               *)

(* FirstOf: "ok" if all are, and otherwise one of those that are not.      *)
LEMMA FirstOfOutcomes ==
    ASSUME NEW f, DOMAIN f \subseteq Nat
    PROVE  /\ FirstOf(f) = "ok" <=> \A i \in DOMAIN f : f[i] = "ok"
           /\ FirstOf(f) # "ok" => \E i \in DOMAIN f : f[i] = FirstOf(f)
<1>1. CASE Failing(f) = {}
  BY <1>1 DEF FirstOf, Failing
<1>2. CASE Failing(f) # {}
  <2>1. \E i \in Failing(f) : \A j \in Failing(f) : i <= j
    BY <1>2, LeastNatural DEF Failing
  <2>2. PICK i \in Failing(f) : FirstOf(f) = f[i]
    BY <1>2, <2>1 DEF FirstOf
  <2> QED
    BY <2>2 DEF Failing
<1> QED
  BY <1>1, <1>2

(* Then: the first that is not "ok".                                       *)
LEMMA ThenOutcome ==
    ASSUME NEW a, NEW b
    PROVE  Then(a, b) = "ok" <=> a = "ok" /\ b = "ok"
BY DEF Then

-----------------------------------------------------------------------------
(* FlattenSeq.                                                             *)
Flattened(f, seqs, n) ==
    f = [i \in 1 .. n |-> IF i = 1 THEN seqs[i] ELSE f[i - 1] \o seqs[i]]

(* The equation of its function has a solution.                            *)
LEMMA FlattenedExists ==
    ASSUME NEW seqs, NEW n \in Nat
    PROVE  \E f : Flattened(f, seqs, n)
<1> DEFINE None == {d \in 0 .. n : ~ \E f : Flattened(f, seqs, d)}
<1>1. ASSUME NEW d \in None, \A c \in 0 .. d - 1 : c \notin None
      PROVE  FALSE
  <2>1. CASE d = 0
    <3> DEFINE g == [i \in 1 .. 0 |-> <<>>]
    <3>1. \A i \in 1 .. 0 : FALSE
      OBVIOUS
    <3>2. g = [i \in 1 .. 0 |-> IF i = 1 THEN seqs[i] ELSE g[i - 1] \o seqs[i]]
      BY <3>1, Zenon
    <3> QED
      BY <2>1, <3>2 DEF Flattened
  <2>2. CASE d # 0
    <3>1. d \in 1 .. n /\ d - 1 \in 0 .. n /\ d - 1 \in 0 .. d - 1
      BY <2>2
    <3>2. PICK f : Flattened(f, seqs, d - 1)
      <4>1. d - 1 \notin None
        <5> HIDE DEF None
        <5> QED
          BY <1>1, <3>1
      <4> QED
        BY <3>1, <4>1
    <3> HIDE DEF None
    <3>3. \A i \in 1 .. d - 1 : f[i] = IF i = 1 THEN seqs[i] ELSE f[i - 1] \o seqs[i]
      BY <3>2, Zenon DEF Flattened
    <3> DEFINE last == IF d = 1 THEN seqs[d] ELSE f[d - 1] \o seqs[d]
               g == [i \in 1 .. d |-> IF i = d THEN last ELSE f[i]]
    <3>4. g = [i \in 1 .. d |-> g[i]] /\ g[d] = last
      <4> HIDE DEF last
      <4> QED
        BY <3>1
    <3>5. \A i \in 1 .. d - 1 : i \in 1 .. d /\ i # d /\ (i # 1 => i - 1 \in 1 .. d - 1)
      BY <3>1
    <3>6. \A i \in 1 .. d - 1 : g[i] = f[i]
      <4> HIDE DEF last
      <4> QED
        BY <3>5
    <3>7. \A i \in 1 .. d : i = d \/ i \in 1 .. d - 1
      BY <3>1
    <3>8. d # 1 => d - 1 \in 1 .. d - 1
      BY <3>1
    <3> HIDE DEF g
    <3>9. g[d] = IF d = 1 THEN seqs[d] ELSE g[d - 1] \o seqs[d]
      BY <3>4, <3>6, <3>8, Zenon
    <3>10. \A i \in 1 .. d - 1 : g[i] = IF i = 1 THEN seqs[i] ELSE g[i - 1] \o seqs[i]
      BY <3>3, <3>5, <3>6, Zenon
    <3>11. \A i \in 1 .. d : g[i] = IF i = 1 THEN seqs[i] ELSE g[i - 1] \o seqs[i]
      BY <3>7, <3>9, <3>10, Zenon
    <3>12. g = [i \in 1 .. d |-> IF i = 1 THEN seqs[i] ELSE g[i - 1] \o seqs[i]]
      BY <3>4, <3>11, Zenon
    <3>13. ~ \E h : Flattened(h, seqs, d)
      BY DEF None
    <3> QED
      BY <3>12, <3>13, Zenon DEF Flattened
  <2> QED
    BY <2>1, <2>2
<1>2. None = {}
  <2> HIDE DEF None
  <2>1. None \in SUBSET (0 .. n)
    BY DEF None
  <2> QED
    BY <1>1, <2>1, NoLeast
<1>3. n \in 0 .. n /\ n \notin None
  <2> HIDE DEF None
  <2> QED
    BY <1>2
<1> QED
  BY <1>3

(* What is chosen as the function is one of its solutions.                 *)
LEMMA FlattenSeqSolution ==
    ASSUME NEW seqs, Len(seqs) \in Nat, Len(seqs) # 0
    PROVE  \E f : /\ Flattened(f, seqs, Len(seqs))
                  /\ FlattenSeq(seqs) = f[Len(seqs)]
<1> DEFINE n == Len(seqs)
           flat == CHOOSE f : Flattened(f, seqs, n)
<1>1. FlattenSeq(seqs) = flat[n]
  BY Zenon DEF FlattenSeq, Flattened
<1>2. \E f : Flattened(f, seqs, n)
  BY FlattenedExists
<1>3. Flattened(flat, seqs, n)
  BY <1>2, Zenon
<1> QED
  BY <1>1, <1>3, Zenon

(* The sequences over a set, one after the other, are a sequence over it,  *)
(* with every element of each.                                             *)
LEMMA FlattenSeqElements ==
    ASSUME NEW S, NEW seqs \in Seq(Seq(S))
    PROVE  /\ FlattenSeq(seqs) \in Seq(S)
           /\ \A i \in DOMAIN seqs : \A j \in DOMAIN seqs[i] :
                 \E k \in DOMAIN FlattenSeq(seqs) : FlattenSeq(seqs)[k] = seqs[i][j]
<1>1. /\ Len(seqs) \in Nat /\ DOMAIN seqs = 1 .. Len(seqs)
      /\ \A i \in 1 .. Len(seqs) : seqs[i] \in Seq(S)
  OBVIOUS
<1>2. CASE Len(seqs) = 0
  <2>1. seqs = <<>> /\ DOMAIN seqs = {}
    BY <1>1, <1>2
  <2>2. <<>> \in Seq(S)
    OBVIOUS
  <2> QED
    BY <1>2, <2>1, <2>2 DEF FlattenSeq
<1>3. CASE Len(seqs) # 0
  <2> DEFINE n == Len(seqs)
             Holds(s, i) == \A h \in 1 .. i : \A j \in DOMAIN seqs[h] :
                               \E k \in DOMAIN s : s[k] = seqs[h][j]
  <2>1. PICK flat : Flattened(flat, seqs, n) /\ FlattenSeq(seqs) = flat[n]
    BY <1>1, <1>3, FlattenSeqSolution
  <2>2. \A i \in 1 .. n : flat[i] = IF i = 1 THEN seqs[i] ELSE flat[i - 1] \o seqs[i]
    BY <2>1, Zenon DEF Flattened
  <2> DEFINE Others == {i \in 0 .. n : i # 0 /\ ~ (flat[i] \in Seq(S) /\ Holds(flat[i], i))}
  <2> HIDE DEF Holds
  <2>3. ASSUME NEW i \in Others, \A k \in 0 .. i - 1 : k \notin Others
        PROVE  FALSE
    <3>1. i \in 1 .. n /\ ~ (flat[i] \in Seq(S) /\ Holds(flat[i], i)) /\ seqs[i] \in Seq(S)
      BY <1>1
    <3>2. CASE i = 1
      <4>1. flat[i] = seqs[i]
        BY <2>2, <3>1, <3>2, Zenon
      <4>2. Holds(seqs[i], i)
        <5>1. \A h \in 1 .. i : h = i
          BY <3>2
        <5> QED
          BY <5>1, Zenon DEF Holds
      <4> QED
        BY <3>1, <4>1, <4>2, Zenon
    <3>3. CASE i # 1
      <4>1. i - 1 \in 0 .. i - 1 /\ i - 1 \in 0 .. n /\ i - 1 # 0
        BY <1>1, <3>1, <3>3
      <4>2. flat[i - 1] \in Seq(S) /\ Holds(flat[i - 1], i - 1)
        BY <2>3, <4>1
      <4> DEFINE both == flat[i - 1] \o seqs[i]
      <4>3. /\ both \in Seq(S)
            /\ Len(both) = Len(flat[i - 1]) + Len(seqs[i])
            /\ \A k \in 1 .. Len(flat[i - 1]) + Len(seqs[i]) :
                  both[k] = IF k <= Len(flat[i - 1]) THEN flat[i - 1][k]
                            ELSE seqs[i][k - Len(flat[i - 1])]
        BY <3>1, <4>2, ConcatProperties
      <4>4. flat[i] = both
        BY <2>2, <3>1, <3>3, Zenon
      <4> HIDE DEF both
      <4> DEFINE m == Len(flat[i - 1])
                 l == Len(seqs[i])
      <4>5. /\ m \in Nat /\ DOMAIN flat[i - 1] = 1 .. m
            /\ l \in Nat /\ DOMAIN seqs[i] = 1 .. l /\ DOMAIN both = 1 .. m + l
        BY <3>1, <4>2, <4>3
      <4>6. \A k \in 1 .. m + l :
               both[k] = IF k <= m THEN flat[i - 1][k] ELSE seqs[i][k - m]
        BY <4>3
      <4> HIDE DEF m, l
      <4>7. \A k \in DOMAIN flat[i - 1] : k \in DOMAIN both /\ both[k] = flat[i - 1][k]
        <5>1. \A k \in 1 .. m : k \in 1 .. m + l /\ k <= m
          BY <4>5
        <5> QED
          BY <4>5, <4>6, <5>1, Zenon
      <4>8. \A j \in DOMAIN seqs[i] : m + j \in DOMAIN both /\ both[m + j] = seqs[i][j]
        <5> SUFFICES ASSUME NEW j \in 1 .. l
                     PROVE  m + j \in DOMAIN both /\ both[m + j] = seqs[i][j]
          BY <4>5
        <5> DEFINE k == m + j
        <5>1. k \in 1 .. m + l /\ ~ (k <= m) /\ k - m = j
          BY <4>5
        <5> HIDE DEF k
        <5>2. both[k] = seqs[i][k - m]
          BY <4>6, <5>1, Zenon
        <5>3. both[k] = seqs[i][j] /\ k \in DOMAIN both
          BY <4>5, <5>1, <5>2, Zenon
        <5> QED
          BY <5>3 DEF k
      <4>9. \A h \in 1 .. i : h = i \/ h \in 1 .. i - 1
        BY <3>1
      <4>10. Holds(both, i)
        <5> SUFFICES ASSUME NEW h \in 1 .. i, NEW j \in DOMAIN seqs[h]
                     PROVE  \E k \in DOMAIN both : both[k] = seqs[h][j]
          BY DEF Holds
        <5>1. CASE h = i
          BY <4>8, <5>1, Zenon
        <5>2. CASE h \in 1 .. i - 1
          BY <4>2, <4>7, <5>2, Zenon DEF Holds
        <5> QED
          BY <4>9, <5>1, <5>2
      <4> QED
        BY <3>1, <4>3, <4>4, <4>10, Zenon
    <3> QED
      BY <3>2, <3>3
  <2>4. Others = {}
    <3>1. Others \in SUBSET (0 .. n) /\ n \in Nat
      BY <1>1
    <3> HIDE DEF Others, n
    <3> QED
      BY <2>3, <3>1, NoLeast
  <2>5. n \in 0 .. n /\ n # 0 /\ n \notin Others
    <3> HIDE DEF Others
    <3> QED
      BY <1>1, <1>3, <2>4
  <2>6. flat[n] \in Seq(S) /\ Holds(flat[n], n)
    BY <2>5
  <2>7. FlattenSeq(seqs) \in Seq(S) /\ Holds(FlattenSeq(seqs), n)
    BY <2>1, <2>6, Zenon
  <2>8. \A h \in 1 .. n : \A j \in DOMAIN seqs[h] :
           \E k \in DOMAIN FlattenSeq(seqs) : FlattenSeq(seqs)[k] = seqs[h][j]
    BY <2>7, Zenon DEF Holds
  <2> QED
    BY <1>1, <2>7, <2>8, Zenon
<1> QED
  BY <1>2, <1>3

-----------------------------------------------------------------------------
(* Nodes.                                                                  *)

(* A sequence, as a function.                                              *)
LEMMA SequenceShape ==
    ASSUME NEW s, IsSeq(s)
    PROVE  Len(s) \in Nat /\ DOMAIN s = 1 .. Len(s)
BY DEF IsSeq

(* So is the empty one.                                                    *)
LEMMA EmptyIsSeq == IsSeq(<<>>) /\ DOMAIN <<>> = {} /\ Len(<<>>) = 0
BY DEF IsSeq

(* A node is what it is made of, and has the quirks of its kids and its    *)
(* own.                                                                    *)
LEMMA NodeFields ==
    ASSUME NEW rule, NEW kids, NEW type
    PROVE  /\ Node(rule, kids, type).rule = rule
           /\ Node(rule, kids, type).kids = kids
           /\ Node(rule, kids, type).type = type
           /\ Node(rule, kids, type).blame = Blame(rule, kids, type)
           /\ Node(rule, kids, type).returns = Returns(rule, kids)
           /\ Node(rule, kids, type).means = Meaning(rule, kids)
           /\ Node(rule, kids, type).own = Own(rule, kids)
BY DEF Node

(* A node has the quirks of its kids, and its own: without the quirk it is *)
(* no such construct.                                                      *)
LEMMA NodeQuirks ==
    ASSUME NEW rule, NEW kids, NEW type
    PROVE  /\ \A i \in DOMAIN kids : kids[i].quirks \subseteq Node(rule, kids, type).quirks
           /\ "mistake" \notin Node(rule, kids, type).quirks
                 => ~ Mistaken(Node(rule, kids, type))
           /\ Node(rule, kids, type).quirks = {}
                 => ~ Mistaken(Node(rule, kids, type)) /\ ~ Overlooked(Node(rule, kids, type))
<1> DEFINE n == Node(rule, kids, type)
           m == [rule |-> rule, kids |-> kids, type |-> type,
                 blame |-> Blame(rule, kids, type), returns |-> Returns(rule, kids)]
<1>1. /\ n.rule = rule /\ n.kids = kids /\ n.type = type
      /\ n.blame = Blame(rule, kids, type) /\ n.returns = Returns(rule, kids)
  BY NodeFields
<1>2. /\ m.rule = rule /\ m.kids = kids /\ m.type = type
      /\ m.blame = Blame(rule, kids, type) /\ m.returns = Returns(rule, kids)
  OBVIOUS
<1>3. n.quirks = Quirks(m)
  BY DEF Node
<1> HIDE DEF n, m
<1>4. Mistaken(m) <=> Mistaken(n)
  BY <1>1, <1>2 DEF Mistaken, CompoundArgument, CompoundItem, EmptyItems, IsBare, Untyped,
                    Unchecked, FunctionUse, Calls, Nested
<1>5. Overlooked(m) <=> Overlooked(n)
  BY <1>1, <1>2 DEF Overlooked, Blameless, NestedArrays
<1>6. m.kids = kids
  BY <1>2
<1>7. \A i \in DOMAIN kids : kids[i].quirks \subseteq n.quirks
  BY <1>3, <1>6 DEF Quirks
<1>8. Mistaken(m) => "mistake" \in n.quirks
  BY <1>3 DEF Quirks
<1>9. Overlooked(m) => n.quirks # {}
  BY <1>3 DEF Quirks
<1> QED
  BY <1>4, <1>5, <1>7, <1>8, <1>9 DEF n

(* What is blamed is one of the kids' or none.                             *)
LEMMA BlameOutcome ==
    ASSUME NEW rule, NEW kids, NEW type, DOMAIN kids \subseteq Nat,
           \A i \in DOMAIN kids : kids[i].blame \in Outcomes
    PROVE  Blame(rule, kids, type) \in Outcomes
<1> DEFINE f == [i \in DOMAIN kids |->
                    CASE CompareTypes(type, kids[i].type) = "yes" -> kids[i].blame
                      [] CompareTypes(type, kids[i].type) = "no" -> "ok"
                      [] OTHER -> "crash"]
<1>1. \A i \in DOMAIN f : f[i] \in Outcomes
  BY DEF Outcomes
<1>2. DOMAIN f \subseteq Nat
  OBVIOUS
<1>3. Blame(rule, kids, type) \in {"exit_3", "crash", FirstOf(f)}
  BY DEF Blame
<1> HIDE DEF f
<1>4. FirstOf(f) \in Outcomes
  BY <1>1, <1>2, FirstOfOutcomes DEF Outcomes
<1> QED
  BY <1>3, <1>4 DEF Outcomes

(* The returned values of a tree are those of what its quirks include.     *)
LEMMA ReturnsKept ==
    ASSUME NEW rule, NEW kids, NEW type, IsSeq(kids), rule # "ret_stmt",
           \A i \in DOMAIN kids : GoodReturns(kids[i])
    PROVE  GoodReturns(Node(rule, kids, type))
<1> DEFINE n == Node(rule, kids, type)
           S == UNION {{kids[i].returns[j] : j \in DOMAIN kids[i].returns} : i \in DOMAIN kids}
           seqs == [i \in DOMAIN kids |-> kids[i].returns]
<1>1. \A i \in DOMAIN kids : \A j \in DOMAIN kids[i].returns :
         kids[i].returns[j] \in S
  OBVIOUS
<1>2. \A r \in S : r = NoNode \/ GoodPart(r, n)
  <2> SUFFICES ASSUME NEW r \in S PROVE r = NoNode \/ GoodPart(r, n)
    OBVIOUS
  <2>1. PICK i \in DOMAIN kids : \E j \in DOMAIN kids[i].returns : r = kids[i].returns[j]
    OBVIOUS
  <2>2. r = NoNode \/ GoodPart(r, kids[i])
    BY <2>1 DEF GoodReturns
  <2>3. kids[i].quirks \subseteq n.quirks
    BY NodeQuirks
  <2> HIDE DEF n, S
  <2> QED
    BY <2>2, <2>3 DEF GoodPart
<1> HIDE DEF S
<1>3. \A i \in DOMAIN kids : seqs[i] \in Seq(S)
  <2> SUFFICES ASSUME NEW i \in DOMAIN kids PROVE kids[i].returns \in Seq(S)
    OBVIOUS
  <2>1. kids[i].returns \in Seq({kids[i].returns[j] : j \in DOMAIN kids[i].returns})
    BY DEF GoodReturns, IsSeq
  <2>2. \A j \in DOMAIN kids[i].returns : kids[i].returns[j] \in S
    BY <1>1
  <2> QED
    BY <2>1, <2>2
<1>4. seqs \in Seq(Seq(S))
  <2>1. Len(kids) \in Nat /\ DOMAIN kids = 1 .. Len(kids)
    BY SequenceShape
  <2>2. DOMAIN seqs = 1 .. Len(kids)
    BY <2>1
  <2>3. \A i \in 1 .. Len(kids) : seqs[i] \in Seq(S)
    BY <1>3, <2>1
  <2>4. seqs = [i \in 1 .. Len(kids) |-> seqs[i]]
    BY <2>1
  <2> HIDE DEF seqs
  <2>5. seqs \in [1 .. Len(kids) -> Seq(S)]
    BY <2>3, <2>4
  <2> QED
    BY <2>1, <2>5
<1>5. n.returns = FlattenSeq(seqs)
  <2>1. n.returns = Returns(rule, kids)
    BY NodeFields
  <2>2. Returns(rule, kids) = FlattenSeq(seqs)
    BY Zenon DEF Returns
  <2> QED
    BY <2>1, <2>2
<1> HIDE DEF n, seqs
<1>6. /\ n.returns \in Seq(S)
      /\ \A i \in DOMAIN seqs : \A j \in DOMAIN seqs[i] :
            \E k \in DOMAIN n.returns : n.returns[k] = seqs[i][j]
  BY <1>4, <1>5, FlattenSeqElements
<1>7. IsSeq(n.returns) /\ \A i \in DOMAIN n.returns : n.returns[i] \in S
  BY <1>6 DEF IsSeq
<1>8. \A v \in n.own : \E i \in DOMAIN n.returns : v = Returned(n.returns[i])
  <2> SUFFICES ASSUME NEW v \in n.own
               PROVE  \E k \in DOMAIN n.returns : v = Returned(n.returns[k])
    OBVIOUS
  <2>1. n.own = Own(rule, kids)
    BY NodeFields DEF n
  <2>2. n.own \subseteq UNION {kids[i].own : i \in DOMAIN kids}
    BY <2>1 DEF Own
  <2>3. PICK i \in DOMAIN kids : v \in kids[i].own
    BY <2>2
  <2>4. PICK j \in DOMAIN kids[i].returns : v = Returned(kids[i].returns[j])
    BY <2>3 DEF GoodReturns
  <2>5. DOMAIN seqs = DOMAIN kids /\ seqs[i] = kids[i].returns
    BY DEF seqs
  <2>6. PICK k \in DOMAIN n.returns : n.returns[k] = kids[i].returns[j]
    BY <1>6, <2>4, <2>5
  <2> QED
    BY <2>4, <2>6
<1> QED
  BY <1>2, <1>7, <1>8 DEF GoodReturns, n

(* So every node can be part of another one.                               *)
LEMMA NodeKid ==
    ASSUME NEW rule, NEW kids, NEW type, IsSeq(kids), rule # "ret_stmt",
           \A i \in DOMAIN kids : Kid(kids[i])
    PROVE  Kid(Node(rule, kids, type))
<1>1. DOMAIN kids \subseteq Nat
  BY DEF IsSeq
<1> QED
  BY <1>1, NodeFields, BlameOutcome, ReturnsKept DEF Kid

(* A node that begins with a token has no type to read there.              *)
LEMMA TokenFirst ==
    ASSUME NEW rule, NEW kids, NEW text, kids[1] = Token(text)
    PROVE  HasThird(rule, kids)
BY DEF HasThird, Token, Plain, Resolved, Nil, Base, Type

(* Tokens, and no node, can be kids.                                       *)
LEMMA TokenKid ==
    ASSUME NEW t, NEW text, t \in {Token(text), NoNode}
    PROVE  Kid(t) /\ t.means = Nil /\ t.quirks = {}
<1>1. t.blame = "crash" /\ t.returns = <<>> /\ t.means = Nil /\ t.quirks = {} /\ t.own = {}
  BY DEF Token, NoNode, Plain, Blame
<1> QED
  BY <1>1, EmptyIsSeq DEF Kid, GoodReturns, Outcomes

-----------------------------------------------------------------------------
(* Types.                                                                  *)

(* A type compares equal to itself.                                        *)
LEMMA CompareSame ==
    ASSUME NEW t, Proper(t)
    PROVE  CompareTypes(t, t) = "yes"
<1>1. t # Nil /\ t # Dangling /\ t.base # "WILDCARD" /\ t.base # "FUNC"
  BY DEF Proper, NoBases, Nil, Dangling, Base, Type
<1>2. Resolved(t) = t
  BY <1>1 DEF Resolved
<1> QED
  BY <1>1, <1>2 DEF CompareTypes, CompareArrays, Proper

(* Simple types that compare equal are the same.                           *)
LEMMA CompareSimple ==
    ASSUME NEW l, NEW r, Simple(l), Simple(r), CompareTypes(l, r) = "yes"
    PROVE  l = r
<1>1. /\ l.base \notin NoBases /\ r.base \notin NoBases
      /\ l.base = "ARRAY" => l = ArrayOf(l.size, Base(l.of[1].base))
      /\ r.base = "ARRAY" => r = ArrayOf(r.size, Base(r.of[1].base))
      /\ l.base # "ARRAY" => l = Base(l.base)
      /\ r.base # "ARRAY" => r = Base(r.base)
  BY DEF Simple, NoBases, ArrayOf, Base, Type
<1>2. Resolved(l) = l /\ Resolved(r) = r
  BY <1>1 DEF Resolved, NoBases
<1>3. CASE l.base = "ARRAY"
  <2>1. CompareArrays(l, r) = "yes"
    BY <1>1, <1>2, <1>3 DEF CompareTypes, NoBases
  <2>2. r.base = "ARRAY" /\ l.size = r.size
    BY <1>3, <2>1 DEF CompareArrays
  <2>3. l.of[1].base # "WILDCARD" /\ r.of[1].base # "WILDCARD"
    BY <1>3, <2>2 DEF Simple, NoBases, Base, ArrayOf, Type
  <2>4. l.of[1].base = r.of[1].base
    BY <1>3, <2>1, <2>2, <2>3 DEF CompareArrays
  <2> QED
    BY <1>1, <1>3, <2>2, <2>4
<1>4. CASE l.base # "ARRAY"
  <2>1. l.base = r.base
    BY <1>1, <1>2, <1>4 DEF CompareTypes, NoBases
  <2> QED
    BY <1>1, <1>4, <2>1
<1> QED
  BY <1>3, <1>4

(* A simple type compares equal to itself.                                 *)
LEMMA SimpleProper ==
    ASSUME NEW t, Simple(t)
    PROVE  Proper(t)
BY DEF Simple, Proper, NoBases, ArrayOf, Base, Type

(* CheckType, for the types that have one base.                            *)
Bases == {"BOOL", "I64", "F64"}

(* For the simple types, CheckType compares the bases.                     *)
LEMMA CheckTypeBase ==
    ASSUME NEW t, NEW c \in Bases
    PROVE  /\ t = Base(c) => CheckType(t, c)
           /\ Simple(t) /\ CheckType(t, c) => t = Base(c)
BY DEF CheckType, Resolved, Simple, Bases, NoBases, Base, ArrayOf, Type

-----------------------------------------------------------------------------
(* Leaves.                                                                 *)

(* The type of a function, as a sequence.                                  *)
LEMMA FunctionShape ==
    ASSUME NEW n \in Nat, NEW ps, ps = [i \in 1 .. n |-> ps[i]], NEW ret
    PROVE  /\ FunctionOf(ps, ret).base = "FUNC"
           /\ FunctionOf(ps, ret).of[1] = ret
           /\ FunctionOf(ps, ret).of # <<>>
           /\ Len(FunctionOf(ps, ret).of) = n + 1
           /\ Tail(FunctionOf(ps, ret).of) = ps
           /\ IsSeq(ps) /\ Len(ps) = n
           /\ \A i \in 1 .. n : FunctionOf(ps, ret).of[i + 1] = ps[i]
<1> DEFINE of == <<ret>> \o ps
           S == {ps[i] : i \in 1 .. n}
<1>1. ps \in Seq(S) /\ <<ret>> \in Seq({ret}) /\ Len(ps) = n /\ IsSeq(ps)
  <2>1. \A i \in 1 .. n : ps[i] \in S
    OBVIOUS
  <2> HIDE DEF S
  <2>2. ps \in [1 .. n -> S]
    BY <2>1
  <2>3. ps \in Seq(S) /\ Len(ps) = n /\ DOMAIN ps = 1 .. n
    BY <2>2
  <2> QED
    BY <2>3 DEF IsSeq, S
<1>2. /\ Len(of) = n + 1 /\ of[1] = ret /\ Tail(of) = ps /\ of # <<>>
      /\ \A i \in 1 .. n : of[i + 1] = ps[i]
  BY <1>1, SMTT(30)
<1>3. FunctionOf(ps, ret).base = "FUNC" /\ FunctionOf(ps, ret).of = of
  BY DEF FunctionOf, Type
<1> HIDE DEF of
<1> QED
  BY <1>1, <1>2, <1>3

(* A leaf is what it is made of.                                           *)
LEMMA LeafFields ==
    ASSUME NEW t, NEW rule, NEW type, NEW means, t = Leaf(rule, type, means)
    PROVE  /\ t.rule = rule /\ t.type = type /\ t.means = means
           /\ t.kids = <<>> /\ t.blame \in {"exit_3", "crash"} /\ t.returns = <<>> /\ t.own = {}
           /\ t.quirks = IF means = type THEN {} ELSE {"mistake"}
BY DEF Leaf, Plain, Blame

(* A leaf that is no function is of its type, unless it was misread.       *)
LEMMA PlainLeaf ==
    ASSUME NEW t, NEW b \in Tokens,
           t \in {Literal(b), Variable(b), Parameter(b), ArrayVariable(t.type.size, b)}
    PROVE  /\ t.rule \in {"literal", "variable", "parameter"}
           /\ t.kids = <<>> /\ t.blame \in {"exit_3", "crash"} /\ t.returns = <<>> /\ t.own = {}
           /\ Simple(t.means) /\ t.means # Ill
           /\ t.type.base \notin {"FUNC", "nil"}
           /\ t.type.of # <<>> => t.type.of[1].base \notin {"FUNC", "nil"}
           /\ t.quirks = IF t.means = t.type THEN {} ELSE {"mistake"}
<1>1. FromToken(b) \in {Base(b), Base("ARRAY")}
  BY DEF FromToken
<1>2. /\ t.means \in {Base(b), ArrayOf(t.type.size, Base(b))}
      /\ t.type \in {Base(b), FromToken(b), ArrayOf(t.type.size, FromToken(b)),
                     ArrayOf(t.type.size, Base(b))}
      /\ t.rule \in {"literal", "variable", "parameter"}
      /\ t.kids = <<>> /\ t.blame \in {"exit_3", "crash"} /\ t.returns = <<>> /\ t.own = {}
      /\ t.quirks = IF t.means = t.type THEN {} ELSE {"mistake"}
  <2>1. CASE t = Literal(b)
    BY <2>1, LeafFields DEF Literal
  <2>2. CASE t = Variable(b)
    BY <2>2, LeafFields DEF Variable
  <2>3. CASE t = Parameter(b)
    BY <2>3, LeafFields DEF Parameter
  <2>4. CASE t = ArrayVariable(t.type.size, b)
    BY <2>4, LeafFields DEF ArrayVariable
  <2> QED
    BY <2>1, <2>2, <2>3, <2>4
<1>3. Simple(t.means) /\ t.means # Ill
  BY <1>2 DEF Simple, Tokens, NoBases, Base, ArrayOf, Type, Ill
<1>4. t.type.base \notin {"FUNC", "nil"} /\ (t.type.of # <<>> => t.type.of[1].base \notin {"FUNC", "nil"})
  BY <1>1, <1>2 DEF Tokens, Base, ArrayOf, Type
<1> QED
  BY <1>2, <1>3, <1>4

(* A function's name: of the types a declaration can give it.              *)
Result(t) == t \in {Base(b) : b \in Tokens \union {"NULL"}}

(* A function's name has a result and parameters of the types that a       *)
(* declaration can give them; the same words may be misread.               *)
LEMMA FunctionLeaf ==
    ASSUME NEW t, IsCallable(t)
    PROVE  /\ t.rule \in Functions
           /\ t.kids = <<>> /\ t.blame \in {"exit_3", "crash"} /\ t.returns = <<>> /\ t.own = {}
           /\ t.means # Ill /\ t.means.base = "FUNC" /\ t.type.base = "FUNC"
           /\ t.type.of # <<>> /\ t.type.of[1].base \notin {"FUNC", "nil"}
           /\ t.quirks = IF t.means = t.type THEN {} ELSE {"mistake"}
           /\ Result(t.means.of[1])
           /\ Len(t.means.of) \in Nat
           /\ IsSeq(Tail(t.type.of)) 
           /\ IsSeq(Tail(t.means.of)) /\ Len(Tail(t.means.of)) = Len(t.means.of) - 1
           /\ \A i \in DOMAIN Tail(t.means.of) :
                 /\ Tail(t.means.of)[i] = t.means.of[i + 1]
                 /\ t.means.of[i + 1] \in {Base(b) : b \in Tokens \union {"WILDCARD"}}
<1>1. PICK n \in Nat, ret \in Tokens \union {"NULL"} :
         LET params == [i \in 1 .. n |-> t.means.of[i + 1].base]
         IN  /\ \A i \in 1 .. n : params[i] \in Tokens \union {"WILDCARD"}
             /\ t = Callable(t.rule, params, ret)
  BY DEF IsCallable
<1> DEFINE params == [i \in 1 .. n |-> t.means.of[i + 1].base]
           types == [i \in 1 .. n |-> FromToken(params[i])]
           meant == [i \in 1 .. n |-> Base(params[i])]
<1>2. /\ \A i \in 1 .. n : params[i] \in Tokens \union {"WILDCARD"}
      /\ t = Callable(t.rule, params, ret)
      /\ DOMAIN params = 1 .. n
  BY <1>1
<1> HIDE DEF params
<1>3. /\ t.type = FunctionOf(types, FromToken(ret)) /\ t.means = FunctionOf(meant, Base(ret))
      /\ t.kids = <<>> /\ t.blame \in {"exit_3", "crash"} /\ t.returns = <<>> /\ t.own = {}
      /\ t.quirks = IF t.means = t.type THEN {} ELSE {"mistake"}
  <2> HIDE DEF types, meant
  <2>1. t = Leaf(t.rule, FunctionOf(types, FromToken(ret)), FunctionOf(meant, Base(ret)))
    BY <1>2, Zenon DEF Callable, types, meant
  <2> QED
    BY <2>1, LeafFields
<1>4. /\ types = [i \in 1 .. n |-> types[i]] /\ meant = [i \in 1 .. n |-> meant[i]]
      /\ \A i \in 1 .. n : meant[i] \in {Base(b) : b \in Tokens \union {"WILDCARD"}}
  BY <1>2
<1> HIDE DEF types, meant
<1>5. /\ t.type.base = "FUNC" /\ t.type.of[1] = FromToken(ret) /\ t.type.of # <<>>
      /\ Tail(t.type.of) = types /\ IsSeq(types)
  BY <1>3, <1>4, FunctionShape
<1>6. /\ t.means.base = "FUNC" /\ t.means.of[1] = Base(ret)
      /\ Len(t.means.of) = n + 1 /\ Tail(t.means.of) = meant /\ Len(meant) = n
      /\ IsSeq(meant)
      /\ \A i \in 1 .. n : t.means.of[i + 1] = meant[i]
  <2> DEFINE F == FunctionOf(meant, Base(ret))
  <2>1. /\ F.base = "FUNC" /\ F.of[1] = Base(ret)
        /\ Len(F.of) = n + 1 /\ Tail(F.of) = meant /\ Len(meant) = n
        /\ IsSeq(meant)
        /\ \A i \in 1 .. n : F.of[i + 1] = meant[i]
    BY <1>4, FunctionShape
  <2> HIDE DEF F
  <2>2. t.means = F
    BY <1>3 DEF F
  <2> QED
    BY <2>1, <2>2, Zenon
<1>7. DOMAIN meant = 1 .. n
  BY <1>4
<1>8. t.type.of[1].base \notin {"FUNC", "nil"}
  BY <1>5 DEF FromToken, Base, Type, Tokens
<1>9. t.means # Ill /\ Result(t.means.of[1])
  BY <1>6 DEF Ill, Base, Type, Result
<1>10. IsSeq(Tail(t.type.of)) /\ IsSeq(Tail(t.means.of))
  BY <1>5, <1>6, Zenon
<1>11. Len(Tail(t.means.of)) = Len(meant) /\ DOMAIN Tail(t.means.of) = DOMAIN meant
  BY <1>6, Zenon
<1>12. Len(t.means.of) \in Nat /\ Len(meant) = Len(t.means.of) - 1
  BY <1>6
<1>13. \A i \in 1 .. n : Tail(t.means.of)[i] = t.means.of[i + 1]
  BY <1>6, Zenon
<1>14. t.rule \in Functions
  BY DEF IsCallable
<1>15. \A i \in DOMAIN Tail(t.means.of) :
          /\ Tail(t.means.of)[i] = t.means.of[i + 1]
          /\ t.means.of[i + 1] \in {Base(b) : b \in Tokens \union {"WILDCARD"}}
  BY <1>4, <1>6, <1>7, <1>11, <1>13, Zenon
<1>16. Len(Tail(t.means.of)) = Len(t.means.of) - 1
  BY <1>11, <1>12, Zenon
<1> QED
  BY <1>3, <1>5, <1>6, <1>8, <1>9, <1>10, <1>12, <1>14, <1>15, <1>16, Zenon

(* Every leaf of a program is a tree that keeps the invariant.             *)
LEMMA LeafGood ==
    ASSUME NEW t, IsLeaf(t)
    PROVE  /\ GoodTree(t) /\ Kid(t)
           /\ t.rule \in Idents \union {"literal"}
           /\ t.means # Ill
           /\ Resolved(t.type).base \notin {"FUNC", "nil"}
           /\ t.type.of # <<>> => t.type.of[1].base \notin {"FUNC", "nil"}
           /\ t.rule \notin Functions
                 => t.type.base # "nil" /\ t.type.base # "FUNC" /\ Simple(t.means)
           /\ t.rule \in Functions => IsCallable(t)
           /\ "mistake" \notin t.quirks => t.type = t.means
<1>1. CASE IsCallable(t)
  <2>1. GoodReturns(t) /\ t.blame \in Outcomes
    BY <1>1, FunctionLeaf, EmptyIsSeq DEF GoodReturns, Outcomes
  <2>2. GoodTree(t)
    BY <1>1, <2>1, FunctionLeaf, EmptyIsSeq
       DEF GoodTree, Kid, GoodExpression, HasThird, Functions, Idents, Expressions
  <2> QED
    BY <1>1, <2>1, <2>2, FunctionLeaf DEF Kid, Resolved, Idents
<1>2. CASE ~ IsCallable(t)
  <2>1. PICK b \in Tokens : t \in {Literal(b), Variable(b), Parameter(b),
                                    ArrayVariable(t.type.size, b)}
    BY <1>2 DEF IsLeaf
  <2>2. GoodReturns(t) /\ t.blame \in Outcomes
    BY <2>1, PlainLeaf, EmptyIsSeq DEF GoodReturns, Outcomes
  <2>3. t.rule \notin Functions /\ t.rule \in Idents \union {"literal"}
    BY <2>1, PlainLeaf DEF Functions, Idents
  <2>4. /\ Simple(t.means) /\ Proper(t.means) /\ t.means # Ill
        /\ "mistake" \notin t.quirks => t.means = t.type
        /\ t.type.base \notin {"FUNC", "nil"} /\ (t.type.of # <<>> => t.type.of[1].base \notin {"FUNC", "nil"})
        /\ t.kids = <<>>
    BY <2>1, PlainLeaf, SimpleProper
  <2>5. WellTyped(t)
    BY <2>1, <2>4, PlainLeaf DEF WellTyped
  <2>6. GoodExpression(t)
    BY <2>2, <2>3, <2>4, <2>5 DEF GoodExpression, Idents, Expressions
  <2>7. t.rule \notin {"items", "inputs"} /\ DOMAIN t.kids = {}
    BY <2>3, <2>4 DEF Idents, Functions
  <2>8. GoodTree(t)
    BY <2>2, <2>3, <2>4, <2>6, <2>7, EmptyIsSeq DEF GoodTree, Kid, HasThird, Idents, Functions
  <2> QED
    BY <2>2, <2>3, <2>4, <2>8 DEF Kid, Resolved
<1> QED
  BY <1>1, <1>2

-----------------------------------------------------------------------------
(* What a rule has to keep.                                                *)
Present(n) ==
    /\ n.rule \in {"exp", "ter", "update_stm", "array_index"} => n.kids[1].type # Nil
    /\ n.rule = "array_index" => n.kids[1].type.of # <<>>

End(n, outcome) ==
    /\ outcome \in Outcomes
    /\ outcome = "ok" => GoodTree(n) /\ Present(n)
    /\ outcome # "ok" => n.type = Nil
    /\ outcome # "ok" /\ "mistake" \notin n.quirks => n.means = Ill

(* What an expression node has to show.                                    *)
LEMMA ExpressionEnd ==
    ASSUME NEW rule \in Expressions \ Idents, NEW kids, IsSeq(kids),
           \A i \in DOMAIN kids : Kid(kids[i]),
           NEW outcome \in Outcomes, NEW type, NEW n,
           n = Node(rule, kids, IF outcome = "ok" THEN type ELSE Nil),
           HasThird(rule, kids), rule = "array_index" /\ outcome = "ok" => type # Nil,
           outcome = "ok" => type.base # "FUNC" /\ Present(n),
           outcome = "ok" /\ "mistake" \notin n.quirks
              => n.means = Ill \/ (n.means = type /\ Proper(type)),
           outcome = "ok" /\ n.quirks = {} => n.means # Ill /\ Simple(type),
           outcome # "ok" /\ "mistake" \notin n.quirks => n.means = Ill
    PROVE  End(n, outcome)
<1>1. CASE outcome = "ok"
  <2>1. n = Node(rule, kids, type)
    BY <1>1
  <2>2. n.rule = rule /\ n.kids = kids /\ n.type = type
    BY <2>1, NodeFields
  <2>3. n.quirks = {} => n.blame # "ok"
    BY <2>1, <2>2, NodeQuirks DEF Overlooked, Blameless
  <2>4. Kid(n)
    <3>1. rule # "ret_stmt"
      BY DEF Expressions
    <3> QED
      BY <2>1, <3>1, NodeKid
  <2>5. WellTyped(n)
    BY <1>1, <2>2, <2>3 DEF WellTyped
  <2>6. GoodExpression(n)
    BY <1>1, <2>2, <2>4, <2>5 DEF GoodExpression, Kid
  <2>7. n.rule \notin {"items", "inputs"}
    BY <2>2 DEF Expressions, Idents, Functions
  <2>8. GoodTree(n)
    BY <1>1, <2>2, <2>4, <2>6, <2>7 DEF GoodTree
  <2> QED
    BY <1>1, <2>8 DEF End
<1>2. CASE outcome # "ok"
  <2>1. n = Node(rule, kids, Nil)
    BY <1>2
  <2> QED
    BY <1>2, <2>1, NodeFields DEF End
<1> QED
  BY <1>1, <1>2

(* And what any other.                                                     *)
LEMMA StatementEnd ==
    ASSUME NEW rule, rule \notin Expressions \union {"items", "inputs"},
           NEW kids, NEW outcome \in Outcomes, NEW n,
           n = Node(rule, kids, Nil), Kid(n),
           IsSeq(kids), \A i \in DOMAIN kids : Kid(kids[i]),
           outcome = "ok" => Present(n),
           outcome = "ok" /\ n.quirks = {} => n.means # Ill,
           outcome # "ok" /\ "mistake" \notin n.quirks => n.means = Ill
    PROVE  End(n, outcome)
<1>1. n.rule = rule /\ n.kids = kids /\ n.type = Nil
  BY NodeFields
<1>2. n.type.base # "FUNC"
  BY <1>1 DEF Nil, Base, Type
<1>3. outcome = "ok" => GoodTree(n)
  BY <1>1, <1>2 DEF GoodTree, Expressions
<1> QED
  BY <1>1, <1>3 DEF End

(* An expression is a part of the node it is a kid of.                     *)
LEMMA UsedPart ==
    ASSUME NEW rule, NEW kids, NEW type, NEW n, n = Node(rule, kids, type),
           NEW i \in DOMAIN kids, GoodExpression(kids[i]),
           i # 1 \/ rule \notin {"func", "macro", "function_def"}
    PROVE  GoodPart(kids[i], n)
<1>1. n.rule = rule /\ n.kids = kids
  BY NodeFields
<1>2. kids[i].rule \in Functions => FunctionUse(n)
  BY <1>1 DEF FunctionUse, Calls
<1>3. "mistake" \notin n.quirks => ~ FunctionUse(n)
  BY NodeQuirks DEF Mistaken
<1>4. kids[i].quirks \subseteq n.quirks
  BY NodeQuirks
<1> QED
  BY <1>2, <1>3, <1>4 DEF GoodPart

(* What a part is known to be.                                             *)
LEMMA PartTypes ==
    ASSUME NEW n, NEW p, GoodPart(p, n)
    PROVE  /\ p.blame \in Outcomes
           /\ "mistake" \notin n.quirks
                 => p.means = Ill \/ (p.means = p.type /\ Proper(p.type))
           /\ n.quirks = {}
                 => p.means = p.type /\ p.means # Ill /\ Simple(p.type) /\ p.blame # "ok"
<1>1. p.rule \notin Functions => WellTyped(p)
  BY DEF GoodPart, GoodExpression
<1>2. p.rule \in Functions => "mistake" \in n.quirks
  BY DEF GoodPart
<1>3. p.quirks \subseteq n.quirks /\ p.blame \in Outcomes
  BY DEF GoodPart, GoodExpression
<1> QED
  BY <1>1, <1>2, <1>3 DEF WellTyped

-----------------------------------------------------------------------------
(* The meaning of a node of one part and of two.                           *)
LEMMA MeaningOne ==
    ASSUME NEW rule, NEW kids, NEW a, Parts(rule, kids) = <<a>>
    PROVE  Meaning(rule, kids) = IF a.means = Ill THEN Ill ELSE Judged(rule, kids, <<a.means>>)
<1> DEFINE ps == Parts(rule, kids)
           ts == [i \in DOMAIN ps |-> ps[i].means]
<1>1. DOMAIN ts = {1} /\ ts[1] = a.means /\ ts = <<a.means>>
  OBVIOUS
<1>2. Meaning(rule, kids) = IF \E i \in DOMAIN ts : ts[i] = Ill THEN Ill
                            ELSE Judged(rule, kids, ts)
  BY Zenon DEF Meaning
<1> HIDE DEF ts
<1> QED
  BY <1>1, <1>2, Zenon

(* The same for two parts.                                                 *)
LEMMA MeaningTwo ==
    ASSUME NEW rule, NEW kids, NEW a, NEW b, Parts(rule, kids) = <<a, b>>
    PROVE  Meaning(rule, kids) = IF a.means = Ill \/ b.means = Ill THEN Ill
                                 ELSE Judged(rule, kids, <<a.means, b.means>>)
<1> DEFINE ps == Parts(rule, kids)
           ts == [i \in DOMAIN ps |-> ps[i].means]
<1>1. DOMAIN ts = {1, 2} /\ ts[1] = a.means /\ ts[2] = b.means /\ ts = <<a.means, b.means>>
  OBVIOUS
<1>2. Meaning(rule, kids) = IF \E i \in DOMAIN ts : ts[i] = Ill THEN Ill
                            ELSE Judged(rule, kids, ts)
  BY Zenon DEF Meaning
<1> HIDE DEF ts
<1> QED
  BY <1>1, <1>2, Zenon

-----------------------------------------------------------------------------
(* The checks of a part.                                                   *)

(* Expect finds the type that is meant, and misses no other, unless the    *)
(* part has a quirk.                                                       *)
LEMMA ExpectPart ==
    ASSUME NEW n, NEW p, GoodPart(p, n), NEW c \in Bases
    PROVE  /\ Expect(p, c) \in Outcomes
           /\ n.quirks = {} /\ Expect(p, c) = "ok" => p.means = Base(c)
           /\ "mistake" \notin n.quirks /\ Expect(p, c) # "ok" => p.means # Base(c)
<1>1. /\ p.blame \in Outcomes
      /\ "mistake" \notin n.quirks => p.means = Ill \/ (p.means = p.type /\ Proper(p.type))
      /\ n.quirks = {} => p.means = p.type /\ p.means # Ill /\ Simple(p.type) /\ p.blame # "ok"
  BY PartTypes
<1>2. /\ p.type = Base(c) => CheckType(p.type, c)
      /\ Simple(p.type) /\ CheckType(p.type, c) => p.type = Base(c)
  BY CheckTypeBase
<1>3. Expect(p, c) \in Outcomes
  BY <1>1 DEF Expect, Outcomes
<1>4. ASSUME n.quirks = {}, Expect(p, c) = "ok"
      PROVE  p.means = Base(c)
  BY <1>1, <1>2, <1>4 DEF Expect
<1>5. ASSUME "mistake" \notin n.quirks, Expect(p, c) # "ok", p.means = Base(c)
      PROVE  FALSE
  <2>1. Base(c) # Ill /\ Base(c) # Nil /\ Base(c) # Dangling
    BY DEF Base, Type, Ill, Nil, Dangling, Bases
  <2>2. p.type = Base(c)
    BY <1>1, <1>5, <2>1
  <2> QED
    BY <1>2, <1>5, <2>1, <2>2 DEF Expect
<1> QED
  BY <1>3, <1>4, <1>5

(* Match (invalid_type_error behind compare_types) finds the type that is  *)
(* meant, and misses no other.                                             *)
LEMMA MatchPart ==
    ASSUME NEW n, NEW p, GoodPart(p, n), NEW t
    PROVE  /\ Match(t, p) \in Outcomes
           /\ n.quirks = {} /\ Simple(t) /\ Match(t, p) = "ok" => p.means = t
           /\ "mistake" \notin n.quirks /\ Proper(t) /\ Match(t, p) # "ok" => p.means # t
<1>1. /\ p.blame \in Outcomes
      /\ "mistake" \notin n.quirks => p.means = Ill \/ (p.means = p.type /\ Proper(p.type))
      /\ n.quirks = {} => p.means = p.type /\ p.means # Ill /\ Simple(p.type) /\ p.blame # "ok"
  BY PartTypes
<1>2. Match(t, p) \in Outcomes
  BY <1>1 DEF Match, Outcomes
<1>3. ASSUME n.quirks = {}, Simple(t), Match(t, p) = "ok"
      PROVE  p.means = t
  <2>1. CompareTypes(t, p.type) = "yes"
    BY <1>1, <1>3 DEF Match
  <2> QED
    BY <1>1, <1>3, <2>1, CompareSimple
<1>4. ASSUME "mistake" \notin n.quirks, Proper(t), Match(t, p) # "ok", p.means = t
      PROVE  FALSE
  <2>1. t # Ill
    BY <1>4 DEF Proper, NoBases, Ill, Base, Type
  <2>2. p.type = t
    BY <1>1, <1>4, <2>1
  <2>3. CompareTypes(t, p.type) = "yes"
    BY <1>4, <2>2, CompareSame
  <2> QED
    BY <1>4, <2>3 DEF Match
<1> QED
  BY <1>2, <1>3, <1>4

(* Tuples are sequences.                                                   *)
LEMMA OneIsSeq == \A a : IsSeq(<<a>>) /\ DOMAIN <<a>> = {1}
BY DEF IsSeq

(* Two elements.                                                           *)
LEMMA TwoIsSeq == \A a, b : IsSeq(<<a, b>>) /\ DOMAIN <<a, b>> = {1, 2}
BY DEF IsSeq

(* Three elements.                                                         *)
LEMMA ThreeIsSeq == \A a, b, c : IsSeq(<<a, b, c>>) /\ DOMAIN <<a, b, c>> = {1, 2, 3}
BY DEF IsSeq

(* Four elements.                                                          *)
LEMMA FourIsSeq ==
    \A a, b, c, d : IsSeq(<<a, b, c, d>>) /\ DOMAIN <<a, b, c, d>> = {1, 2, 3, 4}
BY DEF IsSeq

(* Five elements.                                                          *)
LEMMA FiveIsSeq ==
    \A a, b, c, d, e :
       IsSeq(<<a, b, c, d, e>>) /\ DOMAIN <<a, b, c, d, e>> = {1, 2, 3, 4, 5}
BY DEF IsSeq

(* One part and two parts of a single type.                                *)
LEMMA JudgedBase ==
    ASSUME NEW t, NEW b
    PROVE  /\ AllOf(<<t>>, {b}) <=> t = Base(b)
           /\ \A u : AllOf(<<t, u>>, {b}) <=> t = Base(b) /\ u = Base(b)
           /\ \A u : Same(<<t, u>>) <=> t = u
BY DEF AllOf, Same

(* The types that have a base of their own.                                *)
LEMMA BaseFacts ==
    ASSUME NEW b \in Bases
    PROVE  /\ Simple(Base(b)) /\ Proper(Base(b)) /\ Base(b) # Ill /\ Base(b) # Nil
           /\ Base(b).base = b /\ Base(b).base # "FUNC"
BY DEF Bases, Simple, Proper, NoBases, Base, Type, Ill, Nil

-----------------------------------------------------------------------------
(* The rules, one by one: expressions of one operand, and of two.          *)

(* typecheck.c 174-182: `!` takes a BOOL.                                  *)
LEMMA NotEnd ==
    ASSUME NEW e, GoodTree(e), e.rule \in Expressions,
           NEW outcome, outcome = Expect(e, "BOOL"), NEW n,
           n = Node("bno", <<Token("bang"), e>>, IF outcome = "ok" THEN Base("BOOL") ELSE Nil)
    PROVE  End(n, outcome)
<1> DEFINE kids == <<Token("bang"), e>>
<1>1. /\ IsSeq(kids) /\ DOMAIN kids = {1, 2} /\ kids[1] = Token("bang") /\ kids[2] = e
      /\ HasThird("bno", kids)
  BY TwoIsSeq, TokenFirst
<1>2. \A i \in DOMAIN kids : Kid(kids[i])
  BY TokenKid DEF GoodTree
<1>3. Parts("bno", kids) = <<e>>
  BY DEF Parts
<1> HIDE DEF kids
<1>4. GoodPart(e, n)
  <2>1. n = Node("bno", kids, IF outcome = "ok" THEN Base("BOOL") ELSE Nil)
    BY DEF kids
  <2>2. GoodExpression(kids[2])
    BY <1>1 DEF GoodTree
  <2> QED
    BY <1>1, <2>1, <2>2, UsedPart
<1>5. n.means = IF e.means = Base("BOOL") THEN Base("BOOL") ELSE Ill
  <2>1. n.means = Meaning("bno", kids)
    BY NodeFields DEF kids
  <2>2. Meaning("bno", kids) = IF e.means = Ill THEN Ill ELSE Judged("bno", kids, <<e.means>>)
    BY <1>3, MeaningOne
  <2>3. Judged("bno", kids, <<e.means>>) = IF e.means = Base("BOOL") THEN Base("BOOL") ELSE Ill
    BY JudgedBase DEF Judged
  <2>4. Base("BOOL") # Ill
    BY BaseFacts DEF Bases
  <2> QED
    BY <2>1, <2>2, <2>3, <2>4
<1>6. /\ outcome \in Outcomes
      /\ n.quirks = {} /\ outcome = "ok" => e.means = Base("BOOL")
      /\ "mistake" \notin n.quirks /\ outcome # "ok" => e.means # Base("BOOL")
  BY <1>4, ExpectPart DEF Bases
<1>7. n.rule = "bno"
  BY NodeFields
<1>8. Present(n)
  BY <1>7 DEF Present
<1>9. Simple(Base("BOOL")) /\ Proper(Base("BOOL")) /\ Base("BOOL") # Ill /\ Base("BOOL").base # "FUNC"
  BY BaseFacts DEF Bases
<1>10. "bno" \in Expressions \ Idents
  BY DEF Expressions, Idents, Functions
<1>11. n = Node("bno", kids, IF outcome = "ok" THEN Base("BOOL") ELSE Nil)
  BY DEF kids
<1> QED
  BY <1>1, <1>2, <1>5, <1>6, <1>8, <1>9, <1>10, <1>11, ExpressionEnd

(* A node of two operands and a token between them.                        *)
Operations == {"bor", "ban", "beq", "exp", "ter", "for_expr", "assign_stm", "update_stm"}
Operation(n, kids, rule, a, op, b, type) ==
    /\ rule \in Operations
    /\ GoodTree(a) /\ a.rule \in Expressions /\ GoodTree(b) /\ b.rule \in Expressions
    /\ kids = <<a, Token(op), b>> /\ n = Node(rule, kids, type)

(* Its operands are parts of it.                                           *)
LEMMA TwoOperands ==
    ASSUME NEW n, NEW kids, NEW rule, NEW a, NEW op, NEW b, NEW type,
           Operation(n, kids, rule, a, op, b, type)
    PROVE  /\ IsSeq(kids) /\ (\A i \in DOMAIN kids : Kid(kids[i])) /\ Kid(n)
           /\ GoodPart(a, n) /\ GoodPart(b, n)
           /\ n.rule = rule /\ n.kids = kids /\ kids[1] = a /\ kids[3] = b
           /\ kids[2].rule = op /\ HasThird(rule, kids)
<1> USE DEF Operation
<1>1. /\ IsSeq(kids) /\ DOMAIN kids = {1, 2, 3}
      /\ kids[1] = a /\ kids[2] = Token(op) /\ kids[3] = b
  BY ThreeIsSeq
<1>2. kids[2].rule = op
  BY <1>1 DEF Token, Plain
<1>3. Kid(kids[1]) /\ Kid(kids[2]) /\ Kid(kids[3])
  BY <1>1, TokenKid DEF GoodTree
<1>4. n.rule = rule /\ n.kids = kids
  BY NodeFields
<1>5. rule \notin {"func", "macro", "function_def", "ret_stmt"}
  BY DEF Operations
<1>6. GoodExpression(kids[1]) /\ GoodExpression(kids[3])
  BY <1>1 DEF GoodTree
<1>7. GoodPart(kids[1], n) /\ GoodPart(kids[3], n)
  BY <1>1, <1>5, <1>6, UsedPart
<1>8. Kid(n)
  BY <1>1, <1>3, <1>5, NodeKid
<1>9. HasThird(rule, kids)
  BY <1>1 DEF HasThird
<1> QED
  BY <1>9, <1>1, <1>2, <1>3, <1>4, <1>7, <1>8

(* Its meaning is that of its operands.                                    *)
LEMMA OperandsMeaning ==
    ASSUME NEW n, NEW kids, NEW rule, NEW a, NEW op, NEW b, NEW type,
           Operation(n, kids, rule, a, op, b, type)
    PROVE  n.means = IF a.means = Ill \/ b.means = Ill THEN Ill
                     ELSE Judged(rule, kids, <<a.means, b.means>>)
<1>1. n.means = Meaning(rule, kids)
  BY NodeFields DEF Operation
<1>2. Parts(rule, kids) = <<a, b>>
  BY DEF Parts, Operation, Operations
<1>3. Meaning(rule, kids) = IF a.means = Ill \/ b.means = Ill THEN Ill
                            ELSE Judged(rule, kids, <<a.means, b.means>>)
  BY <1>2, MeaningTwo
<1> QED
  BY <1>1, <1>3

(* typecheck.c 156-164: `||` and `&&` take two BOOLs.                      *)
LEMMA LogicalEnd ==
    ASSUME NEW n, NEW kids, NEW rule \in {"bor", "ban"}, NEW a, NEW op, NEW b, NEW outcome,
           outcome = Then(Expect(a, "BOOL"), Expect(b, "BOOL")),
           Operation(n, kids, rule, a, op, b, IF outcome = "ok" THEN Base("BOOL") ELSE Nil)
    PROVE  End(n, outcome)
<1>1. /\ rule \in Expressions \ Idents
      /\ n = Node(rule, kids, IF outcome = "ok" THEN Base("BOOL") ELSE Nil)
  BY DEF Operation, Expressions, Idents, Functions
<1>2. /\ IsSeq(kids) /\ \A i \in DOMAIN kids : Kid(kids[i])
      /\ GoodPart(a, n) /\ GoodPart(b, n) /\ n.rule = rule
      /\ HasThird(rule, kids)
  BY TwoOperands
<1>3. n.means = IF a.means = Ill \/ b.means = Ill THEN Ill
                ELSE Judged(rule, kids, <<a.means, b.means>>)
  BY OperandsMeaning
<1>4. Judged(rule, kids, <<a.means, b.means>>)
         = IF a.means = Base("BOOL") /\ b.means = Base("BOOL") THEN Base("BOOL") ELSE Ill
  BY JudgedBase DEF Judged
<1>5. \A p \in {a, b} :
         /\ Expect(p, "BOOL") \in Outcomes
         /\ n.quirks = {} /\ Expect(p, "BOOL") = "ok" => p.means = Base("BOOL")
         /\ "mistake" \notin n.quirks /\ Expect(p, "BOOL") # "ok" => p.means # Base("BOOL")
  BY <1>2, ExpectPart DEF Bases
<1>6. Simple(Base("BOOL")) /\ Proper(Base("BOOL")) /\ Base("BOOL") # Ill /\ Base("BOOL").base # "FUNC"
  BY BaseFacts DEF Bases
<1>7. outcome \in Outcomes /\ Present(n)
  BY <1>2, <1>5 DEF Then, Present
<1>8. outcome = "ok" <=> Expect(a, "BOOL") = "ok" /\ Expect(b, "BOOL") = "ok"
  BY ThenOutcome
<1>9. n.means = IF a.means = Base("BOOL") /\ b.means = Base("BOOL") THEN Base("BOOL") ELSE Ill
  BY <1>3, <1>4, <1>6
<1>10. /\ outcome = "ok" /\ n.quirks = {} => n.means # Ill
       /\ outcome # "ok" /\ "mistake" \notin n.quirks => n.means = Ill
  BY <1>5, <1>6, <1>8, <1>9
<1> QED
  BY <1>1, <1>2, <1>6, <1>7, <1>9, <1>10, ExpressionEnd

(* A comparison takes two operands of one type.                            *)
LEMMA ComparisonEnd ==
    ASSUME NEW n, NEW kids, NEW a, NEW op, NEW b, NEW outcome, outcome = Match(a.type, b),
           Operation(n, kids, "beq", a, op, b, IF outcome = "ok" THEN Base("BOOL") ELSE Nil)
    PROVE  End(n, outcome)
<1>1. /\ "beq" \in Expressions \ Idents
      /\ n = Node("beq", kids, IF outcome = "ok" THEN Base("BOOL") ELSE Nil)
  BY DEF Operation, Expressions, Idents, Functions
<1>2. /\ IsSeq(kids) /\ \A i \in DOMAIN kids : Kid(kids[i])
      /\ GoodPart(a, n) /\ GoodPart(b, n) /\ n.rule = "beq"
      /\ HasThird("beq", kids)
  BY TwoOperands
<1>3. n.means = IF a.means = Ill \/ b.means = Ill THEN Ill
                ELSE Judged("beq", kids, <<a.means, b.means>>)
  BY OperandsMeaning
<1>4. Judged("beq", kids, <<a.means, b.means>>)
         = IF a.means = b.means THEN Base("BOOL") ELSE Ill
  <2>1. Same(<<a.means, b.means>>) <=> a.means = b.means
    BY DEF Same
  <2> QED
    BY <2>1, Zenon DEF Judged
<1>5. /\ Match(a.type, b) \in Outcomes
      /\ n.quirks = {} /\ Simple(a.type) /\ Match(a.type, b) = "ok" => b.means = a.type
      /\ "mistake" \notin n.quirks /\ Proper(a.type) /\ Match(a.type, b) # "ok"
            => b.means # a.type
  BY <1>2, MatchPart
<1>6. /\ "mistake" \notin n.quirks => a.means = Ill \/ (a.means = a.type /\ Proper(a.type))
      /\ n.quirks = {} => a.means = a.type /\ a.means # Ill /\ Simple(a.type)
  BY <1>2, PartTypes
<1>7. Simple(Base("BOOL")) /\ Proper(Base("BOOL")) /\ Base("BOOL") # Ill /\ Base("BOOL").base # "FUNC"
  BY BaseFacts DEF Bases
<1>8. outcome \in Outcomes /\ Present(n)
  BY <1>2, <1>5 DEF Present
<1> QED
  BY <1>1, <1>2, <1>3, <1>4, <1>5, <1>6, <1>7, <1>8, ExpressionEnd

(* AllOf, for two numbers.                                                 *)
LEMMA Numbers ==
    ASSUME NEW t, NEW u
    PROVE  /\ AllOf(<<t, u>>, {"I64", "F64"})
                 <=> t = u /\ t \in {Base("I64"), Base("F64")}
           /\ \A c \in {"I64", "F64"} : t \in {Base("I64"), Base("F64")} /\ t.base = c => t = Base(c)
BY DEF AllOf, Same, Base, Type

(* The left operand decides which number the right one has to be.          *)
LEMMA ArithmeticEnd ==
    ASSUME NEW n, NEW kids, NEW rule \in {"exp", "ter"}, NEW a, NEW b, NEW outcome,
           NEW type, NEW t, t = IF outcome = "ok" THEN type ELSE Nil,
           Operation(n, kids, rule, a, "plus", b, t),
           \/ a.type = Nil /\ outcome = "crash" /\ type = Nil
           \/ a.type # Nil /\ Numeric(a) = {} /\ outcome = a.blame /\ type = Nil
           \/ /\ a.type # Nil
              /\ \E c \in Numeric(a) : outcome = Expect(b, c) /\ type = Base(c)
    PROVE  End(n, outcome)
<1>1. /\ rule \in Expressions \ Idents
      /\ n = Node(rule, kids, IF outcome = "ok" THEN type ELSE Nil)
  BY DEF Operation, Expressions, Idents, Functions
<1>2. /\ IsSeq(kids) /\ \A i \in DOMAIN kids : Kid(kids[i])
      /\ GoodPart(a, n) /\ GoodPart(b, n) /\ n.rule = rule /\ n.kids = kids
      /\ kids[1] = a /\ kids[2].rule = "plus" /\ HasThird(rule, kids)
  BY TwoOperands
<1>3. n.means = IF a.means = Ill \/ b.means = Ill THEN Ill
                ELSE Judged(rule, kids, <<a.means, b.means>>)
  BY OperandsMeaning
<1>4. Judged(rule, kids, <<a.means, b.means>>)
         = IF AllOf(<<a.means, b.means>>, {"I64", "F64"}) THEN a.means ELSE Ill
  BY <1>2 DEF Judged
<1>5. n.means = IF /\ a.means # Ill /\ b.means # Ill
                   /\ a.means = b.means /\ a.means \in {Base("I64"), Base("F64")}
                THEN a.means ELSE Ill
  BY <1>3, <1>4, Numbers
<1>6. /\ a.blame \in Outcomes
      /\ "mistake" \notin n.quirks => a.means = Ill \/ (a.means = a.type /\ Proper(a.type))
      /\ n.quirks = {} => a.means = a.type /\ a.means # Ill /\ Simple(a.type) /\ a.blame # "ok"
  BY <1>2, PartTypes
<1>7. "I64" \in Bases /\ "F64" \in Bases
  BY DEF Bases
<1>8. CASE a.type = Nil /\ outcome = "crash" /\ type = Nil
  <2>1. outcome \in Outcomes /\ outcome # "ok"
    BY <1>8 DEF Outcomes
  <2>2. ~ Proper(Nil)
    BY DEF Proper, NoBases, Nil, Base, Type
  <2>3. "mistake" \notin n.quirks => n.means = Ill
    BY <1>5, <1>6, <1>8, <2>2
  <2> QED
    BY <1>1, <1>2, <2>1, <2>3, ExpressionEnd
<1>9. CASE a.type # Nil /\ Numeric(a) = {} /\ outcome = a.blame /\ type = Nil
  <2>1. a.type \notin {Base("I64"), Base("F64")}
    BY <1>7, <1>9, CheckTypeBase DEF Numeric
  <2>2. "mistake" \notin n.quirks => n.means = Ill
    BY <1>5, <1>6, <2>1
  <2>3. n.quirks = {} => outcome # "ok"
    BY <1>6, <1>9
  <2>4. outcome \in Outcomes /\ Present(n) /\ type.base # "FUNC"
    BY <1>2, <1>6, <1>9 DEF Present, Nil, Base, Type
  <2> QED
    BY <1>1, <1>2, <2>2, <2>3, <2>4, ExpressionEnd
<1>10. CASE a.type # Nil /\ \E c \in Numeric(a) : outcome = Expect(b, c) /\ type = Base(c)
  <2>1. PICK c \in {"I64", "F64"} :
           CheckType(a.type, c) /\ outcome = Expect(b, c) /\ type = Base(c)
    BY <1>10 DEF Numeric
  <2>2. /\ outcome \in Outcomes
        /\ n.quirks = {} /\ outcome = "ok" => b.means = Base(c)
        /\ "mistake" \notin n.quirks /\ outcome # "ok" => b.means # Base(c)
    BY <1>2, <1>7, <2>1, ExpectPart
  <2>3. Proper(a.type) => a.type.base = c
    BY <2>1 DEF CheckType, Resolved, Proper, NoBases
  <2>4. "mistake" \notin n.quirks /\ n.means # Ill => n.means = Base(c) /\ b.means = Base(c)
    BY <1>5, <1>6, <2>3, Numbers
  <2>5. Simple(Base(c)) /\ Proper(Base(c)) /\ Base(c) # Ill /\ Base(c).base # "FUNC"
    BY <1>7, BaseFacts
  <2>6. n.quirks = {} /\ outcome = "ok" => n.means # Ill
    <3> SUFFICES ASSUME n.quirks = {}, outcome = "ok" PROVE n.means # Ill
      OBVIOUS
    <3>1. Simple(a.type) /\ a.means = a.type /\ b.means = Base(c)
      BY <1>6, <2>2
    <3>2. a.means = Base(c)
      BY <1>7, <2>1, <3>1, CheckTypeBase
    <3> QED
      BY <1>5, <2>5, <3>1, <3>2
  <2>7. Present(n)
    BY <1>2, <1>10 DEF Present
  <2>8. outcome = "ok" /\ "mistake" \notin n.quirks
           => n.means = Ill \/ (n.means = type /\ Proper(type))
    BY <2>1, <2>4, <2>5
  <2>9. outcome # "ok" /\ "mistake" \notin n.quirks => n.means = Ill
    BY <2>2, <2>4
  <2> QED
    BY <1>1, <1>2, <2>1, <2>2, <2>5, <2>6, <2>7, <2>8, <2>9, ExpressionEnd
<1> QED
  BY <1>8, <1>9, <1>10

(* What has a mistake only has to end in a known way.                      *)
LEMMA MistakeEnd ==
    ASSUME NEW rule \in Expressions \ Idents, NEW kids, IsSeq(kids),
           \A i \in DOMAIN kids : Kid(kids[i]),
           NEW outcome \in Outcomes, NEW type, NEW n,
           n = Node(rule, kids, IF outcome = "ok" THEN type ELSE Nil),
           HasThird(rule, kids), rule = "array_index" /\ outcome = "ok" => type # Nil,
           outcome = "ok" => type.base # "FUNC" /\ Present(n),
           Mistaken(n)
    PROVE  End(n, outcome)
<1>1. "mistake" \in n.quirks
  BY NodeQuirks
<1> QED
  BY <1>1, ExpressionEnd

(* `%` leaves no type, which makes it a mistake whatever its operands are. *)
LEMMA ModuloEnd ==
    ASSUME NEW n, NEW kids, NEW a, NEW b, NEW outcome,
           outcome = Then(Expect(a, "I64"), Expect(b, "I64")),
           Operation(n, kids, "ter", a, "percent", b, Nil)
    PROVE  End(n, outcome)
<1>1. "ter" \in Expressions \ Idents /\ n = Node("ter", kids, IF outcome = "ok" THEN Nil ELSE Nil)
  BY DEF Operation, Expressions, Idents, Functions
<1>2. /\ IsSeq(kids) /\ \A i \in DOMAIN kids : Kid(kids[i])
      /\ GoodPart(a, n) /\ GoodPart(b, n) /\ n.rule = "ter" /\ n.kids = kids
      /\ kids[1] = a /\ kids[2].rule = "percent" /\ HasThird("ter", kids)
  BY TwoOperands
<1>3. Mistaken(n)
  BY <1>2 DEF Mistaken, Untyped
<1>4. Expect(a, "I64") \in Outcomes /\ Expect(b, "I64") \in Outcomes
  BY <1>2, ExpectPart DEF Bases
<1>5. outcome \in Outcomes /\ (outcome = "ok" => Expect(a, "I64") = "ok")
  BY <1>4 DEF Then
<1>6. outcome = "ok" => a.type # Nil
  BY <1>5 DEF Expect
<1>7. outcome = "ok" => Present(n)
  BY <1>2, <1>6 DEF Present
<1>8. Nil.base # "FUNC"
  BY DEF Nil, Base, Type
<1> QED
  BY <1>1, <1>2, <1>3, <1>5, <1>7, <1>8, MistakeEnd

(* A resolved type is no function's.                                       *)
LEMMA ResolvedBase ==
    ASSUME NEW e, GoodExpression(e)
    PROVE  /\ Resolved(e.type).base # "FUNC"
           /\ Proper(e.type) \/ Simple(e.type) => Resolved(e.type) = e.type
<1>1. e.type.base = "FUNC" => IsLeaf(e)
  BY DEF GoodExpression, Idents
<1>2. Resolved(e.type).base # "FUNC"
  BY <1>1, LeafGood DEF Resolved
<1>3. Proper(e.type) \/ Simple(e.type) => e.type.base # "FUNC"
  BY SimpleProper DEF Proper, NoBases
<1> QED
  BY <1>2, <1>3 DEF Resolved

(* Parentheses pass on what they enclose.                                  *)
LEMMA ParenthesesEnd ==
    ASSUME NEW e, GoodTree(e), e.rule \in Expressions,
           NEW kids, kids = <<Token("lpar"), e, Token("rpar")>>,
           NEW outcome, outcome = IF e.type = Nil THEN "crash" ELSE "ok", NEW n,
           n = Node("fac", kids, IF outcome = "ok" THEN Resolved(e.type) ELSE Nil)
    PROVE  End(n, outcome)
<1>1. /\ IsSeq(kids) /\ DOMAIN kids = {1, 2, 3} /\ kids[2] = e
      /\ kids[1] = Token("lpar") /\ kids[3] = Token("rpar") /\ HasThird("fac", kids)
  BY ThreeIsSeq, TokenFirst
<1>2. \A i \in DOMAIN kids : Kid(kids[i])
  BY <1>1, TokenKid DEF GoodTree
<1>3. Parts("fac", kids) = <<e>> /\ kids[1].rule = "lpar"
  BY <1>1 DEF Parts, Token, Plain
<1>4. GoodExpression(kids[2])
  BY <1>1 DEF GoodTree
<1>5. GoodPart(e, n) /\ n.rule = "fac"
  BY <1>1, <1>4, UsedPart, NodeFields
<1>6. n.means = e.means
  <2>1. n.means = Meaning("fac", kids)
    BY NodeFields
  <2>2. Meaning("fac", kids) = IF e.means = Ill THEN Ill ELSE Judged("fac", kids, <<e.means>>)
    BY <1>3, MeaningOne
  <2>3. Judged("fac", kids, <<e.means>>) = e.means
    BY <1>3 DEF Judged
  <2> QED
    BY <2>1, <2>2, <2>3
<1>7. /\ "mistake" \notin n.quirks => e.means = Ill \/ (e.means = e.type /\ Proper(e.type))
      /\ n.quirks = {} => e.means = e.type /\ e.means # Ill /\ Simple(e.type)
  BY <1>5, PartTypes
<1>8. /\ Resolved(e.type).base # "FUNC"
      /\ Proper(e.type) \/ Simple(e.type) => Resolved(e.type) = e.type
  BY <1>1, <1>4, ResolvedBase
<1>9. ~ Proper(Nil)
  BY DEF Proper, NoBases, Nil, Base, Type
<1>10. outcome \in Outcomes /\ Present(n)
  BY <1>5 DEF Outcomes, Present
<1>11. "fac" \in Expressions \ Idents
  BY DEF Expressions, Idents, Functions
<1>12. outcome # "ok" /\ "mistake" \notin n.quirks => n.means = Ill
  BY <1>6, <1>7, <1>9
<1>13. outcome = "ok" /\ "mistake" \notin n.quirks
          => n.means = Ill \/ (n.means = Resolved(e.type) /\ Proper(Resolved(e.type)))
  BY <1>6, <1>7, <1>8
<1>14. n.quirks = {} => n.means # Ill /\ Simple(Resolved(e.type))
  BY <1>6, <1>7, <1>8
<1> QED
  BY <1>1, <1>2, <1>8, <1>10, <1>11, <1>12, <1>13, <1>14, ExpressionEnd

(* Unary minus leaves no type either.                                      *)
LEMMA NegationEnd ==
    ASSUME NEW e, GoodTree(e), e.rule \in Expressions,
           NEW kids, kids = <<Token("minus"), e>>,
           NEW outcome, outcome \in {"crash", "ok", e.blame}, NEW n,
           n = Node("fac", kids, IF outcome = "ok" THEN Nil ELSE Nil)
    PROVE  End(n, outcome)
<1>1. /\ IsSeq(kids) /\ DOMAIN kids = {1, 2} /\ kids[2] = e /\ kids[1] = Token("minus")
      /\ HasThird("fac", kids)
  BY TwoIsSeq, TokenFirst
<1>2. \A i \in DOMAIN kids : Kid(kids[i])
  BY <1>1, TokenKid DEF GoodTree
<1>3. n.rule = "fac" /\ n.kids = kids
  BY NodeFields
<1>4. Mistaken(n)
  <2>1. kids[1].rule = "minus"
    BY <1>1 DEF Token, Plain
  <2> QED
    BY <1>3, <2>1 DEF Mistaken, Untyped
<1>5. outcome \in Outcomes /\ Present(n) /\ Nil.base # "FUNC"
  BY <1>3 DEF GoodTree, Kid, Outcomes, Present, Nil, Base, Type
<1>6. "fac" \in Expressions \ Idents
  BY DEF Expressions, Idents, Functions
<1> QED
  BY <1>1, <1>2, <1>4, <1>5, <1>6, MistakeEnd

(* An indexed name is an array, whose element type is there to be read.    *)
LEMMA ArrayIndexEnd ==
    ASSUME NEW a, GoodTree(a), a.rule \in Idents,
           NEW x, GoodTree(x), x.rule \in Expressions,
           NEW kids, kids = <<a, Token("lbracket"), x, Token("rbracket")>>,
           NEW outcome, outcome = IndexOutcome(a, x), NEW n,
           n = Node("array_index", kids,
                    IF outcome = "ok" THEN Resolved(a.type.of[1]) ELSE Nil)
    PROVE  End(n, outcome)
<1>1. /\ IsSeq(kids) /\ DOMAIN kids = {1, 2, 3, 4} /\ kids[1] = a /\ kids[3] = x
      /\ kids[2] = Token("lbracket") /\ kids[4] = Token("rbracket")
      /\ HasThird("array_index", kids)
  BY FourIsSeq DEF HasThird
<1>2. \A i \in DOMAIN kids : Kid(kids[i])
  BY <1>1, TokenKid DEF GoodTree
<1>3. Parts("array_index", kids) = <<a, x>>
  BY <1>1 DEF Parts
<1>4. GoodExpression(kids[1]) /\ GoodExpression(kids[3]) /\ IsLeaf(a)
  BY <1>1 DEF GoodTree, GoodExpression, Idents, Expressions
<1>5. GoodPart(a, n) /\ GoodPart(x, n) /\ n.rule = "array_index" /\ n.kids = kids
  BY <1>1, <1>4, UsedPart, NodeFields
<1>6. n.means = IF a.means # Ill /\ x.means # Ill /\ a.means.base = "ARRAY" /\ x.means = Base("I64")
                THEN a.means.of[1] ELSE Ill
  <2>1. n.means = Meaning("array_index", kids)
    BY NodeFields
  <2>2. Meaning("array_index", kids)
           = IF a.means = Ill \/ x.means = Ill THEN Ill
             ELSE Judged("array_index", kids, <<a.means, x.means>>)
    BY <1>3, MeaningTwo
  <2>3. Judged("array_index", kids, <<a.means, x.means>>)
           = IF a.means.base = "ARRAY" /\ x.means = Base("I64") THEN a.means.of[1] ELSE Ill
    BY DEF Judged
  <2> QED
    BY <2>1, <2>2, <2>3
<1>7. /\ "mistake" \notin n.quirks => x.means = Ill \/ (x.means = x.type /\ Proper(x.type))
      /\ n.quirks = {} => x.means = x.type /\ x.means # Ill /\ Simple(x.type)
  BY <1>5, PartTypes
<1>8. /\ a.means # Ill /\ a.type # Nil /\ (a.type.of # <<>> => a.type.of[1].base \notin {"FUNC", "nil"})
      /\ "mistake" \notin n.quirks => a.type = a.means /\ Simple(a.type)
  <2>1. /\ a.means # Ill /\ (a.type.of # <<>> => a.type.of[1].base \notin {"FUNC", "nil"})
        /\ Resolved(a.type).base # "nil"
        /\ "mistake" \notin a.quirks => a.type = a.means
        /\ a.rule \notin Functions => Simple(a.means)
    BY <1>4, LeafGood
  <2>2. a.rule \in Functions => "mistake" \in n.quirks
    BY <1>5 DEF GoodPart
  <2>3. "mistake" \notin n.quirks => "mistake" \notin a.quirks
    BY <1>5 DEF GoodPart
  <2>4. a.type # Nil
    BY <2>1 DEF Resolved, Nil, Base, Type
  <2> QED
    BY <2>1, <2>2, <2>3, <2>4
<1>9. ASSUME Simple(a.type), CheckType(a.type, "ARRAY")
      PROVE  /\ a.type.base = "ARRAY" /\ a.type.of # <<>> /\ Simple(a.type.of[1])
             /\ a.type.of[1] # Ill /\ Resolved(a.type.of[1]) = a.type.of[1]
  BY <1>9 DEF Simple, CheckType, Resolved, NoBases, ArrayOf, Base, Type, Ill
<1>10. Simple(a.type) /\ a.type.base = "ARRAY" => CheckType(a.type, "ARRAY")
  BY DEF CheckType, Resolved
<1>11. /\ x.type = Base("I64") => CheckType(x.type, "I64")
       /\ Simple(x.type) /\ CheckType(x.type, "I64") => x.type = Base("I64")
       /\ ~ Proper(Nil)
  BY CheckTypeBase DEF Bases, Proper, NoBases, Nil, Base, Type
<1>12. outcome \in Outcomes
  BY DEF IndexOutcome, Outcomes
<1>13. outcome = "ok"
          <=> /\ CheckType(a.type, "ARRAY") /\ x.type # Nil /\ CheckType(x.type, "I64")
              /\ a.type.of # <<>>
  BY DEF IndexOutcome
<1>14. outcome = "ok" => /\ Present(n) /\ Resolved(a.type.of[1]).base # "FUNC"
                         /\ Resolved(a.type.of[1]) # Nil
  <2>1. outcome = "ok" => Resolved(a.type.of[1]) = a.type.of[1]
    BY <1>8, <1>13 DEF Resolved
  <2>2. Nil.base = "nil"
    BY DEF Nil, Base, Type
  <2> QED
    BY <1>1, <1>5, <1>8, <1>13, <2>1, <2>2 DEF Present
<1>15. outcome = "ok" /\ "mistake" \notin n.quirks
          => n.means = Ill \/ (n.means = Resolved(a.type.of[1]) /\ Proper(Resolved(a.type.of[1])))
  BY <1>6, <1>8, <1>9, <1>13, SimpleProper
<1>16. outcome = "ok" /\ n.quirks = {} => n.means # Ill /\ Simple(Resolved(a.type.of[1]))
  <2> SUFFICES ASSUME outcome = "ok", n.quirks = {}
               PROVE  n.means # Ill /\ Simple(Resolved(a.type.of[1]))
    OBVIOUS
  <2>1. a.type = a.means /\ Simple(a.type) /\ CheckType(a.type, "ARRAY")
    BY <1>8, <1>13
  <2>2. x.means = Base("I64") /\ x.means # Ill
    BY <1>7, <1>11, <1>13
  <2> QED
    BY <1>6, <1>8, <1>9, <2>1, <2>2
<1>17. outcome # "ok" /\ "mistake" \notin n.quirks => n.means = Ill
  <2> SUFFICES ASSUME outcome # "ok", "mistake" \notin n.quirks, n.means # Ill
               PROVE  FALSE
    OBVIOUS
  <2>1. a.type = a.means /\ Simple(a.type) /\ a.type.base = "ARRAY"
    BY <1>6, <1>8
  <2>2. x.type = Base("I64") /\ Proper(x.type)
    BY <1>6, <1>7
  <2> QED
    BY <1>9, <1>10, <1>11, <1>13, <2>1, <2>2
<1>18. "array_index" \in Expressions \ Idents
  BY DEF Expressions, Idents, Functions
<1> QED
  BY <1>1, <1>2, <1>12, <1>14, <1>15, <1>16, <1>17, <1>18, ExpressionEnd

-----------------------------------------------------------------------------
(* Lists.                                                                  *)

(* The meaning of a node, with its parts and their meanings given.         *)
LEMMA MeaningParts ==
    ASSUME NEW rule, NEW kids, NEW ps, ps = Parts(rule, kids),
           NEW ts, ts = [i \in DOMAIN ps |-> ps[i].means]
    PROVE  Meaning(rule, kids) = IF \E i \in DOMAIN ps : ps[i].means = Ill THEN Ill
                                 ELSE Judged(rule, kids, ts)
<1>1. DOMAIN ts = DOMAIN ps /\ \A i \in DOMAIN ps : ts[i] = ps[i].means
  OBVIOUS
<1>2. Meaning(rule, kids) = IF \E i \in DOMAIN ts : ts[i] = Ill THEN Ill
                            ELSE Judged(rule, kids, ts)
  BY Zenon DEF Meaning
<1> QED
  BY <1>1, <1>2, Zenon

(* An element appended comes behind those that are there.                  *)
LEMMA AppendIsSeq ==
    ASSUME NEW s, IsSeq(s), NEW x
    PROVE  /\ IsSeq(Append(s, x)) /\ Len(Append(s, x)) = Len(s) + 1
           /\ \A i \in DOMAIN Append(s, x) : Append(s, x)[i] = x \/ i \in DOMAIN s
           /\ \A i \in DOMAIN s : i \in DOMAIN Append(s, x) /\ Append(s, x)[i] = s[i]
           /\ Append(s, x)[Len(s) + 1] = x /\ Len(s) + 1 \in DOMAIN Append(s, x)
<1> DEFINE S == {s[i] : i \in DOMAIN s} \union {x}
           a == Append(s, x)
<1>1. s \in Seq(S) /\ x \in S
  <2>1. s \in Seq({s[i] : i \in DOMAIN s})
    BY DEF IsSeq
  <2> QED
    BY <2>1
<1>2. Len(s) \in Nat /\ DOMAIN s = 1 .. Len(s)
  BY SequenceShape
<1> HIDE DEF S
<1>3. /\ a \in Seq(S) /\ Len(a) = Len(s) + 1 /\ DOMAIN a = 1 .. Len(s) + 1
      /\ \A i \in 1 .. Len(s) : a[i] = s[i]
      /\ a[Len(s) + 1] = x
  BY <1>1, <1>2
<1> HIDE DEF a
<1>4. IsSeq(a)
  BY <1>3 DEF IsSeq
<1>5. /\ \A i \in DOMAIN a : a[i] = x \/ i \in DOMAIN s
      /\ \A i \in DOMAIN s : i \in DOMAIN a /\ a[i] = s[i]
      /\ Len(s) + 1 \in DOMAIN a
  BY <1>2, <1>3
<1> QED
  BY <1>3, <1>4, <1>5 DEF a

(* The members of a list are expressions that are parts of it.             *)
LEMMA MembersGood ==
    ASSUME NEW t, GoodTree(t), NEW rule \in {"items", "inputs"},
           t.rule = rule \/ t.rule \in Expressions
    PROVE  /\ IsSeq(Members(t, rule)) /\ Len(Members(t, rule)) >= 1
           /\ \A i \in DOMAIN Members(t, rule) :
                 /\ GoodExpression(Members(t, rule)[i]) /\ Kid(Members(t, rule)[i])
                 /\ Members(t, rule)[i].quirks \subseteq t.quirks
                 /\ Members(t, rule)[i].rule \in Functions
                       => t.rule \in Functions \/ "mistake" \in t.quirks
<1>1. CASE t.rule = rule
  <2>1. Members(t, rule) = t.kids
    BY <1>1 DEF Members
  <2>2. /\ IsSeq(t.kids) /\ Len(t.kids) >= 2
        /\ \A i \in DOMAIN t.kids : GoodPart(t.kids[i], t) /\ Kid(t.kids[i])
    BY <1>1 DEF GoodTree, GoodList
  <2>3. Len(t.kids) \in Nat
    BY <2>2, SequenceShape
  <2> QED
    BY <2>1, <2>2, <2>3 DEF GoodPart
<1>2. CASE t.rule \in Expressions
  <2>1. t.rule # rule /\ t.rule # "none"
    BY <1>2 DEF Expressions, Idents, Functions
  <2>2. Members(t, rule) = <<t>>
    BY <2>1 DEF Members
  <2>3. IsSeq(<<t>>) /\ DOMAIN <<t>> = {1} /\ Len(<<t>>) = 1 /\ <<t>>[1] = t
    BY OneIsSeq
  <2>4. GoodExpression(t) /\ Kid(t)
    BY <1>2 DEF GoodTree
  <2> QED
    BY <2>2, <2>3, <2>4
<1> QED
  BY <1>1, <1>2

(* A list with one more member.                                            *)
LEMMA ListEnd ==
    ASSUME NEW rule \in {"items", "inputs"}, NEW a, GoodTree(a),
           a.rule = rule \/ a.rule \in Expressions,
           NEW b, GoodTree(b), b.rule \in Expressions,
           NEW kids, kids = Append(Members(a, rule), b), NEW n, n = Node(rule, kids, Nil)
    PROVE  End(n, "ok")
<1> DEFINE ms == Members(a, rule)
<1>1. /\ IsSeq(ms) /\ Len(ms) >= 1
      /\ \A i \in DOMAIN ms : GoodExpression(ms[i]) /\ Kid(ms[i])
  BY MembersGood
<1>2. GoodExpression(b) /\ Kid(b)
  BY DEF GoodTree
<1> HIDE DEF ms
<1>3. /\ IsSeq(kids) /\ Len(kids) = Len(ms) + 1
      /\ \A i \in DOMAIN kids : kids[i] = b \/ (i \in DOMAIN ms /\ kids[i] = ms[i])
  BY <1>1, AppendIsSeq DEF ms
<1>4. Len(ms) \in Nat
  BY <1>1, SequenceShape
<1>5. \A i \in DOMAIN kids : GoodExpression(kids[i]) /\ Kid(kids[i])
  BY <1>1, <1>2, <1>3
<1>6. n.rule = rule /\ n.kids = kids /\ n.type = Nil /\ n.means = Meaning(rule, kids)
  <2>1. n = Node(rule, kids, Nil)
    OBVIOUS
  <2> QED
    BY ONLY <2>1, NodeFields
<1>7. \A i \in DOMAIN kids : GoodPart(kids[i], n)
  BY <1>5, UsedPart
<1>8. GoodList(n)
  BY <1>1, <1>3, <1>4, <1>5, <1>6, <1>7 DEF GoodList
<1>9. Kid(n)
  BY <1>3, <1>5, NodeKid
<1>10. ASSUME n.quirks = {}
       PROVE  n.means # Ill
  <2>1. \A i \in DOMAIN kids : kids[i].means # Ill
    BY <1>7, <1>10, PartTypes
  <2> DEFINE ts == [i \in DOMAIN kids |-> kids[i].means]
  <2>2. Parts(rule, kids) = kids
    BY DEF Parts
  <2>3. Meaning(rule, kids) = IF \E i \in DOMAIN kids : kids[i].means = Ill THEN Ill
                              ELSE Judged(rule, kids, ts)
    BY <2>2, MeaningParts
  <2>4. Judged(rule, kids, ts) = Stm
    BY DEF Judged
  <2>5. Stm # Ill
    BY DEF Stm, Ill, Base, Type
  <2> QED
    BY <1>6, <2>1, <2>3, <2>4, <2>5
<1>11. n.rule \notin Expressions /\ n.type.base # "FUNC"
  BY <1>6 DEF Expressions, Idents, Functions, Nil, Base, Type
<1>12. GoodTree(n)
  BY <1>3, <1>5, <1>6, <1>8, <1>9, <1>10, <1>11 DEF GoodTree
<1> QED
  BY <1>6, <1>12 DEF End, Present, Outcomes

-----------------------------------------------------------------------------
(* Arrays.                                                                 *)

(* The kids of an array literal.                                           *)
LEMMA ArrayKids ==
    ASSUME NEW list, Kid(list), NEW kids,
           kids = <<Token("lbracket"), list, Token("rbracket")>>
    PROVE  /\ IsSeq(kids) /\ (\A i \in DOMAIN kids : Kid(kids[i]))
           /\ HasThird("array", kids)
           /\ 2 \in DOMAIN kids /\ kids[2] = list /\ "array" \in Expressions \ Idents
<1>1. /\ IsSeq(kids) /\ DOMAIN kids = {1, 2, 3}
      /\ kids[1] = Token("lbracket") /\ kids[2] = list /\ kids[3] = Token("rbracket")
  BY ThreeIsSeq
<1> QED
  BY <1>1, TokenKid, TokenFirst DEF Expressions, Idents, Functions

(* `[]` is a mistake: the checker crashes.                                 *)
LEMMA EmptyArrayEnd ==
    ASSUME NEW n, NEW kids, kids = <<Token("lbracket"), NoNode, Token("rbracket")>>,
           NEW outcome, outcome = Items(NoNode),
           n = Node("array", kids, IF outcome = "ok" THEN Nil ELSE Nil)
    PROVE  End(n, outcome)
<1>1. /\ IsSeq(kids) /\ (\A i \in DOMAIN kids : Kid(kids[i]))
      /\ HasThird("array", kids) /\ kids[2] = NoNode /\ "array" \in Expressions \ Idents
  BY TokenKid, ArrayKids
<1>2. n.rule = "array" /\ n.kids = kids
  BY NodeFields
<1>3. NoNode.rule = "none"
  BY DEF NoNode, Plain
<1>4. Mistaken(n)
  BY <1>1, <1>2, <1>3 DEF Mistaken, EmptyItems
<1>5. outcome \in Outcomes /\ Present(n) /\ Nil.base # "FUNC"
  BY <1>2, <1>3 DEF Items, Outcomes, Present, Nil, Base, Type
<1> QED
  BY <1>1, <1>4, <1>5, MistakeEnd

(* The items of an array that is no mistake are its members.               *)
LEMMA ItemsOfMembers ==
    ASSUME NEW list, GoodTree(list), NEW ms, ms = Members(list, "items"),
           \/ list.rule = "items"
           \/ list.rule \in Expressions /\ list.kids = <<>>
    PROVE  /\ Element(list) = Resolved(ms[1].type)
           /\ ItemCount(list) = Len(ms)
           /\ Items(list) = IF Element(list) = Nil THEN "crash"
                            ELSE FirstOf([i \in 2 .. Len(ms) |-> Match(Element(list), ms[i])])
<1>1. CASE list.rule = "items"
  <2>1. ms = list.kids /\ IsSeq(list.kids) /\ Len(list.kids) >= 2
    BY <1>1 DEF Members, GoodTree, GoodList
  <2>2. list.kids # <<>>
    BY <2>1, EmptyIsSeq
  <2> QED
    BY <1>1, <2>1, <2>2 DEF Element, ItemCount, Items
<1>2. CASE list.rule \in Expressions /\ list.kids = <<>>
  <2>1. list.rule # "items" /\ list.rule # "none"
    BY <1>2 DEF Expressions, Idents, Functions
  <2>2. ms = <<list>> /\ ms[1] = list /\ Len(ms) = 1
    BY <2>1 DEF Members
  <2> DEFINE f == [i \in 2 .. Len(ms) |-> Match(Element(list), ms[i])]
  <2>3. DOMAIN f = {} /\ DOMAIN f \subseteq Nat
    <3>1. 2 .. Len(ms) = {}
      BY <2>2
    <3>2. DOMAIN f = 2 .. Len(ms)
      BY Zenon
    <3> QED
      BY <3>1, <3>2, Zenon
  <2> HIDE DEF f
  <2>4. FirstOf(f) = "ok"
    BY <2>3, FirstOfOutcomes
  <2>5. Items(list) = IF Element(list) = Nil THEN "crash" ELSE "ok"
    BY <1>2, <2>1 DEF Items
  <2>6. Element(list) = Resolved(ms[1].type) /\ ItemCount(list) = Len(ms)
    BY <1>2, <2>2 DEF Element, ItemCount
  <2> QED
    BY <2>4, <2>5, <2>6 DEF f
<1> QED
  BY <1>1, <1>2

(* typecheck.c 379-415: the items of an array against the first one.       *)
LEMMA ArrayEnd ==
    ASSUME NEW list, GoodTree(list),
           list.rule = "items" \/ (list.rule \in Expressions),
           NEW kids, kids = <<Token("lbracket"), list, Token("rbracket")>>,
           NEW outcome, outcome \in IF IsBare(list) THEN Outcomes ELSE {Items(list)}, NEW n,
           n = Node("array", kids,
                    IF outcome = "ok" THEN ArrayOf(ItemCount(list), Element(list)) ELSE Nil)
    PROVE  End(n, outcome)
<1> DEFINE ms == Members(list, "items")
           type == ArrayOf(ItemCount(list), Element(list))
<1>1. Kid(list)
  BY DEF GoodTree
<1>2. /\ IsSeq(kids) /\ (\A i \in DOMAIN kids : Kid(kids[i]))
      /\ HasThird("array", kids)
      /\ 2 \in DOMAIN kids /\ kids[2] = list /\ "array" \in Expressions \ Idents
  BY <1>1, ArrayKids
<1>3. /\ type.base = "ARRAY" /\ type.base # "FUNC"
      /\ type.of # <<>> /\ type.of[1] = Element(list)
  BY DEF ArrayOf, Type
<1>4. n = Node("array", kids, IF outcome = "ok" THEN type ELSE Nil)
  BY Zenon
<1> HIDE DEF ms, type
<1>5. /\ n.rule = "array" /\ n.kids = kids /\ n.means = Meaning("array", kids)
      /\ outcome = "ok" => n.type = type
  BY ONLY <1>4, NodeFields
<1>6. Present(n)
  BY <1>5 DEF Present
<1>7. CASE list.rule # "items" /\ list.kids # <<>>
  <2>1. CompoundItem(n)
    BY <1>2, <1>5, <1>7 DEF CompoundItem
  <2>2. Mistaken(n)
    BY <2>1 DEF Mistaken
  <2>3. outcome \in Outcomes
    <3>1. CASE IsBare(list)
      BY <3>1
    <3>2. CASE ~ IsBare(list)
      <4>1. outcome = Items(list)
        BY <3>2
      <4>2. HasThird(list.rule, list.kids)
        BY <1>7 DEF GoodTree
      <4>3. Element(list) # Nil => 3 \in DOMAIN list.kids
        BY <1>7, <3>2, <4>2 DEF HasThird, Element, IsBare
      <4>4. 3 \in DOMAIN list.kids => list.kids[3].blame \in Outcomes
        BY DEF GoodTree, Kid
      <4>5. Items(list) \in {"crash", "ok", list.kids[3].blame}
        BY <1>7 DEF Items, Match
      <4>6. Element(list) = Nil => Items(list) = "crash"
        BY DEF Items
      <4> QED
        BY <4>1, <4>3, <4>4, <4>5, <4>6 DEF Outcomes
    <3> QED
      BY <3>1, <3>2
  <2> QED
    BY <1>2, <1>3, <1>6, <1>4, <2>2, <2>3, MistakeEnd
<1>8. CASE list.rule = "items" \/ list.kids = <<>>
  <2>1. /\ IsSeq(ms) /\ Len(ms) >= 1
        /\ \A i \in DOMAIN ms : /\ GoodExpression(ms[i])
                                /\ ms[i].quirks \subseteq list.quirks
                                /\ ms[i].rule \in Functions
                                      => list.rule \in Functions \/ "mistake" \in list.quirks
    BY MembersGood DEF ms
  <2>2. Len(ms) \in Nat /\ DOMAIN ms = 1 .. Len(ms) /\ 1 \in DOMAIN ms
    BY <2>1, SequenceShape
  <2>3. list.quirks \subseteq n.quirks /\ (list.rule \in Functions => "mistake" \in n.quirks)
    <3>1. list.quirks \subseteq n.quirks
      BY <1>2, <1>4, NodeQuirks
    <3>2. list.rule \in Functions => FunctionUse(n)
      BY <1>2, <1>5 DEF FunctionUse, Calls
    <3> QED
      BY <1>4, <3>1, <3>2, NodeQuirks DEF Mistaken
  <2>4. \A i \in DOMAIN ms : GoodPart(ms[i], n)
    BY <2>1, <2>3 DEF GoodPart
  <2>5. ~ IsBare(list)
    <3>1. Len(<<>>) = 0
      BY EmptyIsSeq
    <3> QED
      BY <1>8, <3>1 DEF IsBare
  <2>6. /\ Element(list) = Resolved(ms[1].type) /\ ItemCount(list) = Len(ms)
        /\ Items(list) = IF Element(list) = Nil THEN "crash"
                         ELSE FirstOf([i \in 2 .. Len(ms) |-> Match(Element(list), ms[i])])
    BY <1>8, ItemsOfMembers DEF ms
  <2> DEFINE f == [i \in 2 .. Len(ms) |-> Match(Element(list), ms[i])]
  <2>7. DOMAIN f = 2 .. Len(ms) /\ DOMAIN f \subseteq Nat /\ DOMAIN f \subseteq DOMAIN ms
    BY <2>2
  <2>8. \A i \in DOMAIN f : f[i] = Match(Element(list), ms[i]) /\ f[i] \in Outcomes
    BY <2>4, <2>7, MatchPart
  <2> HIDE DEF f
  <2>9. /\ FirstOf(f) = "ok" <=> \A i \in DOMAIN f : f[i] = "ok"
        /\ FirstOf(f) \in Outcomes
    BY <2>7, <2>8, FirstOfOutcomes DEF Outcomes
  <2>10. outcome = IF Element(list) = Nil THEN "crash" ELSE FirstOf(f)
    BY <2>5, <2>6 DEF f
  <2>11. outcome \in Outcomes
    BY <2>9, <2>10 DEF Outcomes
  <2> DEFINE ts == [i \in DOMAIN ms |-> ms[i].means]
             Typed == /\ \A i \in DOMAIN ms : ms[i].means # Ill
                      /\ \A i \in DOMAIN ms : ms[i].means = ms[1].means
  <2>12. n.means = IF Typed THEN ArrayOf(Len(ms), ms[1].means) ELSE Ill
    <3>1. Parts("array", kids) = ms
      BY <1>2 DEF Parts, ms
    <3>2. Meaning("array", kids) = IF \E i \in DOMAIN ms : ms[i].means = Ill THEN Ill
                                   ELSE Judged("array", kids, ts)
      BY <3>1, MeaningParts
    <3>3. /\ DOMAIN ts = DOMAIN ms /\ Len(ts) = Len(ms) /\ ts # <<>>
          /\ \A i \in DOMAIN ms : ts[i] = ms[i].means
      BY <2>2
    <3> HIDE DEF ts
    <3>4. Same(ts) <=> \A i \in DOMAIN ms : ms[i].means = ms[1].means
      BY <2>2, <3>3 DEF Same
    <3>5. Judged("array", kids, ts) = IF Same(ts) THEN ArrayOf(Len(ms), ms[1].means) ELSE Ill
      BY <2>2, <3>3, Zenon DEF Judged
    <3> QED
      BY <1>5, <3>2, <3>4, <3>5, Zenon
  <2>13. \A i \in DOMAIN ms :
            /\ "mistake" \notin n.quirks
                  => ms[i].means = Ill \/ (ms[i].means = ms[i].type /\ Proper(ms[i].type))
            /\ n.quirks = {} => ms[i].means = ms[i].type /\ ms[i].means # Ill /\ Simple(ms[i].type)
    BY <2>4, PartTypes
  <2>14. Proper(ms[1].type) \/ Simple(ms[1].type) => Resolved(ms[1].type) = ms[1].type
    BY <2>1, <2>2, ResolvedBase
  <2>15. \A i \in DOMAIN ms : i = 1 \/ i \in DOMAIN f
    BY <2>2, <2>7
  <2>16. type = ArrayOf(Len(ms), Resolved(ms[1].type)) /\ ArrayOf(Len(ms), ms[1].means) # Ill
    BY <2>6 DEF type, ArrayOf, Ill, Base, Type
  <2> HIDE DEF Typed
  <2>17. ASSUME outcome = "ok", "mistake" \notin n.quirks
         PROVE  n.means = Ill \/ (n.means = type /\ Proper(type))
    <3>1. Typed => ms[1].means = ms[1].type /\ Proper(ms[1].type)
      BY <2>2, <2>13, <2>17 DEF Typed
    <3>2. Typed => n.means = type
      BY <2>12, <2>14, <2>16, <3>1
    <3>3. Proper(type)
      BY <1>3 DEF Proper, NoBases
    <3> QED
      BY <2>12, <3>2, <3>3
  <2>18. ASSUME outcome = "ok", n.quirks = {}
         PROVE  n.means # Ill /\ Simple(type)
    <3>1. ms[1].means = ms[1].type /\ Simple(ms[1].type) /\ Resolved(ms[1].type) = ms[1].type
      BY <2>2, <2>13, <2>14, <2>18
    <3>2. \A i \in DOMAIN f : Match(ms[1].type, ms[i]) = "ok"
      BY <2>6, <2>8, <2>9, <2>10, <2>18, <3>1
    <3>3. \A i \in DOMAIN f : ms[i].means = ms[1].means
      BY <2>4, <2>7, <2>18, <3>1, <3>2, MatchPart
    <3>4. Typed
      BY <2>13, <2>15, <2>18, <3>3 DEF Typed
    <3>5. n.means # Ill
      BY <2>12, <2>16, <3>4
    <3>6. ~ NestedArrays(n)
      BY <1>4, <2>18, NodeQuirks DEF Overlooked
    <3>7. Element(list).base # "ARRAY"
      BY <1>5, <1>3, <2>18, <3>6 DEF NestedArrays
    <3>8. Simple(type)
      BY <2>6, <2>16, <3>1, <3>7 DEF Simple, ArrayOf, Base, Type, NoBases
    <3> QED
      BY <3>5, <3>8
  <2>19. ASSUME outcome # "ok", "mistake" \notin n.quirks, Typed
         PROVE  FALSE
    <3>1. ms[1].means = ms[1].type /\ Proper(ms[1].type) /\ Resolved(ms[1].type) = ms[1].type
      BY <2>2, <2>13, <2>14, <2>19 DEF Typed
    <3>2. ~ Proper(Nil)
      BY DEF Proper, NoBases, Nil, Base, Type
    <3>3. \E i \in DOMAIN f : f[i] # "ok"
      BY <2>6, <2>9, <2>10, <2>19, <3>1, <3>2
    <3>4. PICK i \in DOMAIN f : Match(ms[1].type, ms[i]) # "ok"
      BY <2>6, <2>8, <3>1, <3>3
    <3>5. i \in DOMAIN ms /\ ms[i].means # ms[1].type
      BY <2>4, <2>7, <2>19, <3>1, <3>4, MatchPart
    <3> QED
      BY <2>19, <3>1, <3>5 DEF Typed
  <2>20. outcome # "ok" /\ "mistake" \notin n.quirks => n.means = Ill
    BY <2>12, <2>19
  <2> QED
    BY <1>2, <1>3, <1>6, <1>4, <2>11, <2>17, <2>18, <2>20, ExpressionEnd
<1> QED
  BY <1>7, <1>8

-----------------------------------------------------------------------------
(* Calls.                                                                  *)

(* The callee and its arguments, as the parts of a call.                   *)
LEMMA ConsShape ==
    ASSUME NEW f, NEW ms, IsSeq(ms)
    PROVE  /\ DOMAIN (<<f>> \o ms) = 1 .. Len(ms) + 1
           /\ (<<f>> \o ms)[1] = f
           /\ \A i \in 1 .. Len(ms) : (<<f>> \o ms)[i + 1] = ms[i]
<1> DEFINE S == {ms[i] : i \in DOMAIN ms} \union {f}
           ps == <<f>> \o ms
<1>1. ms \in Seq(S) /\ <<f>> \in Seq(S) /\ Len(<<f>>) = 1 /\ <<f>>[1] = f
  <2>1. ms \in Seq({ms[i] : i \in DOMAIN ms})
    BY DEF IsSeq
  <2> QED
    BY <2>1
<1>2. Len(ms) \in Nat
  BY SequenceShape
<1> HIDE DEF S
<1>3. /\ ps \in Seq(S) /\ Len(ps) = 1 + Len(ms)
      /\ \A i \in 1 .. 1 + Len(ms) : ps[i] = IF i <= 1 THEN <<f>>[i] ELSE ms[i - 1]
  BY <1>1, <1>2, ConcatProperties
<1> HIDE DEF ps
<1>4. DOMAIN ps = 1 .. Len(ms) + 1 /\ ps[1] = f
  BY <1>1, <1>2, <1>3
<1>5. ASSUME NEW i \in 1 .. Len(ms)
      PROVE  ps[i + 1] = ms[i]
  <2> DEFINE k == i + 1
  <2>1. k \in 1 .. 1 + Len(ms) /\ ~ (k <= 1) /\ k - 1 = i
    BY <1>2
  <2> HIDE DEF k
  <2>2. ps[k] = ms[k - 1]
    BY <1>3, <2>1, Zenon
  <2>3. ps[k] = ms[i]
    BY <2>1, <2>2, Zenon
  <2> QED
    BY <2>3 DEF k
<1> QED
  BY <1>4, <1>5 DEF ps

Fits(f, ms) ==
    /\ f.means.base = "FUNC" /\ Len(ms) + 1 = Len(f.means.of)
    /\ \A i \in DOMAIN ms : Accepts(f.means.of[i + 1], ms[i].means)

(* What a call means: the result, if the arguments fit.                    *)
LEMMA CallMeaning ==
    ASSUME NEW rule \in {"func", "macro"}, NEW kids, NEW f, NEW ms, IsSeq(ms),
           Parts(rule, kids) = <<f>> \o ms
    PROVE  Meaning(rule, kids)
              = IF f.means # Ill /\ (\A i \in DOMAIN ms : ms[i].means # Ill) /\ Fits(f, ms)
                THEN f.means.of[1] ELSE Ill
<1> DEFINE ps == <<f>> \o ms
           ts == [i \in DOMAIN ps |-> ps[i].means]
<1>1. /\ DOMAIN ps = 1 .. Len(ms) + 1 /\ ps[1] = f
      /\ \A i \in 1 .. Len(ms) : ps[i + 1] = ms[i]
  BY ConsShape
<1>2. Len(ms) \in Nat /\ DOMAIN ms = 1 .. Len(ms)
  BY SequenceShape
<1>3. Parts(rule, kids) = ps
  OBVIOUS
<1> HIDE DEF ps
<1>4. Meaning(rule, kids) = IF \E i \in DOMAIN ps : ps[i].means = Ill THEN Ill
                            ELSE Judged(rule, kids, ts)
  BY <1>3, MeaningParts
<1>5. (\E i \in DOMAIN ps : ps[i].means = Ill)
         <=> f.means = Ill \/ \E i \in DOMAIN ms : ms[i].means = Ill
  <2>1. \A i \in DOMAIN ps : i = 1 \/ (i - 1 \in 1 .. Len(ms) /\ i - 1 + 1 = i)
    BY <1>1, <1>2
  <2>2. \A i \in 1 .. Len(ms) : i + 1 \in DOMAIN ps
    BY <1>1, <1>2
  <2>3. 1 \in DOMAIN ps
    BY <1>1, <1>2
  <2>4. ASSUME NEW i \in DOMAIN ps, ps[i].means = Ill, i # 1
        PROVE  \E j \in DOMAIN ms : ms[j].means = Ill
    <3> DEFINE j == i - 1
    <3>1. j \in 1 .. Len(ms) /\ j + 1 = i
      BY <2>1, <2>4
    <3> HIDE DEF j
    <3>2. ps[j + 1] = ms[j]
      BY <1>1, <3>1
    <3> QED
      BY <1>2, <2>4, <3>1, <3>2
  <2>5. ASSUME NEW j \in DOMAIN ms, ms[j].means = Ill
        PROVE  \E i \in DOMAIN ps : ps[i].means = Ill
    BY <1>1, <1>2, <2>2, <2>5
  <2> QED
    BY <1>1, <2>3, <2>4, <2>5
<1>6. /\ ts \in Seq({ts[i] : i \in DOMAIN ts}) /\ Len(ts) = Len(ms) + 1 /\ ts[1] = f.means
      /\ \A i \in 1 .. Len(ms) : ts[i + 1] = ms[i].means
  <2>1. DOMAIN ts = 1 .. Len(ms) + 1 /\ 1 \in DOMAIN ts
        /\ \A i \in 1 .. Len(ms) : i + 1 \in DOMAIN ts
    BY <1>1, <1>2
  <2> DEFINE T == {ts[i] : i \in DOMAIN ts}
             m == Len(ms) + 1
  <2>2. \A i \in 1 .. m : ts[i] \in T
    BY <2>1
  <2>3. m \in Nat /\ ts = [i \in 1 .. m |-> ts[i]]
    BY <1>2, <2>1
  <2>4. ts[1] = f.means /\ \A i \in 1 .. Len(ms) : ts[i + 1] = ms[i].means
    BY <1>1, <2>1
  <2>5. ts \in Seq(T) /\ Len(ts) = m
    <3> HIDE DEF ts, m, T
    <3>1. ts \in [1 .. m -> T]
      BY <2>2, <2>3
    <3> QED
      BY <2>3, <3>1
  <2> HIDE DEF ts
  <2> QED
    BY <2>4, <2>5
<1> HIDE DEF ts
<1>7. /\ Len(Tail(ts)) = Len(ms) /\ DOMAIN Tail(ts) = DOMAIN ms
      /\ \A i \in DOMAIN ms : Tail(ts)[i] = ms[i].means
  <2> DEFINE T == {ts[i] : i \in DOMAIN ts}
  <2>1. ts \in Seq(T) /\ ts # <<>>
    BY <1>2, <1>6
  <2> HIDE DEF T
  <2>2. /\ Tail(ts) \in Seq(T) /\ Len(Tail(ts)) = Len(ts) - 1
        /\ \A i \in 1 .. Len(Tail(ts)) : Tail(ts)[i] = ts[i + 1]
    BY <2>1, HeadTailProperties
  <2>3. Len(Tail(ts)) = Len(ms) /\ DOMAIN Tail(ts) = 1 .. Len(ms)
    BY <1>2, <1>6, <2>2
  <2> QED
    BY <1>2, <1>6, <2>2, <2>3
<1>8. CallFits(ts[1], Tail(ts)) <=> Fits(f, ms)
  BY <1>6, <1>7, Zenon DEF CallFits, Fits
<1>9. Judged(rule, kids, ts) = IF CallFits(ts[1], Tail(ts)) THEN ts[1].of[1] ELSE Ill
  BY Zenon DEF Judged
<1> QED
  BY <1>4, <1>5, <1>6, <1>8, <1>9, Zenon

(* check_params looks at the shape of the list; unless that is misleading, *)
(* it finds its members.                                                   *)
LEMMA ArgumentsFound ==
    ASSUME NEW list,
           \/ list = NoNode
           \/ GoodTree(list) /\ (list.rule = "inputs" \/ list.rule \in Expressions)
    PROVE  /\ DOMAIN Arguments(list) \subseteq Nat
           /\ ~ Compound(list, "inputs")
                 => Arguments(list) = Members(list, "inputs") /\ Count(list) = Len(Arguments(list))
<1>1. CASE list = NoNode
  <2>1. list.rule = "none" /\ list.kids = <<>>
    BY <1>1 DEF NoNode, Plain
  <2>2. Arguments(list) = <<>> /\ Members(list, "inputs") = <<>>
    BY <2>1 DEF Arguments, Members
  <2>3. Len(list.kids) = 0
    BY <2>1, EmptyIsSeq
  <2>4. ~ Pair(list)
    BY <2>3 DEF Pair, Single
  <2> QED
    BY <2>2, <2>4, EmptyIsSeq DEF Count
<1>2. CASE GoodTree(list) /\ list.rule = "inputs"
  <2>1. IsSeq(list.kids) /\ Len(list.kids) >= 2
    BY <1>2 DEF GoodTree, GoodList
  <2>2. DOMAIN list.kids \subseteq Nat /\ Len(list.kids) \in Nat
    BY <2>1, SequenceShape
  <2>3. ~ Single(list)
    BY <1>2, <2>1, <2>2 DEF Single
  <2>4. Arguments(list) = list.kids /\ ~ Pair(list) /\ Members(list, "inputs") = list.kids
    BY <1>2, <2>3 DEF Arguments, Pair, Members
  <2> QED
    BY <2>2, <2>4 DEF Count
<1>3. CASE GoodTree(list) /\ list.rule \in Expressions
  <2>1. list.rule # "inputs" /\ list.rule # "none"
    BY <1>3 DEF Expressions, Idents, Functions
  <2>2. Len(list.kids) \in Nat
    BY <1>3, SequenceShape DEF GoodTree
  <2>3. CASE Single(list)
    <3>1. Arguments(list) = <<list>> /\ Members(list, "inputs") = <<list>> /\ ~ Pair(list)
      BY <2>1, <2>3 DEF Arguments, Members, Pair
    <3>2. DOMAIN <<list>> = {1}
      OBVIOUS
    <3> QED
      BY <3>1, <3>2 DEF Count
  <2>4. CASE ~ Single(list)
    <3>1. Compound(list, "inputs")
      BY <2>1, <2>2, <2>4 DEF Single, Compound
    <3>2. Arguments(list) = IF Len(list.kids) > 2 THEN <<list.kids[1], list.kids[3]>> ELSE <<>>
      BY <2>1, <2>4 DEF Arguments, Pair
    <3>3. DOMAIN <<list.kids[1], list.kids[3]>> \subseteq Nat /\ DOMAIN <<>> \subseteq Nat
      BY TwoIsSeq, EmptyIsSeq
    <3>4. DOMAIN Arguments(list) \subseteq Nat
      BY <3>2, <3>3, Zenon
    <3> QED
      BY <3>1, <3>4
  <2> QED
    BY <2>3, <2>4
<1> QED
  BY <1>1, <1>2, <1>3

(* What check_params answers.                                              *)
LEMMA CheckParamsOutcome ==
    ASSUME NEW list, NEW params, DOMAIN Arguments(list) \subseteq Nat
    PROVE  /\ CheckParams(list, params) \in Outcomes
           /\ CheckParams(list, params) = "ok"
                 <=> /\ \A i \in DOMAIN Arguments(list) :
                           /\ ~ (i > Len(params))
                           /\ CompareTypes(Arguments(list)[i].type, params[i]) = "yes"
                     /\ ~ (Count(list) < Len(params))
<1> DEFINE args == Arguments(list)
           f == [i \in DOMAIN args |-> Argument(args, i, params)]
<1>1. DOMAIN f = DOMAIN args /\ \A i \in DOMAIN f : f[i] = Argument(args, i, params)
  OBVIOUS
<1>2. \A i : /\ Argument(args, i, params) \in Outcomes
             /\ Argument(args, i, params) = "ok"
                   <=> /\ ~ (i > Len(params))
                       /\ CompareTypes(args[i].type, params[i]) = "yes"
  <2> HIDE DEF args
  <2> QED
    BY DEF Argument, Outcomes
<1>3. CheckParams(list, params) = Then(FirstOf(f), IF Count(list) < Len(params) THEN "exit_3" ELSE "ok")
  BY Zenon DEF CheckParams, ArgumentsFit
<1> HIDE DEF args, f
<1>4. DOMAIN f \subseteq Nat
  BY <1>1 DEF args
<1>5. /\ FirstOf(f) = "ok" <=> \A i \in DOMAIN f : f[i] = "ok"
      /\ FirstOf(f) # "ok" => \E i \in DOMAIN f : f[i] = FirstOf(f)
  BY <1>4, FirstOfOutcomes
<1>6. FirstOf(f) \in Outcomes
  BY <1>1, <1>2, <1>5 DEF Outcomes
<1>7. FirstOf(f) = "ok" <=> \A i \in DOMAIN args :
                               /\ ~ (i > Len(params))
                               /\ CompareTypes(args[i].type, params[i]) = "yes"
  BY <1>1, <1>2, <1>5
<1> QED
  BY <1>3, <1>6, <1>7 DEF Then, Outcomes, args

(* The lengths of two sequences.                                           *)
LEMMA Lengths ==
    ASSUME NEW s, NEW t, Len(s) \in Nat, DOMAIN s = 1 .. Len(s),
           Len(t) \in Nat, DOMAIN t = 1 .. Len(t), NEW l, l = Len(t) + 1
    PROVE  /\ (\A i \in DOMAIN s : ~ (i > Len(t))) <=> Len(s) <= Len(t)
           /\ Len(s) + 1 = l <=> Len(s) = Len(t)
           /\ Len(s) <= Len(t) /\ ~ (Len(s) < Len(t)) => Len(s) = Len(t)
           /\ Len(s) = Len(t) => DOMAIN s = DOMAIN t
<1> DEFINE a == Len(s)
           b == Len(t)
<1>1. a \in Nat /\ b \in Nat /\ DOMAIN s = 1 .. a /\ DOMAIN t = 1 .. b
  OBVIOUS
<1> HIDE DEF a, b
<1>2. (\A i \in DOMAIN s : ~ (i > b)) <=> a <= b
  <2>1. ASSUME \A i \in DOMAIN s : ~ (i > b)
        PROVE  a <= b
    <3>1. a = 0 \/ a \in 1 .. a
      BY ONLY <1>1
    <3>2. a \in 1 .. a => ~ (a > b)
      BY <1>1, <2>1, Zenon
    <3> QED
      BY ONLY <1>1, <3>1, <3>2
  <2>2. ASSUME a <= b
        PROVE  \A i \in DOMAIN s : ~ (i > b)
    <3>1. \A i \in 1 .. a : ~ (i > b)
      BY ONLY <1>1, <2>2
    <3> QED
      BY <1>1, <3>1, Zenon
  <2> QED
    BY <2>1, <2>2, Zenon
<1>3. a \in Nat /\ b \in Nat
  BY <1>1
<1>4. (a + 1 = b + 1 <=> a = b) /\ (a <= b /\ ~ (a < b) => a = b)
  BY ONLY <1>3
<1>5. a = b => DOMAIN s = DOMAIN t
  BY <1>1, Zenon
<1> QED
  BY <1>2, <1>4, <1>5, Zenon DEF a, b

(* A call in either of its forms.                                          *)
Call(n, rule, kids, f, list, outcome) ==
    /\ rule \in {"func", "macro"} /\ GoodTree(f) /\ f.rule \in Idents
    /\ \/ list = NoNode
       \/ GoodTree(list) /\ (list.rule = "inputs" \/ list.rule \in Expressions)
    /\ IsSeq(kids) /\ 3 \in DOMAIN kids /\ \A i \in DOMAIN kids : Kid(kids[i])
    /\ kids[1] = f /\ \E i \in DOMAIN kids : i # 1 /\ kids[i] = list
    /\ Parts(rule, kids) = <<f>> \o Members(list, "inputs")
    /\ outcome = CallOutcome(f, list)
    /\ n = Node(rule, kids, IF outcome = "ok" THEN Resolved(f.type) ELSE Nil)
    /\ Compound(list, "inputs") => CompoundArgument(n)

(* typecheck.c 311-372: a call is accepted if its arguments fit, unless    *)
(* the shape of the list misleads check_params().                          *)
LEMMA CallEnd ==
    ASSUME NEW n, NEW rule, NEW kids, NEW f, NEW list, NEW outcome,
           Call(n, rule, kids, f, list, outcome)
    PROVE  End(n, outcome)
<1> DEFINE type == Resolved(f.type)
           ms == Members(list, "inputs")
           params == Params(f.type)
<1>1. /\ rule \in {"func", "macro"} /\ GoodTree(f) /\ f.rule \in Idents
      /\ \/ list = NoNode
         \/ GoodTree(list) /\ (list.rule = "inputs" \/ list.rule \in Expressions)
      /\ IsSeq(kids) /\ 3 \in DOMAIN kids /\ \A i \in DOMAIN kids : Kid(kids[i])
  BY Zenon DEF Call
<1>2. PICK place \in DOMAIN kids : place # 1 /\ kids[place] = list
  BY Zenon DEF Call
<1>3. kids[1] = f /\ outcome = CallOutcome(f, list)
  BY Zenon DEF Call
<1>4. Compound(list, "inputs") => CompoundArgument(n)
  BY Zenon DEF Call
<1>5. Parts(rule, kids) = <<f>> \o ms
  BY Zenon DEF Call
<1>6. n = Node(rule, kids, IF outcome = "ok" THEN type ELSE Nil)
  BY Zenon DEF Call
<1>7. n.rule = rule /\ n.kids = kids /\ n.means = Meaning(rule, kids)
  BY ONLY <1>6, NodeFields
<1>8. Present(n) /\ HasThird(rule, kids) /\ rule \in Expressions \ Idents
  BY <1>7, <1>1 DEF Present, HasThird, Expressions, Idents, Functions
<1>9. IsLeaf(f)
  BY <1>1 DEF GoodTree, GoodExpression, Expressions, Idents
<1>10. type.base # "FUNC"
  BY <1>9, LeafGood
<1>11. /\ DOMAIN Arguments(list) \subseteq Nat
       /\ ~ Compound(list, "inputs") => Arguments(list) = ms /\ Count(list) = Len(ms)
  BY <1>1, ArgumentsFound, Zenon
<1>12. outcome = CheckParams(list, params)
  BY <1>3 DEF CallOutcome
<1> HIDE DEF type, ms, params
<1>13. outcome \in Outcomes
  BY <1>11, <1>12, CheckParamsOutcome
<1>14. CASE Mistaken(n)
  BY <1>8, <1>10, <1>6, <1>13, <1>14, <1>1, MistakeEnd
<1>15. CASE ~ Mistaken(n)
  <2>1. ~ Compound(list, "inputs") /\ f.rule \in Functions
    <3>1. f.rule \notin Functions => FunctionUse(n)
      BY <1>7, <1>1, <1>3 DEF FunctionUse, Calls
    <3> QED
      BY <1>15, <1>4, <3>1 DEF Mistaken
  <2>2. IsCallable(f)
    BY <1>9, <2>1, LeafGood
  <2>3. list = NoNode \/ (list.quirks \subseteq n.quirks /\ list.rule \notin Functions)
    <3>1. list.quirks \subseteq n.quirks
      BY <1>6, <1>2, NodeQuirks
    <3>2. list.rule \notin Functions
      BY <1>7, <1>15, <1>2 DEF Mistaken, FunctionUse
    <3> QED
      BY <3>1, <3>2
  <2>4. IsSeq(ms) /\ \A i \in DOMAIN ms : GoodPart(ms[i], n)
    <3>1. CASE list = NoNode
      <4>1. ms = <<>>
        BY <3>1 DEF ms, Members, NoNode, Plain
      <4> QED
        BY <4>1, EmptyIsSeq
    <3>2. CASE list # NoNode
      <4>1. /\ IsSeq(ms)
            /\ \A i \in DOMAIN ms :
                  /\ GoodExpression(ms[i]) /\ ms[i].quirks \subseteq list.quirks
                  /\ ms[i].rule \in Functions => list.rule \in Functions \/ "mistake" \in list.quirks
        BY <1>1, <3>2, MembersGood DEF ms
      <4> QED
        BY <2>3, <3>2, <4>1 DEF GoodPart
    <3> QED
      BY <3>1, <3>2
  <2>5. Len(ms) \in Nat /\ DOMAIN ms = 1 .. Len(ms)
    BY <2>4, SequenceShape
  <2>6. \A i \in DOMAIN ms :
            /\ "mistake" \notin n.quirks
                  => ms[i].means = Ill \/ (ms[i].means = ms[i].type /\ Proper(ms[i].type))
            /\ n.quirks = {} => ms[i].means = ms[i].type /\ ms[i].means # Ill /\ Simple(ms[i].type)
    BY <2>4, PartTypes
  <2>7. n.means = IF f.means # Ill /\ (\A i \in DOMAIN ms : ms[i].means # Ill) /\ Fits(f, ms)
                  THEN f.means.of[1] ELSE Ill
    <3>1. Meaning(rule, kids)
             = IF f.means # Ill /\ (\A i \in DOMAIN ms : ms[i].means # Ill) /\ Fits(f, ms)
               THEN f.means.of[1] ELSE Ill
      BY <1>1, <1>5, <2>4, CallMeaning
    <3> QED
      BY <1>7, <3>1
  <2>8. /\ f.means # Ill /\ f.means.base = "FUNC" /\ f.type.base = "FUNC"
        /\ "mistake" \notin f.quirks => f.type = f.means
        /\ Result(f.means.of[1]) /\ Len(f.means.of) \in Nat
        /\ IsSeq(Tail(f.means.of)) /\ Len(Tail(f.means.of)) = Len(f.means.of) - 1
        /\ \A i \in DOMAIN Tail(f.means.of) :
              /\ Tail(f.means.of)[i] = f.means.of[i + 1]
              /\ f.means.of[i + 1] \in {Base(b) : b \in Tokens \union {"WILDCARD"}}
    BY <2>2, FunctionLeaf
  <2>9. CASE "mistake" \in n.quirks
    <3>1. n.quirks # {}
      BY <2>9
    <3> QED
      BY <1>8, <1>10, <1>6, <1>13, <1>1, <2>9, <3>1, ExpressionEnd
  <2>10. CASE "mistake" \notin n.quirks
    <3>1. params = Tail(f.means.of) /\ type = f.means.of[1]
      <4>1. f.quirks \subseteq n.quirks
        <5>1. 1 \in DOMAIN kids
          BY <1>1, SequenceShape
        <5> QED
          BY <1>6, <1>3, <5>1, NodeQuirks
      <4> QED
        BY <2>8, <2>10, <4>1 DEF params, type, Params, Resolved
    <3>2. Len(params) \in Nat /\ DOMAIN params = 1 .. Len(params)
          /\ Len(f.means.of) = Len(params) + 1
      BY <2>8, <3>1, SequenceShape
    <3>3. \A i \in DOMAIN params : /\ params[i] = f.means.of[i + 1]
                                   /\ params[i] \in {Base(b) : b \in Tokens \union {"WILDCARD"}}
      BY <2>8, <3>1, Zenon
    <3>4. type # Ill /\ Simple(type) /\ Proper(type)
      <4>1. Simple(type) /\ type # Ill
        BY <2>8, <3>1 DEF Result, Simple, Base, Type, NoBases, Tokens, Ill
      <4> QED
        BY <4>1, SimpleProper
    <3>5. outcome = "ok" <=> /\ \A i \in DOMAIN ms :
                                   /\ ~ (i > Len(params))
                                   /\ CompareTypes(ms[i].type, params[i]) = "yes"
                             /\ ~ (Len(ms) < Len(params))
      BY <1>11, <1>12, <2>1, CheckParamsOutcome
    <3>6. /\ (\A i \in DOMAIN ms : ~ (i > Len(params))) <=> Len(ms) <= Len(params)
          /\ Len(ms) + 1 = Len(f.means.of) <=> Len(ms) = Len(params)
          /\ Len(ms) <= Len(params) /\ ~ (Len(ms) < Len(params)) => Len(ms) = Len(params)
          /\ Len(ms) = Len(params) => DOMAIN ms = DOMAIN params
      BY <2>5, <3>2, Lengths
    <3>7. Len(ms) = Len(params) => Len(ms) <= Len(params) /\ ~ (Len(ms) < Len(params))
      BY <3>2
    <3>8. Fits(f, ms) <=> /\ Len(ms) = Len(params)
                          /\ \A i \in DOMAIN ms : Accepts(params[i], ms[i].means)
      BY <2>8, <3>3, <3>6, Zenon DEF Fits
    <3>9. outcome = "ok" /\ n.quirks = {} => n.means # Ill
      <4> SUFFICES ASSUME outcome = "ok", n.quirks = {} PROVE n.means # Ill
        OBVIOUS
      <4>1. /\ \A i \in DOMAIN ms : CompareTypes(ms[i].type, params[i]) = "yes"
            /\ Len(ms) <= Len(params) /\ ~ (Len(ms) < Len(params))
        BY <3>5, <3>6
      <4>2. Len(ms) = Len(params) /\ DOMAIN ms = DOMAIN params
        BY <3>6, <4>1
      <4>3. ASSUME NEW i \in DOMAIN ms
            PROVE  Accepts(params[i], ms[i].means)
        <5>1. i \in DOMAIN params /\ ms[i].means = ms[i].type /\ Simple(ms[i].type)
          BY <2>6, <4>2
        <5>2. params[i] = Base("WILDCARD") \/ Simple(params[i])
          BY <3>3, <5>1 DEF Simple, Base, Type, NoBases, Tokens
        <5>3. Simple(params[i]) => ms[i].type = params[i]
          BY <4>1, <5>1, CompareSimple
        <5> QED
          BY <5>1, <5>2, <5>3 DEF Accepts
      <4>4. Fits(f, ms)
        BY <3>8, <4>2, <4>3
      <4> QED
        BY <2>6, <2>7, <2>8, <3>1, <3>4, <4>4
    <3>10. outcome # "ok" => n.means = Ill
      <4> SUFFICES ASSUME \A i \in DOMAIN ms : ms[i].means # Ill, Fits(f, ms)
                   PROVE  outcome = "ok"
        BY <2>7
      <4>1. Len(ms) = Len(params) /\ DOMAIN ms = DOMAIN params
        BY <3>6, <3>8
      <4>2. ASSUME NEW i \in DOMAIN ms
            PROVE  CompareTypes(ms[i].type, params[i]) = "yes"
        <5>1. ms[i].means = ms[i].type /\ Proper(ms[i].type) /\ Accepts(params[i], ms[i].type)
          BY <2>6, <2>10, <3>8
        <5>2. CASE params[i] = ms[i].type
          BY <5>1, <5>2, CompareSame
        <5>3. CASE params[i] = Base("WILDCARD")
          BY <5>1, <5>3 DEF CompareTypes, Proper, NoBases, Nil, Dangling, Base, Type
        <5> QED
          BY <5>1, <5>2, <5>3 DEF Accepts
      <4> QED
        BY <3>5, <3>6, <3>7, <4>1, <4>2
    <3>11. n.means = Ill \/ n.means = type
      BY <2>7, <3>1
    <3> QED
      BY <1>8, <1>10, <1>6, <1>13, <1>1, <3>4, <3>9, <3>10, <3>11, ExpressionEnd
  <2> QED
    BY <2>9, <2>10
<1> QED
  BY <1>14, <1>15

(* `f(...)` is such a call.                                                *)
LEMMA FuncEnd ==
    ASSUME NEW f, GoodTree(f), f.rule \in Idents, NEW list,
           \/ list = NoNode
           \/ GoodTree(list) /\ (list.rule = "inputs" \/ list.rule \in Expressions),
           NEW kids, kids = <<f, Token("lpar"), list, Token("rpar")>>,
           NEW outcome, outcome = CallOutcome(f, list), NEW n,
           n = Node("func", kids, IF outcome = "ok" THEN Resolved(f.type) ELSE Nil)
    PROVE  End(n, outcome)
<1>1. /\ IsSeq(kids) /\ DOMAIN kids = {1, 2, 3, 4}
      /\ kids[1] = f /\ kids[2] = Token("lpar") /\ kids[3] = list /\ kids[4] = Token("rpar")
  BY FourIsSeq
<1>2. \A i \in DOMAIN kids : Kid(kids[i])
  BY <1>1, TokenKid DEF GoodTree
<1>3. Parts("func", kids) = <<f>> \o Members(list, "inputs")
  BY <1>1, Zenon DEF Parts
<1>4. n.rule = "func" /\ n.kids = kids
  BY NodeFields
<1>5. Compound(list, "inputs") => CompoundArgument(n)
  BY <1>1, <1>4 DEF CompoundArgument
<1>6. Call(n, "func", kids, f, list, outcome)
  <2>1. \E i \in DOMAIN kids : i # 1 /\ kids[i] = list
    BY <1>1
  <2>2. 3 \in DOMAIN kids
    BY <1>1
  <2> QED
    BY <1>1, <1>2, <1>3, <1>5, <2>1, <2>2, Zenon DEF Call
<1> QED
  BY <1>6, CallEnd

(* So is `f!(...)`.                                                        *)
LEMMA MacroEnd ==
    ASSUME NEW f, GoodTree(f), f.rule \in Idents, NEW list,
           GoodTree(list), list.rule = "inputs" \/ list.rule \in Expressions,
           NEW kids, kids = <<f, Token("bang"), Token("lpar"), list, Token("rpar")>>,
           NEW outcome, outcome = CallOutcome(f, list), NEW n,
           n = Node("macro", kids, IF outcome = "ok" THEN Resolved(f.type) ELSE Nil)
    PROVE  End(n, outcome)
<1>1. /\ IsSeq(kids) /\ DOMAIN kids = {1, 2, 3, 4, 5} /\ Len(kids) = 5
      /\ kids[1] = f /\ kids[2] = Token("bang") /\ kids[3] = Token("lpar")
      /\ kids[4] = list /\ kids[5] = Token("rpar")
  BY FiveIsSeq
<1>2. \A i \in DOMAIN kids : Kid(kids[i])
  BY <1>1, TokenKid DEF GoodTree
<1>3. Parts("macro", kids) = <<f>> \o Members(list, "inputs")
  <2>1. Len(kids) # 2
    BY <1>1
  <2> QED
    BY <1>1, <2>1, Zenon DEF Parts
<1>4. n.rule = "macro" /\ n.kids = kids
  BY NodeFields
<1>5. Compound(list, "inputs") => CompoundArgument(n)
  BY <1>1, <1>4 DEF CompoundArgument
<1>6. Call(n, "macro", kids, f, list, outcome)
  <2>1. \E i \in DOMAIN kids : i # 1 /\ kids[i] = list
    BY <1>1
  <2>2. 3 \in DOMAIN kids
    BY <1>1
  <2> QED
    BY <1>1, <1>2, <1>3, <1>5, <2>1, <2>2, Zenon DEF Call
<1> QED
  BY <1>6, CallEnd

(* `f!` is a mistake, whatever the memory behind its node holds.           *)
LEMMA BareMacroEnd ==
    ASSUME NEW f, GoodTree(f), f.rule \in Idents,
           NEW kids, kids = <<f, Token("bang")>>, NEW outcome \in Outcomes, NEW n,
           n = Node("macro", kids, IF outcome = "ok" THEN Resolved(f.type) ELSE Nil)
    PROVE  End(n, outcome)
<1>1. /\ IsSeq(kids) /\ DOMAIN kids = {1, 2} /\ Len(kids) = 2
      /\ kids[1] = f /\ kids[2] = Token("bang")
  BY TwoIsSeq
<1>2. \A i \in DOMAIN kids : Kid(kids[i])
  BY <1>1, TokenKid DEF GoodTree
<1>3. n.rule = "macro" /\ n.kids = kids
  BY NodeFields
<1>4. Mistaken(n)
  BY <1>1, <1>3 DEF Mistaken, IsBare
<1>5. IsLeaf(f)
  BY DEF GoodTree, GoodExpression, Expressions, Idents
<1>6. Resolved(f.type).base # "FUNC"
  BY <1>5, LeafGood
<1>7. Present(n) /\ HasThird("macro", kids) /\ "macro" \in Expressions \ Idents
  BY <1>1, <1>3 DEF Present, HasThird, Expressions, Idents, Functions
<1> QED
  BY <1>1, <1>2, <1>4, <1>6, <1>7, MistakeEnd

-----------------------------------------------------------------------------
(* Statements.                                                             *)

(* A statement is not ill typed, and a node without a type is no function. *)
LEMMA StmFacts == Stm # Ill /\ Nil.base # "FUNC"
BY DEF Stm, Ill, Nil, Base, Type

(* A declaration and its value.                                            *)
LEMMA AssignEnd ==
    ASSUME NEW n, NEW kids, NEW a, NEW b, NEW outcome, outcome = Match(a.type, b),
           Operation(n, kids, "assign_stm", a, "eq", b, Nil)
    PROVE  End(n, outcome)
<1>1. n = Node("assign_stm", kids, Nil)
  BY DEF Operation
<1>2. /\ IsSeq(kids) /\ (\A i \in DOMAIN kids : Kid(kids[i])) /\ Kid(n)
      /\ GoodPart(a, n) /\ GoodPart(b, n) /\ n.rule = "assign_stm"
  BY TwoOperands
<1>3. n.means = IF a.means = Ill \/ b.means = Ill THEN Ill
                ELSE Judged("assign_stm", kids, <<a.means, b.means>>)
  BY OperandsMeaning
<1>4. Judged("assign_stm", kids, <<a.means, b.means>>)
         = IF a.means = b.means THEN Stm ELSE Ill
  <2>1. Same(<<a.means, b.means>>) <=> a.means = b.means
    BY DEF Same
  <2> QED
    BY <2>1, Zenon DEF Judged
<1>5. /\ outcome \in Outcomes
      /\ n.quirks = {} /\ Simple(a.type) /\ outcome = "ok" => b.means = a.type
      /\ "mistake" \notin n.quirks /\ Proper(a.type) /\ outcome # "ok" => b.means # a.type
  BY <1>2, MatchPart
<1>6. /\ "mistake" \notin n.quirks => a.means = Ill \/ (a.means = a.type /\ Proper(a.type))
      /\ n.quirks = {} => a.means = a.type /\ a.means # Ill /\ Simple(a.type)
  BY <1>2, PartTypes
<1>7. outcome = "ok" /\ n.quirks = {} => n.means # Ill
  BY <1>3, <1>4, <1>5, <1>6, StmFacts
<1>8. outcome # "ok" /\ "mistake" \notin n.quirks => n.means = Ill
  BY <1>3, <1>4, <1>5, <1>6
<1>9. Present(n) /\ "assign_stm" \notin Expressions \union {"items", "inputs"}
  BY <1>2 DEF Present, Expressions, Idents, Functions
<1> QED
  BY <1>1, <1>2, <1>5, <1>7, <1>8, <1>9, StatementEnd

(* An update is checked unless its target is an array; to accept another   *)
(* type then is a mistake.                                                 *)
LEMMA UpdateEnd ==
    ASSUME NEW n, NEW kids, NEW a, NEW b, NEW outcome,
           a.rule \in {"variable", "array_index"},
           outcome = IF CheckType(a.type, "ARRAY") THEN "ok" ELSE Match(a.type, b),
           Operation(n, kids, "update_stm", a, "eq", b, Nil)
    PROVE  End(n, outcome)
<1>1. n = Node("update_stm", kids, Nil)
  BY DEF Operation
<1>2. /\ IsSeq(kids) /\ (\A i \in DOMAIN kids : Kid(kids[i])) /\ Kid(n)
      /\ GoodPart(a, n) /\ GoodPart(b, n) /\ n.rule = "update_stm" /\ n.kids = kids
      /\ kids[1] = a /\ kids[3] = b
  BY TwoOperands
<1>3. n.means = IF a.means = Ill \/ b.means = Ill THEN Ill
                ELSE Judged("update_stm", kids, <<a.means, b.means>>)
  BY OperandsMeaning
<1>4. Judged("update_stm", kids, <<a.means, b.means>>)
         = IF a.means = b.means THEN Stm ELSE Ill
  <2>1. Same(<<a.means, b.means>>) <=> a.means = b.means
    BY DEF Same
  <2> QED
    BY <2>1, Zenon DEF Judged
<1>5. /\ Match(a.type, b) \in Outcomes
      /\ n.quirks = {} /\ Simple(a.type) /\ Match(a.type, b) = "ok" => b.means = a.type
      /\ "mistake" \notin n.quirks /\ Proper(a.type) /\ Match(a.type, b) # "ok"
            => b.means # a.type
  BY <1>2, MatchPart
<1>6. /\ "mistake" \notin n.quirks => a.means = Ill \/ (a.means = a.type /\ Proper(a.type))
      /\ n.quirks = {} => a.means = a.type /\ a.means # Ill /\ Simple(a.type)
  BY <1>2, PartTypes
<1>7. n.quirks = {} => b.means = b.type /\ b.means # Ill
  BY <1>2, PartTypes
<1>8. ASSUME n.quirks = {}, CheckType(a.type, "ARRAY")
      PROVE  a.type = b.type
  <2>1. a.type.base = "ARRAY"
    BY <1>6, <1>8 DEF CheckType, Resolved, Simple, ArrayOf, Base, Type, NoBases
  <2>2. ~ Unchecked(n)
    BY <1>1, <1>8, NodeQuirks DEF Mistaken
  <2> QED
    BY <1>2, <2>1, <2>2 DEF Unchecked
<1>9. outcome = "ok" /\ n.quirks = {} => n.means # Ill
  BY <1>3, <1>4, <1>5, <1>6, <1>7, <1>8, StmFacts
<1>10. outcome # "ok" /\ "mistake" \notin n.quirks => n.means = Ill
  BY <1>3, <1>4, <1>5, <1>6
<1>11. a.type # Nil
  <2>1. GoodTree(a)
    BY DEF Operation
  <2>2. a.rule = "variable" => IsLeaf(a)
    BY <2>1 DEF GoodTree, GoodExpression, Expressions, Idents
  <2>3. a.rule = "variable" => a.type.base # "nil"
    BY <2>2, LeafGood DEF Functions
  <2>4. Nil.base = "nil"
    BY DEF Nil, Base, Type
  <2> QED
    BY <2>1, <2>3, <2>4 DEF GoodTree
<1>12. Present(n) /\ "update_stm" \notin Expressions \union {"items", "inputs"}
  BY <1>2, <1>11 DEF Present, Expressions, Idents, Functions
<1>13. outcome \in Outcomes
  BY <1>5 DEF Outcomes
<1> QED
  BY <1>1, <1>2, <1>9, <1>10, <1>12, <1>13, StatementEnd

(* The bounds of a range are I64.                                          *)
LEMMA ForExprEnd ==
    ASSUME NEW n, NEW kids, NEW a, NEW b, NEW outcome,
           outcome = Then(Expect(a, "I64"), Expect(b, "I64")),
           Operation(n, kids, "for_expr", a, "dots", b, Nil)
    PROVE  End(n, outcome)
<1>1. n = Node("for_expr", kids, Nil)
  BY DEF Operation
<1>2. /\ IsSeq(kids) /\ (\A i \in DOMAIN kids : Kid(kids[i])) /\ Kid(n)
      /\ GoodPart(a, n) /\ GoodPart(b, n) /\ n.rule = "for_expr"
  BY TwoOperands
<1>3. n.means = IF a.means = Ill \/ b.means = Ill THEN Ill
                ELSE Judged("for_expr", kids, <<a.means, b.means>>)
  BY OperandsMeaning
<1>4. Judged("for_expr", kids, <<a.means, b.means>>)
         = IF a.means = Base("I64") /\ b.means = Base("I64") THEN Stm ELSE Ill
  BY JudgedBase DEF Judged
<1>5. \A p \in {a, b} :
         /\ Expect(p, "I64") \in Outcomes
         /\ n.quirks = {} /\ Expect(p, "I64") = "ok" => p.means = Base("I64")
         /\ "mistake" \notin n.quirks /\ Expect(p, "I64") # "ok" => p.means # Base("I64")
  BY <1>2, ExpectPart DEF Bases
<1>6. outcome \in Outcomes
  BY <1>5 DEF Then
<1>7. outcome = "ok" <=> Expect(a, "I64") = "ok" /\ Expect(b, "I64") = "ok"
  BY ThenOutcome
<1>8. Base("I64") # Ill
  BY BaseFacts DEF Bases
<1>9. /\ outcome = "ok" /\ n.quirks = {} => n.means # Ill
      /\ outcome # "ok" /\ "mistake" \notin n.quirks => n.means = Ill
  BY <1>3, <1>4, <1>5, <1>7, <1>8, StmFacts
<1>10. Present(n) /\ "for_expr" \notin Expressions \union {"items", "inputs"}
  BY <1>2 DEF Present, Expressions, Idents, Functions
<1> QED
  BY <1>1, <1>2, <1>6, <1>9, <1>10, StatementEnd

(* `return ;` and `return e;`: the only nodes whose returns are not those  *)
(* of their kids.                                                          *)
LEMMA RetFields ==
    ASSUME NEW n, NEW kids, n = Node("ret_stmt", kids, Nil), NEW v,
           v = IF Len(kids) > 2 THEN kids[2] ELSE NoNode
    PROVE  /\ n.rule = "ret_stmt" /\ n.means = Meaning("ret_stmt", kids)
           /\ n.own = {Meaning("ret_stmt", kids)}
           /\ IsSeq(n.returns) /\ DOMAIN n.returns = {1} /\ n.returns[1] = v
           /\ n.blame = Blame("ret_stmt", kids, Nil)
<1>1. /\ n.rule = "ret_stmt" /\ n.means = Meaning("ret_stmt", kids)
      /\ n.own = Own("ret_stmt", kids) /\ n.returns = Returns("ret_stmt", kids)
      /\ n.blame = Blame("ret_stmt", kids, Nil)
  BY NodeFields
<1>2. Own("ret_stmt", kids) = {Meaning("ret_stmt", kids)}
  BY Zenon DEF Own
<1>3. Returns("ret_stmt", kids) = <<v>>
  BY Zenon DEF Returns
<1>4. IsSeq(<<v>>) /\ DOMAIN <<v>> = {1} /\ <<v>>[1] = v
  BY OneIsSeq
<1> QED
  BY <1>1, <1>2, <1>3, <1>4, Zenon

(* `return ;` returns NULL.                                                *)
LEMMA EmptyRetEnd ==
    ASSUME NEW n, NEW kids, kids = <<Token("return"), Token("semicolon")>>,
           n = Node("ret_stmt", kids, Nil)
    PROVE  End(n, "ok")
<1>1. /\ IsSeq(kids) /\ DOMAIN kids = {1, 2} /\ Len(kids) = 2
      /\ kids[1] = Token("return") /\ kids[2] = Token("semicolon")
  BY TwoIsSeq
<1>2. \A i \in DOMAIN kids : Kid(kids[i])
  BY <1>1, TokenKid
<1>3. /\ n.rule = "ret_stmt" /\ n.means = Meaning("ret_stmt", kids)
      /\ n.own = {Meaning("ret_stmt", kids)}
      /\ IsSeq(n.returns) /\ DOMAIN n.returns = {1} /\ n.returns[1] = NoNode
      /\ n.blame = Blame("ret_stmt", kids, Nil)
  <2>1. n = Node("ret_stmt", kids, Nil)
    OBVIOUS
  <2>2. NoNode = IF Len(kids) > 2 THEN kids[2] ELSE NoNode
    BY <1>1
  <2> QED
    BY ONLY <2>1, <2>2, RetFields
<1>4. Meaning("ret_stmt", kids) = Base("NULL")
  <2> DEFINE ts == [i \in DOMAIN <<>> |-> <<>>[i].means]
  <2>1. Parts("ret_stmt", kids) = <<>>
    BY <1>1 DEF Parts
  <2>2. Meaning("ret_stmt", kids) = IF \E i \in DOMAIN <<>> : <<>>[i].means = Ill THEN Ill
                                    ELSE Judged("ret_stmt", kids, ts)
    BY <2>1, MeaningParts
  <2>3. DOMAIN <<>> = {} /\ ts = <<>>
    BY EmptyIsSeq
  <2>4. Judged("ret_stmt", kids, <<>>) = Base("NULL")
    BY DEF Judged
  <2> QED
    BY <2>2, <2>3, <2>4
<1>5. Returned(NoNode) = Base("NULL")
  BY DEF Returned, NoNode, NoValue, Plain
<1>6. Kid(n)
  <2>1. n.blame \in Outcomes
    BY <1>1, <1>2, <1>3, BlameOutcome DEF Kid
  <2> QED
    BY <1>3, <1>4, <1>5, <2>1 DEF Kid, GoodReturns
<1>7. n.means # Ill /\ Present(n)
  BY <1>3, <1>4 DEF Base, Ill, Type, Present
<1>8. "ok" \in Outcomes /\ "ret_stmt" \notin Expressions \union {"items", "inputs"}
  BY DEF Outcomes, Expressions, Idents, Functions
<1> QED
  BY <1>1, <1>2, <1>6, <1>7, <1>8, StatementEnd

(* `return e;` returns what e means.                                       *)
LEMMA RetEnd ==
    ASSUME NEW e, GoodTree(e), e.rule \in Expressions,
           NEW n, NEW kids, kids = <<Token("return"), e, Token("semicolon")>>,
           n = Node("ret_stmt", kids, Nil)
    PROVE  End(n, "ok")
<1>1. /\ IsSeq(kids) /\ DOMAIN kids = {1, 2, 3} /\ Len(kids) = 3
      /\ kids[1] = Token("return") /\ kids[2] = e /\ kids[3] = Token("semicolon")
  BY ThreeIsSeq
<1>2. \A i \in DOMAIN kids : Kid(kids[i])
  BY <1>1, TokenKid DEF GoodTree
<1>3. /\ n.rule = "ret_stmt" /\ n.means = Meaning("ret_stmt", kids)
      /\ n.own = {Meaning("ret_stmt", kids)}
      /\ IsSeq(n.returns) /\ DOMAIN n.returns = {1} /\ n.returns[1] = e
      /\ n.blame = Blame("ret_stmt", kids, Nil)
  <2>1. n = Node("ret_stmt", kids, Nil)
    OBVIOUS
  <2>2. e = IF Len(kids) > 2 THEN kids[2] ELSE NoNode
    BY <1>1
  <2> QED
    BY ONLY <2>1, <2>2, RetFields
<1>4. Meaning("ret_stmt", kids) = e.means
  <2>1. Parts("ret_stmt", kids) = <<e>>
    BY <1>1 DEF Parts
  <2>2. Meaning("ret_stmt", kids) = IF e.means = Ill THEN Ill
                                    ELSE Judged("ret_stmt", kids, <<e.means>>)
    BY <2>1, MeaningOne
  <2>3. Judged("ret_stmt", kids, <<e.means>>) = e.means
    BY DEF Judged
  <2> QED
    BY <2>2, <2>3
<1>5. GoodPart(e, n)
  <2>1. GoodExpression(kids[2])
    BY <1>1 DEF GoodTree
  <2> QED
    BY <1>1, <2>1, UsedPart
<1>6. Returned(e) = e.means
  BY DEF Returned, NoValue, Expressions, Idents, Functions
<1>7. Kid(n)
  <2>1. n.blame \in Outcomes
    BY <1>1, <1>2, <1>3, BlameOutcome DEF Kid
  <2> QED
    BY <1>3, <1>4, <1>5, <1>6, <2>1 DEF Kid, GoodReturns
<1>8. n.quirks = {} => n.means # Ill
  BY <1>3, <1>4, <1>5, PartTypes
<1>9. "ok" \in Outcomes /\ "ret_stmt" \notin Expressions \union {"items", "inputs"} /\ Present(n)
  BY <1>3 DEF Outcomes, Expressions, Idents, Functions, Present
<1> QED
  BY <1>1, <1>2, <1>7, <1>8, <1>9, StatementEnd

-----------------------------------------------------------------------------
(* Blocks: a head and the statements of its body.                          *)

(* The body of a block.                                                    *)
LEMMA BodyGood ==
    ASSUME NEW b, NEW ss, b = Node("StatementList", ss, Nil), IsSeq(ss),
           \A i \in DOMAIN ss : GoodTree(ss[i])
    PROVE  GoodTree(b) /\ b.rule = "StatementList"
<1> DEFINE rule == "StatementList"
           ts == [i \in DOMAIN ss |-> ss[i].means]
<1>1. \A i \in DOMAIN ss : Kid(ss[i])
  BY DEF GoodTree
<1>2. b = Node(rule, ss, Nil) /\ rule # "ret_stmt"
  OBVIOUS
<1>3. Kid(b)
  BY <1>1, <1>2, NodeKid
<1>4. b.rule = rule /\ b.means = Meaning(rule, ss)
  BY NodeFields
<1>5. Parts(rule, ss) = ss
  BY DEF Parts
<1>6. Meaning(rule, ss) = IF \E i \in DOMAIN ss : ss[i].means = Ill THEN Ill
                          ELSE Judged(rule, ss, ts)
  BY <1>5, MeaningParts
<1>7. \A us : Judged(rule, ss, us) = Stm
  BY DEF Judged
<1>8. b.quirks = {} => b.means # Ill
  <2>1. \A i \in DOMAIN ss : ss[i].quirks \subseteq b.quirks
    BY NodeQuirks
  <2>2. b.quirks = {} => \A i \in DOMAIN ss : ss[i].means # Ill
    BY <2>1 DEF GoodTree
  <2> QED
    BY <1>4, <1>6, <1>7, <2>2, StmFacts
<1>9. /\ Present(b) /\ "ok" \in Outcomes
      /\ rule \notin Expressions \union {"items", "inputs"}
  BY <1>4 DEF Present, Outcomes, Expressions, Idents, Functions
<1>10. End(b, "ok")
  BY <1>1, <1>2, <1>3, <1>8, <1>9, StatementEnd
<1> QED
  BY <1>4, <1>10 DEF End

Blocks == {"while_stm", "single_if", "for_stm", "function_def"}
IsBlock(n, rule, kids, a, b) ==
    /\ rule \in Blocks
    /\ kids = <<a, b>> /\ n = Node(rule, kids, Nil)
    /\ GoodTree(a) /\ GoodTree(b) /\ b.rule = "StatementList"

(* What the blocks have in common.                                         *)
LEMMA BlockFacts ==
    ASSUME NEW n, NEW rule, NEW kids, NEW a, NEW b, IsBlock(n, rule, kids, a, b)
    PROVE  /\ IsSeq(kids) /\ (\A i \in DOMAIN kids : Kid(kids[i])) /\ Kid(n)
           /\ DOMAIN kids = {1, 2} /\ kids[1] = a /\ kids[2] = b
           /\ n.rule = rule /\ n.kids = kids /\ Present(n)
           /\ a.quirks \subseteq n.quirks /\ b.quirks \subseteq n.quirks
           /\ n.quirks = {} => a.quirks = {} /\ b.quirks = {} /\ b.means # Ill
<1>1. /\ rule \in Blocks /\ n = Node(rule, kids, Nil) /\ kids = <<a, b>>
      /\ GoodTree(a) /\ GoodTree(b)
  BY DEF IsBlock
<1>2. IsSeq(kids) /\ DOMAIN kids = {1, 2} /\ kids[1] = a /\ kids[2] = b
  BY <1>1, TwoIsSeq
<1>3. \A i \in DOMAIN kids : Kid(kids[i])
  BY <1>1, <1>2 DEF GoodTree
<1>4. rule # "ret_stmt"
  BY <1>1 DEF Blocks
<1>5. Kid(n)
  BY ONLY <1>1, <1>2, <1>3, <1>4, NodeKid
<1>6. n.rule = rule /\ n.kids = kids
  BY ONLY <1>1, NodeFields
<1>7. \A i \in DOMAIN kids : kids[i].quirks \subseteq n.quirks
  BY ONLY <1>1, NodeQuirks
<1>8. a.quirks \subseteq n.quirks /\ b.quirks \subseteq n.quirks
  BY <1>2, <1>7
<1>9. Present(n)
  BY <1>1, <1>6 DEF Present, Blocks
<1>10. n.quirks = {} => a.quirks = {} /\ b.quirks = {} /\ b.means # Ill
  BY <1>1, <1>8 DEF GoodTree
<1> QED
  BY <1>2, <1>3, <1>5, <1>6, <1>8, <1>9, <1>10

(* Their meaning.                                                          *)
LEMMA BlockMeaning ==
    ASSUME NEW n, NEW rule, NEW kids, NEW a, NEW b, IsBlock(n, rule, kids, a, b)
    PROVE  n.means = IF a.means = Ill \/ b.means = Ill THEN Ill
                     ELSE Judged(rule, kids, <<a.means, b.means>>)
<1>1. rule \in Blocks /\ n = Node(rule, kids, Nil) /\ kids = <<a, b>>
  BY DEF IsBlock
<1>2. Parts(rule, kids) = kids
  BY <1>1, Zenon DEF Parts, Blocks
<1>3. Parts(rule, kids) = <<a, b>>
  BY <1>1, <1>2, Zenon
<1>4. n.means = Meaning(rule, kids)
  BY ONLY <1>1, NodeFields
<1> QED
  BY ONLY <1>3, <1>4, MeaningTwo

(* What they have to show.                                                 *)
LEMMA BlockEnd ==
    ASSUME NEW n, NEW rule, NEW kids, NEW a, NEW b, IsBlock(n, rule, kids, a, b),
           NEW outcome \in Outcomes,
           outcome = "ok" /\ n.quirks = {} => n.means # Ill,
           outcome # "ok" /\ "mistake" \notin n.quirks => n.means = Ill
    PROVE  End(n, outcome)
<1>1. n = Node(rule, kids, Nil) /\ rule \notin Expressions \union {"items", "inputs"}
  BY DEF IsBlock, Blocks, Expressions, Idents, Functions
<1>2. IsSeq(kids) /\ (\A i \in DOMAIN kids : Kid(kids[i])) /\ Kid(n) /\ Present(n)
  BY BlockFacts
<1> QED
  BY <1>1, <1>2, StatementEnd

(* typecheck.c 137-139: the condition of a while is a BOOL.                *)
LEMMA WhileEnd ==
    ASSUME NEW n, NEW kids, NEW a, NEW b, IsBlock(n, "while_stm", kids, a, b),
           a.rule \in Expressions, NEW outcome, outcome = Expect(a, "BOOL")
    PROVE  End(n, outcome)
<1>1. DOMAIN kids = {1, 2} /\ kids[1] = a /\ (n.quirks = {} => b.means # Ill)
  BY BlockFacts
<1>2. n.means = IF a.means = Ill \/ b.means = Ill THEN Ill
                ELSE Judged("while_stm", kids, <<a.means, b.means>>)
  BY BlockMeaning
<1>3. Judged("while_stm", kids, <<a.means, b.means>>)
         = IF a.means = Base("BOOL") THEN Stm ELSE Ill
  BY DEF Judged
<1>4. n = Node("while_stm", kids, Nil) /\ GoodExpression(a)
  BY DEF IsBlock, GoodTree
<1>5. GoodPart(a, n)
  BY <1>1, <1>4, UsedPart
<1>6. /\ outcome \in Outcomes
      /\ n.quirks = {} /\ outcome = "ok" => a.means = Base("BOOL")
      /\ "mistake" \notin n.quirks /\ outcome # "ok" => a.means # Base("BOOL")
  BY <1>5, ExpectPart DEF Bases
<1>7. Base("BOOL") # Ill
  BY BaseFacts DEF Bases
<1>8. /\ outcome = "ok" /\ n.quirks = {} => n.means # Ill
      /\ outcome # "ok" /\ "mistake" \notin n.quirks => n.means = Ill
  BY <1>1, <1>2, <1>3, <1>6, <1>7, StmFacts
<1> QED
  BY <1>6, <1>8, BlockEnd

(* That of an if is not checked: to accept another type is a mistake.      *)
LEMMA SingleIfEnd ==
    ASSUME NEW n, NEW kids, NEW a, NEW b, IsBlock(n, "single_if", kids, a, b),
           a.rule \in Expressions
    PROVE  End(n, "ok")
<1>1. /\ DOMAIN kids = {1, 2} /\ kids[1] = a /\ (n.quirks = {} => b.means # Ill)
      /\ n.rule = "single_if" /\ n.kids = kids
  BY BlockFacts
<1>2. n.means = IF a.means = Ill \/ b.means = Ill THEN Ill
                ELSE Judged("single_if", kids, <<a.means, b.means>>)
  BY BlockMeaning
<1>3. Judged("single_if", kids, <<a.means, b.means>>)
         = IF a.means = Base("BOOL") THEN Stm ELSE Ill
  BY DEF Judged
<1>4. n = Node("single_if", kids, Nil) /\ GoodExpression(a)
  BY DEF IsBlock, GoodTree
<1>5. GoodPart(a, n)
  BY <1>1, <1>4, UsedPart
<1>6. n.quirks = {} => a.means = a.type /\ a.means # Ill
  BY <1>5, PartTypes
<1>7. n.quirks = {} => a.type = Base("BOOL")
  BY <1>1, <1>4, NodeQuirks DEF Mistaken, Unchecked
<1>8. n.quirks = {} => n.means # Ill
  BY <1>1, <1>2, <1>3, <1>6, <1>7, StmFacts
<1> QED
  BY <1>8, BlockEnd DEF Outcomes

(* A for has nothing to check but its range.                               *)
LEMMA ForEnd ==
    ASSUME NEW n, NEW kids, NEW a, NEW b, IsBlock(n, "for_stm", kids, a, b)
    PROVE  End(n, "ok")
<1>1. n.quirks = {} => b.means # Ill /\ a.quirks = {}
  BY BlockFacts
<1>2. n.means = IF a.means = Ill \/ b.means = Ill THEN Ill
                ELSE Judged("for_stm", kids, <<a.means, b.means>>)
  BY BlockMeaning
<1>3. Judged("for_stm", kids, <<a.means, b.means>>) = Stm
  BY DEF Judged
<1>4. a.quirks = {} => a.means # Ill
  BY DEF IsBlock, GoodTree
<1>5. n.quirks = {} => n.means # Ill
  BY <1>1, <1>2, <1>3, <1>4, StmFacts
<1> QED
  BY <1>5, BlockEnd DEF Outcomes

(* The check of one returned value.                                        *)
LEMMA ReturnValue ==
    ASSUME NEW n, NEW v, v = NoNode \/ GoodPart(v, n), NEW t
    PROVE  /\ CheckReturn(t, v) \in Outcomes
           /\ n.quirks = {} /\ Simple(t) /\ (t.base = "NULL" => t = Base("NULL"))
                 /\ CheckReturn(t, v) = "ok" => Returned(v) = t
           /\ "mistake" \notin n.quirks /\ Simple(t)
                 /\ CheckReturn(t, v) # "ok" => Returned(v) # t
<1>1. CASE v = NoNode
  <2>1. v.rule = NoValue /\ Returned(v) = Base("NULL")
    BY <1>1 DEF Returned, NoNode, NoValue, Plain
  <2>2. CheckReturn(t, v) = IF t.base # "NULL" THEN "exit_3" ELSE "ok"
    BY <2>1 DEF CheckReturn
  <2>3. Base("NULL").base = "NULL"
    BY DEF Base, Type
  <2> QED
    BY <2>1, <2>2, <2>3 DEF Outcomes
<1>2. CASE GoodPart(v, n)
  <2>1. v.rule # NoValue
    BY <1>2 DEF GoodPart, GoodExpression, NoValue, Expressions, Idents, Functions
  <2>2. CheckReturn(t, v) = Match(t, v) /\ Returned(v) = v.means
    BY <2>1 DEF CheckReturn, Returned
  <2>3. Simple(t) => Proper(t)
    BY SimpleProper
  <2> QED
    BY <1>2, <2>2, <2>3, MatchPart
<1> QED
  BY <1>1, <1>2

(* A function's returns: all those of its body are its own, if no function *)
(* is nested in it, so checking each one in order checks the set.          *)
LEMMA FunctionDefEnd ==
    ASSUME NEW n, NEW kids, NEW f, NEW b, IsBlock(n, "function_def", kids, f, b),
           f.rule = "function", NEW outcome, outcome = CheckReturns(Resolved(f.type), b)
    PROVE  End(n, outcome)
<1> DEFINE t == Resolved(f.type)
           values == b.returns
           checks == [i \in DOMAIN values |-> CheckReturn(t, values[i])]
<1>1. /\ kids[2] = b /\ n.rule = "function_def" /\ n.kids = kids
      /\ f.quirks \subseteq n.quirks /\ b.quirks \subseteq n.quirks
      /\ n.quirks = {} => b.means # Ill
  BY BlockFacts
<1>2. n.means = IF f.means = Ill \/ b.means = Ill THEN Ill
                ELSE Judged("function_def", kids, <<f.means, b.means>>)
  BY BlockMeaning
<1>3. Judged("function_def", kids, <<f.means, b.means>>)
         = IF ReturnsFit(f.means, b.own) THEN Stm ELSE Ill
  BY <1>1 DEF Judged
<1>4. GoodTree(f) /\ Kid(b) /\ n = Node("function_def", kids, Nil)
  BY DEF IsBlock, GoodTree
<1>5. IsLeaf(f)
  BY <1>4 DEF GoodTree, GoodExpression, Expressions, Idents, Functions
<1>6. IsCallable(f) /\ f.means # Ill /\ ("mistake" \notin f.quirks => f.type = f.means)
  BY <1>5, LeafGood DEF Functions
<1>7. Result(f.means.of[1]) /\ f.type.base = "FUNC"
  BY <1>6, FunctionLeaf
<1>8. ASSUME "mistake" \notin n.quirks
      PROVE  /\ t = f.means.of[1] /\ Simple(t)
             /\ t.base = "NULL" => t = Base("NULL")
  <2>1. t = f.means.of[1]
    BY <1>1, <1>6, <1>7, <1>8 DEF Resolved
  <2> HIDE DEF t
  <2> QED
    BY <1>7, <2>1 DEF Result, Simple, Tokens, NoBases, Base, Type
<1>9. IsSeq(values) /\ \A i \in DOMAIN values : values[i] = NoNode \/ GoodPart(values[i], n)
  BY <1>1, <1>4 DEF Kid, GoodReturns, GoodPart
<1>10. \A v \in b.own : \E i \in DOMAIN values : v = Returned(values[i])
  BY <1>4 DEF Kid, GoodReturns
<1>11. "mistake" \notin n.quirks => \A i \in DOMAIN values : Returned(values[i]) \in b.own
  <2>1. "mistake" \notin n.quirks => ~ Nested(n)
    BY <1>4, NodeQuirks DEF Mistaken
  <2> QED
    BY <1>1, <2>1 DEF Nested
<1>12. outcome = Then(FirstOf(checks), IF values = <<>> /\ t.base # "NULL" THEN "exit_3" ELSE "ok")
  BY Zenon DEF CheckReturns
<1>13. /\ DOMAIN checks = DOMAIN values /\ DOMAIN checks \subseteq Nat
       /\ \A i \in DOMAIN values : checks[i] = CheckReturn(t, values[i])
  BY <1>9 DEF IsSeq
<1> HIDE DEF t, checks, values
<1>14. \A i \in DOMAIN values :
          /\ checks[i] \in Outcomes
          /\ n.quirks = {} /\ checks[i] = "ok" => Returned(values[i]) = t
          /\ "mistake" \notin n.quirks /\ checks[i] # "ok" => Returned(values[i]) # t
  BY <1>8, <1>9, <1>13, ReturnValue
<1>15. /\ FirstOf(checks) \in Outcomes
       /\ FirstOf(checks) = "ok" <=> \A i \in DOMAIN values : checks[i] = "ok"
  BY <1>13, <1>14, FirstOfOutcomes DEF Outcomes
<1>16. /\ outcome \in Outcomes
       /\ outcome = "ok" <=> /\ \A i \in DOMAIN values : checks[i] = "ok"
                             /\ ~ (values = <<>> /\ t.base # "NULL")
  BY <1>12, <1>15 DEF Then, Outcomes
<1>17. values = <<>> <=> DOMAIN values = {}
  BY <1>9, SequenceShape, EmptyIsSeq
<1>18. ASSUME outcome = "ok", n.quirks = {}
       PROVE  n.means # Ill
  <2>1. b.own \subseteq {t}
    BY <1>10, <1>14, <1>16, <1>18
  <2>2. b.own = {} => values = <<>>
    BY <1>11, <1>17, <1>18
  <2>3. b.own = {} => t = Base("NULL")
    BY <1>8, <1>16, <1>18, <2>2
  <2>4. ReturnsFit(f.means, b.own)
    BY <1>8, <1>18, <2>1, <2>3 DEF ReturnsFit
  <2> QED
    BY <1>1, <1>2, <1>3, <1>6, <1>18, <2>4, StmFacts
<1>19. ASSUME outcome # "ok", "mistake" \notin n.quirks
       PROVE  n.means = Ill
  <2>1. CASE \E i \in DOMAIN values : checks[i] # "ok"
    <3>1. \E v \in b.own : v # t
      BY <1>11, <1>14, <1>19, <2>1
    <3>2. ~ ReturnsFit(f.means, b.own)
      BY <1>8, <1>19, <3>1 DEF ReturnsFit
    <3> QED
      BY <1>2, <1>3, <3>2
  <2>2. CASE values = <<>> /\ t.base # "NULL"
    <3>1. b.own = {}
      BY <1>10, <1>17, <2>2
    <3>2. t # Base("NULL")
      BY <2>2 DEF Base, Type
    <3>3. ~ ReturnsFit(f.means, b.own)
      BY <1>8, <1>19, <3>1, <3>2 DEF ReturnsFit
    <3> QED
      BY <1>2, <1>3, <3>3
  <2> QED
    BY <1>16, <1>19, <2>1, <2>2
<1> QED
  BY <1>16, <1>18, <1>19, BlockEnd

-----------------------------------------------------------------------------
(* The walk.                                                               *)

(* A part of a sequence.                                                   *)
LEMMA SubSeqShape ==
    ASSUME NEW s, IsSeq(s), NEW m \in Nat, m <= Len(s)
    PROVE  /\ IsSeq(SubSeq(s, 1, m)) /\ Len(SubSeq(s, 1, m)) = m
           /\ \A i \in DOMAIN SubSeq(s, 1, m) :
                 i \in DOMAIN s /\ SubSeq(s, 1, m)[i] = s[i]
           /\ IsSeq(SubSeq(s, m + 1, Len(s)))
           /\ \A i \in DOMAIN SubSeq(s, m + 1, Len(s)) :
                 \E j \in DOMAIN s : SubSeq(s, m + 1, Len(s))[i] = s[j]
<1> DEFINE S == {s[i] : i \in DOMAIN s}
           p == SubSeq(s, 1, m)
           q == SubSeq(s, m + 1, Len(s))
<1>1. s \in Seq(S) /\ Len(s) \in Nat /\ DOMAIN s = 1 .. Len(s)
  BY DEF IsSeq
<1>2. \A x \in S : \E j \in DOMAIN s : x = s[j]
  OBVIOUS
<1> HIDE DEF S
<1>3. /\ p \in Seq(S) /\ Len(p) = m
      /\ \A i \in 1 .. m : p[i] = s[i]
  BY <1>1
<1>4. q \in Seq(S)
  BY <1>1
<1> HIDE DEF p, q
<1>5. IsSeq(p) /\ DOMAIN p = 1 .. m
  BY <1>3 DEF IsSeq
<1>6. IsSeq(q) /\ \A i \in DOMAIN q : q[i] \in S
  BY <1>4 DEF IsSeq
<1>7. \A i \in DOMAIN p : i \in DOMAIN s /\ p[i] = s[i]
  BY <1>1, <1>3, <1>5
<1>8. \A i \in DOMAIN q : \E j \in DOMAIN s : q[i] = s[j]
  BY <1>2, <1>6
<1> QED
  BY <1>3, <1>5, <1>6, <1>7, <1>8 DEF p, q

(* Whatever is pushed keeps the invariant, if it keeps End.                *)
LEMMA PushKeeps ==
    ASSUME IInv, Running, NEW s, IsSeq(s), Len(s) <= Len(trees),
           \A i \in DOMAIN s : GoodTree(s[i]),
           NEW node, NEW outcome, End(node, outcome),
           trees' = Append(s, node), visited' = visited + 1,
           exit' = IF outcome = "ok" THEN "no" ELSE outcome, grammar' = grammar
    PROVE  IInv'
<1> DEFINE ts == Append(s, node)
<1>1. /\ visited \in 0 .. MaxNodes /\ Len(trees) <= visited /\ grammar \in DOMAIN Grammars
      /\ visited < MaxNodes /\ IsSeq(trees)
  BY DEF IInv, TypeOK, Running
<1>2. MaxNodes \in Nat /\ MaxNodes' = MaxNodes
  BY <1>1, GrammarsAssumption DEF MaxNodes
<1>3. /\ IsSeq(ts) /\ Len(ts) = Len(s) + 1
      /\ \A i \in DOMAIN ts : ts[i] = node \/ (i \in DOMAIN s /\ ts[i] = s[i])
      /\ ts[Len(ts)] = node
  <2>1. /\ IsSeq(ts) /\ Len(ts) = Len(s) + 1
        /\ \A i \in DOMAIN ts : ts[i] = node \/ i \in DOMAIN s
        /\ \A i \in DOMAIN s : i \in DOMAIN ts /\ ts[i] = s[i]
        /\ ts[Len(s) + 1] = node
    BY AppendIsSeq
  <2> HIDE DEF ts
  <2> QED
    BY <2>1
<1>4. trees' = ts
  OBVIOUS
<1> HIDE DEF ts
<1>5. Len(s) \in Nat /\ Len(trees) \in Nat
  BY <1>1, SequenceShape
<1>6. /\ outcome \in Outcomes
      /\ outcome = "ok" => GoodTree(node) /\ Present(node)
      /\ outcome # "ok" => node.type = Nil
      /\ outcome # "ok" /\ "mistake" \notin node.quirks => node.means = Ill
  BY DEF End
<1>7. \A i \in DOMAIN ts : ts[i].type.base = "FUNC" => ts[i].rule \in Functions
  BY <1>3, <1>6, StmFacts DEF GoodTree
<1>8. TypeOK'
  <2>1. visited' \in 0 .. MaxNodes' /\ Len(trees') <= visited'
    BY <1>1, <1>2, <1>3, <1>4, <1>5
  <2>2. exit' \in {"no", "exit_3", "crash"}
    BY <1>6 DEF Outcomes
  <2> QED
    BY <1>4, <1>7, <2>1, <2>2 DEF TypeOK
<1>9. exit' = "no" <=> outcome = "ok"
  BY <1>6 DEF Outcomes
<1>10. exit' = "no" => \A i \in DOMAIN trees' : GoodTree(trees'[i])
  BY <1>3, <1>4, <1>6, <1>9
<1>11. Last(trees') = node
  BY <1>3, <1>4 DEF Last
<1>12. Complete'
  BY <1>6, <1>9, <1>11 DEF Complete
<1>13. TypedWhereRead'
  BY <1>6, <1>9, <1>11 DEF TypedWhereRead, Accepted, Present
<1> QED
  BY <1>1, <1>3, <1>4, <1>8, <1>10, <1>12, <1>13 DEF IInv

(* A node that takes the place of its kids.                                *)
LEMMA VisitKeeps ==
    ASSUME IInv, Running, NEW k \in Nat, k <= Len(trees),
           NEW rule, NEW kids, NEW outcome, NEW type, Visit(k, rule, kids, outcome, type),
           End(Node(rule, kids, IF outcome = "ok" THEN type ELSE Nil), outcome)
    PROVE  IInv'
<1> DEFINE s == SubSeq(trees, 1, Len(trees) - k)
           node == Node(rule, kids, IF outcome = "ok" THEN type ELSE Nil)
<1>1. /\ trees' = Append(s, node) /\ visited' = visited + 1 /\ grammar' = grammar
      /\ exit' = IF outcome = "ok" THEN "no" ELSE outcome
  BY Zenon DEF Visit
<1>2. /\ IsSeq(trees) /\ Len(trees) \in Nat
      /\ \A i \in DOMAIN trees : GoodTree(trees[i])
  BY SequenceShape DEF IInv, Running
<1>3. Len(trees) - k \in Nat /\ Len(trees) - k <= Len(trees)
  BY <1>2
<1>4. /\ IsSeq(s) /\ Len(s) = Len(trees) - k
      /\ \A i \in DOMAIN s : i \in DOMAIN trees /\ s[i] = trees[i]
  BY <1>2, <1>3, SubSeqShape
<1>5. End(node, outcome)
  OBVIOUS
<1> HIDE DEF s, node
<1>6. Len(s) <= Len(trees) /\ \A i \in DOMAIN s : GoodTree(s[i])
  BY <1>2, <1>3, <1>4
<1> QED
  BY <1>1, <1>4, <1>5, <1>6, PushKeeps

(* The trees on top.                                                       *)
LEMMA TopGood ==
    ASSUME IInv, NEW k \in Nat, Has(k)
    PROVE  Running /\ k <= Len(trees) /\ \A i \in 1 .. k : GoodTree(Top(k, i))
<1>1. Len(trees) \in Nat /\ DOMAIN trees = 1 .. Len(trees)
  BY SequenceShape DEF IInv
<1>2. \A i \in DOMAIN trees : GoodTree(trees[i])
  BY DEF IInv, Has, Running
<1>3. \A i \in 1 .. k : Len(trees) - k + i \in DOMAIN trees
  BY <1>1 DEF Has
<1> QED
  BY <1>1, <1>2, <1>3 DEF Has, Top

(* The actions, one by one.                                                *)
LEMMA TerminalKeeps ==
    ASSUME IInv, Terminal
    PROVE  IInv'
<1>1. PICK leaf \in Leaves : trees' = Append(trees, leaf)
  BY DEF Terminal
<1>2. /\ Running /\ visited' = visited + 1 /\ exit' = "no" /\ grammar' = grammar
      /\ exit = "no"
  BY DEF Terminal, Running
<1>3. IsLeaf(leaf)
  BY GrammarsAssumption DEF IInv, Leaves
<1>4. GoodTree(leaf) /\ leaf.rule \in Idents \union {"literal"}
  BY <1>3, LeafGood
<1>5. End(leaf, "ok")
  BY <1>4 DEF End, Present, Outcomes, Idents, Functions
<1>6. IsSeq(trees) /\ Len(trees) <= Len(trees) /\ \A i \in DOMAIN trees : GoodTree(trees[i])
  BY <1>2, SequenceShape DEF IInv
<1>7. exit' = IF "ok" = "ok" THEN "no" ELSE "ok"
  BY <1>2
<1> QED
  BY <1>1, <1>2, <1>5, <1>6, <1>7, PushKeeps

(* List keeps the invariant.                                               *)
LEMMA ListKeeps ==
    ASSUME IInv, NEW rule \in {"items", "inputs"}, List(rule)
    PROVE  IInv'
<1> DEFINE a == Top(2, 1)
           b == Top(2, 2)
           kids == Append(Members(a, rule), b)
           n == Node(rule, kids, Nil)
<1>1. Running /\ 2 <= Len(trees) /\ GoodTree(a) /\ GoodTree(b)
  BY TopGood DEF List
<1>2. /\ Visit(2, rule, kids, "ok", Nil)
      /\ a.rule = rule \/ a.rule \in Expressions
      /\ b.rule \in Expressions
  BY DEF List, IsExpr
<1>3. kids = Append(Members(a, rule), b)
  OBVIOUS
<1> HIDE DEF a, b, kids
<1>4. End(n, "ok")
  BY <1>1, <1>2, <1>3, ListEnd
<1>5. n = Node(rule, kids, IF "ok" = "ok" THEN Nil ELSE Nil)
  OBVIOUS
<1> HIDE DEF n
<1> QED
  BY <1>1, <1>2, <1>4, <1>5, VisitKeeps

(* Array keeps the invariant.                                              *)
LEMMA ArrayKeeps ==
    ASSUME IInv, Array
    PROVE  IInv'
<1> DEFINE list == Top(1, 1)
           kids == <<Token("lbracket"), list, Token("rbracket")>>
           type == ArrayOf(ItemCount(list), Element(list))
<1>1. Running /\ 1 <= Len(trees) /\ GoodTree(list)
  BY TopGood DEF Array
<1>2. list.rule = "items" \/ list.rule \in Expressions
  BY DEF Array, OneOf, IsExpr
<1>3. PICK outcome \in IF IsBare(list) THEN Anything ELSE {Items(list)} :
         Visit(1, "array", kids, outcome, type)
  BY DEF Array
<1>4. outcome \in IF IsBare(list) THEN Outcomes ELSE {Items(list)}
  BY <1>3 DEF Anything
<1>5. kids = <<Token("lbracket"), list, Token("rbracket")>>
  OBVIOUS
<1> DEFINE n == Node("array", kids, IF outcome = "ok" THEN type ELSE Nil)
<1> HIDE DEF list, kids
<1>6. End(n, outcome)
  BY <1>1, <1>2, <1>4, <1>5, ArrayEnd
<1> QED
  BY <1>1, <1>3, <1>6, VisitKeeps

(* EmptyArray keeps the invariant.                                         *)
LEMMA EmptyArrayKeeps ==
    ASSUME IInv, EmptyArray
    PROVE  IInv'
<1> DEFINE kids == <<Token("lbracket"), NoNode, Token("rbracket")>>
           outcome == Items(NoNode)
<1>1. Running /\ Visit(0, "array", kids, outcome, Nil)
  BY DEF EmptyArray
<1>2. 0 <= Len(trees)
  BY SequenceShape DEF IInv
<1>3. kids = <<Token("lbracket"), NoNode, Token("rbracket")>> /\ outcome = Items(NoNode)
  OBVIOUS
<1> DEFINE n == Node("array", kids, IF outcome = "ok" THEN Nil ELSE Nil)
<1> HIDE DEF kids, outcome
<1>4. End(n, outcome)
  BY <1>3, EmptyArrayEnd
<1> QED
  BY <1>1, <1>2, <1>4, VisitKeeps

(* ArrayIndex keeps the invariant.                                         *)
LEMMA ArrayIndexKeeps ==
    ASSUME IInv, ArrayIndex
    PROVE  IInv'
<1> DEFINE a == Top(2, 1)
           x == Top(2, 2)
           kids == <<a, Token("lbracket"), x, Token("rbracket")>>
           outcome == IndexOutcome(a, x)
           type == Resolved(a.type.of[1])
<1>1. Running /\ 2 <= Len(trees) /\ GoodTree(a) /\ GoodTree(x)
  BY TopGood DEF ArrayIndex
<1>2. /\ Visit(2, "array_index", kids, outcome, type)
      /\ a.rule \in Idents /\ x.rule \in Expressions
  BY DEF ArrayIndex, IsExpr
<1>3. /\ kids = <<a, Token("lbracket"), x, Token("rbracket")>>
      /\ outcome = IndexOutcome(a, x)
  OBVIOUS
<1> DEFINE n == Node("array_index", kids, IF outcome = "ok" THEN type ELSE Nil)
<1> HIDE DEF a, x, kids, outcome
<1>4. End(n, outcome)
  BY <1>1, <1>2, <1>3, ArrayIndexEnd
<1> QED
  BY <1>1, <1>2, <1>4, VisitKeeps

(* Func keeps the invariant.                                               *)
LEMMA FuncKeeps ==
    ASSUME IInv, Func
    PROVE  IInv'
<1> DEFINE f == Top(2, 1)
           list == Top(2, 2)
           kids == <<f, Token("lpar"), list, Token("rpar")>>
           outcome == CallOutcome(f, list)
           type == Resolved(f.type)
<1>1. Running /\ 2 <= Len(trees) /\ GoodTree(f) /\ GoodTree(list)
  BY TopGood DEF Func
<1>2. /\ Visit(2, "func", kids, outcome, type)
      /\ f.rule \in Idents /\ (list.rule = "inputs" \/ list.rule \in Expressions)
  BY DEF Func, Callee, OneOf, IsExpr, Idents
<1>3. /\ kids = <<f, Token("lpar"), list, Token("rpar")>>
      /\ outcome = CallOutcome(f, list)
  OBVIOUS
<1> DEFINE n == Node("func", kids, IF outcome = "ok" THEN type ELSE Nil)
<1> HIDE DEF f, list, kids, outcome
<1>4. End(n, outcome)
  BY <1>1, <1>2, <1>3, FuncEnd
<1> QED
  BY <1>1, <1>2, <1>4, VisitKeeps

(* EmptyFunc keeps the invariant.                                          *)
LEMMA EmptyFuncKeeps ==
    ASSUME IInv, EmptyFunc
    PROVE  IInv'
<1> DEFINE f == Top(1, 1)
           list == NoNode
           kids == <<f, Token("lpar"), list, Token("rpar")>>
           outcome == CallOutcome(f, list)
           type == Resolved(f.type)
<1>1. Running /\ 1 <= Len(trees) /\ GoodTree(f)
  BY TopGood DEF EmptyFunc
<1>2. /\ Visit(1, "func", kids, outcome, type)
      /\ f.rule \in Idents
  BY DEF EmptyFunc, Callee, Idents
<1>3. /\ kids = <<f, Token("lpar"), list, Token("rpar")>>
      /\ outcome = CallOutcome(f, list) /\ list = NoNode
  OBVIOUS
<1> DEFINE n == Node("func", kids, IF outcome = "ok" THEN type ELSE Nil)
<1> HIDE DEF f, list, kids, outcome
<1>4. End(n, outcome)
  BY <1>1, <1>2, <1>3, FuncEnd
<1> QED
  BY <1>1, <1>2, <1>4, VisitKeeps

(* Macro keeps the invariant.                                              *)
LEMMA MacroKeeps ==
    ASSUME IInv, Macro
    PROVE  IInv'
<1> DEFINE f == Top(2, 1)
           list == Top(2, 2)
           kids == <<f, Token("bang"), Token("lpar"), list, Token("rpar")>>
           outcome == CallOutcome(f, list)
           type == Resolved(f.type)
<1>1. Running /\ 2 <= Len(trees) /\ GoodTree(f) /\ GoodTree(list)
  BY TopGood DEF Macro
<1>2. /\ Visit(2, "macro", kids, outcome, type)
      /\ f.rule \in Idents /\ (list.rule = "inputs" \/ list.rule \in Expressions)
  BY DEF Macro, Callee, OneOf, IsExpr, Idents
<1>3. /\ kids = <<f, Token("bang"), Token("lpar"), list, Token("rpar")>>
      /\ outcome = CallOutcome(f, list)
  OBVIOUS
<1> DEFINE n == Node("macro", kids, IF outcome = "ok" THEN type ELSE Nil)
<1> HIDE DEF f, list, kids, outcome
<1>4. End(n, outcome)
  BY <1>1, <1>2, <1>3, MacroEnd
<1> QED
  BY <1>1, <1>2, <1>4, VisitKeeps

(* BareMacro keeps the invariant.                                          *)
LEMMA BareMacroKeeps ==
    ASSUME IInv, BareMacro
    PROVE  IInv'
<1> DEFINE f == Top(1, 1)
           kids == <<f, Token("bang")>>
           type == Resolved(f.type)
<1>1. Running /\ 1 <= Len(trees) /\ GoodTree(f)
  BY TopGood DEF BareMacro
<1>2. PICK outcome \in Anything : Visit(1, "macro", kids, outcome, type)
  BY DEF BareMacro
<1>3. f.rule \in Idents
  BY DEF BareMacro, Callee, Idents
<1>4. kids = <<f, Token("bang")>> /\ outcome \in Outcomes
  BY <1>2 DEF Anything
<1> DEFINE n == Node("macro", kids, IF outcome = "ok" THEN type ELSE Nil)
<1> HIDE DEF f, kids
<1>5. End(n, outcome)
  BY <1>1, <1>3, <1>4, BareMacroEnd
<1> QED
  BY <1>1, <1>2, <1>5, VisitKeeps

(* Two operands on top: for every rule it suffices that its node ends well. *)
LEMMA BinaryKeeps ==
    ASSUME IInv, Has(2), Top(2, 1).rule \in Expressions, Top(2, 2).rule \in Expressions,
           NEW rule \in Operations, NEW op, NEW outcome, NEW type,
           Binary(rule, op, outcome, type),
           \A n, kids : Operation(n, kids, rule, Top(2, 1), op, Top(2, 2),
                                  IF outcome = "ok" THEN type ELSE Nil) => End(n, outcome)
    PROVE  IInv'
<1> DEFINE a == Top(2, 1)
           b == Top(2, 2)
           kids == <<a, Token(op), b>>
           n == Node(rule, kids, IF outcome = "ok" THEN type ELSE Nil)
<1>1. Running /\ 2 <= Len(trees) /\ GoodTree(a) /\ GoodTree(b)
  BY TopGood
<1>2. Visit(2, rule, kids, outcome, type)
  BY DEF Binary
<1>3. Operation(n, kids, rule, a, op, b, IF outcome = "ok" THEN type ELSE Nil)
  BY <1>1, Zenon DEF Operation
<1>4. End(n, outcome)
  BY <1>3, Zenon
<1> HIDE DEF a, b, kids
<1> QED
  BY <1>1, <1>2, <1>4, VisitKeeps

(* Logical keeps the invariant.                                            *)
LEMMA LogicalKeeps ==
    ASSUME IInv, Logical
    PROVE  IInv'
<1> DEFINE a == Top(2, 1)
           b == Top(2, 2)
           outcome == Then(Expect(a, "BOOL"), Expect(b, "BOOL"))
<1>1. PICK rule \in {"bor", "ban"} :
         Operands(rule) /\ Binary(rule, "and", outcome, Base("BOOL"))
  BY DEF Logical
<1>2. Has(2) /\ a.rule \in Expressions /\ b.rule \in Expressions /\ rule \in Operations
  BY <1>1 DEF Operands, IsExpr, Operations
<1>3. outcome = Then(Expect(a, "BOOL"), Expect(b, "BOOL"))
  OBVIOUS
<1> HIDE DEF a, b, outcome
<1>4. \A n, kids : Operation(n, kids, rule, a, "and", b,
                             IF outcome = "ok" THEN Base("BOOL") ELSE Nil) => End(n, outcome)
  BY <1>3, LogicalEnd
<1> QED
  BY <1>1, <1>2, <1>4, BinaryKeeps DEF a, b

(* Comparison keeps the invariant.                                         *)
LEMMA ComparisonKeeps ==
    ASSUME IInv, Comparison
    PROVE  IInv'
<1> DEFINE a == Top(2, 1)
           b == Top(2, 2)
           outcome == Match(a.type, b)
<1>1. Operands("beq") /\ Binary("beq", "less", outcome, Base("BOOL"))
  BY DEF Comparison
<1>2. Has(2) /\ a.rule \in Expressions /\ b.rule \in Expressions /\ "beq" \in Operations
  BY <1>1 DEF Operands, IsExpr, Operations
<1>3. outcome = Match(a.type, b)
  OBVIOUS
<1> HIDE DEF a, b, outcome
<1>4. \A n, kids : Operation(n, kids, "beq", a, "less", b,
                             IF outcome = "ok" THEN Base("BOOL") ELSE Nil) => End(n, outcome)
  BY <1>3, ComparisonEnd
<1> QED
  BY <1>1, <1>2, <1>4, BinaryKeeps DEF a, b

(* Not keeps the invariant.                                                *)
LEMMA NotKeeps ==
    ASSUME IInv, Not
    PROVE  IInv'
<1> DEFINE e == Top(1, 1)
           kids == <<Token("bang"), e>>
           outcome == Expect(e, "BOOL")
<1>1. Running /\ 1 <= Len(trees) /\ GoodTree(e)
  BY TopGood DEF Not
<1>2. Visit(1, "bno", kids, outcome, Base("BOOL")) /\ e.rule \in Expressions
  BY DEF Not, IsExpr
<1>3. outcome = Expect(e, "BOOL")
  OBVIOUS
<1> HIDE DEF e, outcome
<1>4. End(Node("bno", kids, IF outcome = "ok" THEN Base("BOOL") ELSE Nil), outcome)
  BY <1>1, <1>2, <1>3, NotEnd
<1> HIDE DEF kids
<1> QED
  BY <1>1, <1>2, <1>4, VisitKeeps

(* Arithmetic keeps the invariant.                                         *)
LEMMA ArithmeticKeeps ==
    ASSUME IInv, Arithmetic
    PROVE  IInv'
<1> DEFINE a == Top(2, 1)
           b == Top(2, 2)
           Choice(outcome, type) ==
              \/ a.type = Nil /\ outcome = "crash" /\ type = Nil
              \/ a.type # Nil /\ Numeric(a) = {} /\ outcome = a.blame /\ type = Nil
              \/ /\ a.type # Nil
                 /\ \E c \in Numeric(a) : outcome = Expect(b, c) /\ type = Base(c)
<1>1. PICK rule \in {"exp", "ter"} :
         /\ Operands(rule)
         /\ IF a.type = Nil THEN Binary(rule, "plus", "crash", Nil)
            ELSE IF Numeric(a) = {} THEN Binary(rule, "plus", a.blame, Nil)
            ELSE \E c \in Numeric(a) : Binary(rule, "plus", Expect(b, c), Base(c))
  BY DEF Arithmetic
<1>2. Has(2) /\ a.rule \in Expressions /\ b.rule \in Expressions /\ rule \in Operations
  BY <1>1 DEF Operands, IsExpr, Operations
<1>3. \E outcome, type : Choice(outcome, type) /\ Binary(rule, "plus", outcome, type)
  <2> HIDE DEF a, b
  <2>1. CASE a.type = Nil
    BY <1>1, <2>1
  <2>2. CASE a.type # Nil /\ Numeric(a) = {}
    BY <1>1, <2>2
  <2>3. CASE a.type # Nil /\ Numeric(a) # {}
    <3>1. PICK c \in Numeric(a) : Binary(rule, "plus", Expect(b, c), Base(c))
      BY <1>1, <2>3
    <3>2. Choice(Expect(b, c), Base(c))
      BY <2>3, <3>1
    <3> QED
      BY <3>1, <3>2
  <2> QED
    BY <2>1, <2>2, <2>3
<1>4. PICK outcome, type : Choice(outcome, type) /\ Binary(rule, "plus", outcome, type)
  BY <1>3
<1> HIDE DEF a, b
<1>5. \A n, kids : Operation(n, kids, rule, a, "plus", b,
                             IF outcome = "ok" THEN type ELSE Nil) => End(n, outcome)
  BY <1>4, ArithmeticEnd
<1> QED
  BY <1>2, <1>4, <1>5, BinaryKeeps DEF a, b

(* Modulo keeps the invariant.                                             *)
LEMMA ModuloKeeps ==
    ASSUME IInv, Modulo
    PROVE  IInv'
<1> DEFINE a == Top(2, 1)
           b == Top(2, 2)
           outcome == Then(Expect(a, "I64"), Expect(b, "I64"))
<1>1. Operands("ter") /\ Binary("ter", "percent", outcome, Nil)
  BY DEF Modulo
<1>2. Has(2) /\ a.rule \in Expressions /\ b.rule \in Expressions /\ "ter" \in Operations
  BY <1>1 DEF Operands, IsExpr, Operations
<1>3. outcome = Then(Expect(a, "I64"), Expect(b, "I64"))
  OBVIOUS
<1>4. (IF outcome = "ok" THEN Nil ELSE Nil) = Nil
  OBVIOUS
<1> HIDE DEF a, b, outcome
<1>5. \A n, kids : Operation(n, kids, "ter", a, "percent", b, Nil) => End(n, outcome)
  BY <1>3, ModuloEnd
<1> QED
  BY <1>1, <1>2, <1>4, <1>5, BinaryKeeps DEF a, b

(* ForExpr keeps the invariant.                                            *)
LEMMA ForExprKeeps ==
    ASSUME IInv, ForExpr
    PROVE  IInv'
<1> DEFINE a == Top(2, 1)
           b == Top(2, 2)
           outcome == Then(Expect(a, "I64"), Expect(b, "I64"))
<1>1. /\ Has(2) /\ a.rule \in Expressions /\ b.rule \in Expressions
      /\ Binary("for_expr", "dots", outcome, Nil)
  BY DEF ForExpr, IsExpr
<1>2. outcome = Then(Expect(a, "I64"), Expect(b, "I64")) /\ "for_expr" \in Operations
  BY DEF Operations
<1>3. (IF outcome = "ok" THEN Nil ELSE Nil) = Nil
  OBVIOUS
<1> HIDE DEF a, b, outcome
<1>4. \A n, kids : Operation(n, kids, "for_expr", a, "dots", b, Nil) => End(n, outcome)
  BY <1>2, ForExprEnd
<1> QED
  BY <1>1, <1>2, <1>3, <1>4, BinaryKeeps DEF a, b

(* AssignStm keeps the invariant.                                          *)
LEMMA AssignKeeps ==
    ASSUME IInv, AssignStm
    PROVE  IInv'
<1> DEFINE a == Top(2, 1)
           b == Top(2, 2)
           outcome == Match(a.type, b)
<1>1. /\ Has(2) /\ a.rule \in Expressions /\ b.rule \in Expressions
      /\ Binary("assign_stm", "eq", outcome, Nil)
  BY DEF AssignStm, IsExpr, Binary, Expressions, Idents
<1>2. outcome = Match(a.type, b) /\ "assign_stm" \in Operations
  BY DEF Operations
<1>3. (IF outcome = "ok" THEN Nil ELSE Nil) = Nil
  OBVIOUS
<1> HIDE DEF a, b, outcome
<1>4. \A n, kids : Operation(n, kids, "assign_stm", a, "eq", b, Nil) => End(n, outcome)
  BY <1>2, AssignEnd
<1> QED
  BY <1>1, <1>2, <1>3, <1>4, BinaryKeeps DEF a, b

(* UpdateStm keeps the invariant.                                          *)
LEMMA UpdateKeeps ==
    ASSUME IInv, UpdateStm
    PROVE  IInv'
<1> DEFINE a == Top(2, 1)
           b == Top(2, 2)
           outcome == IF CheckType(a.type, "ARRAY") THEN "ok" ELSE Match(a.type, b)
<1>1. /\ Has(2) /\ a.rule \in {"variable", "array_index"} /\ b.rule \in Expressions
      /\ Binary("update_stm", "eq", outcome, Nil)
  BY DEF UpdateStm, IsExpr, Binary
<1>2. /\ outcome = IF CheckType(a.type, "ARRAY") THEN "ok" ELSE Match(a.type, b)
      /\ "update_stm" \in Operations
  BY DEF Operations
<1>3. (IF outcome = "ok" THEN Nil ELSE Nil) = Nil
  OBVIOUS
<1> HIDE DEF a, b, outcome
<1>4. \A n, kids : Operation(n, kids, "update_stm", a, "eq", b, Nil) => End(n, outcome)
  BY <1>1, <1>2, UpdateEnd
<1>5. a.rule \in Expressions
  BY <1>1 DEF Expressions, Idents
<1> QED
  BY <1>1, <1>2, <1>3, <1>4, <1>5, BinaryKeeps DEF a, b

(* One operand on top.                                                     *)
LEMMA ParenthesesKeeps ==
    ASSUME IInv, Parentheses
    PROVE  IInv'
<1> DEFINE e == Top(1, 1)
           kids == <<Token("lpar"), e, Token("rpar")>>
           outcome == IF e.type = Nil THEN "crash" ELSE "ok"
<1>1. Running /\ 1 <= Len(trees) /\ GoodTree(e)
  BY TopGood DEF Parentheses
<1>2. Visit(1, "fac", kids, outcome, Resolved(e.type)) /\ e.rule \in Expressions
  BY DEF Parentheses, IsExpr
<1>3. /\ outcome = IF e.type = Nil THEN "crash" ELSE "ok"
      /\ kids = <<Token("lpar"), e, Token("rpar")>>
  OBVIOUS
<1> HIDE DEF e, outcome, kids
<1>4. End(Node("fac", kids, IF outcome = "ok" THEN Resolved(e.type) ELSE Nil), outcome)
  BY <1>1, <1>2, <1>3, ParenthesesEnd
<1> QED
  BY <1>1, <1>2, <1>4, VisitKeeps

(* Negation keeps the invariant.                                           *)
LEMMA NegationKeeps ==
    ASSUME IInv, Negation
    PROVE  IInv'
<1> DEFINE e == Top(1, 1)
           kids == <<Token("minus"), e>>
           outcome == IF e.type = Nil THEN "crash"
                      ELSE IF Numeric(e) # {} THEN "ok" ELSE e.blame
<1>1. Running /\ 1 <= Len(trees) /\ GoodTree(e)
  BY TopGood DEF Negation
<1>2. Visit(1, "fac", kids, outcome, Nil) /\ e.rule \in Expressions
  BY DEF Negation, IsExpr
<1>3. outcome \in {"crash", "ok", e.blame} /\ kids = <<Token("minus"), e>>
  OBVIOUS
<1> HIDE DEF e, outcome, kids
<1>4. End(Node("fac", kids, IF outcome = "ok" THEN Nil ELSE Nil), outcome)
  BY <1>1, <1>2, <1>3, NegationEnd
<1> QED
  BY <1>1, <1>2, <1>4, VisitKeeps

(* RetStmt keeps the invariant.                                            *)
LEMMA RetKeeps ==
    ASSUME IInv, RetStmt
    PROVE  IInv'
<1> DEFINE e == Top(1, 1)
           kids == <<Token("return"), e, Token("semicolon")>>
           n == Node("ret_stmt", kids, Nil)
<1>1. Running /\ 1 <= Len(trees) /\ GoodTree(e)
  BY TopGood DEF RetStmt
<1>2. Visit(1, "ret_stmt", kids, "ok", Nil) /\ e.rule \in Expressions
  BY DEF RetStmt, IsExpr
<1>3. kids = <<Token("return"), e, Token("semicolon")>>
  OBVIOUS
<1> HIDE DEF e, kids
<1>4. End(n, "ok")
  BY <1>1, <1>2, <1>3, RetEnd
<1>5. n = Node("ret_stmt", kids, IF "ok" = "ok" THEN Nil ELSE Nil)
  OBVIOUS
<1> HIDE DEF n
<1> QED
  BY <1>1, <1>2, <1>4, <1>5, VisitKeeps

(* EmptyRetStmt keeps the invariant.                                       *)
LEMMA EmptyRetKeeps ==
    ASSUME IInv, EmptyRetStmt
    PROVE  IInv'
<1> DEFINE kids == <<Token("return"), Token("semicolon")>>
           n == Node("ret_stmt", kids, Nil)
<1>1. Running /\ Visit(0, "ret_stmt", kids, "ok", Nil) /\ 0 <= Len(trees)
  BY SequenceShape DEF EmptyRetStmt, IInv
<1>2. kids = <<Token("return"), Token("semicolon")>>
  OBVIOUS
<1> HIDE DEF kids
<1>3. End(n, "ok")
  BY <1>2, EmptyRetEnd
<1>4. n = Node("ret_stmt", kids, IF "ok" = "ok" THEN Nil ELSE Nil)
  OBVIOUS
<1> HIDE DEF n
<1> QED
  BY <1>1, <1>3, <1>4, VisitKeeps

(* A head and the statements on top of it: for every block it suffices     *)
(* that its node ends well.                                                *)
LEMMA BlockKeeps ==
    ASSUME IInv, Running, NEW h \in Heads, NEW rule \in Blocks, NEW outcome,
           Block(h, rule, outcome),
           \A n, kids : IsBlock(n, rule, kids, trees[h], Body(h)) => End(n, outcome)
    PROVE  IInv'
<1> DEFINE a == trees[h]
           ss == SubSeq(trees, h + 1, Len(trees))
           b == Body(h)
           kids == <<a, b>>
           n == Node(rule, kids, Nil)
           k == Len(trees) - h + 1
<1>1. /\ IsSeq(trees) /\ Len(trees) \in Nat /\ DOMAIN trees = 1 .. Len(trees)
      /\ \A i \in DOMAIN trees : GoodTree(trees[i])
  BY SequenceShape DEF IInv, Running
<1>2. h \in DOMAIN trees /\ h \in Nat /\ h <= Len(trees)
  BY <1>1 DEF Heads
<1>3. GoodTree(a)
  BY <1>1, <1>2
<1>4. IsSeq(ss) /\ \A i \in DOMAIN ss : \E j \in DOMAIN trees : ss[i] = trees[j]
  BY <1>1, <1>2, SubSeqShape
<1>5. b = Node("StatementList", ss, Nil)
  BY Zenon DEF Body, Above
<1>6. Visit(k, rule, <<a, b>>, outcome, Nil)
  BY Zenon DEF Block
<1>7. k \in Nat /\ k <= Len(trees)
  <2>1. h >= 1
    BY <1>1, <1>2
  <2> QED
    BY <1>1, <1>2, <2>1
<1> HIDE DEF ss, b, k
<1>8. \A i \in DOMAIN ss : GoodTree(ss[i])
  BY <1>1, <1>4
<1>9. GoodTree(b) /\ b.rule = "StatementList"
  BY <1>4, <1>5, <1>8, BodyGood
<1>10. IsBlock(n, rule, kids, a, b)
  BY <1>3, <1>9, Zenon DEF IsBlock
<1>11. End(n, outcome)
  BY <1>10, Zenon DEF b
<1>12. Visit(k, rule, kids, outcome, Nil)
  BY <1>6, Zenon
<1>13. n = Node(rule, kids, IF outcome = "ok" THEN Nil ELSE Nil)
  OBVIOUS
<1> HIDE DEF kids, n
<1> QED
  BY <1>7, <1>11, <1>12, <1>13, VisitKeeps

(* WhileStm keeps the invariant.                                           *)
LEMMA WhileKeeps ==
    ASSUME IInv, WhileStm
    PROVE  IInv'
<1>1. PICK h \in Heads : /\ IsExpr(trees[h], 1)
                         /\ Block(h, "while_stm", Expect(trees[h], "BOOL"))
  BY DEF WhileStm
<1> DEFINE outcome == Expect(trees[h], "BOOL")
<1>2. Running /\ trees[h].rule \in Expressions /\ "while_stm" \in Blocks
  BY <1>1 DEF WhileStm, IsExpr, Blocks
<1>3. \A n, kids : IsBlock(n, "while_stm", kids, trees[h], Body(h)) => End(n, outcome)
  BY <1>2, WhileEnd
<1> QED
  BY <1>1, <1>2, <1>3, BlockKeeps

(* SingleIf keeps the invariant.                                           *)
LEMMA SingleIfKeeps ==
    ASSUME IInv, SingleIf
    PROVE  IInv'
<1>1. PICK h \in Heads : IsExpr(trees[h], 1) /\ Block(h, "single_if", "ok")
  BY DEF SingleIf
<1>2. Running /\ trees[h].rule \in Expressions /\ "single_if" \in Blocks
  BY <1>1 DEF SingleIf, IsExpr, Blocks
<1>3. \A n, kids : IsBlock(n, "single_if", kids, trees[h], Body(h)) => End(n, "ok")
  BY <1>2, SingleIfEnd
<1> QED
  BY <1>1, <1>2, <1>3, BlockKeeps

(* ForStm keeps the invariant.                                             *)
LEMMA ForKeeps ==
    ASSUME IInv, ForStm
    PROVE  IInv'
<1>1. PICK h \in Heads : trees[h].rule = "for_expr" /\ Block(h, "for_stm", "ok")
  BY DEF ForStm
<1>2. Running /\ "for_stm" \in Blocks
  BY DEF ForStm, Blocks
<1>3. \A n, kids : IsBlock(n, "for_stm", kids, trees[h], Body(h)) => End(n, "ok")
  BY ForEnd
<1> QED
  BY <1>1, <1>2, <1>3, BlockKeeps

(* FunctionDef keeps the invariant.                                        *)
LEMMA FunctionDefKeeps ==
    ASSUME IInv, FunctionDef
    PROVE  IInv'
<1>1. PICK h \in Heads :
         /\ trees[h].rule = "function"
         /\ Block(h, "function_def",
                  CheckReturns(Resolved(trees[h].type), Body(h)))
  BY DEF FunctionDef
<1> DEFINE outcome == CheckReturns(Resolved(trees[h].type), Body(h))
<1>2. Running /\ "function_def" \in Blocks
  BY DEF FunctionDef, Blocks
<1>3. \A n, kids : IsBlock(n, "function_def", kids, trees[h], Body(h)) => End(n, outcome)
  BY <1>1, FunctionDefEnd
<1> QED
  BY <1>1, <1>2, <1>3, BlockKeeps

-----------------------------------------------------------------------------
(* The invariant.                                                          *)

(* It holds in every reachable state.                                      *)
LEMMA IInvHolds == Spec => []IInv
<1>1. Init => IInv
  <2> SUFFICES ASSUME Init PROVE IInv
    OBVIOUS
  <2>1. /\ grammar \in DOMAIN Grammars /\ trees = <<>> /\ visited = 0 /\ exit = "no"
        /\ MaxNodes \in Nat
    BY GrammarsAssumption DEF Init, MaxNodes
  <2>2. IsSeq(trees) /\ DOMAIN trees = {} /\ Len(trees) = 0
    BY <2>1, EmptyIsSeq
  <2>3. TypeOK
    BY <2>1, <2>2 DEF TypeOK
  <2> QED
    BY <2>1, <2>2, <2>3 DEF IInv, Complete, TypedWhereRead, Accepted
<1>2. IInv /\ [Next]_vars => IInv'
  <2> SUFFICES ASSUME IInv, [Next]_vars PROVE IInv'
    OBVIOUS
  <2>1. CASE Terminal
    BY <2>1, TerminalKeeps
  <2>2. CASE \E rule \in {"items", "inputs"} : List(rule)
    BY <2>2, ListKeeps
  <2>3. CASE Array \/ EmptyArray \/ ArrayIndex
    BY <2>3, ArrayKeeps, EmptyArrayKeeps, ArrayIndexKeeps
  <2>4. CASE Func \/ EmptyFunc \/ Macro \/ BareMacro
    BY <2>4, FuncKeeps, EmptyFuncKeeps, MacroKeeps, BareMacroKeeps
  <2>5. CASE Logical \/ Comparison \/ Not
    BY <2>5, LogicalKeeps, ComparisonKeeps, NotKeeps
  <2>6. CASE Arithmetic \/ Modulo \/ Parentheses \/ Negation
    BY <2>6, ArithmeticKeeps, ModuloKeeps, ParenthesesKeeps, NegationKeeps
  <2>7. CASE AssignStm \/ UpdateStm \/ RetStmt \/ EmptyRetStmt
    BY <2>7, AssignKeeps, UpdateKeeps, RetKeeps, EmptyRetKeeps
  <2>8. CASE WhileStm \/ SingleIf \/ ForExpr \/ ForStm \/ FunctionDef
    BY <2>8, WhileKeeps, SingleIfKeeps, ForExprKeeps, ForKeeps, FunctionDefKeeps
  <2>9. CASE UNCHANGED vars
    BY <2>9 DEF vars, IInv, TypeOK, MaxNodes, Complete, TypedWhereRead, Accepted
  <2> QED
    BY <2>1, <2>2, <2>3, <2>4, <2>5, <2>6, <2>7, <2>8, <2>9 DEF Next
<1> QED
  BY <1>1, <1>2, PTL DEF Spec

(* The tree the walk left last, if the checker is still running.           *)
LEMMA AcceptedGood ==
    ASSUME IInv, NEW node \in Accepted
    PROVE  GoodTree(node)
<1>1. exit = "no" /\ trees # <<>> /\ node = trees[Len(trees)]
  BY DEF Accepted, Last
<1>2. IsSeq(trees) /\ \A i \in DOMAIN trees : GoodTree(trees[i])
  BY <1>1 DEF IInv
<1>3. Len(trees) \in DOMAIN trees
  BY <1>1, <1>2 DEF IsSeq
<1> QED
  BY <1>1, <1>2, <1>3

(* No tree but a function's name has a function's type.                    *)
THEOREM TypesResolved == Spec => []TypeOK
<1>1. IInv => TypeOK
  BY DEF IInv
<1> QED
  BY <1>1, IInvHolds, PTL

(* What the checker accepts is well typed, unless it has a construct that  *)
(* TypeRules names.                                                        *)
THEOREM AcceptedWellTyped == Spec => []Sound
<1>1. IInv => Sound
  BY AcceptedGood DEF Sound, GoodTree
<1> QED
  BY <1>1, IInvHolds, PTL

(* What it rejects or crashes on is ill typed, unless it has one it gets   *)
(* wrong.                                                                  *)
THEOREM RejectedIllTyped == Spec => []Complete
<1>1. IInv => Complete
  BY DEF IInv
<1> QED
  BY <1>1, IInvHolds, PTL

(* The type of an accepted expression is the one the rules give it.        *)
THEOREM TypesAgree == Spec => []Agrees
<1>1. ASSUME IInv, NEW node \in Accepted, node.rule \in Expressions, node.quirks = {}
      PROVE  node.type = node.means
  <2>1. GoodTree(node)
    BY <1>1, AcceptedGood
  <2>2. GoodExpression(node)
    BY <1>1, <2>1 DEF GoodTree
  <2>3. CASE node.rule \in Functions
    <3>1. IsLeaf(node)
      BY <2>2, <2>3 DEF GoodExpression, Idents
    <3> QED
      BY <1>1, <3>1, LeafGood
  <2>4. CASE node.rule \notin Functions
    BY <1>1, <2>2, <2>4 DEF GoodExpression, WellTyped
  <2> QED
    BY <2>3, <2>4
<1>2. IInv => Agrees
  BY <1>1 DEF Agrees
<1> QED
  BY <1>2, IInvHolds, PTL

(* The types that intercode.c reads without a test are there.              *)
THEOREM TypesPresent == Spec => []TypedWhereRead
<1>1. IInv => TypedWhereRead
  BY DEF IInv
<1> QED
  BY <1>1, IInvHolds, PTL
=============================================================================
