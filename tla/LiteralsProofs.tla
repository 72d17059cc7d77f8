--------------------------- MODULE LiteralsProofs ---------------------------
(***************************************************************************)
(* What holds of literals of every length, over every alphabet.            *)
(*                                                                         *)
(* First, what the recursive functions of Literals and LiteralRules        *)
(* compute, for regions of every size: the printing of a region byte by    *)
(* byte (SetupString, SetupFloat), gcc's reading of what was printed       *)
(* (GccString, GccFloat) and what a text stands for (Meant).  Induction is *)
(* over sets of counterexamples (LeastNumber), from the end of a text to   *)
(* its front.  The results: gcc finds each entry where its address says,   *)
(* as it is in the region (StringsHold, FloatsHold).                       *)
(*                                                                         *)
(* Then the invariants.  The addresses need two facts more than            *)
(* RegionsDisjoint says: an address is given only to an entry that the     *)
(* region has, and the literal that deescape() works on has none yet.      *)
(* That the running program finds there what the literal says needs more:  *)
(* what deescape() has made of a text, and that the addresses counted      *)
(* while lexing are the places at which the regions are laid out in the    *)
(* end (Faithful).                                                         *)
(***************************************************************************)
EXTENDS LiteralRules, LeastNumber, SequenceTheorems, FiniteSetTheorems, TLAPS

-----------------------------------------------------------------------------
(* Flat                                                                    *)
Upto(ss) ==
    LET Upto[n \in 0 .. Len(ss)] == IF n = 0 THEN <<>> ELSE Upto[n - 1] \o ss[n]
    IN  Upto

(* Flat is the last value of the function that defines it.                 *)
LEMMA FlatIsUpto == \A ss : Flat(ss) = Upto(ss)[Len(ss)]
BY Zenon DEF Flat, Upto

(* The concatenation of a sequence's first elements satisfies its equation. *)
LEMMA UptoExists ==
    ASSUME NEW ss, Len(ss) \in Nat
    PROVE  Upto(ss) = [n \in 0 .. Len(ss) |-> IF n = 0 THEN <<>>
                                             ELSE Upto(ss)[n - 1] \o ss[n]]
<1> DEFINE Eq(m, f) == f = [n \in 0 .. m |-> IF n = 0 THEN <<>> ELSE f[n - 1] \o ss[n]]
           None == {m \in 0 .. Len(ss) : ~ \E f : Eq(m, f)}
<1>1. ASSUME NEW m \in None, \A k \in 0 .. m - 1 : k \notin None
      PROVE  FALSE
  <2>1. CASE m = 0
    <3>1. Eq(0, [n \in 0 .. 0 |-> <<>>])
      OBVIOUS
    <3> QED
      BY <2>1, <3>1
  <2>2. CASE m # 0
    <3>1. m \in 1 .. Len(ss) /\ m - 1 \in 0 .. Len(ss) /\ m - 1 \in 0 .. m - 1
      <4> HIDE DEF Eq
      <4> QED
        BY <2>2
    <3>2. PICK f : Eq(m - 1, f)
      <4>1. m - 1 \notin None
        <5> HIDE DEF None, Eq
        <5> QED
          BY <1>1, <3>1
      <4> HIDE DEF Eq
      <4> QED
        BY <3>1, <4>1
    <3>3. \A n \in 0 .. m - 1 : f[n] = IF n = 0 THEN <<>> ELSE f[n - 1] \o ss[n]
      <4> HIDE DEF None
      <4> QED
        BY <3>2
    <3> DEFINE g == [n \in 0 .. m |-> IF n = m THEN f[m - 1] \o ss[m] ELSE f[n]]
    <3> HIDE DEF None, Eq
    <3>4. \A n \in 0 .. m - 1 : g[n] = f[n] /\ n # m
      BY <3>1
    <3>5. g[m] = f[m - 1] \o ss[m]
      BY <3>1
    <3>6. g = [n \in 0 .. m |-> g[n]]
      OBVIOUS
    <3> HIDE DEF g
    <3>7. ASSUME NEW n \in 0 .. m
          PROVE  g[n] = IF n = 0 THEN <<>> ELSE g[n - 1] \o ss[n]
      <4>1. CASE n = m
        <5>1. g[m - 1] = f[m - 1]
          BY <3>1, <3>4
        <5> QED
          BY <2>2, <3>5, <4>1, <5>1
      <4>2. CASE n # m
        <5>1. n \in 0 .. m - 1
          BY <3>1, <4>2
        <5>2. n # 0 => n - 1 \in 0 .. m - 1
          BY <3>1
        <5>3. n # 0 => g[n - 1] = f[n - 1]
          BY <3>4, <5>2
        <5> QED
          BY <3>3, <3>4, <5>1, <5>3, Zenon
      <4> QED
        BY <4>1, <4>2
    <3>8. Eq(m, g)
      BY <3>6, <3>7, Zenon DEF Eq
    <3>9. m \notin None
      BY <3>8 DEF None
    <3> QED
      BY <3>9
  <2> QED
    BY <2>1, <2>2
<1>2. None = {}
  <2>1. None \in SUBSET (0 .. Len(ss)) /\ Len(ss) \in Nat
    OBVIOUS
  <2> HIDE DEF None
  <2> QED
    BY <1>1, <2>1, NoLeast
<1>3. \E f : Eq(Len(ss), f)
  <2>1. Len(ss) \in 0 .. Len(ss)
    OBVIOUS
  <2> HIDE DEF Eq
  <2> QED
    BY <1>2, <2>1
<1>4. Upto(ss) = CHOOSE f : Eq(Len(ss), f)
  BY Zenon DEF Upto
<1> QED
  <2> HIDE DEF Eq
  <2>1. Eq(Len(ss), Upto(ss))
    BY <1>3, <1>4, Zenon
  <2> QED
    BY <2>1 DEF Eq

(* The concatenation of the first n elements is that of one less and the   *)
(* n-th.                                                                   *)
LEMMA UptoStep ==
    ASSUME NEW ss, Len(ss) \in Nat
    PROVE  /\ Upto(ss)[0] = <<>>
           /\ \A n \in 1 .. Len(ss) : Upto(ss)[n] = Upto(ss)[n - 1] \o ss[n]
<1>1. 0 \in 0 .. Len(ss) /\ \A n \in 1 .. Len(ss) : n \in 0 .. Len(ss) /\ n # 0
  OBVIOUS
<1> DEFINE f == Upto(ss)
<1>2. f = [n \in 0 .. Len(ss) |-> IF n = 0 THEN <<>> ELSE f[n - 1] \o ss[n]]
  BY UptoExists, Zenon
<1> HIDE DEF f
<1>3. f[0] = <<>> /\ \A n \in 1 .. Len(ss) : f[n] = f[n - 1] \o ss[n]
  BY <1>1, <1>2
<1> QED
  BY <1>3 DEF f

(* Concatenations of sequences over S are sequences over S.                *)
LEMMA UptoType ==
    ASSUME NEW S, NEW ss \in Seq(Seq(S))
    PROVE  \A n \in 0 .. Len(ss) : Upto(ss)[n] \in Seq(S)
<1> DEFINE f == Upto(ss)
           Bad == {n \in 0 .. Len(ss) : f[n] \notin Seq(S)}
<1>1. Len(ss) \in Nat /\ \A n \in 1 .. Len(ss) : ss[n] \in Seq(S)
  OBVIOUS
<1>2. f[0] = <<>> /\ \A n \in 1 .. Len(ss) : f[n] = f[n - 1] \o ss[n]
  BY <1>1, UptoStep
<1> HIDE DEF f
<1>3. ASSUME NEW m \in Bad, \A k \in 0 .. m - 1 : k \notin Bad
      PROVE  FALSE
  <2>0. m \in 0 .. Len(ss) /\ f[m] \notin Seq(S)
    OBVIOUS
  <2>1. m \in 1 .. Len(ss)
    <3>1. f[0] \in Seq(S)
      BY <1>2
    <3> QED
      BY <1>1, <2>0, <3>1
  <2>2. m - 1 \in 0 .. m - 1 /\ m - 1 \in 0 .. Len(ss)
    BY <1>1, <2>1
  <2>3. f[m - 1] \in Seq(S)
    BY <1>3, <2>2
  <2>4. f[m - 1] \o ss[m] \in Seq(S)
    BY <1>1, <2>1, <2>3
  <2> QED
    BY <1>2, <2>0, <2>1, <2>4
<1>4. Bad = {}
  <2>1. Bad \in SUBSET (0 .. Len(ss))
    OBVIOUS
  <2> HIDE DEF Bad
  <2> QED
    BY <1>1, <1>3, <2>1, NoLeast
<1> QED
  BY <1>4 DEF f

(* They depend on the elements concatenated and on nothing behind these.   *)
LEMMA UptoSame ==
    ASSUME NEW ss, NEW tt, NEW k \in Nat, Len(ss) \in Nat, Len(tt) \in Nat,
           k <= Len(ss), k <= Len(tt), \A n \in 1 .. k : tt[n] = ss[n]
    PROVE  Upto(tt)[k] = Upto(ss)[k]
<1> DEFINE f == Upto(ss)
           g == Upto(tt)
           Bad == {n \in 0 .. k : g[n] # f[n]}
<1>1. \A n \in 1 .. k : n \in 1 .. Len(ss) /\ n \in 1 .. Len(tt)
  OBVIOUS
<1>2. f[0] = <<>> /\ \A n \in 1 .. k : f[n] = f[n - 1] \o ss[n]
  BY <1>1, UptoStep
<1>3. g[0] = <<>> /\ \A n \in 1 .. k : g[n] = g[n - 1] \o tt[n]
  BY <1>1, UptoStep
<1> HIDE DEF f, g
<1>4. ASSUME NEW m \in Bad, \A n \in 0 .. m - 1 : n \notin Bad
      PROVE  FALSE
  <2>1. m \in 1 .. k
    BY <1>2, <1>3
  <2>2. m - 1 \in 0 .. m - 1 /\ m - 1 \in 0 .. k
    BY <2>1
  <2>3. g[m - 1] = f[m - 1]
    BY <1>4, <2>2
  <2> QED
    BY <1>2, <1>3, <2>1, <2>3
<1>5. Bad = {}
  <2>1. Bad \in SUBSET (0 .. k)
    OBVIOUS
  <2> HIDE DEF Bad
  <2> QED
    BY <1>4, <2>1, NoLeast
<1> QED
  BY <1>5 DEF f, g

(* What Flat makes of a sequence of sequences, one element at a time.      *)
LEMMA FlatType ==
    ASSUME NEW S, NEW ss \in Seq(Seq(S))
    PROVE  Flat(ss) \in Seq(S)
<1>1. Len(ss) \in 0 .. Len(ss)
  OBVIOUS
<1> QED
  BY <1>1, UptoType, FlatIsUpto

(* Nothing concatenated is the empty sequence.                             *)
LEMMA FlatEmpty == Flat(<<>>) = <<>>
<1>1. Len(<<>>) = 0 /\ 0 \in Nat
  OBVIOUS
<1> QED
  BY <1>1, UptoStep, FlatIsUpto

(* A last element is concatenated last.                                    *)
LEMMA FlatAppend ==
    ASSUME NEW S, NEW ss \in Seq(Seq(S)), NEW x \in Seq(S)
    PROVE  Flat(Append(ss, x)) = Flat(ss) \o x
<1> DEFINE tt == Append(ss, x)
           n == Len(ss)
<1>1. /\ n \in Nat /\ Len(ss) = n /\ Len(tt) = n + 1 /\ tt[n + 1] = x
      /\ \A m \in 1 .. n : tt[m] = ss[m]
  OBVIOUS
<1> HIDE DEF tt, n
<1>2. Upto(tt)[n] = Upto(ss)[n]
  <2>1. Len(ss) \in Nat /\ Len(tt) \in Nat /\ n <= Len(ss) /\ n <= Len(tt)
    BY <1>1
  <2> QED
    BY <1>1, <2>1, UptoSame, Zenon
<1>3. Upto(tt)[n + 1] = Upto(tt)[n] \o x
  <2>1. Len(tt) \in Nat /\ n + 1 \in 1 .. Len(tt) /\ n + 1 - 1 = n
    BY <1>1
  <2>2. \A j \in 1 .. Len(tt) : Upto(tt)[j] = Upto(tt)[j - 1] \o tt[j]
    BY <2>1, UptoStep
  <2>3. ASSUME NEW j, j = n + 1
        PROVE  Upto(tt)[j] = Upto(tt)[n] \o x
    <3>1. j \in 1 .. Len(tt) /\ j - 1 = n /\ tt[j] = x
      BY <1>1, <2>1, <2>3
    <3>2. Upto(tt)[j] = Upto(tt)[j - 1] \o tt[j]
      BY <2>2, <3>1
    <3> QED
      BY <3>1, <3>2
  <2> QED
    BY <2>3
<1>4. Flat(tt) = Upto(tt)[n + 1] /\ Flat(ss) = Upto(ss)[n]
  BY <1>1, FlatIsUpto DEF n
<1> QED
  BY <1>2, <1>3, <1>4 DEF tt

-----------------------------------------------------------------------------
(* A sequence grows from its prefixes.                                     *)
LEMMA PrefixFacts ==
    ASSUME NEW S, NEW q \in Seq(S)
    PROVE  /\ SubSeq(q, 1, 0) = <<>>
           /\ SubSeq(q, 1, Len(q)) = q
           /\ \A k \in 0 .. Len(q) : SubSeq(q, 1, k) \in Seq(S) /\ Len(SubSeq(q, 1, k)) = k
           /\ \A k \in 1 .. Len(q) : SubSeq(q, 1, k) = Append(SubSeq(q, 1, k - 1), q[k])
<1>1. Len(q) \in Nat /\ \A k \in 1 .. Len(q) : q[k] \in S
  OBVIOUS
<1>2. ASSUME NEW k \in 0 .. Len(q)
      PROVE  /\ SubSeq(q, 1, k) \in Seq(S) /\ Len(SubSeq(q, 1, k)) = k
             /\ \A m \in 1 .. k : SubSeq(q, 1, k)[m] = q[m]
  <2>1. \A m \in 1 .. k : m \in 1 .. Len(q)
    BY <1>1
  <2> QED
    BY <1>1, <2>1
<1>3. SubSeq(q, 1, 0) = <<>>
  <2>1. Len(SubSeq(q, 1, 0)) = 0 /\ SubSeq(q, 1, 0) \in Seq(S)
    BY <1>1, <1>2
  <2> QED
    BY <2>1
<1>4. SubSeq(q, 1, Len(q)) = q
  <2> DEFINE p == SubSeq(q, 1, Len(q))
  <2>1. p \in Seq(S) /\ Len(p) = Len(q) /\ \A m \in 1 .. Len(q) : p[m] = q[m]
    BY <1>1, <1>2
  <2> HIDE DEF p
  <2>2. p = q
    BY <2>1, SeqEqual
  <2> QED
    BY <2>2 DEF p
<1>5. ASSUME NEW k \in 1 .. Len(q)
      PROVE  SubSeq(q, 1, k) = Append(SubSeq(q, 1, k - 1), q[k])
  <2> DEFINE p == SubSeq(q, 1, k - 1)
             r == SubSeq(q, 1, k)
  <2>1. k \in 0 .. Len(q) /\ k - 1 \in 0 .. Len(q) /\ q[k] \in S
    BY <1>1
  <2>2. /\ p \in Seq(S) /\ Len(p) = k - 1 /\ \A m \in 1 .. k - 1 : p[m] = q[m]
        /\ r \in Seq(S) /\ Len(r) = k /\ \A m \in 1 .. k : r[m] = q[m]
    BY <1>2, <2>1
  <2> HIDE DEF p, r
  <2>3. /\ Append(p, q[k]) \in Seq(S) /\ Len(Append(p, q[k])) = k
        /\ \A m \in 1 .. k - 1 : Append(p, q[k])[m] = p[m]
        /\ Append(p, q[k])[k] = q[k]
    BY <2>1, <2>2
  <2>4. \A m \in 1 .. k : m = k \/ m \in 1 .. k - 1
    BY <2>1
  <2>5. \A m \in 1 .. k : Append(p, q[k])[m] = r[m]
    BY <2>2, <2>3, <2>4
  <2>6. Append(p, q[k]) = r
    BY <2>2, <2>3, <2>5, SeqEqual
  <2> QED
    BY <2>6 DEF p, r
<1> QED
  BY <1>2, <1>3, <1>4, <1>5

(* Length and elements of a concatenation.                                 *)
LEMMA ConcatFacts ==
    ASSUME NEW S, NEW a \in Seq(S), NEW b \in Seq(S)
    PROVE  /\ a \o b \in Seq(S) /\ Len(a \o b) = Len(a) + Len(b)
           /\ \A j \in 1 .. Len(a) + Len(b) :
                 (a \o b)[j] = IF j <= Len(a) THEN a[j] ELSE b[j - Len(a)]
OBVIOUS

(* Length and elements of a sequence with one element more.                *)
LEMMA AppendFacts ==
    ASSUME NEW S, NEW a \in Seq(S), NEW x \in S
    PROVE  /\ Append(a, x) \in Seq(S) /\ Len(Append(a, x)) = Len(a) + 1
           /\ Append(a, x)[Len(a) + 1] = x
           /\ \A j \in 1 .. Len(a) : Append(a, x)[j] = a[j]
           /\ Append(a, x) = a \o <<x>>
OBVIOUS

(* The empty sequence is neutral.                                          *)
LEMMA ConcatEmpty ==
    ASSUME NEW S, NEW a \in Seq(S)
    PROVE  a \o <<>> = a /\ <<>> \o a = a
OBVIOUS

(* An element appended to the second part is appended to the whole.        *)
LEMMA ConcatAppend ==
    ASSUME NEW S, NEW a \in Seq(S), NEW b \in Seq(S), NEW x \in S
    PROVE  /\ a \o Append(b, x) = Append(a \o b, x)
           /\ Append(a, x) = a \o <<x>>
OBVIOUS

(* Flat of two sequences of sequences, one behind the other.               *)
LEMMA FlatConcat ==
    ASSUME NEW S, NEW a \in Seq(Seq(S)), NEW b \in Seq(Seq(S))
    PROVE  Flat(a \o b) = Flat(a) \o Flat(b)
<1> DEFINE P(k) == SubSeq(b, 1, k)
           Bad == {k \in 0 .. Len(b) : Flat(a \o P(k)) # Flat(a) \o Flat(P(k))}
<1>1. /\ Len(b) \in Nat
      /\ P(0) = <<>> /\ P(Len(b)) = b
      /\ \A k \in 0 .. Len(b) : P(k) \in Seq(Seq(S))
      /\ \A k \in 1 .. Len(b) : P(k) = Append(P(k - 1), b[k]) /\ b[k] \in Seq(S)
  <2>1. Len(b) \in Nat /\ \A k \in 1 .. Len(b) : b[k] \in Seq(S)
    OBVIOUS
  <2> QED
    BY <2>1, PrefixFacts
<1> HIDE DEF P
<1>2. Flat(a) \in Seq(S) /\ \A k \in 0 .. Len(b) : Flat(P(k)) \in Seq(S)
  BY <1>1, FlatType
<1>3. ASSUME NEW m \in Bad, \A k \in 0 .. m - 1 : k \notin Bad
      PROVE  FALSE
  <2>1. m \in 0 .. Len(b) /\ Flat(a \o P(m)) # Flat(a) \o Flat(P(m))
    OBVIOUS
  <2>2. CASE m = 0
    <3>1. a \o P(m) = a
      BY <1>1, <2>2, ConcatEmpty
    <3>2. Flat(a) \o Flat(P(m)) = Flat(a)
      BY <1>1, <1>2, <2>2, FlatEmpty, ConcatEmpty
    <3> QED
      BY <2>1, <3>1, <3>2
  <2>3. CASE m # 0
    <3>1. m \in 1 .. Len(b) /\ m - 1 \in 0 .. Len(b) /\ m - 1 \in 0 .. m - 1
      BY <1>1, <2>1, <2>3
    <3> DEFINE p == P(m - 1)
               x == b[m]
    <3>2. /\ p \in Seq(Seq(S)) /\ x \in Seq(S) /\ P(m) = Append(p, x)
          /\ Flat(a \o p) = Flat(a) \o Flat(p) /\ Flat(p) \in Seq(S)
      <4>1. m - 1 \notin Bad
        BY <1>3, <3>1
      <4> QED
        BY <1>1, <1>2, <3>1, <4>1
    <3> HIDE DEF p, x, Bad
    <3>3. a \o P(m) = Append(a \o p, x) /\ a \o p \in Seq(Seq(S))
      BY <3>2, ConcatAppend
    <3>4. Flat(a \o P(m)) = Flat(a \o p) \o x
      BY <3>2, <3>3, FlatAppend
    <3>5. Flat(P(m)) = Flat(p) \o x
      BY <3>2, FlatAppend
    <3>6. (Flat(a) \o Flat(p)) \o x = Flat(a) \o (Flat(p) \o x)
      <4> DEFINE f == Flat(a)
                 g == Flat(p)
      <4>1. f \in Seq(S) /\ g \in Seq(S) /\ x \in Seq(S)
        BY <1>2, <3>2
      <4> HIDE DEF f, g
      <4>2. (f \o g) \o x = f \o (g \o x)
        BY <4>1, ConcatAssociative, SMTT(30)
      <4> QED
        BY <4>2 DEF f, g
    <3> QED
      BY <2>1, <3>2, <3>4, <3>5, <3>6
  <2> QED
    BY <2>2, <2>3
<1>4. Bad = {}
  <2>1. Bad \in SUBSET (0 .. Len(b))
    OBVIOUS
  <2> HIDE DEF Bad
  <2> QED
    BY <1>1, <1>3, <2>1, NoLeast
<1>5. Len(b) \in 0 .. Len(b)
  BY <1>1
<1> QED
  BY <1>1, <1>4, <1>5

(* Where the k-th element stands in a flattened sequence.                  *)
Offset(ss, k) == Len(Flat(SubSeq(ss, 1, k - 1)))

(* The first element stands at 0, and one behind the last would stand at   *)
(* the end.                                                                *)
LEMMA OffsetEnds ==
    ASSUME NEW S, NEW ss \in Seq(Seq(S))
    PROVE  /\ Offset(ss, 1) = 0 /\ Offset(ss, Len(ss) + 1) = Len(Flat(ss))
           /\ Len(Flat(ss)) \in Nat
<1>1. SubSeq(ss, 1, 0) = <<>> /\ SubSeq(ss, 1, Len(ss)) = ss /\ Len(ss) \in Nat
  BY PrefixFacts
<1>2. ASSUME NEW j, j = Len(ss)
      PROVE  Len(Flat(SubSeq(ss, 1, j))) = Len(Flat(ss))
  BY <1>1, <1>2
<1>3. Len(ss) + 1 - 1 = Len(ss) /\ 1 - 1 = 0 /\ Len(<<>>) = 0
  BY <1>1
<1>4. Offset(ss, Len(ss) + 1) = Len(Flat(ss))
  BY <1>2, <1>3 DEF Offset
<1>5. Offset(ss, 1) = 0
  BY <1>1, <1>3, FlatEmpty DEF Offset
<1>6. Flat(ss) \in Seq(S)
  BY FlatType
<1>7. Len(Flat(ss)) \in Nat
  BY <1>6
<1> QED
  BY <1>4, <1>5, <1>7

(* Each element stands as a whole at its offset; the next one follows at   *)
(* once.                                                                   *)
LEMMA FlatPiece ==
    ASSUME NEW S, NEW ss \in Seq(Seq(S)), NEW k \in 1 .. Len(ss)
    PROVE  /\ Offset(ss, k) \in Nat /\ Len(Flat(ss)) \in Nat
           /\ Offset(ss, k + 1) = Offset(ss, k) + Len(ss[k])
           /\ Offset(ss, k) + Len(ss[k]) <= Len(Flat(ss))
           /\ \A m \in 1 .. Len(ss[k]) : Flat(ss)[Offset(ss, k) + m] = ss[k][m]
<1> DEFINE p == SubSeq(ss, 1, k - 1)
           q == SubSeq(ss, 1, k)
           r == SubSeq(ss, k + 1, Len(ss))
           x == ss[k]
<1>1. Len(ss) \in Nat /\ k - 1 \in 0 .. Len(ss) /\ k \in 0 .. Len(ss) /\ x \in Seq(S)
  OBVIOUS
<1>2. p \in Seq(Seq(S)) /\ q \in Seq(Seq(S)) /\ q = Append(p, x) /\ Len(q) = k
  BY <1>1, PrefixFacts
<1>3. r \in Seq(Seq(S)) /\ ss = q \o r
  <2>1. r \in Seq(Seq(S)) /\ Len(r) = Len(ss) - k /\ \A m \in 1 .. Len(r) : r[m] = ss[k + m]
    BY <1>1
  <2>2. \A m \in 1 .. k : q[m] = ss[m]
    BY <1>1
  <2> DEFINE u == q \o r
  <2> HIDE DEF q, r, x, p
  <2>3. /\ u \in Seq(Seq(S)) /\ Len(u) = Len(ss)
        /\ \A m \in 1 .. Len(u) : u[m] = IF m <= k THEN q[m] ELSE r[m - k]
    <3>1. /\ u \in Seq(Seq(S)) /\ Len(u) = k + Len(r)
          /\ \A m \in 1 .. k + Len(r) : u[m] = IF m <= k THEN q[m] ELSE r[m - k]
      <4>1. q \in Seq(Seq(S)) /\ r \in Seq(Seq(S)) /\ Len(q) = k
        BY <1>2, <2>1
      <4>2. /\ u \in Seq(Seq(S)) /\ Len(u) = Len(q) + Len(r)
            /\ \A m \in 1 .. Len(q) + Len(r) : u[m] = IF m <= Len(q) THEN q[m] ELSE r[m - Len(q)]
        BY <4>1, ConcatFacts DEF u
      <4> QED
        BY <4>1, <4>2
    <3>2. k + Len(r) = Len(ss)
      BY <1>1, <2>1
    <3> HIDE DEF u
    <3> QED
      BY <3>1, <3>2
  <2>4. \A m \in 1 .. Len(ss) : u[m] = ss[m]
    <3> TAKE m \in 1 .. Len(ss)
    <3>1. CASE m <= k
      BY <1>1, <2>2, <2>3, <3>1
    <3>2. CASE ~ (m <= k)
      <4>1. m - k \in 1 .. Len(r) /\ k + (m - k) = m
        <5>1. Len(r) = Len(ss) - k /\ Len(ss) \in Nat /\ k \in Nat
          BY <1>1, <2>1
        <5> QED
          BY <3>2, <5>1
      <4> QED
        BY <2>1, <2>3, <3>2, <4>1
    <3> QED
      BY <3>1, <3>2
  <2> HIDE DEF u
  <2>5. u = ss
    BY <2>3, <2>4, SeqEqual
  <2> QED
    BY <2>1, <2>5 DEF u
<1> HIDE DEF p, q, r, x
<1>4. Flat(p) \in Seq(S) /\ Flat(r) \in Seq(S) /\ Flat(ss) \in Seq(S)
  BY <1>2, <1>3, FlatType
<1>5. Flat(q) = Flat(p) \o x /\ Flat(ss) = Flat(q) \o Flat(r)
  BY <1>1, <1>2, <1>3, FlatAppend, FlatConcat
<1> DEFINE fp == Flat(p)
           fr == Flat(r)
           all == Flat(ss)
<1>6. all = (fp \o x) \o fr /\ Len(Flat(q)) = Len(fp) + Len(x)
  BY <1>1, <1>4, <1>5
<1>7. fp \in Seq(S) /\ fr \in Seq(S) /\ all \in Seq(S) /\ x \in Seq(S)
  BY <1>1, <1>4
<1> HIDE DEF fp, fr, all
<1>8. /\ Len(fp) \in Nat /\ Len(all) \in Nat
      /\ Len(fp) + Len(x) <= Len(all)
      /\ \A m \in 1 .. Len(x) : all[Len(fp) + m] = x[m]
  <2>1. fp \o x \in Seq(S) /\ Len(fp \o x) = Len(fp) + Len(x)
        /\ \A m \in 1 .. Len(x) : (fp \o x)[Len(fp) + m] = x[m]
    BY <1>7
  <2>2. Len(all) = Len(fp \o x) + Len(fr) /\ Len(fr) \in Nat /\ Len(fp) \in Nat /\ Len(x) \in Nat
    BY <1>6, <1>7, <2>1
  <2>3. \A j \in 1 .. Len(fp \o x) : all[j] = (fp \o x)[j]
    BY <1>6, <1>7, <2>1
  <2>4. \A m \in 1 .. Len(x) : Len(fp) + m \in 1 .. Len(fp \o x)
    BY <2>1, <2>2
  <2>5. ASSUME NEW m \in 1 .. Len(x)
        PROVE  all[Len(fp) + m] = x[m]
    <3>1. Len(fp) + m \in 1 .. Len(fp \o x)
      BY <2>4
    <3>2. all[Len(fp) + m] = (fp \o x)[Len(fp) + m]
      BY <2>3, <3>1, Zenon
    <3> QED
      BY <2>1, <3>2, Zenon
  <2>6. Len(fp) + Len(x) <= Len(all)
    BY <2>1, <2>2
  <2> QED
    BY <2>2, <2>5, <2>6
<1>9. Offset(ss, k) = Len(fp)
  BY DEF Offset, fp, p
<1>10. Offset(ss, k + 1) = Len(Flat(q))
  <2>1. k + 1 - 1 = k
    OBVIOUS
  <2>2. ASSUME NEW j, j = k
        PROVE  Len(Flat(SubSeq(ss, 1, j))) = Len(Flat(q))
    BY <2>2 DEF q
  <2> QED
    BY <2>1, <2>2 DEF Offset
<1> QED
  BY <1>6, <1>8, <1>9, <1>10 DEF all, x

-----------------------------------------------------------------------------
(* What is printed for each character of a sequence, one behind the other. *)
Maps(p, B, C) == p \in [B -> C]
Image(p, q) == [j \in DOMAIN q |-> p[q[j]]]
Each(p, q) == Flat(Image(p, q))
EachPiece(p, ss) == [k \in DOMAIN ss |-> Each(p, ss[k])]

(* The image has an element for each element of the sequence.              *)
LEMMA ImageFacts ==
    ASSUME NEW B, NEW C, NEW p, Maps(p, B, C), NEW q \in Seq(B)
    PROVE  /\ Image(p, q) \in Seq(C) /\ Len(Image(p, q)) = Len(q)
           /\ \A j \in 1 .. Len(q) : Image(p, q)[j] = p[q[j]]
<1>1. DOMAIN q = 1 .. Len(q) /\ Len(q) \in Nat /\ \A j \in 1 .. Len(q) : q[j] \in B
  OBVIOUS
<1>2. \A j \in 1 .. Len(q) : p[q[j]] \in C
  BY <1>1 DEF Maps
<1> QED
  BY <1>1, <1>2 DEF Image

(* The image of a concatenation.                                           *)
LEMMA ImageConcat ==
    ASSUME NEW B, NEW C, NEW p, Maps(p, B, C), NEW a \in Seq(B), NEW b \in Seq(B)
    PROVE  Image(p, a \o b) = Image(p, a) \o Image(p, b)
<1> DEFINE ab == a \o b
           u == Image(p, ab)
           x == Image(p, a)
           y == Image(p, b)
           v == x \o y
<1>1. /\ ab \in Seq(B) /\ Len(ab) = Len(a) + Len(b) /\ Len(a) \in Nat /\ Len(b) \in Nat
      /\ \A j \in 1 .. Len(ab) : ab[j] = IF j <= Len(a) THEN a[j] ELSE b[j - Len(a)]
  OBVIOUS
<1> HIDE DEF ab
<1>2. /\ u \in Seq(C) /\ Len(u) = Len(ab) /\ \A j \in 1 .. Len(ab) : u[j] = p[ab[j]]
      /\ x \in Seq(C) /\ Len(x) = Len(a) /\ \A j \in 1 .. Len(a) : x[j] = p[a[j]]
      /\ y \in Seq(C) /\ Len(y) = Len(b) /\ \A j \in 1 .. Len(b) : y[j] = p[b[j]]
  <2>1. \A z \in Seq(B) : /\ Image(p, z) \in Seq(C) /\ Len(Image(p, z)) = Len(z)
                          /\ \A j \in 1 .. Len(z) : Image(p, z)[j] = p[z[j]]
    BY ImageFacts
  <2> QED
    BY <1>1, <2>1, Zenon
<1> HIDE DEF u, x, y
<1>3. /\ v \in Seq(C) /\ Len(v) = Len(ab)
      /\ \A j \in 1 .. Len(ab) : v[j] = IF j <= Len(a) THEN x[j] ELSE y[j - Len(a)]
  <2>1. x \in Seq(C) /\ y \in Seq(C) /\ Len(x) = Len(a) /\ Len(y) = Len(b)
    BY <1>2
  <2>2. /\ v \in Seq(C) /\ Len(v) = Len(x) + Len(y)
        /\ \A j \in 1 .. Len(x) + Len(y) : v[j] = IF j <= Len(x) THEN x[j] ELSE y[j - Len(x)]
    BY <2>1, ConcatFacts
  <2> HIDE DEF v
  <2> QED
    BY <1>1, <2>1, <2>2
<1> HIDE DEF v
<1>4. ASSUME NEW j \in 1 .. Len(ab)
      PROVE  u[j] = v[j]
  <2>1. CASE j <= Len(a)
    <3>1. j \in 1 .. Len(a)
      BY <1>1, <2>1
    <3>2. u[j] = p[ab[j]] /\ ab[j] = a[j] /\ v[j] = x[j]
      BY <1>1, <1>2, <1>3, <2>1, Zenon
    <3>3. x[j] = p[a[j]]
      BY <1>2, <3>1, Zenon
    <3> QED
      BY <3>2, <3>3
  <2>2. CASE ~ (j <= Len(a))
    <3>1. j - Len(a) \in 1 .. Len(b)
      BY <1>1, <2>2
    <3>2. u[j] = p[ab[j]] /\ ab[j] = b[j - Len(a)] /\ v[j] = y[j - Len(a)]
      BY <1>1, <1>2, <1>3, <2>2, Zenon
    <3>3. y[j - Len(a)] = p[b[j - Len(a)]]
      BY <1>2, <3>1, Zenon
    <3> QED
      BY <3>2, <3>3
  <2> QED
    BY <2>1, <2>2
<1>5. u = v
  BY <1>2, <1>3, <1>4, SeqEqual
<1> QED
  BY <1>5 DEF u, v, x, y, ab

(* What is printed is a sequence of what is printed for each character.    *)
LEMMA EachType ==
    ASSUME NEW B, NEW S, NEW p, Maps(p, B, Seq(S)), NEW q \in Seq(B)
    PROVE  Each(p, q) \in Seq(S)
BY ImageFacts, FlatType DEF Each

(* For nothing, nothing is printed.                                        *)
LEMMA EachEmpty ==
    ASSUME NEW p
    PROVE  Each(p, <<>>) = <<>>
<1>1. Image(p, <<>>) = <<>>
  BY DEF Image
<1> QED
  BY <1>1, FlatEmpty DEF Each

(* What is printed for a concatenation is printed for its parts.           *)
LEMMA EachConcat ==
    ASSUME NEW B, NEW S, NEW p, Maps(p, B, Seq(S)), NEW a \in Seq(B), NEW b \in Seq(B)
    PROVE  Each(p, a \o b) = Each(p, a) \o Each(p, b)
<1>1. Image(p, a) \in Seq(Seq(S)) /\ Image(p, b) \in Seq(Seq(S))
  BY ImageFacts
<1>2. Image(p, a \o b) = Image(p, a) \o Image(p, b)
  BY ImageConcat
<1> QED
  BY <1>1, <1>2, FlatConcat DEF Each

(* Printing piece by piece is printing the flattened pieces.               *)
LEMMA EachPieceFlat ==
    ASSUME NEW B, NEW S, NEW p, Maps(p, B, Seq(S)), NEW ss \in Seq(Seq(B))
    PROVE  Flat(EachPiece(p, ss)) = Each(p, Flat(ss))
<1> DEFINE P(k) == SubSeq(ss, 1, k)
           E(k) == EachPiece(p, P(k))
           Bad == {k \in 0 .. Len(ss) : Flat(E(k)) # Each(p, Flat(P(k)))}
<1>1. /\ Len(ss) \in Nat
      /\ P(0) = <<>> /\ P(Len(ss)) = ss
      /\ \A k \in 0 .. Len(ss) : P(k) \in Seq(Seq(B)) /\ Len(P(k)) = k
      /\ \A k \in 1 .. Len(ss) : P(k) = Append(P(k - 1), ss[k]) /\ ss[k] \in Seq(B)
  <2>1. Len(ss) \in Nat /\ \A k \in 1 .. Len(ss) : ss[k] \in Seq(B)
    OBVIOUS
  <2> QED
    BY <2>1, PrefixFacts
<1> HIDE DEF P
<1>2. ASSUME NEW q \in Seq(Seq(B))
      PROVE  /\ EachPiece(p, q) \in Seq(Seq(S)) /\ Len(EachPiece(p, q)) = Len(q)
             /\ \A k \in 1 .. Len(q) : EachPiece(p, q)[k] = Each(p, q[k])
  <2>1. /\ Len(q) \in Nat /\ DOMAIN q = 1 .. Len(q)
        /\ \A k \in 1 .. Len(q) : q[k] \in Seq(B)
    OBVIOUS
  <2>2. \A k \in 1 .. Len(q) : Each(p, q[k]) \in Seq(S)
    BY <2>1, EachType
  <2> QED
    BY <2>1, <2>2 DEF EachPiece
<1>3. ASSUME NEW q \in Seq(Seq(B)), NEW x \in Seq(B)
      PROVE  EachPiece(p, Append(q, x)) = Append(EachPiece(p, q), Each(p, x))
  <2> DEFINE r == Append(q, x)
             u == EachPiece(p, r)
             v == EachPiece(p, q)
             w == Append(v, Each(p, x))
  <2>1. /\ r \in Seq(Seq(B)) /\ Len(r) = Len(q) + 1 /\ Len(q) \in Nat /\ r[Len(q) + 1] = x
        /\ \A k \in 1 .. Len(q) : r[k] = q[k]
    OBVIOUS
  <2>2. /\ u \in Seq(Seq(S)) /\ Len(u) = Len(r) /\ \A k \in 1 .. Len(r) : u[k] = Each(p, r[k])
        /\ v \in Seq(Seq(S)) /\ Len(v) = Len(q) /\ \A k \in 1 .. Len(q) : v[k] = Each(p, q[k])
    BY <1>2, <2>1
  <2>3. Each(p, x) \in Seq(S)
    BY EachType
  <2> HIDE DEF u, v, r
  <2>4. /\ w \in Seq(Seq(S)) /\ Len(w) = Len(q) + 1 /\ w[Len(q) + 1] = Each(p, x)
        /\ \A k \in 1 .. Len(q) : w[k] = v[k]
    BY <2>2, <2>3, AppendFacts
  <2> HIDE DEF w
  <2>5. ASSUME NEW k \in 1 .. Len(r)
        PROVE  u[k] = w[k]
    <3>1. k = Len(q) + 1 \/ k \in 1 .. Len(q)
      BY <2>1
    <3> QED
      BY <2>1, <2>2, <2>4, <3>1
  <2>6. u = w
    BY <2>1, <2>2, <2>4, <2>5, SeqEqual
  <2> QED
    BY <2>6 DEF u, v, r, w
<1>4. ASSUME NEW m \in Bad, \A k \in 0 .. m - 1 : k \notin Bad
      PROVE  FALSE
  <2>1. m \in 0 .. Len(ss) /\ Flat(E(m)) # Each(p, Flat(P(m)))
    OBVIOUS
  <2>2. CASE m = 0
    <3>1. EachPiece(p, <<>>) = <<>>
      BY DEF EachPiece
    <3>2. Flat(E(m)) = <<>>
      BY <1>1, <2>2, <3>1, FlatEmpty
    <3>3. Each(p, Flat(P(m))) = <<>>
      BY <1>1, <2>2, FlatEmpty, EachEmpty
    <3> QED
      BY <2>1, <3>2, <3>3
  <2>3. CASE m # 0
    <3>1. m \in 1 .. Len(ss) /\ m - 1 \in 0 .. Len(ss) /\ m - 1 \in 0 .. m - 1
      BY <1>1, <2>1, <2>3
    <3> DEFINE q == P(m - 1)
               x == ss[m]
    <3>2. /\ q \in Seq(Seq(B)) /\ x \in Seq(B) /\ P(m) = Append(q, x)
          /\ Flat(EachPiece(p, q)) = Each(p, Flat(q))
      <4>1. m - 1 \notin Bad
        BY <1>4, <3>1
      <4> QED
        BY <1>1, <3>1, <4>1
    <3> HIDE DEF q, x, Bad
    <3>3. /\ Flat(q) \in Seq(B) /\ EachPiece(p, q) \in Seq(Seq(S)) /\ Each(p, x) \in Seq(S)
      BY <1>2, <3>2, FlatType, EachType
    <3>4. Flat(E(m)) = Flat(EachPiece(p, q)) \o Each(p, x)
      <4>1. E(m) = Append(EachPiece(p, q), Each(p, x))
        BY <1>3, <3>2
      <4> QED
        BY <3>3, <4>1, FlatAppend
    <3>5. Flat(P(m)) = Flat(q) \o x
      BY <3>2, FlatAppend
    <3>6. Each(p, Flat(q) \o x) = Each(p, Flat(q)) \o Each(p, x)
      BY <3>2, <3>3, EachConcat
    <3> QED
      BY <2>1, <3>2, <3>4, <3>5, <3>6
  <2> QED
    BY <2>2, <2>3
<1>5. Bad = {}
  <2>1. Bad \in SUBSET (0 .. Len(ss))
    OBVIOUS
  <2> HIDE DEF Bad
  <2> QED
    BY <1>1, <1>4, <2>1, NoLeast
<1>6. Len(ss) \in 0 .. Len(ss)
  BY <1>1
<1> QED
  BY <1>1, <1>5, <1>6

(* setup_string() and setup_float() print the bytes of the whole region.   *)
DoubleBytes == UNION {{d[b] : b \in 1 .. DoubleSize} : d \in Doubles}
Special == {"newline", "tab", "return", "nul", "quote", "apostrophe", "backslash"}
Bytes == Chars \cup DoubleBytes \cup Special \cup {"n", "t", "r", "0"}
PrintedOf == [c \in Bytes |-> Printed(c)]
ConstantOf == [b \in Bytes |-> Constant(b)]
Terminated(region) == [k \in DOMAIN region |-> Append(region[k], "nul")]
StringBytes(region) == Flat(Terminated(region))

(* A character is printed with characters that a text may have as well.    *)
LEMMA PrintedType == Maps(PrintedOf, Bytes, Seq(Bytes))
<1>1. \A c \in DOMAIN Letter : Letter[c] \in Bytes
  <2>1. /\ Letter["newline"] = "n" /\ Letter["tab"] = "t" /\ Letter["return"] = "r"
        /\ Letter["nul"] = "0" /\ Letter["quote"] = "quote"
        /\ Letter["apostrophe"] = "apostrophe" /\ Letter["backslash"] = "backslash"
    BY DEF Letter
  <2>2. DOMAIN Letter = Special
    BY DEF Letter, Special
  <2> QED
    BY <2>1, <2>2 DEF Bytes, Special
<1>2. ASSUME NEW c \in Bytes
      PROVE  Printed(c) \in Seq(Bytes)
  <2>1. CASE c \in DOMAIN Letter
    <3>1. Printed(c) = <<"backslash", Letter[c]>> /\ Letter[c] \in Bytes
      BY <1>1, <2>1, Zenon DEF Printed
    <3>2. "backslash" \in Bytes
      BY DEF Bytes, Special
    <3> QED
      BY <3>1, <3>2
  <2>2. CASE c \notin DOMAIN Letter
    <3>1. Printed(c) = <<c>>
      BY <2>2, Zenon DEF Printed
    <3> QED
      BY <3>1
  <2> QED
    BY <2>1, <2>2
<1> QED
  BY <1>2, Zenon DEF PrintedOf, Maps

(* So is a byte of a float.                                                *)
LEMMA ConstantType == Maps(ConstantOf, Bytes, Seq(Bytes))
<1>1. Printed("nul") = <<"backslash", "0">>
  BY DEF Printed, Letter
<1>2. ASSUME NEW b \in Bytes
      PROVE  Constant(b) \in Seq(Bytes)
  <2> "backslash" \in Bytes /\ "apostrophe" \in Bytes /\ "0" \in Bytes
    BY DEF Bytes, Special
  <2>1. CASE b = "nul"
    BY <1>1, <2>1 DEF Constant
  <2>2. CASE b # "nul"
    BY <2>2 DEF Constant
  <2> QED
    BY <2>1, <2>2
<1> QED
  BY <1>2, Zenon DEF ConstantOf, Maps

(* finalcode.c 85-119: setup_string() prints the strings, each with its    *)
(* NUL, as one sequence of characters.                                     *)
LEMMA SetupStringPrints ==
    ASSUME NEW region \in Seq(Seq(Bytes))
    PROVE  SetupString(region) = Each(PrintedOf, StringBytes(region))
<1> DEFINE T == Terminated(region)
<1>1. /\ DOMAIN region = 1 .. Len(region) /\ Len(region) \in Nat
      /\ \A k \in 1 .. Len(region) : region[k] \in Seq(Bytes)
  OBVIOUS
<1>2. /\ T \in Seq(Seq(Bytes)) /\ Len(T) = Len(region) /\ DOMAIN T = DOMAIN region
      /\ \A k \in DOMAIN region : T[k] = Append(region[k], "nul")
  <2>1. \A k \in 1 .. Len(region) : Append(region[k], "nul") \in Seq(Bytes)
    <3>1. "nul" \in Bytes
      BY DEF Bytes, Special
    <3> QED
      BY <1>1, <3>1
  <2> QED
    BY <1>1, <2>1 DEF Terminated
<1> HIDE DEF T
<1>3. ASSUME NEW k \in DOMAIN region
      PROVE  Flat([j \in DOMAIN region[k] |-> Printed(region[k][j])]) \o Printed("nul")
                = Each(PrintedOf, T[k])
  <2> DEFINE s == region[k]
  <2>1. s \in Seq(Bytes) /\ T[k] = s \o <<"nul">>
    <3>1. s \in Seq(Bytes) /\ T[k] = Append(s, "nul") /\ "nul" \in Bytes
      BY <1>1, <1>2 DEF Bytes, Special
    <3> HIDE DEF s
    <3> QED
      BY <3>1, AppendFacts
  <2>2. [j \in DOMAIN s |-> Printed(s[j])] = Image(PrintedOf, s)
    BY <2>1 DEF Image, PrintedOf
  <2>3. Each(PrintedOf, <<"nul">>) = Printed("nul")
    <3> DEFINE x == Printed("nul")
    <3>1. x = <<"backslash", "0">>
      BY DEF Printed, Letter
    <3>2. x \in Seq(Bytes) /\ x = PrintedOf["nul"]
      <4>1. "backslash" \in Bytes /\ "0" \in Bytes /\ "nul" \in Bytes
        BY DEF Bytes, Special
      <4>2. x = PrintedOf["nul"]
        BY <4>1, Zenon DEF PrintedOf
      <4>3. <<"backslash", "0">> \in Seq(Bytes)
        BY <4>1
      <4> QED
        BY <3>1, <4>2, <4>3, Zenon
    <3>3. Image(PrintedOf, <<"nul">>) = Append(<<>>, PrintedOf["nul"])
      BY DEF Image
    <3> HIDE DEF x
    <3>4. Flat(Append(<<>>, x)) = Flat(<<>>) \o x
      <4>1. <<>> \in Seq(Seq(Bytes))
        OBVIOUS
      <4> QED
        BY <3>2, <4>1, FlatAppend, Zenon
    <3>5. <<>> \o x = x
      BY <3>2
    <3> QED
      BY <3>2, <3>3, <3>4, <3>5, FlatEmpty, Zenon DEF Each, x
  <2>4. Each(PrintedOf, s \o <<"nul">>) = Each(PrintedOf, s) \o Each(PrintedOf, <<"nul">>)
    <3> DEFINE z == <<"nul">>
    <3>1. z \in Seq(Bytes) /\ s \in Seq(Bytes)
      BY <2>1 DEF Bytes, Special
    <3> HIDE DEF s, z
    <3>2. \A p : Maps(p, Bytes, Seq(Bytes)) => Each(p, s \o z) = Each(p, s) \o Each(p, z)
      BY <3>1, EachConcat, SMTT(30)
    <3>3. Each(PrintedOf, s \o z) = Each(PrintedOf, s) \o Each(PrintedOf, z)
      BY <3>2, PrintedType, Zenon
    <3> QED
      BY <3>3 DEF z
  <2> QED
    BY <2>1, <2>2, <2>3, <2>4 DEF Each
<1>4. SetupString(region) = Flat(EachPiece(PrintedOf, T))
  BY <1>2, <1>3 DEF SetupString, EachPiece
<1> QED
  BY <1>2, <1>4, PrintedType, EachPieceFlat DEF StringBytes, T

(* finalcode.c 121-146: setup_float() prints the floats as one sequence of *)
(* bytes.                                                                  *)
LEMMA SetupFloatPrints ==
    ASSUME NEW region \in Seq(Seq(Bytes))
    PROVE  SetupFloat(region) = Each(ConstantOf, Flat(region))
<1>1. /\ DOMAIN region = 1 .. Len(region)
      /\ \A k \in 1 .. Len(region) : region[k] \in Seq(Bytes)
  OBVIOUS
<1>2. ASSUME NEW k \in DOMAIN region
      PROVE  Flat([j \in DOMAIN region[k] |-> Constant(region[k][j])]) = Each(ConstantOf, region[k])
  <2> DEFINE s == region[k]
  <2>1. s \in Seq(Bytes)
    BY <1>1
  <2>2. [j \in DOMAIN s |-> Constant(s[j])] = Image(ConstantOf, s)
    <3>1. \A j \in DOMAIN s : s[j] \in Bytes
      BY <2>1
    <3>2. \A j \in DOMAIN s : Constant(s[j]) = ConstantOf[s[j]]
      BY <3>1, Zenon DEF ConstantOf
    <3> QED
      BY <3>2, Zenon DEF Image
  <2> QED
    BY <2>2 DEF Each
<1>3. SetupFloat(region) = Flat(EachPiece(ConstantOf, region))
  BY <1>2 DEF SetupFloat, EachPiece
<1> QED
  BY <1>3, ConstantType, EachPieceFlat

-----------------------------------------------------------------------------
(* Reading from left to right: what f reads at k is h[k], and behind it    *)
(* what f reads at next[k], unless k is one of the places in Stop.         *)
Reads(f, L, Stop, h, next) ==
    f = [k \in 1 .. L |-> IF k \in Stop THEN h[k] ELSE h[k] \o f[next[k]]]

(* Where each step moves on, the reader's equation has a solution.         *)
LEMMA ReaderExists ==
    ASSUME NEW L \in Nat, NEW Stop, NEW h, NEW next,
           \A k \in 1 .. L : k \notin Stop => next[k] \in k + 1 .. L
    PROVE  \E f : Reads(f, L, Stop, h, next)
<1> DEFINE Eq(d, f) == f = [k \in L + 1 - d .. L |->
                               IF k \in Stop THEN h[k] ELSE h[k] \o f[next[k]]]
           None == {d \in 0 .. L : ~ \E f : Eq(d, f)}
<1>1. ASSUME NEW d \in None, \A c \in 0 .. d - 1 : c \notin None
      PROVE  FALSE
  <2>1. CASE d = 0
    <3> DEFINE D == L + 1 - 0 .. L
               g == [k \in D |-> <<>>]
    <3>1. \A k \in D : FALSE
      OBVIOUS
    <3>2. g = [k \in D |-> IF k \in Stop THEN h[k] ELSE h[k] \o g[next[k]]]
      <4> HIDE DEF D
      <4> QED
        BY <3>1, Zenon
    <3> QED
      BY <2>1, <3>2
  <2>2. CASE d # 0
    <3> DEFINE m == L + 1 - d
    <3>1. /\ d \in 1 .. L /\ d - 1 \in 0 .. L /\ d - 1 \in 0 .. d - 1
          /\ m \in 1 .. L /\ L + 1 - (d - 1) = m + 1
      <4> HIDE DEF Eq
      <4> QED
        BY <2>2
    <3>2. PICK f : Eq(d - 1, f)
      <4>1. d - 1 \notin None
        <5> HIDE DEF None, Eq
        <5> QED
          BY <1>1, <3>1
      <4> HIDE DEF Eq
      <4> QED
        BY <3>1, <4>1
    <3>3. f = [k \in m + 1 .. L |-> IF k \in Stop THEN h[k] ELSE h[k] \o f[next[k]]]
      <4> HIDE DEF None, m
      <4> QED
        BY <3>1, <3>2
    <3> HIDE DEF None, Eq, m
    <3>4. \A k \in m + 1 .. L : f[k] = IF k \in Stop THEN h[k] ELSE h[k] \o f[next[k]]
      BY <3>3
    <3> DEFINE first == IF m \in Stop THEN h[m] ELSE h[m] \o f[next[m]]
               g == [k \in m .. L |-> IF k = m THEN first ELSE f[k]]
    <3>5. g[m] = first /\ g = [k \in m .. L |-> g[k]]
      <4> HIDE DEF first
      <4> QED
        BY <3>1
    <3>6. \A k \in m + 1 .. L : g[k] = f[k]
      <4> HIDE DEF first
      <4> QED
        BY <3>1
    <3> HIDE DEF g
    <3>7. ASSUME NEW k \in m .. L
          PROVE  g[k] = IF k \in Stop THEN h[k] ELSE h[k] \o g[next[k]]
      <4>1. k \in Stop \/ g[next[k]] = f[next[k]]
        <5>1. k \in 1 .. L
          BY <3>1
        <5>2. CASE k \notin Stop
          <6>1. next[k] \in k + 1 .. L
            BY <5>1, <5>2
          <6>2. next[k] \in m + 1 .. L
            BY <3>1, <6>1
          <6> QED
            BY <3>6, <6>2
        <5> QED
          BY <5>2
      <4>2. CASE k = m
        BY <3>5, <4>1, <4>2, Zenon
      <4>3. CASE k # m
        <5>1. k \in m + 1 .. L
          BY <3>1, <4>3
        <5> QED
          BY <3>4, <3>6, <4>1, <5>1, Zenon
      <4> QED
        BY <4>2, <4>3
    <3>8. Eq(d, g)
      <4>1. g = [k \in m .. L |-> IF k \in Stop THEN h[k] ELSE h[k] \o g[next[k]]]
        BY <3>5, <3>7, Zenon
      <4> QED
        BY <4>1 DEF Eq, m
    <3>9. d \notin None
      BY <3>8 DEF None
    <3> QED
      BY <3>9
  <2> QED
    BY <2>1, <2>2
<1>2. None = {}
  <2>1. None \in SUBSET (0 .. L)
    OBVIOUS
  <2> HIDE DEF None
  <2> QED
    BY <1>1, <2>1, NoLeast
<1>3. \E f : Eq(L, f)
  <2>1. L \in 0 .. L
    OBVIOUS
  <2> HIDE DEF Eq
  <2> QED
    BY <1>2, <2>1
<1>4. L + 1 - L = 1
  OBVIOUS
<1> QED
  BY <1>3, <1>4 DEF Reads

(* The characters that a text stands for, from its k-th one on.            *)
MeantFrom(s) ==
    LET From[k \in 1 .. Len(s) + 2] ==
            IF k > Len(s) THEN <<>>
            ELSE IF s[k] = "backslash" /\ k < Len(s) THEN <<Escapes[s[k + 1]]>> \o From[k + 2]
            ELSE <<s[k]>> \o From[k + 1]
    IN  From

(* What a text stands for is what it stands for from its first character   *)
(* on.                                                                     *)
LEMMA MeantIsFrom == \A s : Meant(s) = MeantFrom(s)[1]
BY Zenon DEF Meant, MeantFrom

(* MeantFrom satisfies the equation it is defined by.                      *)
LEMMA MeantStep ==
    ASSUME NEW s, Len(s) \in Nat
    PROVE  \A k \in 1 .. Len(s) + 2 :
              MeantFrom(s)[k] =
                 IF k > Len(s) THEN <<>>
                 ELSE IF s[k] = "backslash" /\ k < Len(s)
                      THEN <<Escapes[s[k + 1]]>> \o MeantFrom(s)[k + 2]
                 ELSE <<s[k]>> \o MeantFrom(s)[k + 1]
<1> DEFINE L == Len(s) + 2
           Stop == {k \in 1 .. L : k > Len(s)}
           Escape(k) == s[k] = "backslash" /\ k < Len(s)
           h == [k \in 1 .. L |-> IF k > Len(s) THEN <<>>
                                  ELSE IF Escape(k) THEN <<Escapes[s[k + 1]]>> ELSE <<s[k]>>]
           next == [k \in 1 .. L |-> IF Escape(k) THEN k + 2 ELSE k + 1]
           Body(f, k) == IF k > Len(s) THEN <<>>
                         ELSE IF Escape(k) THEN <<Escapes[s[k + 1]]>> \o f[k + 2]
                         ELSE <<s[k]>> \o f[k + 1]
           Eq(f) == f = [k \in 1 .. L |-> Body(f, k)]
<1>1. L \in Nat /\ \A k \in 1 .. L : k \notin Stop => next[k] \in k + 1 .. L
  <2> HIDE DEF Escape, h
  <2>1. \A k \in 1 .. L : next[k] = IF Escape(k) THEN k + 2 ELSE k + 1
    OBVIOUS
  <2> HIDE DEF next
  <2>2. \A k \in 1 .. L : k \notin Stop => k + 2 \in k + 1 .. L /\ k + 1 \in k + 1 .. L
    OBVIOUS
  <2> QED
    BY <2>1, <2>2
<1>2. PICK f : Reads(f, L, Stop, h, next)
  <2> HIDE DEF L, Stop, h, next
  <2> QED
    BY <1>1, ReaderExists
<1>3. ASSUME NEW k \in 1 .. L
      PROVE  (IF k \in Stop THEN h[k] ELSE h[k] \o f[next[k]]) = Body(f, k)
  <2>1. k \in Stop <=> k > Len(s)
    OBVIOUS
  <2>2. h[k] = IF k > Len(s) THEN <<>>
               ELSE IF Escape(k) THEN <<Escapes[s[k + 1]]>> ELSE <<s[k]>>
    OBVIOUS
  <2>3. next[k] = IF Escape(k) THEN k + 2 ELSE k + 1
    OBVIOUS
  <2> HIDE DEF Stop, h, next, Escape
  <2> QED
    BY <2>1, <2>2, <2>3, Zenon
<1>4. Eq(f)
  <2> HIDE DEF L, Stop, h, next, Body
  <2> QED
    BY <1>2, <1>3, Zenon DEF Reads
<1>5. MeantFrom(s) = CHOOSE g : Eq(g)
  BY Zenon DEF MeantFrom
<1>6. Eq(MeantFrom(s))
  <2> HIDE DEF Eq
  <2> QED
    BY <1>4, <1>5, Zenon
<1>7. \A k \in 1 .. L : MeantFrom(s)[k] = Body(MeantFrom(s), k)
  <2> HIDE DEF Body, L
  <2> QED
    BY <1>6, Zenon
<1> QED
  BY <1>7

-----------------------------------------------------------------------------
(* An octal escape sequence has one to three digits, all in the text.      *)
LEMMA OctalRange ==
    ASSUME NEW s, Len(s) \in Nat, DOMAIN s = 1 .. Len(s),
           NEW k \in 1 .. Len(s), k < Len(s), s[k + 1] \in Octal
    PROVE  /\ OctalDigits(s, k) \in 1 .. 3 /\ k + OctalDigits(s, k) <= Len(s)
           /\ k + 2 > Len(s) \/ s[k + 2] \notin Octal => OctalDigits(s, k) = 1
<1> DEFINE In(j) == k + j \in DOMAIN s /\ s[k + j] \in Octal
           Good(n) == /\ \A j \in 1 .. n : In(j)
                      /\ n < 3 => ~ In(n + 1)
<1>1. OctalDigits(s, k) = CHOOSE n \in 1 .. 3 : Good(n)
  <2>1. \A n \in 1 .. 3 : k + n + 1 = k + (n + 1)
    OBVIOUS
  <2>2. \A n \in 1 .. 3 :
           Good(n) <=> /\ \A j \in 1 .. n : k + j \in DOMAIN s /\ s[k + j] \in Octal
                       /\ n < 3 => k + n + 1 \notin DOMAIN s \/ s[k + n + 1] \notin Octal
    BY <2>1, Zenon
  <2> HIDE DEF Good
  <2> QED
    BY <2>2, Zenon DEF OctalDigits
<1>2. In(1) /\ \A j \in 1 .. 3 : In(j) <=> k + j <= Len(s) /\ s[k + j] \in Octal
  OBVIOUS
<1> HIDE DEF In
<1>3. \E n \in 1 .. 3 : Good(n)
  <2>1. CASE ~ In(2)
    <3>1. Good(1)
      BY <1>2, <2>1
    <3> QED
      BY <3>1
  <2>2. CASE In(2) /\ ~ In(3)
    <3>1. Good(2)
      BY <1>2, <2>2
    <3> QED
      BY <3>1
  <2>3. CASE In(2) /\ In(3)
    <3>1. \A j \in 1 .. 3 : j = 1 \/ j = 2 \/ j = 3
      OBVIOUS
    <3>2. Good(3)
      BY <1>2, <2>3, <3>1
    <3> QED
      BY <3>2
  <2> QED
    BY <2>1, <2>2, <2>3
<1> DEFINE n == OctalDigits(s, k)
<1>4. n \in 1 .. 3 /\ Good(n)
  <2> HIDE DEF Good
  <2> QED
    BY <1>1, <1>3, Zenon
<1> HIDE DEF n
<1>5. In(n) /\ k + n <= Len(s)
  BY <1>2, <1>4
<1>6. ASSUME k + 2 > Len(s) \/ s[k + 2] \notin Octal
      PROVE  n = 1
  <2>1. ~ In(2)
    BY <1>2, <1>6
  <2> QED
    BY <1>4, <2>1
<1> QED
  BY <1>4, <1>5, <1>6 DEF n

(* gcc's reading of a string initialiser, from its k-th character on.      *)
GccFrom(s) ==
    LET From[k \in 1 .. Len(s) + 1] ==
            IF k > Len(s) THEN <<>>
            ELSE IF s[k] # "backslash" THEN <<s[k]>> \o From[k + 1]
            ELSE IF s[k + 1] \notin Octal THEN <<Escapes[s[k + 1]]>> \o From[k + 2]
            ELSE <<IF \A j \in 1 .. OctalDigits(s, k) : s[k + j] = "0" THEN "nul"
                   ELSE "another">> \o From[k + OctalDigits(s, k) + 1]
    IN  From

(* gcc reads an initialiser from its first character on.                   *)
LEMMA GccIsFrom == \A s : GccString(s) = GccFrom(s)[1]
BY Zenon DEF GccString, GccFrom

(* GccFrom satisfies the equation it is defined by, if the last character  *)
(* is no backslash.                                                        *)
LEMMA GccStep ==
    ASSUME NEW s, Len(s) \in Nat, DOMAIN s = 1 .. Len(s),
           \A k \in 1 .. Len(s) : s[k] = "backslash" => k < Len(s)
    PROVE  \A k \in 1 .. Len(s) + 1 :
              GccFrom(s)[k] =
                 IF k > Len(s) THEN <<>>
                 ELSE IF s[k] # "backslash" THEN <<s[k]>> \o GccFrom(s)[k + 1]
                 ELSE IF s[k + 1] \notin Octal
                      THEN <<Escapes[s[k + 1]]>> \o GccFrom(s)[k + 2]
                 ELSE <<IF \A j \in 1 .. OctalDigits(s, k) : s[k + j] = "0" THEN "nul"
                        ELSE "another">> \o GccFrom(s)[k + OctalDigits(s, k) + 1]
<1> DEFINE L == Len(s) + 1
           Stop == {k \in 1 .. L : k > Len(s)}
           Code(k) == IF \A j \in 1 .. OctalDigits(s, k) : s[k + j] = "0" THEN "nul"
                      ELSE "another"
           h == [k \in 1 .. L |-> IF k > Len(s) THEN <<>>
                                  ELSE IF s[k] # "backslash" THEN <<s[k]>>
                                  ELSE IF s[k + 1] \notin Octal THEN <<Escapes[s[k + 1]]>>
                                  ELSE <<Code(k)>>]
           next == [k \in 1 .. L |-> IF s[k] # "backslash" THEN k + 1
                                     ELSE IF s[k + 1] \notin Octal THEN k + 2
                                     ELSE k + OctalDigits(s, k) + 1]
           Body(f, k) == IF k > Len(s) THEN <<>>
                         ELSE IF s[k] # "backslash" THEN <<s[k]>> \o f[k + 1]
                         ELSE IF s[k + 1] \notin Octal THEN <<Escapes[s[k + 1]]>> \o f[k + 2]
                         ELSE <<Code(k)>> \o f[k + OctalDigits(s, k) + 1]
           Eq(f) == f = [k \in 1 .. L |-> Body(f, k)]
<1>1. ASSUME NEW k \in 1 .. L, k \notin Stop
      PROVE  next[k] \in k + 1 .. L
  <2> HIDE DEF h
  <2>1. k \in 1 .. Len(s) /\ k + 1 \in k + 1 .. L
    BY <1>1
  <2>2. next[k] = IF s[k] # "backslash" THEN k + 1
                  ELSE IF s[k + 1] \notin Octal THEN k + 2
                  ELSE k + OctalDigits(s, k) + 1
    OBVIOUS
  <2> HIDE DEF next
  <2>3. s[k] = "backslash" => k + 2 \in k + 1 .. L
    BY <2>1
  <2>4. ASSUME s[k] = "backslash", s[k + 1] \in Octal
        PROVE  k + OctalDigits(s, k) + 1 \in k + 1 .. L
    <3>1. k < Len(s)
      BY <2>1, <2>4
    <3>2. OctalDigits(s, k) \in 1 .. 3 /\ k + OctalDigits(s, k) <= Len(s)
      BY <2>1, <2>4, <3>1, OctalRange
    <3> QED
      BY <2>1, <3>2
  <2> QED
    BY <2>1, <2>2, <2>3, <2>4
<1>2. PICK f : Reads(f, L, Stop, h, next)
  <2>1. L \in Nat
    OBVIOUS
  <2> HIDE DEF L, Stop, h, next
  <2> QED
    BY <1>1, <2>1, ReaderExists
<1>3. ASSUME NEW k \in 1 .. L
      PROVE  (IF k \in Stop THEN h[k] ELSE h[k] \o f[next[k]]) = Body(f, k)
  <2>1. k \in Stop <=> k > Len(s)
    OBVIOUS
  <2> HIDE DEF Code
  <2>2. h[k] = IF k > Len(s) THEN <<>>
               ELSE IF s[k] # "backslash" THEN <<s[k]>>
               ELSE IF s[k + 1] \notin Octal THEN <<Escapes[s[k + 1]]>> ELSE <<Code(k)>>
    OBVIOUS
  <2>3. next[k] = IF s[k] # "backslash" THEN k + 1
                  ELSE IF s[k + 1] \notin Octal THEN k + 2
                  ELSE k + OctalDigits(s, k) + 1
    OBVIOUS
  <2> HIDE DEF Stop, h, next
  <2> QED
    BY <2>1, <2>2, <2>3, Zenon
<1>4. Eq(f)
  <2> HIDE DEF L, Stop, h, next, Body
  <2> QED
    BY <1>2, <1>3, Zenon DEF Reads
<1>5. GccFrom(s) = CHOOSE g : Eq(g)
  BY Zenon DEF GccFrom
<1>6. Eq(GccFrom(s))
  <2> HIDE DEF Eq
  <2> QED
    BY <1>4, <1>5, Zenon
<1>7. \A k \in 1 .. L : GccFrom(s)[k] = Body(GccFrom(s), k)
  <2> HIDE DEF Body, L
  <2> QED
    BY <1>6, Zenon
<1> QED
  BY <1>7, Zenon

(* ... and of character constants.                                         *)
GccFloatFrom(s) ==
    LET From[k \in 1 .. Len(s) + 1] ==
            IF k > Len(s) THEN <<>>
            ELSE IF k + 2 <= Len(s) /\ s[k + 2] = "apostrophe"
                    /\ s[k + 1] \notin {"apostrophe", "newline", "backslash"}
            THEN <<s[k + 1]>> \o From[k + 3]
            ELSE IF k + 3 <= Len(s) /\ s[k + 1] = "backslash" /\ s[k + 3] = "apostrophe"
                    /\ s[k + 2] \in {"0"} \cup DOMAIN Escapes
            THEN <<IF s[k + 2] = "0" THEN "nul" ELSE Escapes[s[k + 2]]>> \o From[k + 4]
            ELSE <<"error">>
    IN  From

(* gcc reads the character constants from the first on.                    *)
LEMMA GccFloatIsFrom == \A s : GccFloat(s) = GccFloatFrom(s)[1]
BY Zenon DEF GccFloat, GccFloatFrom

OneByte(s, k) ==
    /\ k + 2 <= Len(s) /\ s[k + 2] = "apostrophe"
    /\ s[k + 1] \notin {"apostrophe", "newline", "backslash"}
EscapedByte(s, k) ==
    /\ k + 3 <= Len(s) /\ s[k + 1] = "backslash" /\ s[k + 3] = "apostrophe"
    /\ s[k + 2] \in {"0"} \cup DOMAIN Escapes
EscapedAs(s, k) == IF s[k + 2] = "0" THEN "nul" ELSE Escapes[s[k + 2]]

(* GccFloatFrom satisfies the equation it is defined by.                   *)
LEMMA GccFloatStep ==
    ASSUME NEW s, Len(s) \in Nat
    PROVE  \A k \in 1 .. Len(s) + 1 :
              GccFloatFrom(s)[k] =
                 IF k > Len(s) THEN <<>>
                 ELSE IF OneByte(s, k) THEN <<s[k + 1]>> \o GccFloatFrom(s)[k + 3]
                 ELSE IF EscapedByte(s, k) THEN <<EscapedAs(s, k)>> \o GccFloatFrom(s)[k + 4]
                 ELSE <<"error">>
<1> DEFINE L == Len(s) + 1
           Stop == {k \in 1 .. L : k > Len(s) \/ ~ (OneByte(s, k) \/ EscapedByte(s, k))}
           h == [k \in 1 .. L |-> IF k > Len(s) THEN <<>>
                                  ELSE IF OneByte(s, k) THEN <<s[k + 1]>>
                                  ELSE IF EscapedByte(s, k) THEN <<EscapedAs(s, k)>>
                                  ELSE <<"error">>]
           next == [k \in 1 .. L |-> IF OneByte(s, k) THEN k + 3 ELSE k + 4]
           Body(f, k) == IF k > Len(s) THEN <<>>
                         ELSE IF OneByte(s, k) THEN <<s[k + 1]>> \o f[k + 3]
                         ELSE IF EscapedByte(s, k) THEN <<EscapedAs(s, k)>> \o f[k + 4]
                         ELSE <<"error">>
           Eq(f) == f = [k \in 1 .. L |-> Body(f, k)]
<1>1. ASSUME NEW k \in 1 .. L, k \notin Stop
      PROVE  next[k] \in k + 1 .. L
  <2> HIDE DEF h
  <2>1. next[k] = IF OneByte(s, k) THEN k + 3 ELSE k + 4
    OBVIOUS
  <2>2. OneByte(s, k) \/ EscapedByte(s, k)
    BY <1>1
  <2> HIDE DEF next
  <2>3. OneByte(s, k) => k + 2 <= Len(s)
    BY DEF OneByte
  <2>4. EscapedByte(s, k) => k + 3 <= Len(s)
    BY DEF EscapedByte
  <2> QED
    BY <2>1, <2>2, <2>3, <2>4
<1>2. PICK f : Reads(f, L, Stop, h, next)
  <2>1. L \in Nat
    OBVIOUS
  <2> HIDE DEF L, Stop, h, next
  <2> QED
    BY <1>1, <2>1, ReaderExists
<1>3. ASSUME NEW k \in 1 .. L
      PROVE  (IF k \in Stop THEN h[k] ELSE h[k] \o f[next[k]]) = Body(f, k)
  <2>1. k \in Stop <=> k > Len(s) \/ ~ (OneByte(s, k) \/ EscapedByte(s, k))
    OBVIOUS
  <2>2. h[k] = IF k > Len(s) THEN <<>>
               ELSE IF OneByte(s, k) THEN <<s[k + 1]>>
               ELSE IF EscapedByte(s, k) THEN <<EscapedAs(s, k)>> ELSE <<"error">>
    OBVIOUS
  <2>3. next[k] = IF OneByte(s, k) THEN k + 3 ELSE k + 4
    OBVIOUS
  <2> HIDE DEF Stop, h, next
  <2> QED
    BY <2>1, <2>2, <2>3, Zenon
<1>4. Eq(f)
  <2> HIDE DEF L, Stop, h, next, Body
  <2> QED
    BY <1>2, <1>3, Zenon DEF Reads
<1>5. GccFloatFrom(s) = CHOOSE g : Eq(g)
  BY Zenon DEF GccFloatFrom, OneByte, EscapedByte, EscapedAs
<1>6. Eq(GccFloatFrom(s))
  <2> HIDE DEF Eq
  <2> QED
    BY <1>4, <1>5, Zenon
<1>7. \A k \in 1 .. L : GccFloatFrom(s)[k] = Body(GccFloatFrom(s), k)
  <2> HIDE DEF Body, L
  <2> QED
    BY <1>6, Zenon
<1> QED
  BY <1>7

-----------------------------------------------------------------------------
(* Where what is printed for the k-th byte stands: behind offset[k].       *)
Spots(offset, p, q) ==
    /\ offset \in [1 .. Len(q) + 1 -> Nat]
    /\ offset[1] = 0 /\ offset[Len(q) + 1] = Len(Each(p, q))
    /\ \A k \in 1 .. Len(q) :
          /\ offset[k + 1] = offset[k] + Len(p[q[k]])
          /\ offset[k + 1] <= Len(Each(p, q))
          /\ \A m \in 1 .. Len(p[q[k]]) : Each(p, q)[offset[k] + m] = p[q[k]][m]

(* Every byte's print has its spot.                                        *)
LEMMA SpotsExist ==
    ASSUME NEW B, NEW S, NEW p, Maps(p, B, Seq(S)), NEW q \in Seq(B)
    PROVE  \E offset : Spots(offset, p, q)
<1> DEFINE I == Image(p, q)
           n == Len(q)
           E == Each(p, q)
           offset == [k \in 1 .. n + 1 |-> Offset(I, k)]
<1>1. /\ I \in Seq(Seq(S)) /\ Len(I) = n /\ n \in Nat
      /\ \A k \in 1 .. n : I[k] = p[q[k]]
  BY ImageFacts
<1>2. E = Flat(I)
  BY DEF Each
<1> HIDE DEF I, n, E
<1>3. ASSUME NEW k \in 1 .. n
      PROVE  /\ Offset(I, k) \in Nat /\ Offset(I, k + 1) = Offset(I, k) + Len(I[k])
             /\ Offset(I, k) + Len(I[k]) <= Len(E)
             /\ \A m \in 1 .. Len(I[k]) : E[Offset(I, k) + m] = I[k][m]
  BY <1>1, <1>2, FlatPiece
<1>4. Offset(I, 1) = 0 /\ Offset(I, n + 1) = Len(E) /\ Len(E) \in Nat
  BY <1>1, <1>2, OffsetEnds
<1>5. offset \in [1 .. n + 1 -> Nat] /\ \A k \in 1 .. n + 1 : offset[k] = Offset(I, k)
  <2>1. \A k \in 1 .. n + 1 : k \in 1 .. n \/ k = n + 1
    BY <1>1
  <2> QED
    BY <1>3, <1>4, <2>1
<1> HIDE DEF offset
<1>6. \A k \in 1 .. n : k \in 1 .. n + 1 /\ k + 1 \in 1 .. n + 1
  BY <1>1
<1>7. 1 \in 1 .. n + 1 /\ n + 1 \in 1 .. n + 1
  BY <1>1
<1>8. Spots(offset, p, q)
  <2>1. ASSUME NEW k \in 1 .. n
        PROVE  /\ offset[k + 1] = offset[k] + Len(p[q[k]])
               /\ offset[k + 1] <= Len(E)
               /\ \A m \in 1 .. Len(p[q[k]]) : E[offset[k] + m] = p[q[k]][m]
    <3>1. offset[k] = Offset(I, k) /\ offset[k + 1] = Offset(I, k + 1) /\ I[k] = p[q[k]]
      BY <1>1, <1>5, <1>6
    <3> QED
      BY <1>3, <3>1
  <2>2. offset[1] = 0 /\ offset[n + 1] = Len(E)
    BY <1>4, <1>5, <1>7
  <2> QED
    BY <1>5, <2>1, <2>2 DEF Spots, n, E
<1> QED
  BY <1>8

(* A reader that takes exactly what is printed for each byte, and reads    *)
(* that byte, reads all bytes.                                             *)
LEMMA ReadsBack ==
    ASSUME NEW S, NEW q \in Seq(S), NEW g, NEW offset,
           offset[1] = 0, g[offset[Len(q) + 1] + 1] = <<>>,
           \A k \in 1 .. Len(q) : g[offset[k] + 1] = <<q[k]>> \o g[offset[k + 1] + 1]
    PROVE  g[1] = q
<1> DEFINE n == Len(q)
           T(k) == SubSeq(q, k, n)
           Bad == {d \in 0 .. n : g[offset[n + 1 - d] + 1] # T(n + 1 - d)}
<1>1. n \in Nat /\ T(n + 1) = <<>> /\ T(1) = q
  <2>1. n \in Nat /\ T(1) = q
    BY PrefixFacts
  <2>2. T(n + 1) \in Seq(S) /\ Len(T(n + 1)) = 0
    OBVIOUS
  <2> QED
    BY <2>1, <2>2
<1>2. ASSUME NEW k \in 1 .. n
      PROVE  T(k) = <<q[k]>> \o T(k + 1)
  <2> DEFINE a == T(k)
             x == <<q[k]>>
             b == x \o T(k + 1)
  <2>1. q[k] \in S /\ T(k + 1) \in Seq(S) /\ Len(T(k + 1)) = n - k
        /\ \A m \in 1 .. n - k : T(k + 1)[m] = q[k + m]
    <3>0. k + 1 \in 1 .. n + 1 /\ n - (k + 1) + 1 = n - k /\ q[k] \in S
      BY <1>1
    <3>1. T(k + 1) \in Seq(S) /\ Len(T(k + 1)) = n - (k + 1) + 1
      <4> DEFINE m == k + 1
      <4>1. m \in 1 .. n + 1
        BY <3>0
      <4> HIDE DEF m
      <4>2. SubSeq(q, m, n) \in Seq(S) /\ Len(SubSeq(q, m, n)) = n - m + 1
        BY <1>1, <4>1
      <4> QED
        BY <4>2 DEF m
    <3>2. \A m \in 1 .. n - k : T(k + 1)[m] = q[(k + 1) + m - 1]
      BY <1>1
    <3>3. \A m \in 1 .. n - k : (k + 1) + m - 1 = k + m
      BY <1>1
    <3> HIDE DEF T
    <3> QED
      BY <3>0, <3>1, <3>2, <3>3, Zenon
  <2>2. a \in Seq(S) /\ Len(a) = n - k + 1 /\ \A m \in 1 .. n - k + 1 : a[m] = q[k + m - 1]
    BY <1>1
  <2> HIDE DEF T
  <2>3. x \in Seq(S) /\ Len(x) = 1 /\ x[1] = q[k]
    BY <2>1
  <2> HIDE DEF x
  <2>4. b \in Seq(S) /\ Len(b) = 1 + (n - k)
        /\ \A m \in 1 .. 1 + (n - k) : b[m] = IF m <= 1 THEN x[m] ELSE T(k + 1)[m - 1]
    <3> DEFINE t == T(k + 1)
    <3>1. t \in Seq(S) /\ Len(t) = n - k
      BY <2>1
    <3> HIDE DEF t
    <3>2. /\ x \o t \in Seq(S) /\ Len(x \o t) = 1 + (n - k)
          /\ \A m \in 1 .. 1 + (n - k) : (x \o t)[m] = IF m <= 1 THEN x[m] ELSE t[m - 1]
      <4>1. /\ x \o t \in Seq(S) /\ Len(x \o t) = Len(x) + Len(t)
            /\ \A m \in 1 .. Len(x) + Len(t) :
                  (x \o t)[m] = IF m <= Len(x) THEN x[m] ELSE t[m - Len(x)]
        BY <2>3, <3>1, ConcatFacts
      <4> QED
        BY <2>3, <3>1, <4>1, Zenon
    <3> QED
      BY <3>2, Zenon DEF t
  <2> HIDE DEF a, b, n
  <2>5. ASSUME NEW m \in 1 .. n - k + 1
        PROVE  a[m] = b[m]
    <3>1. m \in 1 .. 1 + (n - k)
      BY <1>1, <2>5
    <3>2. CASE m = 1
      <4>1. k + 1 - 1 = k
        BY <1>1
      <4>2. a[1] = q[k]
        BY <2>2, <2>5, <3>2, <4>1
      <4>3. b[1] = q[k]
        BY <2>3, <2>4, <3>1, <3>2
      <4> QED
        BY <3>2, <4>2, <4>3
    <3>3. CASE m # 1
      <4>1. m - 1 \in 1 .. n - k /\ ~ (m <= 1) /\ k + (m - 1) = k + m - 1
        BY <1>1, <2>5, <3>3
      <4>2. b[m] = T(k + 1)[m - 1]
        BY <2>4, <3>1, <4>1
      <4>3. T(k + 1)[m - 1] = q[k + (m - 1)]
        BY <2>1, <4>1
      <4> QED
        BY <2>2, <2>5, <4>1, <4>2, <4>3
    <3> QED
      BY <3>2, <3>3
  <2>6. Len(a) = Len(b)
    BY <1>1, <2>2, <2>4
  <2>7. a = b
    BY <2>2, <2>4, <2>5, <2>6, SeqEqual
  <2> QED
    BY <2>7 DEF a, b, x
<1>3. ASSUME NEW d \in Bad, \A c \in 0 .. d - 1 : c \notin Bad
      PROVE  FALSE
  <2>1. d \in 0 .. n /\ g[offset[n + 1 - d] + 1] # T(n + 1 - d)
    OBVIOUS
  <2>2. CASE d = 0
    <3>1. n + 1 - d = n + 1
      BY <1>1, <2>2
    <3> QED
      BY <1>1, <2>1, <3>1
  <2>3. CASE d # 0
    <3>1. /\ n + 1 - d \in 1 .. n /\ d - 1 \in 0 .. n /\ d - 1 \in 0 .. d - 1
          /\ n + 1 - (d - 1) = n + 1 - d + 1
      BY <1>1, <2>1, <2>3
    <3>2. d - 1 \notin Bad
      BY <1>3, <3>1
    <3> DEFINE k == n + 1 - d
    <3>3. g[offset[k + 1] + 1] = T(k + 1)
      BY <3>1, <3>2
    <3>4. k \in 1 .. n /\ g[offset[k] + 1] # T(k)
      BY <2>1, <3>1
    <3> HIDE DEF k, T
    <3> QED
      BY <1>2, <3>3, <3>4
  <2> QED
    BY <2>2, <2>3
<1>4. Bad = {}
  <2>1. Bad \in SUBSET (0 .. n)
    OBVIOUS
  <2> HIDE DEF Bad
  <2> QED
    BY <1>1, <1>3, <2>1, NoLeast
<1>5. n \in 0 .. n /\ n + 1 - n = 1
  BY <1>1
<1>6. g[offset[1] + 1] = T(1)
  <2> HIDE DEF T
  <2> QED
    BY <1>4, <1>5
<1> QED
  BY <1>1, <1>6

-----------------------------------------------------------------------------
(* What stands for one byte in the initialisers.                           *)
LEMMA PrintedShape ==
    ASSUME NEW c \in Bytes
    PROVE  /\ c \in Special => PrintedOf[c] = <<"backslash", Letter[c]>>
           /\ c \notin Special => PrintedOf[c] = <<c>> /\ c # "backslash"
<1>1. DOMAIN Letter = Special
  BY DEF Letter, Special
<1>2. PrintedOf[c] = Printed(c)
  BY Zenon DEF PrintedOf
<1>3. "backslash" \in Special
  BY DEF Special
<1> QED
  BY <1>1, <1>2, <1>3, Zenon DEF Printed

(* gcc turns the letter of each escape sequence but the NUL's back into    *)
(* the character it was printed for.                                       *)
LEMMA Letters ==
    /\ Letter["nul"] = "0"
    /\ \A c \in Special \ {"nul"} : /\ Letter[c] \in DOMAIN Escapes /\ Escapes[Letter[c]] = c
                                    /\ Letter[c] \notin Octal
<1>1. DOMAIN Letter = Special
  BY DEF Letter, Special
<1> QED
  BY <1>1 DEF Special, Letter, Escapes, Octal

\* No digit is behind a NUL.
Separated(q) == \A k \in 1 .. Len(q) - 1 : q[k] = "nul" => q[k + 1] \notin Octal

(* gcc reads back the bytes of a string region, if it ends with a NUL and  *)
(* no digit is behind a NUL.                                               *)
LEMMA GccReads ==
    ASSUME NEW q \in Seq(Bytes), Separated(q), q # <<>> => q[Len(q)] = "nul"
    PROVE  GccString(Each(PrintedOf, q)) = q
<1> DEFINE s == Each(PrintedOf, q)
           g == GccFrom(s)
           n == Len(q)
           p == PrintedOf
<1>1. s \in Seq(Bytes) /\ Maps(p, Bytes, Seq(Bytes))
  BY PrintedType, EachType
<1>2. Len(s) \in Nat /\ DOMAIN s = 1 .. Len(s) /\ n \in Nat /\ \A k \in 1 .. n : q[k] \in Bytes
  BY <1>1
<1>3. PICK o : Spots(o, p, q)
  BY <1>1, SpotsExist
<1>4. /\ o \in [1 .. n + 1 -> Nat] /\ o[1] = 0 /\ o[n + 1] = Len(s)
      /\ \A k \in 1 .. n : /\ o[k + 1] = o[k] + Len(p[q[k]]) /\ o[k + 1] <= Len(s)
                           /\ \A m \in 1 .. Len(p[q[k]]) : s[o[k] + m] = p[q[k]][m]
  BY <1>3, Zenon DEF Spots
<1> HIDE DEF n, s, p
<1>5. ASSUME NEW k \in 1 .. n
      PROVE  /\ o[k] \in Nat
             /\ q[k] \in Special => /\ o[k + 1] = o[k] + 2 /\ o[k] + 2 <= Len(s)
                                    /\ s[o[k] + 1] = "backslash" /\ s[o[k] + 2] = Letter[q[k]]
             /\ q[k] \notin Special => /\ o[k + 1] = o[k] + 1 /\ o[k] + 1 <= Len(s)
                                       /\ s[o[k] + 1] = q[k] /\ q[k] # "backslash"
  <2>1. o[k] \in Nat /\ o[k + 1] \in Nat /\ q[k] \in Bytes
    <3>1. k \in 1 .. n + 1 /\ k + 1 \in 1 .. n + 1
      BY <1>2
    <3> QED
      BY <1>2, <1>4, <3>1
  <2> DEFINE piece == p[q[k]]
  <2>2. /\ o[k + 1] = o[k] + Len(piece) /\ o[k + 1] <= Len(s)
        /\ \A m \in 1 .. Len(piece) : s[o[k] + m] = piece[m]
    BY <1>4
  <2>3. CASE q[k] \in Special
    <3>1. piece = <<"backslash", Letter[q[k]]>>
      BY <2>1, <2>3, PrintedShape DEF p
    <3> HIDE DEF piece
    <3>2. Len(piece) = 2 /\ piece[1] = "backslash" /\ piece[2] = Letter[q[k]]
      BY <3>1
    <3>3. s[o[k] + 1] = piece[1] /\ s[o[k] + 2] = piece[2]
      BY <2>2, <3>2
    <3>4. o[k + 1] = o[k] + 2 /\ o[k] + 2 <= Len(s)
      BY <2>2, <3>2
    <3> QED
      BY <2>1, <2>3, <3>2, <3>3, <3>4, Zenon
  <2>4. CASE q[k] \notin Special
    <3>1. piece = <<q[k]>> /\ q[k] # "backslash"
      BY <2>1, <2>4, PrintedShape DEF p
    <3> HIDE DEF piece
    <3>2. Len(piece) = 1 /\ piece[1] = q[k]
      BY <3>1
    <3>3. s[o[k] + 1] = piece[1]
      BY <2>2, <3>2
    <3>4. o[k + 1] = o[k] + 1 /\ o[k] + 1 <= Len(s)
      BY <2>2, <3>2
    <3> QED
      BY <2>1, <2>4, <3>1, <3>2, <3>3, <3>4, Zenon
  <2> QED
    BY <2>3, <2>4
<1>6. ASSUME NEW j \in 1 .. Len(s), s[j] = "backslash"
      PROVE  j < Len(s)
  <2>1. n # 0
    BY <1>2, <1>4, <1>6
  <2>2. n \in 1 .. n /\ q[n] = "nul"
    BY <1>2, <2>1 DEF n
  <2>3. o[n] \in Nat /\ o[n] + 2 = Len(s) /\ s[o[n] + 2] = "0"
    <3>1. "nul" \in Special
      BY DEF Special
    <3> QED
      BY <1>4, <1>5, <2>2, <3>1, Letters
  <2>4. j # Len(s)
    BY <1>6, <2>3
  <2>5. j \in Int /\ Len(s) \in Int /\ j <= Len(s)
    BY <1>2
  <2> QED
    BY <2>4, <2>5
<1>7. \A k \in 1 .. Len(s) + 1 :
         g[k] = IF k > Len(s) THEN <<>>
                ELSE IF s[k] # "backslash" THEN <<s[k]>> \o g[k + 1]
                ELSE IF s[k + 1] \notin Octal THEN <<Escapes[s[k + 1]]>> \o g[k + 2]
                ELSE <<IF \A j \in 1 .. OctalDigits(s, k) : s[k + j] = "0" THEN "nul"
                       ELSE "another">> \o g[k + OctalDigits(s, k) + 1]
  BY <1>2, <1>6, GccStep
<1> HIDE DEF g
<1>8. ASSUME NEW k \in 1 .. n
      PROVE  g[o[k] + 1] = <<q[k]>> \o g[o[k + 1] + 1]
  <2> DEFINE j == o[k] + 1
  <2>1. j \in 1 .. Len(s) /\ j \in 1 .. Len(s) + 1 /\ ~ (j > Len(s))
    BY <1>2, <1>5
  <2>2. CASE q[k] \notin Special
    <3>1. s[j] = q[k] /\ s[j] # "backslash" /\ o[k + 1] + 1 = j + 1
      BY <1>5, <2>2
    <3> HIDE DEF j
    <3> QED
      BY <1>7, <2>1, <3>1, Zenon DEF j
  <2>3. CASE q[k] \in Special /\ q[k] # "nul"
    <3>1. j + 1 = o[k] + 2 /\ j + 2 = o[k + 1] + 1 /\ s[j] = "backslash"
      BY <1>5, <2>3
    <3>2. s[j + 1] = Letter[q[k]]
      BY <1>5, <2>3, <3>1
    <3>3. s[j + 1] \notin Octal /\ Escapes[s[j + 1]] = q[k]
      BY <2>3, <3>2, Letters
    <3> HIDE DEF j
    <3> QED
      BY <1>7, <2>1, <3>1, <3>3, Zenon DEF j
  <2>4. CASE q[k] = "nul"
    <3>1. q[k] \in Special /\ "0" \in Octal
      BY <2>4 DEF Special, Octal
    <3>2. j + 1 = o[k] + 2 /\ j + 2 = o[k + 1] + 1 /\ s[j] = "backslash" /\ j < Len(s)
      BY <1>5, <3>1
    <3>3. s[j + 1] = "0"
      BY <1>5, <2>4, <3>1, <3>2, Letters
    <3>4. j + 2 > Len(s) \/ s[j + 2] \notin Octal
      <4>1. CASE k = n
        BY <1>4, <3>2, <4>1
      <4>2. CASE k # n
        <5>1. k + 1 \in 1 .. n /\ k \in 1 .. Len(q) - 1
          BY <1>2, <4>2 DEF n
        <5>2. q[k + 1] \notin Octal
          BY <2>4, <5>1 DEF Separated
        <5>3. "backslash" \notin Octal
          BY DEF Octal
        <5>4. s[o[k + 1] + 1] = "backslash" \/ s[o[k + 1] + 1] = q[k + 1]
          BY <1>5, <5>1
        <5> QED
          BY <3>2, <5>2, <5>3, <5>4
      <4> QED
        BY <4>1, <4>2
    <3> HIDE DEF j
    <3>5. OctalDigits(s, j) = 1
      BY <1>2, <2>1, <3>1, <3>2, <3>3, <3>4, OctalRange
    <3>6. \A m \in 1 .. OctalDigits(s, j) : s[j + m] = "0"
      <4>1. \A m \in 1 .. 1 : m = 1
        OBVIOUS
      <4> QED
        BY <3>3, <3>5, <4>1, Zenon
    <3>7. j + OctalDigits(s, j) + 1 = o[k + 1] + 1
      BY <2>1, <3>2, <3>5
    <3>8. g[j] = <<"nul">> \o g[j + OctalDigits(s, j) + 1]
      BY <1>7, <2>1, <3>1, <3>2, <3>3, <3>6, Zenon
    <3> QED
      BY <2>4, <3>7, <3>8, Zenon DEF j
  <2> QED
    BY <2>2, <2>3, <2>4
<1>9. g[o[n + 1] + 1] = <<>>
  <2>1. Len(s) + 1 \in 1 .. Len(s) + 1 /\ Len(s) + 1 > Len(s)
    BY <1>2
  <2> QED
    BY <1>4, <1>7, <2>1, Zenon
<1>10. g[1] = q
  BY <1>4, <1>8, <1>9, ReadsBack DEF n
<1> QED
  BY <1>10, GccIsFrom DEF g, s

(* A sequence between two equal elements.                                  *)
LEMMA Quoted ==
    ASSUME NEW S, NEW c \in S, NEW q \in Seq(S)
    PROVE  LET w == <<c>> \o q \o <<c>>
           IN  /\ Len(w) = Len(q) + 2 /\ w[Len(q) + 2] = c
               /\ \A m \in 1 .. Len(q) : w[m + 1] = q[m]
<1> DEFINE x == <<c>>
           u == x \o q
           w == u \o x
           n == Len(q)
<1>1. x \in Seq(S) /\ Len(x) = 1 /\ x[1] = c /\ n \in Nat
  OBVIOUS
<1> HIDE DEF x
<1>2. /\ u \in Seq(S) /\ Len(u) = 1 + n
      /\ \A m \in 1 .. 1 + n : u[m] = IF m <= 1 THEN x[m] ELSE q[m - 1]
  <2>1. /\ u \in Seq(S) /\ Len(u) = Len(x) + Len(q)
        /\ \A m \in 1 .. Len(x) + Len(q) : u[m] = IF m <= Len(x) THEN x[m] ELSE q[m - Len(x)]
    BY <1>1, ConcatFacts
  <2> QED
    BY <1>1, <2>1, Zenon
<1> HIDE DEF u, n
<1>3. /\ Len(w) = 1 + n + 1
      /\ \A m \in 1 .. 1 + n + 1 : w[m] = IF m <= 1 + n THEN u[m] ELSE x[m - (1 + n)]
  <2>1. /\ Len(w) = Len(u) + Len(x)
        /\ \A m \in 1 .. Len(u) + Len(x) : w[m] = IF m <= Len(u) THEN u[m] ELSE x[m - Len(u)]
    BY <1>1, <1>2, ConcatFacts
  <2> QED
    BY <1>1, <1>2, <2>1, Zenon
<1> HIDE DEF w
<1>4. w[n + 2] = c
  <2>1. n + 2 \in 1 .. 1 + n + 1 /\ ~ (n + 2 <= 1 + n) /\ n + 2 - (1 + n) = 1
    BY <1>1
  <2> QED
    BY <1>1, <1>3, <2>1
<1>5. ASSUME NEW m \in 1 .. n
      PROVE  w[m + 1] = q[m]
  <2>1. /\ m + 1 \in 1 .. 1 + n + 1 /\ m + 1 <= 1 + n /\ m + 1 \in 1 .. 1 + n
        /\ ~ (m + 1 <= 1) /\ m + 1 - 1 = m
    BY <1>1
  <2>2. w[m + 1] = u[m + 1]
    BY <1>3, <2>1
  <2>3. u[m + 1] = q[m + 1 - 1]
    BY <1>2, <2>1
  <2> QED
    BY <2>1, <2>2, <2>3
<1>6. Len(w) = n + 2
  BY <1>1, <1>3
<1> QED
  BY <1>4, <1>5, <1>6 DEF w, u, x, n

\* What cannot stand for itself between two quotes.
NeedEscape == {"apostrophe", "newline", "backslash"}

(* A NUL is printed as an escaped constant, any other byte between quotes  *)
(* as it is.                                                               *)
LEMMA ConstantShape ==
    ASSUME NEW c \in Bytes, NEW piece, piece = ConstantOf[c]
    PROVE  /\ c = "nul" => /\ Len(piece) = 4 /\ piece[2] = "backslash" /\ piece[3] = "0"
                           /\ piece[4] = "apostrophe"
           /\ c # "nul" => Len(piece) = 3 /\ piece[2] = c /\ piece[3] = "apostrophe"
<1>1. "apostrophe" \in Bytes /\ "backslash" \in Bytes /\ "0" \in Bytes
  BY DEF Bytes, Special
<1>2. piece = Constant(c)
  BY Zenon DEF ConstantOf
<1>3. CASE c = "nul"
  <2> DEFINE q == <<"backslash", "0">>
  <2>1. q \in Seq(Bytes) /\ Len(q) = 2 /\ q[1] = "backslash" /\ q[2] = "0"
    BY <1>1
  <2>2. Printed("nul") = q
    BY DEF Printed, Letter
  <2> HIDE DEF q
  <2>3. piece = <<"apostrophe">> \o q \o <<"apostrophe">>
    BY <1>2, <1>3, <2>2, Zenon DEF Constant
  <2>4. /\ Len(piece) = Len(q) + 2 /\ piece[Len(q) + 2] = "apostrophe"
        /\ \A m \in 1 .. Len(q) : piece[m + 1] = q[m]
    BY <1>1, <2>1, <2>3, Quoted
  <2>5. 1 \in 1 .. Len(q) /\ 2 \in 1 .. Len(q) /\ Len(q) + 2 = 4 /\ 1 + 1 = 2 /\ 2 + 1 = 3
    BY <2>1
  <2>6. piece[1 + 1] = q[1] /\ piece[2 + 1] = q[2]
    BY <2>4, <2>5, Zenon
  <2> QED
    BY <1>3, <2>1, <2>4, <2>5, <2>6, Zenon
<1>4. CASE c # "nul"
  <2> DEFINE q == <<c>>
  <2>1. q \in Seq(Bytes) /\ Len(q) = 1 /\ q[1] = c
    OBVIOUS
  <2> HIDE DEF q
  <2>2. piece = <<"apostrophe">> \o q \o <<"apostrophe">>
    BY <1>2, <1>4, Zenon DEF Constant, q
  <2>3. /\ Len(piece) = Len(q) + 2 /\ piece[Len(q) + 2] = "apostrophe"
        /\ \A m \in 1 .. Len(q) : piece[m + 1] = q[m]
    BY <1>1, <2>1, <2>2, Quoted
  <2>4. 1 \in 1 .. Len(q) /\ Len(q) + 2 = 3 /\ 1 + 1 = 2
    BY <2>1
  <2>5. piece[1 + 1] = q[1]
    BY <2>3, <2>4, Zenon
  <2> QED
    BY <1>4, <2>1, <2>3, <2>4, <2>5, Zenon
<1> QED
  BY <1>3, <1>4

(* gcc reads back the bytes of a float region, if none of them has to be   *)
(* escaped between quotes but the NUL, the one that setup_float() escapes. *)
LEMMA GccFloatReads ==
    ASSUME NEW q \in Seq(Bytes), \A k \in 1 .. Len(q) : q[k] \notin NeedEscape
    PROVE  GccFloat(Each(ConstantOf, q)) = q
<1> DEFINE s == Each(ConstantOf, q)
           g == GccFloatFrom(s)
           n == Len(q)
           p == ConstantOf
<1>1. s \in Seq(Bytes) /\ Maps(p, Bytes, Seq(Bytes))
  BY ConstantType, EachType
<1>2. Len(s) \in Nat /\ n \in Nat /\ \A k \in 1 .. n : q[k] \in Bytes
  BY <1>1
<1>3. PICK o : Spots(o, p, q)
  BY <1>1, SpotsExist
<1>4. /\ o \in [1 .. n + 1 -> Nat] /\ o[1] = 0 /\ o[n + 1] = Len(s)
      /\ \A k \in 1 .. n : /\ o[k + 1] = o[k] + Len(p[q[k]]) /\ o[k + 1] <= Len(s)
                           /\ \A m \in 1 .. Len(p[q[k]]) : s[o[k] + m] = p[q[k]][m]
  BY <1>3, Zenon DEF Spots
<1>5. \A k \in 1 .. Len(s) + 1 :
         g[k] = IF k > Len(s) THEN <<>>
                ELSE IF OneByte(s, k) THEN <<s[k + 1]>> \o g[k + 3]
                ELSE IF EscapedByte(s, k) THEN <<EscapedAs(s, k)>> \o g[k + 4]
                ELSE <<"error">>
  BY <1>2, GccFloatStep
<1> HIDE DEF n, s, p, g
<1>6. ASSUME NEW k \in 1 .. n
      PROVE  g[o[k] + 1] = <<q[k]>> \o g[o[k + 1] + 1]
  <2>1. o[k] \in Nat /\ o[k + 1] \in Nat /\ q[k] \in Bytes
    <3>1. k \in 1 .. n + 1 /\ k + 1 \in 1 .. n + 1
      BY <1>2
    <3> QED
      BY <1>2, <1>4, <3>1
  <2> DEFINE piece == p[q[k]]
             j == o[k] + 1
  <2>2. /\ o[k + 1] = o[k] + Len(piece) /\ o[k + 1] <= Len(s)
        /\ \A m \in 1 .. Len(piece) : s[o[k] + m] = piece[m]
    BY <1>4
  <2>3. CASE q[k] = "nul"
    <3>1. piece = ConstantOf[q[k]]
      BY DEF p
    <3> HIDE DEF piece
    <3>2. /\ Len(piece) = 4 /\ piece[2] = "backslash" /\ piece[3] = "0"
          /\ piece[4] = "apostrophe"
      BY <2>1, <2>3, <3>1, ConstantShape
    <3>3. s[o[k] + 2] = "backslash" /\ s[o[k] + 3] = "0" /\ s[o[k] + 4] = "apostrophe"
      BY <2>2, <3>2
    <3>4. /\ j + 1 = o[k] + 2 /\ j + 2 = o[k] + 3 /\ j + 3 = o[k] + 4
          /\ j + 4 = o[k + 1] + 1 /\ j + 3 <= Len(s)
          /\ j \in 1 .. Len(s) + 1 /\ ~ (j > Len(s))
      <4>1. o[k + 1] = o[k] + 4 /\ o[k] + 4 <= Len(s)
        BY <2>2, <3>2
      <4>2. \A here, there, len \in Nat :
               there = here + 4 /\ here + 4 <= len =>
                  /\ here + 1 + 1 = here + 2 /\ here + 1 + 2 = here + 3 /\ here + 1 + 3 = here + 4
                  /\ here + 1 + 4 = there + 1 /\ here + 1 + 3 <= len
                  /\ here + 1 \in 1 .. len + 1 /\ ~ (here + 1 > len)
        OBVIOUS
      <4> QED
        BY <1>2, <2>1, <4>1, <4>2, Zenon
    <3> HIDE DEF j
    <3>5. ~ OneByte(s, j) /\ EscapedByte(s, j) /\ EscapedAs(s, j) = "nul"
      BY <3>3, <3>4 DEF OneByte, EscapedByte, EscapedAs
    <3>6. g[j] = <<"nul">> \o g[j + 4]
      BY <1>5, <3>4, <3>5, Zenon
    <3> QED
      BY <2>3, <3>4, <3>6, Zenon DEF j
  <2>4. CASE q[k] # "nul"
    <3>1. piece = ConstantOf[q[k]]
      BY DEF p
    <3> HIDE DEF piece
    <3>2. Len(piece) = 3 /\ piece[2] = q[k] /\ piece[3] = "apostrophe"
      BY <2>1, <2>4, <3>1, ConstantShape
    <3>3. s[o[k] + 2] = q[k] /\ s[o[k] + 3] = "apostrophe"
      BY <2>2, <3>2
    <3>4. /\ j + 1 = o[k] + 2 /\ j + 2 = o[k] + 3
          /\ j + 3 = o[k + 1] + 1 /\ j + 2 <= Len(s)
          /\ j \in 1 .. Len(s) + 1 /\ ~ (j > Len(s))
      <4>1. o[k + 1] = o[k] + 3 /\ o[k] + 3 <= Len(s)
        BY <2>2, <3>2
      <4>2. \A here, there, len \in Nat :
               there = here + 3 /\ here + 3 <= len =>
                  /\ here + 1 + 1 = here + 2 /\ here + 1 + 2 = here + 3
                  /\ here + 1 + 3 = there + 1 /\ here + 1 + 2 <= len
                  /\ here + 1 \in 1 .. len + 1 /\ ~ (here + 1 > len)
        OBVIOUS
      <4> QED
        BY <1>2, <2>1, <4>1, <4>2, Zenon
    <3> HIDE DEF j
    <3>5. q[k] \notin {"apostrophe", "newline", "backslash"}
      BY DEF n, NeedEscape
    <3>6. OneByte(s, j) /\ s[j + 1] = q[k]
      BY <3>3, <3>4, <3>5 DEF OneByte
    <3>7. g[j] = <<q[k]>> \o g[j + 3]
      BY <1>5, <3>4, <3>6, Zenon
    <3> QED
      BY <3>4, <3>7, Zenon DEF j
  <2> QED
    BY <2>3, <2>4
<1>7. g[o[n + 1] + 1] = <<>>
  <2>1. Len(s) + 1 \in 1 .. Len(s) + 1 /\ Len(s) + 1 > Len(s)
    BY <1>2
  <2> QED
    BY <1>4, <1>5, <2>1, Zenon
<1>8. g[1] = q
  BY <1>4, <1>6, <1>7, ReadsBack DEF n
<1> QED
  BY <1>8, GccFloatIsFrom DEF g, s

-----------------------------------------------------------------------------
(* The bytes of an entry are in the memory at the entry's offset.          *)
LEMMA FlatHolds ==
    ASSUME NEW S, NEW ss \in Seq(Seq(S)), NEW k \in 1 .. Len(ss)
    PROVE  Holds(Flat(ss), Offset(ss, k), ss[k])
<1> DEFINE F == Flat(ss)
           o == Offset(ss, k)
           t == ss[k]
           u == SubSeq(F, o + 1, o + Len(t))
<1>1. F \in Seq(S) /\ t \in Seq(S)
  BY FlatType
<1>2. /\ o \in Nat /\ o + Len(t) <= Len(F)
      /\ \A m \in 1 .. Len(t) : F[o + m] = t[m]
  BY FlatPiece
<1> HIDE DEF F, o, t
<1>3. u = t
  <2>1. \A m \in o + 1 .. o + Len(t) : m \in 1 .. Len(F)
    BY <1>1, <1>2
  <2>2. /\ u \in Seq(S) /\ Len(u) = Len(t)
        /\ \A m \in 1 .. Len(t) : u[m] = F[o + 1 + m - 1]
    BY <1>1, <1>2, <2>1
  <2>3. \A m \in 1 .. Len(t) : o + 1 + m - 1 = o + m
    BY <1>2
  <2> HIDE DEF u
  <2>4. \A m \in 1 .. Len(u) : u[m] = t[m]
    BY <1>2, <2>2, <2>3
  <2> QED
    BY <1>1, <2>2, <2>4, SeqEqual
<1> QED
  BY <1>2, <1>3 DEF Holds, F, o, t

(* No digit is behind a NUL if none is the first byte of a string that has *)
(* another before it.                                                      *)
LEMMA SeparatedConcat ==
    ASSUME NEW S, NEW a \in Seq(S), Separated(a),
           NEW t \in Seq(S), t # <<>>, t[Len(t)] = "nul",
           \A m \in 1 .. Len(t) - 1 : t[m] # "nul",
           a # <<>> => t[1] \notin Octal
    PROVE  /\ Separated(a \o t) /\ a \o t # <<>>
           /\ (a \o t)[Len(a \o t)] = "nul"
<1> DEFINE u == a \o t
           n == Len(a)
<1>1. /\ u \in Seq(S) /\ Len(u) = n + Len(t)
      /\ \A j \in 1 .. n + Len(t) : u[j] = IF j <= n THEN a[j] ELSE t[j - n]
  BY ConcatFacts
<1>2. n \in Nat /\ Len(t) \in Nat /\ Len(t) >= 1
  OBVIOUS
<1> HIDE DEF u
<1>3. \A j \in 1 .. n : u[j] = a[j]
  BY <1>1, <1>2
<1>4. ASSUME NEW j \in 1 .. Len(t)
      PROVE  u[n + j] = t[j]
  <2>1. n + j \in 1 .. n + Len(t) /\ ~ (n + j <= n) /\ n + j - n = j
    BY <1>2
  <2> QED
    BY <1>1, <2>1
<1>5. ASSUME NEW j \in 1 .. Len(u) - 1, u[j] = "nul"
      PROVE  u[j + 1] \notin Octal
  <2>0. j \in Int /\ j >= 1 /\ j < n + Len(t)
    BY <1>1, <1>2
  <2>1. CASE j < n
    <3>1. j \in 1 .. n - 1 /\ j \in 1 .. n /\ j + 1 \in 1 .. n
      BY <1>2, <2>0, <2>1
    <3>2. a[j] = "nul"
      BY <1>3, <1>5, <3>1
    <3>3. a[j + 1] \notin Octal
      BY <3>1, <3>2 DEF Separated, n
    <3> QED
      BY <1>3, <3>1, <3>3
  <2>2. CASE j = n
    <3>1. n >= 1 /\ j + 1 = n + 1 /\ 1 \in 1 .. Len(t)
      BY <1>2, <2>0, <2>2
    <3>2. a # <<>>
      BY <3>1 DEF n
    <3> QED
      BY <1>4, <3>1, <3>2
  <2>3. CASE j > n
    <3>1. /\ j - n \in 1 .. Len(t) - 1 /\ j - n \in 1 .. Len(t) /\ n + (j - n) = j
      BY <1>2, <2>0, <2>3
    <3>2. u[j] = t[j - n]
      BY <1>4, <3>1
    <3> QED
      BY <1>5, <3>1, <3>2
  <2> QED
    BY <1>2, <2>0, <2>1, <2>2, <2>3
<1>6. u # <<>> /\ u[Len(u)] = "nul"
  <2>1. Len(t) \in 1 .. Len(t) /\ Len(u) # 0
    BY <1>1, <1>2
  <2> QED
    BY <1>1, <1>4, <2>1
<1> QED
  BY <1>5, <1>6 DEF Separated, u

\* Of strings that the NULs between them separate safely.
Unbroken(region) ==
    /\ region \in Seq(Seq(Bytes \ {"nul"}))
    /\ \A k \in 2 .. Len(region) : region[k] # <<>> => region[k][1] \notin Octal

(* The strings of a region with their NULs.                                *)
LEMMA TerminatedFacts ==
    ASSUME NEW region \in Seq(Seq(Bytes))
    PROVE  /\ Terminated(region) \in Seq(Seq(Bytes)) /\ Len(Terminated(region)) = Len(region)
           /\ \A k \in 1 .. Len(region) : Terminated(region)[k] = Append(region[k], "nul")
<1>1. /\ DOMAIN region = 1 .. Len(region) /\ Len(region) \in Nat
      /\ \A k \in 1 .. Len(region) : region[k] \in Seq(Bytes)
  OBVIOUS
<1>2. \A k \in 1 .. Len(region) : Append(region[k], "nul") \in Seq(Bytes)
  <2>1. "nul" \in Bytes
    BY DEF Bytes, Special
  <2> QED
    BY <1>1, <2>1
<1> QED
  BY <1>1, <1>2 DEF Terminated

(* In a region of strings without NULs, of which none but the first begins *)
(* with a digit, no digit is behind a NUL.                                 *)
LEMMA RegionSeparated ==
    ASSUME NEW region, Unbroken(region)
    PROVE  /\ region \in Seq(Seq(Bytes))
           /\ StringBytes(region) \in Seq(Bytes)
           /\ Separated(StringBytes(region))
           /\ LET q == StringBytes(region) IN q # <<>> => q[Len(q)] = "nul"
<1> DEFINE T == Terminated(region)
           n == Len(region)
           P(k) == SubSeq(T, 1, k)
           Fine(a) == Separated(a) /\ (a # <<>> => a[Len(a)] = "nul")
           Bad == {k \in 0 .. n : ~ Fine(Flat(P(k)))}
<1>1. /\ n \in Nat /\ \A k \in 1 .. n : region[k] \in Seq(Bytes \ {"nul"})
      /\ region \in Seq(Seq(Bytes))
  <2>1. region \in Seq(Seq(Bytes \ {"nul"}))
    BY DEF Unbroken
  <2>2. n \in Nat /\ \A k \in 1 .. n : region[k] \in Seq(Bytes \ {"nul"})
    BY <2>1
  <2>3. \A s : s \in Seq(Bytes \ {"nul"}) => s \in Seq(Bytes)
    OBVIOUS
  <2>4. region \in Seq(Seq(Bytes))
    <3>1. \A k \in 1 .. n : region[k] \in Seq(Bytes)
      BY <2>2, <2>3
    <3>2. region = [k \in 1 .. n |-> region[k]]
      BY <2>1
    <3> QED
      BY <2>2, <3>1, <3>2
  <2> QED
    BY <2>2, <2>4
<1>2. /\ T \in Seq(Seq(Bytes)) /\ Len(T) = n
      /\ \A k \in 1 .. n : T[k] = Append(region[k], "nul")
  BY <1>1, TerminatedFacts
<1> HIDE DEF T, n
<1>3. /\ P(0) = <<>> /\ P(n) = T
      /\ \A k \in 0 .. n : P(k) \in Seq(Seq(Bytes)) /\ Len(P(k)) = k
      /\ \A k \in 1 .. n : P(k) = Append(P(k - 1), T[k])
  BY <1>2, PrefixFacts
<1> HIDE DEF P
<1>4. ASSUME NEW k \in 1 .. n
      PROVE  /\ T[k] \in Seq(Bytes) /\ T[k] # <<>> /\ T[k][Len(T[k])] = "nul"
             /\ \A m \in 1 .. Len(T[k]) - 1 : T[k][m] # "nul"
             /\ k # 1 => T[k][1] \notin Octal
  <2> DEFINE r == region[k]
             t == T[k]
  <2>1. r \in Seq(Bytes \ {"nul"}) /\ t = Append(r, "nul")
    BY <1>1, <1>2
  <2>2. k # 1 /\ r # <<>> => r[1] \notin Octal
    <3>1. k # 1 => k \in 2 .. Len(region)
      BY <1>1 DEF n
    <3> QED
      BY <3>1 DEF Unbroken
  <2> HIDE DEF r, t
  <2>3. r \in Seq(Bytes) /\ "nul" \in Bytes /\ Len(r) \in Nat
    BY <2>1 DEF Bytes, Special
  <2>4. /\ t \in Seq(Bytes) /\ Len(t) = Len(r) + 1 /\ t[Len(r) + 1] = "nul"
        /\ \A m \in 1 .. Len(r) : t[m] = r[m]
    BY <2>1, <2>3, AppendFacts
  <2>5. \A m \in 1 .. Len(r) : r[m] # "nul"
    BY <2>1
  <2>6. Len(t) - 1 = Len(r) /\ Len(t) # 0
    BY <2>3, <2>4
  <2>7. k # 1 => t[1] \notin Octal
    <3>1. CASE r = <<>>
      <4>1. Len(r) + 1 = 1
        BY <3>1
      <4>2. t[1] = "nul"
        BY <2>4, <4>1
      <4> QED
        BY <4>2 DEF Octal
    <3>2. CASE r # <<>>
      <4>1. 1 \in 1 .. Len(r)
        BY <2>1, <3>2
      <4> QED
        BY <2>2, <2>4, <3>2, <4>1
    <3> QED
      BY <3>1, <3>2
  <2>8. t # <<>>
    BY <2>4, <2>6
  <2> QED
    BY <2>4, <2>5, <2>6, <2>7, <2>8 DEF t
<1>5. ASSUME NEW k \in Bad, \A j \in 0 .. k - 1 : j \notin Bad
      PROVE  FALSE
  <2>1. k \in 0 .. n /\ ~ Fine(Flat(P(k)))
    OBVIOUS
  <2>2. CASE k = 0
    <3>1. Flat(P(k)) = <<>>
      BY <1>3, <2>2, FlatEmpty
    <3>2. Separated(<<>>)
      BY DEF Separated
    <3> QED
      BY <2>1, <3>1, <3>2
  <2>3. CASE k # 0
    <3>1. k \in 1 .. n /\ k - 1 \in 0 .. n /\ k - 1 \in 0 .. k - 1
      BY <1>1, <2>1, <2>3
    <3> DEFINE a == Flat(P(k - 1))
               t == T[k]
    <3>2. Fine(a)
      BY <1>5, <3>1
    <3>3. a \in Seq(Bytes) /\ Flat(P(k)) = a \o t /\ t \in Seq(Bytes)
      <4>1. /\ P(k - 1) \in Seq(Seq(Bytes)) /\ P(k) = Append(P(k - 1), T[k])
            /\ t \in Seq(Bytes)
        BY <1>3, <1>4, <3>1
      <4> QED
        BY <4>1, FlatType, FlatAppend
    <3>4. a # <<>> => t[1] \notin Octal
      <4>1. CASE k = 1
        <5>1. k - 1 = 0
          BY <4>1
        <5>2. a = <<>>
          BY <1>3, <5>1, FlatEmpty
        <5> QED
          BY <5>2
      <4>2. CASE k # 1
        BY <1>4, <3>1, <4>2
      <4> QED
        BY <4>1, <4>2
    <3>5. /\ t # <<>> /\ t[Len(t)] = "nul" /\ \A m \in 1 .. Len(t) - 1 : t[m] # "nul"
      BY <1>4, <3>1
    <3> HIDE DEF a, t
    <3>6. Separated(a \o t) /\ (a \o t)[Len(a \o t)] = "nul"
      BY <3>2, <3>3, <3>4, <3>5, SeparatedConcat
    <3> QED
      BY <2>1, <3>3, <3>6
  <2> QED
    BY <2>2, <2>3
<1>6. Bad = {}
  <2>1. Bad \in SUBSET (0 .. n)
    OBVIOUS
  <2> HIDE DEF Bad
  <2> QED
    BY <1>1, <1>5, <2>1, NoLeast
<1>7. Fine(Flat(T))
  <2>1. n \in 0 .. n
    BY <1>1
  <2> QED
    BY <1>3, <1>6, <2>1
<1>8. Flat(T) \in Seq(Bytes)
  BY <1>2, FlatType
<1> QED
  BY <1>1, <1>7, <1>8 DEF StringBytes, T

(* What the running program finds at an entry's offset.                    *)
LEMMA StringsHold ==
    ASSUME NEW region, Unbroken(region), NEW k \in 1 .. Len(region)
    PROVE  Holds(GccString(SetupString(region)), Offset(Terminated(region), k),
                 Append(region[k], "nul"))
<1>1. /\ region \in Seq(Seq(Bytes)) /\ StringBytes(region) \in Seq(Bytes)
      /\ Separated(StringBytes(region))
      /\ LET q == StringBytes(region) IN q # <<>> => q[Len(q)] = "nul"
  BY RegionSeparated
<1>2. GccString(SetupString(region)) = StringBytes(region)
  BY <1>1, GccReads, SetupStringPrints
<1>3. /\ Terminated(region) \in Seq(Seq(Bytes)) /\ Len(Terminated(region)) = Len(region)
      /\ Terminated(region)[k] = Append(region[k], "nul")
  BY <1>1, TerminatedFacts
<1> QED
  BY <1>2, <1>3, FlatHolds DEF StringBytes

(* The same of the floats, if no byte needs an escape sequence but the     *)
(* NUL.                                                                    *)
LEMMA FloatsHold ==
    ASSUME NEW region \in Seq(Seq(Bytes \ NeedEscape)), NEW k \in 1 .. Len(region)
    PROVE  Holds(GccFloat(SetupFloat(region)), Offset(region, k), region[k])
<1>1. \A s : s \in Seq(Bytes \ NeedEscape) => s \in Seq(Bytes)
  OBVIOUS
<1>2. region \in Seq(Seq(Bytes))
  <2>1. Len(region) \in Nat /\ \A j \in 1 .. Len(region) : region[j] \in Seq(Bytes)
    BY <1>1
  <2>2. region = [j \in 1 .. Len(region) |-> region[j]]
    OBVIOUS
  <2> QED
    BY <2>1, <2>2
<1>3. Flat(region) \in Seq(Bytes \ NeedEscape)
  BY FlatType
<1>4. /\ Flat(region) \in Seq(Bytes)
      /\ \A j \in 1 .. Len(Flat(region)) : Flat(region)[j] \notin NeedEscape
  BY <1>3
<1>5. GccFloat(SetupFloat(region)) = Flat(region)
  BY <1>2, <1>4, GccFloatReads, SetupFloatPrints
<1> QED
  BY <1>2, <1>5, FlatHolds

-----------------------------------------------------------------------------
(* What a text stands for, if each of its backslashes begins an escape     *)
(* sequence that the switch of deescape() knows.                           *)
Legible(s) == \A k \in 1 .. Len(s) : s[k] = "backslash" => k < Len(s) /\ s[k + 1] \in Allowed

\* What strlen() does not stop at.
TextBytes == Bytes \ {"nul"}

(* The escape sequences that the lexer allows stand for characters that    *)
(* are neither a NUL nor an octal digit.                                   *)
LEMMA AllowedFacts ==
    /\ "nul" \notin Chars /\ Chars \subseteq TextBytes
    /\ \A e \in Allowed : e \in DOMAIN Escapes /\ Escapes[e] \in TextBytes /\ Escapes[e] \notin Octal
<1>1. "nul" \notin Chars
  BY LiteralsAssumption
<1>2. Allowed = {"n", "t", "r", "apostrophe", "quote"}
  BY DEF Allowed, Escapes
<1>3. \A e \in Allowed : Escapes[e] \in Special \ {"nul"} /\ Escapes[e] \notin Octal
  BY <1>2 DEF Escapes, Special, Octal
<1> QED
  BY <1>1, <1>3 DEF TextBytes, Bytes, Allowed

(* What a legible text stands for has no NUL ...                           *)
LEMMA MeantType ==
    ASSUME NEW s \in Seq(Chars), Legible(s)
    PROVE  \A k \in 1 .. Len(s) + 2 : MeantFrom(s)[k] \in Seq(TextBytes)
<1> DEFINE L == Len(s) + 2
           f == MeantFrom(s)
           Bad == {d \in 0 .. Len(s) + 1 : f[L - d] \notin Seq(TextBytes)}
<1>1. /\ Len(s) \in Nat
      /\ \A k \in 1 .. L : f[k] = IF k > Len(s) THEN <<>>
                                  ELSE IF s[k] = "backslash" /\ k < Len(s)
                                       THEN <<Escapes[s[k + 1]]>> \o f[k + 2]
                                  ELSE <<s[k]>> \o f[k + 1]
  BY MeantStep
<1> HIDE DEF f
<1>2. ASSUME NEW d \in Bad, \A c \in 0 .. d - 1 : c \notin Bad
      PROVE  FALSE
  <2> DEFINE k == L - d
  <2>1. d \in 0 .. Len(s) + 1 /\ k \in 1 .. L /\ f[k] \notin Seq(TextBytes)
    BY <1>1
  <2>2. CASE k > Len(s)
    <3>1. f[k] = <<>>
      <4> HIDE DEF k, L
      <4> QED
        BY <1>1, <2>1, <2>2, Zenon
    <3> QED
      BY <2>1, <3>1
  <2>3. CASE ~ (k > Len(s))
    <3>1. /\ k \in 1 .. Len(s) /\ L - (d - 1) = k + 1 /\ L - (d - 2) = k + 2
          /\ d - 1 \in 0 .. d - 1 /\ d - 2 \in 0 .. d - 1
          /\ d - 1 \in 0 .. Len(s) + 1 /\ d - 2 \in 0 .. Len(s) + 1
      BY <1>1, <2>1, <2>3
    <3>2. f[k + 1] \in Seq(TextBytes) /\ f[k + 2] \in Seq(TextBytes)
      <4>1. d - 1 \notin Bad /\ d - 2 \notin Bad
        BY <1>2, <3>1
      <4>2. f[L - (d - 1)] \in Seq(TextBytes) /\ f[L - (d - 2)] \in Seq(TextBytes)
        BY <3>1, <4>1
      <4> HIDE DEF k, L
      <4> QED
        BY <3>1, <4>2, Zenon
    <3> HIDE DEF k, L, Bad
    <3>3. CASE s[k] = "backslash" /\ k < Len(s)
      <4>1. Escapes[s[k + 1]] \in TextBytes
        BY <3>1, <3>3, AllowedFacts DEF Legible
      <4>2. f[k] = <<Escapes[s[k + 1]]>> \o f[k + 2]
        BY <1>1, <2>1, <2>3, <3>3, Zenon
      <4> QED
        BY <2>1, <3>2, <4>1, <4>2
    <3>4. CASE ~ (s[k] = "backslash" /\ k < Len(s))
      <4>1. s[k] \in TextBytes
        BY <3>1, AllowedFacts
      <4>2. f[k] = <<s[k]>> \o f[k + 1]
        BY <1>1, <2>1, <2>3, <3>4, Zenon
      <4> QED
        BY <2>1, <3>2, <4>1, <4>2
    <3> QED
      BY <3>3, <3>4
  <2> QED
    BY <2>2, <2>3
<1>3. Bad = {}
  <2>1. Len(s) + 1 \in Nat /\ Bad \in SUBSET (0 .. Len(s) + 1)
    BY <1>1
  <2> HIDE DEF Bad
  <2> QED
    BY <1>2, <2>1, NoLeast
<1>4. ASSUME NEW k \in 1 .. L
      PROVE  f[k] \in Seq(TextBytes)
  <2>1. L - k \in 0 .. Len(s) + 1 /\ L - (L - k) = k
    BY <1>1
  <2>2. f[L - (L - k)] \in Seq(TextBytes)
    <3>1. L - k \notin Bad
      BY <1>3
    <3> QED
      BY <2>1, <3>1
  <2> QED
    BY <2>1, <2>2
<1> QED
  BY <1>4 DEF f

(* ... and begins with no octal digit unless the text does.                *)
LEMMA MeantFirst ==
    ASSUME NEW s \in Seq(Chars), Legible(s), s = <<>> \/ s[1] \notin Octal
    PROVE  /\ Meant(s) \in Seq(TextBytes)
           /\ Meant(s) # <<>> => Meant(s)[1] \notin Octal
<1> DEFINE f == MeantFrom(s)
<1>1. /\ Len(s) \in Nat /\ 1 \in 1 .. Len(s) + 2
      /\ f[1] = IF 1 > Len(s) THEN <<>>
                ELSE IF s[1] = "backslash" /\ 1 < Len(s)
                     THEN <<Escapes[s[1 + 1]]>> \o f[1 + 2]
                ELSE <<s[1]>> \o f[1 + 1]
  BY MeantStep
<1>2. \A k \in 1 .. Len(s) + 2 : f[k] \in Seq(TextBytes)
  BY MeantType
<1>3. Meant(s) = f[1]
  BY MeantIsFrom
<1> HIDE DEF f
<1>4. CASE 1 > Len(s)
  BY <1>1, <1>2, <1>3, <1>4
<1>5. CASE ~ (1 > Len(s))
  <2>1. /\ 1 \in 1 .. Len(s) /\ 1 + 1 \in 1 .. Len(s) + 2 /\ 1 + 2 \in 1 .. Len(s) + 2
        /\ s # <<>>
    BY <1>1, <1>5
  <2>2. ASSUME NEW x \in TextBytes, NEW q \in Seq(TextBytes)
        PROVE  (<<x>> \o q)[1] = x
    OBVIOUS
  <2>3. CASE s[1] = "backslash" /\ 1 < Len(s)
    <3>1. Escapes[s[1 + 1]] \in TextBytes /\ Escapes[s[1 + 1]] \notin Octal
      BY <2>1, <2>3, AllowedFacts DEF Legible
    <3>2. f[1] = <<Escapes[s[1 + 1]]>> \o f[1 + 2]
      BY <1>1, <1>5, <2>3, Zenon
    <3>3. f[1 + 2] \in Seq(TextBytes)
      BY <1>2, <2>1
    <3>4. f[1][1] = Escapes[s[1 + 1]]
      <4>1. (<<Escapes[s[1 + 1]]>> \o f[1 + 2])[1] = Escapes[s[1 + 1]]
        BY <2>2, <3>1, <3>3
      <4> QED
        BY <3>2, <4>1, Zenon
    <3> QED
      BY <1>1, <1>2, <1>3, <3>1, <3>4
  <2>4. CASE ~ (s[1] = "backslash" /\ 1 < Len(s))
    <3>1. s[1] \in TextBytes /\ s[1] \notin Octal
      BY <2>1, AllowedFacts
    <3>2. f[1] = <<s[1]>> \o f[1 + 1]
      BY <1>1, <1>5, <2>4, Zenon
    <3>3. f[1 + 1] \in Seq(TextBytes)
      BY <1>2, <2>1
    <3>4. f[1][1] = s[1]
      <4>1. (<<s[1]>> \o f[1 + 1])[1] = s[1]
        BY <2>2, <3>1, <3>3
      <4> QED
        BY <3>2, <4>1, Zenon
    <3> QED
      BY <1>1, <1>2, <1>3, <3>1, <3>4
  <2> QED
    BY <2>3, <2>4
<1> QED
  BY <1>4, <1>5

(* A string without a NUL is a C string.                                   *)
LEMMA CStringWhole ==
    ASSUME NEW s \in Seq(TextBytes)
    PROVE  Length(s) = Len(s) /\ CString(s) = s
<1>1. Len(s) \in Nat /\ \A k \in 1 .. Len(s) : s[k] # "nul"
  BY DEF TextBytes
<1>2. {k \in DOMAIN s : \A l \in 1 .. k : s[l] # "nul"} = 1 .. Len(s)
  <2>1. \A k \in 1 .. Len(s) : \A l \in 1 .. k : l \in 1 .. Len(s)
    BY <1>1
  <2> QED
    BY <1>1, <2>1
<1>3. Cardinality(1 .. Len(s)) = Len(s)
  <2>1. Cardinality(1 .. Len(s)) = IF 1 > Len(s) THEN 0 ELSE Len(s) - 1 + 1
    BY <1>1, FS_Interval
  <2> QED
    BY <1>1, <2>1
<1>4. Length(s) = Len(s)
  BY <1>2, <1>3 DEF Length
<1> QED
  BY <1>4, PrefixFacts DEF CString

-----------------------------------------------------------------------------
(* The invariants.                                                         *)

TextChars == Junk \cup {Escapes[e] : e \in DOMAIN Escapes}
Kinds == {"string", "char", "integer", "float"}
Literals == [kind : Kinds, text : Strings \cup CharTexts \cup Values \cup Doubles,
             at : Nat, addr : Int]

Shapes ==
    /\ literals \in Seq(Literals)
    /\ STR_REGION \in Seq(Seq(TextChars))
    /\ FLT_REGION \in Seq(Doubles)
PlacesExist == \A n \in Placed : literals[n].at <= Len(STR_REGION)
Unplaced ==
    pc = "deescape" =>
        /\ literals # <<>>
        /\ literals[Len(literals)].kind \in {"string", "char"}
        /\ literals[Len(literals)].at = 0

IInv == TypeOK /\ Shapes /\ PlacesExist /\ Unplaced /\ RegionsDisjoint

\* The length of a C string is at most that of the array it stands in.
LEMMA LengthBounded ==
    ASSUME NEW S, NEW s \in Seq(S)
    PROVE  Length(s) \in 0 .. Len(s)
<1> DEFINE Count == {k \in DOMAIN s : \A l \in 1 .. k : s[l] # "nul"}
<1>1. IsFiniteSet(1 .. Len(s)) /\ Cardinality(1 .. Len(s)) = Len(s)
  <2>1. Len(s) \in Nat /\ 1 \in Int
    OBVIOUS
  <2>2. /\ IsFiniteSet(1 .. Len(s))
        /\ Cardinality(1 .. Len(s)) = IF 1 > Len(s) THEN 0 ELSE Len(s) - 1 + 1
    BY <2>1, FS_Interval
  <2> QED
    BY <2>1, <2>2
<1>2. Count \subseteq 1 .. Len(s)
  OBVIOUS
<1>3. IsFiniteSet(Count) /\ Cardinality(Count) <= Len(s)
  BY <1>1, <1>2, FS_Subset
<1>4. Cardinality(Count) \in Nat
  BY <1>3, FS_CardinalityType
<1> QED
  BY <1>3, <1>4 DEF Length

\* What alloc_string() stores has the length it counts.
LEMMA CStringLength ==
    ASSUME NEW S, NEW s \in Seq(S)
    PROVE  CString(s) \in Seq(S) /\ Len(CString(s)) = Length(s)
BY LengthBounded DEF CString

\* Rule 50 and not rule 48: every backslash begins an escape sequence.
LEMMA RulesKnowEscapes ==
    ASSUME NEW s \in Seq(Chars), OneLine(s), IsString(s), ~ BadEscape(s),
           NEW k \in 1 .. Len(s), s[k] = "backslash"
    PROVE  k < Len(s) /\ s[k + 1] \in Allowed
<1>1. s # <<>> /\ Starred(Before(s, Len(s))) /\ k < Len(s)
  BY DEF IsString
<1>2. Starred(Before(s, k))
  <2>1. \A n \in 1 .. Len(s) : /\ DOMAIN Before(s, n) = 1 .. n - 1
                               /\ \A m \in 1 .. n - 1 : Before(s, n)[m] = s[m]
    BY DEF Before
  <2>2. k \in 1 .. Len(s) /\ Len(s) \in 1 .. Len(s)
    BY <1>1
  <2>3. \A m \in 1 .. k - 1 : m \in 1 .. Len(s) - 1 /\ (m > 1 => m - 1 \in 1 .. k - 1 /\ m - 1 \in 1 .. Len(s) - 1)
    BY <1>1
  <2> QED
    BY <1>1, <2>1, <2>2, <2>3 DEF Starred
<1>3. \A l \in k + 2 .. Len(s) : s[l] # "newline"
  BY DEF OneLine
<1> QED
  BY <1>1, <1>2, <1>3 DEF BadEscape

(* At the start there are no literals.                                     *)
LEMMA InitIInv == Init => IInv
BY LiteralsAssumption DEF Init, IInv, TypeOK, Shapes, PlacesExist, Unplaced, RegionsDisjoint,
   Placed, TextChars, Literals

-----------------------------------------------------------------------------
\* A literal without a place in the string region changes nothing in it.
LEMMA AppendKeepsPlaces ==
    ASSUME IInv, NEW l \in Literals, l.at = 0 \/ l.kind \in {"integer", "float"},
           literals' = Append(literals, l),
           UNCHANGED <<STR_REGION, STR_SIZE>>
    PROVE  literals' \in Seq(Literals) /\ PlacesExist' /\ RegionsDisjoint'
<1>1. /\ literals' \in Seq(Literals) /\ Len(literals') = Len(literals) + 1
      /\ \A n \in 1 .. Len(literals) : literals'[n] = literals[n]
      /\ literals'[Len(literals) + 1] = l
  BY DEF IInv, Shapes
<1>2. Placed' = Placed
  BY <1>1 DEF Placed, IInv, Shapes, Literals
<1>3. \A n \in Placed : literals'[n] = literals[n] /\ Behind(n)' = Behind(n)
  BY <1>1 DEF Placed, Behind, IInv, Shapes
<1> QED
  BY <1>1, <1>2, <1>3 DEF PlacesExist, RegionsDisjoint, IInv

(* No place changes as long as literals and the string region do not.      *)
LEMMA SamePlaces ==
    ASSUME IInv, UNCHANGED <<literals, STR_REGION, STR_SIZE>>
    PROVE  PlacesExist' /\ RegionsDisjoint'
BY DEF IInv, PlacesExist, RegionsDisjoint, Placed, Behind

(* A string or character that is accepted is the last literal and has no   *)
(* place yet.                                                              *)
LEMMA TokenIInv ==
    ASSUME IInv, Lexing, NEW kind \in {"string", "char"},
           NEW s \in Seq(Chars), s \in Strings \cup CharTexts,
           Token(kind, s)
    PROVE  IInv'
<1> DEFINE l == NoPlace(kind, s)
<1>1. l \in Literals /\ l.at = 0 /\ l.kind = kind
  BY DEF NoPlace, Literal, Literals, Kinds
<1>2. literals' \in Seq(Literals) /\ PlacesExist' /\ RegionsDisjoint'
  BY <1>1, AppendKeepsPlaces DEF Token, regions
<1>3. Unplaced'
  <2>1. literals \in Seq(Literals) /\ literals' = Append(literals, l)
    BY DEF Token, IInv, Shapes
  <2>2. Len(literals') = Len(literals) + 1 /\ literals' # <<>> /\ literals'[Len(literals')] = l
    BY <1>1, <2>1
  <2> QED
    BY <1>1, <2>2 DEF Unplaced
<1>4. TypeOK'
  BY <1>1, LiteralsAssumption DEF Token, TypeOK, IInv, Shapes, Lexing, regions, Junk
<1> QED
  BY <1>2, <1>3, <1>4 DEF IInv, Shapes, Token, regions

(* A literal that is rejected has no place.                                *)
LEMMA RejectIInv ==
    ASSUME IInv, Lexing, NEW kind \in Kinds,
           NEW s \in Strings \cup CharTexts \cup Values, Reject(kind, s)
    PROVE  IInv'
<1> DEFINE l == NoPlace(kind, s)
<1>1. l \in Literals /\ l.at = 0 /\ l.kind = kind
  BY DEF NoPlace, Literal, Literals, Kinds
<1>2. literals' \in Seq(Literals) /\ PlacesExist' /\ RegionsDisjoint'
  BY <1>1, AppendKeepsPlaces DEF Reject, regions
<1>3. Unplaced'
  BY DEF Reject, Unplaced
<1>4. TypeOK'
  <2>1. literals \in Seq(Literals) /\ literals' = Append(literals, l)
    BY DEF Reject, IInv, Shapes
  <2>2. Len(literals') = Len(literals) + 1
    BY <1>1, <2>1
  <2>3. Len(literals') <= MaxLiterals
    BY <2>1, <2>2, LiteralsAssumption DEF Lexing
  <2> QED
    BY <2>3 DEF Reject, TypeOK, IInv, regions
<1> QED
  BY <1>2, <1>3, <1>4 DEF IInv, Shapes, Reject, regions

-----------------------------------------------------------------------------
(* Whatever token the lexer takes,                                         *)
LEMMA LexIInv ==
    ASSUME IInv, LexString \/ LexChar \/ LexInteger \/ LexFloat
    PROVE  IInv'
<1>1. CASE LexString
  BY <1>1, TokenIInv, RejectIInv, LiteralsAssumption DEF LexString, Kinds
<1>2. CASE LexChar
  BY <1>2, TokenIInv, RejectIInv, LiteralsAssumption DEF LexChar, Kinds
<1>3. CASE LexInteger
  <2>1. Lexing
    BY <1>3 DEF LexInteger
  <2>2. PICK v \in Values : IF v >= INT_MAX \/ v <= INT_MIN THEN Reject("integer", v)
          ELSE /\ literals' = Append(literals, Literal("integer", v, 0, v))
               /\ UNCHANGED <<pc, text, i, buf2, regions, rstring, rfloat>>
    BY <1>3 DEF LexInteger
  <2>3. CASE Reject("integer", v)
    BY <2>1, <2>3, RejectIInv DEF Kinds
  <2>4. CASE /\ literals' = Append(literals, Literal("integer", v, 0, v))
             /\ UNCHANGED <<pc, text, i, buf2, regions, rstring, rfloat>>
    <3>1. Literal("integer", v, 0, v) \in Literals /\ Literal("integer", v, 0, v).at = 0
      BY LiteralsAssumption DEF Literal, Literals, Kinds
    <3>2. literals' \in Seq(Literals) /\ PlacesExist' /\ RegionsDisjoint'
      BY <2>4, <3>1, AppendKeepsPlaces DEF regions
    <3>3. TypeOK'
      BY <2>1, <2>4, <3>1, LiteralsAssumption
      DEF TypeOK, IInv, Shapes, Lexing, regions, Junk
    <3>4. Unplaced'
      BY <2>1, <2>4 DEF Unplaced, Lexing
    <3> QED
      BY <2>4, <3>2, <3>3, <3>4 DEF IInv, Shapes, regions
  <2> QED
    BY <2>2, <2>3, <2>4
<1>4. CASE LexFloat
  <2>1. PICK d \in Doubles :
            /\ FLT_REGION' = Append(FLT_REGION, d)
            /\ FLT_SIZE' = FLT_SIZE + DoubleSize
            /\ literals' = Append(literals, Literal("float", d, Len(FLT_REGION) + 1, FLT_SIZE))
    BY <1>4 DEF LexFloat
  <2> DEFINE l == Literal("float", d, Len(FLT_REGION) + 1, FLT_SIZE)
  <2>2. Lexing /\ UNCHANGED <<pc, text, i, buf2, STR_REGION, STR_SIZE>>
    BY <1>4 DEF LexFloat
  <2>3. FLT_REGION \in Seq(Doubles) /\ DoubleSize \in Nat /\ FLT_SIZE = DoubleSize * Len(FLT_REGION)
    BY LiteralsAssumption DEF IInv, Shapes, TypeOK
  <2>4. FLT_SIZE \in Int
    BY <2>3
  <2>5. l \in Literals /\ l.kind = "float"
    BY <2>3, <2>4 DEF Literal, Literals, Kinds
  <2>6. literals' \in Seq(Literals) /\ PlacesExist' /\ RegionsDisjoint'
    BY <2>1, <2>2, <2>5, AppendKeepsPlaces
  <2>7. Len(FLT_REGION') = Len(FLT_REGION) + 1 /\ FLT_REGION' \in Seq(Doubles)
    BY <2>1, <2>3
  <2>8. FLT_SIZE' = DoubleSize * Len(FLT_REGION')
    <3>1. \A n \in Nat : DoubleSize * (n + 1) = DoubleSize * n + DoubleSize
      BY <2>3
    <3> QED
      BY <2>1, <2>3, <2>7, <3>1
  <2>9. TypeOK'
    BY <2>1, <2>2, <2>8, LiteralsAssumption DEF TypeOK, IInv, Shapes, Lexing, Junk
  <2>10. Unplaced'
    BY <2>2 DEF Unplaced, Lexing
  <2> QED
    BY <2>2, <2>6, <2>7, <2>9, <2>10 DEF IInv, Shapes
<1> QED
  BY <1>1, <1>2, <1>3, <1>4

(* whatever turn of the loop of deescape(),                                *)
LEMMA LoopIInv ==
    ASSUME IInv, Copy \/ Deescape
    PROVE  IInv'
<1>1. /\ pc = "deescape" /\ i \in Nat /\ i < Len(text) /\ text \in Seq(Chars)
      /\ buf2 \in Seq(TextChars) /\ Len(buf2) <= i
  <2>1. Inside
    BY DEF Copy, Deescape
  <2> QED
    BY <2>1 DEF IInv, TypeOK, TextChars, Inside
<1>2. UNCHANGED <<pc, text, literals, regions, rstring, rfloat>>
  BY DEF Copy, Deescape
<1>3. PICK c \in TextChars : buf2' = Append(buf2, c)
  <2>1. CASE Copy
    <3>1. At(i) \in Chars
      BY <1>1 DEF At
    <3> QED
      BY <2>1, <3>1 DEF Copy, TextChars, Junk
  <2>2. CASE Deescape
    BY <2>2 DEF Deescape, TextChars
  <2> QED
    BY <2>1, <2>2
<1>4. i' \in {i + 1, i + 2}
  BY DEF Copy, Deescape
<1>5. buf2' \in Seq(TextChars) /\ Len(buf2') = Len(buf2) + 1
  BY <1>1, <1>3
<1>6. TypeOK'
  BY <1>1, <1>2, <1>4, <1>5 DEF TypeOK, IInv, TextChars, regions
<1>7. PlacesExist' /\ RegionsDisjoint'
  BY <1>2, SamePlaces DEF regions
<1> QED
  BY <1>2, <1>6, <1>7 DEF IInv, Shapes, Unplaced, regions

(* and whatever the text when alloc_string() stores it:                    *)
LEMMA AllocStringIInv ==
    ASSUME IInv, AllocString
    PROVE  IInv'
<1> DEFINE n0 == Len(literals)
<1>1. /\ buf2 \in Seq(TextChars) /\ STR_SIZE \in Nat /\ literals \in Seq(Literals)
      /\ STR_REGION \in Seq(Seq(TextChars)) /\ n0 \in DOMAIN literals
      /\ literals[n0].at = 0 /\ literals[n0].kind \in {"string", "char"}
  BY DEF IInv, TypeOK, TextChars, Shapes, Unplaced, AllocString
<1>2. CString(buf2) \in Seq(TextChars) /\ Len(CString(buf2)) = Length(buf2) /\ Length(buf2) \in Nat
  BY <1>1, CStringLength, LengthBounded
<1>3. /\ STR_REGION' \in Seq(Seq(TextChars)) /\ Len(STR_REGION') = Len(STR_REGION) + 1
      /\ STR_REGION'[Len(STR_REGION) + 1] = CString(buf2)
      /\ \A k \in 1 .. Len(STR_REGION) : STR_REGION'[k] = STR_REGION[k]
      /\ STR_SIZE' = STR_SIZE + Length(buf2) + 1
  BY <1>1, <1>2 DEF AllocString
<1>4. /\ literals' \in Seq(Literals) /\ Len(literals') = n0
      /\ literals'[n0] = [literals[n0] EXCEPT !.at = Len(STR_REGION) + 1, !.addr = STR_SIZE]
      /\ \A n \in 1 .. n0 - 1 : literals'[n] = literals[n]
  <2> DEFINE new == [literals[n0] EXCEPT !.at = Len(STR_REGION) + 1, !.addr = STR_SIZE]
  <2>1. literals[n0] \in Literals
    BY <1>1
  <2>2. new \in Literals
    <3>1. Len(STR_REGION) + 1 \in Nat /\ STR_SIZE \in Int
      BY <1>1
    <3> HIDE DEF n0
    <3> QED
      BY <2>1, <3>1 DEF Literals
  <2>3. literals' = [literals EXCEPT ![n0] = new]
    BY <1>1 DEF AllocString
  <2> QED
    BY <1>1, <2>2, <2>3
<1>5. literals'[n0].at = Len(STR_REGION) + 1 /\ literals'[n0].addr = STR_SIZE
      /\ literals'[n0].kind = literals[n0].kind
  BY <1>1, <1>4 DEF Literals
<1>6. Placed' = Placed \cup {n0} /\ n0 \notin Placed
  <2>1. DOMAIN literals = 1 .. n0 /\ DOMAIN literals' = 1 .. n0 /\ n0 \in 1 .. n0
    BY <1>1, <1>4
  <2>2. n0 \notin Placed
    BY <1>1 DEF Placed
  <2>3. n0 \in Placed'
    <3>1. literals'[n0].at > 0
      BY <1>1, <1>5
    <3> QED
      BY <1>1, <1>5, <2>1, <3>1 DEF Placed
  <2>4. \A n \in 1 .. n0 - 1 : n \in Placed' <=> n \in Placed
    BY <1>4, <2>1 DEF Placed
  <2>5. \A n \in 1 .. n0 : n = n0 \/ n \in 1 .. n0 - 1
    BY <1>1
  <2>6. Placed \subseteq 1 .. n0 /\ Placed' \subseteq 1 .. n0
    BY <2>1 DEF Placed
  <2> HIDE DEF n0
  <2> QED
    BY <2>2, <2>3, <2>4, <2>5, <2>6
<1>7. ASSUME NEW n, n = n0
      PROVE  Behind(n)' = STR_SIZE'
  <2>1. Behind(n)' = STR_SIZE + Len(STR_REGION'[Len(STR_REGION) + 1]) + 1
    BY <1>5, <1>7 DEF Behind
  <2> QED
    BY <1>1, <1>2, <1>3, <2>1
<1>8. \A n \in Placed : /\ n \in 1 .. n0 - 1 /\ literals'[n] = literals[n]
                        /\ literals[n].at \in 1 .. Len(STR_REGION)
                        /\ literals[n].addr \in Int
  <2> TAKE n \in Placed
  <2>1. n \in 1 .. n0 /\ n # n0 /\ literals[n] \in Literals
    BY <1>1, <1>6 DEF Placed
  <2>2. n \in 1 .. n0 - 1
    BY <1>1, <2>1
  <2>3. literals[n].at \in Nat /\ literals[n].at > 0 /\ literals[n].addr \in Int
    BY <2>1 DEF Literals, Placed
  <2>4. literals[n].at <= Len(STR_REGION)
    BY DEF IInv, PlacesExist
  <2> QED
    BY <1>1, <1>4, <2>2, <2>3, <2>4
<1>9. \A n \in Placed : Behind(n)' = Behind(n) /\ Behind(n) <= STR_SIZE /\ Behind(n) \in Int
  <2> TAKE n \in Placed
  <2>1. STR_REGION'[literals[n].at] = STR_REGION[literals[n].at]
        /\ STR_REGION[literals[n].at] \in Seq(TextChars)
    <3> DEFINE k == literals[n].at
    <3>1. k \in 1 .. Len(STR_REGION)
      BY <1>8
    <3> HIDE DEF k
    <3>2. STR_REGION'[k] = STR_REGION[k] /\ STR_REGION[k] \in Seq(TextChars)
      BY <1>1, <1>3, <3>1
    <3> QED
      BY <3>2 DEF k
  <2>2. Behind(n) <= STR_SIZE
    BY DEF IInv, RegionsDisjoint
  <2>3. Len(STR_REGION[literals[n].at]) \in Nat
    BY <2>1
  <2>4. literals'[n] = literals[n]
    BY <1>8
  <2>5. Behind(n)' = Behind(n)
    BY <2>1, <2>4 DEF Behind
  <2>6. Behind(n) \in Int
    BY <1>8, <2>3 DEF Behind
  <2> QED
    BY <2>2, <2>5, <2>6
<1>10. RegionsDisjoint'
  <2>1. \A n \in Placed' : Behind(n)' <= STR_SIZE'
    <3>1. STR_SIZE <= STR_SIZE' /\ STR_SIZE' \in Int /\ STR_SIZE \in Int
      BY <1>1, <1>2, <1>3
    <3>2. ASSUME NEW n \in Placed
          PROVE  Behind(n)' <= STR_SIZE'
      BY <1>9, <3>1
    <3> QED
      BY <1>6, <1>7, <3>1, <3>2
  <2>2. ASSUME NEW n \in Placed', NEW m \in Placed', m < n
        PROVE  Behind(m)' <= literals'[n].addr
    <3>1. m \in Placed
      BY <1>1, <1>6, <1>8, <2>2
    <3>2. CASE n = n0
      BY <1>5, <1>9, <3>1, <3>2
    <3>3. CASE n \in Placed
      BY <1>8, <1>9, <2>2, <3>1, <3>3 DEF IInv, RegionsDisjoint
    <3> QED
      BY <1>6, <3>2, <3>3
  <2> QED
    BY <2>1, <2>2 DEF RegionsDisjoint
<1>11. PlacesExist'
  <2>1. literals'[n0].at <= Len(STR_REGION')
    BY <1>1, <1>3, <1>5
  <2>2. \A n \in Placed : literals'[n].at <= Len(STR_REGION')
    <3> TAKE n \in Placed
    <3>1. literals'[n].at = literals[n].at /\ literals[n].at \in 1 .. Len(STR_REGION)
      BY <1>8
    <3>2. Len(STR_REGION) \in Nat /\ Len(STR_REGION') = Len(STR_REGION) + 1
      BY <1>1, <1>3
    <3> QED
      BY <3>1, <3>2
  <2> QED
    BY <1>6, <2>1, <2>2 DEF PlacesExist
<1>12. TypeOK'
  BY <1>1, <1>2, <1>3, <1>4 DEF TypeOK, IInv, AllocString
<1> QED
  BY <1>3, <1>4, <1>10, <1>11, <1>12 DEF IInv, Shapes, Unplaced, AllocString

(* every step keeps the invariant.                                         *)
LEMMA NextIInv == IInv /\ [Next]_vars => IInv'
<1> SUFFICES ASSUME IInv, [Next]_vars
             PROVE  IInv'
  OBVIOUS
<1>1. CASE LexString \/ LexChar \/ LexInteger \/ LexFloat
  BY <1>1, LexIInv
<1>2. CASE Copy \/ Deescape
  BY <1>2, LoopIInv
<1>3. CASE AllocString
  BY <1>3, AllocStringIInv
<1>4. CASE Codegen
  BY <1>4, SamePlaces DEF Codegen, regions, IInv, TypeOK, Shapes, Unplaced
<1>5. CASE Ended \/ UNCHANGED vars
  BY <1>5, SamePlaces DEF Ended, vars, regions, IInv, TypeOK, Shapes, Unplaced
<1> QED
  BY <1>1, <1>2, <1>3, <1>4, <1>5 DEF Next

(* The invariant holds in every state of every run.                        *)
LEMMA Invariance == Spec => []IInv
BY InitIInv, NextIInv, PTL DEF Spec

-----------------------------------------------------------------------------
(* rustlex.l 196, 200: whatever literals the lexer accepts, deescape()     *)
(* stays inside its two arrays.                                            *)
THEOREM TypeCorrect == Spec => []TypeOK
<1>1. IInv => TypeOK
  BY DEF IInv
<1> QED
  BY <1>1, Invariance, PTL

(* tac.c 283-305: the places of any number of strings, of any lengths, are *)
(* disjoint and inside the region.                                         *)
THEOREM PlacesDisjoint == Spec => []RegionsDisjoint
<1>1. IInv => RegionsDisjoint
  BY DEF IInv
<1> QED
  BY <1>1, Invariance, PTL

\* What the lexer's rules have found out about the string being unescaped.
InString == pc = "deescape" /\ literals[Len(literals)].kind = "string"
Accepted == InString => text \in Seq(Chars) /\ IsString(text) /\ ~ BadEscape(text)

(* rustlex.l 48-50, 230: in strings of any length, as long as they hold no *)
(* newline, the switch of deescape() needs no default.                     *)
THEOREM EscapesAlwaysKnown == Spec => []EscapesKnown
<1> USE DEF InString
<1>1. Init => Accepted
  BY DEF Init, Accepted
<1>2. IInv /\ Accepted /\ [Next]_vars => Accepted'
  <2> SUFFICES ASSUME IInv, Accepted, [Next]_vars
               PROVE  Accepted'
    OBVIOUS
  <2>1. CASE LexString
    <3>1. PICK s \in Strings :
              IF BadEscape(s) \/ EscapedQuote(s) THEN Reject("string", s)
              ELSE IsString(s) /\ Token("string", s)
      BY <2>1 DEF LexString
    <3>2. CASE BadEscape(s) \/ EscapedQuote(s)
      BY <3>1, <3>2 DEF Reject, Accepted
    <3>3. CASE ~ (BadEscape(s) \/ EscapedQuote(s))
      <4>1. text' = s /\ IsString(s) /\ ~ BadEscape(s) /\ s \in Seq(Chars)
        BY <3>1, <3>3, LiteralsAssumption DEF Token
      <4> QED
        BY <4>1 DEF Accepted
    <3> QED
      BY <3>2, <3>3
  <2>2. CASE LexChar
    <3>1. PICK s \in CharTexts : Token("char", s) \/ Reject("char", s)
      BY <2>2 DEF LexChar
    <3>2. CASE Reject("char", s)
      BY <3>2 DEF Reject, Accepted
    <3>3. CASE Token("char", s)
      <4> DEFINE l == NoPlace("char", s)
      <4>1. literals \in Seq(Literals) /\ literals' = Append(literals, l)
        BY <3>3 DEF Token, IInv, Shapes
      <4>2. l \in Literals /\ l.kind = "char"
        BY DEF NoPlace, Literal, Literals, Kinds
      <4>3. literals'[Len(literals')] = l
        BY <4>1, <4>2
      <4> QED
        BY <4>2, <4>3 DEF Accepted
    <3> QED
      BY <3>1, <3>2, <3>3
  <2>3. CASE LexInteger
    <3>1. Lexing /\ pc' \in {pc, "exit_1"}
      BY <2>3 DEF LexInteger, Reject
    <3> QED
      BY <3>1 DEF Lexing, Accepted
  <2>4. CASE LexFloat
    BY <2>4 DEF LexFloat, Lexing, Accepted
  <2>5. CASE Copy \/ Deescape
    BY <2>5 DEF Copy, Deescape, Accepted
  <2>6. CASE AllocString \/ Codegen
    BY <2>6 DEF AllocString, Codegen, Accepted
  <2>7. CASE Ended \/ UNCHANGED vars
    BY <2>7 DEF Ended, vars, Accepted
  <2> QED
    BY <2>1, <2>2, <2>3, <2>4, <2>5, <2>6, <2>7 DEF Next
<1>3. Accepted /\ IInv => EscapesKnown
  <2> SUFFICES ASSUME Accepted, IInv, InString, OneLine(text), At(i) = "backslash"
               PROVE  At(i + 1) \in DOMAIN Escapes
    BY DEF EscapesKnown
  <2>1. i \in Nat /\ i < Len(text) /\ text[i + 1] = "backslash" /\ text \in Seq(Chars)
    BY DEF At, IInv, TypeOK
  <2>2. i + 1 \in 1 .. Len(text)
    BY <2>1
  <2>3. i + 1 < Len(text) /\ text[(i + 1) + 1] \in Allowed
    BY <2>1, <2>2, RulesKnowEscapes DEF Accepted
  <2> QED
    BY <2>1, <2>3 DEF At, Allowed
<1> QED
  BY <1>1, <1>2, <1>3, Invariance, PTL DEF Spec

-----------------------------------------------------------------------------
(* What holds of a literal when the lexer is done with it, whatever stands *)
(* in the regions behind its entry ...                                     *)
Readable(kind, s) ==
    /\ kind = "string" /\ OneLine(s) => Legible(s)
    /\ kind = "char" /\ s # <<"backslash">> => Legible(s)
Stored(l, strs, flts) ==
    /\ l.kind \in {"string", "char"} =>
          /\ l.text \in Seq(Chars) /\ Readable(l.kind, l.text)
          /\ l.at \in 1 .. Len(strs)
          /\ l.addr = Offset(Terminated(strs), l.at)
          /\ Legible(l.text) => strs[l.at] = Meant(l.text)
    /\ l.kind = "float" =>
          /\ l.at \in 1 .. Len(flts)
          /\ l.addr = Offset(flts, l.at)
          /\ flts[l.at] = l.text
    /\ l.kind = "integer" => l.addr = l.text
Finished == {n \in DOMAIN literals : pc \in {"deescape", "exit_1"} => n # Len(literals)}
AllStored == \A n \in Finished : Stored(literals[n], STR_REGION, FLT_REGION)

(* ... of the one that deescape() is at ...                                *)
Unescaped ==
    pc = "deescape" =>
        /\ literals[Len(literals)].text = text
        /\ Readable(literals[Len(literals)].kind, text)
        /\ Legible(text) => /\ buf2 \in Seq(TextBytes)
                            /\ buf2 \o MeantFrom(text)[i + 1] = Meant(text)

(* ... and of the regions.                                                 *)
Owned ==
    /\ \A k \in 1 .. Len(STR_REGION) :
          \E n \in Finished : literals[n].kind \in {"string", "char"} /\ literals[n].at = k
    /\ \A k \in 1 .. Len(FLT_REGION) :
          \E n \in Finished : literals[n].kind = "float" /\ literals[n].at = k
Sizes == STR_SIZE = Len(StringBytes(STR_REGION)) /\ FLT_SIZE = Len(Flat(FLT_REGION))
Initialised ==
    pc = "done" => rstring = SetupString(STR_REGION) /\ rfloat = SetupFloat(FLT_REGION)

Faithful == AllStored /\ Unescaped /\ Owned /\ Sizes /\ Initialised


(* A region that grows keeps its entries at their offsets; the new one     *)
(* begins at the old end.                                                  *)
LEMMA GrowRegion ==
    ASSUME NEW S, NEW ss \in Seq(Seq(S)), NEW x \in Seq(S)
    PROVE  /\ \A k \in 1 .. Len(ss) : Offset(Append(ss, x), k) = Offset(ss, k)
           /\ Offset(Append(ss, x), Len(ss) + 1) = Len(Flat(ss))
           /\ Len(Flat(Append(ss, x))) = Len(Flat(ss)) + Len(x)
<1> DEFINE tt == Append(ss, x)
           n == Len(ss)
<1>1. /\ tt \in Seq(Seq(S)) /\ Len(tt) = n + 1 /\ n \in Nat
      /\ \A m \in 1 .. n : tt[m] = ss[m]
  OBVIOUS
<1> HIDE DEF tt
<1>2. ASSUME NEW k \in 1 .. n + 1
      PROVE  Offset(tt, k) = Offset(ss, k)
  <2> DEFINE a == SubSeq(tt, 1, k - 1)
             b == SubSeq(ss, 1, k - 1)
  <2>1. k - 1 \in 0 .. n /\ \A m \in 1 .. k - 1 : m \in 1 .. n /\ m \in 1 .. n + 1
    BY <1>1
  <2>2. /\ a \in Seq(Seq(S)) /\ Len(a) = k - 1 /\ \A m \in 1 .. k - 1 : a[m] = tt[m]
        /\ b \in Seq(Seq(S)) /\ Len(b) = k - 1 /\ \A m \in 1 .. k - 1 : b[m] = ss[m]
    BY <1>1, <2>1
  <2> HIDE DEF a, b
  <2>3. \A m \in 1 .. Len(a) : a[m] = b[m]
    BY <1>1, <2>1, <2>2
  <2>4. a = b
    BY <2>2, <2>3, SeqEqual
  <2> QED
    BY <2>4 DEF Offset, a, b
<1>3. \A k \in 1 .. n : k \in 1 .. n + 1
  BY <1>1
<1>4. n + 1 \in 1 .. n + 1
  BY <1>1
<1>5. Offset(tt, n + 1) = Len(Flat(ss))
  BY <1>2, <1>4, OffsetEnds
<1>6. Len(Flat(tt)) = Len(Flat(ss)) + Len(x)
  <2>1. Flat(ss) \in Seq(S) /\ Flat(tt) = Flat(ss) \o x
    BY FlatType, FlatAppend DEF tt
  <2> QED
    BY <2>1, ConcatFacts
<1> QED
  BY <1>2, <1>3, <1>5, <1>6 DEF tt

(* So does the NUL behind each of its strings.                             *)
LEMMA TerminatedAppend ==
    ASSUME NEW region \in Seq(Seq(Bytes)), NEW x \in Seq(Bytes)
    PROVE  /\ Append(x, "nul") \in Seq(Bytes)
           /\ Terminated(Append(region, x)) = Append(Terminated(region), Append(x, "nul"))
<1> DEFINE y == Append(x, "nul")
           more == Append(region, x)
           a == Terminated(more)
           t == Terminated(region)
           b == Append(t, y)
           n == Len(region)
<1>1. y \in Seq(Bytes)
  <2>1. "nul" \in Bytes
    BY DEF Bytes, Special
  <2> QED
    BY <2>1, AppendFacts
<1>2. /\ more \in Seq(Seq(Bytes)) /\ Len(more) = n + 1 /\ more[n + 1] = x /\ n \in Nat
      /\ \A k \in 1 .. n : more[k] = region[k]
  BY AppendFacts
<1> HIDE DEF more
<1>3. /\ a \in Seq(Seq(Bytes)) /\ Len(a) = n + 1
      /\ \A k \in 1 .. n + 1 : a[k] = Append(more[k], "nul")
  BY <1>2, TerminatedFacts
<1>4. /\ t \in Seq(Seq(Bytes)) /\ Len(t) = n
      /\ \A k \in 1 .. n : t[k] = Append(region[k], "nul")
  BY TerminatedFacts
<1> HIDE DEF t, y
<1>5. /\ b \in Seq(Seq(Bytes)) /\ Len(b) = n + 1 /\ b[n + 1] = y
      /\ \A k \in 1 .. n : b[k] = t[k]
  BY <1>1, <1>4, AppendFacts
<1> HIDE DEF a, b, n
<1>6. ASSUME NEW k \in 1 .. Len(a)
      PROVE  a[k] = b[k]
  <2>1. k \in 1 .. n + 1 /\ (k = n + 1 \/ k \in 1 .. n)
    BY <1>2, <1>3
  <2>2. CASE k = n + 1
    <3>1. a[k] = Append(more[k], "nul") /\ more[k] = x
      BY <1>2, <1>3, <2>1, <2>2
    <3> QED
      BY <1>5, <2>2, <3>1 DEF y
  <2>3. CASE k \in 1 .. n
    <3>1. a[k] = Append(more[k], "nul") /\ more[k] = region[k]
      BY <1>2, <1>3, <2>1, <2>3
    <3>2. b[k] = Append(region[k], "nul")
      BY <1>4, <1>5, <2>3
    <3> QED
      BY <3>1, <3>2, Zenon
  <2> QED
    BY <2>1, <2>2, <2>3
<1>7. a = b
  BY <1>3, <1>5, <1>6, SeqEqual
<1> QED
  BY <1>1, <1>7 DEF a, b, t, y, more

(* A stored literal stays where it is when a region grows.                 *)
LEMMA StoredKept ==
    ASSUME NEW strs \in Seq(Seq(Bytes)), NEW flts \in Seq(Seq(Bytes)), NEW x \in Seq(Bytes),
           NEW l, Stored(l, strs, flts)
    PROVE  Stored(l, Append(strs, x), flts) /\ Stored(l, strs, Append(flts, x))
<1>1. /\ Len(strs) \in Nat /\ Len(Append(strs, x)) = Len(strs) + 1
      /\ \A k \in 1 .. Len(strs) : Append(strs, x)[k] = strs[k]
  OBVIOUS
<1>2. /\ Len(flts) \in Nat /\ Len(Append(flts, x)) = Len(flts) + 1
      /\ \A k \in 1 .. Len(flts) : Append(flts, x)[k] = flts[k]
  OBVIOUS
<1>3. \A k \in 1 .. Len(strs) : Offset(Terminated(Append(strs, x)), k) = Offset(Terminated(strs), k)
  <2> DEFINE T == Terminated(strs)
             y == Append(x, "nul")
  <2>1. T \in Seq(Seq(Bytes)) /\ Len(T) = Len(strs)
    BY TerminatedFacts
  <2>2. y \in Seq(Bytes) /\ Terminated(Append(strs, x)) = Append(T, y)
    BY TerminatedAppend
  <2> HIDE DEF T, y
  <2>3. \A k \in 1 .. Len(strs) : Offset(Append(T, y), k) = Offset(T, k)
    BY <2>1, <2>2, GrowRegion
  <2> QED
    BY <2>2, <2>3 DEF T
<1>4. \A k \in 1 .. Len(flts) : Offset(Append(flts, x), k) = Offset(flts, k)
  BY GrowRegion
<1> DEFINE ss == Append(strs, x)
           ff == Append(flts, x)
<1>5. l.at \in 1 .. Len(strs) => l.at \in 1 .. Len(ss)
  BY <1>1
<1>6. l.at \in 1 .. Len(flts) => l.at \in 1 .. Len(ff)
  BY <1>2
<1> HIDE DEF ss, ff
<1>7. /\ \A k \in 1 .. Len(strs) : ss[k] = strs[k] /\ Offset(Terminated(ss), k) = Offset(Terminated(strs), k)
      /\ \A k \in 1 .. Len(flts) : ff[k] = flts[k] /\ Offset(ff, k) = Offset(flts, k)
  BY <1>1, <1>2, <1>3, <1>4 DEF ss, ff
<1>8. Stored(l, ss, flts)
  BY <1>5, <1>7, Zenon DEF Stored
<1>9. Stored(l, strs, ff)
  BY <1>6, <1>7, Zenon DEF Stored
<1> QED
  BY <1>8, <1>9 DEF ss, ff

(* The regions consist of bytes.                                           *)
LEMMA RegionTypes ==
    ASSUME IInv
    PROVE  /\ STR_REGION \in Seq(Seq(Bytes)) /\ FLT_REGION \in Seq(Seq(Bytes))
           /\ \A d \in Doubles : d \in Seq(Bytes) /\ Len(d) = DoubleSize
<1>1. TextChars \subseteq Bytes
  <2>1. Junk \subseteq Bytes
    BY DEF Junk, Bytes, Special
  <2>2. \A e \in DOMAIN Escapes : Escapes[e] \in Bytes
    BY DEF Escapes, Bytes, Special
  <2> QED
    BY <2>1, <2>2 DEF TextChars
<1>2. \A s \in Seq(TextChars) : s \in Seq(Bytes)
  BY <1>1
<1>3. STR_REGION \in Seq(Seq(Bytes))
  <2>1. STR_REGION \in Seq(Seq(TextChars))
    BY DEF IInv, Shapes
  <2>2. Len(STR_REGION) \in Nat /\ \A k \in 1 .. Len(STR_REGION) : STR_REGION[k] \in Seq(Bytes)
    BY <1>2, <2>1
  <2>3. STR_REGION = [k \in 1 .. Len(STR_REGION) |-> STR_REGION[k]]
    BY <2>1
  <2> QED
    BY <2>2, <2>3
<1>4. ASSUME NEW d \in Doubles
      PROVE  d \in Seq(Bytes) /\ Len(d) = DoubleSize
  <2>1. d \in [1 .. DoubleSize -> STRING] /\ DoubleSize \in Nat
    BY LiteralsAssumption
  <2>2. d = [b \in 1 .. DoubleSize |-> d[b]]
    BY <2>1
  <2>3. \A b \in 1 .. DoubleSize : d[b] \in Bytes
    <3>1. \A b \in 1 .. DoubleSize : d[b] \in DoubleBytes
      BY DEF DoubleBytes
    <3> QED
      BY <3>1 DEF Bytes
  <2> QED
    BY <2>1, <2>2, <2>3
<1>5. FLT_REGION \in Seq(Seq(Bytes))
  <2>1. FLT_REGION \in Seq(Doubles)
    BY DEF IInv, Shapes
  <2>2. Len(FLT_REGION) \in Nat /\ \A k \in 1 .. Len(FLT_REGION) : FLT_REGION[k] \in Seq(Bytes)
    BY <1>4, <2>1
  <2>3. FLT_REGION = [k \in 1 .. Len(FLT_REGION) |-> FLT_REGION[k]]
    BY <2>1
  <2> QED
    BY <2>2, <2>3
<1> QED
  BY <1>3, <1>4, <1>5


(* The rules let only readable texts through, but for a newline and '\'.   *)
LEMMA StringReadable ==
    ASSUME NEW s \in Seq(Chars), IsString(s), ~ BadEscape(s)
    PROVE  Readable("string", s)
<1> SUFFICES ASSUME OneLine(s), NEW k \in 1 .. Len(s), s[k] = "backslash"
             PROVE  k < Len(s) /\ s[k + 1] \in Allowed
  BY DEF Readable, Legible
<1> QED
  BY RulesKnowEscapes

(* The same of the rule for characters.                                    *)
LEMMA CharReadable ==
    ASSUME NEW s \in Seq(Chars), IsChar(s)
    PROVE  Readable("char", s)
<1>1. CASE Len(s) = 1 /\ s[1] # "newline"
  <2>1. ASSUME s[1] = "backslash"
        PROVE  s = <<"backslash">>
    <3> DEFINE t == <<"backslash">>
    <3>1. Len(t) = 1 /\ t[1] = "backslash" /\ t \in Seq({"backslash"} \cup Chars)
      OBVIOUS
    <3>2. s \in Seq({"backslash"} \cup Chars)
      OBVIOUS
    <3> HIDE DEF t
    <3>3. \A m \in 1 .. Len(s) : s[m] = t[m]
      BY <1>1, <2>1, <3>1
    <3>4. s = t
      BY <1>1, <3>1, <3>2, <3>3, SeqEqual
    <3> QED
      BY <3>4 DEF t
  <2>2. \A k \in 1 .. Len(s) : k = 1
    BY <1>1
  <2> QED
    BY <2>1, <2>2 DEF Readable, Legible
<1>2. CASE Len(s) = 2 /\ s[1] = "backslash" /\ s[2] \in Allowed
  <2>1. "backslash" \notin Allowed
    BY DEF Allowed
  <2>2. \A k \in 1 .. Len(s) : k = 1 \/ k = 2
    BY <1>2
  <2>3. Legible(s)
    BY <1>2, <2>1, <2>2 DEF Legible
  <2> QED
    BY <2>3 DEF Readable
<1> QED
  BY <1>1, <1>2 DEF IsChar

(* At the start there is nothing to be faithful to.                        *)
LEMMA InitFaithful == Init => Faithful
<1> SUFFICES ASSUME Init
             PROVE  Faithful
  OBVIOUS
<1>1. Len(<<>>) = 0 /\ DOMAIN <<>> = {} /\ \A k \in 1 .. Len(<<>>) : FALSE
  OBVIOUS
<1>2. Terminated(<<>>) = <<>>
  BY DEF Terminated
<1>3. Sizes
  BY <1>1, <1>2, FlatEmpty DEF Init, Sizes, StringBytes
<1>4. AllStored /\ Owned
  BY <1>1 DEF Init, AllStored, Finished, Owned
<1>5. Unescaped /\ Initialised
  BY DEF Init, Unescaped, Initialised
<1> QED
  BY <1>3, <1>4, <1>5 DEF Faithful

(* A literal without an entry joins the others.                            *)
LEMMA JoinFaithful ==
    ASSUME IInv, Faithful, Lexing, NEW l, l \in Literals,
           literals' = Append(literals, l), pc' \in {"deescape", "exit_1"},
           UNCHANGED <<regions, rstring, rfloat>>
    PROVE  /\ literals'[Len(literals')] = l
           /\ AllStored' /\ Owned' /\ Sizes' /\ Initialised'
<1>1. literals \in Seq(Literals) /\ Len(literals) \in Nat /\ pc = "lex"
  BY DEF IInv, Shapes, Lexing
<1>2. /\ Len(literals') = Len(literals) + 1 /\ literals'[Len(literals) + 1] = l
      /\ literals' \in Seq(Literals)
      /\ \A n \in 1 .. Len(literals) : literals'[n] = literals[n]
  BY <1>1
<1>3. Finished = 1 .. Len(literals)
  BY <1>1 DEF Finished
<1>4. Finished' = 1 .. Len(literals)
  <2>1. Finished' = {n \in 1 .. Len(literals) + 1 : n # Len(literals) + 1}
    <3>1. DOMAIN literals' = 1 .. Len(literals) + 1
      BY <1>1, <1>2
    <3> QED
      BY <1>2, <3>1 DEF Finished
  <2> QED
    BY <1>1, <2>1
<1>5. AllStored'
  <2>1. \A n \in 1 .. Len(literals) : Stored(literals'[n], STR_REGION, FLT_REGION)
    BY <1>2, <1>3 DEF Faithful, AllStored
  <2> QED
    BY <1>4, <2>1 DEF AllStored, regions
<1>6. Owned'
  <2>1. Owned
    BY DEF Faithful
  <2> QED
    BY <1>2, <1>3, <1>4, <2>1 DEF Owned, regions
<1>7. Sizes' /\ Initialised'
  BY DEF Faithful, Sizes, Initialised, regions
<1> QED
  BY <1>2, <1>5, <1>6, <1>7

(* newToken(): the literal joins without a place; nothing of its text is   *)
(* unescaped.                                                              *)
LEMMA TokenFaithful ==
    ASSUME IInv, Faithful, Lexing, NEW kind \in {"string", "char"},
           NEW s \in Seq(Chars), s \in Strings \cup CharTexts, Readable(kind, s),
           Token(kind, s)
    PROVE  Faithful'
<1> DEFINE l == NoPlace(kind, s)
<1>1. l \in Literals /\ l.kind = kind /\ l.text = s
  BY DEF NoPlace, Literal, Literals, Kinds
<1>2. /\ literals'[Len(literals')] = l
      /\ AllStored' /\ Owned' /\ Sizes' /\ Initialised'
  BY <1>1, JoinFaithful DEF Token
<1>3. Unescaped'
  <2>1. text' = s /\ i' = 0 /\ buf2' = <<>>
    BY DEF Token
  <2>2. ASSUME Legible(s)
        PROVE  <<>> \in Seq(TextBytes) /\ <<>> \o MeantFrom(s)[0 + 1] = Meant(s)
    <3>1. Len(s) \in Nat /\ 1 \in 1 .. Len(s) + 2 /\ 0 + 1 = 1
      OBVIOUS
    <3>2. MeantFrom(s)[1] \in Seq(TextBytes)
      BY <2>2, <3>1, MeantType
    <3>3. <<>> \o MeantFrom(s)[1] = MeantFrom(s)[1] /\ <<>> \in Seq(TextBytes)
      BY <3>2
    <3> QED
      BY <3>1, <3>3, MeantIsFrom, Zenon
  <2> QED
    BY <1>1, <1>2, <2>1, <2>2 DEF Unescaped
<1> QED
  BY <1>2, <1>3 DEF Faithful

(* A rejected literal never gets a place.                                  *)
LEMMA RejectFaithful ==
    ASSUME IInv, Faithful, Lexing, NEW kind \in Kinds,
           NEW s \in Strings \cup CharTexts \cup Values, Reject(kind, s)
    PROVE  Faithful'
<1> DEFINE l == NoPlace(kind, s)
<1>1. l \in Literals
  BY DEF NoPlace, Literal, Literals, Kinds
<1>2. AllStored' /\ Owned' /\ Sizes' /\ Initialised'
  BY <1>1, JoinFaithful DEF Reject
<1>3. Unescaped'
  BY DEF Reject, Unescaped
<1> QED
  BY <1>2, <1>3 DEF Faithful


(* An integer is its own address.                                          *)
LEMMA IntegerFaithful ==
    ASSUME IInv, Faithful, LexInteger
    PROVE  Faithful'
<1>1. Lexing /\ literals \in Seq(Literals) /\ Len(literals) \in Nat /\ pc = "lex"
  BY DEF LexInteger, IInv, Shapes, Lexing
<1>2. PICK v \in Values : IF v >= INT_MAX \/ v <= INT_MIN THEN Reject("integer", v)
          ELSE /\ literals' = Append(literals, Literal("integer", v, 0, v))
               /\ UNCHANGED <<pc, text, i, buf2, regions, rstring, rfloat>>
  BY DEF LexInteger
<1>3. CASE Reject("integer", v)
  BY <1>1, <1>3, RejectFaithful DEF Kinds
<1>4. CASE /\ literals' = Append(literals, Literal("integer", v, 0, v))
           /\ UNCHANGED <<pc, text, i, buf2, regions, rstring, rfloat>>
  <2> DEFINE l == Literal("integer", v, 0, v)
             n0 == Len(literals) + 1
  <2>1. l \in Literals /\ l.kind = "integer" /\ l.addr = l.text
    BY LiteralsAssumption DEF Literal, Literals, Kinds
  <2> HIDE DEF l
  <2>2. /\ Len(literals') = n0 /\ literals'[n0] = l /\ literals' \in Seq(Literals)
        /\ \A n \in 1 .. Len(literals) : literals'[n] = literals[n]
    BY <1>1, <1>4, <2>1 DEF l
  <2>3. Finished = 1 .. Len(literals) /\ Finished' = 1 .. n0
    BY <1>1, <1>4, <2>2 DEF Finished
  <2>4. Stored(l, STR_REGION, FLT_REGION)
    BY <2>1 DEF Stored
  <2>5. AllStored'
    <3>1. \A n \in 1 .. n0 : n = n0 \/ n \in 1 .. Len(literals)
      BY <1>1
    <3>2. \A n \in 1 .. n0 : Stored(literals'[n], STR_REGION, FLT_REGION)
      BY <2>2, <2>3, <2>4, <3>1 DEF Faithful, AllStored
    <3> QED
      BY <1>4, <2>3, <3>2 DEF AllStored, regions
  <2>6. Owned'
    <3>1. \A n \in Finished : n \in Finished' /\ literals'[n] = literals[n]
      BY <1>1, <2>2, <2>3
    <3>2. Owned
      BY DEF Faithful
    <3>3. UNCHANGED <<STR_REGION, FLT_REGION>>
      BY <1>4 DEF regions
    <3> QED
      BY <3>1, <3>2, <3>3 DEF Owned
  <2>7. Sizes' /\ Unescaped' /\ Initialised'
    BY <1>1, <1>4 DEF Faithful, Sizes, Unescaped, Initialised, regions
  <2> QED
    BY <2>5, <2>6, <2>7 DEF Faithful
<1> QED
  BY <1>2, <1>3, <1>4

(* alloc_float() gives the float the place behind all others.              *)
LEMMA FloatFaithful ==
    ASSUME IInv, Faithful, LexFloat
    PROVE  Faithful'
<1>1. PICK d \in Doubles :
          /\ FLT_REGION' = Append(FLT_REGION, d)
          /\ FLT_SIZE' = FLT_SIZE + DoubleSize
          /\ literals' = Append(literals, Literal("float", d, Len(FLT_REGION) + 1, FLT_SIZE))
  BY DEF LexFloat
<1> DEFINE l == Literal("float", d, Len(FLT_REGION) + 1, FLT_SIZE)
           n0 == Len(literals) + 1
           f0 == Len(FLT_REGION) + 1
<1>2. /\ literals \in Seq(Literals) /\ Len(literals) \in Nat /\ pc = "lex" /\ pc' = "lex"
      /\ UNCHANGED <<text, i, buf2, STR_REGION, STR_SIZE, rstring, rfloat>>
  BY DEF LexFloat, IInv, Shapes, Lexing
<1>3. /\ STR_REGION \in Seq(Seq(Bytes)) /\ FLT_REGION \in Seq(Seq(Bytes))
      /\ d \in Seq(Bytes) /\ Len(d) = DoubleSize /\ Len(FLT_REGION) \in Nat
  BY RegionTypes
<1>4. FLT_SIZE = Len(Flat(FLT_REGION)) /\ STR_SIZE = Len(StringBytes(STR_REGION))
  BY DEF Faithful, Sizes
<1>5. l \in Literals /\ l.kind = "float" /\ l.at = f0 /\ l.addr = FLT_SIZE /\ l.text = d
  <2>1. FLT_SIZE \in Int /\ f0 \in Nat
    BY <1>3, <1>4, OffsetEnds
  <2> QED
    BY <2>1 DEF Literal, Literals, Kinds
<1>6. /\ \A k \in 1 .. Len(FLT_REGION) : Offset(FLT_REGION', k) = Offset(FLT_REGION, k)
      /\ Offset(FLT_REGION', f0) = Len(Flat(FLT_REGION))
      /\ Len(Flat(FLT_REGION')) = Len(Flat(FLT_REGION)) + Len(d)
  BY <1>1, <1>3, GrowRegion
<1>7. Len(FLT_REGION') = f0 /\ FLT_REGION'[f0] = d /\ f0 \in 1 .. f0
  BY <1>1, <1>3
<1>8. literals' = Append(literals, l)
  BY <1>1
<1> HIDE DEF l
<1>9. /\ Len(literals') = n0 /\ literals'[n0] = l /\ literals' \in Seq(Literals)
      /\ \A n \in 1 .. Len(literals) : literals'[n] = literals[n]
  BY <1>2, <1>5, <1>8
<1>10. Finished = 1 .. Len(literals) /\ Finished' = 1 .. n0
  BY <1>2, <1>9 DEF Finished
<1>11. Stored(l, STR_REGION, FLT_REGION')
  BY <1>4, <1>5, <1>6, <1>7 DEF Stored
<1>12. AllStored'
  <2>1. \A n \in 1 .. n0 : n = n0 \/ n \in 1 .. Len(literals)
    BY <1>2
  <2>2. ASSUME NEW n \in 1 .. Len(literals)
        PROVE  Stored(literals'[n], STR_REGION, FLT_REGION')
    <3>1. Stored(literals[n], STR_REGION, FLT_REGION)
      BY <1>10 DEF Faithful, AllStored
    <3>2. Stored(literals[n], STR_REGION, Append(FLT_REGION, d))
      BY <1>3, <3>1, StoredKept
    <3> QED
      BY <1>1, <1>9, <3>2, Zenon
  <2>3. \A n \in 1 .. n0 : Stored(literals'[n], STR_REGION, FLT_REGION')
    BY <1>9, <1>11, <2>1, <2>2
  <2> QED
    BY <1>2, <1>10, <2>3 DEF AllStored
<1>13. Owned'
  <2>1. \A n \in Finished : n \in Finished' /\ literals'[n] = literals[n]
    BY <1>2, <1>9, <1>10
  <2>2. Owned
    BY DEF Faithful
  <2>3. n0 \in Finished' /\ literals'[n0].kind = "float" /\ literals'[n0].at = f0
    BY <1>2, <1>5, <1>9, <1>10
  <2>4. \A k \in 1 .. Len(FLT_REGION') : k = f0 \/ k \in 1 .. Len(FLT_REGION)
    BY <1>3, <1>7
  <2>5. \A k \in 1 .. Len(FLT_REGION') :
           \E n \in Finished' : literals'[n].kind = "float" /\ literals'[n].at = k
    BY <2>1, <2>2, <2>3, <2>4 DEF Owned
  <2>6. \A k \in 1 .. Len(STR_REGION') :
           \E n \in Finished' : literals'[n].kind \in {"string", "char"} /\ literals'[n].at = k
    BY <1>2, <2>1, <2>2 DEF Owned
  <2> QED
    BY <2>5, <2>6 DEF Owned
<1>14. Sizes'
  BY <1>1, <1>2, <1>3, <1>4, <1>6 DEF Sizes
<1>15. Unescaped' /\ Initialised'
  BY <1>2 DEF Unescaped, Initialised
<1> QED
  BY <1>12, <1>13, <1>14, <1>15 DEF Faithful

(* A turn of deescape()'s loop takes from what is still meant.             *)
LEMMA LoopFaithful ==
    ASSUME IInv, Faithful, Copy \/ Deescape
    PROVE  Faithful'
<1>1. /\ pc = "deescape" /\ i \in Nat /\ i < Len(text) /\ text \in Seq(Chars)
      /\ UNCHANGED <<pc, text, literals, regions, rstring, rfloat>>
  <2>1. Inside
    BY DEF Copy, Deescape
  <2> QED
    BY <2>1 DEF IInv, TypeOK, Inside, Copy, Deescape
<1>2. AllStored' /\ Owned' /\ Sizes' /\ Initialised'
  BY <1>1 DEF Faithful, AllStored, Finished, Owned, Sizes, Initialised, regions
<1>3. ASSUME Legible(text)
      PROVE  buf2' \in Seq(TextBytes) /\ buf2' \o MeantFrom(text)[i' + 1] = Meant(text)
  <2> DEFINE k == i + 1
             f == MeantFrom(text)
  <2>1. k \in 1 .. Len(text) /\ At(i) = text[k] /\ Len(text) \in Nat
    BY <1>1 DEF At
  <2>2. buf2 \in Seq(TextBytes) /\ buf2 \o f[k] = Meant(text)
    BY <1>1, <1>3 DEF Faithful, Unescaped
  <2>3. /\ k \in 1 .. Len(text) + 2 /\ k + 1 \in 1 .. Len(text) + 2
        /\ k + 2 \in 1 .. Len(text) + 2 /\ ~ (k > Len(text))
    BY <2>1
  <2>4. f[k] = IF k > Len(text) THEN <<>>
               ELSE IF text[k] = "backslash" /\ k < Len(text)
                    THEN <<Escapes[text[k + 1]]>> \o f[k + 2]
               ELSE <<text[k]>> \o f[k + 1]
    BY <2>1, <2>3, MeantStep
  <2>5. \A m \in 1 .. Len(text) + 2 : f[m] \in Seq(TextBytes)
    BY <1>1, <1>3, MeantType
  <2> HIDE DEF f
  <2>6. ASSUME NEW c \in TextBytes, NEW q \in Seq(TextBytes),
               buf2' = Append(buf2, c), f[k] = <<c>> \o q
        PROVE  buf2' \in Seq(TextBytes) /\ buf2' \o q = Meant(text)
    <3>1. <<c>> \in Seq(TextBytes) /\ Append(buf2, c) = buf2 \o <<c>>
          /\ Append(buf2, c) \in Seq(TextBytes)
      BY <2>2, AppendFacts
    <3>2. (buf2 \o <<c>>) \o q = buf2 \o (<<c>> \o q)
      BY <2>2, <3>1, ConcatAssociative
    <3> QED
      BY <2>2, <2>6, <3>1, <3>2, Zenon
  <2>7. CASE Copy
    <3>1. buf2' = Append(buf2, text[k]) /\ i' + 1 = k + 1 /\ text[k] # "backslash"
      BY <2>1, <2>7 DEF Copy
    <3>2. text[k] \in TextBytes
      BY <1>1, <2>1, AllowedFacts
    <3>3. f[k] = <<text[k]>> \o f[k + 1]
      BY <2>3, <2>4, <3>1, Zenon
    <3>4. f[k + 1] \in Seq(TextBytes)
      BY <2>3, <2>5
    <3>5. buf2' \in Seq(TextBytes) /\ buf2' \o f[k + 1] = Meant(text)
      BY <2>6, <3>1, <3>2, <3>3, <3>4
    <3>6. text' = text
      BY <1>1
    <3> QED
      BY <3>1, <3>5, <3>6, Zenon DEF f
  <2>8. CASE Deescape
    <3>1. text[k] = "backslash" /\ i' + 1 = k + 2
      BY <1>1, <2>1, <2>8 DEF Deescape
    <3>2. k < Len(text) /\ text[k + 1] \in Allowed
      BY <1>3, <2>1, <3>1 DEF Legible
    <3> DEFINE c == Escapes[text[k + 1]]
    <3>3. c \in TextBytes /\ text[k + 1] \in DOMAIN Escapes
      BY <3>2, AllowedFacts
    <3>4. At(i + 1) = text[k + 1]
      BY <1>1, <3>2 DEF At
    <3>5. buf2' = Append(buf2, c)
      BY <2>8, <3>3, <3>4 DEF Deescape
    <3>6. f[k] = <<c>> \o f[k + 2]
      BY <2>3, <2>4, <3>1, <3>2, Zenon
    <3>7. f[k + 2] \in Seq(TextBytes)
      BY <2>3, <2>5
    <3> HIDE DEF c
    <3>8. buf2' \in Seq(TextBytes) /\ buf2' \o f[k + 2] = Meant(text)
      BY <2>6, <3>3, <3>5, <3>6, <3>7
    <3>9. text' = text
      BY <1>1
    <3> QED
      BY <3>1, <3>8, <3>9, Zenon DEF f
  <2> QED
    BY <2>7, <2>8
<1>4. Unescaped'
  <2>1. Unescaped
    BY DEF Faithful
  <2> QED
    BY <1>1, <1>3, <2>1 DEF Unescaped
<1> QED
  BY <1>2, <1>4 DEF Faithful


(* alloc_string() gives the unescaped text the place behind all others.    *)
LEMMA AllocFaithful ==
    ASSUME IInv, Faithful, AllocString
    PROVE  Faithful'
<1> DEFINE n0 == Len(literals)
           s0 == Len(STR_REGION) + 1
           x == CString(buf2)
           T == Terminated(STR_REGION)
<1>1. /\ literals \in Seq(Literals) /\ n0 \in Nat /\ n0 \in 1 .. n0 /\ n0 \in DOMAIN literals
      /\ literals[n0].kind \in {"string", "char"} /\ pc = "deescape" /\ pc' = "lex"
      /\ i \in Nat /\ i >= Len(text) /\ i <= Len(text) + 1 /\ text \in Seq(Chars)
      /\ UNCHANGED <<text, i, buf2, FLT_REGION, FLT_SIZE, rstring, rfloat>>
  BY DEF AllocString, IInv, Shapes, Unplaced, TypeOK
<1>2. /\ STR_REGION \in Seq(Seq(Bytes)) /\ FLT_REGION \in Seq(Seq(Bytes))
      /\ Len(STR_REGION) \in Nat
  BY RegionTypes
<1>3. x \in Seq(Bytes) /\ Len(x) = Length(buf2) /\ Length(buf2) \in Nat
  <2>1. buf2 \in Seq(TextChars)
    BY DEF IInv, TypeOK, TextChars
  <2>2. TextChars \subseteq Bytes
    <3>1. \A e \in DOMAIN Escapes : Escapes[e] \in Bytes
      BY DEF Escapes, Bytes, Special
    <3> QED
      BY <3>1 DEF TextChars, Junk, Bytes, Special
  <2>3. buf2 \in Seq(Bytes)
    BY <2>1, <2>2
  <2> QED
    BY <2>3, CStringLength, LengthBounded
<1>4. /\ STR_REGION' = Append(STR_REGION, x) /\ STR_SIZE' = STR_SIZE + Length(buf2) + 1
      /\ literals' = [literals EXCEPT ![n0].at = s0, ![n0].addr = STR_SIZE]
  BY DEF AllocString
<1>5. /\ STR_SIZE = Len(StringBytes(STR_REGION)) /\ STR_SIZE \in Nat
      /\ FLT_SIZE = Len(Flat(FLT_REGION))
  BY DEF Faithful, Sizes, IInv, TypeOK
<1>6. /\ T \in Seq(Seq(Bytes)) /\ Len(T) = Len(STR_REGION)
      /\ Append(x, "nul") \in Seq(Bytes) /\ Len(Append(x, "nul")) = Len(x) + 1
      /\ Terminated(STR_REGION') = Append(T, Append(x, "nul"))
  <2>1. T \in Seq(Seq(Bytes)) /\ Len(T) = Len(STR_REGION)
    BY <1>2, TerminatedFacts
  <2> HIDE DEF x, T
  <2>2. /\ Append(x, "nul") \in Seq(Bytes)
        /\ Terminated(Append(STR_REGION, x)) = Append(Terminated(STR_REGION), Append(x, "nul"))
    BY <1>2, <1>3, TerminatedAppend
  <2>3. Len(Append(x, "nul")) = Len(x) + 1
    <3>1. "nul" \in Bytes
      BY DEF Bytes, Special
    <3> QED
      BY <1>3, <3>1, AppendFacts
  <2>4. Terminated(STR_REGION') = Append(T, Append(x, "nul"))
    BY <1>4, <2>2, Zenon DEF T
  <2> QED
    BY <2>1, <2>2, <2>3, <2>4
<1> HIDE DEF T
<1>7. /\ Offset(Terminated(STR_REGION'), s0) = STR_SIZE
      /\ Len(StringBytes(STR_REGION')) = STR_SIZE + (Len(x) + 1)
  <2> DEFINE y == Append(x, "nul")
  <2>1. STR_SIZE = Len(Flat(T))
    BY <1>5 DEF StringBytes, T
  <2> HIDE DEF y
  <2>2. y \in Seq(Bytes) /\ Len(y) = Len(x) + 1 /\ Terminated(STR_REGION') = Append(T, y)
    BY <1>6 DEF y
  <2>3. /\ Offset(Append(T, y), Len(T) + 1) = Len(Flat(T))
        /\ Len(Flat(Append(T, y))) = Len(Flat(T)) + Len(y)
    BY <1>6, <2>2, GrowRegion
  <2> QED
    BY <1>6, <2>1, <2>2, <2>3 DEF StringBytes
<1>8. Sizes'
  <2>1. STR_SIZE' = STR_SIZE + (Len(x) + 1)
    BY <1>3, <1>4, <1>5
  <2> QED
    BY <1>1, <1>5, <1>7, <2>1 DEF Sizes
<1>9. /\ literals' \in Seq(Literals) /\ Len(literals') = n0
      /\ literals'[n0] = [literals[n0] EXCEPT !.at = s0, !.addr = STR_SIZE]
      /\ \A n \in 1 .. n0 - 1 : literals'[n] = literals[n]
  <2> DEFINE new == [literals[n0] EXCEPT !.at = s0, !.addr = STR_SIZE]
  <2>1. literals[n0] \in Literals
    BY <1>1
  <2>2. new \in Literals
    <3>1. s0 \in Nat /\ STR_SIZE \in Int
      BY <1>2, <1>5
    <3> HIDE DEF n0, s0
    <3> QED
      BY <2>1, <3>1 DEF Literals
  <2>3. literals' = [literals EXCEPT ![n0] = new]
    BY <1>1, <1>4
  <2> QED
    BY <1>1, <2>2, <2>3
<1> DEFINE l == literals'[n0]
<1>10. /\ l.at = s0 /\ l.addr = STR_SIZE /\ l.kind = literals[n0].kind
       /\ l.text = literals[n0].text
  BY <1>1, <1>9 DEF Literals
<1>11. Len(STR_REGION') = s0 /\ STR_REGION'[s0] = x /\ s0 \in 1 .. s0
  BY <1>2, <1>3, <1>4
<1>12. /\ literals[n0].text = text /\ Readable(l.kind, text)
       /\ Legible(text) => x = Meant(text)
  <2>1. Unescaped
    BY DEF Faithful
  <2>2. ASSUME Legible(text)
        PROVE  x = Meant(text)
    <3>1. buf2 \in Seq(TextBytes) /\ buf2 \o MeantFrom(text)[i + 1] = Meant(text)
      BY <1>1, <2>1, <2>2 DEF Unescaped
    <3>2. MeantFrom(text)[i + 1] = <<>>
      <4>1. Len(text) \in Nat /\ i + 1 \in 1 .. Len(text) + 2 /\ i + 1 > Len(text)
        BY <1>1
      <4> QED
        BY <4>1, MeantStep
    <3>3. buf2 \o <<>> = buf2
      BY <3>1, ConcatEmpty
    <3>4. x = buf2
      BY <3>1, CStringWhole
    <3> QED
      BY <3>1, <3>2, <3>3, <3>4, Zenon
  <2> QED
    BY <1>1, <1>10, <2>1, <2>2 DEF Unescaped
<1> HIDE DEF l, x
<1>13. Stored(l, STR_REGION', FLT_REGION')
  <2>1. l.kind \in {"string", "char"}
    BY <1>1, <1>10
  <2>2. l.text = text /\ text \in Seq(Chars)
    BY <1>1, <1>10, <1>12
  <2> QED
    BY <1>7, <1>10, <1>11, <1>12, <2>1, <2>2 DEF Stored
<1>14. Finished = 1 .. n0 - 1 /\ Finished' = 1 .. n0
  <2>1. DOMAIN literals = 1 .. n0 /\ DOMAIN literals' = 1 .. n0
    BY <1>1, <1>9
  <2>2. Finished = {n \in 1 .. n0 : n # n0}
    BY <1>1, <2>1 DEF Finished
  <2>3. Finished' = 1 .. n0
    BY <1>1, <2>1 DEF Finished
  <2> QED
    BY <1>1, <2>2, <2>3
<1>15. \A n \in 1 .. n0 : n = n0 \/ n \in 1 .. n0 - 1
  BY <1>1
<1> HIDE DEF n0, s0
<1>16. AllStored'
  <2>1. ASSUME NEW n \in 1 .. n0 - 1
        PROVE  Stored(literals'[n], STR_REGION', FLT_REGION')
    <3>1. Stored(literals[n], STR_REGION, FLT_REGION)
      BY <1>14 DEF Faithful, AllStored
    <3>2. Stored(literals[n], Append(STR_REGION, x), FLT_REGION)
      BY <1>2, <1>3, <3>1, StoredKept DEF x
    <3> QED
      BY <1>1, <1>4, <1>9, <3>2, Zenon
  <2>2. \A n \in 1 .. n0 : Stored(literals'[n], STR_REGION', FLT_REGION')
    BY <1>13, <1>15, <2>1, Zenon DEF l
  <2> QED
    BY <1>14, <2>2 DEF AllStored
<1>17. Owned'
  <2>1. \A n \in Finished : n \in Finished' /\ literals'[n] = literals[n]
    BY <1>9, <1>14
  <2>2. Owned
    BY DEF Faithful
  <2>3. n0 \in Finished' /\ literals'[n0].kind \in {"string", "char"} /\ literals'[n0].at = s0
    BY <1>1, <1>10, <1>14 DEF l, n0
  <2>4. \A k \in 1 .. Len(STR_REGION') : k = s0 \/ k \in 1 .. Len(STR_REGION)
    BY <1>2, <1>11 DEF s0
  <2>5. \A k \in 1 .. Len(STR_REGION') :
           \E n \in Finished' : literals'[n].kind \in {"string", "char"} /\ literals'[n].at = k
    BY <2>1, <2>2, <2>3, <2>4 DEF Owned
  <2>6. \A k \in 1 .. Len(FLT_REGION') :
           \E n \in Finished' : literals'[n].kind = "float" /\ literals'[n].at = k
    BY <1>1, <2>1, <2>2 DEF Owned
  <2> QED
    BY <2>5, <2>6 DEF Owned
<1>18. Unescaped' /\ Initialised'
  BY <1>1 DEF Unescaped, Initialised
<1> QED
  BY <1>8, <1>16, <1>17, <1>18 DEF Faithful

(* Every step keeps Faithful.                                              *)
LEMMA NextFaithful == IInv /\ Faithful /\ [Next]_vars => Faithful'
<1> SUFFICES ASSUME IInv, Faithful, [Next]_vars
             PROVE  Faithful'
  OBVIOUS
<1>1. CASE LexString
  <2>1. PICK s \in Strings :
            IF BadEscape(s) \/ EscapedQuote(s) THEN Reject("string", s)
            ELSE IsString(s) /\ Token("string", s)
    BY <1>1 DEF LexString
  <2>2. s \in Seq(Chars) /\ Lexing
    BY <1>1, LiteralsAssumption DEF LexString
  <2>3. CASE BadEscape(s) \/ EscapedQuote(s)
    BY <2>1, <2>2, <2>3, RejectFaithful DEF Kinds
  <2>4. CASE ~ (BadEscape(s) \/ EscapedQuote(s))
    <3>1. Token("string", s) /\ Readable("string", s)
      BY <2>1, <2>2, <2>4, StringReadable
    <3> QED
      BY <2>2, <3>1, TokenFaithful
  <2> QED
    BY <2>3, <2>4
<1>2. CASE LexChar
  <2>1. PICK s \in CharTexts : \/ IsChar(s) /\ Token("char", s)
                               \/ BadChar(s) /\ Reject("char", s)
    BY <1>2 DEF LexChar
  <2>2. s \in Seq(Chars) /\ Lexing
    BY <1>2, LiteralsAssumption DEF LexChar
  <2>3. CASE Reject("char", s)
    BY <2>2, <2>3, RejectFaithful DEF Kinds
  <2>4. CASE IsChar(s) /\ Token("char", s)
    <3>1. Readable("char", s)
      BY <2>2, <2>4, CharReadable
    <3> QED
      BY <2>2, <2>4, <3>1, TokenFaithful
  <2> QED
    BY <2>1, <2>3, <2>4
<1>3. CASE LexInteger
  BY <1>3, IntegerFaithful
<1>4. CASE LexFloat
  BY <1>4, FloatFaithful
<1>5. CASE Copy \/ Deescape
  BY <1>5, LoopFaithful
<1>6. CASE AllocString
  BY <1>6, AllocFaithful
<1>7. CASE Codegen
  BY <1>7 DEF Codegen, Faithful, AllStored, Finished, Unescaped, Owned, Sizes, Initialised,
     regions
<1>8. CASE Ended \/ UNCHANGED vars
  <2>1. UNCHANGED <<pc, text, i, buf2, literals, STR_REGION, STR_SIZE, FLT_REGION, FLT_SIZE,
                    rstring, rfloat>>
    BY <1>8 DEF Ended, vars, regions
  <2>2. Finished' = Finished
    BY <2>1 DEF Finished
  <2>3. AllStored' /\ Owned'
    BY <2>1, <2>2 DEF Faithful, AllStored, Owned
  <2>4. Unescaped' /\ Sizes' /\ Initialised'
    BY <2>1 DEF Faithful, Unescaped, Sizes, Initialised
  <2> QED
    BY <2>3, <2>4 DEF Faithful
<1> QED
  BY <1>1, <1>2, <1>3, <1>4, <1>5, <1>6, <1>7, <1>8 DEF Next

(* With no fragile literal every entry is what its literal means, so that  *)
(* no digit is behind a NUL and no byte of a float needs an escape.        *)
LEMMA PlainRegions ==
    ASSUME IInv, Faithful, pc = "done", \A n \in DOMAIN literals : ~ Fragile(literals[n])
    PROVE  /\ Unbroken(STR_REGION)
           /\ FLT_REGION \in Seq(Seq(Bytes \ NeedEscape))
           /\ \A n \in DOMAIN literals : /\ Stored(literals[n], STR_REGION, FLT_REGION)
                                         /\ literals[n].kind \in {"string", "char"} =>
                                               STR_REGION[literals[n].at] = Meant(literals[n].text)
<1>1. /\ STR_REGION \in Seq(Seq(Bytes)) /\ FLT_REGION \in Seq(Seq(Bytes))
      /\ Len(STR_REGION) \in Nat /\ Len(FLT_REGION) \in Nat
  BY RegionTypes
<1>2. Finished = DOMAIN literals
  BY DEF Finished
<1>3. \A n \in DOMAIN literals : Stored(literals[n], STR_REGION, FLT_REGION)
  BY <1>2 DEF Faithful, AllStored
<1>4. ASSUME NEW n \in DOMAIN literals, literals[n].kind \in {"string", "char"}
      PROVE  /\ Legible(literals[n].text) /\ literals[n].text \in Seq(Chars)
             /\ STR_REGION[literals[n].at] = Meant(literals[n].text)
             /\ literals[n].at > 1 =>
                   literals[n].text = <<>> \/ literals[n].text[1] \notin Octal
  <2> DEFINE l == literals[n]
  <2>1. Stored(l, STR_REGION, FLT_REGION) /\ ~ Fragile(l)
    BY <1>3
  <2> HIDE DEF l
  <2>2. l.kind \in {"string", "char"}
    BY <1>4 DEF l
  <2>3. /\ l.text \in Seq(Chars) /\ Readable(l.kind, l.text)
        /\ Legible(l.text) => STR_REGION[l.at] = Meant(l.text)
    BY <2>1, <2>2 DEF Stored
  <2>4. CASE l.kind = "string"
    <3>1. OneLine(l.text) /\ ~ (l.at > 1 /\ l.text # <<>> /\ l.text[1] \in Octal)
      BY <2>1, <2>4 DEF Fragile
    <3>2. Legible(l.text)
      BY <2>3, <2>4, <3>1, Zenon DEF Readable
    <3> QED
      BY <2>3, <3>1, <3>2, Zenon DEF l
  <2>5. CASE l.kind = "char"
    <3>1. l.text # <<"backslash">> /\ ~ (l.at > 1 /\ l.text[1] \in Octal)
      BY <2>1, <2>5 DEF Fragile
    <3>2. Legible(l.text)
      BY <2>3, <2>5, <3>1, Zenon DEF Readable
    <3> QED
      BY <2>3, <3>1, <3>2, Zenon DEF l
  <2> QED
    BY <2>2, <2>4, <2>5
<1>5. Owned
  BY DEF Faithful
<1>6. ASSUME NEW k \in 1 .. Len(STR_REGION)
      PROVE  /\ STR_REGION[k] \in Seq(TextBytes)
             /\ k > 1 /\ STR_REGION[k] # <<>> => STR_REGION[k][1] \notin Octal
  <2>1. PICK n \in DOMAIN literals : literals[n].kind \in {"string", "char"} /\ literals[n].at = k
    BY <1>2, <1>5 DEF Owned
  <2> DEFINE s == literals[n].text
  <2>2. /\ s \in Seq(Chars) /\ Legible(s) /\ STR_REGION[k] = Meant(s)
        /\ k > 1 => s = <<>> \/ s[1] \notin Octal
    BY <1>4, <2>1
  <2> HIDE DEF s
  <2>3. Meant(s) \in Seq(TextBytes)
    <3>1. Len(s) \in Nat /\ 1 \in 1 .. Len(s) + 2
      BY <2>2
    <3> QED
      BY <2>2, <3>1, MeantType, MeantIsFrom
  <2>4. k > 1 /\ Meant(s) # <<>> => Meant(s)[1] \notin Octal
    BY <2>2, MeantFirst
  <2> QED
    BY <2>2, <2>3, <2>4
<1>7. Unbroken(STR_REGION)
  <2>1. STR_REGION \in Seq(Seq(TextBytes))
    <3>1. STR_REGION = [k \in 1 .. Len(STR_REGION) |-> STR_REGION[k]]
      BY <1>1
    <3>2. \A k \in 1 .. Len(STR_REGION) : STR_REGION[k] \in Seq(TextBytes)
      BY <1>6
    <3> QED
      BY <1>1, <3>1, <3>2
  <2>2. \A k \in 2 .. Len(STR_REGION) : k \in 1 .. Len(STR_REGION) /\ k > 1
    BY <1>1
  <2> QED
    BY <1>6, <2>1, <2>2 DEF Unbroken, TextBytes
<1>8. ASSUME NEW k \in 1 .. Len(FLT_REGION)
      PROVE  FLT_REGION[k] \in Seq(Bytes \ NeedEscape)
  <2>1. PICK n \in DOMAIN literals : literals[n].kind = "float" /\ literals[n].at = k
    BY <1>2, <1>5 DEF Owned
  <2> DEFINE l == literals[n]
  <2>2. Stored(l, STR_REGION, FLT_REGION) /\ ~ Fragile(l)
    BY <1>3
  <2> HIDE DEF l
  <2>3. l.kind = "float" /\ l.at = k
    BY <2>1 DEF l
  <2>4. FLT_REGION[k] = l.text
    BY <2>2, <2>3 DEF Stored
  <2>5. \A b \in DOMAIN l.text : l.text[b] \notin {"apostrophe", "newline", "backslash"}
    BY <2>2, <2>3 DEF Fragile
  <2>6. FLT_REGION[k] \in Seq(Bytes)
    BY <1>1
  <2>7. \A b \in 1 .. Len(FLT_REGION[k]) : FLT_REGION[k][b] \in Bytes \ NeedEscape
    BY <2>4, <2>5, <2>6 DEF NeedEscape
  <2>8. Len(FLT_REGION[k]) \in Nat
        /\ FLT_REGION[k] = [b \in 1 .. Len(FLT_REGION[k]) |-> FLT_REGION[k][b]]
    BY <2>6
  <2> QED
    BY <2>7, <2>8
<1>9. FLT_REGION \in Seq(Seq(Bytes \ NeedEscape))
  <2>1. FLT_REGION = [k \in 1 .. Len(FLT_REGION) |-> FLT_REGION[k]]
    BY <1>1
  <2>2. Len(FLT_REGION) \in Nat
        /\ \A k \in 1 .. Len(FLT_REGION) : FLT_REGION[k] \in Seq(Bytes \ NeedEscape)
    BY <1>1, <1>8
  <2> QED
    BY <2>1, <2>2
<1> QED
  BY <1>3, <1>4, <1>7, <1>9

(* finalcode.c 613: whatever plain literals a program has, each address    *)
(* holds in the running program what its literal says.                     *)
THEOREM PlainIntact == Spec => []PlainLiteralsIntact
<1>1. IInv /\ Faithful => PlainLiteralsIntact
  <2> SUFFICES ASSUME IInv, Faithful, pc = "done",
                      \A n \in DOMAIN literals : ~ Fragile(literals[n]),
                      NEW n \in DOMAIN literals
               PROVE  Intact(literals[n])
    BY DEF PlainLiteralsIntact, LiteralsIntact
  <2> DEFINE l == literals[n]
  <2>1. /\ Unbroken(STR_REGION) /\ FLT_REGION \in Seq(Seq(Bytes \ NeedEscape))
        /\ Stored(l, STR_REGION, FLT_REGION)
        /\ l.kind \in {"string", "char"} => STR_REGION[l.at] = Meant(l.text)
    BY PlainRegions
  <2>2. rstring = SetupString(STR_REGION) /\ rfloat = SetupFloat(FLT_REGION)
    BY DEF Faithful, Initialised
  <2>3. l.kind \in Kinds
    <3>1. literals[n] \in Literals
      BY DEF IInv, Shapes
    <3> QED
      BY <3>1 DEF Literals
  <2> HIDE DEF l
  <2>4. ASSUME l.kind \in {"string", "char"}
        PROVE  Intact(l)
    <3>1. /\ l.at \in 1 .. Len(STR_REGION) /\ l.addr = Offset(Terminated(STR_REGION), l.at)
          /\ STR_REGION[l.at] = Meant(l.text)
      BY <2>1, <2>4 DEF Stored
    <3>2. Holds(GccString(rstring), Offset(Terminated(STR_REGION), l.at),
                Append(STR_REGION[l.at], "nul"))
      BY <2>1, <2>2, <3>1, StringsHold
    <3>3. Holds(GccString(rstring), l.addr, Append(Meant(l.text), "nul"))
      BY <3>1, <3>2, Zenon
    <3> QED
      BY <2>4, <3>3 DEF Intact
  <2>5. ASSUME l.kind = "float"
        PROVE  Intact(l)
    <3>1. /\ l.at \in 1 .. Len(FLT_REGION) /\ l.addr = Offset(FLT_REGION, l.at)
          /\ FLT_REGION[l.at] = l.text
      BY <2>1, <2>5 DEF Stored
    <3>2. Holds(GccFloat(rfloat), l.addr, l.text)
      BY <2>1, <2>2, <3>1, FloatsHold
    <3> QED
      BY <2>5, <3>2 DEF Intact
  <2>6. ASSUME l.kind = "integer"
        PROVE  Intact(l)
    BY <2>1, <2>6 DEF Stored, Intact
  <2>7. Intact(l)
    BY <2>3, <2>4, <2>5, <2>6 DEF Kinds
  <2> QED
    BY <2>7 DEF l
<1> QED
  BY <1>1, InitFaithful, NextFaithful, InitIInv, NextIInv, PTL DEF Spec
=============================================================================
