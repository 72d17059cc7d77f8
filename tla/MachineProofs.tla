--------------------------- MODULE MachineProofs ----------------------------
(***************************************************************************)
(* Proofs about Machine, for every program and every code that gcc accepts *)
(* and whose frames hold what it names.                                    *)
(***************************************************************************)
EXTENDS Machine, LeastNumber, FiniteSetTheorems

IsSeq(s) == s \in Seq({s[i] : i \in DOMAIN s})

(* An active function.  Only its head reads the caller's parameters, and   *)
(* only behind it are there arrays.                                        *)
Shape(fr) ==
    fr = [name |-> fr.name, pc |-> fr.pc, local |-> fr.local, locparams |-> fr.locparams,
          paroff |-> fr.paroff, par |-> fr.par, dest |-> fr.dest]
Frame(fr) ==
    /\ Shape(fr)
    /\ fr.name \in DOMAIN code
    /\ fr.pc \in DOMAIN code[fr.name]
    /\ fr.paroff = Pending(fr.name, fr.pc)
    /\ fr.pc = 1 => /\ 0 .. Arity(fr.name) - 1 \subseteq DOMAIN fr.par
                    /\ DOMAIN fr.local = {} /\ DOMAIN fr.locparams = {}
    /\ fr.pc # 1 => /\ DOMAIN fr.local = 0 .. LocalSize(fr.name) - 1
                    /\ DOMAIN fr.locparams = 0 .. LocparamsSize(fr.name) - 1

Fixed == program \in DOMAIN Programs /\ GccAccepts /\ LaidOut

IInv ==
    /\ Fixed
    /\ status \in {"running", "done", "trap"}
    /\ IsSeq(stack)
    /\ status = "running" => stack # <<>>
    /\ \A n \in DOMAIN stack : Frame(stack[n])
    /\ DOMAIN global = 0 .. GlobalSize(Programs[program].globals) - 1

-----------------------------------------------------------------------------
(* Parameters.                                                             *)

(* A finite set of naturals is bounded.                                    *)
LEMMA FiniteBounded ==
    ASSUME NEW S, IsFiniteSet(S), S \subseteq Nat
    PROVE  \E u \in Nat : \A x \in S : x <= u
<1>1. PICK n \in Nat : ExistsSurjection(1 .. n, S)
  BY FS_NatSurjection
<1>2. PICK f \in [1 .. n -> S] : \A x \in S : \E i \in 1 .. n : f[i] = x
  BY <1>1 DEF ExistsSurjection, Surjection
<1> DEFINE None == {d \in 0 .. n : ~ \E u \in Nat : \A i \in 1 .. d : f[i] <= u}
<1>3. ASSUME NEW d \in None, \A c \in 0 .. d - 1 : c \notin None
      PROVE  FALSE
  <2>1. CASE d = 0
    <3>1. \A i \in 1 .. 0 : f[i] <= 0
      OBVIOUS
    <3> QED
      BY <2>1, <3>1
  <2>2. CASE d # 0
    <3>1. d \in 1 .. n /\ d - 1 \in 0 .. d - 1 /\ d - 1 \in 0 .. n
      BY <2>2
    <3>2. PICK u \in Nat : \A i \in 1 .. d - 1 : f[i] <= u
      BY <1>3, <3>1
    <3>3. f[d] \in Nat
      BY <3>1
    <3> DEFINE w == IF f[d] <= u THEN u ELSE f[d]
    <3>4. w \in Nat /\ f[d] <= w /\ u <= w
      BY <3>3
    <3>5. \A i \in 1 .. d : f[i] <= w
      <4> SUFFICES ASSUME NEW i \in 1 .. d PROVE f[i] <= w
        OBVIOUS
      <4>1. f[i] \in Nat
        <5>1. i \in 1 .. n
          BY <3>1
        <5> QED
          BY <5>1
      <4>2. CASE i = d
        BY <4>2, <3>4
      <4>3. CASE i \in 1 .. d - 1
        <5>1. f[i] <= u
          BY <4>3, <3>2
        <5> HIDE DEF w
        <5> QED
          BY <5>1, <4>1, <3>4
      <4> QED
        BY <4>2, <4>3, <3>1
    <3> HIDE DEF w
    <3> QED
      BY <3>4, <3>5
  <2> QED
    BY <2>1, <2>2
<1>4. None = {}
  <2> HIDE DEF None
  <2>1. None \in SUBSET (0 .. n)
    BY DEF None
  <2> QED
    BY <2>1, <1>3, NoLeast
<1>5. PICK u \in Nat : \A i \in 1 .. n : f[i] <= u
  <2>1. n \in 0 .. n
    OBVIOUS
  <2>2. n \notin None
    BY <1>4
  <2> QED
    BY <2>1, <2>2
<1> QED
  BY <1>2, <1>5

(* A finite set of naturals that is not empty has a greatest element.      *)
LEMMA FiniteMaximum ==
    ASSUME NEW S, IsFiniteSet(S), S \subseteq Nat, S # {}
    PROVE  \E n \in S : \A k \in S : k <= n
<1> DEFINE Bounds == {u \in Nat : \A x \in S : x <= u}
<1>1. Bounds # {} /\ Bounds \subseteq Nat
  BY FiniteBounded
<1>2. PICK u \in Bounds : \A w \in Bounds : u <= w
  BY <1>1, LeastNatural
<1>3. ASSUME u \notin S
      PROVE  FALSE
  <2>1. PICK x \in S : TRUE
    OBVIOUS
  <2>2. u \in Nat /\ \A y \in S : y \in Nat /\ y <= u /\ y # u
    BY <1>3
  <2>3. u - 1 \in Nat /\ \A y \in S : y <= u - 1
    BY <2>1, <2>2
  <2>4. u - 1 \in Bounds
    BY <2>3
  <2> QED
    BY <2>2, <2>4, <1>2
<1> QED
  BY <1>3

(* locparams has a slot for every parameter of every function.             *)
LEMMA MaxArgcBounds ==
    ASSUME program \in DOMAIN Programs
    PROVE  MaxArgc \in Nat /\ \A f : Arity(f) \in 0 .. MaxArgc
<1> DEFINE L == {Len(Functions[f].params) : f \in DOMAIN Functions}
<1>1. IsFiniteSet(DOMAIN Functions) /\ L \subseteq Nat
  BY MachineAssumption DEF Functions
<1>2. IsFiniteSet(L)
  <2> DEFINE len == [f \in DOMAIN Functions |-> Len(Functions[f].params)]
  <2>1. len \in Surjection(DOMAIN Functions, L)
    BY DEF Surjection
  <2> QED
    BY <1>1, <2>1, FS_Surjection
<1>3. IsFiniteSet(Arities) /\ Arities \subseteq Nat /\ Arities # {}
  <2> HIDE DEF L
  <2>1. Arities = {3} \cup L
    BY DEF Arities, L
  <2>2. IsFiniteSet({3} \cup L)
    BY <1>2, FS_Union, FS_Singleton
  <2> QED
    BY <1>1, <2>1, <2>2
<1>4. MaxArgc \in Arities /\ \A k \in Arities : k <= MaxArgc
  BY <1>3, FiniteMaximum DEF MaxArgc
<1>5. \A f \in DOMAIN Functions : Len(Functions[f].params) \in Arities
  BY DEF Arities
<1> QED
  BY <1>3, <1>4, <1>5 DEF Arity

(* Along the text, a parameter adds one to those pending, and a call takes *)
(* them.                                                                   *)
LEMMA PendingAlong ==
    ASSUME NEW f, NEW n \in Nat \ {0}
    PROVE  /\ Pending(f, n) \in Nat
           /\ Pending(f, n + 1) =
                CASE code[f][n].op = "O_PARM" -> Pending(f, n) + 1
                  [] code[f][n].op = "O_CALL" -> 0
                  [] OTHER -> Pending(f, n)
<1>1. IsFiniteSet(Passed(f, n))
  <2>1. IsFiniteSet(1 .. n - 1)
    BY FS_Interval
  <2> QED
    BY <2>1, FS_Subset DEF Passed
<1>2. Pending(f, n) \in Nat
  BY <1>1, FS_CardinalityType DEF Pending
<1>3. CASE code[f][n].op = "O_CALL"
  <2>1. Passed(f, n + 1) = {}
    BY <1>3 DEF Passed
  <2> QED
    BY <1>2, <1>3, <2>1, FS_EmptySet DEF Pending
<1>4. CASE code[f][n].op = "O_PARM"
  <2>1. Passed(f, n + 1) = Passed(f, n) \cup {n}
    BY <1>4 DEF Passed
  <2>2. n \notin Passed(f, n)
    BY DEF Passed
  <2> QED
    BY <1>1, <1>2, <1>4, <2>1, <2>2, FS_AddElement DEF Pending
<1>5. CASE code[f][n].op \notin {"O_CALL", "O_PARM"}
  <2>1. Passed(f, n + 1) = Passed(f, n)
    BY <1>5 DEF Passed
  <2> QED
    BY <1>2, <1>5, <2>1 DEF Pending
<1> QED
  BY <1>3, <1>4, <1>5

(* Nothing is pending at the head.                                         *)
LEMMA PendingFirst ==
    ASSUME NEW f
    PROVE  Pending(f, 1) = 0
<1>1. Passed(f, 1) = {}
  BY DEF Passed
<1> QED
  BY <1>1, FS_EmptySet DEF Pending

-----------------------------------------------------------------------------
(* The stack.                                                              *)

(* The first k elements of a sequence, and one or two more.                *)
LEMMA Prefix ==
    ASSUME NEW s, IsSeq(s), NEW k \in 0 .. Len(s)
    PROVE  /\ IsSeq(SubSeq(s, 1, k)) /\ Len(SubSeq(s, 1, k)) = k
           /\ \A i \in 1 .. k : i \in DOMAIN s /\ SubSeq(s, 1, k)[i] = s[i]
<1> DEFINE S == {s[i] : i \in DOMAIN s}
           t == SubSeq(s, 1, k)
<1>1. s \in Seq(S)
  BY DEF IsSeq
<1> HIDE DEF S
<1>2. t \in Seq(S) /\ Len(t) = k /\ \A i \in 1 .. k : i \in DOMAIN s /\ t[i] = s[i]
  BY <1>1
<1>3. DOMAIN t = 1 .. k
  BY <1>2
<1> HIDE DEF t
<1>4. IsSeq(t)
  BY <1>2, <1>3 DEF IsSeq
<1> QED
  BY <1>2, <1>4 DEF t

(* A sequence with one more element.                                      *)
LEMMA Extended ==
    ASSUME NEW s, IsSeq(s), NEW x
    PROVE  /\ IsSeq(Append(s, x)) /\ Len(Append(s, x)) = Len(s) + 1
           /\ DOMAIN Append(s, x) = 1 .. Len(s) + 1
           /\ \A i \in DOMAIN Append(s, x) :
                 Append(s, x)[i] = x \/ (i \in DOMAIN s /\ Append(s, x)[i] = s[i])
<1> DEFINE S == {s[i] : i \in DOMAIN s} \cup {x}
           t == Append(s, x)
<1>1. s \in Seq(S)
  BY DEF IsSeq
<1> HIDE DEF S
<1>2. x \in S
  BY DEF S
<1>3. /\ t \in Seq(S) /\ Len(t) = Len(s) + 1 /\ DOMAIN t = 1 .. Len(s) + 1
      /\ t[Len(s) + 1] = x /\ \A i \in 1 .. Len(s) : i \in DOMAIN s /\ t[i] = s[i]
  BY <1>1, <1>2
<1>4. Len(s) \in Nat
  BY <1>1
<1>5. \A i \in DOMAIN t : t[i] = x \/ (i \in DOMAIN s /\ t[i] = s[i])
  BY <1>3, <1>4
<1> HIDE DEF t
<1>6. IsSeq(t)
  BY <1>3, <1>4 DEF IsSeq
<1> QED
  BY <1>3, <1>5, <1>6 DEF t

-----------------------------------------------------------------------------
(* The code.                                                               *)

(* There is an instruction behind each but the end of a function.          *)
LEMMA Instructions ==
    ASSUME Fixed, NEW f \in DOMAIN code
    PROVE  /\ Len(code[f]) \in Nat \ {0} /\ DOMAIN code[f] = 1 .. Len(code[f])
           /\ \A n \in DOMAIN code[f] :
                 /\ code[f][n].op \in {"D_PROC", "D_GLOB"} <=> n = 1
                 /\ code[f][n].op # "D_END" => n + 1 \in DOMAIN code[f]
<1>1. code[f] # <<>> /\ code[f] \in Seq({code[f][n] : n \in DOMAIN code[f]})
  BY DEF Fixed, LaidOut
<1>2. \A n \in DOMAIN code[f] : /\ code[f][n].op \in {"D_PROC", "D_GLOB"} <=> n = 1
                                /\ code[f][n].op = "D_END" <=> n = Len(code[f])
  BY DEF Fixed, GccAccepts
<1>3. Len(code[f]) \in Nat \ {0} /\ DOMAIN code[f] = 1 .. Len(code[f])
  BY <1>1
<1> QED
  BY <1>2, <1>3

(* The size of locparams stays.                                            *)
LEMMA MaxArgcKept ==
    ASSUME program' = program
    PROVE  Functions' = Functions /\ MaxArgc' = MaxArgc
<1>1. Functions' = Functions
  BY DEF Functions
<1>2. Arities' = Arities
  BY <1>1, Zenon DEF Arities
<1>3. MaxArgc' = MaxArgc
  BY <1>2, Zenon DEF MaxArgc
<1> QED
  BY <1>1, <1>3

(* The code stays.                                                         *)
LEMMA FixedKept ==
    ASSUME Fixed, UNCHANGED const
    PROVE  Fixed'
<1>1. code' = code /\ program' = program
  BY DEF const
<1>2. GccAccepts'
  BY <1>1 DEF Fixed, GccAccepts, Labels, Jumps, Targets
<1>3. MaxArgc' = MaxArgc /\ Functions' = Functions
  BY <1>1, MaxArgcKept
<1>4. ASSUME NEW f, AddressesFit(f)
      PROVE  AddressesFit(f)'
  BY <1>1, <1>4 DEF AddressesFit, LocalSize, IsProcedure
<1>5. ASSUME NEW f, ParametersFit(f)
      PROVE  ParametersFit(f)'
  <2>1. IsProcedure(f)' = IsProcedure(f) /\ Arity(f)' = Arity(f)
    BY <1>1, <1>3 DEF IsProcedure, Arity
  <2>2. LocalSize(f)' = LocalSize(f) /\ LocparamsSize(f)' = LocparamsSize(f)
    BY <1>1, <1>3, <2>1 DEF LocalSize, LocparamsSize
  <2>3. ASSUME NEW n PROVE Pending(f, n)' = Pending(f, n)
    BY <1>1, Zenon DEF Pending, Passed
  <2>4. Jumps(f)' = Jumps(f)
    BY <1>1, Zenon DEF Jumps
  <2>6. (Arity(f) <= LocalSize(f))'
    BY <1>5, <2>1, <2>2 DEF ParametersFit
  <2>7. ASSUME NEW n \in DOMAIN code[f]
        PROVE  /\ (code[f][n].op = "O_PARM" => Pending(f, n) < LocparamsSize(f))'
               /\ (code[f][n].op = "O_CALL" =>
                     IsProcedure(f) /\ code[f][n].name \in {"println"} \cup DOMAIN code)'
    <3>1. Pending(f, n)' = Pending(f, n)
      BY <2>3
    <3> QED
      BY <1>1, <1>5, <2>1, <2>2, <3>1 DEF ParametersFit
  <2>8. ASSUME NEW n \in Jumps(f), NEW t \in Targets(f, code[f][n].label)
        PROVE  (Pending(f, t) = Pending(f, n))'
    <3>1. Pending(f, n)' = Pending(f, n) /\ Pending(f, t)' = Pending(f, t)
      BY <2>3
    <3> QED
      BY <1>5, <3>1 DEF ParametersFit
  <2>9. (\A n \in Jumps(f) : \A t \in Targets(f, code[f][n].label) :
          Pending(f, t) = Pending(f, n))'
    <3> SUFFICES ASSUME NEW n \in Jumps(f)', NEW t \in Targets(f, code[f][n].label)'
                 PROVE  (Pending(f, t) = Pending(f, n))'
      BY Zenon
    <3>1. n \in Jumps(f)
      BY <2>4
    <3>2. t \in Targets(f, code[f][n].label)
      BY <1>1, Zenon DEF Targets
    <3> QED
      BY <2>8, <3>1, <3>2, Zenon
  <2> QED
    BY <1>1, <2>6, <2>7, <2>9, Zenon DEF ParametersFit
<1>6. LaidOut'
  <2>1. ASSUME NEW f \in DOMAIN code
        PROVE  (IsProcedure(f) => f \in DOMAIN Functions /\ LocalSize(f) \in Nat)'
    <3>1. IsProcedure(f)' = IsProcedure(f) /\ LocalSize(f)' = LocalSize(f)
      BY <1>1, Zenon DEF IsProcedure, LocalSize
    <3> QED
      BY <1>3, <3>1 DEF Fixed, LaidOut
  <2>2. ASSUME NEW f \in DOMAIN code
        PROVE  /\ (code[f] # <<>> /\ code[f] \in Seq({code[f][n] : n \in DOMAIN code[f]}))'
               /\ AddressesFit(f)' /\ ParametersFit(f)'
    BY <1>1, <1>4, <1>5, Zenon DEF Fixed, LaidOut
  <2>3. (/\ {"main", InitGlobals} \subseteq DOMAIN code
         /\ Arity("main") = 0 /\ Arity(InitGlobals) = 0)'
    BY <1>1, <1>3 DEF Fixed, LaidOut, Arity
  <2> QED
    BY <1>1, <2>1, <2>2, <2>3, Zenon DEF LaidOut
<1> QED
  BY <1>1, <1>2, <1>6 DEF Fixed

(* What is an active function stays one.                                   *)
LEMMA FramesKept ==
    ASSUME UNCHANGED const, \A n \in DOMAIN stack' : Frame(stack'[n])
    PROVE  (\A n \in DOMAIN stack : Frame(stack[n]))'
<1>1. code' = code /\ program' = program
  BY DEF const
<1>2. MaxArgc' = MaxArgc /\ Functions' = Functions
  BY <1>1, MaxArgcKept
<1> SUFFICES ASSUME NEW fr, Frame(fr) PROVE Frame(fr)'
  BY Zenon
<1>3. IsProcedure(fr.name)' = IsProcedure(fr.name) /\ Arity(fr.name)' = Arity(fr.name)
  BY <1>1, <1>2, Zenon DEF IsProcedure, Arity
<1>4. LocalSize(fr.name)' = LocalSize(fr.name) /\ LocparamsSize(fr.name)' = LocparamsSize(fr.name)
  BY <1>1, <1>2, <1>3, Zenon DEF LocalSize, LocparamsSize
<1>5. Pending(fr.name, fr.pc)' = Pending(fr.name, fr.pc)
  BY <1>1, Zenon DEF Pending, Passed
<1> QED
  BY <1>1, <1>3, <1>4, <1>5, Zenon DEF Frame, Shape

(* The innermost function.                                                 *)
LEMMA TopFrame ==
    ASSUME IInv, status = "running"
    PROVE  /\ Len(stack) \in Nat \ {0} /\ DOMAIN stack = 1 .. Len(stack)
           /\ Len(stack) \in DOMAIN stack
           /\ Frame(Top)
<1>1. IsSeq(stack) /\ stack # <<>>
  BY DEF IInv
<1>2. Len(stack) \in Nat \ {0} /\ DOMAIN stack = 1 .. Len(stack)
  BY <1>1 DEF IsSeq
<1>3. Len(stack) \in DOMAIN stack
  BY <1>2
<1> QED
  BY <1>2, <1>3 DEF IInv, Top

(* A step that leaves the code and the size of the global region as they   *)
(* are.                                                                    *)
LEMMA StepKeeps ==
    ASSUME IInv, UNCHANGED const, DOMAIN global' = DOMAIN global,
           status' \in {"running", "done", "trap"}, IsSeq(stack'),
           status' = "running" => stack' # <<>>,
           \A n \in DOMAIN stack' : Frame(stack'[n])
    PROVE  IInv'
<1>1. Fixed'
  BY FixedKept DEF IInv
<1>2. (\A n \in DOMAIN stack : Frame(stack[n]))'
  BY FramesKept
<1>3. (DOMAIN global = 0 .. GlobalSize(Programs[program].globals) - 1)'
  BY DEF IInv, const
<1>4. IsSeq(stack)'
  BY DEF IsSeq
<1> QED
  BY <1>1, <1>2, <1>3, <1>4 DEF IInv

(* A step of the innermost function.                                       *)
LEMMA GoKeeps ==
    ASSUME IInv, status = "running", UNCHANGED const, DOMAIN global' = DOMAIN global,
           status' = status, NEW fr, Frame(fr), Go(fr)
    PROVE  IInv'
<1>1. Len(stack) \in Nat \ {0} /\ DOMAIN stack = 1 .. Len(stack)
  BY TopFrame
<1> DEFINE k == Len(stack) - 1
<1>2. k \in 0 .. Len(stack) /\ IsSeq(stack)
  BY <1>1 DEF IInv
<1>3. stack' = Append(SubSeq(stack, 1, k), fr)
  BY DEF Go, Callers
<1> HIDE DEF k
<1>4. /\ IsSeq(SubSeq(stack, 1, k)) /\ Len(SubSeq(stack, 1, k)) = k
      /\ \A i \in 1 .. k : i \in DOMAIN stack /\ SubSeq(stack, 1, k)[i] = stack[i]
  BY <1>2, Prefix
<1> DEFINE s == SubSeq(stack, 1, k)
<1>5. DOMAIN s = 1 .. k
  BY <1>4 DEF IsSeq
<1> HIDE DEF s
<1>6. /\ IsSeq(stack') /\ Len(stack') = k + 1 /\ DOMAIN stack' = 1 .. k + 1
      /\ \A i \in DOMAIN stack' : stack'[i] = fr \/ (i \in DOMAIN s /\ stack'[i] = s[i])
  BY <1>3, <1>4, Extended DEF s
<1>7. \A n \in DOMAIN stack' : Frame(stack'[n])
  BY <1>4, <1>5, <1>6 DEF IInv, s
<1>8. stack' # <<>>
  BY <1>2, <1>6
<1>9. status' \in {"running", "done", "trap"}
  OBVIOUS
<1> QED
  BY <1>6, <1>7, <1>8, <1>9, StepKeeps
-----------------------------------------------------------------------------
(* The frames the actions leave.                                           *)

(* An assignment leaves the sizes of the arrays.                           *)
LEMMA FrameStored ==
    ASSUME NEW fr, Frame(fr), NEW a, NEW v
    PROVE  Frame(Stored(fr, a, v))
<1> DEFINE g == [fr EXCEPT !.local[SlotIn(fr, a)] = v]
<1>1. /\ Shape(g) /\ g.name = fr.name /\ g.pc = fr.pc /\ g.paroff = fr.paroff
      /\ g.par = fr.par /\ g.locparams = fr.locparams /\ DOMAIN g.local = DOMAIN fr.local
  <2>1. Shape(fr)
    BY DEF Frame
  <2> DEFINE l == [fr.local EXCEPT ![SlotIn(fr, a)] = v]
  <2>2. g = [fr EXCEPT !.local = l]
    OBVIOUS
  <2>3. DOMAIN l = DOMAIN fr.local
    OBVIOUS
  <2> HIDE DEF l, g
  <2>4. g = [name |-> fr.name, pc |-> fr.pc, local |-> l, locparams |-> fr.locparams,
             paroff |-> fr.paroff, par |-> fr.par, dest |-> fr.dest]
    BY <2>1, <2>2 DEF Shape
  <2> QED
    BY <2>3, <2>4 DEF Shape
<1> HIDE DEF g
<1>2. Frame(g)
  BY <1>1 DEF Frame
<1> QED
  BY <1>2 DEF Stored, g

(* Where the innermost function is.                                        *)
LEMMA AtTop ==
    ASSUME IInv, status = "running"
    PROVE  /\ Top.name \in DOMAIN code /\ Top.pc \in DOMAIN code[Top.name]
           /\ Top.pc \in Nat \ {0} /\ Top.paroff = Pending(Top.name, Top.pc)
           /\ Shape(Top)
           /\ Current.op \in {"D_PROC", "D_GLOB"} <=> Top.pc = 1
           /\ Current.op = "D_PROC" <=> (Top.pc = 1 /\ IsProcedure(Top.name))
           /\ Current.op # "D_END" => Top.pc + 1 \in DOMAIN code[Top.name]
<1>1. Frame(Top) /\ Fixed
  BY TopFrame DEF IInv
<1>2. Top.name \in DOMAIN code /\ Top.pc \in DOMAIN code[Top.name]
  BY <1>1 DEF Frame
<1>3. /\ DOMAIN code[Top.name] = 1 .. Len(code[Top.name]) /\ Len(code[Top.name]) \in Nat
      /\ Current.op \in {"D_PROC", "D_GLOB"} <=> Top.pc = 1
      /\ Current.op # "D_END" => Top.pc + 1 \in DOMAIN code[Top.name]
  BY <1>1, <1>2, Instructions DEF Current
<1>4. Top.pc \in Nat \ {0}
  BY <1>2, <1>3
<1>5. Current.op = "D_PROC" <=> (Top.pc = 1 /\ IsProcedure(Top.name))
  BY <1>3 DEF IsProcedure, Current
<1> QED
  BY <1>1, <1>2, <1>3, <1>4, <1>5 DEF Frame

(* The innermost function behind its instruction, with what is now pending *)
(* and, behind its head, with its arrays.                                  *)
LEMMA FrameBehind ==
    ASSUME IInv, status = "running", Current.op # "D_END",
           NEW local, NEW locparams, NEW paroff,
           paroff = Pending(Top.name, Top.pc + 1),
           DOMAIN local = 0 .. LocalSize(Top.name) - 1,
           DOMAIN locparams = 0 .. LocparamsSize(Top.name) - 1
    PROVE  Frame([name |-> Top.name, pc |-> Top.pc + 1, local |-> local,
                  locparams |-> locparams, paroff |-> paroff, par |-> Top.par,
                  dest |-> Top.dest])
<1>1. /\ Top.name \in DOMAIN code /\ Top.pc \in Nat \ {0}
      /\ Top.pc + 1 \in DOMAIN code[Top.name]
  BY AtTop
<1>2. Top.pc + 1 # 1
  BY <1>1
<1> QED
  BY <1>1, <1>2 DEF Frame, Shape

(* ... and with the arrays it had, or none if it has not yet any.          *)
LEMMA FrameOn ==
    ASSUME IInv, status = "running", Current.op \notin {"D_END", "D_PROC"},
           NEW locparams, DOMAIN locparams = DOMAIN Top.locparams,
           NEW paroff, paroff = Pending(Top.name, Top.pc + 1)
    PROVE  Frame([name |-> Top.name, pc |-> Top.pc + 1, local |-> Top.local,
                  locparams |-> locparams, paroff |-> paroff, par |-> Top.par,
                  dest |-> Top.dest])
<1>1. Frame(Top)
  BY TopFrame
<1>2. CASE Top.pc = 1
  <2>1. ~ IsProcedure(Top.name)
    BY <1>2, AtTop
  <2>2. LocalSize(Top.name) = 0 /\ LocparamsSize(Top.name) = 0
    BY <2>1 DEF LocalSize, LocparamsSize
  <2>3. DOMAIN Top.local = {} /\ DOMAIN Top.locparams = {}
    BY <1>1, <1>2 DEF Frame
  <2>4. 0 .. LocalSize(Top.name) - 1 = {} /\ 0 .. LocparamsSize(Top.name) - 1 = {}
    BY <2>2
  <2> QED
    BY <2>3, <2>4, FrameBehind
<1>3. CASE Top.pc # 1
  <2>1. /\ DOMAIN Top.local = 0 .. LocalSize(Top.name) - 1
        /\ DOMAIN Top.locparams = 0 .. LocparamsSize(Top.name) - 1
    BY <1>1, <1>3 DEF Frame
  <2> QED
    BY <2>1, FrameBehind
<1> QED
  BY <1>2, <1>3

(* The fields of Advanced.                                                 *)
LEMMA AdvancedIs ==
    ASSUME IInv, status = "running"
    PROVE  Advanced = [name |-> Top.name, pc |-> Top.pc + 1, local |-> Top.local,
                       locparams |-> Top.locparams, paroff |-> Top.paroff, par |-> Top.par,
                       dest |-> Top.dest]
<1>1. Shape(Top)
  BY AtTop
<1> QED
  BY <1>1 DEF Advanced, Shape

(* An instruction that neither passes a parameter nor calls.               *)
LEMMA FrameAdvanced ==
    ASSUME IInv, status = "running",
           Current.op \notin {"D_END", "D_PROC", "O_PARM", "O_CALL"}
    PROVE  Frame(Advanced)
<1>1. Top.paroff = Pending(Top.name, Top.pc) /\ Top.pc \in Nat \ {0}
  BY AtTop
<1>2. Top.paroff = Pending(Top.name, Top.pc + 1)
  BY <1>1, PendingAlong DEF Current
<1> QED
  BY <1>2, AdvancedIs, FrameOn

(* A function behind a call.                                               *)
LEMMA FrameAfterCall ==
    ASSUME IInv, status = "running", Current.op = "O_CALL"
    PROVE  Frame(AfterCall)
<1>1. Top.pc \in Nat \ {0}
  BY AtTop
<1>2. Pending(Top.name, Top.pc + 1) = 0
  BY <1>1, PendingAlong DEF Current
<1>3. AfterCall = [name |-> Top.name, pc |-> Top.pc + 1, local |-> Top.local,
                   locparams |-> Top.locparams, paroff |-> 0, par |-> Top.par,
                   dest |-> Top.dest]
  BY AdvancedIs DEF AfterCall
<1> QED
  BY <1>2, <1>3, FrameOn

-----------------------------------------------------------------------------
(* The actions.                                                            *)

(* A result stored in the frame, and perhaps in the global region.         *)
LEMMA ComputeKeeps == ASSUME IInv, Compute PROVE IInv'
<1>1. PICK op \in Computations : Step(op) /\ Go(Stored(Advanced, Current.dest,
                    Computed(op, Read(Current.src1), Read(Current.src2))))
  BY DEF Compute
<1>2. status = "running" /\ Current.op = op
  BY <1>1 DEF Step, Running
<1>3. Frame(Advanced)
  BY <1>2, FrameAdvanced DEF Computations, Divisions
<1>4. Frame(Stored(Advanced, Current.dest, Computed(op, Read(Current.src1), Read(Current.src2))))
  BY <1>3, FrameStored
<1>5. UNCHANGED const /\ global' = global /\ status' = status
  BY DEF Compute
<1> QED
  BY <1>1, <1>2, <1>4, <1>5, GoKeeps

(* The same with the floats.                                               *)
LEMMA ComputeFloatKeeps == ASSUME IInv, ComputeFloat PROVE IInv'
<1>1. PICK op \in FloatComputations : Step(op) /\ Go(Stored(Advanced, Current.dest,
                    ComputedFloat(op, Float(Read(Current.src1)), Float(Read(Current.src2)))))
  BY DEF ComputeFloat
<1>2. status = "running" /\ Current.op = op
  BY <1>1 DEF Step, Running
<1>3. Frame(Advanced)
  BY <1>2, FrameAdvanced DEF FloatComputations
<1>4. Frame(Stored(Advanced, Current.dest,
                   ComputedFloat(op, Float(Read(Current.src1)), Float(Read(Current.src2)))))
  BY <1>3, FrameStored
<1>5. UNCHANGED const /\ global' = global /\ status' = status
  BY DEF ComputeFloat
<1> QED
  BY <1>1, <1>2, <1>4, <1>5, GoKeeps

(* The two assignments.                                                    *)
LEMMA AssignKeeps ==
    ASSUME IInv, NEW v, Assign_(v), Step("O_ASN") \/ Step("O_ADDR")
    PROVE  IInv'
<1>1. status = "running" /\ Current.op \in {"O_ASN", "O_ADDR"}
  BY DEF Step, Running
<1>2. Frame(Stored(Advanced, Current.dest, v))
  BY <1>1, FrameAdvanced, FrameStored
<1>3. DOMAIN global' = DOMAIN global
  BY DEF Assign_, StoreGlobal
<1>4. UNCHANGED const /\ status' = status /\ Go(Stored(Advanced, Current.dest, v))
  BY DEF Assign_
<1> QED
  BY <1>1, <1>2, <1>3, <1>4, GoKeeps

(* Marks, and a branch that is not taken.                                  *)
LEMMA PassKeeps == ASSUME IInv, Pass \/ NoJump PROVE IInv'
<1>1. status = "running" /\ Current.op \in {"D_LABEL", "NOP", "DEREF", "D_GLOB", "O_BIF"}
  BY DEF Pass, NoJump, Step, Running
<1>2. Frame(Advanced)
  BY <1>1, FrameAdvanced
<1>3. UNCHANGED const /\ global' = global /\ status' = status /\ Go(Advanced)
  BY DEF Pass, NoJump
<1> QED
  BY <1>1, <1>2, <1>3, GoKeeps

(* A jump: neither end is the head, and as many parameters are pending.    *)
LEMMA JumpKeeps == ASSUME IInv, Jump PROVE IInv'
<1>1. status = "running" /\ Current.op \in {"O_GOTO", "O_BIF"}
  BY DEF Jump, Step, Running
<1>2. PICK n \in Targets(Top.name, Current.label) : Go([Top EXCEPT !.pc = n])
  BY DEF Jump
<1>3. Frame(Top) /\ Shape(Top) /\ Top.name \in DOMAIN code /\ Top.pc # 1 /\ Fixed
  BY <1>1, AtTop, TopFrame DEF IInv
<1>4. Top.pc \in Jumps(Top.name)
  BY <1>1, AtTop DEF Jumps, Current
<1>5. Pending(Top.name, n) = Pending(Top.name, Top.pc)
  BY <1>2, <1>3, <1>4 DEF Fixed, LaidOut, ParametersFit, Current
<1>6. n \in DOMAIN code[Top.name] /\ code[Top.name][n].op = "D_LABEL"
  BY <1>2 DEF Targets
<1>7. n # 1
  BY <1>3, <1>6, Instructions
<1> DEFINE fr == [name |-> Top.name, pc |-> n, local |-> Top.local,
                  locparams |-> Top.locparams, paroff |-> Top.paroff, par |-> Top.par,
                  dest |-> Top.dest]
<1>8. [Top EXCEPT !.pc = n] = fr
  BY <1>3 DEF Shape
<1>9. Frame(fr)
  BY <1>3, <1>5, <1>6, <1>7 DEF Frame, Shape
<1>10. UNCHANGED const /\ global' = global /\ status' = status
  BY DEF Jump
<1> HIDE DEF fr
<1> QED
  BY <1>1, <1>2, <1>8, <1>9, <1>10, GoKeeps

(* A parameter: one more is pending.                                       *)
LEMMA ParameterKeeps == ASSUME IInv, Parameter PROVE IInv'
<1>1. status = "running" /\ Current.op = "O_PARM"
  BY DEF Parameter, Step, Running
<1> DEFINE p == [Top.locparams EXCEPT ![Top.paroff] = Read(Current.dest)]
           fr == [name |-> Top.name, pc |-> Top.pc + 1, local |-> Top.local,
                  locparams |-> p, paroff |-> Top.paroff + 1, par |-> Top.par,
                  dest |-> Top.dest]
<1>2. Top.pc \in Nat \ {0} /\ Top.paroff = Pending(Top.name, Top.pc)
  BY <1>1, AtTop
<1>3. Top.paroff + 1 = Pending(Top.name, Top.pc + 1)
  BY <1>1, <1>2, PendingAlong DEF Current
<1>4. DOMAIN p = DOMAIN Top.locparams
  OBVIOUS
<1> HIDE DEF p
<1>5. Frame(fr)
  BY <1>1, <1>3, <1>4, FrameOn
<1>6. Go([Advanced EXCEPT !.locparams = p, !.paroff = @ + 1])
  <2>1. Go([Advanced EXCEPT !.locparams[Top.paroff] = Read(Current.dest), !.paroff = @ + 1])
    BY DEF Parameter
  <2>2. Advanced.locparams = Top.locparams
    BY <1>1, AdvancedIs
  <2> QED
    BY <2>1, <2>2 DEF p
<1>7. [Advanced EXCEPT !.locparams = p, !.paroff = @ + 1] = fr
  <2> DEFINE g == [Advanced EXCEPT !.locparams = p]
  <2>1. g = [name |-> Top.name, pc |-> Top.pc + 1, local |-> Top.local,
             locparams |-> p, paroff |-> Top.paroff, par |-> Top.par, dest |-> Top.dest]
    BY <1>1, AdvancedIs
  <2>2. Advanced.paroff = Top.paroff
    BY <1>1, AdvancedIs
  <2>3. [Advanced EXCEPT !.locparams = p, !.paroff = @ + 1]
          = [g EXCEPT !.paroff = Advanced.paroff + 1]
    OBVIOUS
  <2> HIDE DEF g
  <2>4. [g EXCEPT !.paroff = Top.paroff + 1] = fr
    BY <2>1
  <2> QED
    BY <2>2, <2>3, <2>4
<1>8. UNCHANGED const /\ global' = global /\ status' = status
  BY DEF Parameter
<1> HIDE DEF fr
<1> QED
  BY <1>1, <1>5, <1>6, <1>7, <1>8, GoKeeps

(* A call of println.                                                      *)
LEMMA PrintlnKeeps == ASSUME IInv, Println PROVE IInv'
<1>1. status = "running" /\ Current.op = "O_CALL"
  BY DEF Println, Step, Running
<1>2. Frame(AfterCall)
  BY <1>1, FrameAfterCall
<1>3. UNCHANGED const /\ global' = global /\ status' = status /\ Go(AfterCall)
  BY DEF Println
<1> QED
  BY <1>1, <1>2, <1>3, GoKeeps

(* The rest of a sequence, one more and another.                           *)
LEMMA TwoMore ==
    ASSUME NEW s, IsSeq(s), NEW x, NEW y
    PROVE  s \o <<x, y>> = Append(Append(s, x), y)
<1> DEFINE S == {s[i] : i \in DOMAIN s} \cup {x, y}
<1>1. s \in Seq(S)
  BY DEF IsSeq
<1>2. x \in S /\ y \in S
  OBVIOUS
<1> HIDE DEF S
<1> QED
  BY <1>1, <1>2

(* A call: the callee's head finds a parameter for each of its slots.      *)
LEMMA CallKeeps == ASSUME IInv, CallFunction PROVE IInv'
<1>1. status = "running" /\ Current.op = "O_CALL" /\ Current.name # "println"
  BY DEF CallFunction, Step, Running
<1>2. /\ Frame(Top) /\ Top.name \in DOMAIN code /\ Top.pc \in DOMAIN code[Top.name]
      /\ Top.pc # 1 /\ Fixed
  BY <1>1, AtTop, TopFrame DEF IInv
<1>3. IsProcedure(Top.name) /\ Current.name \in DOMAIN code
  BY <1>1, <1>2 DEF Fixed, LaidOut, ParametersFit, Current
<1>4. DOMAIN Top.locparams = 0 .. MaxArgc - 1
  BY <1>2, <1>3 DEF Frame, LocparamsSize
<1>5. MaxArgc \in Nat /\ Arity(Current.name) \in 0 .. MaxArgc
  BY <1>2, MaxArgcBounds DEF Fixed
<1>6. 0 .. Arity(Current.name) - 1 \subseteq DOMAIN Top.locparams
  BY <1>4, <1>5
<1> DEFINE callee == Enter(Current.name, Top.locparams, Current.dest)
<1>7. Frame(callee)
  <2>1. 1 \in DOMAIN code[Current.name]
    BY <1>2, <1>3, Instructions
  <2>2. DOMAIN JunkSlots(0) = {}
    BY DEF JunkSlots
  <2>3. Pending(Current.name, 1) = 0
    BY PendingFirst
  <2> QED
    BY <1>3, <1>6, <2>1, <2>2, <2>3 DEF Frame, Shape, Enter
<1> HIDE DEF callee
<1>8. Frame(AfterCall)
  BY <1>1, FrameAfterCall
<1> DEFINE k == Len(stack) - 1
           s == SubSeq(stack, 1, k)
           t == Append(s, AfterCall)
<1>9. k \in 0 .. Len(stack) /\ IsSeq(stack)
  BY <1>1, TopFrame DEF IInv
<1> HIDE DEF k
<1>10. IsSeq(s) /\ Len(s) = k /\ \A i \in 1 .. k : i \in DOMAIN stack /\ s[i] = stack[i]
  BY <1>9, Prefix
<1> HIDE DEF s
<1>11. DOMAIN s = 1 .. k
  BY <1>10 DEF IsSeq
<1>12. /\ IsSeq(t) /\ Len(t) = k + 1 /\ DOMAIN t = 1 .. k + 1
       /\ \A i \in DOMAIN t : t[i] = AfterCall \/ (i \in DOMAIN s /\ t[i] = s[i])
  BY <1>10, Extended
<1>13. stack' = s \o <<AfterCall, callee>>
  BY DEF CallFunction, Callers, s, k, callee
<1>14. stack' = Append(t, callee)
  BY <1>10, <1>13, TwoMore
<1> HIDE DEF t
<1>15. /\ IsSeq(stack') /\ Len(stack') = k + 2 /\ DOMAIN stack' = 1 .. k + 2
       /\ \A i \in DOMAIN stack' : stack'[i] = callee \/ (i \in DOMAIN t /\ stack'[i] = t[i])
  BY <1>9, <1>12, <1>14, Extended
<1>16. \A n \in DOMAIN stack' : Frame(stack'[n])
  BY <1>7, <1>8, <1>10, <1>11, <1>12, <1>15 DEF IInv
<1>17. stack' # <<>>
  BY <1>9, <1>15
<1>18. UNCHANGED const /\ global' = global /\ status' = status
  BY DEF CallFunction
<1>19. status' \in {"running", "done", "trap"}
  BY <1>1, <1>18
<1> QED
  BY <1>15, <1>16, <1>17, <1>18, <1>19, StepKeeps

(* The head of a procedure: its arrays.                                    *)
LEMMA EnterKeeps == ASSUME IInv, EnterProcedure PROVE IInv'
<1>1. status = "running" /\ Current.op = "D_PROC"
  BY DEF EnterProcedure, Step, Running
<1>2. Top.pc = 1 /\ IsProcedure(Top.name)
  BY <1>1, AtTop
<1> DEFINE l == [slot \in 0 .. Current.src1.offset - 1 |->
                    IF Copied(slot) THEN Top.par[slot] ELSE Junk]
           g == [Advanced EXCEPT !.locparams = JunkSlots(MaxArgc)]
           fr == [name |-> Top.name, pc |-> Top.pc + 1, local |-> l,
                  locparams |-> JunkSlots(MaxArgc), paroff |-> Top.paroff,
                  par |-> Top.par, dest |-> Top.dest]
<1>3. DOMAIN l = 0 .. LocalSize(Top.name) - 1
  BY <1>2 DEF LocalSize, Current
<1>4. DOMAIN JunkSlots(MaxArgc) = 0 .. LocparamsSize(Top.name) - 1
  BY <1>2 DEF LocparamsSize, JunkSlots
<1>5. Top.paroff = Pending(Top.name, Top.pc + 1)
  <2>1. Top.paroff = Pending(Top.name, Top.pc)
    BY <1>1, AtTop
  <2> QED
    BY <1>1, <1>2, <2>1, PendingAlong DEF Current
<1>6. Go([g EXCEPT !.local = l])
  BY DEF EnterProcedure
<1> HIDE DEF l
<1>7. Frame(fr)
  BY <1>1, <1>3, <1>4, <1>5, FrameBehind
<1>8. g = [name |-> Top.name, pc |-> Top.pc + 1, local |-> Top.local,
           locparams |-> JunkSlots(MaxArgc), paroff |-> Top.paroff, par |-> Top.par,
           dest |-> Top.dest]
  BY <1>1, AdvancedIs
<1> HIDE DEF g
<1>9. [g EXCEPT !.local = l] = fr
  BY <1>8
<1>10. UNCHANGED const /\ global' = global /\ status' = status
  BY DEF EnterProcedure
<1> HIDE DEF fr
<1> QED
  BY <1>1, <1>6, <1>7, <1>9, <1>10, GoKeeps

(* A function left: main's end is the program's; another's caller goes on. *)
LEMMA LeaveKeeps ==
    ASSUME IInv, status = "running", NEW v, Leave(v), UNCHANGED const, global' = global
    PROVE  IInv'
<1>1. Len(stack) \in Nat \ {0} /\ DOMAIN stack = 1 .. Len(stack) /\ IsSeq(stack)
  BY TopFrame DEF IInv
<1>2. CASE Len(stack) = 1
  <2>1. stack' = <<>> /\ status' = "done"
    BY <1>2 DEF Leave
  <2>2. IsSeq(stack') /\ DOMAIN stack' = {}
    BY <2>1 DEF IsSeq
  <2> QED
    BY <2>1, <2>2, StepKeeps
<1>3. CASE Len(stack) # 1
  <2> DEFINE k == Len(stack) - 2
             s == SubSeq(stack, 1, k)
             caller == stack[Len(stack) - 1]
             fr == Stored(caller, Top.dest, v)
  <2>1. stack' = Append(s, fr) /\ status' = status
    BY <1>3 DEF Leave
  <2>2. Len(stack) - 1 \in DOMAIN stack /\ k \in 0 .. Len(stack)
    BY <1>1, <1>3
  <2>3. Frame(caller)
    BY <2>2 DEF IInv
  <2> HIDE DEF caller
  <2>4. Frame(fr)
    BY <2>3, FrameStored
  <2> HIDE DEF fr, k
  <2>5. IsSeq(s) /\ Len(s) = k /\ \A i \in 1 .. k : i \in DOMAIN stack /\ s[i] = stack[i]
    BY <1>1, <2>2, Prefix
  <2> HIDE DEF s
  <2>6. DOMAIN s = 1 .. k
    BY <2>5 DEF IsSeq
  <2>7. /\ IsSeq(stack') /\ Len(stack') = k + 1 /\ DOMAIN stack' = 1 .. k + 1
        /\ \A i \in DOMAIN stack' : stack'[i] = fr \/ (i \in DOMAIN s /\ stack'[i] = s[i])
    BY <2>1, <2>5, Extended
  <2>8. \A n \in DOMAIN stack' : Frame(stack'[n])
    BY <2>4, <2>5, <2>6, <2>7 DEF IInv
  <2>9. stack' # <<>>
    BY <2>2, <2>7
  <2>10. status' \in {"running", "done", "trap"}
    BY <2>1
  <2> QED
    BY <2>7, <2>8, <2>9, <2>10, StepKeeps
<1> QED
  BY <1>2, <1>3

(* A division by zero ends the run.                                        *)
LEMMA DivideByZeroKeeps == ASSUME IInv, DivideByZero PROVE IInv'
<1>1. UNCHANGED const /\ stack' = stack /\ global' = global /\ status' = "trap"
  BY DEF DivideByZero
<1>2. IsSeq(stack') /\ \A n \in DOMAIN stack' : Frame(stack'[n])
  BY <1>1 DEF IInv
<1> QED
  BY <1>1, <1>2, StepKeeps

(* Nothing changes.                                                        *)
LEMMA StutterKeeps == ASSUME IInv, UNCHANGED vars PROVE IInv'
<1>1. UNCHANGED const /\ stack' = stack /\ global' = global /\ status' = status
  BY DEF vars, const
<1>2. /\ IsSeq(stack') /\ \A n \in DOMAIN stack' : Frame(stack'[n])
      /\ status' \in {"running", "done", "trap"} /\ (status' = "running" => stack' # <<>>)
  BY <1>1 DEF IInv
<1> QED
  BY <1>1, <1>2, StepKeeps

-----------------------------------------------------------------------------
(* The invariant.                                                          *)

(* main and the function that assigns the globals are entered.             *)
LEMMA InvInit == ASSUME Loaded, GccAccepts, LaidOut PROVE IInv
<1>1. Fixed
  BY DEF Fixed, Loaded
<1> DEFINE a == Enter("main", JunkSlots(0), NoAddress)
           b == Enter(InitGlobals, JunkSlots(0), NoAddress)
<1>2. stack = <<a, b>> /\ status = "running"
  BY DEF Loaded
<1>3. ASSUME NEW f \in {"main", InitGlobals}
      PROVE  Frame(Enter(f, JunkSlots(0), NoAddress))
  <2>1. f \in DOMAIN code /\ Arity(f) = 0
    BY DEF LaidOut
  <2>2. 1 \in DOMAIN code[f]
    BY <1>1, <2>1, Instructions
  <2>3. DOMAIN JunkSlots(0) = {} /\ 0 .. Arity(f) - 1 = {}
    BY <2>1 DEF JunkSlots
  <2>4. Pending(f, 1) = 0
    BY PendingFirst
  <2> QED
    BY <2>1, <2>2, <2>3, <2>4 DEF Frame, Shape, Enter
<1>4. Frame(a) /\ Frame(b)
  BY <1>3
<1> HIDE DEF a, b
<1>5. IsSeq(stack) /\ stack # <<>> /\ \A n \in DOMAIN stack : stack[n] \in {a, b}
  BY <1>2 DEF IsSeq
<1>6. DOMAIN global = 0 .. GlobalSize(Programs[program].globals) - 1
  BY DEF Loaded, JunkSlots
<1> QED
  BY <1>1, <1>2, <1>4, <1>5, <1>6 DEF IInv

(* Every step keeps it.                                                    *)
LEMMA InvNext == ASSUME IInv, [Next]_vars PROVE IInv'
<1>1. CASE Compute
  BY <1>1, ComputeKeeps
<1>2. CASE ComputeFloat
  BY <1>2, ComputeFloatKeeps
<1>3. CASE DivideByZero
  BY <1>3, DivideByZeroKeeps
<1>4. CASE Assignment
  BY <1>4, AssignKeeps DEF Assignment
<1>5. CASE PointTo
  BY <1>5, AssignKeeps DEF PointTo
<1>6. CASE Pass
  BY <1>6, PassKeeps
<1>7. CASE Jump
  BY <1>7, JumpKeeps
<1>8. CASE NoJump
  BY <1>8, PassKeeps
<1>9. CASE Parameter
  BY <1>9, ParameterKeeps
<1>10. CASE Println
  BY <1>10, PrintlnKeeps
<1>11. CASE CallFunction
  BY <1>11, CallKeeps
<1>12. CASE EnterProcedure
  BY <1>12, EnterKeeps
<1>13. CASE Return
  <2>1. status = "running" /\ UNCHANGED const /\ global' = global
    BY <1>13 DEF Return, Step, Running
  <2> QED
    BY <1>13, <2>1, LeaveKeeps DEF Return
<1>14. CASE FallOff
  <2>1. status = "running" /\ UNCHANGED const /\ global' = global
    BY <1>14 DEF FallOff, Step, Running
  <2> QED
    BY <1>14, <2>1, LeaveKeeps DEF FallOff
<1>15. CASE Halted \/ UNCHANGED vars
  BY <1>15, StutterKeeps DEF Halted
<1> QED
  BY <1>1, <1>2, <1>3, <1>4, <1>5, <1>6, <1>7, <1>8, <1>9, <1>10, <1>11, <1>12, <1>13, <1>14,
     <1>15 DEF Next, Work

LEMMA Invariance == MachineSpec => []IInv
<1>1. Loaded /\ GccAccepts /\ LaidOut => IInv
  BY InvInit
<1>2. IInv /\ [Next]_vars => IInv'
  BY InvNext
<1> QED
  BY <1>1, <1>2, PTL DEF MachineSpec

(* The arrays that the printed C declares hold every slot it names, the    *)
(* next parameter and the parameters copied at the head of a function      *)
(* (finalcode.c 433-436, 530-548, 565-691).                                *)
THEOREM TypeCorrect == MachineSpec => []TypeOK
<1>1. IInv => TypeOK
  <2> SUFFICES ASSUME IInv PROVE TypeOK
    OBVIOUS
  <2>1. /\ status \in {"running", "done", "trap"}
        /\ \A n \in DOMAIN stack : stack[n].pc \in DOMAIN code[stack[n].name]
        /\ status = "running" => stack # <<>>
    BY DEF IInv, Frame
  <2>2. ASSUME status = "running"
        PROVE  /\ Frame(Top) /\ Fixed /\ Top.name \in DOMAIN code
               /\ Top.pc \in DOMAIN code[Top.name]
               /\ Top.pc = 1 <=> Current.op \in {"D_PROC", "D_GLOB"}
    BY <2>2, TopFrame, AtTop DEF IInv
  <2>3. ASSUME status = "running", NEW a \in Addresses(Current), NEW b \in {a} \cup Indices(a)
        PROVE  /\ b.region = "local" => b.offset \in DOMAIN Top.local
               /\ b.region = "global" => b.offset \in DOMAIN global
    <3>1. AddressesFit(Top.name)
      BY <2>2, <2>3 DEF Fixed, LaidOut
    <3>2. /\ b.region = "local" => b.offset \in 0 .. LocalSize(Top.name) - 1
          /\ b.region = "global" => b.offset \in 0 .. GlobalSize(Programs[program].globals) - 1
      BY <2>2, <2>3, <3>1 DEF AddressesFit, Current
    <3>3. Current.op \notin {"D_PROC", "D_GLOB"}
      BY <2>3 DEF Addresses, Operands, Written
    <3>4. DOMAIN Top.local = 0 .. LocalSize(Top.name) - 1
      BY <2>2, <2>3, <3>3 DEF Frame
    <3> QED
      BY <3>2, <3>4 DEF IInv
  <2>4. ASSUME status = "running", Current.op = "O_PARM"
        PROVE  Top.paroff \in DOMAIN Top.locparams
    <3>1. Pending(Top.name, Top.pc) < LocparamsSize(Top.name)
      BY <2>2, <2>4 DEF Fixed, LaidOut, ParametersFit, Current
    <3>2. Pending(Top.name, Top.pc) \in Nat /\ Top.paroff = Pending(Top.name, Top.pc)
      BY <2>4, AtTop, PendingAlong
    <3>3. DOMAIN Top.locparams = 0 .. LocparamsSize(Top.name) - 1
      BY <2>2, <2>4 DEF Frame
    <3>4. LocparamsSize(Top.name) \in Nat
      BY <2>2, <2>4, MaxArgcBounds DEF Fixed, LocparamsSize
    <3> QED
      BY <3>1, <3>2, <3>3, <3>4
  <2>5. ASSUME status = "running", Current.op = "D_PROC"
        PROVE  0 .. Arity(Top.name) - 1 \subseteq DOMAIN Top.par
    BY <2>2, <2>5 DEF Frame
  <2> QED
    BY <2>1, <2>3, <2>4, <2>5 DEF TypeOK
<1> QED
  BY <1>1, Invariance, PTL

(* paroff is at run time what the text says (finalcode.c 436, 464): a jump *)
(* never carries the parameters of one call into another.                  *)
THEOREM CountedParameters == MachineSpec => []ParametersCounted
<1>1. IInv => ParametersCounted
  BY DEF IInv, Frame, ParametersCounted
<1> QED
  BY <1>1, Invariance, PTL
=============================================================================
