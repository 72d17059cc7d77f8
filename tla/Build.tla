-------------------------------- MODULE Build --------------------------------
(***************************************************************************)
(* What `fec file.rs` promises somebody who runs it again and again without *)
(* -s: invocations follow one another, what an invocation leaves under the *)
(* executable's (or object file's) name is made while it runs and from its *)
(* own source, and one that returns 0 leaves no C file behind.             *)
(***************************************************************************)
EXTENDS Integers

CONSTANT Kinds  \* what can be made: an executable, an object file

VARIABLES
    turn,     \* invocations begun
    busy,     \* whether the last of them still runs
    product,  \* the invocation each file was made by, 0 if there is no file
    litter    \* whether a C file lies beside the source

vars == <<turn, busy, product, litter>>

Init == /\ turn = 0
        /\ busy = FALSE
        /\ product = [k \in Kinds |-> 0]
        /\ litter = FALSE

Begin == /\ ~ busy
         /\ turn' = turn + 1
         /\ busy' = TRUE
         /\ UNCHANGED <<product, litter>>

(* gcc delivers, or fails and may remove what an earlier invocation made.  *)
Make(k) == /\ busy
           /\ \E p \in {0, turn} : product' = [product EXCEPT ![k] = p]
           /\ UNCHANGED <<turn, busy, litter>>

WriteC == /\ busy
          /\ litter' = TRUE
          /\ UNCHANGED <<turn, busy, product>>

RemoveC == /\ busy
           /\ litter' = FALSE
           /\ UNCHANGED <<turn, busy, product>>

(* The C file is removed with the last step, or by a child before it.      *)
Succeed == /\ busy
           /\ busy' = FALSE
           /\ litter' = FALSE
           /\ UNCHANGED <<turn, product>>

Fail == /\ busy
        /\ busy' = FALSE
        /\ UNCHANGED <<turn, product, litter>>

Next == \/ Begin
        \/ \E k \in Kinds : Make(k)
        \/ WriteC
        \/ RemoveC
        \/ Succeed
        \/ Fail

Spec == Init /\ [][Next]_vars
=============================================================================
