----------------------------- MODULE MCSymTab ------------------------------
(* Small instances of SymTab for TLC.                                     *)
EXTENDS SymTab, TLC

CONSTANTS a, b, println

Symmetry == Permutations({a, b})

MCBuiltins == <<[name |-> println, nparams |-> 2]>>
=============================================================================
