SPECIFICATION Spec
CONSTANTS
    Grammars <- PromisedGrammars
INVARIANTS AcceptsWellTyped
CHECK_DEADLOCK FALSE
