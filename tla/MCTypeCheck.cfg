SPECIFICATION Spec
CONSTANTS
    Grammars <- MCGrammars
INVARIANTS TypeOK Sound Complete Agrees TypedWhereRead
CHECK_DEADLOCK FALSE
