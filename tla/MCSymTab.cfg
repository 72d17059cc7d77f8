CONSTANTS
    a = a
    b = b
    println = println
    NoName = NoName
    Names = {a, b, println}
    Builtins <- MCBuiltins
    MaxNodes = 4
SPECIFICATION Spec
SYMMETRY Symmetry
INVARIANTS TypeOK StableReferences ReferencesResolve UpdatesAreMutable ParamsCounted OnlyElseIfLeaks
