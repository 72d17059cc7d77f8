CONSTANTS
    a = a
    b = b
    println = println
    NoName = NoName
    Names = {a, b, println}
    Builtins <- MCBuiltins
    MaxNodes = 3
SPECIFICATION Spec
INVARIANTS ScopesBalanced
