SPECIFICATION Spec
CONSTANTS
    N = 2
    Retain = {FALSE, TRUE}
    Failures = {"passes", "codegen", "fork", "exec", "gcc"}
INVARIANTS
    TypeOK
    GccKeepsItsInput
    BuiltOnReturn
    CFileOnReturn
PROPERTIES
    CompilerReturns
    ImplementsBuild
