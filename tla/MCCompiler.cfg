CONSTANTS
    Programs <- MCPrograms
    Junk = Junk
    IntLimit = 128
    Fuel = 30
SPECIFICATION FairSpec
INVARIANTS TypeOK RunsAsWritten GccAccepts CodeFits ParametersCounted Defined
PROPERTY Terminates
