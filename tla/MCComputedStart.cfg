CONSTANTS
    Programs <- ComputedStart
    Junk = Junk
    IntLimit = 128
    Fuel = 30
SPECIFICATION FairSpec
INVARIANT Defined
