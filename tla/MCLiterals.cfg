SPECIFICATION Spec
CONSTANTS
    Chars <- Everything
    Strings <- MCStrings
    CharTexts <- MCCharTexts
    Doubles <- MCDoubles
    DoubleSize = 2
    Values <- NearLimits
    INT_MIN <- Lowest
    INT_MAX <- Highest
    MaxLiterals = 2
INVARIANTS TypeOK EscapesKnown RegionsDisjoint PlainLiteralsIntact
