SPECIFICATION Spec
CONSTANTS
    Chars <- Everything
    Strings <- DigitStrings
    CharTexts <- None
    Doubles <- None
    DoubleSize = 2
    Values <- None
    INT_MIN <- Lowest
    INT_MAX <- Highest
    MaxLiterals = 2
INVARIANTS LiteralsIntact
