SPECIFICATION Spec
CONSTANTS
    IntBits = 5
    Int64Bits = 8
    FastBits = 6
    MaxDigits = 3
    MaxExp = 9
    PlainDigits = 6
    ExpLimit = 300
    Themes <- MCThemes
INVARIANTS
    AgreesWithRecursive
    WriteReadsBack
    NumbersExact
    EncodingsExact
CHECK_DEADLOCK FALSE
