SPECIFICATION LookupSpec
CONSTANTS
    IntBits = 5
    Int64Bits = 8
    FastBits = 6
    MaxDigits = 3
    MaxExp = 9
    PlainDigits = 6
    ExpLimit = 300
    SizeBits = 4
    Cases <- MCCases
    MaxDepth = 3
    Pieces <- MCPieces
    MaxPieces = 4
    Names <- MCNames
    Depth = 2
    Scalars <- MCScalars
    MaxNodes = 4
    Leaves <- MCLeaves
    Quantifiers <- MCQuantifiers
    MaxPattern = 4
    Subjects <- MCSubjects
INVARIANTS
    VerdictExact
    ErrorsAreReal
    PointerReadsBack
    ChangesOnlyThere
    SearchIsExact
CHECK_DEADLOCK FALSE
