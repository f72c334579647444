SPECIFICATION Spec
CONSTANTS
    IntMax = 31
    Int32Max = 7
    Mantissa = 4
    FloatMax = 250
    Stride = 2
    EntryIds = 8
    OidMod = 4
    ListMax = 31
    Literals <- MCLiterals
    Counts <- MCCounts
    Texts <- MCTexts
    SqlValues <- MCSqlValues
    Graph <- MCGraph
    Rows <- MCRows
    Percentiles <- MCPercentiles
    MaxCalls = 2
    MaxRows = 3
INVARIANT TypeOK
INVARIANT TextRoundTrip
INVARIANT StoredAsBuilt
INVARIANT AccessAgrees
INVARIANT CutsRejoin
INVARIANT ContainsIsOrder
INVARIANT AggregatesAgree
CHECK_DEADLOCK FALSE
