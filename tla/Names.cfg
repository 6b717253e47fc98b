\* All resource names of up to seven segments.
SPECIFICATION Spec
CONSTANTS
    NotANumber = NotANumber
    Decimal <- MCDecimal
    Segments <- MCSegments
    MaxSegments = 7
INVARIANTS
    UnderstandsNames
    AcceptsOnlyNames
\* The enumeration stops at the bound.
CHECK_DEADLOCK FALSE
