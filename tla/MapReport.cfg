SPECIFICATION Spec
CONSTANTS
    MaxYear = 3
    Reports <- MCReports
    Nil = Nil
CHECK_DEADLOCK FALSE
INVARIANTS
    NoForwardYears
    FiguresAreOfOneStatement
    MultiplesAreOfOneValuation
    GrowthIsAgainstOneYear
