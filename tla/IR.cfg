SPECIFICATION Spec
CONSTANTS
    F = 1
    Ops = {op}
    Setups <- AllSetups
    x = x
    y = y
    Results <- TwoResults
    None = None
    Error = Error
    MaxView = 2
VIEW StateView
SYMMETRY Symmetry
INVARIANTS WellFormed AnsweredOnce OneMasterRecord ToldSurvives
PROPERTIES ViewsGrow
CHECK_DEADLOCK FALSE
