\* One resource, two calls in flight, one stray statement.
CONSTANTS
    Ids = {r1}
    NoId = NoId
    Calls = {c1, c2}
    MaxStray = 1
SPECIFICATION Spec
SYMMETRY Symmetry
INVARIANTS
    TypeOK
    OkMeansItHappened
    ReportedStatusWasCurrent
    RefusalWasJustified
    RefusedCallsWroteNothing
    NotFoundIsFinal
    UndisturbedWriteIsLegal
