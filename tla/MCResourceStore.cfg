\* Two types of resource, two resources, two calls, one serial number.
CONSTANTS
    Ids = {r1, r2}
    Calls = {c1, c2}
    Types = {"device", "workspace"}
    Fields = {"name"}
    Serials = {"s1"}
    Vals = {v1}
    Blank = blank
    NoId = NoId
SPECIFICATION Spec
SYMMETRY Symmetry
INVARIANTS
    TypeOK
    RowsAreWhole
    NoTransactionLeftOpen
    ReplyTellsTheOutcome
    SerialsAreUnique
