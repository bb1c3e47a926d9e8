\* Two writers of two resources, a list of all, three writes.
CONSTANTS
    Ids = {r1, r2}
    Calls = {c1, c2}
    Requests <- MCStamped
    NoJob = NoJob
    NoId = NoId
    Readers = {reader}
    Asked = {}
    Wanted = wanted
    Other = other
    MaxTime = 3
SPECIFICATION Spec
SYMMETRY Symmetry
INVARIANTS
    YoungerComesFirst
    UpdatedAfterCreated
PROPERTY StampsFollowCausality
