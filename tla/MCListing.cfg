\* A list of any kind while one writer at a time writes two resources.
CONSTANTS
    Ids = {r1, r2}
    Calls = {c1}
    Requests <- MCRequests
    NoJob = NoJob
    NoId = NoId
    Readers = {reader}
    Asked = {"DEVICE", "UNKNOWN"}
    Wanted = wanted
    Other = other
    MaxTime = 4
SPECIFICATION Spec
SYMMETRY Symmetry
INVARIANTS
    TypeOK
    ListIsASnapshot
