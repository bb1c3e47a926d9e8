\* What the tests of UpdateResourceOccupancy say, against concurrent calls.
CONSTANTS
    Ids = {r1}
    NoId = NoId
    Calls = {c1, c2}
    MaxStray = 0
SPECIFICATION Spec
PROPERTY HoldRespected
