\* One resource; every request with names and locations from Names.
CONSTANTS
    Texts <- MCTexts
    Names = {"", "a", Long, Padded}
    Capacities <- MCCapacities
    Devices <- MCDevices
    Kept <- MCKept
    TooLong = TooLong
    Null = Null
    Medium = Medium
    Long = Long
    Padded = Padded
    Pad100 = Pad100
    Pad255 = Pad255
SPECIFICATION Spec
INVARIANTS
    TypeOK
    ReadsBackWhatWasWritten
    RepliesShowTheResource
PROPERTY RefusalsChangeNothing
