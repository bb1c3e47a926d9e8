\* Two devices that may swap their serial numbers, two calls. What the columns
\* hold decides nothing about waiting, so there is one value only.
CONSTANTS
    Ids = {r1, r2}
    Calls = {c1, c2}
    Types = {"device"}
    Fields = {}
    Serials = {"s1", "s2"}
    Vals = {blank}
    Blank = blank
    NoId = NoId
SPECIFICATION FairSpec
PROPERTY EveryCallEnds
