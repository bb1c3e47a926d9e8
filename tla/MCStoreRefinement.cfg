\* Two types of resource, two resources, two calls, one serial number.
CONSTANTS
    Ids = {r1, r2}
    Calls = {c1, c2}
    Types = {"device", "workspace"}
    Fields = {"name"}
    Serials = {}
    Vals = {v1}
    Blank = blank
    NoId = NoId
SPECIFICATION Spec
PROPERTY ImplementsAtomicStore
