\* One slot for RPCs on either server, used again and again.
CONSTANTS
    Calls = {c1}
    Unary = {get}
    Streams = {reflection}
    NoMethod = NoMethod
SPECIFICATION PFairSpec
PROPERTY StopsUnlessStreamStays
