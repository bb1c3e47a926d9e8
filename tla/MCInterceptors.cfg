\* Three RPCs at a time, of two unary methods and of the reflection stream.
CONSTANTS
    Calls = {c1, c2, c3}
    Unary = {get, update}
    Streams = {reflection}
    NoMethod = NoMethod
SPECIFICATION Spec
SYMMETRY Symmetry
INVARIANTS
    TypeOK
    GaugeCountsCalls
    EveryCallIsCounted
    OnlyStreamsEndTheProcess
    EveryFailureIsLogged
