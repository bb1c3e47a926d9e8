\* Two RPCs on either server, of a unary method or of the reflection stream.
CONSTANTS
    Calls = {c1, c2}
    Unary = {get}
    Streams = {reflection}
    NoMethod = NoMethod
SPECIFICATION PSpec
SYMMETRY Symmetry
INVARIANTS
    TypeOK
    RepositoryOpenWhileServing
    NoCallCutShort
    ExitCodeTellsWhy
    NothingInFlightAtTheEnd
    OnlyStreamsCutCallsShort
