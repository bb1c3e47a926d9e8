\* What the log message at the end of a shutdown says.
CONSTANT Calls = {c1}
SPECIFICATION Spec
INVARIANT StopCompletesBeforeExit
