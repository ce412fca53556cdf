SPECIFICATION Spec
CONSTANTS
    p1 = p1
    p2 = p2
    Procs = {p1, p2}
    Chars <- Letters
    Commands <- SomeCommands
    FirstFile <- OneSetting
    Garbled = Garbled
    NULL = NULL
SYMMETRY Symmetry
PROPERTIES
    SuccessAsDocumented
    FailureKeepsFile
