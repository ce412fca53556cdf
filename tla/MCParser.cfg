SPECIFICATION Spec
CONSTANTS
    Chars = {"bs", "nl", "?", "/"}
    Newline = "nl"
    EOF = "EOF"
    MaxLength = 2
    Sources <- Texts
    Filters = {"newlines", "trigraphs"}
    Pattern <- Patterns
    Replacing = {"trigraphs"}
    Callbacks = {"a", "b"}
    MaxCallbacks = 2
    Beyond = {"nl"}
    MaxPast = 1
INVARIANTS
    TypeOK
    LookaheadExact
    InOrder
    PositionExact
PROPERTY
    EndMeansAll
