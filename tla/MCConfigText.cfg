SPECIFICATION Spec
CONSTANTS
    NULL = NULL
    Letters = {"a"}
    MaxText = 5
    Texts <- AllTexts
    Made <- MadeConfigs
INVARIANTS
    LoadedIsWritable
    RoundTrip
    CutShort
