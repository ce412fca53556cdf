SPECIFICATION MemorySpec
CONSTANTS
    Slots = {s1, s2}
    Contents = {"a"}
    Names = {"n"}
    Keys = {"x", "y"}
    MaxBlocks = 10
    MaxMembers = 2
    MaxLost = 1
    NULL = NULL
INVARIANT
    Owned
PROPERTY
    IsValues
VIEW Shape
