SPECIFICATION FairSpec
CONSTANTS
    Base = 18
    W16 = 2
    W32 = 3
    W64 = 4
    Messages <- SomeMessages
    AsTypes = {"BOOL", "INT8", "UINT8", "INT16", "UINT16", "INT32", "UINT32", "INT64", "UINT64"}
    MaxPending = 2
INVARIANTS
    TypeOK
    Framed
PROPERTIES
    IsChannel
    DeliveredButStrings
