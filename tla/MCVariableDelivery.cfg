\* Violated: a string is refused when its NUL is the last byte received, and
\* the receiver waits for a byte that belongs to no message.
SPECIFICATION FairSpec
CONSTANTS
    Base = 18
    W16 = 2
    W32 = 3
    W64 = 4
    Messages <- SomeMessages
    AsTypes = {"BOOL", "INT8", "UINT8", "INT16", "UINT16", "INT32", "UINT32", "INT64", "UINT64"}
    MaxPending = 1
PROPERTY Delivered
