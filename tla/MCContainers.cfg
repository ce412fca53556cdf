SPECIFICATION ContainersSpec
CONSTANTS
    Word = 256
    Sizes = {2}
    Bytes = {0, 1}
    Zero = 0
    Junk = Junk
    Data <- SomeData
    a1 = a1
    a2 = a2
    Arrays = {a1, a2}
    MaxCount = 3
    None = None
    a = a
    b = b
    c = c
    Names = {a, b, c}
    HashOf <- Hashes
    Values = {v, w}
    v = v
    w = w
    Addrs = {k1, k2, k3}
    k1 = k1
    k2 = k2
    k3 = k3
    NULL = NULL
SYMMETRY Symmetry
INVARIANTS
    TypeOK
    InBounds
    WalkExact
    MutatorTypeOK
    KeysOwned
    NamesUnique
    ForeachComplete
PROPERTIES
    IsLists
    IsDictionary
