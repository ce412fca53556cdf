SPECIFICATION Spec
CONSTANTS
    s = s
    x = x
    y = y
    v = v
    Default = Default
    Empty = Empty
    Sections = {Default, s}
    Variables = {x}
    Strings = {Empty, v}
    Addrs = {a1, a2, a3, a4}
    a1 = a1
    a2 = a2
    a3 = a3
    a4 = a4
    System = System
    User = User
    Paths = {System, User}
    InitialFiles <- SomeFiles
    NULL = NULL
SYMMETRY Symmetry
INVARIANTS
    TypeOK
    ValuesOwned
    LoadMerges
PROPERTY IsStore
