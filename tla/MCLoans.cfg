SPECIFICATION Spec
CONSTANTS
    g1 = g1
    g2 = g2
    g3 = g3
    Borrows = {g1, g2, g3}
    Buffers = {x, y, frozen}
    Storages = {p, q}
    Immutable = {frozen}
    Detached = Detached
    Empty = Empty
    NoBorrow = NoBorrow
    Patched = {"errors", "Set", "DataView"}
    MaxDepth = 4
SYMMETRY MCSymmetry
INVARIANTS
    TableIsExact
    SlicesStayInPlace
    RunsBesideExposed
PROPERTY
    LendsAsPromised
