SPECIFICATION Spec
CONSTANTS
    g1 = g1
    g2 = g2
    g3 = g3
    Borrows = {g1, g2}
    Buffers = {x, frozen}
    Storages = {p, q}
    Immutable = {frozen}
    Detached = Detached
    Empty = Empty
    NoBorrow = NoBorrow
    Patched = {"errors"}
    MaxDepth = 4
INVARIANT
    GuestRunsAlone
