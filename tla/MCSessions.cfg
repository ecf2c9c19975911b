SPECIFICATION Spec
CONSTANTS
    c1 = c1
    c2 = c2
    c3 = c3
    i1 = i1
    i2 = i2
    i3 = i3
    None = None
    Id = {1, 2, 3}
    Conn = {c1, c2, c3}
    Identity = {i1, i2, i3}
    MaxPlayerRows = 2
    MaxGeneration = 4
    MaxBatch = 2
SYMMETRY MCSymmetry
INVARIANTS
    RegistryConsistent
    GenerationsDistinct
    SessionHasItsConnection
    IdentityIndexExact
