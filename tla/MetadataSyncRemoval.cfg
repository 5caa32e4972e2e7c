CONSTANTS
    g1 = g1
    g2 = g2
    m1 = m1
    a = a
    b = b
    root = root
    Gallery = {g1, g2}
    Media = {m1}
    Root = root
    Name = {a, b}
    MaxDepth = 2
    MaxFaults = 2
SPECIFICATION Spec
INVARIANTS
    RemovalsCommit
