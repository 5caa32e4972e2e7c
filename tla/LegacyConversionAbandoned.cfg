CONSTANTS
    c1 = c1
    c2 = c2
    s1 = s1
    s2 = s2
    root = root
    i2 = i2
    i3 = i3
    i4 = i4
    i5 = i5
    i6 = i6
    Nobody = Nobody
    User = User
    None = None
    Blank = Blank
    Edited = Edited
    Converter = {c1}
    Source = {s1}
    Nodes = 5
    Gallery = {1, 3}
    Derived = {2, 5}
    ParentOf <- TwoLevels
    Id = {root, i2, i3, i4, i5, i6}
    RootId = root
    BatchNodes = 2
    MaxStops = 1
    MaxOpens = 0
SPECIFICATION Spec
INVARIANTS
    StoppedConversionIsResumable
