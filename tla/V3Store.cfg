CONSTANTS
    n1 = n1
    n2 = n2
    s1 = s1
    r1 = r1
    Node = {n1, n2}
    Shard = {s1}
    MaxObj = 4
    ShardOf <- OneShard
    MaxFaults = 1
    MaxCrashes = 1
    Reader = {r1}
SYMMETRY Nodes
SPECIFICATION Spec
INVARIANTS
    TypeOK
    NoDanglingReference
    StagedObjectsPinned
    CommittedMediaComplete
    NeverRefusedAsDamaged
    StagedIndexIsLatest
    LiveNodesReadable
    ReadFailsOnlyIfSuperseded
PROPERTIES
    NoReversion
    ImplementsObjectVault
