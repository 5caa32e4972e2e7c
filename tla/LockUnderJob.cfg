SPECIFICATION Spec
CONSTANTS
    v1 = v1
    v2 = v2
    None = None
    Vault = {v1, v2}
    MaxKeys = 2
    MaxImports = 1
PROPERTY LocksQuiescentVault
