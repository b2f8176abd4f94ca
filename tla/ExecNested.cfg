CONSTANTS
    token = token
    vault = vault
    peer = peer
    Contract = {token, vault}
    Level <- MixedLevel
    MaxDepth = 3
    MaxGas = 3
    MaxValue = 2
SPECIFICATION Spec
INVARIANTS
    MutualExclusion
    LockMirrorsEntry
    GuardCacheFresh
PROPERTIES
    ImplementsExclusiveEntry
