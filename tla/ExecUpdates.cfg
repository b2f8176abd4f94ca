CONSTANTS
    token = token
    vault = vault
    peer = peer
    Contract = {token, peer}
    Level <- CallbackLevel
    MaxDepth = 2
    MaxGas = 4
    MaxValue = 2
SPECIFICATION FairSpec
INVARIANTS
    TypeOK
    DataCacheFresh
    NoLostUpdate
PROPERTIES
    GuardReleased
