CONSTANTS
    token = token
    vault = vault
    peer = peer
    Contract = {token, peer}
    Level <- CallbackLevel
    MaxDepth = 2
    MaxGas = 2
    MaxValue = 2
SPECIFICATION Spec
PROPERTIES
    UpdateHookRuns
