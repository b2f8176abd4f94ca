CONSTANTS
    Capacity = 1
    MAX_LENGTH = 2
    DeleteMany = TRUE
    MaxCalls = 8
    MaxRawCalls = 1
SPECIFICATION Spec
PROPERTIES
    SetChangesOneElement
