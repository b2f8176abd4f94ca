CONSTANTS
    zero = zero
    alice = alice
    bob = bob
    Address = {zero, alice, bob}
    Zero = zero
    Rate = {1, 2}
    MaxU64 = 4
    MaxBlock = 4
    k1 = k1
    k2 = k2
    k3 = k3
    v1 = v1
    v2 = v2
    Throw = Throw
    Key = {k1, k2, k3}
    Value = {v1, v2}
    Plugins = 3
    MaxOffset = 4
    HeaderBytes = 2
    CellBytes = 3
    MaxText = 7
    Texts <- WrittenTexts
    TextCells = 3
    Count = 2
    Number = {0, 1, 2}
    BitsPerSlot = 2
    MaxBits = 3
    MaxBitCalls = 6
    MaxBitRawCalls = 6
    Element = {0, 1}
    ZeroElement = 0
    PerSlot = 2
    MaxElements = 3
    MaxU32 = 7
    MaxArrayCalls = 6
    MaxArrayRawCalls = 5
SPECIFICATION ComponentsSpec
INVARIANTS
    StaleRateIsReported
    MapPlaceWithinArrays
    DispatchReachesTheHandler
    TextIsKept
    PackedNumbersAreKept
    ArrayHotSlotIsCurrent
    ArrayElementsHaveOwnCells
PROPERTIES
    RenouncedIsFinal
    MapImplementsDictionary
    BitsImplementSavedSequence
    ArrayImplementsSavedSequence
CHECK_DEADLOCK FALSE
