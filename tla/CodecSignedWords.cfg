CONSTANTS
    Throw = Throw
    Null = Null
    SegmentBits = 2
    Scale = 10
    Ln2 = 7
    MaxPow10Exponent = 2
    Base = 2
    IdBytes = 4
    SubBytes = 8
    WordBytes = 12
    MaxString = 15
    HeaderBytes = 2
    CellBytes = 3
    Digest <- ToyDigest
    Structures <- TokenStructures
    Slots = 3
    Sha256 <- ToySha256
    Hash160 <- ToyHash160
SPECIFICATION Spec
INVARIANTS
    SignedWordsRoundTrip
