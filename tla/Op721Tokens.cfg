CONSTANTS
    zero = zero
    alice = alice
    bob = bob
    pool = pool
    t1 = t1
    t2 = t2
    t3 = t3
    u1 = u1
    u2 = u2
    Token = {t1, t2, t3}
    Address = {zero, alice, pool}
    Zero = zero
    Receivers = {pool}
    Uri = {u1}
    Signers = {alice}
    MaxUris = 2
    MaxSigned = 2
SPECIFICATION Spec
SYMMETRY TokenSymmetry
CONSTRAINT MaxTokensAndMessages
INVARIANTS
    EnumerationExact
    RecordsAreSeparate
    EachSignatureUsedOnce
PROPERTIES
    ImplementsTokenRegistry
