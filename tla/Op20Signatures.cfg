CONSTANTS
    zero = zero
    alice = alice
    bob = bob
    pool = pool
    Address = {zero, alice}
    Zero = zero
    Receivers = {}
    Deployer = alice
    MaxU256 = 1
    Spenders = {alice}
    MaxBlock = 1
    MaxSigned = 2
SPECIFICATION Spec
INVARIANTS
    EachSignatureUsedOnce
PROPERTIES
    NoneAcceptedAfterTransition
