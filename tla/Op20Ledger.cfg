CONSTANTS
    zero = zero
    alice = alice
    bob = bob
    pool = pool
    Address = {zero, alice, bob, pool}
    Zero = zero
    Receivers = {pool}
    Deployer = alice
    MaxU256 = 2
    Spenders = {zero, bob}
    MaxBlock = 0
    MaxSigned = 0
SPECIFICATION Spec
INVARIANTS
    TypeOK
    SupplyConserved
    AllowanceWithinGrant
PROPERTIES
    ImplementsTokenLedger
    IncreaseNeverLowers
