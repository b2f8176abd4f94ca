CONSTANTS
    app = app
    lib = lib
    fresh = fresh
    k1 = k1
    k2 = k2
    plain = plain
    alice = alice
    bob = bob
    lost = lost
    Contract = {app, lib, fresh}
    Missing = Missing
    Code = {k1, k2, plain}
    Timelocked = {k1, k2}
    Delay <- SameDelay
    InitialCode <- Three
    Account = {alice, bob}
    Deployer <- Deployers
    NoAddress = NoAddress
    MaxU64 = 15
    MaxBlock = 4
    MaxEvents = 4
SPECIFICATION Spec
CHECK_DEADLOCK FALSE
INVARIANTS
    EventsTellPendingUpdate
    EffectiveBlockHonoured
    ReviewedCodeIsInstalled
