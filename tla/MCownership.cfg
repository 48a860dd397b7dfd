SPECIFICATION OwnershipFairSpec
CONSTANTS
    Teams = {a}
    FirstSpecs <- MCFirstSpecs
    Claims = {c1, c2}
    Resources <- MCResources
    NilResources = NilResources
    None = None
    Troubles = {"edit", "by_hand", "call", "restart", "resync"}
    MaxTrouble = 1
    MaxLag = 1
    MaxLate = 1
INVARIANTS
    OwnershipTypeOK
    NamespaceHasOneOwner
    UnattendedMeansInPlace
    OwnershipInv
    OneOwnerInv
PROPERTIES
    BlockedClaimTakesOver
CHECK_DEADLOCK FALSE
