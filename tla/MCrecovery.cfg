SPECIFICATION Spec
CONSTANTS
    Teams = {a}
    Claims = {c1}
    Images = {i1}
    Resources <- MCOneResource
    Ceiling <- MCCeiling
    None = None
    NilResources = NilResources
    MaxTenantUid = 1
    MaxClaimUid = 1
    MaxGen = 1
    MaxLag = 1
    MaxCrashes = 0
    MaxByHand = 0
    Lagging = {}
    Env = {}
    Faults = {"fail", "lost"}
INVARIANTS
    TypeOK
    DrainBeforeNamespace
PROPERTIES
    TeardownIsOrdered
CHECK_DEADLOCK FALSE
