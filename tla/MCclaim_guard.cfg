SPECIFICATION Spec
CONSTANTS
    Teams = {a}
    Claims = {c1}
    Images = {i1}
    Resources <- MCOneResource
    Ceiling <- MCCeiling
    None = None
    NilResources = NilResources
    MaxTenantUid = 1
    MaxClaimUid = 2
    MaxGen = 1
    MaxLag = 2
    MaxCrashes = 0
    MaxByHand = 0
    Lagging = {"ServiceClaim"}
    Env = {"race"}
    Faults = {}
INVARIANTS
    AppGuarded
    AppGuardedInv
PROPERTIES
    ServiceTornDownOnRequest
CHECK_DEADLOCK FALSE
