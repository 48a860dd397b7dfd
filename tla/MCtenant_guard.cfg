SPECIFICATION Spec
CONSTANTS
    Teams = {a}
    Claims = {}
    Images = {i1}
    Resources <- MCOneResource
    Ceiling <- MCCeiling
    None = None
    NilResources = NilResources
    MaxTenantUid = 2
    MaxClaimUid = 1
    MaxGen = 1
    MaxLag = 1
    MaxCrashes = 1
    MaxByHand = 0
    Lagging = {"Tenant", "Namespace"}
    Env = {}
    Faults = {"lost"}
INVARIANTS
    NamespaceGuarded
    NamespaceGuardedInv
PROPERTIES
    NamespaceDeletedOnRequest
CHECK_DEADLOCK FALSE
