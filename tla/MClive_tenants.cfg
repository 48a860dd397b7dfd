SPECIFICATION FairSpec
CONSTANTS
    Teams = {a}
    Claims = {}
    Images = {i1}
    Resources <- MCAllResources
    Ceiling <- MCCeiling
    None = None
    NilResources = NilResources
    MaxTenantUid = 2
    MaxClaimUid = 1
    MaxGen = 2
    MaxLag = 1
    MaxCrashes = 0
    MaxByHand = 1
    Lagging = {"Namespace", "ResourceQuota"}
    Env = {"drift", "res_edit"}
    Faults = {}
INVARIANTS
    UnattendedTenantReconciled
    TenantQuietInv
PROPERTIES
    TenantsConverge
CHECK_DEADLOCK FALSE
