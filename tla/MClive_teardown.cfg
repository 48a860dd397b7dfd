SPECIFICATION FairSpec
CONSTANTS
    Teams = {a}
    Claims = {c1}
    Images = {i1}
    Resources <- MCOneResource
    Ceiling <- MCCeiling
    None = None
    NilResources = NilResources
    MaxTenantUid = 1
    MaxClaimUid = 1
    MaxGen = 1
    MaxLag = 1
    MaxCrashes = 0
    MaxByHand = 1
    Lagging = {"Application", "Tenant"}
    Env = {"race", "resync", "app_delete"}
    Faults = {"list"}
PROPERTIES
    ClaimDeletionCompletes
    TenantDeletionCompletes
    ResyncRepairs
CHECK_DEADLOCK FALSE
