SPECIFICATION FairSpec
CONSTANTS
    Teams = {a}
    Claims = {c1}
    Images = {i1, i2}
    Resources <- MCOneResource
    Ceiling <- MCCeiling
    None = None
    NilResources = NilResources
    MaxTenantUid = 1
    MaxClaimUid = 1
    MaxGen = 2
    MaxLag = 1
    MaxCrashes = 1
    MaxByHand = 0
    Lagging = {"Application"}
    Env = {"img_edit"}
    Faults = {}
INVARIANTS
    WorkloadNotOrphaned
    ReadyMeansRendered
    RenderedInv
    UnattendedClaimReconciled
    ClaimQuietInv
PROPERTIES
    ClaimsConverge
CHECK_DEADLOCK FALSE
