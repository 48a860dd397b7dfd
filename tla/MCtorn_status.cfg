SPECIFICATION Spec
CONSTANTS
    Teams = {a}
    Claims = {c1}
    Images = {i1, i2}
    Resources <- MCOneResource
    Ceiling <- MCCeiling
    None = None
    NilResources = NilResources
    MaxTenantUid = 1
    MaxClaimUid = 2
    MaxGen = 2
    MaxLag = 2
    MaxCrashes = 0
    MaxByHand = 0
    Lagging = {"ServiceClaim"}
    Env = {"img_edit"}
    Faults = {}
INVARIANTS
    ReadyMeansRendered
CHECK_DEADLOCK FALSE
SYMMETRY MCImageSymmetry
