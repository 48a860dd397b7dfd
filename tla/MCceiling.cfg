SPECIFICATION CeilingFairSpec
CONSTANTS
    Teams = {a}
    Declarations <- MCDeclarations
    FlagSettings <- MCFlagSettings
    NilResources = NilResources
    Int32Range = 8
    MaxServers = 2
INVARIANTS
    CeilingRatchet
    NeverWedged
PROPERTIES
    CeilingNeverBlocksTeardown
