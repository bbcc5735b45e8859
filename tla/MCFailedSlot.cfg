\* One failing lookup.
SPECIFICATION Spec
CONSTANTS
    p = p
    q = q
    Other = Other
    NoBlock = NoBlock
    maxSlotPerEpoch = 3
    NumEpochs = 2
    Pools <- MCPools
    AllowEmpty <- MCAllowEmpty
    Leads <- MCLeads
    Chains <- MCChains
    Faults = {"judge"}
    MaxFaults = 1
INVARIANTS
    FailedSlotJudged
