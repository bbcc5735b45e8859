\* No failure at all: the first slot of an epoch.
SPECIFICATION Spec
CONSTANTS
    p = p
    q = q
    Other = Other
    NoBlock = NoBlock
    maxSlotPerEpoch = 3
    NumEpochs = 2
    Pools <- MCPools
    AllowEmpty <- MCAllowEmpty
    Leads <- MCLeads
    Chains <- MCChains
    Faults = {}
    MaxFaults = 1
INVARIANTS
    NoSlotMissed
