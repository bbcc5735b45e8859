\* No failure at all: a pool without slots in an epoch.
SPECIFICATION Spec
CONSTANTS
    p = p
    q = q
    Other = Other
    NoBlock = NoBlock
    maxSlotPerEpoch = 3
    NumEpochs = 3
    Pools <- MCPools
    AllowEmpty <- MCAllowEmpty
    Leads <- MCLeads
    Chains <- MCChains
    Faults = {}
    MaxFaults = 1
PROPERTIES
    NoNextSlotIsNoPanic
