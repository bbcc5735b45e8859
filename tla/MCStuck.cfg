\* The refresh of the new epoch fails once.
SPECIFICATION FairSpec
CONSTANTS
    p = p
    q = q
    Other = Other
    NoBlock = NoBlock
    maxSlotPerEpoch = 3
    NumEpochs = 2
    Pools <- MCPools
    AllowEmpty <- MCAllowEmpty
    Leads <- MCLeads
    Chains <- MCChains
    Faults = {"refresh", "enter"}
    MaxFaults = 1
PROPERTIES
    CatchesUp
