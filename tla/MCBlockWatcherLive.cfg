\* Liveness, without the failure that leaves an epoch without a schedule.
SPECIFICATION FairSpec
CONSTANTS
    p = p
    q = q
    Other = Other
    NoBlock = NoBlock
    maxSlotPerEpoch = 3
    NumEpochs = 2
    Pools <- MCPools
    AllowEmpty <- MCAllowEmpty
    Leads <- MCLeads
    Chains <- MCChains
    Faults = {"kill", "boot", "blockfrost", "judge", "save", "leaderlogs", "health"}
    MaxFaults = 2
PROPERTIES
    CatchesUp
