\* Every kind of failure, two failures in a behaviour.
SPECIFICATION Spec
CONSTANTS
    p = p
    q = q
    Other = Other
    NoBlock = NoBlock
    maxSlotPerEpoch = 3
    NumEpochs = 3
    Pools <- MCPools
    AllowEmpty <- MCAllowEmpty
    Leads <- MCLeads
    Chains <- MCChains
    Faults = {"kill", "boot", "blockfrost", "ensure", "judge", "save", "enter", "leaderlogs", "refresh", "health"}
    MaxFaults = 2
INVARIANTS
    TypeOK
    VerdictsTrue
    CountersExact
    StreakExact
    Coverage
    CursorBehindTip
    SavedNotAhead
PROPERTIES
    SavedMonotone
    KeepsAccount
    PassesReach
