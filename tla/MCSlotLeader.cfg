\* Both callers, two pools, two failures.
SPECIFICATION FairSpec
CONSTANTS
    p = p
    q = q
    Watcher = Watcher
    Scheduler = Scheduler
    NumEpochs = 2
    Pools <- MCPools
    concurrency = 1
    MaxFaults = 2
INVARIANTS
    TypeOK
    RowsRight
    BootAlone
    NeverStuck
    LimitTwice
PROPERTIES
    KeepsTable
    Boots
