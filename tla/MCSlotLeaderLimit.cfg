\* A refresh of the watcher and one of the scheduler overlap.
SPECIFICATION Spec
CONSTANTS
    p = p
    q = q
    Watcher = Watcher
    Scheduler = Scheduler
    NumEpochs = 2
    Pools <- MCPools
    concurrency = 1
    MaxFaults = 0
INVARIANTS
    LimitKept
