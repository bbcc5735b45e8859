\* The pool or the network watcher beside the status watcher.
SPECIFICATION Spec
CONSTANTS
    Interval <- MCInterval
    PassMax = 1
    MaxEvents = 3
    ActivePools <- MCActivePools
    RewardAccount <- MCRewardAccount
    Configurations <- MCConfigurations
INVARIANTS
    TypeOK
    ReadyInTime
    FreshGauges
    FreshNetwork
