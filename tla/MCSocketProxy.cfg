\* Two endpoints, ticks of 5 s: the durations of the code.
SPECIFICATION FairSpec
CONSTANTS
    cli = cli
    Prober = Prober
    NumEndpoints = 2
    Dialers <- MCDialers
    failoverCooldown = 6
    healthProbeInterval = 3
    dialTimeout = 2
    probeTimeout = 1
    MaxFlips = 2
INVARIANTS
    TypeOK
    SkippedOnlyIfFailed
    PassedOverIfFailed
    GaugesInTime
PROPERTIES
    Settles
