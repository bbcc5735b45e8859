\* The gauges while no goroutine is publishing them.
SPECIFICATION Spec
CONSTANTS
    cli = cli
    Prober = Prober
    NumEndpoints = 2
    Dialers <- MCDialers
    failoverCooldown = 6
    healthProbeInterval = 3
    dialTimeout = 2
    probeTimeout = 1
    MaxFlips = 2
INVARIANTS
    OneActive
