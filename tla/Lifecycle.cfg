SPECIFICATION Spec
CONSTANTS
    i1 = i1
    i2 = i2
    None = None
    Processes = {i1, i2}
    Requests = {r1, r2}
    SeedStock <- MCSeedStock
    Environments <- MCEnvironments
    MaxFaults = 2
INVARIANT TypeOK
INVARIANT ServesOnlyWhenReady
INVARIANT NeverRestocked
PROPERTY CleanExitDropsNothing
PROPERTY SignalStopsProcess
PROPERTY RecoversFromFaults
CHECK_DEADLOCK FALSE
