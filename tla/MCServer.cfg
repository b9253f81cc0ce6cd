\* One mutating RPC, one Watch stream and up to two faults in every configuration.
SPECIFICATION FairSpec
CONSTANTS
  Configs <- SomeConfigs
  DrainerLoops = {"fga-register-drainer"}
  Calls = {c1}
  Streams = {w1}
  WorkerTimeout = 1
  OrphanGrace = 2
  MaxFaults = 2
INVARIANT TypeOK
INVARIANT CleanExit
INVARIANT NotReadyFirst
INVARIANT NoEarlySettlement
PROPERTY ShutdownCompletes
PROPERTY SettledAcrossRestarts
PROPERTY CreatesAreRegistered
