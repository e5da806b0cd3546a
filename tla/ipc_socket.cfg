SPECIFICATION FairSpec
CONSTANTS
  Daemons = {d1, d2}
  Clients = {c1}
  NoDaemon = NoDaemon
  MaxCrashes = 2
INVARIANTS
  Reachable
  NoDeadSocket
PROPERTIES
  StoppedMeansStopped
  StaleSocketHarmless
