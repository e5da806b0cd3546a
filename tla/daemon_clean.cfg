SPECIFICATION FairSpec
CONSTANTS
  ServicePorts <- MCServicePorts
  Ports <- PoolPorts
  Forwards <- PoolForwards
  Overrides <- NoOverrides
  MaxWords = 4
  PoolSize = 2
  Faults = {}
  CertLoads = {TRUE}
  NoJob = NoJob
INVARIANTS
  NamesLeadHome
  SettledServesAll
  AllProxiesUp
  UniqueDomains
  CleanShutdown
PROPERTIES
  EventuallyMapped
  EventuallyForgotten
  StopsEventually
