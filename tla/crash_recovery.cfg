SPECIFICATION FairSpec
CONSTANTS
  ServicePorts <- MCServicePorts
  Ports <- MCPorts
  Forwards <- MCForwards
  Overrides <- NoOverrides
  MaxWords = 4
  PoolSize = 2
  Faults = {"crash"}
  CertLoads = {TRUE}
  NoJob = NoJob
PROPERTY
  EventuallyForgotten
