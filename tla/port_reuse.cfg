SPECIFICATION FairSpec
CONSTANTS
  ServicePorts <- MCServicePorts
  Ports <- MCPorts
  Forwards <- MCForwards
  Overrides <- NoOverrides
  MaxWords = 4
  PoolSize = 2
  Faults = {}
  CertLoads = {TRUE}
  NoJob = NoJob
PROPERTY
  ExitCleansUp
