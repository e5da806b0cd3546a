SPECIFICATION Spec
CONSTANTS
  ServicePorts <- MCServicePorts
  Ports <- MCPorts
  Forwards <- FaultForwards
  Overrides <- NoOverrides
  MaxWords = 4
  PoolSize = 2
  Faults = {"crash", "scan", "conf", "read", "hosts", "reload", "bind"}
  CertLoads = {TRUE}
  NoJob = NoJob
INVARIANTS
  TypeOK
  PoolAccounted
  ListenersOwned
  RecordsPresent
PROPERTIES
  ListedLast
  ImplementsPortMap
