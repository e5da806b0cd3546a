SPECIFICATION Spec
CONSTANTS
  Aliases = 2
  DaemonIsRoot = FALSE
  MaxFaults = 2
INVARIANTS
  SetupSuffices
  Routed
  Bindable
  UninstallReverses
  OwnLinesKept
PROPERTIES
  LinkGoes
