SPECIFICATION FairSpec
CONSTANTS
  Aliases = 1
  DaemonIsRoot = FALSE
  MaxFaults = 0
PROPERTIES
  SurvivesReboot
