SPECIFICATION Spec
CONSTANTS
  MaxGen = 2
  RuntimeDir = FALSE
  PartialUninstall = FALSE
INVARIANTS
  ChainValid
  InstallsSigner
  SetupLasts
PROPERTIES
  TrustKept
