SPECIFICATION Spec
CONSTANTS
  MaxGen = 2
  RuntimeDir = TRUE
  PartialUninstall = FALSE
INVARIANTS
  SetupLasts
