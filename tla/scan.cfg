SPECIFICATION ScanSpec
CONSTANTS
  Pids = {p1, p2}
  Procs <- MCProcs
  NoProc = NoProc
  ReusePids = FALSE
INVARIANTS
  ScanComplete
  ScanSound
