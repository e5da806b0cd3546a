SPECIFICATION FairSpec
CONSTANTS
  Cmds = {c1, c2}
  Ports = {p1, p2}
  Names = {n1}
  Polls = {0, 2}
  None = None
  Null = Null
  NoText = NoText
  Garbled = Garbled
INVARIANTS
  UpdatesKept
  StaysStartable
PROPERTIES
  DaemonComesUp
