SPECIFICATION FairSpec
CONSTANTS
  Conns = {c1, c2}
  Stoppers = {s1, s2}
  AcceptErrors = 1
INVARIANTS
  StopQuiesces
  NoSpuriousLog
PROPERTIES
  NoAnswerCut
  StopCompletes
  ConnReleased
  EventuallyServed
CHECK_DEADLOCK FALSE
