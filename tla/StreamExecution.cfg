CONSTANTS
  Auth = {a1}
  Mode = {"sse", "scanner"}
  Lines = 2
  Depth = 1
SPECIFICATION FairSpec
INVARIANTS
  OneReport
  HonestReport
  WholeAnswer
PROPERTIES
  Released
  StallEnds
CHECK_DEADLOCK FALSE
