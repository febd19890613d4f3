SPECIFICATION Spec
CONSTANTS
  Broadcasts = {b1, b2}
  Count <- OneEach
  Units <- TwoEach
  Limit = 2
  Savers = {s1, s2}
  MaxWork = 2
SYMMETRY Symmetry
INVARIANTS
  OverstatedIsExplained
  CountedStaysCounted
  LeftFitsUsed
  AccountStays
CHECK_DEADLOCK FALSE
