CONSTANTS
  Main = main
  Nobody = nobody
  Parsers = {rt}
  Descriptors = {3, 4}
  MaxStarts = 3
  Python = TRUE
SPECIFICATION FairSpec
INVARIANTS
  IInv
  QuietAfterEnd
  NoAbort
PROPERTY
  EndLoopReturns
CHECK_DEADLOCK FALSE
