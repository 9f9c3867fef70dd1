CONSTANTS
  Main = main
  Nobody = nobody
  Parsers = {rt}
  Descriptors = {3}
  MaxStarts = 1
  Python = TRUE
SPECIFICATION FairSpec
PROPERTY
  DestructorReturns
CHECK_DEADLOCK FALSE
