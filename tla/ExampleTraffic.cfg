CONSTANTS
  parser = parser
  snapshot_parser = snapshot_parser
  book_mgr = book_mgr
  logger = logger
  Parsers = {parser, snapshot_parser}
  Descriptors = {3, 4}
  MaxStarts = 1
  Python = FALSE
  Main = main
  Nobody = nobody
SPECIFICATION TrafficSpec
INVARIANTS
  ResourcesOutlive
  DescriptorIsOwn
PROPERTY
  MainReturns
CHECK_DEADLOCK FALSE
