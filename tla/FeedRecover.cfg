CONSTANTS
  q = q
  ZeroQuote = zero
  NoLevel = none
  Quotes <- MCQuotes
  Sides = {"0"}
  Depth = 2
  Products = {a}
  Realtime = 1
  Carousel = 13
  Channels = {1, 13}
  Callbacks = {}
  Early = {}
  Threads = {t1, t2}
  RealtimeThread = t1
  CarouselThread = t2
  MaxSessions = 2
  MaxSent = 3
  Kinds = {"I081", "I001", "I140"}
  Updates <- MCInsertions
  Reopenings <- MCReopenings
  CarouselSeqs = {1, 3}
  Window = 0
  Delay = 1
  MayReset = FALSE
  MayThrow = FALSE
  ResetsArrive = TRUE
SPECIFICATION FairSpec
INVARIANTS
  NoFalseAlarm
  BooksSettle
PROPERTY
  CatchesUp
