CONSTANTS
  q = q
  ZeroQuote = zero
  NoLevel = none
  Quotes <- MCQuotes
  Sides = {"0"}
  Depth = 2
  Products = {a, b}
  Realtime = 1
  Carousel = 13
  Channels = {1, 13}
  Callbacks = {c}
  Early = {c}
  Threads = {t1, t2}
  RealtimeThread = t1
  CarouselThread = t1
  MaxSessions = 1
  MaxSent = 3
  Kinds = {"I024", "I001"}
  Updates <- MCUpdates
  Reopenings <- MCReopenings
  CarouselSeqs = {1}
  Window = 0
  Delay = 1
  MayReset = TRUE
  MayThrow = TRUE
  ResetsArrive = FALSE
SYMMETRY Symmetry
VIEW SingleView
SPECIFICATION Spec
INVARIANTS
  FreshCoversChannel
