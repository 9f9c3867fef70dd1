CONSTANTS
  q = q
  ZeroQuote = zero
  NoLevel = none
  Quotes <- MCQuotes
  Sides = {"0"}
  Depth = 2
  Products = {a, b}
  Realtime = 1
  Carousel = 13
  Channels = {1, 13}
  Callbacks = {}
  Early = {}
  Threads = {t1, t2}
  RealtimeThread = t1
  CarouselThread = t2
  MaxSessions = 1
  MaxSent = 4
  Kinds = {"I024"}
  Updates <- MCUpdates
  Reopenings <- MCReopenings
  CarouselSeqs = {1}
  Window = 0
  Delay = 0
  MayReset = FALSE
  MayThrow = FALSE
  ResetsArrive = FALSE

SPECIFICATION Spec
INVARIANTS
  FreshCoversChannel
