CONSTANTS
  q = q
  ZeroQuote = zero
  NoLevel = none
  Quotes <- MCQuotes
  Sides = {"0"}
  Depth = 2
  Products = {a}
  Realtime = 1
  Carousel = 13
  Channels = {1, 13}
  Callbacks = {}
  Early = {}
  Threads = {t1, t2}
  RealtimeThread = t1
  CarouselThread = t2
  MaxSessions = 2
  MaxSent = 3
  Kinds = {"I081", "I083"}
  Updates <- MCUpdates
  Reopenings <- MCReopenings
  CarouselSeqs = {1}
  Window = 4
  Delay = 1
  MayReset = FALSE
  MayThrow = FALSE
  ResetsArrive = FALSE
VIEW AnyOrderView
SPECIFICATION Spec
INVARIANTS
  FreshIsTrue
  IInv
PROPERTY ImplementsService
