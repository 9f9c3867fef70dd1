CONSTANTS
  q = q
  ZeroQuote = zero
  NoLevel = none
  Quotes <- MCQuotes
  Sides = {"0"}
  Depth = 1
  Products = {a, b}
  Channels = {1}
  Callbacks = {c, d}
  Threads = {t1}
  Seqs = {1, 3}
  Increments <- MCIncrements
  Snapshots <- MCSnapshots
  Reentry = TRUE
CONSTRAINT Small
SYMMETRY Symmetry
SPECIFICATION SystemSpec
INVARIANTS
  TypeOK
  SubscribersFollow
PROPERTY ChangesAreDelivered
