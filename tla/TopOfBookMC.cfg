CONSTANTS
  q1 = q1
  q2 = q2
  ZeroQuote = zero
  NoLevel = none
  Quotes <- MCQuotes
  Regular = "0"
  Derived = "E"
  Sides <- MCSides
  Depth = 3
  MaxDeep = 5
  MaxEvents = 2
SYMMETRY Symmetry
SPECIFICATION Spec
INVARIANTS
  TypeOK
  BookIsPublished
