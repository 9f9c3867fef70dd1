CONSTANTS
  Bits <- MCBits
  ESC <- MCESC
  CR <- MCCR
  LF <- MCLF
  Bodies <- MCBodies
  MinLength = 5
  MaxMessages = 2
  Damages <- MCDamages
SPECIFICATION Spec
INVARIANTS
  IInv
  OthersArrive
  SentOrCut
CHECK_DEADLOCK FALSE
