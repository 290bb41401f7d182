SPECIFICATION CardSpec
CONSTANTS
  HideDelay = 5
  ResealDelay = 2
INVARIANTS ScratchInv PeekIsShort
PROPERTIES Reseals
