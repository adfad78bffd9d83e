SPECIFICATION ProxyFairSpec
CONSTANTS
  Packages = {p1, p2}
  PipeCapacity = 1
PROPERTIES
  CancelledCallReturns
  CancelNeverHangs
  OnlyTheHumanBlocks
