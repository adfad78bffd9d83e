SPECIFICATION Spec
CONSTANTS
  Packages = {p1, p2}
  PipeCapacity = 2
INVARIANTS
  CancelIgnoredOncePast
