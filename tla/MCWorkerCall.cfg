SPECIFICATION Spec
CONSTANTS
  Packages = {p1, p2, p3}
  PipeCapacity = 2
SYMMETRY PackageSymmetry
INVARIANTS
  TypeOK
  TransactionNeverSignalled
  RecheckNeverDiffers
  RepliesMatchQuestions
  PollNeverAbortsTransaction
  ResultIsHonest
PROPERTIES
  ImplementsContract
