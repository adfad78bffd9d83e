SPECIFICATION Spec
CONSTANTS
  foo = foo
  bar = bar
  Steps <- TwoSteps
  Kind <- TwoKinds
  MaxEntries = 3
  MaxPending = 2
  MaxEvents = 3
INVARIANTS
  TypeOK
  PrepareFailedTouchedNothing
  FailureNamesItsCulprit
  DetailsBelongToTheirStep
  ScriptletFailuresAreReported
  LossIsAnnounced
