SPECIFICATION Spec
CONSTANTS
  c1 = c1
  c2 = c2
  A = A
  B = B
  None = None
  IdA = IdA
  IdB = IdB
  Calls = {c1, c2}
  Nobody = Nobody
  NoCall = NoCall
  Builds <- MCBuilds
  Snapshots <- MCSnapshots
  Targets <- MCTargets
  Asked <- MCAsked
  Requires <- MCRequires
  Provides <- MCProvides
  Eula <- MCEula
  NoText = None
  LicenseId <- MCLicenseId
  Replacements = FALSE
SYMMETRY Symmetry
INVARIANTS
  EveryLicenseAgreed
  PoolIsTheSystem
PROPERTIES
  OnlyConfirmsChangeIt
