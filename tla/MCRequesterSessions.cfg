SPECIFICATION BoundedSpec
CONSTANTS
  Pools <- MCPools
  OptionSets <- MCOptions
  Jobs <- MCJobs
  MaxJobs = 2
  Provides <- MCProvides
  Priority <- MCPriority
  System = "system"
  AnyRepo = "anyrepo"
  AnyArch = "anyarch"
  NoItem = NoItem
  NoSpec = NoSpec
  PatchPools <- MCPatchPools
  PatchOptions <- MCPatchOptions
  MaxPatchJobs = 2
  Categories = {"security", "recommended", "optional"}
  Forever = 9
  NoPatch = NoPatch
CHECK_DEADLOCK FALSE
INVARIANTS
  NoUnaskedDowngrade
  VendorKept
  SetOnSystemCannotFail
  RemoveByNameStaysByName
  RefusalLosesNothing
  UpdateStackGoesAlone
  EveryNeededPatchAnswered
PROPERTIES
  UpdateNeverPicks
