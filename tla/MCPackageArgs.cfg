SPECIFICATION Spec
CONSTANTS
    Operators <- MCOperators
    EqOperators <- MCOperators
    Aliases <- MCAliases
    Kinds = {"package", "patch"}
    Inputs <- MCInputs
    Requests <- MCRequests
INVARIANTS
    CutsDoNotMatter
    SidesAreSettled
    RepoWasNamed
CHECK_DEADLOCK FALSE
