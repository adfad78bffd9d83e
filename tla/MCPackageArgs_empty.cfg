SPECIFICATION Spec
CONSTANTS
    Operators <- MCOperators
    EqOperators <- MCOperators
    Aliases <- MCAliases
    Kinds = {"package", "patch"}
    Inputs <- MCWithEmpty
    Requests <- MCRequests
INVARIANTS
    EmptyStringsDoNotMatter
CHECK_DEADLOCK FALSE
