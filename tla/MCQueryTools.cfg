SPECIFICATION QuerySpec
CONSTANTS
    Idents <- MCIdents
    Hidden <- MCHidden
    Repos = {"r1", "r2"}
    Priority <- MCPriority
    Hits <- MCHits
    DescriptionHits <- MCHidden
    Providers <- MCProviders
    Named <- MCNamed
    Depends <- MCDepends
    Pools <- MCPools
    Requests <- MCRequests
    Categories = {"security", "bugfix"}
    Severities = {"low"}
    Dates = {0, 1, 2}
    None = None
    Malformed = Malformed
    Issues <- MCIssues
    PatchSets <- MCPatchSets
    UpdateRequests <- MCUpdateRequests
INVARIANTS
    RowsAreReal
    EveryMatchIsShown
    PatchFiltersMeanWhatTheySay
CHECK_DEADLOCK FALSE
