SPECIFICATION Spec
CONSTANTS
    a = a
    b = b
    x = x
    None = None
    Unset = Unset
    Failed = Failed
    NotRead = NotRead
    NoList = NoList
    Paths <- MCPaths
    Statuses <- MCStatuses
    LastDay = 41
    Today = 40
    Jobs = {j1, j2}
    MaxRuns = 2
    Maps <- MCMaps
    Roots <- MCRoots
    Files <- MCFiles
SYMMETRY Symmetric
CHECK_DEADLOCK FALSE
INVARIANTS
    TypeOK
    FindingsAgree
    ProposalSettles
    OkIsSound
    ProposalBringsNothingNew
PROPERTY ImplementsPublication
