SPECIFICATION MCSpec
CONSTANTS
    MaxIssue = 2
    MaxEdits = 1
    Issues  <- IssueNumbers
    Ids     = {r1, r2}
    Workers = {w1, w2}
    PageSize = 2
    None    = None
SYMMETRY Symmetric
INVARIANTS
    TypeOK
    OneAnswer
    AnswersAreTrue
    PostedIsThere
PROPERTIES
    ImplementsDesk
