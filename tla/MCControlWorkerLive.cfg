SPECIFICATION MCFairSpec
CONSTANTS
    MaxIssue = 2
    MaxEdits = 1
    Issues  <- IssueNumbers
    Ids     = {r1}
    Workers = {w1}
    PageSize = 1
    None    = None
PROPERTY IssuesAreAnswered
