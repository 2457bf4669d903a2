SPECIFICATION Spec
CONSTANTS
    ParamTokens = {":x", ":y"}
    CatchTokens = {"*filepath"}
    Declarable <- MCDeclarable
    Methods = {"GET", "POST", "HEAD", "OPTIONS"}
    Paths <- MCPaths
    StrictSlash = FALSE
    CaseSensitive = FALSE
    MaxRoutes = 3
    MaxCalls = 4
    Empty <- EmptyTree
    Insert <- insert
    Search <- search
    Binds <- Bindings
INVARIANTS
    TreeMatchesDeclarations
    AnswersRight
    ChainComplete
CHECK_DEADLOCK FALSE
