\* Two numbers with != between them, with and without signs and blanks.
SPECIFICATION FSpec
CONSTANTS
    Sources <- Inequalities
    BITS = 3
    Vocabulary = {}
    Starts <- NoStart
    MaxTokens = 0
    YYINITDEPTH = 4
    YYMAXDEPTH = 13
    Deepest = 20
    KnownTypes = {"void"}
INVARIANT InequalityHolds
CHECK_DEADLOCK FALSE
