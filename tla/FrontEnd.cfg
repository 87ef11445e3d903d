\* Tokens of every kind behind every beginning, four of them at most, and all
\* sources of the program sets.  Integers have three bits, the stacks of the
\* parser room for thirteen states: fewer than the deepest input needs.
SPECIFICATION MCSpec
CONSTANTS
    Sources <- Programs
    BITS = 3
    Vocabulary <- Words
    Starts <- Beginnings
    MaxTokens = 4
    YYINITDEPTH = 4
    YYMAXDEPTH = 13
    Deepest = 20
    KnownTypes = {"void"}
INVARIANTS TypeOK SpellsInput Grouping SemicolonEnds BlankNeutral ArithmeticHolds Comparisons
PROPERTIES Derives Ends
CHECK_DEADLOCK FALSE
