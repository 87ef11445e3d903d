\* Programs as the lexer admits them: it has no keyword for while and for.
\* Seven blocks: a function with an if inside an if.
SPECIFICATION Spec
CONSTANTS
    MaxBlocks = 7
    MaxFns = 2
    Loops = FALSE
INVARIANTS
    OpenOnlyAtFunctionBoundary
    DanglingOnlyIfAbandoned
