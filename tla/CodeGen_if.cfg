\* The comment on the early returns of IfStmtAst::codegen.
SPECIFICATION Spec
CONSTANTS
    MaxBlocks = 7
    MaxFns = 1
    Loops = FALSE
INVARIANTS
    AbandonOnlyOnError
