\* Any AST of node.h, loops included.
\* Six blocks: a function with a for, a while around an if, or two whiles with
\* a second function between them.
SPECIFICATION Spec
CONSTANTS
    MaxBlocks = 6
    MaxFns = 2
    Loops = TRUE
INVARIANTS
    TypeOK
    OwedUntouched
    InsertPointPlaced
    TornOnlyAfterRet
    IntraFunctionEdges
    ScopeBalance
