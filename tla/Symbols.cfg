\* Three functions, so that one can find what two have left; two declarations of
\* variables, constructs up to three deep.
SPECIFICATION Spec
CONSTANTS
    Name = {x, y, main}
    NoName = NoName
    Unlisted = {main}
    MaxFns = 3
    MaxSlots = 2
    MaxNest = 3
INVARIANTS
    OwnNames
    LoopNamesEnd
    GlobalsFound
