\* The comment on compile_code_to_ir: the program compiles, the process ends.
\* Three calls.
SPECIFICATION Spec
CONSTANTS
    Addr = {a1, a2, a3}
    NoAddr = NoAddr
    MaxCalls = 3
INVARIANTS
    ValidReturns
