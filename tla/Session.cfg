\* A client that makes five calls and opens files of its own; three addresses.
SPECIFICATION Spec
CONSTANTS
    Addr = {a1, a2, a3}
    NoAddr = NoAddr
    MaxCalls = 5
INVARIANTS
    NoForeignText
    OpenOnlyAfterThrow
    ExitHasCause
