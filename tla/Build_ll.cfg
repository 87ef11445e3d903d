\* One process is asked for ll files and objects: what the linker gets of the ll files.
SPECIFICATION Spec
CONSTANTS
    Proc = {p1}
    Name = {n1, n2, n3, n4}
    NoProc = NoProc
    NoName = NoName
    MaxInputs = 2
    Requests <- LinkIr
    Promised = {}
INVARIANTS
    IrFilesCompiled
