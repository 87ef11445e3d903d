\* Two processes in one directory: one with up to two inputs of every kind but
\* ll, the other with one that needs a temporary file; every order of their
\* steps, with every failure.  Three names, so that neither has to wait.
SPECIFICATION FairSpec
CONSTANTS
    Proc = {p1, p2}
    Promised = {p1}
    Name = {n1, n2, n3}
    NoProc = NoProc
    NoName = NoName
    MaxInputs = 2
    Requests <- Together
INVARIANTS
    Isolation
    DescriptorsClosed
    Leftovers
PROPERTIES
    KeepsPromise
    KeepsContract
    FirObjectsRemoved
