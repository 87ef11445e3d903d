SPECIFICATION Spec
CONSTANTS
    Proc = {p1, p2, p3}
    Verbose = p1
    Length <- Lengths
    Json = Json
    Readme = Readme
    Main = Main
    NoSuchPath = NoSuchPath
    User = User
    Entries = {Json, Main}
SYMMETRY Symmetry
INVARIANTS FilesWhole ProjectFileFirst Coherent
PROPERTIES ErrorHasCause
CHECK_DEADLOCK FALSE
