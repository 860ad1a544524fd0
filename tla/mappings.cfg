SPECIFICATION Spec
CONSTANTS
    Clients = {c1, c2, c3}
    Names = {n1, n2}
    None = None
    MaxRows = 3
SYMMETRY Symmetry
INVARIANTS
    OneActiveVersion
    NoSilentOverwrite
PROPERTIES
    HistoryIsKept
    HistorySpec
