SPECIFICATION Spec
CONSTANTS
    Clients = {c1, c2}
    Names = {n1}
    None = None
    MaxRows = 3
PROPERTIES
    NoServerErrorOnUpdate
