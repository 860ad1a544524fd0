SPECIFICATION Spec
CONSTANTS
    FileIds = {f1, f2}
    MappingIds = {m1, m2}
    None = None
    Imported = {f1}
    MaxRequests = 3
SYMMETRY MappingSymmetry
INVARIANTS
    PatientLaunchedAsPreviewed
    PatientRunIsForThisFile
