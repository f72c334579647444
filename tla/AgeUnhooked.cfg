SPECIFICATION UnhookedSpec
CONSTANTS
    s1 = s1
    s2 = s2
    Sessions = {s1}
    Names = {"a"}
    BadNames = {}
    Labels = {"v"}
    LabelIdMax = 3
    MaxOid = 6
    MaxSteps = 8
INVARIANT CatalogConsistent
CHECK_DEADLOCK FALSE
