SPECIFICATION Spec
CONSTANTS
    s1 = s1
    s2 = s2
    Sessions = {s1, s2}
    Names = {"a", "b"}
    BadNames = {}
    Labels = {"v", "w"}
    LabelIdMax = 3
    MaxOid = 5
    MaxSteps = 5
SYMMETRY SessionSymmetry
INVARIANT TypeOK
INVARIANT CacheFresh
INVARIANT CatalogConsistent
PROPERTY ShortageIsReal
CHECK_DEADLOCK FALSE
