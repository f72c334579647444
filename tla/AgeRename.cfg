SPECIFICATION RenameSpec
CONSTANTS
    s1 = s1
    s2 = s2
    Sessions = {s1}
    Names = {"a", "b"}
    BadNames = {}
    Labels = {"v", "w"}
    LabelIdMax = 4
    MaxOid = 9
    MaxSteps = 8
INVARIANT LabelNameIsCorrect
CHECK_DEADLOCK FALSE
